SPECIFICATION FSpec
CONSTANTS
  root = root
  a = a
  ab = ab
  abd = abd
  ad = ad
  c = c
  cd = cd
  None = None
  Directories <- MCDirs
  Root <- root
  Entries <- MCEntries
  Starts <- MCStarts
INVARIANTS ShownAgrees
PROPERTIES OpensWhatIsNamed
CHECK_DEADLOCK FALSE
