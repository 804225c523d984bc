---------------------------- MODULE FileBrowser ----------------------------
(***************************************************************************)
(* f_tool_file_browser: a list of the current directory, with the path as  *)
(* its title, and file_rover, which reads directories.                     *)
(*                                                                         *)
(* Four things must agree: the string dir_path, the process's current      *)
(* directory, the rows in memory and the list on the screen.  All of it    *)
(* runs in LVGL's thread; what may go wrong is any chdir or opendir, and   *)
(* how the string is put together.                                         *)
(*                                                                         *)
(* A path is the sequence of the names it was put together from, each with *)
(* or without a '/' behind it; "/" is the empty one.                       *)
(***************************************************************************)
EXTENDS Integers, Sequences, SequencesExt

CONSTANTS
  Directories,  \* the directories
  Root,         \* "/"
  Entries,      \* what is in each: records of a name, a kind, and a directory
                \* to for the kinds "dir" and "link", a link to a directory
  Starts,       \* the paths in which the program may be started
  None          \* no directory, no rows

ASSUME BrowserAssumption ==
  /\ Root \in Directories /\ None \notin Directories
  /\ \A d \in Directories : \A e \in Entries[d] :
       /\ e.kind \in {"dir", "link", "file"}
       /\ e.to \in IF e.kind = "file" THEN {None} ELSE Directories
       /\ \A f \in Entries[d] : f.name = e.name => f = e

VARIABLES
  dir_path,  \* the path of the title, and of files that are opened
  cwd,       \* the current directory of the process
  rows,      \* the directory whose rows are in memory, or None
  shown,     \* the directory whose rows the list shows, or None if it is empty
  up,        \* whether the list has a button ". ."
  upFailed,  \* history: going up has failed, and no click has worked since
  result,    \* history: what the last click on a directory came to
  opened     \* history: the path of the file opened last

fvars == <<dir_path, cwd, rows, shown, up, upFailed, result, opened>>

-----------------------------------------------------------------------------
(* Paths *)

Piece(e) == [name |-> e.name, slash |-> e.kind = "dir"]

\* ls puts a '/' behind the name of a directory, but not of a link to one, so
\* that the name put behind a link's is one name with it.
EndsInSlash(path) == path = <<>> \/ Last(path).slash

Enter(d, name) ==
  LET found == {e \in Entries[d] : e.name = name /\ e.kind # "file"}
  IN IF found = {} THEN None ELSE (CHOOSE e \in found : TRUE).to

\* Where the first n names of a path lead, from Root.
Reach(path) ==
  LET at[n \in 0..Len(path)] ==
        IF n = 0 THEN Root
        ELSE IF at[n - 1] = None THEN None ELSE Enter(at[n - 1], path[n].name)
  IN  at

\* The directory that a path leads to.  Two names that became one are taken to
\* name nothing.
Follow(path) ==
  IF \E i \in 1..Len(path) - 1 : ~path[i].slash THEN None
  ELSE Reach(path)[Len(path)]

\* getcwd says where the process is.
Pieces == {[name |-> e.name, slash |-> s] : e \in UNION {Entries[d] : d \in Directories},
                                            s \in BOOLEAN}
ASSUME StartsAssumption ==
  \A path \in Starts : path \in Seq(Pieces) /\ Follow(path) \in Directories

\* The last character is cut off and then everything behind the last '/'.
Parent(path) ==
  LET kept == {0} \cup {i \in 1..Len(path) - 1 : path[i].slash}
  IN SubSeq(path, 1, CHOOSE i \in kept : \A j \in kept : j <= i)

-----------------------------------------------------------------------------
(* file_rover *)

\* ls: opendir may fail, and its -1 becomes nfiles.
Ls(d) == {d, None}

\* lv_f_tool_file_update_list: the list shows the rows and its title the path.
UpdateList(path) ==
  /\ shown' = rows'
  /\ up' = (path # <<>>)

\* Mutant: the handler forgets to take the path over.
ArriveForgets(path) ==
  /\ Follow(path) # None
  /\ cwd' = Follow(path)
  /\ rows' \in Ls(cwd')
  /\ dir_path' = dir_path
  /\ UpdateList(dir_path)
  /\ upFailed' = FALSE
  /\ result' = "ok"

\* chdir(path) works and the directory is read, which counts as success even
\* when it could not be.
Arrive(path) ==
  /\ Follow(path) # None
  /\ cwd' = Follow(path)
  /\ rows' \in Ls(cwd')
  /\ dir_path' = path
  /\ UpdateList(path)
  /\ upFailed' = FALSE
  /\ result' = "ok"

\* chdir(path) does not: the rows are gone, and the list stays.
Stay(path) ==
  /\ result' = IF Follow(path) = None THEN "missing" ELSE "refused"
  /\ rows' = None
  /\ UNCHANGED <<cwd, shown, up>>

-----------------------------------------------------------------------------
\* lv_f_tool_file_browser_init with file_rover_get_row_cwd: chdir to what
\* getcwd has just said.
FInit ==
  /\ dir_path \in Starts
  /\ cwd = Follow(dir_path)
  /\ rows \in Ls(cwd)
  /\ shown = rows
  /\ up = (dir_path # <<>>)
  /\ upFailed = FALSE
  /\ result = "ok"
  /\ opened = <<>>

\* A click on ". .": file_rover_get_row_up cuts dir_path itself before it
\* knows whether chdir works.  In "/" it does nothing.
ClickUp ==
  /\ up /\ dir_path # <<>>
  /\ \/ Arrive(Parent(dir_path))
     \/ /\ Stay(Parent(dir_path))
        /\ dir_path' = Parent(dir_path)
        /\ upFailed' = TRUE
  /\ UNCHANGED opened

Shown == IF shown = None THEN {} ELSE Entries[shown]

\* Mutant: the path is taken over before chdir.
ClickDownEarly ==
  /\ \E e \in Shown :
       /\ e.kind # "file"
       /\ LET path == Append(dir_path, Piece(e)) IN
            \/ Arrive(path)
            \/ Stay(path) /\ dir_path' = path /\ UNCHANGED upFailed
  /\ UNCHANGED opened

\* A click on a directory: file_rover_get_row_down with dir_path and the text
\* of the button.
ClickDown ==
  /\ \E e \in Shown :
       /\ e.kind # "file"
       /\ LET path == Append(dir_path, Piece(e)) IN
            \/ Arrive(path)
            \/ Stay(path) /\ UNCHANGED <<dir_path, upFailed>>
  /\ UNCHANGED opened

\* A click on a file: the function for its suffix gets dir_path and the text.
\* (A name without a '.' makes strrchr return NULL, which + 1 is not.)
ClickFile ==
  /\ \E e \in Shown :
       e.kind = "file" /\ opened' = Append(dir_path, Piece(e))
  /\ UNCHANGED <<dir_path, cwd, rows, shown, up, upFailed, result>>

FNext == ClickUp \/ ClickDown \/ ClickFile

FSpec == FInit /\ [][FNext]_fvars

-----------------------------------------------------------------------------
\* The path of the title leads to the directory whose rows the list shows, and
\* that is the process's own, whichever calls have failed, unless the last that
\* failed was going up (l.271-278 of file_rover.c).
PathIsShown ==
  /\ upFailed \/ Follow(dir_path) = cwd
  /\ shown \in {cwd, None}

\* The rows in memory are those the list shows; after a click that failed they
\* may be gone while the list still shows them (l.233-243, 263-278).
RowsAreShown == rows = shown \/ (rows = None /\ result # "ok")

\* Path, list, process and rows agree.
ShownAgrees == PathIsShown /\ RowsAreShown

\* A click opens what its button names, in the directory that the list shows:
\* a directory that is entered is the one of that name there, a name that
\* is there is found, and so is a file.  The exceptions are a failed way up, and
\* a directory that was entered by a link, whose path lacks its '/' (l.69).
OpensWhatIsNamed ==
  [][upFailed \/
       /\ result' = "ok" /\ Len(dir_path') > Len(dir_path) =>
            cwd' = Enter(shown, Last(dir_path').name)
       /\ result' = "missing" => ~EndsInSlash(dir_path)
       /\ opened' # opened =>
            ~EndsInSlash(dir_path) \/ Follow(Front(opened')) = shown]_fvars
=============================================================================
