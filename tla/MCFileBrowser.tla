--------------------------- MODULE MCFileBrowser ---------------------------
(***************************************************************************)
(* A directory tree for FileBrowser, in which a name is found in several   *)
(* places and two links lead to other directories:                         *)
(*   /a/b/d  /a/d  /a/l -> /c  /c/d  /c/b -> /a, and a file f everywhere   *)
(***************************************************************************)
EXTENDS FileBrowser
CONSTANTS root, a, ab, abd, ad, c, cd

Dir(n, to) == [name |-> n, kind |-> "dir", to |-> to]
Link(n, to) == [name |-> n, kind |-> "link", to |-> to]
File(n) == [name |-> n, kind |-> "file", to |-> None]

MCDirs == {root, a, ab, abd, ad, c, cd}
MCEntries ==
  [d \in MCDirs |-> {File("f")} \cup
     CASE d = root -> {Dir("a", a), Dir("c", c)}
       [] d = a -> {Dir("b", ab), Dir("d", ad), Link("l", c)}
       [] d = ab -> {Dir("d", abd)}
       [] d = c -> {Dir("d", cd), Link("b", a)}
       [] OTHER -> {}]
D(n) == [name |-> n, slash |-> TRUE]
MCStarts == {<<>>, <<D("a"), D("b")>>}
=============================================================================
