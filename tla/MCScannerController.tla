------------------------ MODULE MCScannerController ------------------------
(***************************************************************************)
(* The scanner on a small disk: a home directory with three files of two   *)
(* suffixes, one of them empty, and a folder, the same directory under a   *)
(* relative path, an empty one, and a path that does not exist.            *)
(***************************************************************************)
EXTENDS ScannerController, TLC

CONSTANTS readme, notes, main, src, home, dot, vacant, nowhere, none

MCPaths == {home, dot, vacant, nowhere}
MCAbsolute == [p \in MCPaths |-> IF p = dot THEN home ELSE p]
MCDirectories == {home, dot, vacant}
MCEntries == {readme, notes, main, src}
MCTree == [d \in MCDirectories |-> IF d = vacant THEN {} ELSE MCEntries]
MCSuffixes == {"cpp", "md"}
MCSuffixLess == {<<"cpp", "md">>}
MCInfo == (readme :> [isDir |-> FALSE, suffix |-> "md", size |-> 1])
       @@ (notes  :> [isDir |-> FALSE, suffix |-> "md", size |-> 0])
       @@ (main   :> [isDir |-> FALSE, suffix |-> "cpp", size |-> 2])
       @@ (src    :> [isDir |-> TRUE, suffix |-> "cpp", size |-> 3])

(* What the user may enter: blanks, a padded path, a relative one, ...     *)
MCTexts == {"   ", "/home ", ".", "/vacant", "/nowhere"}
MCClean == [t \in MCTexts |->
  CASE t = "   " -> none [] t = "/home " -> home [] t = "." -> dot
    [] t = "/vacant" -> vacant [] t = "/nowhere" -> nowhere]
(* ... or pick: a local folder, and a remote one, whose text is no path.   *)
MCUrls == {"file:///vacant", "smb://host/share"}
MCUrlText == [u \in MCUrls |-> IF u = "file:///vacant" THEN "/vacant" ELSE "/nowhere"]
=============================================================================
