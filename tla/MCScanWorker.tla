---------------------------- MODULE MCScanWorker ----------------------------
(***************************************************************************)
(* Every directory that can be made of four entries, given to the worker   *)
(* one after the other: two files share a suffix, two suffixes weigh the   *)
(* same, and one entry is a folder.                                        *)
(***************************************************************************)
EXTENDS ScanWorker, TLC

CONSTANTS a, b, c, folder, nowhere, none

MCEntries == {a, b, c, folder}
MCInfo == (a      :> [isDir |-> FALSE, suffix |-> "txt", size |-> 1])
       @@ (b      :> [isDir |-> FALSE, suffix |-> "txt", size |-> 1])
       @@ (c      :> [isDir |-> FALSE, suffix |-> "", size |-> 2])
       @@ (folder :> [isDir |-> TRUE, suffix |-> "", size |-> 4])
MCSuffixes == {"", "txt"}
MCSuffixLess == {<<"", "txt">>}

MCDirectories == {d \union {} : d \in SUBSET MCEntries}
MCPaths == MCDirectories \union {nowhere}
MCAbsolute == [p \in MCPaths |-> p]
MCTree == [d \in MCDirectories |-> d]
=============================================================================
