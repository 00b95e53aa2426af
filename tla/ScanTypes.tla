----------------------------- MODULE ScanTypes -----------------------------
(***************************************************************************)
(* The value types that travel between the scanner's two threads           *)
(* (src/scanner/ScanTypes.h) and the part of the file system a scan reads. *)
(* A path, a directory entry and a file suffix are model values: nothing   *)
(* in the scanner looks inside one, except to compare it.                  *)
(***************************************************************************)
EXTENDS Naturals, Sequences, FiniteSets, FiniteSetsExt

CONSTANTS
  Paths,        \* cleaned path strings, relative or absolute
  NoPath,       \* the empty QString
  Absolute,     \* Absolute[p] is QFileInfo(p).absoluteFilePath()
  Directories,  \* the paths that name an existing directory
  Entries,      \* the files and folders that exist below some root
  Tree,         \* Tree[d] is every entry QDirIterator yields below d
  Suffixes,     \* lower-cased file suffixes, the empty one included
  Info,         \* Info[e] is what QFileInfo says of entry e
  SuffixLess    \* pairs <<s, t>> with s < t in QString's order

ASSUME PathAssumption ==
  /\ NoPath \notin Paths \union Entries
  /\ Absolute \in [Paths -> Paths]
  /\ Directories \subseteq Paths

ASSUME TreeAssumption ==
  /\ IsFiniteSet(Entries)
  /\ IsFiniteSet(Suffixes)
  /\ Tree \in [Directories -> SUBSET Entries]
  /\ Info \in [Entries -> [isDir: BOOLEAN, suffix: Suffixes, size: Nat]]

ASSUME SuffixAssumption ==
  /\ SuffixLess \subseteq Suffixes \X Suffixes
  /\ \A s, t \in Suffixes : s # t => (<<s, t>> \in SuffixLess <=> <<t, s>> \notin SuffixLess)
  /\ \A s \in Suffixes : <<s, s>> \notin SuffixLess
  /\ \A s, t, u \in Suffixes :
        <<s, t>> \in SuffixLess /\ <<t, u>> \in SuffixLess => <<s, u>> \in SuffixLess

(* One row of the result table. *)
ExtensionStat == [extension: Suffixes, fileCount: Nat, totalBytes: Nat]

(* The running totals per suffix: the QHash of scan(). A suffix that no    *)
(* file had yet holds the default-constructed statistics.                  *)
Tally == [fileCount: Nat, totalBytes: Nat]
EmptyTally == [fileCount |-> 0, totalBytes |-> 0]

ScanSummary == [rootPath: Paths, fileCount: Nat, directoryCount: Nat,
                totalBytes: Nat, canceled: BOOLEAN, extensions: Seq(ExtensionStat)]

(* The worker's three signals, as the events a queued connection makes of  *)
(* them.                                                                   *)
ProgressEvent == [type: {"progress"}, files: Nat, bytes: Nat, path: Entries \union {NoPath}]
FinishedEvent == [type: {"finished"}, summary: ScanSummary]
FailedEvent   == [type: {"failed"}]
Event == ProgressEvent \union FinishedEvent \union FailedEvent

(* finished() and failed() each end a scan. *)
IsTerminal(event) == event.type \in {"finished", "failed"}

(***************************************************************************)
(* What a complete scan of directory d should report, computed from the    *)
(* tree at once rather than entry by entry.                                *)
(***************************************************************************)
FilesBelow(d)   == {e \in Tree[d] : ~Info[e].isDir}
BytesOf(files)  == MapThenSumSet(LAMBDA e : Info[e].size, files)
FilesWith(d, s) == {e \in FilesBelow(d) : Info[e].suffix = s}
FoldersBelow(d) == Tree[d] \ FilesBelow(d)
=============================================================================
