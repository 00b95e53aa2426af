----------------------------- MODULE ScanWorker -----------------------------
(***************************************************************************)
(* The worker object of src/scanner/ScanWorker.cpp: a directory walk that  *)
(* runs on its own thread, an atomic flag that any thread may raise to     *)
(* stop it, and the three signals it emits.                                *)
(*                                                                         *)
(* One loop iteration is one action, because the flag is read once in it.  *)
(* The emission of the last progress() and that of finished() are two      *)
(* steps: the receiving thread may run in between.                         *)
(***************************************************************************)
EXTENDS ScanTypes

VARIABLES
  cancelRequested,  \* m_cancelRequested, a std::atomic_bool
  workerPc,         \* where the worker thread is in scan()
  todo,             \* entries the iterator has not yielded yet
  summary,          \* scan()'s local ScanSummary, before its list is filled
  byExtension,      \* scan()'s local hash of statistics
  signals           \* emitted, not yet delivered to the receiver

workerVars == <<cancelRequested, workerPc, todo, summary, byExtension, signals>>

WorkerPcs == {"idle", "walking", "reporting", "finishing"}

(* The locals of scan() when no scan runs. *)
NoSummary == [rootPath |-> NoPath, fileCount |-> 0, directoryCount |-> 0,
              totalBytes |-> 0, canceled |-> FALSE]
NoTallies == [s \in Suffixes |-> EmptyTally]

WorkerInit ==
  /\ cancelRequested = FALSE
  /\ workerPc = "idle"
  /\ todo = {}
  /\ summary = NoSummary
  /\ byExtension = NoTallies
  /\ signals = <<>>

WorkerTypeOK ==
  /\ cancelRequested \in BOOLEAN
  /\ workerPc \in WorkerPcs
  /\ todo \subseteq Entries
  /\ summary \in [rootPath: Paths \union {NoPath}, fileCount: Nat, directoryCount: Nat,
                  totalBytes: Nat, canceled: BOOLEAN]
  /\ workerPc # "idle" => summary.rootPath \in Paths
  /\ byExtension \in [Suffixes -> Tally]
  /\ signals \in Seq(Event)

(* Direct store to the flag, from whichever thread calls. *)
requestCancel ==
  /\ cancelRequested' = TRUE
  /\ UNCHANGED <<workerPc, todo, summary, byExtension, signals>>

(* Mutant: failed() without the return after it. *)
scanWithoutReturn(path) ==
  /\ workerPc = "idle"
  /\ cancelRequested' = FALSE
  /\ workerPc' = "walking"
  /\ todo' = IF path \in Directories THEN Tree[path] ELSE {}
  /\ summary' = [NoSummary EXCEPT !.rootPath = Absolute[path]]
  /\ byExtension' = NoTallies
  /\ signals' = IF path \in Directories THEN signals ELSE Append(signals, [type |-> "failed"])

(* Mutant: the flag of the last scan is not lowered. *)
scanKeepsFlag(path) ==
  /\ workerPc = "idle"
  /\ \/ /\ path \notin Directories
        /\ signals' = Append(signals, [type |-> "failed"])
        /\ UNCHANGED <<cancelRequested, workerPc, todo, summary, byExtension>>
     \/ /\ path \in Directories
        /\ workerPc' = "walking"
        /\ todo' = Tree[path]
        /\ summary' = [NoSummary EXCEPT !.rootPath = Absolute[path]]
        /\ byExtension' = NoTallies
        /\ UNCHANGED <<cancelRequested, signals>>

(* Mutant: the summary does not learn its root. *)
scanForgetsRoot(path) ==
  /\ workerPc = "idle"
  /\ cancelRequested' = FALSE
  /\ \/ /\ path \notin Directories
        /\ signals' = Append(signals, [type |-> "failed"])
        /\ UNCHANGED <<workerPc, todo, summary, byExtension>>
     \/ /\ path \in Directories
        /\ workerPc' = "walking"
        /\ todo' = Tree[path]
        /\ summary' = NoSummary
        /\ byExtension' = NoTallies
        /\ UNCHANGED signals

(* scan(path) up to its loop: lower the flag, refuse what is not a         *)
(* directory, else set up the iterator and the locals.                     *)
scan(path) ==
  /\ workerPc = "idle"
  /\ cancelRequested' = FALSE
  /\ \/ /\ path \notin Directories
        /\ signals' = Append(signals, [type |-> "failed"])
        /\ UNCHANGED <<workerPc, todo, summary, byExtension>>
     \/ /\ path \in Directories
        /\ workerPc' = "walking"
        /\ todo' = Tree[path]
        /\ summary' = [NoSummary EXCEPT !.rootPath = Absolute[path]]
        /\ byExtension' = NoTallies
        /\ UNCHANGED signals

(* A file was counted; the throttle lets its progress() through when at    *)
(* least 80 ms have passed since the last one, which may be any file.      *)
ProgressOf(e) ==
  [type |-> "progress", files |-> summary'.fileCount, bytes |-> summary'.totalBytes, path |-> e]

(* Mutant: the bytes of a suffix are assigned, not added. *)
VisitFileAssignsBytes(e) ==
  /\ ~Info[e].isDir
  /\ summary' = [summary EXCEPT !.fileCount = @ + 1, !.totalBytes = @ + Info[e].size]
  /\ byExtension' = [byExtension EXCEPT
        ![Info[e].suffix] = [fileCount |-> @.fileCount + 1, totalBytes |-> Info[e].size]]
  /\ \/ UNCHANGED signals
     \/ signals' = Append(signals, ProgressOf(e))

VisitFile(e) ==
  /\ ~Info[e].isDir
  /\ summary' = [summary EXCEPT !.fileCount = @ + 1, !.totalBytes = @ + Info[e].size]
  /\ byExtension' = [byExtension EXCEPT
        ![Info[e].suffix] = [fileCount  |-> @.fileCount + 1,
                             totalBytes |-> @.totalBytes + Info[e].size]]
  /\ \/ UNCHANGED signals
     \/ signals' = Append(signals, ProgressOf(e))

VisitDirectory(e) ==
  /\ Info[e].isDir
  /\ summary' = [summary EXCEPT !.directoryCount = @ + 1]
  /\ UNCHANGED <<byExtension, signals>>

(* Mutant: a raised flag breaks the loop but the summary does not say so. *)
IterateForgetsCanceled ==
  /\ workerPc = "walking"
  /\ \E e \in todo :
        /\ todo' = todo \ {e}
        /\ \/ /\ cancelRequested
              /\ workerPc' = "reporting"
              /\ UNCHANGED <<summary, byExtension, signals>>
           \/ /\ ~cancelRequested
              /\ VisitFile(e) \/ VisitDirectory(e)
              /\ UNCHANGED workerPc
  /\ UNCHANGED cancelRequested

(* Mutant: `continue` on a directory skips the call of it.next(). *)
IterateSkipsNext ==
  /\ workerPc = "walking"
  /\ \E e \in todo :
        /\ todo' = IF Info[e].isDir THEN todo ELSE todo \ {e}
        /\ \/ /\ cancelRequested
              /\ summary' = [summary EXCEPT !.canceled = TRUE]
              /\ workerPc' = "reporting"
              /\ UNCHANGED <<byExtension, signals>>
           \/ /\ ~cancelRequested
              /\ \/ VisitFile(e)
                 \/ Info[e].isDir /\ UNCHANGED <<summary, byExtension, signals>>
              /\ UNCHANGED workerPc
  /\ UNCHANGED cancelRequested

(* One iteration: it.next(), in whatever order the file system yields the  *)
(* entries, then the flag. A raised flag discards the entry and ends the   *)
(* loop.                                                                   *)
Iterate ==
  /\ workerPc = "walking"
  /\ \E e \in todo :
        /\ todo' = todo \ {e}
        /\ \/ /\ cancelRequested
              /\ summary' = [summary EXCEPT !.canceled = TRUE]
              /\ workerPc' = "reporting"
              /\ UNCHANGED <<byExtension, signals>>
           \/ /\ ~cancelRequested
              /\ VisitFile(e) \/ VisitDirectory(e)
              /\ UNCHANGED workerPc
  /\ UNCHANGED cancelRequested

(* it.hasNext() is false. *)
EndOfTree ==
  /\ workerPc = "walking"
  /\ todo = {}
  /\ workerPc' = "reporting"
  /\ UNCHANGED <<cancelRequested, todo, summary, byExtension, signals>>

(* The comparison std::sort gets: biggest first, then by name. *)
StatBefore(s, t) ==
  \/ byExtension[s].totalBytes > byExtension[t].totalBytes
  \/ /\ byExtension[s].totalBytes = byExtension[t].totalBytes
     /\ <<s, t>> \in SuffixLess

(* The suffixes in the hash, and the arrangements of them std::sort may    *)
(* return.                                                                 *)
Seen == {s \in Suffixes : byExtension[s].fileCount > 0}
SortedSeen ==
  {order \in [1 .. Cardinality(Seen) -> Seen] :
     \A i, j \in DOMAIN order : i < j => StatBefore(order[i], order[j])}

(* Mutant: the last progress() overtakes those that wait for delivery. *)
ReportTotalsFirst ==
  /\ workerPc = "reporting"
  /\ signals' = <<[type |-> "progress", files |-> summary.fileCount,
                   bytes |-> summary.totalBytes, path |-> NoPath]>> \o signals
  /\ workerPc' = "finishing"
  /\ UNCHANGED <<cancelRequested, todo, summary, byExtension>>

ReportTotals ==
  /\ workerPc = "reporting"
  /\ signals' = Append(signals, [type |-> "progress", files |-> summary.fileCount,
                                 bytes |-> summary.totalBytes, path |-> NoPath])
  /\ workerPc' = "finishing"
  /\ UNCHANGED <<cancelRequested, todo, summary, byExtension>>

(* The summary as emitted: the locals plus the sorted list. *)
SummaryWith(order) ==
  [rootPath       |-> summary.rootPath,
   fileCount      |-> summary.fileCount,
   directoryCount |-> summary.directoryCount,
   totalBytes     |-> summary.totalBytes,
   canceled       |-> summary.canceled,
   extensions     |-> [i \in 1 .. Cardinality(Seen) |->
                         [extension  |-> order[i],
                          fileCount  |-> byExtension[order[i]].fileCount,
                          totalBytes |-> byExtension[order[i]].totalBytes]]]

(* finished(summary) and the return from scan(): the locals are gone. *)
ReportFinished ==
  /\ workerPc = "finishing"
  /\ \E order \in SortedSeen :
        signals' = Append(signals, [type |-> "finished", summary |-> SummaryWith(order)])
  /\ workerPc' = "idle"
  /\ todo' = {}
  /\ summary' = NoSummary
  /\ byExtension' = NoTallies
  /\ UNCHANGED cancelRequested

WorkerStep == Iterate \/ EndOfTree \/ ReportTotals \/ ReportFinished

-----------------------------------------------------------------------------
(***************************************************************************)
(* The worker used as tests/tst_scanworker.cpp uses it: scan() is called   *)
(* directly and the caller reads the signals before it calls again, while  *)
(* any thread may call requestCancel().                                    *)
(***************************************************************************)
Call == signals = <<>> /\ \E path \in Paths : scan(path)

Deliver ==
  /\ signals # <<>>
  /\ signals' = Tail(signals)
  /\ UNCHANGED <<cancelRequested, workerPc, todo, summary, byExtension>>

WorkerNext == Call \/ requestCancel \/ WorkerStep \/ Deliver

WorkerSpec ==
  WorkerInit /\ [][WorkerNext]_workerVars /\ WF_workerVars(WorkerStep) /\ WF_workerVars(Deliver)

-----------------------------------------------------------------------------
Finished == {i \in DOMAIN signals : signals[i].type = "finished"}

ListBytes(list) == SumFunction([i \in DOMAIN list |-> list[i].totalBytes])
ListFiles(list) == SumFunction([i \in DOMAIN list |-> list[i].fileCount])

(* What a report says of directory d, when it says the truth about it.     *)
MatchesTree(report, d) ==
  /\ Absolute[d] = report.rootPath
  /\ report.fileCount = Cardinality(FilesBelow(d))
  /\ report.totalBytes = BytesOf(FilesBelow(d))
  /\ report.directoryCount = Cardinality(FoldersBelow(d))
  /\ {<<r.extension, r.fileCount, r.totalBytes>> : r \in Range(report.extensions)}
       = {<<x, Cardinality(FilesWith(d, x)), BytesOf(FilesWith(d, x))>> :
            x \in {Info[e].suffix : e \in FilesBelow(d)}}

(* A summary that was not canceled tells the truth about the tree, in      *)
(* whatever order the entries came and however often requestCancel() was   *)
(* called before scan() or after the last entry: ScanWorker.cpp:50-90.     *)
CompleteReportMatchesTree ==
  \A i \in Finished : ~signals[i].summary.canceled =>
    \E d \in Directories : MatchesTree(signals[i].summary, d)

(* The list of a report is sorted, has one row per suffix, and its rows    *)
(* make up the totals.                                                     *)
AddsUp(report) ==
  LET list == report.extensions IN
    /\ ListFiles(list) = report.fileCount
    /\ ListBytes(list) = report.totalBytes
    /\ \A j, k \in DOMAIN list : j < k =>
          /\ list[j].extension # list[k].extension
          /\ list[j].totalBytes >= list[k].totalBytes

(* The list adds up to the totals also when the walk was cut short: the    *)
(* table of a canceled scan agrees with the totals shown beside it         *)
(* (ScanWorker.cpp:53-56, 81-87).                                          *)
ListAddsUp == \A i \in Finished : AddsUp(signals[i].summary)

(* One scan ends in one terminal signal, and nothing follows it; the last  *)
(* progress() before finished() carries the same totals and no path        *)
(* (ScanWorker.cpp:89-90; "failed() and finished() are exclusive",         *)
(* tests/tst_scanworker.cpp:115).                                          *)
SignalProtocol ==
  \A i \in DOMAIN signals : IsTerminal(signals[i]) =>
    /\ i = Len(signals)
    /\ workerPc = "idle"
    /\ i > 1 => /\ signals[i].type = "finished"
                /\ signals[i - 1] = [type  |-> "progress",
                                     files |-> signals[i].summary.fileCount,
                                     bytes |-> signals[i].summary.totalBytes,
                                     path  |-> NoPath]

(* Every walk comes to its end when the worker thread gets to run.         *)
WalkEnds == (workerPc # "idle") ~> (workerPc = "idle")
=============================================================================
