---------------------------- MODULE WorkerProofs ----------------------------
(***************************************************************************)
(* Theorems about the scan worker, for every tree, every order in which    *)
(* the iterator returns its entries and every cancel. The core is          *)
(* WalkIsExact: the locals of scan() are at all times exactly what is true *)
(* of the entries seen so far. From it follows that a complete report is   *)
(* true of the tree. That the list by suffix adds up to the totals is an   *)
(* invariant of its own, TalliesAddUp, because it holds for a report that  *)
(* was cut off as well.                                                    *)
(***************************************************************************)
EXTENDS ScanWorker, Sums, SequenceTheorems

-----------------------------------------------------------------------------
(* Each event the worker can emit is one. *)
LEMMA EventTypes ==
  /\ [type |-> "failed"] \in Event
  /\ \A f, n \in Nat : \A p \in Entries \union {NoPath} :
        [type |-> "progress", files |-> f, bytes |-> n, path |-> p] \in Event
  /\ \A s \in ScanSummary : [type |-> "finished", summary |-> s] \in Event
BY DEF Event, FailedEvent, ProgressEvent, FinishedEvent

(* The summary that finished() carries is well typed, for whichever order  *)
(* the sort returns.                                                       *)
LEMMA SummaryType ==
  ASSUME WorkerTypeOK, workerPc # "idle", NEW order \in SortedSeen
  PROVE  SummaryWith(order) \in ScanSummary
<1> DEFINE n == Cardinality(Seen)
           list == [i \in 1 .. n |-> [extension  |-> order[i],
                                      fileCount  |-> byExtension[order[i]].fileCount,
                                      totalBytes |-> byExtension[order[i]].totalBytes]]
<1>1. n \in Nat
  <2>1. Seen \subseteq Suffixes
    BY DEF Seen
  <2>2. IsFiniteSet(Seen)
    BY <2>1, FS_Subset, TreeAssumption
  <2> QED
    BY <2>2, FS_CardinalityType
<1>2. order \in [1 .. n -> Suffixes]
  BY DEF SortedSeen, Seen
<1>3. \A i \in 1 .. n : list[i] \in ExtensionStat
  BY <1>1, <1>2 DEF WorkerTypeOK, ExtensionStat, Tally
<1>4. list \in Seq(ExtensionStat)
  <2>1. list \in [1 .. n -> ExtensionStat]
    BY <1>3
  <2> HIDE DEF n, list
  <2> QED
    BY <2>1, <1>1
<1> QED
  BY <1>4 DEF SummaryWith, ScanSummary, WorkerTypeOK

(* scan() sets its locals up, or emits failed(). *)
LEMMA ScanTypeOK ==
  ASSUME WorkerTypeOK, NEW path \in Paths, scan(path)
  PROVE  WorkerTypeOK'
<1>1. CASE path \notin Directories
  <2>1. signals' \in Seq(Event)
    <3>1. signals \in Seq(Event) /\ signals' = Append(signals, [type |-> "failed"])
      BY <1>1 DEF scan, WorkerTypeOK
    <3> QED
      BY <3>1, EventTypes
  <2> QED
    BY <1>1, <2>1 DEF scan, WorkerTypeOK
<1>2. CASE path \in Directories
  <2>1. Absolute[path] \in Paths /\ Tree[path] \subseteq Entries
    BY <1>2, PathAssumption, TreeAssumption
  <2>2. NoTallies \in [Suffixes -> Tally]
    BY DEF NoTallies, EmptyTally, Tally
  <2>3. /\ summary' \in [rootPath: Paths \union {NoPath}, fileCount: Nat, directoryCount: Nat,
                         totalBytes: Nat, canceled: BOOLEAN]
        /\ summary'.rootPath \in Paths
    <3>1. summary' = [NoSummary EXCEPT !.rootPath = Absolute[path]]
      BY <1>2 DEF scan
    <3>2. summary' = [rootPath |-> Absolute[path], fileCount |-> 0, directoryCount |-> 0,
                      totalBytes |-> 0, canceled |-> FALSE]
      BY <3>1 DEF NoSummary
    <3> QED
      BY <3>2, <2>1
  <2> QED
    BY <1>2, <2>1, <2>2, <2>3 DEF scan, WorkerTypeOK, WorkerPcs
<1> QED
  BY <1>1, <1>2

(* One iteration of the loop keeps the types. *)
LEMMA IterateTypeOK ==
  ASSUME WorkerTypeOK, Iterate
  PROVE  WorkerTypeOK'
<1>1. PICK e \in todo :
        /\ todo' = todo \ {e}
        /\ \/ /\ cancelRequested
              /\ summary' = [summary EXCEPT !.canceled = TRUE]
              /\ workerPc' = "reporting"
              /\ UNCHANGED <<byExtension, signals>>
           \/ /\ ~cancelRequested
              /\ VisitFile(e) \/ VisitDirectory(e)
              /\ UNCHANGED workerPc
  BY DEF Iterate
<1>2. e \in Entries /\ Info[e] \in [isDir: BOOLEAN, suffix: Suffixes, size: Nat]
  BY TreeAssumption DEF WorkerTypeOK
<1>3. CASE workerPc' = "reporting" /\ UNCHANGED <<byExtension, signals>>
            /\ summary' = [summary EXCEPT !.canceled = TRUE]
  BY <1>1, <1>3 DEF WorkerTypeOK, WorkerPcs, Iterate
<1>4. CASE VisitFile(e) /\ UNCHANGED workerPc
  <2>1. /\ summary' \in [rootPath: Paths \union {NoPath}, fileCount: Nat, directoryCount: Nat,
                         totalBytes: Nat, canceled: BOOLEAN]
        /\ summary'.rootPath = summary.rootPath
    <3>1. summary.fileCount + 1 \in Nat /\ summary.totalBytes + Info[e].size \in Nat
      BY <1>2 DEF WorkerTypeOK
    <3> QED
      BY <3>1, <1>4 DEF VisitFile, WorkerTypeOK
  <2>2. byExtension' \in [Suffixes -> Tally]
    BY <1>2, <1>4 DEF VisitFile, WorkerTypeOK, Tally
  <2>3. signals' \in Seq(Event)
    <3>1. ProgressOf(e) \in Event
      BY <2>1, <1>2, EventTypes DEF ProgressOf
    <3> QED
      <4>1. signals \in Seq(Event)
        BY DEF WorkerTypeOK
      <4>2. signals' \in {signals, Append(signals, ProgressOf(e))}
        BY <1>4 DEF VisitFile
      <4> QED
        BY <3>1, <4>1, <4>2
  <2> QED
    BY <1>1, <1>4, <2>1, <2>2, <2>3 DEF WorkerTypeOK, Iterate
<1>5. CASE VisitDirectory(e) /\ UNCHANGED workerPc
  BY <1>1, <1>5 DEF VisitDirectory, WorkerTypeOK, Iterate
<1> QED
  BY <1>1, <1>3, <1>4, <1>5

(* The signals after the loop carry numbers and a list of suffixes. *)
LEMMA ReportTypeOK ==
  ASSUME WorkerTypeOK, ReportTotals \/ ReportFinished
  PROVE  WorkerTypeOK'
<1>1. CASE ReportTotals
  <2>1. [type |-> "progress", files |-> summary.fileCount,
         bytes |-> summary.totalBytes, path |-> NoPath] \in Event
    BY EventTypes DEF WorkerTypeOK
  <2>2. signals' \in Seq(Event)
    BY <1>1, <2>1, AppendProperties DEF ReportTotals, WorkerTypeOK
  <2> QED
    BY <1>1, <2>2 DEF ReportTotals, WorkerTypeOK, WorkerPcs
<1>2. CASE ReportFinished
  <2>1. PICK order \in SortedSeen :
          signals' = Append(signals, [type |-> "finished", summary |-> SummaryWith(order)])
    BY <1>2 DEF ReportFinished
  <2>2. SummaryWith(order) \in ScanSummary
    BY <1>2, SummaryType DEF ReportFinished
  <2>3. [type |-> "finished", summary |-> SummaryWith(order)] \in Event
    BY <2>2, EventTypes
  <2>4. signals' \in Seq(Event)
    BY <2>1, <2>3, AppendProperties DEF WorkerTypeOK
  <2>5. NoTallies \in [Suffixes -> Tally]
    BY DEF NoTallies, EmptyTally, Tally
  <2> QED
    BY <1>2, <2>4, <2>5 DEF ReportFinished, WorkerTypeOK, WorkerPcs, NoSummary
<1> QED
  BY <1>1, <1>2

(* Every step inside scan() keeps the types. *)
LEMMA WorkerStepTypeOK ==
  ASSUME WorkerTypeOK, WorkerStep
  PROVE  WorkerTypeOK'
<1>1. CASE EndOfTree
  BY <1>1 DEF EndOfTree, WorkerTypeOK, WorkerPcs
<1> QED
  BY <1>1, IterateTypeOK, ReportTypeOK DEF WorkerStep

-----------------------------------------------------------------------------
(* The queue of signals after one joined it, and after one was taken.      *)
LEMMA AppendCases ==
  ASSUME NEW queue \in Seq(Event), NEW event \in Event
  PROVE  /\ Append(queue, event) \in Seq(Event)
         /\ Len(Append(queue, event)) = Len(queue) + 1
         /\ \A i \in DOMAIN Append(queue, event) :
              \/ i \in DOMAIN queue /\ i # Len(queue) + 1 /\ Append(queue, event)[i] = queue[i]
              \/ i = Len(queue) + 1 /\ Append(queue, event)[i] = event
<1> DEFINE longer == Append(queue, event)
<1>1. /\ longer \in Seq(Event)
      /\ Len(longer) = Len(queue) + 1
      /\ \A i \in 1 .. Len(queue) : longer[i] = queue[i]
      /\ longer[Len(queue) + 1] = event
      /\ DOMAIN longer = 1 .. Len(longer)
      /\ DOMAIN queue = 1 .. Len(queue)
      /\ Len(queue) \in Nat
  BY AppendProperties, LenProperties
<1> HIDE DEF longer
<1>2. \A i \in DOMAIN longer : i \in 1 .. Len(queue) \/ i = Len(queue) + 1
  BY <1>1
<1>3. \A i \in DOMAIN longer :
         \/ i \in DOMAIN queue /\ i # Len(queue) + 1 /\ longer[i] = queue[i]
         \/ i = Len(queue) + 1 /\ longer[i] = event
  BY <1>1, <1>2
<1> QED
  BY <1>1, <1>3 DEF longer

(* What is left of a queue when its first event is taken. *)
LEMMA TailCases ==
  ASSUME NEW queue \in Seq(Event), queue # <<>>
  PROVE  /\ Tail(queue) \in Seq(Event)
         /\ Len(Tail(queue)) = Len(queue) - 1
         /\ Len(queue) \in Nat \ {0}
         /\ 1 \in DOMAIN queue /\ Head(queue) = queue[1]
         /\ \A i \in DOMAIN Tail(queue) :
              /\ i \in Nat \ {0} /\ i + 1 \in DOMAIN queue /\ Tail(queue)[i] = queue[i + 1]
BY HeadTailProperties, LenProperties, EmptySeq

-----------------------------------------------------------------------------
(* BytesOf, entry by entry. *)
Size == [e \in Entries |-> Info[e].size]

(* The fold over a set of entries is the sum of their sizes. *)
LEMMA BytesAsSum ==
  ASSUME NEW files \in SUBSET Entries
  PROVE  BytesOf(files) = SumFunctionOnSet(Size, files)
<1> DEFINE size == [e \in files |-> Info[e].size]
<1>1. BytesOf(files) = SumTable(size, files)[files]
  BY ZenonT(40) DEF BytesOf, MapThenSumSet, MapThenFoldSet, SumTable, SumStep, Pick
<1>2. SumFunctionOnSet(size, files) = SumFunctionOnSet(Size, files)
  <2>1. IsFiniteSet(files) /\ \A e \in files : size[e] = Size[e]
    BY TreeAssumption, FS_Subset DEF Size
  <2> HIDE DEF size
  <2> QED
    BY <2>1, SumEqual
<1> QED
  BY <1>1, <1>2, SumIsTable

(* A file that was counted adds its size to the bytes. *)
LEMMA BytesInsert ==
  /\ BytesOf({}) = 0
  /\ \A files \in SUBSET Entries : BytesOf(files) \in Nat
  /\ \A files \in SUBSET Entries : \A e \in Entries \ files :
        BytesOf(files \union {e}) = BytesOf(files) + Info[e].size
<1>1. Natural(Size, Entries)
  BY TreeAssumption DEF Natural, Size
<1>2. \A files \in SUBSET Entries : IsFiniteSet(files) /\ Natural(Size, files)
  BY <1>1, TreeAssumption, FS_Subset DEF Natural
<1>3. BytesOf({}) = 0
  BY BytesAsSum, SumUnfold, FS_EmptySet
<1>4. \A files \in SUBSET Entries : BytesOf(files) \in Nat
  BY <1>2, BytesAsSum, SumNatural
<1>5. ASSUME NEW files \in SUBSET Entries, NEW e \in Entries \ files
      PROVE  BytesOf(files \union {e}) = BytesOf(files) + Info[e].size
  <2>1. files \union {e} \in SUBSET Entries /\ e \notin files
    OBVIOUS
  <2>2. SumFunctionOnSet(Size, files \union {e}) = Size[e] + SumFunctionOnSet(Size, files)
    BY <1>2, <2>1, SumInsert
  <2>3. Size[e] = Info[e].size /\ Size[e] \in Nat
    BY <1>1 DEF Size, Natural
  <2>4. BytesOf(files) \in Nat
    BY <1>4
  <2> QED
    BY <2>1, <2>2, <2>3, <2>4, BytesAsSum
<1> QED
  BY <1>3, <1>4, <1>5

-----------------------------------------------------------------------------
(* The walk counts exactly what it has seen: until a raised flag throws an *)
(* entry away, the locals of scan() are those of the entries that left the *)
(* iterator, and a walk that ended without a flag has seen them all.       *)
FilesOf(seen) == {e \in seen : ~Info[e].isDir}
OfSuffix(seen, s) == {e \in FilesOf(seen) : Info[e].suffix = s}

(* The locals of scan() tell of the entries seen so far what is true of    *)
(* them: how many files and folders, how many bytes, and the same by       *)
(* suffix.                                                                 *)
CountsOf(seen) ==
  /\ summary.fileCount = Cardinality(FilesOf(seen))
  /\ summary.totalBytes = BytesOf(FilesOf(seen))
  /\ summary.directoryCount = Cardinality(seen \ FilesOf(seen))
  /\ \A s \in Suffixes : byExtension[s] = [fileCount  |-> Cardinality(OfSuffix(seen, s)),
                                           totalBytes |-> BytesOf(OfSuffix(seen, s))]

(* A walk of directory d: what is still to do lies below d, all of it has  *)
(* been done when the loop ended by itself, and the locals are exact for   *)
(* what was seen. The one entry that was read when the flag was found      *)
(* raised is neither to do nor seen.                                       *)
WalkOf(d) ==
  /\ Absolute[d] = summary.rootPath
  /\ todo \subseteq Tree[d]
  /\ workerPc # "walking" /\ ~summary.canceled => todo = {}
  /\ \E seen \in SUBSET (Tree[d] \ todo) :
        CountsOf(seen) /\ (~summary.canceled => seen = Tree[d] \ todo)

(* Whenever scan() runs it is such a walk. *)
WalkIsExact == workerPc # "idle" => \E d \in Directories : WalkOf(d)

(* A file goes into the counters and under its suffix, once. *)
LEMMA CountFile ==
  ASSUME WorkerTypeOK, NEW seen \in SUBSET Entries, NEW e \in Entries \ seen,
         CountsOf(seen), VisitFile(e)
  PROVE  CountsOf(seen \union {e})'
<1> DEFINE more == seen \union {e}
<1>1. FilesOf(more) = FilesOf(seen) \union {e} /\ e \notin FilesOf(seen)
  BY DEF VisitFile, FilesOf
<1>2. more \ FilesOf(more) = seen \ FilesOf(seen)
  BY <1>1
<1>3. Info[e] \in [isDir: BOOLEAN, suffix: Suffixes, size: Nat]
  BY TreeAssumption
<1>4. FilesOf(seen) \in SUBSET Entries /\ IsFiniteSet(FilesOf(seen))
  BY TreeAssumption, FS_Subset DEF FilesOf
<1>5. /\ summary'.fileCount = summary.fileCount + 1
      /\ summary'.totalBytes = summary.totalBytes + Info[e].size
      /\ summary'.directoryCount = summary.directoryCount
  BY DEF VisitFile, WorkerTypeOK
<1>6. Cardinality(FilesOf(more)) = Cardinality(FilesOf(seen)) + 1
  BY <1>1, <1>4, FS_AddElement
<1>7. BytesOf(FilesOf(more)) = BytesOf(FilesOf(seen)) + Info[e].size
  BY <1>1, <1>4, BytesInsert
<1>8. ASSUME NEW s \in Suffixes
      PROVE  byExtension'[s] = [fileCount  |-> Cardinality(OfSuffix(more, s)),
                                totalBytes |-> BytesOf(OfSuffix(more, s))]
  <2>1. CASE s = Info[e].suffix
    <3>1. OfSuffix(more, s) = OfSuffix(seen, s) \union {e} /\ e \notin OfSuffix(seen, s)
      BY <1>1, <2>1 DEF OfSuffix
    <3>2. OfSuffix(seen, s) \in SUBSET Entries /\ IsFiniteSet(OfSuffix(seen, s))
      BY <1>4, FS_Subset DEF OfSuffix
    <3>3. byExtension'[s] = [fileCount  |-> byExtension[s].fileCount + 1,
                             totalBytes |-> byExtension[s].totalBytes + Info[e].size]
      BY <2>1 DEF VisitFile, WorkerTypeOK
    <3>4. Cardinality(OfSuffix(more, s)) = Cardinality(OfSuffix(seen, s)) + 1
      BY <3>1, <3>2, FS_AddElement
    <3>5. BytesOf(OfSuffix(more, s)) = BytesOf(OfSuffix(seen, s)) + Info[e].size
      BY <3>1, <3>2, BytesInsert
    <3>6. byExtension[s] = [fileCount  |-> Cardinality(OfSuffix(seen, s)),
                            totalBytes |-> BytesOf(OfSuffix(seen, s))]
      BY Zenon DEF CountsOf
    <3> QED
      BY <3>3, <3>4, <3>5, <3>6
  <2>2. CASE s # Info[e].suffix
    <3>1. OfSuffix(more, s) = OfSuffix(seen, s)
      BY <1>1, <2>2 DEF OfSuffix
    <3>2. byExtension'[s] = byExtension[s]
      BY <2>2 DEF VisitFile, WorkerTypeOK
    <3> QED
      BY <3>1, <3>2 DEF CountsOf
  <2> QED
    BY <2>1, <2>2
<1> HIDE DEF more
<1>9. CountsOf(more)'
  <2>1. /\ summary.fileCount = Cardinality(FilesOf(seen))
        /\ summary.totalBytes = BytesOf(FilesOf(seen))
        /\ summary.directoryCount = Cardinality(seen \ FilesOf(seen))
    BY DEF CountsOf
  <2> QED
    BY <2>1, <1>2, <1>5, <1>6, <1>7, <1>8 DEF CountsOf
<1> QED
  BY <1>9 DEF more

(* A folder is counted, and nowhere else. *)
LEMMA CountDirectory ==
  ASSUME WorkerTypeOK, NEW seen \in SUBSET Entries, NEW e \in Entries \ seen,
         CountsOf(seen), VisitDirectory(e)
  PROVE  CountsOf(seen \union {e})'
<1> DEFINE more == seen \union {e}
<1>1. FilesOf(more) = FilesOf(seen)
  BY DEF VisitDirectory, FilesOf
<1>2. more \ FilesOf(more) = (seen \ FilesOf(seen)) \union {e}
  BY <1>1 DEF FilesOf, VisitDirectory
<1>3. IsFiniteSet(seen \ FilesOf(seen)) /\ e \notin seen \ FilesOf(seen)
  BY TreeAssumption, FS_Subset
<1>4. Cardinality(more \ FilesOf(more)) = Cardinality(seen \ FilesOf(seen)) + 1
  BY <1>2, <1>3, FS_AddElement
<1>5. /\ summary'.fileCount = summary.fileCount
      /\ summary'.totalBytes = summary.totalBytes
      /\ summary'.directoryCount = summary.directoryCount + 1
      /\ byExtension' = byExtension
  BY DEF VisitDirectory, WorkerTypeOK
<1>6. \A s : OfSuffix(more, s) = OfSuffix(seen, s)
  BY <1>1 DEF OfSuffix
<1> HIDE DEF more
<1>7. CountsOf(more)'
  BY <1>1, <1>4, <1>5, <1>6 DEF CountsOf
<1> QED
  BY <1>7 DEF more

(* At the start everything is to do and nothing is seen. *)
LEMMA ScanWalk ==
  ASSUME WorkerTypeOK, NEW path \in Directories, scan(path)
  PROVE  WalkOf(path)'
<1>1. /\ workerPc' = "walking" /\ todo' = Tree[path] /\ byExtension' = NoTallies
      /\ summary' = [rootPath |-> Absolute[path], fileCount |-> 0, directoryCount |-> 0,
                     totalBytes |-> 0, canceled |-> FALSE]
  BY DEF scan, NoSummary
<1>2. Tree[path] \ Tree[path] = {}
  OBVIOUS
<1>3. FilesOf({}) = {} /\ \A s : OfSuffix({}, s) = {}
  BY DEF FilesOf, OfSuffix
<1>4. CountsOf({})'
  <2>1. Cardinality({}) = 0 /\ BytesOf({}) = 0
    BY FS_EmptySet, BytesInsert
  <2>2. \A s \in Suffixes : byExtension'[s] = [fileCount |-> 0, totalBytes |-> 0]
    BY <1>1 DEF NoTallies, EmptyTally
  <2> QED
    BY <1>1, <1>3, <2>1, <2>2 DEF CountsOf
<1>5. Absolute[path] = summary'.rootPath /\ {} \in SUBSET (Tree[path] \ todo')
      /\ {} = Tree[path] \ todo'
  BY <1>1, <1>2
<1> QED
  BY <1>1, <1>4, <1>5 DEF WalkOf

(* Every iteration, and the reports after the loop, stay with the walk. *)
LEMMA StepWalk ==
  ASSUME WorkerTypeOK, NEW d \in Directories, WalkOf(d), WorkerStep, ~ReportFinished
  PROVE  WalkOf(d)'
<1>1. CASE Iterate
  <2>1. PICK e \in todo :
          /\ todo' = todo \ {e}
          /\ \/ /\ cancelRequested
                /\ summary' = [summary EXCEPT !.canceled = TRUE]
                /\ workerPc' = "reporting"
                /\ UNCHANGED <<byExtension, signals>>
             \/ /\ ~cancelRequested
                /\ VisitFile(e) \/ VisitDirectory(e)
                /\ UNCHANGED workerPc
    BY <1>1 DEF Iterate
  <2>2. PICK seen \in SUBSET (Tree[d] \ todo) :
          CountsOf(seen) /\ (~summary.canceled => seen = Tree[d] \ todo)
    BY DEF WalkOf
  <2>3. todo \subseteq Tree[d] /\ todo' \subseteq Tree[d] /\ Tree[d] \in SUBSET Entries
    BY <2>1, TreeAssumption DEF WalkOf
  <2>4. CASE summary' = [summary EXCEPT !.canceled = TRUE] /\ UNCHANGED byExtension
    <3>1. /\ summary'.canceled /\ summary'.rootPath = summary.rootPath
          /\ summary'.fileCount = summary.fileCount
          /\ summary'.totalBytes = summary.totalBytes
          /\ summary'.directoryCount = summary.directoryCount
      BY <2>4 DEF WorkerTypeOK
    <3>2. CountsOf(seen)'
      BY <2>2, <2>4, <3>1 DEF CountsOf
    <3>3. seen \in SUBSET (Tree[d] \ todo')
      BY <2>1
    <3> QED
      BY <2>3, <3>1, <3>2, <3>3 DEF WalkOf
  <2>5. CASE (VisitFile(e) \/ VisitDirectory(e)) /\ UNCHANGED workerPc
    <3>1. workerPc = "walking" /\ workerPc' = "walking"
      BY <1>1, <2>5 DEF Iterate
    <3>2. summary'.canceled = summary.canceled /\ summary'.rootPath = summary.rootPath
      BY <2>5 DEF VisitFile, VisitDirectory, WorkerTypeOK
    <3>3. seen \in SUBSET Entries /\ e \in Entries \ seen
      BY <2>3
    <3>4. CountsOf(seen \union {e})'
      BY <2>2, <2>5, <3>3, CountFile, CountDirectory
    <3>5. /\ seen \union {e} \in SUBSET (Tree[d] \ todo')
          /\ ~summary'.canceled => seen \union {e} = Tree[d] \ todo'
      BY <2>1, <2>2, <2>3, <3>2
    <3> QED
      BY <2>3, <3>1, <3>2, <3>4, <3>5 DEF WalkOf
  <2> QED
    BY <2>1, <2>4, <2>5
<1>2. CASE EndOfTree \/ ReportTotals
  <2>1. UNCHANGED <<todo, summary, byExtension>>
    BY <1>2 DEF EndOfTree, ReportTotals
  <2>2. \A seen : CountsOf(seen)' <=> CountsOf(seen)
    BY <2>1 DEF CountsOf
  <2>3. workerPc' # "walking" /\ ~summary.canceled => todo = {}
    BY <1>2 DEF EndOfTree, ReportTotals, WalkOf
  <2> QED
    BY <2>1, <2>2, <2>3 DEF WalkOf
<1> QED
  BY <1>1, <1>2 DEF WorkerStep

(* After the start there is a walk, or scan() has returned. *)
LEMMA ScanExact ==
  ASSUME WorkerTypeOK, NEW path \in Paths, scan(path)
  PROVE  WalkIsExact'
<1>1. CASE path \notin Directories
  BY <1>1 DEF scan, WalkIsExact
<1>2. CASE path \in Directories
  BY <1>2, ScanWalk DEF WalkIsExact
<1> QED
  BY <1>1, <1>2

(* finished() ends the walk; every other step keeps it exact. *)
LEMMA StepExact ==
  ASSUME WorkerTypeOK, WalkIsExact, WorkerStep
  PROVE  WalkIsExact'
<1>1. CASE ReportFinished
  BY <1>1 DEF ReportFinished, WalkIsExact
<1>2. CASE ~ReportFinished
  <2>1. PICK d \in Directories : WalkOf(d)
    BY DEF WalkIsExact, WorkerStep, Iterate, EndOfTree, ReportTotals, ReportFinished
  <2> QED
    BY <1>2, <2>1, StepWalk DEF WalkIsExact
<1> QED
  BY <1>1, <1>2

(* What was counted of a directory is at most what there is below it.      *)
LEMMA SeenBounded ==
  ASSUME NEW d \in Directories, NEW seen \in SUBSET Tree[d]
  PROVE  /\ Cardinality(FilesOf(seen)) <= Cardinality(FilesBelow(d))
         /\ BytesOf(FilesOf(seen)) <= BytesOf(FilesBelow(d))
<1>1. /\ FilesBelow(d) \in SUBSET Entries
      /\ FilesOf(seen) \in SUBSET FilesBelow(d)
      /\ FilesOf(seen) \in SUBSET Entries
  BY TreeAssumption DEF FilesBelow, FilesOf
<1>2. IsFiniteSet(FilesBelow(d))
  BY <1>1, TreeAssumption, FS_Subset
<1>3. Cardinality(FilesOf(seen)) <= Cardinality(FilesBelow(d))
  BY <1>1, <1>2, FS_Subset
<1>4. BytesOf(FilesOf(seen)) <= BytesOf(FilesBelow(d))
  <2>1. Natural(Size, FilesBelow(d))
    BY <1>1, TreeAssumption DEF Natural, Size
  <2> QED
    BY <1>1, <1>2, <2>1, SumMonotone, BytesAsSum
<1> QED
  BY <1>3, <1>4

(* So the counters of a walk never exceed the totals of the directory, now *)
(* and after the next step.                                                *)
LEMMA CountsBounded ==
  ASSUME NEW d \in Directories
  PROVE  /\ WalkOf(d) => /\ summary.fileCount <= Cardinality(FilesBelow(d))
                        /\ summary.totalBytes <= BytesOf(FilesBelow(d))
         /\ WalkOf(d)' => /\ summary'.fileCount <= Cardinality(FilesBelow(d))
                         /\ summary'.totalBytes <= BytesOf(FilesBelow(d))
<1>1. ASSUME WalkOf(d)
      PROVE  /\ summary.fileCount <= Cardinality(FilesBelow(d))
             /\ summary.totalBytes <= BytesOf(FilesBelow(d))
  BY <1>1, SeenBounded DEF WalkOf, CountsOf
<1>2. ASSUME WalkOf(d)'
      PROVE  /\ summary'.fileCount <= Cardinality(FilesBelow(d))
             /\ summary'.totalBytes <= BytesOf(FilesBelow(d))
  BY <1>2, SeenBounded DEF WalkOf, CountsOf
<1> QED
  BY <1>1, <1>2

-----------------------------------------------------------------------------
(* The tallies of the suffixes make up the totals at every moment of the   *)
(* walk, cut short or not.                                                 *)
TalliesAddUp ==
  /\ SumFunctionOnSet([s \in Suffixes |-> byExtension[s].fileCount], Suffixes) = summary.fileCount
  /\ SumFunctionOnSet([s \in Suffixes |-> byExtension[s].totalBytes], Suffixes)
       = summary.totalBytes
  /\ \A s \in Suffixes : byExtension[s].fileCount = 0 => byExtension[s].totalBytes = 0

(* No statistics add up to nothing. *)
LEMMA NoTalliesAddUp ==
  /\ SumFunctionOnSet([s \in Suffixes |-> NoTallies[s].fileCount], Suffixes) = 0
  /\ SumFunctionOnSet([s \in Suffixes |-> NoTallies[s].totalBytes], Suffixes) = 0
  /\ \A s \in Suffixes : NoTallies[s].fileCount = 0 => NoTallies[s].totalBytes = 0
<1>1. \A s \in Suffixes : NoTallies[s].fileCount = 0 /\ NoTallies[s].totalBytes = 0
  BY DEF NoTallies, EmptyTally
<1> DEFINE files == [s \in Suffixes |-> NoTallies[s].fileCount]
           bytes == [s \in Suffixes |-> NoTallies[s].totalBytes]
<1>2. /\ \A s \in Suffixes \ {} : files[s] = 0 /\ bytes[s] = 0
      /\ Natural(files, Suffixes) /\ Natural(bytes, Suffixes)
      /\ {} \in SUBSET Suffixes
  BY <1>1 DEF Natural
<1> HIDE DEF files, bytes
<1>3. SumFunctionOnSet(files, Suffixes) = 0
  <2>1. SumFunctionOnSet(files, Suffixes) = SumFunctionOnSet(files, {})
    BY <1>2, TreeAssumption, SumZeros
  <2> QED
    BY <2>1, SumEmpty
<1>4. SumFunctionOnSet(bytes, Suffixes) = 0
  <2>1. SumFunctionOnSet(bytes, Suffixes) = SumFunctionOnSet(bytes, {})
    BY <1>2, TreeAssumption, SumZeros
  <2> QED
    BY <2>1, SumEmpty
<1> QED
  BY <1>1, <1>3, <1>4 DEF files, bytes

(* A file adds to one suffix what it adds to the totals. *)
LEMMA VisitAddsUp ==
  ASSUME WorkerTypeOK, TalliesAddUp, NEW e \in Entries, VisitFile(e)
  PROVE  TalliesAddUp'
<1> DEFINE x == Info[e].suffix
           files == [s \in Suffixes |-> byExtension[s].fileCount]
           bytes == [s \in Suffixes |-> byExtension[s].totalBytes]
           moreFiles == [s \in Suffixes |-> byExtension'[s].fileCount]
           moreBytes == [s \in Suffixes |-> byExtension'[s].totalBytes]
<1>1. x \in Suffixes /\ Info[e].size \in Nat
  BY TreeAssumption
<1>2. /\ summary'.fileCount = summary.fileCount + 1
      /\ summary'.totalBytes = summary.totalBytes + Info[e].size
      /\ summary.fileCount \in Nat /\ summary.totalBytes \in Nat
  BY <1>1 DEF VisitFile, WorkerTypeOK
<1>3. /\ byExtension'[x] = [fileCount  |-> byExtension[x].fileCount + 1,
                            totalBytes |-> byExtension[x].totalBytes + Info[e].size]
      /\ \A s \in Suffixes \ {x} : byExtension'[s] = byExtension[s]
  BY <1>1 DEF VisitFile, WorkerTypeOK
<1>4. \A s \in Suffixes : byExtension[s].fileCount \in Nat /\ byExtension[s].totalBytes \in Nat
  BY DEF WorkerTypeOK, Tally
<1>5. /\ Natural(files, Suffixes) /\ Natural(bytes, Suffixes)
      /\ Natural(moreFiles, Suffixes) /\ Natural(moreBytes, Suffixes)
  BY <1>1, <1>3, <1>4 DEF Natural
<1>6. /\ \A s \in Suffixes \ {x} : files[s] = moreFiles[s] /\ bytes[s] = moreBytes[s]
      /\ files[x] \in Nat /\ moreFiles[x] = files[x] + 1
      /\ bytes[x] \in Nat /\ moreBytes[x] = bytes[x] + Info[e].size
  BY <1>1, <1>3, <1>4
<1>7. SumFunctionOnSet(files, Suffixes) = summary.fileCount
      /\ SumFunctionOnSet(bytes, Suffixes) = summary.totalBytes
  BY DEF TalliesAddUp
<1>8. \A s \in Suffixes : byExtension'[s].fileCount = 0 => byExtension'[s].totalBytes = 0
  BY <1>1, <1>3, <1>4 DEF TalliesAddUp
<1>9. SumFunctionOnSet(moreFiles, Suffixes) = summary'.fileCount
  <2> HIDE DEF files, moreFiles, x
  <2>1. SumFunctionOnSet(moreFiles, Suffixes) + files[x]
          = SumFunctionOnSet(files, Suffixes) + moreFiles[x]
    BY <1>1, <1>5, <1>6, TreeAssumption, SumChanged
  <2>2. SumFunctionOnSet(moreFiles, Suffixes) \in Nat
    BY <1>5, TreeAssumption, SumNatural
  <2> QED
    BY <1>2, <1>6, <1>7, <2>1, <2>2
<1>10. SumFunctionOnSet(moreBytes, Suffixes) = summary'.totalBytes
  <2> HIDE DEF bytes, moreBytes, x
  <2>1. SumFunctionOnSet(moreBytes, Suffixes) + bytes[x]
          = SumFunctionOnSet(bytes, Suffixes) + moreBytes[x]
    BY <1>1, <1>5, <1>6, TreeAssumption, SumChanged
  <2>2. SumFunctionOnSet(moreBytes, Suffixes) \in Nat
    BY <1>5, TreeAssumption, SumNatural
  <2> QED
    BY <1>1, <1>2, <1>6, <1>7, <2>1, <2>2
<1> QED
  BY <1>8, <1>9, <1>10 DEF TalliesAddUp

(* The start sets both sides to zero. *)
LEMMA ScanAddsUp ==
  ASSUME TalliesAddUp, NEW path \in Paths, scan(path)
  PROVE  TalliesAddUp'
<1>1. CASE UNCHANGED <<byExtension, summary>>
  BY <1>1 DEF TalliesAddUp
<1>2. CASE byExtension' = NoTallies /\ summary' = [NoSummary EXCEPT !.rootPath = Absolute[path]]
  <2>1. summary'.fileCount = 0 /\ summary'.totalBytes = 0
    BY <1>2 DEF NoSummary
  <2> QED
    BY <1>2, <2>1, NoTalliesAddUp DEF TalliesAddUp
<1> QED
  BY <1>1, <1>2 DEF scan

(* Every step inside scan() changes both sides alike. *)
LEMMA StepAddsUp ==
  ASSUME WorkerTypeOK, TalliesAddUp, WorkerStep
  PROVE  TalliesAddUp'
<1>1. CASE Iterate
  <2>1. PICK e \in todo :
          \/ summary' = [summary EXCEPT !.canceled = TRUE] /\ UNCHANGED byExtension
          \/ VisitFile(e)
          \/ VisitDirectory(e)
    BY <1>1 DEF Iterate
  <2>2. CASE VisitFile(e)
    BY <2>2, VisitAddsUp DEF WorkerTypeOK
  <2>3. CASE ~VisitFile(e)
    <3>1. /\ byExtension' = byExtension
          /\ summary'.fileCount = summary.fileCount /\ summary'.totalBytes = summary.totalBytes
      BY <2>1, <2>3 DEF VisitDirectory, WorkerTypeOK
    <3> QED
      BY <3>1 DEF TalliesAddUp
  <2> QED
    BY <2>2, <2>3
<1>2. CASE EndOfTree \/ ReportTotals
  BY <1>2 DEF EndOfTree, ReportTotals, TalliesAddUp
<1>3. CASE ReportFinished
  <2>1. byExtension' = NoTallies /\ summary'.fileCount = 0 /\ summary'.totalBytes = 0
    BY <1>3 DEF ReportFinished, NoSummary
  <2> QED
    BY <2>1, NoTalliesAddUp DEF TalliesAddUp
<1> QED
  BY <1>1, <1>2, <1>3 DEF WorkerStep

-----------------------------------------------------------------------------
(* A sorted arrangement has every suffix once.                             *)
LEMMA SortedOnce ==
  ASSUME WorkerTypeOK, NEW order \in SortedSeen
  PROVE  /\ IsFiniteSet(Seen) /\ Seen \subseteq Suffixes
         /\ Cardinality(Seen) \in Nat
         /\ order \in [1 .. Cardinality(Seen) -> Seen]
         /\ order \in Bijection(1 .. Cardinality(Seen), Seen)
         /\ \A i, j \in 1 .. Cardinality(Seen) : order[i] = order[j] => i = j
         /\ \A s \in Seen : \E i \in 1 .. Cardinality(Seen) : order[i] = s
<1> DEFINE n == Cardinality(Seen)
<1>1. IsFiniteSet(Seen) /\ Seen \subseteq Suffixes
  BY TreeAssumption, FS_Subset DEF Seen
<1>2. n \in Nat
  BY <1>1, FS_CardinalityType
<1>3. order \in [1 .. n -> Seen] /\ \A i, j \in 1 .. n : i < j => StatBefore(order[i], order[j])
  BY DEF SortedSeen
<1>4. \A i, j \in 1 .. n : i < j => order[i] # order[j]
  <2> SUFFICES ASSUME NEW i \in 1 .. n, NEW j \in 1 .. n, i < j, order[i] = order[j]
               PROVE  FALSE
    OBVIOUS
  <2>1. order[i] \in Suffixes /\ StatBefore(order[i], order[i])
    BY <1>1, <1>3
  <2>2. byExtension[order[i]].totalBytes \in Nat
    BY <2>1 DEF WorkerTypeOK, Tally
  <2> QED
    BY <2>1, <2>2, SuffixAssumption DEF StatBefore
<1>5. \A i, j \in 1 .. n : order[i] = order[j] => i = j
  BY <1>2, <1>4
<1>6. order \in Surjection(1 .. n, Seen)
  <2>1. order \in Injection(1 .. n, Seen)
    BY <1>3, <1>5 DEF Injection, IsInjective
  <2>2. Cardinality(1 .. n) = n
    BY <1>2, FS_Interval
  <2> QED
    BY <1>1, <2>1, <2>2, FS_Injection
<1> QED
  BY <1>1, <1>2, <1>3, <1>5, <1>6 DEF Surjection, Injection, Bijection, IsInjective

(* The list of a report makes up its totals. *)
LEMMA ReportAddsUp ==
  ASSUME WorkerTypeOK, TalliesAddUp, NEW order \in SortedSeen
  PROVE  AddsUp(SummaryWith(order))
<1> DEFINE n == Cardinality(Seen)
           list == SummaryWith(order).extensions
           files == [s \in Suffixes |-> byExtension[s].fileCount]
           bytes == [s \in Suffixes |-> byExtension[s].totalBytes]
           listFiles == [i \in DOMAIN list |-> list[i].fileCount]
           listBytes == [i \in DOMAIN list |-> list[i].totalBytes]
<1>1. /\ IsFiniteSet(Seen) /\ Seen \in SUBSET Suffixes
      /\ n \in Nat
      /\ order \in [1 .. n -> Seen]
      /\ order \in Bijection(1 .. n, Seen)
      /\ \A i, j \in 1 .. n : order[i] = order[j] => i = j
  BY SortedOnce
<1>2. list = [i \in 1 .. n |-> [extension  |-> order[i],
                               fileCount  |-> byExtension[order[i]].fileCount,
                               totalBytes |-> byExtension[order[i]].totalBytes]]
  BY DEF SummaryWith
<1>3. /\ DOMAIN list = 1 .. n
      /\ \A i \in 1 .. n : /\ list[i].extension = order[i]
                           /\ list[i].fileCount = byExtension[order[i]].fileCount
                           /\ list[i].totalBytes = byExtension[order[i]].totalBytes
  BY <1>2
<1>4. \A s \in Suffixes : byExtension[s].fileCount \in Nat /\ byExtension[s].totalBytes \in Nat
  BY DEF WorkerTypeOK, Tally
<1>5. IsFiniteSet(1 .. n)
  BY <1>1, FS_Interval
<1>6. /\ Natural(files, Suffixes) /\ Natural(bytes, Suffixes)
      /\ \A s \in Suffixes \ Seen : files[s] = 0 /\ bytes[s] = 0
  BY <1>4 DEF Natural, Seen, TalliesAddUp
<1>7. /\ Natural(listFiles, 1 .. n) /\ Natural(listBytes, 1 .. n)
      /\ \A i \in 1 .. n : listFiles[i] = files[order[i]] /\ listBytes[i] = bytes[order[i]]
  BY <1>1, <1>3, <1>4 DEF Natural
<1> HIDE DEF files, bytes, listFiles, listBytes, list, n
<1>8. SumFunctionOnSet(listFiles, 1 .. n) = SumFunctionOnSet(files, Seen)
  <2>1. Natural(listFiles, 1 .. n) /\ \A i \in 1 .. n : listFiles[i] = files[order[i]]
    BY <1>7
  <2> QED
    BY <1>1, <1>5, <2>1, SumReindexed
<1>9. SumFunctionOnSet(listBytes, 1 .. n) = SumFunctionOnSet(bytes, Seen)
  <2>1. Natural(listBytes, 1 .. n) /\ \A i \in 1 .. n : listBytes[i] = bytes[order[i]]
    BY <1>7
  <2> QED
    BY <1>1, <1>5, <2>1, SumReindexed
<1>10. /\ SumFunctionOnSet(files, Suffixes) = SumFunctionOnSet(files, Seen)
       /\ SumFunctionOnSet(bytes, Suffixes) = SumFunctionOnSet(bytes, Seen)
  BY <1>1, <1>6, TreeAssumption, SumZeros
<1>11. ListFiles(list) = summary.fileCount /\ ListBytes(list) = summary.totalBytes
  <2>1. ListFiles(list) = SumFunctionOnSet(listFiles, 1 .. n)
    BY <1>3 DEF ListFiles, SumFunction, listFiles
  <2>2. ListBytes(list) = SumFunctionOnSet(listBytes, 1 .. n)
    BY <1>3 DEF ListBytes, SumFunction, listBytes
  <2>3. /\ SumFunctionOnSet(files, Suffixes) = summary.fileCount
        /\ SumFunctionOnSet(bytes, Suffixes) = summary.totalBytes
    BY DEF TalliesAddUp, files, bytes
  <2> QED
    BY <1>8, <1>9, <1>10, <2>1, <2>2, <2>3
<1>12. ASSUME NEW j \in 1 .. n, NEW k \in 1 .. n, j < k
       PROVE  list[j].extension # list[k].extension /\ list[j].totalBytes >= list[k].totalBytes
  <2>1. j # k /\ order[j] \in Suffixes /\ order[k] \in Suffixes
    BY <1>1, <1>12
  <2>2. order[j] # order[k]
    BY <1>1, <2>1
  <2>3. StatBefore(order[j], order[k])
    BY <1>1, <1>12 DEF SortedSeen, n
  <2>4. byExtension[order[j]].totalBytes >= byExtension[order[k]].totalBytes
    BY <1>4, <2>1, <2>3 DEF StatBefore
  <2> QED
    BY <1>3, <2>2, <2>4
<1>13. SummaryWith(order).fileCount = summary.fileCount
       /\ SummaryWith(order).totalBytes = summary.totalBytes
  BY DEF SummaryWith
<1>14. SummaryWith(order).extensions = list
  BY DEF list
<1> QED
  BY <1>3, <1>11, <1>12, <1>13, <1>14 DEF AddsUp

(* The report of a walk no flag cut short is the truth about the tree. *)
LEMMA ReportMatches ==
  ASSUME WorkerTypeOK, NEW d \in Directories, WalkOf(d), workerPc = "finishing",
         ~summary.canceled, NEW order \in SortedSeen
  PROVE  MatchesTree(SummaryWith(order), d)
<1> DEFINE n == Cardinality(Seen)
           list == SummaryWith(order).extensions
<1>1. /\ Absolute[d] = summary.rootPath
      /\ todo = {}
      /\ CountsOf(Tree[d] \ todo)
  BY DEF WalkOf
<1>2. CountsOf(Tree[d])
  <2>1. Tree[d] \ todo = Tree[d]
    BY <1>1
  <2> QED
    BY <1>1, <2>1
<1>3. /\ FilesBelow(d) = FilesOf(Tree[d])
      /\ FoldersBelow(d) = Tree[d] \ FilesOf(Tree[d])
      /\ \A s : FilesWith(d, s) = OfSuffix(Tree[d], s)
  BY DEF FilesBelow, FoldersBelow, FilesWith, FilesOf, OfSuffix
<1>4. \A s \in Suffixes : /\ byExtension[s].fileCount = Cardinality(FilesWith(d, s))
                         /\ byExtension[s].totalBytes = BytesOf(FilesWith(d, s))
  <2> SUFFICES ASSUME NEW s \in Suffixes
               PROVE  /\ byExtension[s].fileCount = Cardinality(FilesWith(d, s))
                      /\ byExtension[s].totalBytes = BytesOf(FilesWith(d, s))
    OBVIOUS
  <2>1. byExtension[s] = [fileCount  |-> Cardinality(OfSuffix(Tree[d], s)),
                          totalBytes |-> BytesOf(OfSuffix(Tree[d], s))]
    BY <1>2, Zenon DEF CountsOf
  <2> QED
    BY <1>3, <2>1
<1>5. Seen = {Info[e].suffix : e \in FilesBelow(d)}
  <2>1. FilesBelow(d) \in SUBSET Entries /\ \A e \in Entries : Info[e].suffix \in Suffixes
    BY TreeAssumption DEF FilesBelow
  <2>2. \A s \in Suffixes : IsFiniteSet(FilesWith(d, s)) /\ Cardinality(FilesWith(d, s)) \in Nat
    BY <2>1, TreeAssumption, FS_Subset, FS_CardinalityType DEF FilesWith
  <2>3. \A s \in Suffixes : Cardinality(FilesWith(d, s)) > 0 <=> FilesWith(d, s) # {}
    BY <2>2, FS_EmptySet
  <2>4. \A s \in Suffixes : s \in Seen <=> FilesWith(d, s) # {}
    BY <1>4, <2>3 DEF Seen
  <2>5. Seen \subseteq Suffixes
    BY DEF Seen
  <2> QED
    BY <2>1, <2>4, <2>5 DEF FilesWith
<1>6. /\ n \in Nat
      /\ Seen \subseteq Suffixes
      /\ order \in [1 .. n -> Seen]
      /\ \A s \in Seen : \E i \in 1 .. n : order[i] = s
  BY SortedOnce
<1>7. list = [i \in 1 .. n |-> [extension  |-> order[i],
                               fileCount  |-> byExtension[order[i]].fileCount,
                               totalBytes |-> byExtension[order[i]].totalBytes]]
  BY DEF SummaryWith
<1>8. {<<r.extension, r.fileCount, r.totalBytes>> : r \in Range(list)}
        = {<<x, Cardinality(FilesWith(d, x)), BytesOf(FilesWith(d, x))>> : x \in Seen}
  <2>1. \A i \in 1 .. n :
          /\ list[i].extension = order[i]
          /\ list[i].fileCount = Cardinality(FilesWith(d, order[i]))
          /\ list[i].totalBytes = BytesOf(FilesWith(d, order[i]))
    BY <1>4, <1>6, <1>7
  <2>2. Range(list) = {list[i] : i \in 1 .. n}
    BY <1>7 DEF Range
  <2> DEFINE row(x) == <<x, Cardinality(FilesWith(d, x)), BytesOf(FilesWith(d, x))>>
             told(r) == <<r.extension, r.fileCount, r.totalBytes>>
  <2>3. \A i \in 1 .. n : told(list[i]) = row(order[i])
    BY <2>1
  <2> HIDE DEF row, told, list, n
  <2>4. {told(r) : r \in Range(list)} = {row(x) : x \in Seen}
    BY <1>6, <2>2, <2>3
  <2> QED
    BY <2>4 DEF row, told
<1>9. /\ SummaryWith(order).rootPath = summary.rootPath
      /\ SummaryWith(order).fileCount = summary.fileCount
      /\ SummaryWith(order).totalBytes = summary.totalBytes
      /\ SummaryWith(order).directoryCount = summary.directoryCount
  BY DEF SummaryWith
<1>10. /\ summary.fileCount = Cardinality(FilesBelow(d))
       /\ summary.totalBytes = BytesOf(FilesBelow(d))
       /\ summary.directoryCount = Cardinality(FoldersBelow(d))
  BY <1>2, <1>3 DEF CountsOf
<1> HIDE DEF list
<1>11. SummaryWith(order).extensions = list
  BY DEF list
<1> QED
  BY <1>1, <1>5, <1>8, <1>9, <1>10, <1>11 DEF MatchesTree

-----------------------------------------------------------------------------
(* What holds of every report that waits for delivery. *)
ReportsHold == CompleteReportMatchesTree /\ ListAddsUp

(* failed() joins the queue without being a report. *)
LEMMA ScanReports ==
  ASSUME WorkerTypeOK, ReportsHold, NEW path \in Paths, scan(path)
  PROVE  ReportsHold'
<1>1. signals \in Seq(Event)
  BY DEF WorkerTypeOK
<1>2. CASE UNCHANGED signals
  BY <1>2 DEF ReportsHold, CompleteReportMatchesTree, ListAddsUp, Finished
<1>3. CASE signals' = Append(signals, [type |-> "failed"])
  <2>1. \A i \in Finished' : i \in Finished /\ signals'[i] = signals[i]
    BY <1>1, <1>3, AppendCases, EventTypes DEF Finished
  <2> QED
    BY <2>1 DEF ReportsHold, CompleteReportMatchesTree, ListAddsUp
<1> QED
  BY <1>2, <1>3 DEF scan

(* What a step of the walk adds to the queue. *)
Totals == [type |-> "progress", files |-> summary.fileCount,
           bytes |-> summary.totalBytes, path |-> NoPath]

(* What each step inside scan() emits. *)
LEMMA StepSignals ==
  ASSUME WorkerTypeOK, WorkerStep
  PROVE  \/ /\ UNCHANGED signals
            /\ Iterate \/ EndOfTree
         \/ \E e \in todo : /\ VisitFile(e) /\ Iterate
                            /\ ProgressOf(e) \in Event
                            /\ signals' = Append(signals, ProgressOf(e))
         \/ /\ ReportTotals
            /\ Totals \in Event
            /\ signals' = Append(signals, Totals)
         \/ /\ ReportFinished
            /\ \E order \in SortedSeen :
                  /\ SummaryWith(order) \in ScanSummary
                  /\ [type |-> "finished", summary |-> SummaryWith(order)] \in Event
                  /\ signals' = Append(signals, [type    |-> "finished",
                                                summary |-> SummaryWith(order)])
<1>1. CASE Iterate
  <2>1. PICK e \in todo : \/ UNCHANGED signals
                         \/ /\ VisitFile(e)
                            /\ signals' = Append(signals, ProgressOf(e))
    BY <1>1 DEF Iterate, VisitFile, VisitDirectory
  <2>2. ProgressOf(e) \in Event
    <3>1. WorkerTypeOK'
      BY <1>1, IterateTypeOK
    <3>2. summary'.fileCount \in Nat /\ summary'.totalBytes \in Nat /\ e \in Entries
      BY <3>1 DEF WorkerTypeOK
    <3> QED
      BY <3>2, EventTypes DEF ProgressOf
  <2> QED
    BY <1>1, <2>1, <2>2
<1>2. CASE EndOfTree
  BY <1>2 DEF EndOfTree
<1>3. CASE ReportTotals
  <2>1. Totals \in Event
    BY EventTypes DEF Totals, WorkerTypeOK
  <2> QED
    BY <1>3, <2>1 DEF ReportTotals, Totals
<1>4. CASE ReportFinished
  <2>1. PICK order \in SortedSeen :
          signals' = Append(signals, [type |-> "finished", summary |-> SummaryWith(order)])
    BY <1>4 DEF ReportFinished
  <2>2. SummaryWith(order) \in ScanSummary
    BY <1>4, SummaryType DEF ReportFinished
  <2>3. [type |-> "finished", summary |-> SummaryWith(order)] \in Event
    BY <2>2, EventTypes
  <2> QED
    BY <1>4, <2>1, <2>2, <2>3
<1> QED
  BY <1>1, <1>2, <1>3, <1>4 DEF WorkerStep

(* The summary that finished() takes along is as exact as the walk was. *)
LEMMA StepReports ==
  ASSUME WorkerTypeOK, WalkIsExact, TalliesAddUp, ReportsHold, WorkerStep
  PROVE  ReportsHold'
<1>1. signals \in Seq(Event)
  BY DEF WorkerTypeOK
<1>2. CASE UNCHANGED signals
  BY <1>2 DEF ReportsHold, CompleteReportMatchesTree, ListAddsUp, Finished
<1>3. CASE \E event \in Event : event.type = "progress" /\ signals' = Append(signals, event)
  <2>1. \A i \in Finished' : i \in Finished /\ signals'[i] = signals[i]
    BY <1>1, <1>3, AppendCases DEF Finished
  <2> QED
    BY <2>1 DEF ReportsHold, CompleteReportMatchesTree, ListAddsUp
<1>4. CASE ReportFinished
  <2>1. PICK order \in SortedSeen :
          /\ [type |-> "finished", summary |-> SummaryWith(order)] \in Event
          /\ signals' = Append(signals, [type |-> "finished", summary |-> SummaryWith(order)])
    BY <1>4, StepSignals DEF ReportFinished, ReportTotals, Iterate, EndOfTree
  <2>2. PICK report : report = SummaryWith(order)
    OBVIOUS
  <2>3. AddsUp(report) /\ report.canceled = summary.canceled
    BY <2>2, ReportAddsUp DEF SummaryWith
  <2>4. ~report.canceled => \E d \in Directories : MatchesTree(report, d)
    BY <1>4, <2>2, <2>3, ReportMatches DEF ReportFinished, WalkIsExact
  <2>5. \A i \in Finished' : \/ i \in Finished /\ signals'[i] = signals[i]
                            \/ signals'[i].summary = report
    BY <1>1, <2>1, <2>2, AppendCases DEF Finished
  <2> QED
    BY <2>3, <2>4, <2>5 DEF ReportsHold, CompleteReportMatchesTree, ListAddsUp
<1> QED
  BY <1>2, <1>3, <1>4, StepSignals DEF ProgressOf, Totals

-----------------------------------------------------------------------------
(* The order of the signals. Between the last progress() and finished()    *)
(* the caller may have taken signals, but the one with the totals is then  *)
(* still the last, or nothing waits.                                       *)
TotalsWaitLast ==
  workerPc = "finishing" /\ signals # <<>> => signals[Len(signals)] = Totals

(* The order of the signals is kept only together with what the step       *)
(* before finished() has left in the queue.                                *)
ProtocolInv == WorkerTypeOK /\ SignalProtocol /\ TotalsWaitLast

(* scan() is called when the events of the last one were delivered, and    *)
(* failed() is then alone in the queue.                                    *)
LEMMA CallProtocol ==
  ASSUME ProtocolInv, Call
  PROVE  SignalProtocol' /\ TotalsWaitLast'
<1>1. signals = <<>> /\ signals \in Seq(Event)
  BY DEF Call, ProtocolInv, WorkerTypeOK
<1>2. PICK path \in Paths : scan(path)
  BY DEF Call
<1>3. CASE signals' = Append(signals, [type |-> "failed"]) /\ UNCHANGED workerPc
  <2>1. Len(signals) = 0 /\ workerPc' = "idle" /\ Len(signals') = 1
    BY <1>1, <1>2, <1>3, AppendCases, EventTypes DEF scan
  <2>2. \A i \in DOMAIN signals' : i = 1
    BY <1>1, <1>3, <2>1, AppendCases, EventTypes
  <2> QED
    BY <2>1, <2>2 DEF SignalProtocol, TotalsWaitLast
<1>4. CASE workerPc' = "walking" /\ UNCHANGED signals
  <2>1. DOMAIN signals' = {}
    BY <1>1, <1>4
  <2> QED
    BY <1>4, <2>1 DEF SignalProtocol, TotalsWaitLast
<1> QED
  BY <1>2, <1>3, <1>4 DEF scan

(* A step inside scan() emits at the end of the queue, and nothing after   *)
(* finished().                                                             *)
LEMMA StepProtocol ==
  ASSUME ProtocolInv, WorkerStep
  PROVE  SignalProtocol' /\ TotalsWaitLast'
<1> USE DEF ProtocolInv
<1>1. signals \in Seq(Event) /\ workerPc # "idle"
  BY DEF WorkerTypeOK, WorkerStep, Iterate, EndOfTree, ReportTotals, ReportFinished
<1>2. \A i \in DOMAIN signals : ~IsTerminal(signals[i])
  BY <1>1 DEF SignalProtocol
<1>3. CASE UNCHANGED signals /\ (Iterate \/ EndOfTree)
  BY <1>2, <1>3 DEF Iterate, EndOfTree, SignalProtocol, TotalsWaitLast
<1>4. CASE \E e \in todo : /\ Iterate
                          /\ ProgressOf(e) \in Event
                          /\ signals' = Append(signals, ProgressOf(e))
  <2>1. PICK e \in todo : /\ Iterate
                         /\ ProgressOf(e) \in Event
                         /\ signals' = Append(signals, ProgressOf(e))
    BY <1>4
  <2>2. ~IsTerminal(ProgressOf(e))
    BY DEF ProgressOf, IsTerminal
  <2>3. \A i \in DOMAIN signals' : ~IsTerminal(signals'[i])
    BY <1>1, <1>2, <2>1, <2>2, AppendCases
  <2>4. workerPc' # "finishing"
    BY <2>1 DEF Iterate
  <2> QED
    BY <2>3, <2>4 DEF SignalProtocol, TotalsWaitLast
<1>5. CASE ReportTotals /\ Totals \in Event /\ signals' = Append(signals, Totals)
  <2>1. ~IsTerminal(Totals)
    BY DEF Totals, IsTerminal
  <2>2. \A i \in DOMAIN signals' : ~IsTerminal(signals'[i])
    BY <1>1, <1>2, <1>5, <2>1, AppendCases
  <2>3. signals'[Len(signals')] = Totals
    BY <1>1, <1>5, AppendProperties
  <2>4. UNCHANGED summary
    BY <1>5 DEF ReportTotals
  <2> QED
    BY <2>2, <2>3, <2>4 DEF SignalProtocol, TotalsWaitLast, Totals
<1>6. CASE ReportFinished /\ \E order \in SortedSeen :
              /\ [type |-> "finished", summary |-> SummaryWith(order)] \in Event
              /\ signals' = Append(signals, [type    |-> "finished",
                                            summary |-> SummaryWith(order)])
  <2>1. PICK order \in SortedSeen :
              /\ [type |-> "finished", summary |-> SummaryWith(order)] \in Event
              /\ signals' = Append(signals, [type    |-> "finished",
                                            summary |-> SummaryWith(order)])
    BY <1>6
  <2> DEFINE last == [type |-> "finished", summary |-> SummaryWith(order)]
  <2>2. workerPc = "finishing" /\ workerPc' = "idle"
    BY <1>6 DEF ReportFinished
  <2>3. /\ Len(signals') = Len(signals) + 1
        /\ Len(signals) \in Nat
        /\ signals'[Len(signals')] = last
        /\ \A i \in 1 .. Len(signals) : signals'[i] = signals[i]
        /\ DOMAIN signals' = 1 .. Len(signals')
        /\ DOMAIN signals = 1 .. Len(signals)
    BY <1>1, <2>1, AppendProperties, LenProperties
  <2>4. \A i \in DOMAIN signals' : IsTerminal(signals'[i]) => i = Len(signals')
    BY <1>2, <2>3
  <2>5. ASSUME Len(signals') > 1
        PROVE  signals'[Len(signals') - 1] =
                 [type |-> "progress", files |-> last.summary.fileCount,
                  bytes |-> last.summary.totalBytes, path |-> NoPath]
    <3>1. Len(signals) \in 1 .. Len(signals) /\ signals # <<>>
      BY <2>3, <2>5
    <3>2. signals'[Len(signals') - 1] = signals[Len(signals)]
      BY <2>3, <3>1
    <3>3. signals[Len(signals)] = Totals
      BY <2>2, <3>1 DEF TotalsWaitLast
    <3>4. last.summary.fileCount = summary.fileCount /\ last.summary.totalBytes = summary.totalBytes
      BY DEF SummaryWith
    <3> QED
      BY <3>2, <3>3, <3>4 DEF Totals
  <2>6. \A i \in DOMAIN signals' : i = Len(signals') =>
           /\ signals'[i].type = "finished"
           /\ signals'[i].summary = last.summary
           /\ i > 1 => signals'[i - 1] =
                [type |-> "progress", files |-> signals'[i].summary.fileCount,
                 bytes |-> signals'[i].summary.totalBytes, path |-> NoPath]
    BY <2>3, <2>5
  <2> QED
    BY <2>2, <2>4, <2>6 DEF SignalProtocol, TotalsWaitLast
<1> QED
  BY <1>3, <1>4, <1>5, <1>6, StepSignals

(* Taking the first event keeps the order of the others. *)
LEMMA DeliverProtocol ==
  ASSUME ProtocolInv, Deliver
  PROVE  ProtocolInv'
<1> USE DEF ProtocolInv
<1>1. /\ signals \in Seq(Event) /\ signals # <<>> /\ signals' = Tail(signals)
      /\ UNCHANGED <<cancelRequested, workerPc, todo, summary, byExtension>>
  BY DEF Deliver, WorkerTypeOK
<1>2. /\ signals' \in Seq(Event)
      /\ Len(signals') = Len(signals) - 1
      /\ Len(signals) \in Nat \ {0}
      /\ \A i \in DOMAIN signals' :
           i \in Nat \ {0} /\ i + 1 \in DOMAIN signals /\ signals'[i] = signals[i + 1]
  BY <1>1, TailCases
<1>3. ASSUME NEW i \in DOMAIN signals', IsTerminal(signals'[i])
      PROVE  /\ i = Len(signals')
             /\ workerPc' = "idle"
             /\ i > 1 => /\ signals'[i].type = "finished"
                         /\ signals'[i - 1] = [type  |-> "progress",
                                              files |-> signals'[i].summary.fileCount,
                                              bytes |-> signals'[i].summary.totalBytes,
                                              path  |-> NoPath]
  <2>1. /\ i \in Nat \ {0} /\ i + 1 \in DOMAIN signals /\ signals'[i] = signals[i + 1]
        /\ DOMAIN signals' = 1 .. Len(signals')
    BY <1>2, LenProperties
  <2>2. /\ i + 1 = Len(signals)
        /\ workerPc = "idle"
        /\ signals[i + 1].type = "finished"
        /\ signals[(i + 1) - 1] = [type  |-> "progress",
                                  files |-> signals[i + 1].summary.fileCount,
                                  bytes |-> signals[i + 1].summary.totalBytes,
                                  path  |-> NoPath]
    BY <1>3, <2>1 DEF SignalProtocol
  <2>3. i > 1 => signals'[i - 1] = signals[(i + 1) - 1]
    <3>1. i > 1 => i - 1 \in DOMAIN signals' /\ (i - 1) + 1 = (i + 1) - 1
      BY <2>1, <1>2
    <3> QED
      BY <1>2, <3>1
  <2> QED
    BY <1>1, <1>2, <2>1, <2>2, <2>3
<1>4. TotalsWaitLast'
  <2> SUFFICES ASSUME workerPc = "finishing", signals' # <<>>
               PROVE  signals'[Len(signals')] = Totals'
    BY <1>1 DEF TotalsWaitLast
  <2>1. Len(signals') \in DOMAIN signals' /\ Len(signals') + 1 = Len(signals)
    BY <1>2, LenProperties, EmptySeq
  <2> QED
    BY <1>1, <1>2, <2>1 DEF TotalsWaitLast, Totals
<1>5. WorkerTypeOK'
  BY <1>1, <1>2 DEF WorkerTypeOK
<1> QED
  BY <1>3, <1>4, <1>5 DEF SignalProtocol

-----------------------------------------------------------------------------
(* The inductive invariant of the worker: types and order, the exact walk, *)
(* sums by suffix, and reports that are true.                              *)
WorkerInv == ProtocolInv /\ WalkIsExact /\ TalliesAddUp /\ ReportsHold

(* Taking an event leaves the other reports as true as they were. *)
LEMMA DeliverReports ==
  ASSUME ReportsHold, signals \in Seq(Event), signals # <<>>, signals' = Tail(signals)
  PROVE  ReportsHold'
<1>1. \A i \in Finished' : i + 1 \in Finished /\ signals'[i] = signals[i + 1]
  BY TailCases DEF Finished
<1> QED
  BY <1>1 DEF ReportsHold, CompleteReportMatchesTree, ListAddsUp

(* An idle worker has promised nothing yet. *)
LEMMA WorkerInitInv ==
  ASSUME WorkerInit
  PROVE  WorkerInv
<1>1. NoTallies \in [Suffixes -> Tally]
  BY DEF NoTallies, EmptyTally, Tally
<1>2. <<>> \in Seq(Event) /\ DOMAIN <<>> = {}
  BY EmptySeq
<1>3. WorkerTypeOK
  BY <1>1, <1>2 DEF WorkerInit, WorkerTypeOK, WorkerPcs, NoSummary
<1>4. TalliesAddUp
  BY NoTalliesAddUp DEF WorkerInit, TalliesAddUp, NoSummary
<1>5. ReportsHold /\ SignalProtocol /\ TotalsWaitLast /\ WalkIsExact
  BY <1>2 DEF WorkerInit, ReportsHold, CompleteReportMatchesTree, ListAddsUp, Finished,
              SignalProtocol, TotalsWaitLast, WalkIsExact
<1> QED
  BY <1>3, <1>4, <1>5 DEF WorkerInv, ProtocolInv

(* A caller, the loop and the delivery keep all of it. *)
LEMMA WorkerNextInv ==
  ASSUME WorkerInv, [WorkerNext]_workerVars
  PROVE  WorkerInv'
<1> USE DEF WorkerInv
<1>0. WorkerTypeOK
  BY DEF ProtocolInv
<1>1. CASE Call
  <2>1. PICK path \in Paths : scan(path)
    BY <1>1 DEF Call
  <2> QED
    BY <1>0, <1>1, <2>1, ScanTypeOK, ScanExact, ScanAddsUp, ScanReports, CallProtocol
    DEF ProtocolInv
<1>2. CASE WorkerStep
  BY <1>0, <1>2, WorkerStepTypeOK, StepExact, StepAddsUp, StepReports, StepProtocol
  DEF ProtocolInv
<1>3. CASE Deliver
  <2>0. UNCHANGED <<workerPc, todo, summary, byExtension>>
    BY <1>3 DEF Deliver
  <2>1. WalkIsExact' /\ TalliesAddUp'
    <3>1. WalkIsExact'
      BY <2>0, <1>0 DEF WalkIsExact, WalkOf, CountsOf
    <3>2. TalliesAddUp'
      BY <2>0, <1>0 DEF TalliesAddUp
    <3> QED
      BY <3>1, <3>2
  <2>2. ReportsHold'
    BY <1>0, <1>3, DeliverReports DEF Deliver, WorkerTypeOK
  <2> QED
    BY <1>3, <2>1, <2>2, DeliverProtocol
<1>4. CASE requestCancel \/ UNCHANGED workerVars
  <2>1. UNCHANGED <<workerPc, todo, summary, byExtension, signals>> /\ cancelRequested' \in BOOLEAN
    BY <1>0, <1>4 DEF requestCancel, workerVars, WorkerTypeOK
  <2>2. WalkIsExact' /\ TalliesAddUp' /\ ReportsHold'
    BY <2>1 DEF WalkIsExact, WalkOf, TalliesAddUp, CountsOf, ReportsHold, CompleteReportMatchesTree,
                ListAddsUp, Finished
  <2>3. ProtocolInv'
    BY <2>1 DEF ProtocolInv, WorkerTypeOK, SignalProtocol, TotalsWaitLast, Totals
  <2> QED
    BY <2>2, <2>3
<1> QED
  BY <1>1, <1>2, <1>3, <1>4 DEF WorkerNext

(* Hence it holds in every state of the worker. *)
LEMMA WorkerInvInductive == WorkerSpec => []WorkerInv
BY WorkerInitInv, WorkerNextInv, PTL DEF WorkerSpec

(* The worker's locals, flag and signals keep their types, for every tree, *)
(* caller and moment of a cancel (ScanWorker.cpp:26-92).                   *)
THEOREM WorkerTypeCorrect == WorkerSpec => []WorkerTypeOK
<1>1. WorkerInv => WorkerTypeOK
  BY DEF WorkerInv, ProtocolInv
<1> QED
  BY <1>1, WorkerInvInductive, PTL

(* A report that is not marked as canceled tells the number of files,      *)
(* folders and bytes that are below the directory, by suffix too, in       *)
(* whatever order the iterator returned them (ScanWorker.cpp:50-90):       *)
(* nothing is counted twice or left out, and a cancel that comes too late  *)
(* does not make the report a partial one.                                 *)
THEOREM CompleteReportsAreTrue == WorkerSpec => []CompleteReportMatchesTree
<1>1. WorkerInv => CompleteReportMatchesTree
  BY DEF WorkerInv, ReportsHold
<1> QED
  BY <1>1, WorkerInvInductive, PTL

(* The list of suffixes in every report, complete or cut off at any entry, *)
(* adds up to the totals beside it, names no suffix twice and is sorted by *)
(* the comparison at ScanWorker.cpp:81-87.                                 *)
THEOREM ListsAddUp == WorkerSpec => []ListAddsUp
<1>1. WorkerInv => ListAddsUp
  BY DEF WorkerInv, ReportsHold
<1> QED
  BY <1>1, WorkerInvInductive, PTL

(* failed() comes alone; finished() comes last, directly behind the        *)
(* progress() with the same totals if that still waits, and no signal      *)
(* follows either (ScanWorker.cpp:31-34, 89-90).                           *)
THEOREM SignalsInOrder == WorkerSpec => []SignalProtocol
<1>1. WorkerInv => SignalProtocol
  BY DEF WorkerInv, ProtocolInv
<1> QED
  BY <1>1, WorkerInvInductive, PTL
=============================================================================
