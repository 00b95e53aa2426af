--------------------------- MODULE ScannerProofs ---------------------------
(***************************************************************************)
(* Theorems about the scanner, for every disk, every set of inputs and any *)
(* number of scans. ScanInv, which says where the one scan is, comes       *)
(* first; the order of the counters in the queue, the agreement of the     *)
(* view and the directory that everything is about are further invariants  *)
(* over it, in sections of their own. The worker's part is WorkerProofs;   *)
(* the last section shows that the scanner is safe in the sense of         *)
(* ScanService.                                                            *)
(***************************************************************************)
EXTENDS ScannerController, WorkerProofs

-----------------------------------------------------------------------------
(* Delivering a signal takes the first event of a non-empty queue. *)
LEMMA TakeTypes ==
  ASSUME WorkerTypeOK, NEW type, Take(type)
  PROVE  /\ WorkerTypeOK'
         /\ Head(signals) \in Event
         /\ Head(signals).type = type
<1>1. signals \in Seq(Event) /\ signals # <<>>
  BY DEF WorkerTypeOK, Take
<1>2. Head(signals) \in Event /\ Tail(signals) \in Seq(Event)
  BY <1>1, HeadTailProperties
<1> QED
  BY <1>2 DEF Take, WorkerTypeOK

(* The controller starts with an idle worker and an empty table. *)
LEMMA InitTypeOK ==
  ASSUME Init
  PROVE  TypeOK
<1>1. NoTallies \in [Suffixes -> Tally]
  BY DEF NoTallies, EmptyTally, Tally
<1>2. <<>> \in Seq(Event) /\ <<>> \in Seq(ExtensionStat) /\ <<>> \in Seq(Paths)
  BY EmptySeq
<1>3. WorkerTypeOK
  BY <1>1, <1>2 DEF Init, WorkerInit, WorkerTypeOK, WorkerPcs, NoSummary
<1> QED
  BY <1>2, <1>3, InputAssumption
  DEF Init, ResultInit, TypeOK, ResultTypeOK, StatusTexts

(* start() with a path that is not blank. *)
LEMMA BeginTypeOK ==
  ASSUME TypeOK, NEW text \in Texts, Begin(text)
  PROVE  TypeOK'
<1>1. Clean[text] \in Paths
  BY InputAssumption DEF Begin
<1>2. requests' \in Seq(Paths)
  BY <1>1, AppendProperties DEF Begin, TypeOK
<1>3. WorkerTypeOK'
  BY DEF Begin, TypeOK, WorkerTypeOK, workerVars
<1>4. ResultTypeOK'
  <2>1. <<>> \in Seq(ExtensionStat)
    BY EmptySeq
  <2>2. clearStats
    BY DEF Begin
  <2>3. ResultTypeOK
    BY DEF TypeOK
  <2> QED
    <3>1. CASE UNCHANGED resultVars
      BY <2>3, <3>1 DEF ResultTypeOK, resultVars
    <3>2. CASE rows' = <<>> /\ totalBytes' = 0
      BY <2>1, <3>2 DEF ResultTypeOK
    <3> QED
      BY <2>2, <3>1, <3>2 DEF clearStats
<1> QED
  BY <1>1, <1>2, <1>3, <1>4 DEF Begin, TypeOK, StatusTexts

(* The three slots. *)
LEMMA DeliverTypeOK ==
  ASSUME TypeOK, DeliverSignal
  PROVE  TypeOK'
<1> USE DEF TypeOK
<1>1. CASE onProgress
  <2>1. WorkerTypeOK' /\ Head(signals) \in Event /\ Head(signals).type = "progress"
    BY <1>1, TakeTypes DEF onProgress
  <2>2. Head(signals) \in ProgressEvent
    BY <2>1 DEF Event, ProgressEvent, FinishedEvent, FailedEvent
  <2> QED
    BY <1>1, <2>1, <2>2
    DEF onProgress, Take, ProgressEvent, ResultTypeOK, resultVars, threadVars
<1>2. CASE onFinished
  <2>1. WorkerTypeOK' /\ Head(signals) \in Event /\ Head(signals).type = "finished"
    BY <1>2, TakeTypes DEF onFinished
  <2>2. Head(signals).summary \in ScanSummary
    BY <2>1 DEF Event, ProgressEvent, FinishedEvent, FailedEvent
  <2> QED
    BY <1>2, <2>1, <2>2
    DEF onFinished, setStats, Take, ScanSummary, ResultTypeOK, threadVars, StatusTexts
<1>3. CASE onFailed
  <2>1. WorkerTypeOK'
    BY <1>3, TakeTypes DEF onFailed
  <2> QED
    BY <1>3, <2>1
    DEF onFailed, Take, ResultTypeOK, resultVars, threadVars, StatusTexts
<1> QED
  BY <1>1, <1>2, <1>3 DEF DeliverSignal

(* The worker's thread: a request, an iteration, the end of the thread. *)
LEMMA WorkerThreadTypeOK ==
  ASSUME TypeOK, WorkerThread
  PROVE  TypeOK'
<1> USE DEF TypeOK, ResultTypeOK, resultVars, viewVars, threadVars
<1>1. CASE RunRequest
  <2>1. Head(requests) \in Paths /\ Tail(requests) \in Seq(Paths)
    BY <1>1, HeadTailProperties DEF RunRequest
  <2>2. WorkerTypeOK'
    BY <1>1, <2>1, ScanTypeOK DEF RunRequest
  <2> QED
    BY <1>1, <2>1, <2>2 DEF RunRequest
<1>2. CASE RunWorker
  <2>1. WorkerTypeOK'
    BY <1>2, WorkerStepTypeOK DEF RunWorker
  <2> QED
    BY <1>2, <2>1 DEF RunWorker
<1>3. CASE FinishThread
  <2>1. requests' \in Seq(Paths)
    BY <1>3, EmptySeq DEF FinishThread
  <2> QED
    BY <1>3, <2>1 DEF FinishThread, WorkerTypeOK, workerVars
<1> QED
  BY <1>1, <1>2, <1>3 DEF WorkerThread

(* Hence every step keeps the types. *)
LEMMA NextTypeOK ==
  ASSUME TypeOK, [Next]_vars
  PROVE  TypeOK'
<1>1. CASE \E text \in Texts : start(text)
  <2>1. PICK text \in Texts : start(text)
    BY <1>1
  <2>2. CASE RejectEmptyPath(text)
    BY <2>2 DEF RejectEmptyPath, TypeOK, WorkerTypeOK, ResultTypeOK, workerVars, resultVars,
                threadVars, StatusTexts
  <2> QED
    BY <2>1, <2>2, BeginTypeOK DEF start
<1>2. CASE \E url \in Urls : startFromUrl(url)
  <2>1. PICK url \in Urls : start(UrlText[url])
    BY <1>2 DEF startFromUrl
  <2>2. UrlText[url] \in Texts
    BY InputAssumption
  <2> QED
    BY <1>1, <2>1, <2>2
<1>3. CASE cancel \/ AskWorkerToStop
  BY <1>3 DEF cancel, AskWorkerToStop, requestCancel, TypeOK, WorkerTypeOK, ResultTypeOK,
              resultVars, viewVars, threadVars, StatusTexts
<1>4. CASE Destructor
  <2>1. <<>> \in Seq(Event)
    BY EmptySeq
  <2> QED
    BY <1>4, <2>1 DEF Destructor, QuitThread, WaitReturns, TypeOK, WorkerTypeOK, ResultTypeOK,
                      workerVars, resultVars, viewVars, threadVars
<1>5. CASE UNCHANGED vars
  BY <1>5 DEF vars, TypeOK, WorkerTypeOK, ResultTypeOK, workerVars, resultVars, viewVars,
              threadVars
<1> QED
  BY <1>1, <1>2, <1>3, <1>4, <1>5, DeliverTypeOK, WorkerThreadTypeOK
  DEF Next, UserCommand, Gone

(* Every variable of the scanner keeps its type: in particular no empty    *)
(* path ever becomes the root of a scan (ScannerController.cpp:65).        *)
THEOREM TypeCorrect == Spec => []TypeOK
<1>1. Init => TypeOK
  BY InitTypeOK
<1>2. TypeOK /\ [Next]_vars => TypeOK'
  BY NextTypeOK
<1> QED
  BY <1>1, <1>2, PTL DEF Spec

-----------------------------------------------------------------------------
(* One scan at a time. The invariant is inductive together with the type   *)
(* invariant and the order of the shutdown: where `running` is true it     *)
(* says in which of the three places the scan is, and each action moves it *)
(* to the next place.                                                      *)
ScanInv == TypeOK /\ OneScanAtATime /\ NothingOutlivesController

(* Adding an event to a queue without a terminal one. *)
LEMMA AppendEvent ==
  ASSUME NEW queue \in Seq(Event), NEW event \in Event,
         \A i \in DOMAIN queue : ~IsTerminal(queue[i])
  PROVE  LET longer == Append(queue, event) IN
         /\ longer # <<>>
         /\ ~IsTerminal(event) => \A i \in DOMAIN longer : ~IsTerminal(longer[i])
         /\ IsTerminal(event) =>
              \A i \in DOMAIN longer : IsTerminal(longer[i]) <=> i = Len(longer)
<1> DEFINE longer == Append(queue, event)
<1>1. /\ longer # <<>>
      /\ Len(longer) = Len(queue) + 1
      /\ \A i \in 1 .. Len(queue) : longer[i] = queue[i]
      /\ longer[Len(queue) + 1] = event
      /\ DOMAIN longer = 1 .. Len(longer)
      /\ DOMAIN queue = 1 .. Len(queue)
      /\ Len(queue) \in Nat
  BY AppendProperties, LenProperties
<1> HIDE DEF longer
<1>2. \A i \in DOMAIN longer : i \in 1 .. Len(queue) \/ i = Len(queue) + 1
  BY <1>1
<1>3. \A i \in 1 .. Len(queue) : ~IsTerminal(longer[i]) /\ i # Len(longer)
  BY <1>1
<1> SUFFICES
      /\ ~IsTerminal(event) => \A i \in DOMAIN longer : ~IsTerminal(longer[i])
      /\ IsTerminal(event) => \A i \in DOMAIN longer : IsTerminal(longer[i]) <=> i = Len(longer)
  BY <1>1 DEF longer
<1> QED
  BY <1>1, <1>2, <1>3

(* start() is refused unless everything is at rest. *)
LEMMA BeginOneScan ==
  ASSUME ScanInv, NEW text \in Texts, Begin(text)
  PROVE  OneScanAtATime'
<1>1. AtRest
  BY DEF Begin, ScanInv, OneScanAtATime
<1>2. Clean[text] \in Paths /\ requests \in Seq(Paths)
  BY InputAssumption DEF Begin, ScanInv, TypeOK
<1>3. Len(requests') = 1
  BY <1>1, <1>2, AppendProperties, EmptySeq DEF Begin, AtRest
<1>4. Requested'
  BY <1>1, <1>3 DEF Begin, AtRest, Requested, workerVars
<1> QED
  BY <1>4 DEF Begin, OneScanAtATime

(* Delivery moves a reported scan to rest exactly when it delivers the     *)
(* terminal event.                                                         *)
LEMMA DeliverOneScan ==
  ASSUME ScanInv, DeliverSignal
  PROVE  OneScanAtATime'
<1>1. /\ life = "up" /\ life' = "up"
      /\ signals \in Seq(Event) /\ signals # <<>>
      /\ signals' = Tail(signals)
      /\ UNCHANGED <<workerPc, requests>>
  BY DEF DeliverSignal, onProgress, onFinished, onFailed, Take, ScanInv, TypeOK, WorkerTypeOK,
         threadVars
<1>2. /\ Len(signals) \in Nat \ {0}
      /\ DOMAIN signals = 1 .. Len(signals)
      /\ Head(signals) = signals[1]
      /\ signals' \in Seq(Event)
      /\ Len(signals') = Len(signals) - 1
      /\ DOMAIN signals' = 1 .. Len(signals')
      /\ \A i \in 1 .. Len(signals') : signals'[i] = signals[i + 1]
  BY <1>1, HeadTailProperties, LenProperties, EmptySeq
<1>3. running /\ (InWorker \/ Reported)
  BY <1>1 DEF ScanInv, OneScanAtATime, AtRest, Requested
<1>4. CASE onProgress
  <2>1. running' /\ ~IsTerminal(signals[1])
    BY <1>2, <1>3, <1>4 DEF onProgress, Take, IsTerminal
  <2>2. CASE InWorker
    BY <1>1, <1>2, <2>1, <2>2 DEF InWorker, OneScanAtATime
  <2>3. CASE Reported
    <3>1. Len(signals) > 1
      BY <1>2, <2>1, <2>3 DEF Reported
    <3>2. signals' # <<>>
      BY <1>2, <3>1
    <3>3. \A i \in DOMAIN signals' : IsTerminal(signals'[i]) <=> i = Len(signals')
      BY <1>2, <2>3 DEF Reported
    <3> QED
      BY <1>1, <2>1, <2>3, <3>2, <3>3 DEF Reported, OneScanAtATime
  <2> QED
    BY <1>3, <2>2, <2>3
<1>5. CASE onFinished \/ onFailed
  <2>1. ~running' /\ IsTerminal(signals[1])
    BY <1>2, <1>5 DEF onFinished, onFailed, Take, IsTerminal
  <2>2. Reported /\ Len(signals) = 1
    BY <1>2, <1>3, <2>1 DEF InWorker, Reported
  <2>3. signals' = <<>>
    BY <1>2, <2>2
  <2> QED
    BY <1>1, <2>1, <2>2, <2>3 DEF Reported, AtRest, OneScanAtATime
<1> QED
  BY <1>4, <1>5 DEF DeliverSignal

(* The worker hands the scan on from one place to the next. *)
LEMMA WorkerThreadOneScan ==
  ASSUME ScanInv, WorkerThread
  PROVE  OneScanAtATime'
<1>1. CASE life # "up"
  BY <1>1 DEF WorkerThread, RunRequest, RunWorker, FinishThread, OneScanAtATime
<1>2. CASE life = "up"
  <2> USE DEF viewVars, threadVars
  <2>1. signals \in Seq(Event) /\ requests \in Seq(Paths) /\ workerPc \in WorkerPcs
    BY DEF ScanInv, TypeOK, WorkerTypeOK
  <2>2. thread = "running"
    BY <1>2 DEF ScanInv, NothingOutlivesController
  <2>3. CASE RunRequest
    <3>1. running /\ Requested
      BY <1>2, <2>3 DEF RunRequest, ScanInv, OneScanAtATime, InWorker, Reported, AtRest
    <3>2. requests' = <<>>
      BY <2>1, <2>3, <3>1, HeadTailProperties DEF RunRequest, Requested
    <3>3. CASE workerPc' = "walking" /\ UNCHANGED signals
      BY <1>2, <2>3, <3>1, <3>2, <3>3 DEF RunRequest, Requested, InWorker, OneScanAtATime
    <3>4. CASE workerPc' = workerPc /\ signals' = Append(signals, [type |-> "failed"])
      <4>1. Reported'
        BY <2>1, <3>1, <3>2, <3>4, AppendEvent, EventTypes DEF Requested, Reported, IsTerminal
      <4> QED
        BY <1>2, <2>3, <3>1, <4>1 DEF RunRequest, OneScanAtATime
    <3> QED
      BY <2>3, <3>3, <3>4 DEF RunRequest, scan
  <2>4. CASE RunWorker
    <3>1. running /\ InWorker
      BY <1>2, <2>4
      DEF RunWorker, WorkerStep, Iterate, EndOfTree, ReportTotals, ReportFinished,
          ScanInv, OneScanAtATime, Requested, Reported, AtRest
    <3>2. running' /\ life' = "up" /\ requests' = <<>>
      BY <1>2, <2>4, <3>1 DEF RunWorker, InWorker
    <3>3. CASE ReportFinished
      <4>1. PICK order \in SortedSeen :
              signals' = Append(signals, [type |-> "finished", summary |-> SummaryWith(order)])
        BY <3>3 DEF ReportFinished
      <4>2. [type |-> "finished", summary |-> SummaryWith(order)] \in Event
        BY <3>1, SummaryType, EventTypes DEF InWorker, ScanInv, TypeOK
      <4>3. Reported'
        BY <2>1, <3>1, <3>2, <3>3, <4>1, <4>2, AppendEvent
        DEF InWorker, Reported, IsTerminal, ReportFinished
      <4> QED
        BY <3>2, <4>3 DEF OneScanAtATime
    <3>4. CASE Iterate \/ EndOfTree \/ ReportTotals
      <4>1. workerPc' # "idle"
        BY <3>4 DEF Iterate, EndOfTree, ReportTotals
      <4>2. CASE UNCHANGED signals
        BY <3>1, <3>2, <4>1, <4>2 DEF InWorker, OneScanAtATime
      <4>3. CASE \E event \in Event : ~IsTerminal(event) /\ signals' = Append(signals, event)
        BY <2>1, <3>1, <3>2, <4>1, <4>3, AppendEvent DEF InWorker, OneScanAtATime
      <4>4. UNCHANGED signals \/ \E event \in Event :
                                  ~IsTerminal(event) /\ signals' = Append(signals, event)
        <5>1. CASE ReportTotals
          <6>1. [type |-> "progress", files |-> summary.fileCount,
                 bytes |-> summary.totalBytes, path |-> NoPath] \in Event
            BY EventTypes DEF ScanInv, TypeOK, WorkerTypeOK
          <6> QED
            BY <5>1, <6>1 DEF ReportTotals, IsTerminal
        <5>2. CASE Iterate
          <6>1. PICK e \in todo : UNCHANGED signals \/ signals' = Append(signals, ProgressOf(e))
            BY <5>2 DEF Iterate, VisitFile, VisitDirectory
          <6>2. ProgressOf(e) \in Event
            BY <5>2, <6>1, IterateTypeOK, EventTypes
            DEF ProgressOf, ScanInv, TypeOK, WorkerTypeOK
          <6> QED
            BY <6>1, <6>2 DEF ProgressOf, IsTerminal
        <5> QED
          BY <3>4, <5>1, <5>2 DEF EndOfTree
      <4> QED
        BY <4>2, <4>3, <4>4
    <3> QED
      BY <2>4, <3>3, <3>4 DEF RunWorker, WorkerStep
  <2> QED
    BY <2>2, <2>3, <2>4 DEF WorkerThread, FinishThread
<1> QED
  BY <1>1, <1>2

(* Every step keeps one scan, in one place. *)
LEMMA NextOneScan ==
  ASSUME ScanInv, [Next]_vars
  PROVE  OneScanAtATime'
<1> USE DEF OneScanAtATime, Requested, InWorker, Reported, AtRest
<1>1. CASE \E text \in Texts : start(text)
  <2>1. PICK text \in Texts : start(text)
    BY <1>1
  <2>2. CASE RejectEmptyPath(text)
    <3>1. UNCHANGED <<workerPc, signals, running, requests, life>>
      BY <2>2 DEF RejectEmptyPath, workerVars, threadVars
    <3> QED
      BY <3>1 DEF ScanInv
  <2> QED
    BY <2>1, <2>2, BeginOneScan DEF start
<1>2. CASE \E url \in Urls : startFromUrl(url)
  BY <1>1, <1>2, InputAssumption DEF startFromUrl
<1>3. CASE cancel
  BY <1>3 DEF cancel, requestCancel, ScanInv, threadVars
<1>4. CASE AskWorkerToStop \/ Destructor
  BY <1>4 DEF AskWorkerToStop, Destructor, QuitThread, WaitReturns
<1>5. CASE UNCHANGED vars
  BY <1>5 DEF vars, ScanInv, workerVars, viewVars, threadVars
<1> QED
  BY <1>1, <1>2, <1>3, <1>4, <1>5, DeliverOneScan, WorkerThreadOneScan
  DEF Next, UserCommand, Gone

(* Every step keeps worker and thread for as long as they are needed. *)
LEMMA NextOutlives ==
  ASSUME ScanInv, [Next]_vars
  PROVE  NothingOutlivesController'
<1> USE DEF NothingOutlivesController, ScanInv
<1>1. CASE \E text \in Texts : start(text)
  <2>1. PICK text \in Texts : start(text)
    BY <1>1
  <2>2. CASE RejectEmptyPath(text)
    BY <2>2 DEF RejectEmptyPath, workerVars, threadVars
  <2>3. CASE Begin(text)
    BY <2>3 DEF Begin, workerVars
  <2> QED
    BY <2>1, <2>2, <2>3 DEF start
<1>2. CASE \E url \in Urls : startFromUrl(url)
  BY <1>1, <1>2, InputAssumption DEF startFromUrl
<1>3. CASE cancel \/ AskWorkerToStop \/ Destructor
  BY <1>3 DEF cancel, requestCancel, AskWorkerToStop, Destructor, QuitThread, WaitReturns,
              workerVars, threadVars
<1>4. CASE DeliverSignal
  BY <1>4 DEF DeliverSignal, onProgress, onFinished, onFailed, Take, threadVars
<1>5. CASE RunRequest
  BY <1>5 DEF RunRequest
<1>6. CASE RunWorker
  BY <1>6 DEF RunWorker, WorkerStep, Iterate, EndOfTree, ReportTotals, ReportFinished, threadVars
<1>7. CASE FinishThread
  BY <1>7 DEF FinishThread, workerVars
<1>8. CASE UNCHANGED vars
  BY <1>8 DEF vars, workerVars, threadVars
<1> QED
  BY <1>1, <1>2, <1>3, <1>4, <1>5, <1>6, <1>7, <1>8 DEF Next, UserCommand, Gone, WorkerThread

(* The three together are inductive. *)
LEMMA ScanInvInductive == Spec => []ScanInv
<1>1. Init => ScanInv
  BY InitTypeOK DEF ScanInv, Init, WorkerInit, OneScanAtATime, AtRest, NothingOutlivesController
<1>2. ScanInv /\ [Next]_vars => ScanInv'
  BY NextTypeOK, NextOneScan, NextOutlives DEF ScanInv
<1> QED
  BY <1>1, <1>2, PTL DEF Spec

(* `running` is true exactly while one scan is requested, walking or       *)
(* reported, and no event outlives its scan.                               *)
THEOREM OneScan == Spec => []OneScanAtATime
<1>1. ScanInv => OneScanAtATime
  BY DEF ScanInv
<1> QED
  BY <1>1, ScanInvInductive, PTL

(* The worker object is alive whenever the GUI thread may call it, and the *)
(* destructor leaves neither a thread nor an event behind.                 *)
THEOREM NothingOutlives == Spec => []NothingOutlivesController
<1>1. ScanInv => NothingOutlivesController
  BY DEF ScanInv
<1> QED
  BY <1>1, ScanInvInductive, PTL

-----------------------------------------------------------------------------
(* Why a result is "Cancelled" only when the user asked: scan() lowers the *)
(* flag, so inside a walk it is up only if cancel() raised it during this  *)
(* very scan, and cancel() leaves "Cancelling" on the status line, where   *)
(* nothing but the terminal event of the scan replaces it.                 *)
CanceledWasAsked ==
  life = "up" =>
    /\ workerPc = "idle" => ~summary.canceled
    /\ workerPc = "walking" /\ cancelRequested => statusText = "Cancelling"
    /\ summary.canceled => statusText = "Cancelling"
    /\ \A i \in DOMAIN signals :
          signals[i].type = "finished" /\ signals[i].summary.canceled => statusText = "Cancelling"

(* An event joins the queue: the claim about reports need be shown for it  *)
(* alone.                                                                  *)
LEMMA AppendAsked ==
  ASSUME NEW queue \in Seq(Event), NEW event \in Event, NEW asked \in BOOLEAN,
         \A i \in DOMAIN queue : queue[i].type = "finished" /\ queue[i].summary.canceled => asked,
         event.type = "finished" /\ event.summary.canceled => asked
  PROVE  \A i \in DOMAIN Append(queue, event) :
           Append(queue, event)[i].type = "finished" /\ Append(queue, event)[i].summary.canceled
             => asked
<1> DEFINE longer == Append(queue, event)
<1>1. /\ Len(longer) = Len(queue) + 1
      /\ \A i \in 1 .. Len(queue) : longer[i] = queue[i]
      /\ longer[Len(queue) + 1] = event
      /\ DOMAIN longer = 1 .. Len(longer)
      /\ DOMAIN queue = 1 .. Len(queue)
      /\ Len(queue) \in Nat
  BY AppendProperties, LenProperties
<1> HIDE DEF longer
<1>2. \A i \in DOMAIN longer : i \in DOMAIN queue \/ i = Len(queue) + 1
  BY <1>1
<1>3. \A i \in DOMAIN longer : longer[i].type = "finished" /\ longer[i].summary.canceled => asked
  BY <1>1, <1>2
<1> QED
  BY <1>3 DEF longer

(* The worker marks a summary as canceled only when it finds the flag      *)
(* raised.                                                                 *)
LEMMA WorkerAsked ==
  ASSUME ScanInv, CanceledWasAsked, WorkerThread, life = "up"
  PROVE  CanceledWasAsked'
<1> DEFINE asked == statusText = "Cancelling"
<1> USE DEF CanceledWasAsked
<1>1. signals \in Seq(Event) /\ requests \in Seq(Paths) /\ WorkerTypeOK
  BY DEF ScanInv, TypeOK, WorkerTypeOK
<1>2. thread = "running"
  BY DEF ScanInv, NothingOutlivesController
<1>3. UNCHANGED statusText /\ life' = "up"
  BY <1>2 DEF WorkerThread, RunRequest, RunWorker, FinishThread, viewVars
<1>4. CASE RunRequest
  <2>1. ~cancelRequested' /\ ~summary.canceled
    BY <1>4 DEF RunRequest, scan
  <2>2. CASE workerPc' = "walking" /\ UNCHANGED signals
    <3>1. summary' = [NoSummary EXCEPT !.rootPath = Absolute[Head(requests)]]
      BY <1>4, <2>2 DEF RunRequest, scan
    <3>2. ~summary'.canceled
      BY <3>1 DEF NoSummary
    <3> QED
      BY <1>3, <2>1, <2>2, <3>2
  <2>3. CASE signals' = Append(signals, [type |-> "failed"]) /\ UNCHANGED <<workerPc, summary>>
    <3>1. \A i \in DOMAIN signals' :
             signals'[i].type = "finished" /\ signals'[i].summary.canceled => asked
      BY <1>1, <2>3, AppendAsked, EventTypes
    <3> QED
      BY <1>3, <2>1, <2>3, <3>1
  <2> QED
    BY <1>4, <2>2, <2>3 DEF RunRequest, scan
<1>5. CASE RunWorker /\ Iterate
  <2>1. PICK e \in todo :
          \/ /\ cancelRequested
             /\ workerPc' = "reporting"
             /\ UNCHANGED signals
          \/ /\ summary' = [summary EXCEPT !.fileCount = @ + 1, !.totalBytes = @ + Info[e].size]
             /\ UNCHANGED signals \/ signals' = Append(signals, ProgressOf(e))
             /\ UNCHANGED workerPc
          \/ /\ summary' = [summary EXCEPT !.directoryCount = @ + 1]
             /\ UNCHANGED <<workerPc, signals>>
    BY <1>5 DEF Iterate, VisitFile, VisitDirectory
  <2>2. workerPc = "walking" /\ UNCHANGED cancelRequested
    BY <1>5 DEF Iterate
  <2>3. CASE cancelRequested /\ workerPc' = "reporting" /\ UNCHANGED signals
    BY <1>3, <2>2, <2>3
  <2>4. CASE UNCHANGED workerPc /\ (UNCHANGED signals \/ signals' = Append(signals, ProgressOf(e)))
               /\ summary'.canceled = summary.canceled
    <3>1. ProgressOf(e) \in Event
      BY <1>1, <1>5, IterateTypeOK, EventTypes DEF ProgressOf, WorkerTypeOK
    <3>2. \A i \in DOMAIN signals' :
             signals'[i].type = "finished" /\ signals'[i].summary.canceled => asked
      BY <1>1, <2>4, <3>1, AppendAsked DEF ProgressOf
    <3> QED
      BY <1>3, <2>2, <2>4, <3>2
  <2> QED
    BY <1>1, <2>1, <2>3, <2>4 DEF WorkerTypeOK
<1>6. CASE RunWorker /\ EndOfTree
  BY <1>3, <1>6 DEF EndOfTree
<1>7. CASE RunWorker /\ ReportTotals
  <2> DEFINE event == [type |-> "progress", files |-> summary.fileCount,
                       bytes |-> summary.totalBytes, path |-> NoPath]
  <2>1. event \in Event
    BY <1>1, EventTypes DEF WorkerTypeOK
  <2>2. \A i \in DOMAIN signals' :
          signals'[i].type = "finished" /\ signals'[i].summary.canceled => asked
    BY <1>1, <1>7, <2>1, AppendAsked DEF ReportTotals
  <2> QED
    BY <1>3, <1>7, <2>2 DEF ReportTotals
<1>8. CASE RunWorker /\ ReportFinished
  <2>1. PICK order \in SortedSeen :
          signals' = Append(signals, [type |-> "finished", summary |-> SummaryWith(order)])
    BY <1>8 DEF ReportFinished
  <2>2. [type |-> "finished", summary |-> SummaryWith(order)] \in Event
    BY <1>1, <1>8, SummaryType, EventTypes DEF ReportFinished
  <2>3. SummaryWith(order).canceled = summary.canceled
    BY DEF SummaryWith
  <2>4. \A i \in DOMAIN signals' :
          signals'[i].type = "finished" /\ signals'[i].summary.canceled => asked
    BY <1>1, <2>1, <2>2, <2>3, AppendAsked
  <2> QED
    BY <1>3, <1>8, <2>4 DEF ReportFinished, NoSummary
<1> QED
  BY <1>2, <1>4, <1>5, <1>6, <1>7, <1>8 DEF WorkerThread, RunWorker, WorkerStep, FinishThread

(* Every step keeps a cancel from being made up. *)
LEMMA NextAsked ==
  ASSUME ScanInv, ScanInv', CanceledWasAsked, [Next]_vars
  PROVE  CanceledWasAsked'
<1> USE DEF CanceledWasAsked
<1>1. CASE \E text \in Texts : start(text)
  <2>1. AtRest /\ life = "up"
    BY <1>1 DEF start, RejectEmptyPath, Begin, ScanInv, OneScanAtATime
  <2>2. UNCHANGED <<workerPc, summary, signals, life>>
    BY <1>1 DEF start, RejectEmptyPath, Begin, workerVars
  <2> QED
    BY <2>1, <2>2 DEF AtRest
<1>2. CASE \E url \in Urls : startFromUrl(url)
  BY <1>1, <1>2, InputAssumption DEF startFromUrl
<1>3. CASE cancel
  BY <1>3 DEF cancel, requestCancel
<1>4. CASE AskWorkerToStop \/ Destructor
  BY <1>4 DEF AskWorkerToStop, Destructor, QuitThread, WaitReturns
<1>5. CASE DeliverSignal
  <2>1. /\ UNCHANGED <<workerPc, summary, cancelRequested, life>>
        /\ life = "up"
        /\ signals \in Seq(Event) /\ signals # <<>> /\ signals' = Tail(signals)
    BY <1>5 DEF DeliverSignal, onProgress, onFinished, onFailed, Take, ScanInv, TypeOK,
                WorkerTypeOK
  <2>2. CASE onProgress
    <3>1. \A i \in DOMAIN signals' : i + 1 \in DOMAIN signals /\ signals'[i] = signals[i + 1]
      BY <2>1, HeadTailProperties, LenProperties, EmptySeq
    <3> QED
      BY <2>1, <2>2, <3>1 DEF onProgress
  <2>3. CASE onFinished \/ onFailed
    <3>1. ~running' /\ AtRest'
      BY <2>1, <2>3 DEF onFinished, onFailed, ScanInv, OneScanAtATime
    <3> QED
      BY <2>1, <3>1 DEF AtRest
  <2> QED
    BY <1>5, <2>2, <2>3 DEF DeliverSignal
<1>6. CASE WorkerThread
  <2>1. life' = life
    BY <1>6 DEF WorkerThread, RunRequest, RunWorker, FinishThread
  <2> QED
    BY <1>6, <2>1, WorkerAsked
<1>7. CASE UNCHANGED vars
  BY <1>7 DEF vars, workerVars, viewVars
<1> QED
  BY <1>1, <1>2, <1>3, <1>4, <1>5, <1>6, <1>7 DEF Next, UserCommand, Gone

(* The status line turns to "Cancelled" only from "Cancelling". *)
LEMMA CancelledStep ==
  ASSUME ScanInv, CanceledWasAsked, [Next]_vars, statusText' = "Cancelled"
  PROVE  statusText \in {"Cancelling", "Cancelled"}
<1>1. CASE onFinished
  <2>1. /\ life = "up" /\ signals \in Seq(Event) /\ signals # <<>>
        /\ Head(signals).type = "finished"
        /\ Head(signals).summary.canceled
    BY <1>1 DEF onFinished, Take, ScanInv, TypeOK, WorkerTypeOK
  <2>2. 1 \in DOMAIN signals /\ Head(signals) = signals[1]
    BY <2>1, LenProperties, EmptySeq
  <2> QED
    BY <2>1, <2>2 DEF CanceledWasAsked
<1>2. CASE \E text \in Texts : start(text)
  BY <1>2 DEF start, RejectEmptyPath, Begin
<1>3. CASE \E url \in Urls : startFromUrl(url)
  BY <1>2, <1>3, InputAssumption DEF startFromUrl
<1>4. CASE cancel \/ onProgress \/ onFailed
  BY <1>4 DEF cancel, onProgress, onFailed
<1>5. CASE AskWorkerToStop \/ Destructor \/ WorkerThread \/ UNCHANGED vars
  BY <1>5 DEF AskWorkerToStop, Destructor, QuitThread, WaitReturns, WorkerThread, RunRequest,
              RunWorker, FinishThread, vars, viewVars
<1> QED
  BY <1>1, <1>2, <1>3, <1>4, <1>5 DEF Next, UserCommand, DeliverSignal, Gone

(* No scan is reported as cancelled unless it was cancelled itself: a flag *)
(* left over from the previous one never ends the next.                    *)
THEOREM CancelledWasAsked == Spec => CancelledOnlyIfAsked
<1>1. Init => CanceledWasAsked
  <2> SUFFICES ASSUME Init PROVE CanceledWasAsked
    OBVIOUS
  <2>1. signals = <<>> /\ cancelRequested = FALSE /\ summary = NoSummary
    BY DEF Init, WorkerInit
  <2>2. NoSummary.canceled = FALSE
    BY DEF NoSummary
  <2> QED
    BY <2>1, <2>2 DEF CanceledWasAsked
<1>2. ScanInv /\ ScanInv' /\ CanceledWasAsked /\ [Next]_vars => CanceledWasAsked'
  BY NextAsked
<1>3. ScanInv /\ CanceledWasAsked /\ [Next]_vars
        => [statusText' = "Cancelled" => statusText \in {"Cancelling", "Cancelled"}]_vars
  BY CancelledStep
<1> QED
  BY <1>1, <1>2, <1>3, ScanInvInductive, PTL DEF Spec, CancelledOnlyIfAsked

-----------------------------------------------------------------------------
(* Where a scan under way may be, read from each of its three places.      *)
LEMMA Places ==
  ASSUME ScanInv, life = "up"
  PROVE  /\ thread = "running"
         /\ requests # <<>> => /\ running /\ Len(requests) = 1
                              /\ workerPc = "idle" /\ signals = <<>>
         /\ workerPc # "idle" => /\ running /\ requests = <<>>
                                 /\ \A i \in DOMAIN signals : ~IsTerminal(signals[i])
         /\ signals # <<>> => running /\ requests = <<>>
BY DEF ScanInv, OneScanAtATime, NothingOutlivesController, Requested, InWorker, Reported, AtRest

(* What the worker thread can do while the controller lives.               *)
LEMMA WorkerMoves ==
  ASSUME ScanInv, life = "up", WorkerThread
  PROVE  /\ running /\ requests' = <<>>
         /\ UNCHANGED <<rows, totalBytes, running, rootPath, filesScanned, bytesScanned,
                        currentPath, statusText, life>>
         /\ \/ /\ requests # <<>> /\ requests[1] \in Paths \ Directories
               /\ signals = <<>> /\ signals' = Append(<<>>, [type |-> "failed"])
               /\ UNCHANGED <<workerPc, todo, summary, byExtension>>
               /\ workerPc = "idle"
            \/ /\ requests # <<>> /\ requests[1] \in Directories /\ scan(requests[1])
               /\ signals = <<>> /\ signals' = <<>>
               /\ workerPc' = "walking"
               /\ summary'.fileCount = 0 /\ summary'.totalBytes = 0
            \/ RunWorker /\ requests = <<>> /\ workerPc # "idle"
<1>1. CASE RunRequest
  <2>1. /\ requests # <<>> /\ running /\ Len(requests) = 1 /\ workerPc = "idle" /\ signals = <<>>
        /\ requests \in Seq(Paths)
    BY <1>1, Places DEF RunRequest, ScanInv, TypeOK
  <2>2. /\ Head(requests) = requests[1] /\ requests[1] \in Paths /\ Tail(requests) = <<>>
    <3>1. /\ Head(requests) = requests[1] /\ requests[1] \in Paths
          /\ Tail(requests) \in Seq(Paths) /\ Len(Tail(requests)) = 0
      BY <2>1, HeadTailProperties, LenProperties
    <3> QED
      BY <3>1, EmptySeq
  <2>3. scan(requests[1]) /\ requests' = <<>>
    BY <1>1, <2>2 DEF RunRequest
  <2>4. CASE requests[1] \notin Directories
    BY <1>1, <2>1, <2>2, <2>3, <2>4 DEF scan, RunRequest, resultVars, viewVars
  <2>5. CASE requests[1] \in Directories
    <3>1. summary'.fileCount = 0 /\ summary'.totalBytes = 0
      BY <2>3, <2>5 DEF scan, NoSummary
    <3> QED
      BY <1>1, <2>1, <2>2, <2>3, <2>5, <3>1 DEF scan, RunRequest, resultVars, viewVars
  <2> QED
    BY <2>4, <2>5
<1>2. CASE RunWorker
  <2>1. workerPc # "idle"
    BY <1>2 DEF RunWorker, WorkerStep, Iterate, EndOfTree, ReportTotals, ReportFinished
  <2> QED
    BY <1>2, <2>1, Places DEF RunWorker, resultVars, viewVars, threadVars
<1> QED
  BY <1>1, <1>2, Places DEF WorkerThread, FinishThread

(* The invariants of the worker hold in the composition. *)
LEMMA WorkerPartsHold ==
  ASSUME ScanInv, WalkIsExact, TalliesAddUp, ReportsHold, [Next]_vars
  PROVE  WalkIsExact' /\ TalliesAddUp' /\ ReportsHold'
<1>0. WorkerTypeOK /\ signals \in Seq(Event) /\ requests \in Seq(Paths)
  BY DEF ScanInv, TypeOK, WorkerTypeOK
<1>1. CASE UNCHANGED <<workerPc, todo, summary, byExtension>>
  <2>1. WalkIsExact' /\ TalliesAddUp'
    BY <1>1 DEF WalkIsExact, WalkOf, TalliesAddUp, CountsOf
  <2>2. CASE UNCHANGED signals \/ signals' = <<>>
    BY <2>1, <2>2 DEF ReportsHold, CompleteReportMatchesTree, ListAddsUp, Finished
  <2>3. CASE signals # <<>> /\ signals' = Tail(signals)
    BY <1>0, <2>1, <2>3, DeliverReports
  <2>4. CASE RunRequest
    <3>1. Head(requests) \in Paths
      BY <1>0, <2>4, HeadTailProperties DEF RunRequest
    <3> QED
      BY <1>0, <2>1, <2>4, <3>1, ScanReports DEF RunRequest
  <2>5. CASE RunWorker
    BY <1>0, <2>1, <2>5, StepReports DEF RunWorker
  <2> QED
    BY <1>1, <2>1, <2>2, <2>3, <2>4, <2>5
    DEF Next, UserCommand, startFromUrl, start, RejectEmptyPath, Begin, cancel, AskWorkerToStop,
        requestCancel, DeliverSignal, onProgress, onFinished, onFailed, Take, WorkerThread,
        FinishThread, Destructor, QuitThread, WaitReturns, Gone, vars, workerVars
<1>2. CASE RunRequest
  <2>1. Head(requests) \in Paths
    BY <1>0, <1>2, HeadTailProperties DEF RunRequest
  <2> QED
    BY <1>0, <1>2, <2>1, ScanExact, ScanAddsUp, ScanReports DEF RunRequest
<1>3. CASE RunWorker
  BY <1>0, <1>3, StepExact, StepAddsUp, StepReports DEF RunWorker
<1>4. CASE ~RunRequest /\ ~RunWorker
  <2>1. UNCHANGED <<workerPc, todo, summary, byExtension>>
    BY <1>4 DEF Next, UserCommand, startFromUrl, start, RejectEmptyPath, Begin, cancel,
                AskWorkerToStop, requestCancel, DeliverSignal, onProgress, onFinished, onFailed,
                Take, WorkerThread, FinishThread, Destructor, QuitThread, WaitReturns, Gone,
                vars, workerVars
  <2> QED
    BY <1>1, <2>1
<1> QED
  BY <1>2, <1>3, <1>4

-----------------------------------------------------------------------------
(* Why the counters on screen never go back: the counters that wait in the *)
(* queue are in the order of their events, at least those on screen and at *)
(* most those of the walk.                                                 *)
Carries(event) == event.type # "failed"
(* The counters that an event carries. *)
FilesIn(event) == IF event.type = "progress" THEN event.files ELSE event.summary.fileCount
BytesIn(event) == IF event.type = "progress" THEN event.bytes ELSE event.summary.totalBytes

(* In words: screen <= first event <= ... <= last event <= walk; and a     *)
(* request is in the queue only while the screen shows zeros.              *)
CountsInOrder ==
  life = "up" =>
    /\ requests # <<>> => filesScanned = 0 /\ bytesScanned = 0
    /\ workerPc # "idle" => filesScanned <= summary.fileCount /\ bytesScanned <= summary.totalBytes
    /\ \A i \in DOMAIN signals : Carries(signals[i]) =>
         /\ filesScanned <= FilesIn(signals[i]) /\ bytesScanned <= BytesIn(signals[i])
         /\ workerPc # "idle" => /\ FilesIn(signals[i]) <= summary.fileCount
                                 /\ BytesIn(signals[i]) <= summary.totalBytes
         /\ \A j \in DOMAIN signals : i < j /\ Carries(signals[j]) =>
              /\ FilesIn(signals[i]) <= FilesIn(signals[j])
              /\ BytesIn(signals[i]) <= BytesIn(signals[j])

(* start() sets the screen to zero when there is no walk and no event. *)
LEMMA BeginInOrder ==
  ASSUME ScanInv, CountsInOrder, NEW text \in Texts, start(text)
  PROVE  CountsInOrder'
<1>1. AtRest /\ life = "up"
  BY DEF start, RejectEmptyPath, Begin, ScanInv, OneScanAtATime
<1>2. UNCHANGED <<workerPc, signals, life>>
  BY DEF start, RejectEmptyPath, Begin, workerVars
<1>3. requests' # <<>> => filesScanned' = 0 /\ bytesScanned' = 0
  BY <1>1 DEF start, RejectEmptyPath, Begin, AtRest, threadVars
<1> QED
  BY <1>1, <1>2, <1>3 DEF CountsInOrder, AtRest

(* A delivered event raises the screen to its counters. *)
LEMMA DeliverInOrder ==
  ASSUME ScanInv, CountsInOrder, DeliverSignal
  PROVE  CountsInOrder' /\ filesScanned' >= filesScanned /\ bytesScanned' >= bytesScanned
<1>1. /\ life = "up" /\ UNCHANGED <<workerPc, summary, requests>>
      /\ signals \in Seq(Event) /\ signals # <<>> /\ signals' = Tail(signals)
      /\ filesScanned \in Nat /\ bytesScanned \in Nat
  BY DEF DeliverSignal, onProgress, onFinished, onFailed, Take, ScanInv, TypeOK, WorkerTypeOK,
         threadVars
<1>2. /\ 1 \in DOMAIN signals /\ Head(signals) = signals[1]
      /\ \A i \in DOMAIN signals' :
           i \in Nat \ {0} /\ i + 1 \in DOMAIN signals /\ signals'[i] = signals[i + 1]
  BY <1>1, TailCases
<1>3. requests' = <<>>
  BY <1>1, Places
<1>4. CASE Carries(signals[1]) /\ filesScanned' = FilesIn(signals[1])
                               /\ bytesScanned' = BytesIn(signals[1])
  <2>1. filesScanned' >= filesScanned /\ bytesScanned' >= bytesScanned
    BY <1>1, <1>2, <1>4 DEF CountsInOrder
  <2>2. workerPc # "idle" => filesScanned' <= summary.fileCount /\ bytesScanned' <= summary.totalBytes
    BY <1>1, <1>2, <1>4 DEF CountsInOrder
  <2>3. ASSUME NEW i \in DOMAIN signals', Carries(signals'[i])
        PROVE  /\ filesScanned' <= FilesIn(signals'[i]) /\ bytesScanned' <= BytesIn(signals'[i])
               /\ workerPc # "idle" => /\ FilesIn(signals'[i]) <= summary.fileCount
                                       /\ BytesIn(signals'[i]) <= summary.totalBytes
               /\ \A j \in DOMAIN signals' : i < j /\ Carries(signals'[j]) =>
                    /\ FilesIn(signals'[i]) <= FilesIn(signals'[j])
                    /\ BytesIn(signals'[i]) <= BytesIn(signals'[j])
    <3>1. 1 < i + 1 /\ i + 1 \in DOMAIN signals /\ signals'[i] = signals[i + 1]
      BY <1>2
    <3>2. \A j \in DOMAIN signals' : i < j => i + 1 < j + 1
      BY <1>2
    <3> QED
      BY <1>1, <1>2, <1>4, <2>3, <3>1, <3>2 DEF CountsInOrder
  <2> QED
    BY <1>1, <1>3, <2>1, <2>2, <2>3 DEF CountsInOrder
<1>5. CASE onFailed
  <2>1. ~running' /\ UNCHANGED <<filesScanned, bytesScanned>> /\ AtRest'
    <3>1. OneScanAtATime'
      BY DeliverOneScan
    <3>2. life' = "up" /\ ~running'
      BY <1>1, <1>5 DEF onFailed, Take
    <3> QED
      BY <1>5, <3>1, <3>2 DEF onFailed, OneScanAtATime
  <2> QED
    BY <1>1, <1>3, <2>1 DEF CountsInOrder, AtRest
<1> QED
  BY <1>2, <1>4, <1>5 DEF DeliverSignal, onProgress, onFinished, Take, Carries, FilesIn, BytesIn

(* The only counters a worker's step adds to the queue are its own.        *)
LEMMA CountsAdded ==
  ASSUME ScanInv, RunWorker
  PROVE  /\ summary.fileCount \in Nat /\ summary.totalBytes \in Nat
         /\ workerPc' # "idle" => /\ summary.fileCount <= summary'.fileCount
                                 /\ summary.totalBytes <= summary'.totalBytes
         /\ \/ UNCHANGED signals
            \/ \E event \in Event :
                  /\ signals' = Append(signals, event)
                  /\ Carries(event)
                  /\ summary.fileCount <= FilesIn(event) /\ summary.totalBytes <= BytesIn(event)
                  /\ workerPc' # "idle" => /\ FilesIn(event) <= summary'.fileCount
                                          /\ BytesIn(event) <= summary'.totalBytes
<1>1. WorkerTypeOK /\ WorkerStep
  BY DEF RunWorker, ScanInv, TypeOK
<1>2. summary.fileCount \in Nat /\ summary.totalBytes \in Nat
  BY <1>1 DEF WorkerTypeOK
<1>3. \A e \in todo : VisitFile(e) =>
         /\ summary'.fileCount = summary.fileCount + 1
         /\ summary'.totalBytes = summary.totalBytes + Info[e].size
         /\ Info[e].size \in Nat
  BY <1>1, TreeAssumption DEF WorkerTypeOK, VisitFile
<1>4. workerPc' # "idle" => /\ summary.fileCount <= summary'.fileCount
                           /\ summary.totalBytes <= summary'.totalBytes
  <2>1. CASE Iterate
    <3>1. PICK e \in todo : \/ summary' = [summary EXCEPT !.canceled = TRUE]
                           \/ VisitFile(e)
                           \/ VisitDirectory(e)
      BY <2>1 DEF Iterate
    <3> QED
      BY <1>1, <1>2, <1>3, <3>1 DEF VisitDirectory, WorkerTypeOK
  <2>2. CASE EndOfTree \/ ReportTotals
    BY <1>2, <2>2 DEF EndOfTree, ReportTotals
  <2>3. CASE ReportFinished
    BY <2>3 DEF ReportFinished
  <2> QED
    BY <1>1, <2>1, <2>2, <2>3 DEF WorkerStep
<1>5. CASE UNCHANGED signals
  BY <1>2, <1>4, <1>5
<1>6. CASE \E e \in todo : /\ VisitFile(e) /\ Iterate
                          /\ ProgressOf(e) \in Event
                          /\ signals' = Append(signals, ProgressOf(e))
  <2>1. PICK e \in todo : /\ VisitFile(e)
                         /\ ProgressOf(e) \in Event
                         /\ signals' = Append(signals, ProgressOf(e))
    BY <1>6
  <2>2. PICK event \in Event : event = ProgressOf(e)
    BY <2>1
  <2>3. /\ Carries(event)
        /\ FilesIn(event) = summary'.fileCount /\ BytesIn(event) = summary'.totalBytes
    BY <2>2 DEF ProgressOf, Carries, FilesIn, BytesIn
  <2> QED
    BY <1>2, <1>3, <1>4, <2>1, <2>2, <2>3
<1>7. CASE ReportTotals /\ Totals \in Event /\ signals' = Append(signals, Totals)
  <2>1. PICK event \in Event : event = Totals
    BY <1>7
  <2>2. /\ Carries(event)
        /\ FilesIn(event) = summary.fileCount /\ BytesIn(event) = summary.totalBytes
    BY <2>1 DEF Totals, Carries, FilesIn, BytesIn
  <2>3. UNCHANGED summary
    BY <1>7 DEF ReportTotals
  <2> QED
    BY <1>2, <1>7, <2>1, <2>2, <2>3
<1>8. CASE ReportFinished /\ \E order \in SortedSeen :
              /\ [type |-> "finished", summary |-> SummaryWith(order)] \in Event
              /\ signals' = Append(signals, [type    |-> "finished",
                                            summary |-> SummaryWith(order)])
  <2>1. PICK order \in SortedSeen :
              /\ [type |-> "finished", summary |-> SummaryWith(order)] \in Event
              /\ signals' = Append(signals, [type    |-> "finished",
                                            summary |-> SummaryWith(order)])
    BY <1>8
  <2>2. PICK event \in Event : event = [type |-> "finished", summary |-> SummaryWith(order)]
    BY <2>1
  <2>3. /\ Carries(event)
        /\ FilesIn(event) = summary.fileCount /\ BytesIn(event) = summary.totalBytes
    BY <2>2 DEF SummaryWith, Carries, FilesIn, BytesIn
  <2>4. workerPc' = "idle"
    BY <1>8 DEF ReportFinished
  <2> QED
    BY <1>2, <2>1, <2>2, <2>3, <2>4
<1> QED
  BY <1>1, <1>5, <1>6, <1>7, <1>8, StepSignals

(* The worker appends events that carry the counters of its walk. *)
LEMMA WorkerInOrder ==
  ASSUME ScanInv, CountsInOrder, WorkerThread, life = "up"
  PROVE  CountsInOrder'
<1>1. /\ requests' = <<>> /\ life' = "up"
      /\ UNCHANGED <<filesScanned, bytesScanned>>
      /\ filesScanned \in Nat /\ bytesScanned \in Nat
      /\ signals \in Seq(Event)
  BY WorkerMoves DEF ScanInv, TypeOK, WorkerTypeOK
<1>2. CASE requests # <<>> /\ signals' = Append(<<>>, [type |-> "failed"])
           /\ workerPc = "idle" /\ UNCHANGED workerPc
  <2>1. \A i \in DOMAIN signals' : ~Carries(signals'[i])
    BY <1>2, AppendCases, EmptySeq, EventTypes DEF Carries
  <2> QED
    BY <1>1, <1>2, <2>1 DEF CountsInOrder
<1>3. CASE requests # <<>> /\ signals' = <<>>
           /\ summary'.fileCount = 0 /\ summary'.totalBytes = 0
  BY <1>1, <1>3 DEF CountsInOrder
<1>4. CASE RunWorker /\ requests = <<>> /\ workerPc # "idle"
  <2>1. filesScanned <= summary.fileCount /\ bytesScanned <= summary.totalBytes
    BY <1>4 DEF CountsInOrder
  <2>2. CASE UNCHANGED signals
    <3>1. \A i \in DOMAIN signals : Carries(signals[i]) =>
            FilesIn(signals[i]) \in Nat /\ BytesIn(signals[i]) \in Nat
      <4>1. \A i \in DOMAIN signals : signals[i] \in Event
        BY <1>1, LenProperties
      <4> QED
        BY <4>1 DEF Event, ProgressEvent, FinishedEvent, FailedEvent, ScanSummary, Carries,
                    FilesIn, BytesIn
    <3>2. /\ summary.fileCount \in Nat /\ summary.totalBytes \in Nat
          /\ workerPc' # "idle" =>
                /\ summary'.fileCount \in Nat /\ summary'.totalBytes \in Nat
                /\ summary.fileCount <= summary'.fileCount
                /\ summary.totalBytes <= summary'.totalBytes
      <4>1. TypeOK'
        BY <1>4, NextTypeOK DEF ScanInv, Next, WorkerThread
      <4> QED
        BY <1>4, <4>1, CountsAdded DEF TypeOK, WorkerTypeOK
    <3>3. workerPc' # "idle" => /\ filesScanned <= summary'.fileCount
                              /\ bytesScanned <= summary'.totalBytes
      BY <1>1, <2>1, <3>2
    <3>4. \A i \in DOMAIN signals : Carries(signals[i]) /\ workerPc' # "idle" =>
            /\ FilesIn(signals[i]) <= summary'.fileCount
            /\ BytesIn(signals[i]) <= summary'.totalBytes
      <4>1. \A i \in DOMAIN signals : Carries(signals[i]) =>
              /\ FilesIn(signals[i]) <= summary.fileCount
              /\ BytesIn(signals[i]) <= summary.totalBytes
        BY <1>4 DEF CountsInOrder
      <4> QED
        BY <3>1, <3>2, <4>1
    <3> QED
      BY <1>1, <2>2, <3>3, <3>4 DEF CountsInOrder
  <2>3. CASE ~UNCHANGED signals
    <3>1. PICK event \in Event :
                  /\ signals' = Append(signals, event)
                  /\ Carries(event)
                  /\ summary.fileCount <= FilesIn(event) /\ summary.totalBytes <= BytesIn(event)
                  /\ workerPc' # "idle" => /\ FilesIn(event) <= summary'.fileCount
                                          /\ BytesIn(event) <= summary'.totalBytes
      BY <1>4, <2>3, CountsAdded
    <3>2. \A i \in DOMAIN signals' :
            \/ i \in DOMAIN signals /\ i # Len(signals) + 1 /\ signals'[i] = signals[i]
            \/ i = Len(signals) + 1 /\ signals'[i] = event
      BY <1>1, <3>1, AppendCases
    <3>3. \A i \in DOMAIN signals : i \in 1 .. Len(signals) /\ signals[i] \in Event
      BY <1>1, LenProperties
    <3>4. Len(signals) \in Nat
      BY <1>1, LenProperties
    <3>5. \A ev \in Event : Carries(ev) => FilesIn(ev) \in Nat /\ BytesIn(ev) \in Nat
      BY DEF Event, ProgressEvent, FinishedEvent, FailedEvent, ScanSummary, Carries,
             FilesIn, BytesIn
    <3>6. /\ summary.fileCount \in Nat /\ summary.totalBytes \in Nat
          /\ workerPc' # "idle" =>
                /\ summary'.fileCount \in Nat /\ summary'.totalBytes \in Nat
                /\ summary.fileCount <= summary'.fileCount
                /\ summary.totalBytes <= summary'.totalBytes
      <4>1. TypeOK'
        BY <1>4, NextTypeOK DEF ScanInv, Next, WorkerThread
      <4> QED
        BY <1>4, <4>1, CountsAdded DEF TypeOK, WorkerTypeOK
    <3>7. \A i \in DOMAIN signals : Carries(signals[i]) =>
            /\ filesScanned <= FilesIn(signals[i]) /\ bytesScanned <= BytesIn(signals[i])
            /\ FilesIn(signals[i]) <= summary.fileCount /\ BytesIn(signals[i]) <= summary.totalBytes
            /\ \A j \in DOMAIN signals : i < j /\ Carries(signals[j]) =>
                 /\ FilesIn(signals[i]) <= FilesIn(signals[j])
                 /\ BytesIn(signals[i]) <= BytesIn(signals[j])
      BY <1>4 DEF CountsInOrder
    <3>8. ASSUME NEW i \in DOMAIN signals', Carries(signals'[i])
          PROVE  /\ filesScanned <= FilesIn(signals'[i]) /\ bytesScanned <= BytesIn(signals'[i])
                 /\ workerPc' # "idle" => /\ FilesIn(signals'[i]) <= summary'.fileCount
                                         /\ BytesIn(signals'[i]) <= summary'.totalBytes
                 /\ \A j \in DOMAIN signals' : i < j /\ Carries(signals'[j]) =>
                      /\ FilesIn(signals'[i]) <= FilesIn(signals'[j])
                      /\ BytesIn(signals'[i]) <= BytesIn(signals'[j])
      <4>1. CASE i \in DOMAIN signals /\ signals'[i] = signals[i]
        <5>1. /\ filesScanned <= FilesIn(signals[i]) /\ bytesScanned <= BytesIn(signals[i])
              /\ FilesIn(signals[i]) <= summary.fileCount
              /\ BytesIn(signals[i]) <= summary.totalBytes
              /\ FilesIn(signals[i]) \in Nat /\ BytesIn(signals[i]) \in Nat
          BY <3>3, <3>5, <3>7, <3>8, <4>1
        <5>2. FilesIn(event) \in Nat /\ BytesIn(event) \in Nat
          BY <3>1, <3>5
        <5>3. workerPc' # "idle" => /\ FilesIn(signals[i]) <= summary'.fileCount
                                   /\ BytesIn(signals[i]) <= summary'.totalBytes
          BY <3>6, <5>1
        <5>4. ASSUME NEW j \in DOMAIN signals', i < j, Carries(signals'[j])
              PROVE  /\ FilesIn(signals[i]) <= FilesIn(signals'[j])
                     /\ BytesIn(signals[i]) <= BytesIn(signals'[j])
          <6>1. CASE j \in DOMAIN signals /\ signals'[j] = signals[j]
            BY <3>7, <3>8, <4>1, <5>4, <6>1
          <6>2. CASE signals'[j] = event
            BY <3>1, <3>6, <5>1, <5>2, <6>2
          <6> QED
            BY <3>2, <6>1, <6>2
        <5> QED
          BY <4>1, <5>1, <5>3, <5>4
      <4>2. CASE i = Len(signals) + 1 /\ signals'[i] = event
        <5>1. FilesIn(event) \in Nat /\ BytesIn(event) \in Nat
          BY <3>1, <3>5
        <5>2. \A j \in DOMAIN signals' : ~(i < j)
          BY <3>2, <3>3, <3>4, <4>2
        <5> QED
          BY <1>1, <2>1, <3>1, <3>6, <4>2, <5>1, <5>2
      <4> QED
        BY <3>2, <4>1, <4>2
    <3> QED
      BY <1>1, <1>4, <2>1, <3>6, <3>8 DEF CountsInOrder
  <2> QED
    BY <2>2, <2>3
<1> QED
  BY <1>2, <1>3, <1>4, WorkerMoves

(* Every step keeps the order and, while a scan runs, the screen's         *)
(* counters.                                                               *)
LEMMA NextInOrder ==
  ASSUME ScanInv, CountsInOrder, [Next]_vars
  PROVE  CountsInOrder' /\ (running => /\ filesScanned' >= filesScanned
                                       /\ bytesScanned' >= bytesScanned)
<1>0. filesScanned \in Nat /\ bytesScanned \in Nat
  BY DEF ScanInv, TypeOK
<1>1. CASE \E text \in Texts : start(text)
  <2>1. ~running
    BY <1>1 DEF start, RejectEmptyPath, Begin
  <2> QED
    BY <1>1, <2>1, BeginInOrder
<1>2. CASE \E url \in Urls : startFromUrl(url)
  BY <1>1, <1>2, InputAssumption DEF startFromUrl
<1>3. CASE DeliverSignal
  BY <1>3, DeliverInOrder
<1>4. CASE WorkerThread /\ life = "up"
  BY <1>0, <1>4, WorkerMoves, WorkerInOrder
<1>5. CASE WorkerThread /\ life # "up"
  BY <1>0, <1>5 DEF WorkerThread, RunRequest, RunWorker, FinishThread, viewVars, CountsInOrder
<1>6. CASE AskWorkerToStop \/ Destructor
  BY <1>0, <1>6 DEF AskWorkerToStop, Destructor, QuitThread, WaitReturns, viewVars, CountsInOrder
<1>7. CASE cancel \/ UNCHANGED vars
  <2>1. UNCHANGED <<requests, filesScanned, bytesScanned, workerPc, summary, signals, life>>
    BY <1>7 DEF cancel, requestCancel, vars, workerVars, viewVars, threadVars
  <2> QED
    BY <1>0, <2>1 DEF CountsInOrder
<1> QED
  BY <1>1, <1>2, <1>3, <1>4, <1>5, <1>6, <1>7 DEF Next, UserCommand, Gone

(* During a scan the counters on screen never go back, however progress, a *)
(* cancel, the end of the walk and the delivery of its signals are         *)
(* interleaved (ScannerController.cpp:128-141, ScanWorker.cpp:64-90).      *)
THEOREM CountersGrow == Spec => CountersOnlyGrow
<1>1. Init => CountsInOrder
  <2>1. DOMAIN <<>> = {}
    OBVIOUS
  <2> QED
    BY <2>1 DEF Init, WorkerInit, CountsInOrder
<1>2. ScanInv /\ CountsInOrder /\ [Next]_vars => CountsInOrder'
  BY NextInOrder
<1>3. ScanInv /\ CountsInOrder /\ [Next]_vars
        => [running => filesScanned' >= filesScanned /\ bytesScanned' >= bytesScanned]_vars
  BY NextInOrder
<1> QED
  BY <1>1, <1>2, <1>3, ScanInvInductive, PTL DEF Spec, CountersOnlyGrow

-----------------------------------------------------------------------------
(* Why the view agrees with itself between scans: while one is under way   *)
(* the table is empty, failed() finds counters and path line as start()    *)
(* left them, and finished() brings a list that adds up to its totals.     *)
ViewAwaitsReport ==
  /\ life = "up" =>
       /\ running => rows = <<>>
       /\ requests # <<>> => currentPath = NoPath
       /\ \A i \in DOMAIN signals : signals[i].type = "failed" =>
            i = 1 /\ currentPath = NoPath /\ filesScanned = 0 /\ bytesScanned = 0
  /\ ListBytes(rows) = totalBytes

(* Both hold together: the second is what the first prepares. *)
ViewInv == ViewAwaitsReport /\ SettledViewAgrees

(* An empty table shows no files and no bytes. *)
LEMMA EmptyLists == ListFiles(<<>>) = 0 /\ ListBytes(<<>>) = 0
<1>1. DOMAIN <<>> = {}
  OBVIOUS
<1>2. \A f : DOMAIN f = {} => SumFunction(f) = 0
  BY SumEmpty DEF SumFunction
<1> QED
  BY <1>1, <1>2 DEF ListFiles, ListBytes

(* start() empties the table and sets path line and counters back. *)
LEMMA StartView ==
  ASSUME ScanInv, ViewInv, NEW text \in Texts, start(text)
  PROVE  ViewInv'
<1> USE DEF ViewInv, ViewAwaitsReport, SettledViewAgrees
<1>1. AtRest /\ life = "up" /\ ~running
  BY DEF start, RejectEmptyPath, Begin, ScanInv, OneScanAtATime
<1>2. UNCHANGED <<signals, life>> /\ DOMAIN signals = {}
  <2>1. DOMAIN <<>> = {}
    OBVIOUS
  <2>2. UNCHANGED <<signals, life>>
    BY DEF start, RejectEmptyPath, Begin, workerVars
  <2>3. signals = <<>>
    BY <1>1 DEF AtRest
  <2> QED
    BY <2>1, <2>2, <2>3
<1>3. CASE RejectEmptyPath(text)
  BY <1>1, <1>2, <1>3 DEF RejectEmptyPath, resultVars, threadVars, AtRest
<1>4. CASE Begin(text)
  <2>1. rows' = <<>> /\ totalBytes' = 0
    BY <1>1, <1>4, EmptyLists DEF Begin, clearStats, resultVars
  <2>2. running' /\ currentPath' = NoPath
    BY <1>4 DEF Begin
  <2> QED
    BY <1>2, <2>1, <2>2, EmptyLists
<1> QED
  BY <1>3, <1>4 DEF start

(* finished() fills table and counters from one summary, which adds up;    *)
(* failed() finds both empty.                                              *)
LEMMA DeliverView ==
  ASSUME ScanInv, ReportsHold, ViewInv, DeliverSignal
  PROVE  ViewInv'
<1> USE DEF ViewInv
<1>1. /\ life = "up" /\ life' = "up" /\ UNCHANGED requests
      /\ signals \in Seq(Event) /\ signals # <<>> /\ signals' = Tail(signals)
  BY DEF DeliverSignal, onProgress, onFinished, onFailed, Take, ScanInv, TypeOK, WorkerTypeOK,
         threadVars
<1>2. /\ 1 \in DOMAIN signals /\ Head(signals) = signals[1]
      /\ \A i \in DOMAIN signals' :
           i \in Nat \ {0} /\ i + 1 \in DOMAIN signals /\ signals'[i] = signals[i + 1]
  BY <1>1, TailCases
<1>3. requests' = <<>> /\ running /\ rows = <<>>
  BY <1>1, Places DEF ViewAwaitsReport
<1>4. \A i \in DOMAIN signals' : signals'[i].type # "failed"
  <2>1. ASSUME NEW i \in DOMAIN signals', signals'[i].type = "failed" PROVE FALSE
    <3>1. i + 1 \in DOMAIN signals /\ signals[i + 1].type = "failed" /\ i + 1 # 1
      BY <1>2, <2>1
    <3> QED
      BY <1>1, <3>1 DEF ViewAwaitsReport
  <2> QED
    BY <2>1
<1>5. CASE onProgress
  BY <1>3, <1>4, <1>5 DEF onProgress, resultVars, ViewAwaitsReport, SettledViewAgrees
<1>6. CASE onFinished
  <2>1. signals[1].type = "finished"
    BY <1>2, <1>6 DEF onFinished, Take
  <2>2. AddsUp(signals[1].summary)
    BY <1>2, <2>1 DEF ReportsHold, ListAddsUp, Finished
  <2>3. /\ rows' = signals[1].summary.extensions
        /\ totalBytes' = signals[1].summary.totalBytes
        /\ filesScanned' = signals[1].summary.fileCount
        /\ bytesScanned' = signals[1].summary.totalBytes
        /\ currentPath' = NoPath /\ ~running'
    BY <1>2, <1>6 DEF onFinished, setStats
  <2> QED
    BY <1>3, <1>4, <2>2, <2>3 DEF AddsUp, ViewAwaitsReport, SettledViewAgrees
<1>7. CASE onFailed
  <2>1. currentPath = NoPath /\ filesScanned = 0 /\ bytesScanned = 0
    BY <1>1, <1>2, <1>7 DEF onFailed, Take, ViewAwaitsReport
  <2>2. UNCHANGED <<rows, totalBytes, filesScanned, bytesScanned, currentPath>> /\ ~running'
    BY <1>7 DEF onFailed, resultVars
  <2> QED
    BY <1>3, <1>4, <2>1, <2>2, EmptyLists DEF ViewAwaitsReport, SettledViewAgrees
<1> QED
  BY <1>5, <1>6, <1>7 DEF DeliverSignal

(* The worker touches nothing on screen. *)
LEMMA WorkerView ==
  ASSUME ScanInv, CountsInOrder, ViewInv, WorkerThread, life = "up"
  PROVE  ViewInv'
<1> USE DEF ViewInv
<1>1. /\ running /\ requests' = <<>> /\ life' = "up"
      /\ UNCHANGED <<rows, totalBytes, running, filesScanned, bytesScanned, currentPath>>
      /\ signals \in Seq(Event)
  BY WorkerMoves DEF ScanInv, TypeOK, WorkerTypeOK
<1>2. SettledViewAgrees'
  BY <1>1 DEF SettledViewAgrees
<1>3. \A i \in DOMAIN signals' : signals'[i].type = "failed" =>
        i = 1 /\ currentPath = NoPath /\ filesScanned = 0 /\ bytesScanned = 0
  <2>1. CASE requests # <<>> /\ signals' = Append(<<>>, [type |-> "failed"])
    <3>1. \A i \in DOMAIN signals' : i = 1
      BY <2>1, AppendCases, EmptySeq, EventTypes
    <3>2. currentPath = NoPath /\ filesScanned = 0 /\ bytesScanned = 0
      BY <2>1 DEF ViewAwaitsReport, CountsInOrder
    <3> QED
      BY <3>1, <3>2
  <2>2. CASE signals' = <<>>
    BY <2>2
  <2>3. CASE RunWorker
    <3>1. CASE UNCHANGED signals
      BY <3>1 DEF ViewAwaitsReport
    <3>2. CASE \E event \in Event : signals' = Append(signals, event) /\ Carries(event)
      <4>1. \A i \in DOMAIN signals' : signals'[i].type = "failed" =>
               i \in DOMAIN signals /\ signals'[i] = signals[i]
        BY <1>1, <3>2, AppendCases DEF Carries
      <4> QED
        BY <4>1 DEF ViewAwaitsReport
    <3> QED
      BY <2>3, <3>1, <3>2, CountsAdded
  <2> QED
    BY <2>1, <2>2, <2>3, WorkerMoves
<1> QED
  BY <1>1, <1>2, <1>3 DEF ViewAwaitsReport

(* Every step keeps the view in agreement. *)
LEMMA NextView ==
  ASSUME ScanInv, ReportsHold, CountsInOrder, ViewInv, [Next]_vars
  PROVE  ViewInv'
<1>1. CASE \E text \in Texts : start(text)
  BY <1>1, StartView
<1>2. CASE \E url \in Urls : startFromUrl(url)
  BY <1>1, <1>2, InputAssumption DEF startFromUrl
<1>3. CASE DeliverSignal
  BY <1>3, DeliverView
<1>4. CASE WorkerThread /\ life = "up"
  BY <1>4, WorkerView
<1>5. CASE (WorkerThread /\ life # "up") \/ AskWorkerToStop \/ Destructor
  <2>1. /\ UNCHANGED <<rows, totalBytes, running, filesScanned, bytesScanned, currentPath>>
        /\ life' # "up"
    BY <1>5 DEF WorkerThread, RunRequest, RunWorker, FinishThread, AskWorkerToStop, Destructor,
                QuitThread, WaitReturns, viewVars, resultVars
  <2> QED
    BY <2>1 DEF ViewInv, ViewAwaitsReport, SettledViewAgrees
<1>6. CASE cancel \/ UNCHANGED vars
  <2>1. /\ UNCHANGED <<rows, totalBytes, running, filesScanned, bytesScanned, currentPath>>
        /\ UNCHANGED <<life, requests, signals>>
    BY <1>6 DEF cancel, requestCancel, vars, workerVars, viewVars, threadVars, resultVars
  <2> QED
    BY <2>1 DEF ViewInv, ViewAwaitsReport, SettledViewAgrees
<1> QED
  BY <1>1, <1>2, <1>3, <1>4, <1>5, <1>6 DEF Next, UserCommand, Gone

(* Everything that holds of the scanner at once. *)
ScannerInv ==
  /\ ScanInv
  /\ WalkIsExact /\ TalliesAddUp /\ ReportsHold
  /\ CountsInOrder
  /\ ViewInv

(* This is inductive. *)
LEMMA ScannerInvInductive == Spec => []ScannerInv
<1>1. Init => ScannerInv
  <2> SUFFICES ASSUME Init PROVE ScannerInv
    OBVIOUS
  <2>1. ScanInv
    BY InitTypeOK DEF ScanInv, Init, WorkerInit, OneScanAtATime, AtRest,
                      NothingOutlivesController
  <2>2. WalkIsExact /\ TalliesAddUp /\ ReportsHold
    BY WorkerInitInv DEF Init, WorkerInv
  <2>3. DOMAIN <<>> = {}
    OBVIOUS
  <2>4. CountsInOrder /\ ViewInv
    BY <2>3, EmptyLists DEF Init, WorkerInit, ResultInit, CountsInOrder, ViewInv,
                            ViewAwaitsReport, SettledViewAgrees
  <2> QED
    BY <2>1, <2>2, <2>4 DEF ScannerInv
<1>2. ScannerInv /\ [Next]_vars => ScannerInv'
  BY NextTypeOK, NextOneScan, NextOutlives, WorkerPartsHold, NextInOrder, NextView
  DEF ScannerInv, ScanInv
<1> QED
  BY <1>1, <1>2, PTL DEF Spec

(* Between scans table, counters and path line agree: the rows add up to   *)
(* the counters, and no path is left behind, after a scan that was         *)
(* complete, cancelled or refused by the worker                            *)
(* (ScannerController.cpp:136-161, ScanResultModel.cpp:55-73).             *)
THEOREM SettledView == Spec => []SettledViewAgrees
<1>1. ScannerInv => SettledViewAgrees
  BY DEF ScannerInv, ViewInv
<1> QED
  BY <1>1, ScannerInvInductive, PTL

(* A share rounded down is less than one percent short. *)
LEMMA WholePercents ==
  ASSUME NEW part \in Nat, NEW whole \in Nat, whole > 0
  PROVE  LET share == (100 * part) \div whole
         IN  share \in Nat /\ whole * share <= 100 * part /\ 100 * part < whole * (share + 1)
OBVIOUS

(* Without a total every share is zero, and so is their sum.               *)
LEMMA NoShares ==
  ASSUME TypeOK, totalBytes = 0
  PROVE  SumFunction([i \in DOMAIN rows |-> sharePercent(i)]) = 0
<1> DEFINE S == DOMAIN rows
           shares == [i \in S |-> sharePercent(i)]
<1>1. IsFiniteSet(S)
  <2>1. rows \in Seq(ExtensionStat)
    BY DEF TypeOK, ResultTypeOK
  <2>2. S = 1 .. Len(rows) /\ Len(rows) \in Nat
    BY <2>1, LenProperties
  <2> QED
    BY <2>2, FirstNumbers
<1>2. \A i \in S : shares[i] = 0
  BY DEF sharePercent
<1> HIDE DEF shares, S
<1>3. Natural(shares, S) /\ {} \in SUBSET S
  BY <1>2 DEF Natural
<1>4. SumFunctionOnSet(shares, S) = SumFunctionOnSet(shares, {})
  BY <1>1, <1>2, <1>3, SumZeros
<1>5. SumFunctionOnSet(shares, S) = 0
  BY <1>4, SumEmpty
<1> QED
  BY <1>5 DEF shares, S, SumFunction

(* Shares of a table whose rows add up to its total add up to a hundred,   *)
(* but for less than one percent a row.                                    *)
LEMMA SharesFollow ==
  ASSUME TypeOK, ListBytes(rows) = totalBytes
  PROVE  SharesAddUp
<1> DEFINE S == DOMAIN rows
           shares == [i \in S |-> sharePercent(i)]
           bytes == [i \in S |-> rows[i].totalBytes]
<1>0. CASE totalBytes = 0
  BY <1>0, NoShares DEF SharesAddUp
<1>a. totalBytes \in Nat
  BY DEF TypeOK, ResultTypeOK
<1> SUFFICES ASSUME totalBytes > 0
             PROVE  /\ SumFunctionOnSet(shares, S) <= 100
                    /\ SumFunctionOnSet(shares, S) + Len(rows) > 100
  BY <1>0, <1>a DEF SharesAddUp, SumFunction
<1>1. /\ rows \in Seq(ExtensionStat) /\ totalBytes \in Nat
      /\ S = 1 .. Len(rows) /\ Len(rows) \in Nat
  BY LenProperties DEF TypeOK, ResultTypeOK
<1>2. IsFiniteSet(S) /\ Cardinality(S) = Len(rows)
  <2> DEFINE n == Len(rows)
  <2>1. n \in Nat /\ S = 1 .. n
    BY <1>1
  <2> HIDE DEF S, n
  <2>2. IsFiniteSet(1 .. n) /\ Cardinality(1 .. n) = n
    <3>1. 1 \in Int /\ n \in Int
      BY <2>1
    <3> QED
      BY <2>1, <3>1, FS_Interval
  <2>3. IsFiniteSet(S) /\ Cardinality(S) = n
    BY <2>1, <2>2
  <2> QED
    BY <2>3 DEF n
<1>3. \A i \in S : rows[i].totalBytes \in Nat
  <2>1. \A i \in S : rows[i] \in ExtensionStat
    BY <1>1
  <2> QED
    BY <2>1 DEF ExtensionStat
<1>4. \A i \in S : /\ shares[i] \in Nat
                   /\ totalBytes * shares[i] <= 100 * bytes[i]
                   /\ 100 * bytes[i] < totalBytes * (shares[i] + 1)
  <2> SUFFICES ASSUME NEW i \in S
               PROVE  /\ shares[i] \in Nat
                      /\ totalBytes * shares[i] <= 100 * bytes[i]
                      /\ 100 * bytes[i] < totalBytes * (shares[i] + 1)
    OBVIOUS
  <2>1. bytes[i] \in Nat /\ totalBytes \in Nat /\ totalBytes > 0
    BY <1>1, <1>3
  <2>2. shares[i] = (100 * bytes[i]) \div totalBytes
    BY <1>1 DEF sharePercent
  <2> HIDE DEF shares, bytes, S
  <2> QED
    BY <2>1, <2>2, WholePercents
<1>5. Natural(shares, S) /\ Natural(bytes, S)
  BY <1>3, <1>4 DEF Natural
<1>6. SumFunctionOnSet(bytes, S) = totalBytes
  BY DEF ListBytes, SumFunction
<1>7. S # {}
  BY <1>6, SumEmpty
<1> DEFINE sum == SumFunctionOnSet(shares, S)
<1> HIDE DEF S, shares, bytes
<1>8. sum \in Nat
  BY <1>2, <1>5, SumNatural
<1>9. totalBytes * sum <= 100 * totalBytes /\ 100 * totalBytes < totalBytes * (sum + Len(rows))
  <2>1. 100 \in Nat /\ totalBytes \in Nat
    BY <1>1
  <2>2. /\ totalBytes * SumFunctionOnSet(shares, S) <= 100 * SumFunctionOnSet(bytes, S)
        /\ S # {} => 100 * SumFunctionOnSet(bytes, S)
                       < totalBytes * (SumFunctionOnSet(shares, S) + Cardinality(S))
    BY <2>1, <1>2, <1>4, <1>5, SumBounded
  <2> QED
    BY <2>2, <1>2, <1>6, <1>7
<1> HIDE DEF sum
<1>10. sum <= 100 /\ sum + Len(rows) > 100
  BY <1>1, <1>8, <1>9
<1> QED
  BY <1>10 DEF sum

(* Whenever there are bytes to share, the share column adds up to a        *)
(* hundred percent, less what rounding takes, which is below one percent   *)
(* per row, and otherwise to no more than that                             *)
(* (ScanResultModel.cpp:37-38): the total it divides by is always the one  *)
(* of its own rows, and it divides by none that is zero.                   *)
THEOREM SharesMakeAHundred == Spec => []SharesAddUp
<1>1. ScannerInv => SharesAddUp
  BY SharesFollow DEF ScannerInv, ScanInv, ViewInv, ViewAwaitsReport
<1> QED
  BY <1>1, ScannerInvInductive, PTL

-----------------------------------------------------------------------------
(* Why the scanner implements ScanService: what is requested, walked or    *)
(* reported is the directory on screen, no event tells of more than there  *)
(* is below it, and the status line tells whether a cancel is pending.     *)
OfTarget(event, d) ==
  IF event.type = "failed" THEN d \notin Directories
  ELSE /\ d \in Directories
       /\ FilesIn(event) <= Cardinality(FilesBelow(d))
       /\ BytesIn(event) <= BytesOf(FilesBelow(d))
       /\ event.type = "finished" /\ ~event.summary.canceled => MatchesTree(event.summary, d)

(* In words: request, walk and events all belong to the directory on       *)
(* screen.                                                                 *)
ScanIsOfTarget ==
  life = "up" =>
    /\ IF running THEN statusText \in {"Scanning", "Cancelling"} ELSE statusText # "Cancelling"
    /\ requests # <<>> => requests[1] = rootPath
    /\ workerPc # "idle" => rootPath \in Directories /\ WalkOf(rootPath)
    /\ \A i \in DOMAIN signals : OfTarget(signals[i], rootPath)

(* start() shows the directory that it requests. *)
LEMMA StartTarget ==
  ASSUME ScanInv, ScanIsOfTarget, NEW text \in Texts, start(text)
  PROVE  ScanIsOfTarget'
<1>1. AtRest /\ life = "up" /\ ~running
  BY DEF start, RejectEmptyPath, Begin, ScanInv, OneScanAtATime
<1>2. UNCHANGED <<workerPc, signals, life>> /\ DOMAIN signals = {}
  <2>1. DOMAIN <<>> = {}
    OBVIOUS
  <2>2. UNCHANGED <<workerPc, signals, life>>
    BY DEF start, RejectEmptyPath, Begin, workerVars
  <2> QED
    BY <1>1, <2>1, <2>2 DEF AtRest
<1>3. IF running' THEN statusText' = "Scanning" ELSE statusText' = "Choose a folder first"
  <2>1. CASE RejectEmptyPath(text)
    BY <1>1, <2>1 DEF RejectEmptyPath
  <2>2. CASE Begin(text)
    BY <2>2 DEF Begin
  <2> QED
    BY <2>1, <2>2 DEF start
<1>4. requests' # <<>> => requests'[1] = rootPath'
  <2>1. CASE RejectEmptyPath(text)
    BY <1>1, <2>1 DEF RejectEmptyPath, threadVars, AtRest
  <2>2. CASE Begin(text)
    <3>1. Append(<<>>, Clean[text])[1] = Clean[text]
      OBVIOUS
    <3>2. requests' = Append(<<>>, Clean[text]) /\ rootPath' = Clean[text]
      BY <1>1, <2>2 DEF Begin, AtRest
    <3> QED
      BY <3>1, <3>2
  <2> QED
    BY <2>1, <2>2 DEF start
<1> QED
  BY <1>1, <1>2, <1>3, <1>4 DEF ScanIsOfTarget, AtRest

(* No slot changes the directory, and the last event ends the scan. *)
LEMMA DeliverTarget ==
  ASSUME ScanInv, ScanIsOfTarget, DeliverSignal
  PROVE  ScanIsOfTarget'
<1>1. /\ life = "up" /\ life' = "up"
      /\ UNCHANGED <<workerPc, todo, summary, byExtension, requests, rootPath>>
      /\ signals \in Seq(Event) /\ signals # <<>> /\ signals' = Tail(signals)
  BY DEF DeliverSignal, onProgress, onFinished, onFailed, Take, ScanInv, TypeOK, WorkerTypeOK,
         threadVars
<1>2. PICK d : d = rootPath
  OBVIOUS
<1>3. \A i \in DOMAIN signals' : OfTarget(signals'[i], d)
  <2>1. \A i \in DOMAIN signals : OfTarget(signals[i], d)
    BY <1>1, <1>2 DEF ScanIsOfTarget
  <2> QED
    BY <1>1, <2>1, TailCases
<1>4. workerPc' # "idle" => d \in Directories /\ WalkOf(d)'
  BY <1>1, <1>2 DEF ScanIsOfTarget, WalkOf, CountsOf
<1>5. requests' = <<>> /\ running
  BY <1>1, Places
<1>6. IF running' THEN statusText' \in {"Scanning", "Cancelling"} ELSE statusText' # "Cancelling"
  BY <1>1, <1>5 DEF ScanIsOfTarget, DeliverSignal, onProgress, onFinished, onFailed
<1>7. rootPath' = d
  BY <1>1, <1>2
<1> QED
  BY <1>1, <1>3, <1>4, <1>5, <1>6, <1>7 DEF ScanIsOfTarget

(* The worker walks what was requested and reports what it walked. *)
LEMMA WorkerTarget ==
  ASSUME ScanInv, ScanIsOfTarget, WorkerThread, life = "up"
  PROVE  ScanIsOfTarget'
<1>1. /\ running /\ requests' = <<>> /\ life' = "up"
      /\ UNCHANGED <<running, rootPath, statusText>>
      /\ WorkerTypeOK /\ signals \in Seq(Event)
  BY WorkerMoves DEF ScanInv, TypeOK, WorkerTypeOK
<1>2. PICK d : d = rootPath /\ d = rootPath'
  BY <1>1
<1>3. /\ requests # <<>> => requests[1] = d
      /\ workerPc # "idle" => d \in Directories /\ WalkOf(d)
      /\ \A i \in DOMAIN signals : OfTarget(signals[i], d)
      /\ statusText' \in {"Scanning", "Cancelling"}
  BY <1>1, <1>2 DEF ScanIsOfTarget
<1> SUFFICES /\ workerPc' # "idle" => d \in Directories /\ WalkOf(d)'
             /\ \A i \in DOMAIN signals' : OfTarget(signals'[i], d)
  BY <1>1, <1>2, <1>3 DEF ScanIsOfTarget
<1>4. CASE /\ requests # <<>> /\ requests[1] \in Paths \ Directories
           /\ signals = <<>> /\ signals' = Append(<<>>, [type |-> "failed"])
           /\ workerPc = "idle" /\ UNCHANGED workerPc
  <2>1. \A i \in DOMAIN signals' : signals'[i] = [type |-> "failed"]
    BY <1>1, <1>4, AppendCases, EventTypes, LenProperties
  <2> QED
    BY <1>3, <1>4, <2>1 DEF OfTarget
<1>5. CASE /\ requests # <<>> /\ requests[1] \in Directories /\ scan(requests[1])
           /\ signals' = <<>>
  BY <1>1, <1>3, <1>5, ScanWalk
<1>6. CASE RunWorker /\ workerPc # "idle"
  <2>1. WorkerStep /\ d \in Directories /\ WalkOf(d)
    BY <1>3, <1>6 DEF RunWorker
  <2>3. workerPc' # "idle" => WalkOf(d)'
    BY <1>1, <2>1, StepWalk DEF ReportFinished
  <2>4. /\ summary.fileCount <= Cardinality(FilesBelow(d))
        /\ summary.totalBytes <= BytesOf(FilesBelow(d))
    BY <2>1, CountsBounded
  <2>5. CASE UNCHANGED signals
    BY <1>3, <2>1, <2>3, <2>5
  <2>6. ASSUME NEW event \in Event, signals' = Append(signals, event), OfTarget(event, d)
        PROVE  \A i \in DOMAIN signals' : OfTarget(signals'[i], d)
    BY <1>1, <1>3, <2>6, AppendCases
  <2>7. CASE \E e \in todo : /\ VisitFile(e) /\ Iterate
                            /\ ProgressOf(e) \in Event
                            /\ signals' = Append(signals, ProgressOf(e))
    <3>1. PICK e \in todo : /\ ProgressOf(e) \in Event
                           /\ signals' = Append(signals, ProgressOf(e))
      BY <2>7
    <3>2. workerPc' # "idle"
      BY <2>7 DEF Iterate
    <3>3. /\ summary'.fileCount <= Cardinality(FilesBelow(d))
          /\ summary'.totalBytes <= BytesOf(FilesBelow(d))
      BY <2>1, <2>3, <3>2, CountsBounded
    <3>4. PICK event \in Event : event = ProgressOf(e)
      BY <3>1
    <3>5. OfTarget(event, d)
      BY <2>1, <3>3, <3>4 DEF OfTarget, ProgressOf, FilesIn, BytesIn
    <3> QED
      BY <2>1, <2>3, <2>6, <3>1, <3>4, <3>5
  <2>8. CASE ReportTotals /\ Totals \in Event /\ signals' = Append(signals, Totals)
    <3>1. PICK event \in Event : event = Totals
      BY <2>8
    <3>2. OfTarget(event, d)
      BY <2>1, <2>4, <3>1 DEF OfTarget, Totals, FilesIn, BytesIn
    <3> QED
      BY <2>1, <2>3, <2>6, <2>8, <3>1, <3>2
  <2>9. CASE ReportFinished
    <3>1. PICK order \in SortedSeen :
              /\ [type |-> "finished", summary |-> SummaryWith(order)] \in Event
              /\ signals' = Append(signals, [type    |-> "finished",
                                            summary |-> SummaryWith(order)])
      BY <1>1, <2>1, <2>9, StepSignals DEF ReportFinished, ReportTotals, Iterate, EndOfTree
    <3>2. PICK event \in Event : event = [type |-> "finished", summary |-> SummaryWith(order)]
      BY <3>1
    <3>3. workerPc = "finishing" /\ workerPc' = "idle"
      BY <2>9 DEF ReportFinished
    <3>4. /\ SummaryWith(order).fileCount = summary.fileCount
          /\ SummaryWith(order).totalBytes = summary.totalBytes
          /\ SummaryWith(order).canceled = summary.canceled
      BY DEF SummaryWith
    <3>5. ~summary.canceled => MatchesTree(SummaryWith(order), d)
      BY <1>1, <2>1, <3>3, ReportMatches
    <3>6. OfTarget(event, d)
      BY <2>1, <2>4, <3>2, <3>4, <3>5 DEF OfTarget, FilesIn, BytesIn
    <3> QED
      BY <2>6, <3>1, <3>2, <3>3, <3>6
  <2> QED
    BY <1>1, <2>1, <2>5, <2>7, <2>8, <2>9, StepSignals
<1> QED
  BY <1>4, <1>5, <1>6, WorkerMoves

(* Every step keeps to the directory. *)
LEMMA NextTarget ==
  ASSUME ScanInv, ScanIsOfTarget, [Next]_vars
  PROVE  ScanIsOfTarget'
<1>1. CASE \E text \in Texts : start(text)
  BY <1>1, StartTarget
<1>2. CASE \E url \in Urls : startFromUrl(url)
  BY <1>1, <1>2, InputAssumption DEF startFromUrl
<1>3. CASE DeliverSignal
  BY <1>3, DeliverTarget
<1>4. CASE WorkerThread /\ life = "up"
  BY <1>4, WorkerTarget
<1>5. CASE (WorkerThread /\ life # "up") \/ AskWorkerToStop \/ Destructor
  BY <1>5 DEF WorkerThread, RunRequest, RunWorker, FinishThread, AskWorkerToStop, Destructor,
              QuitThread, WaitReturns, ScanIsOfTarget
<1>6. CASE cancel \/ UNCHANGED vars
  <2>1. /\ UNCHANGED <<life, running, rootPath, requests, workerPc, todo, summary, byExtension>>
        /\ UNCHANGED signals
        /\ \/ statusText' = "Cancelling" /\ running
           \/ UNCHANGED statusText
    BY <1>6 DEF cancel, requestCancel, vars, workerVars, viewVars, threadVars
  <2> QED
    BY <2>1 DEF ScanIsOfTarget, WalkOf, CountsOf
<1> QED
  BY <1>1, <1>2, <1>3, <1>4, <1>5, <1>6 DEF Next, UserCommand, Gone

(* The totals of the service are those of the tree. *)
LEMMA ServiceTotals ==
  ASSUME NEW d
  PROVE  /\ Service!TotalFiles(d) = Cardinality(FilesBelow(d))
         /\ Service!TotalBytes(d) = BytesOf(FilesBelow(d))
<1>1. Service!FilesBelow(d) = FilesBelow(d)
  BY DEF Service!FilesBelow, FilesBelow
<1>2. \A S : Service!Cardinality(S) = Cardinality(S)
  BY DEF Service!Cardinality, Cardinality
<1>3. \A S : Service!BytesOf(S) = BytesOf(S)
  BY DEF Service!BytesOf, BytesOf, Service!MapThenSumSet, MapThenSumSet, Service!MapThenFoldSet,
         MapThenFoldSet
<1> QED
  BY <1>1, <1>2, <1>3 DEF Service!TotalFiles, Service!TotalBytes

(* The true totals are numbers. *)
LEMMA TotalsAreNat ==
  ASSUME NEW d \in Directories
  PROVE  Cardinality(FilesBelow(d)) \in Nat /\ BytesOf(FilesBelow(d)) \in Nat
<1>1. FilesBelow(d) \in SUBSET Entries
  BY TreeAssumption DEF FilesBelow
<1> QED
  BY <1>1, TreeAssumption, FS_Subset, FS_CardinalityType, BytesInsert

(* A command of the user is a step of the service. *)
LEMMA CommandServes ==
  ASSUME ScanInv, ScanIsOfTarget, UserCommand
  PROVE  Service!Refuse \/ Service!StartScan \/ Service!AskToCancel \/ Service!Close
<1>1. ASSUME NEW text \in Texts, start(text)
      PROVE  Service!Refuse \/ Service!StartScan
  <2>1. /\ life = "up" /\ life' = "up" /\ ~running
        /\ statusText \in StatusTexts /\ statusText # "Cancelling"
    BY <1>1 DEF start, RejectEmptyPath, Begin, ScanInv, TypeOK, ScanIsOfTarget
  <2>2. CASE RejectEmptyPath(text)
    <3>1. /\ statusText' = "Choose a folder first" /\ ~running'
          /\ UNCHANGED <<rootPath, filesScanned, bytesScanned>>
      BY <2>1, <2>2 DEF RejectEmptyPath
    <3> QED
      BY <2>1, <3>1 DEF Service!Refuse
  <2>3. CASE Begin(text)
    <3>1. Clean[text] \in Paths
      BY <2>3, InputAssumption DEF Begin
    <3>2. /\ statusText' = "Scanning" /\ running' /\ rootPath' \in Paths
          /\ filesScanned' = 0 /\ bytesScanned' = 0
      BY <2>3, <3>1 DEF Begin
    <3> QED
      BY <2>1, <3>2 DEF Service!StartScan
  <2> QED
    BY <1>1, <2>2, <2>3 DEF start
<1>2. ASSUME NEW url \in Urls, startFromUrl(url)
      PROVE  Service!Refuse \/ Service!StartScan
  BY <1>1, <1>2, InputAssumption DEF startFromUrl
<1>3. CASE cancel
  <2>1. /\ life = "up" /\ life' = "up" /\ running /\ running'
        /\ statusText \in {"Scanning", "Cancelling"} /\ statusText' = "Cancelling"
        /\ UNCHANGED <<rootPath, filesScanned, bytesScanned>>
    BY <1>3 DEF cancel, ScanIsOfTarget
  <2> QED
    BY <2>1 DEF Service!AskToCancel
<1>4. CASE AskWorkerToStop
  BY <1>4 DEF AskWorkerToStop, Service!Close, viewVars
<1> QED
  BY <1>1, <1>2, <1>3, <1>4 DEF UserCommand

(* So is the delivery of a signal. *)
LEMMA DeliveryServes ==
  ASSUME ScanInv, CountsInOrder, CanceledWasAsked, ScanIsOfTarget, DeliverSignal
  PROVE  Service!ShowProgress \/ Service!EndScan
<1>1. /\ life = "up" /\ life' = "up" /\ running
      /\ rootPath' = rootPath
      /\ signals \in Seq(Event) /\ signals # <<>>
      /\ filesScanned \in Nat /\ bytesScanned \in Nat
      /\ statusText \in {"Scanning", "Cancelling"}
  <2>1. /\ life = "up" /\ life' = "up" /\ rootPath' = rootPath
        /\ signals \in Seq(Event) /\ signals # <<>>
    BY DEF DeliverSignal, onProgress, onFinished, onFailed, Take, ScanInv, TypeOK, WorkerTypeOK
  <2> QED
    BY <2>1, Places DEF ScanInv, TypeOK, ScanIsOfTarget
<1>2. 1 \in DOMAIN signals /\ Head(signals) = signals[1] /\ signals[1] \in Event
  BY <1>1, TailCases
<1>3. PICK d : d = rootPath
  OBVIOUS
<1>4. OfTarget(signals[1], d)
  BY <1>1, <1>2, <1>3 DEF ScanIsOfTarget
<1>5. CASE onProgress
  <2>1. signals[1].type = "progress" /\ running' /\ statusText' = statusText
        /\ filesScanned' = FilesIn(signals[1]) /\ bytesScanned' = BytesIn(signals[1])
    BY <1>1, <1>2, <1>5 DEF onProgress, Take, FilesIn, BytesIn
  <2>2. /\ filesScanned' \in Nat /\ filesScanned <= filesScanned'
        /\ bytesScanned' \in Nat /\ bytesScanned <= bytesScanned'
    BY <1>1, <1>2, <2>1 DEF CountsInOrder, Carries, FilesIn, BytesIn, Event, ProgressEvent,
                            FinishedEvent, FailedEvent
  <2>3. /\ d \in Directories
        /\ filesScanned' <= Cardinality(FilesBelow(d)) /\ bytesScanned' <= BytesOf(FilesBelow(d))
    BY <1>4, <2>1 DEF OfTarget
  <2>4. Cardinality(FilesBelow(d)) \in Nat /\ BytesOf(FilesBelow(d)) \in Nat
    BY <2>3, TotalsAreNat
  <2>5. /\ filesScanned' \in filesScanned .. Service!TotalFiles(d)
        /\ bytesScanned' \in bytesScanned .. Service!TotalBytes(d)
    BY <1>1, <2>2, <2>3, <2>4, ServiceTotals
  <2> QED
    BY <1>1, <1>3, <2>1, <2>3, <2>5 DEF Service!ShowProgress
<1>6. CASE onFinished
  <2> DEFINE report == signals[1].summary
  <2>1. /\ signals[1].type = "finished" /\ ~running'
        /\ statusText' = IF report.canceled THEN "Cancelled" ELSE "Complete"
        /\ filesScanned' = report.fileCount /\ bytesScanned' = report.totalBytes
    BY <1>1, <1>2, <1>6 DEF onFinished, Take
  <2>2. /\ FilesIn(signals[1]) = report.fileCount /\ BytesIn(signals[1]) = report.totalBytes
        /\ Carries(signals[1])
    BY <2>1 DEF FilesIn, BytesIn, Carries
  <2>3. report \in ScanSummary
    BY <1>2, <2>1 DEF Event, ProgressEvent, FinishedEvent, FailedEvent
  <2>4. /\ d \in Directories
        /\ report.fileCount <= Cardinality(FilesBelow(d))
        /\ report.totalBytes <= BytesOf(FilesBelow(d))
        /\ ~report.canceled => MatchesTree(report, d)
    BY <1>4, <2>1, <2>2 DEF OfTarget
  <2>5. filesScanned <= report.fileCount /\ bytesScanned <= report.totalBytes
    BY <1>1, <1>2, <2>2 DEF CountsInOrder
  <2>6. Cardinality(FilesBelow(d)) \in Nat /\ BytesOf(FilesBelow(d)) \in Nat
    BY <2>4, TotalsAreNat
  <2>7. CASE report.canceled
    <3>1. statusText = "Cancelling"
      BY <1>1, <1>2, <2>1, <2>7 DEF CanceledWasAsked
    <3>2. /\ filesScanned' \in filesScanned .. Service!TotalFiles(d)
          /\ bytesScanned' \in bytesScanned .. Service!TotalBytes(d)
      BY <1>1, <2>1, <2>3, <2>4, <2>5, <2>6, ServiceTotals DEF ScanSummary
    <3>3. statusText' = "Cancelled"
      BY <2>1, <2>7
    <3> QED
      BY <1>1, <1>3, <2>1, <2>4, <3>1, <3>2, <3>3 DEF Service!EndScan
  <2>8. CASE ~report.canceled
    <3>1. /\ filesScanned' = Service!TotalFiles(d)
          /\ bytesScanned' = Service!TotalBytes(d)
      BY <2>1, <2>4, <2>8, ServiceTotals DEF MatchesTree
    <3>2. statusText' = "Complete"
      BY <2>1, <2>8
    <3> QED
      BY <1>1, <1>3, <2>1, <2>4, <3>1, <3>2 DEF Service!EndScan
  <2> QED
    BY <2>7, <2>8
<1>7. CASE onFailed
  <2>1. /\ signals[1].type = "failed" /\ ~running' /\ statusText' = "Not a directory"
        /\ UNCHANGED <<filesScanned, bytesScanned>>
    BY <1>1, <1>2, <1>7 DEF onFailed, Take
  <2>2. d \notin Directories
    BY <1>4, <2>1 DEF OfTarget
  <2> QED
    BY <1>1, <1>3, <2>1, <2>2 DEF Service!EndScan
<1> QED
  BY <1>5, <1>6, <1>7 DEF DeliverSignal

(* Threads, queue and flag are hidden: their steps are stutters. *)
LEMMA OthersStutter ==
  ASSUME WorkerThread \/ Destructor \/ UNCHANGED vars
  PROVE  UNCHANGED Service!serviceVars
<1>1. UNCHANGED <<running, rootPath, filesScanned, bytesScanned, statusText>>
      /\ (life' = "up" <=> life = "up")
  BY DEF WorkerThread, RunRequest, RunWorker, FinishThread, Destructor, QuitThread, WaitReturns,
         viewVars, vars
<1> QED
  BY <1>1 DEF Service!serviceVars

(* Every step is one of the service or hidden from it. *)
LEMMA NextServes ==
  ASSUME ScanInv, CountsInOrder, CanceledWasAsked, ScanIsOfTarget, [Next]_vars
  PROVE  [Service!ServiceNext]_Service!serviceVars
BY CommandServes, DeliveryServes, OthersStutter DEF Next, Gone, Service!ServiceNext

(* The scanner starts as the service does. *)
LEMMA InitServes ==
  ASSUME Init
  PROVE  Service!ServiceInit
BY InputAssumption DEF Init, Service!ServiceInit

(* The scanner never does what the service does not allow: one scan at a   *)
(* time, counters that only grow, and an outcome that is true of the tree  *)
(* and of what the user asked for (ScannerController.cpp:48-161). This is  *)
(* the safety part of ImplementsService, all of it but its fairness.       *)
THEOREM ScannerServes ==
  Spec => Service!ServiceInit /\ [][Service!ServiceNext]_Service!serviceVars
<1>1. Init => CanceledWasAsked /\ ScanIsOfTarget
  <2>1. DOMAIN <<>> = {} /\ NoSummary.canceled = FALSE
    BY DEF NoSummary
  <2> QED
    BY <2>1 DEF Init, WorkerInit, CanceledWasAsked, ScanIsOfTarget
<1>2. ScanInv /\ ScanInv' /\ CanceledWasAsked /\ [Next]_vars => CanceledWasAsked'
  BY NextAsked
<1>3. ScanInv /\ ScanIsOfTarget /\ [Next]_vars => ScanIsOfTarget'
  BY NextTarget
<1>4. ScannerInv => ScanInv /\ CountsInOrder
  BY DEF ScannerInv
<1>5. ScanInv /\ CountsInOrder /\ CanceledWasAsked /\ ScanIsOfTarget /\ [Next]_vars
        => [Service!ServiceNext]_Service!serviceVars
  BY NextServes
<1>6. Init => Service!ServiceInit
  BY InitServes
<1> QED
  BY <1>1, <1>2, <1>3, <1>4, <1>5, <1>6, ScannerInvInductive, PTL DEF Spec
=============================================================================
