------------------------- MODULE ScannerController -------------------------
(***************************************************************************)
(* src/app/ScannerController.cpp composed with the worker it moves to      *)
(* another thread and the result table it owns.                            *)
(*                                                                         *)
(* Three activities interleave. The GUI thread runs the user's commands,   *)
(* the queued signals of the worker and, in the end, the destructor; the   *)
(* worker thread takes one queued scanRequested at a time and runs scan(); *)
(* the two event queues between them deliver in order. The destructor runs *)
(* on the GUI thread, so while it blocks no queued signal is delivered.    *)
(***************************************************************************)
EXTENDS ScanWorker, ScanResultModel

CONSTANTS
  Texts,       \* what the path field can hold, and what a URL turns into
  Clean,       \* Clean[t]: a file: URL made local, trimmed, QDir::cleanPath
  Urls,        \* what the folder dialog can return
  UrlText,     \* UrlText[u]: the local file of u, or u as text
  DefaultPath  \* the home directory, or the current one

ASSUME InputAssumption ==
  /\ Clean \in [Texts -> Paths \union {NoPath}]
  /\ UrlText \in [Urls -> Texts]
  /\ DefaultPath \in Paths

VARIABLES
  running, rootPath, filesScanned, bytesScanned, currentPath,  \* the Q_PROPERTYs
  statusText,  \* statusText, by the message it holds
  requests,    \* scanRequested events posted to the worker's queue
  thread,      \* m_thread: "running", "quitting" after quit(), "finished"
  workerAlive, \* deleteLater() has not run yet
  life         \* the controller: "up", then the steps of its destructor

viewVars == <<running, rootPath, filesScanned, bytesScanned, currentPath, statusText>>
threadVars == <<requests, thread, workerAlive>>
vars == <<workerVars, resultVars, viewVars, threadVars, life>>

StatusTexts == {"Pick a folder", "Choose a folder first", "Scanning", "Cancelling",
                "Cancelled", "Complete", "Not a directory"}

(* The constructor: the thread is started, no scan was asked for. *)
Init ==
  /\ WorkerInit
  /\ ResultInit
  /\ running = FALSE
  /\ rootPath = DefaultPath
  /\ filesScanned = 0 /\ bytesScanned = 0
  /\ currentPath = NoPath
  /\ statusText = "Pick a folder"
  /\ requests = <<>>
  /\ thread = "running"
  /\ workerAlive = TRUE
  /\ life = "up"

TypeOK ==
  /\ WorkerTypeOK
  /\ ResultTypeOK
  /\ running \in BOOLEAN
  /\ rootPath \in Paths
  /\ filesScanned \in Nat
  /\ bytesScanned \in Nat
  /\ currentPath \in Entries \union {NoPath}
  /\ statusText \in StatusTexts
  /\ requests \in Seq(Paths)
  /\ thread \in {"running", "quitting", "finished"}
  /\ workerAlive \in BOOLEAN
  /\ life \in {"up", "cancelSent", "waiting", "destroyed"}

-----------------------------------------------------------------------------
(* GUI thread: the user's commands. *)

(* start() with nothing in the field: only the status line changes. *)
RejectEmptyPath(text) ==
  /\ life = "up" /\ ~running
  /\ Clean[text] = NoPath
  /\ statusText' = "Choose a folder first"
  /\ UNCHANGED <<workerVars, resultVars, running, rootPath, filesScanned, bytesScanned,
                 currentPath, threadVars, life>>

(* Mutant: the counters of the last scan stay until progress comes. *)
BeginKeepsCounters(text) ==
  /\ life = "up" /\ ~running
  /\ Clean[text] # NoPath
  /\ rootPath' = Clean[text]
  /\ clearStats
  /\ currentPath' = NoPath
  /\ running' = TRUE
  /\ statusText' = "Scanning"
  /\ requests' = Append(requests, Clean[text])
  /\ UNCHANGED <<workerVars, filesScanned, bytesScanned, thread, workerAlive, life>>

(* Mutant: the path is not checked for being empty. *)
BeginAnyPath(text) ==
  /\ life = "up" /\ ~running
  /\ rootPath' = Clean[text]
  /\ clearStats
  /\ filesScanned' = 0 /\ bytesScanned' = 0
  /\ currentPath' = NoPath
  /\ running' = TRUE
  /\ statusText' = "Scanning"
  /\ requests' = Append(requests, Clean[text])
  /\ UNCHANGED <<workerVars, thread, workerAlive, life>>

(* start(): reset the view, then post the request to the worker's queue.   *)
Begin(text) ==
  /\ life = "up" /\ ~running
  /\ Clean[text] # NoPath
  /\ rootPath' = Clean[text]
  /\ clearStats
  /\ filesScanned' = 0 /\ bytesScanned' = 0
  /\ currentPath' = NoPath
  /\ running' = TRUE
  /\ statusText' = "Scanning"
  /\ requests' = Append(requests, Clean[text])
  /\ UNCHANGED <<workerVars, thread, workerAlive, life>>

start(text) == RejectEmptyPath(text) \/ Begin(text)

startFromUrl(url) == start(UrlText[url])

(* Mutant: cancelling makes Scan pressable before the worker has stopped. *)
cancelAtOnce ==
  /\ life = "up" /\ running
  /\ requestCancel
  /\ running' = FALSE
  /\ statusText' = "Cancelling"
  /\ UNCHANGED <<resultVars, rootPath, filesScanned, bytesScanned, currentPath, threadVars, life>>

cancel ==
  /\ life = "up" /\ running
  /\ requestCancel
  /\ statusText' = "Cancelling"
  /\ UNCHANGED <<resultVars, running, rootPath, filesScanned, bytesScanned, currentPath,
                 threadVars, life>>

-----------------------------------------------------------------------------
(* GUI thread: the worker's signals, one event of the queue at a time. *)

Take(type) ==
  /\ life = "up"
  /\ signals # <<>>
  /\ Head(signals).type = type
  /\ signals' = Tail(signals)
  /\ UNCHANGED <<cancelRequested, workerPc, todo, summary, byExtension, rootPath, threadVars, life>>

onProgress ==
  /\ Take("progress")
  /\ filesScanned' = Head(signals).files
  /\ bytesScanned' = Head(signals).bytes
  /\ currentPath' = Head(signals).path
  /\ UNCHANGED <<resultVars, running, statusText>>

(* Mutant: every summary is taken for a complete one. *)
onFinishedIgnoresCanceled ==
  /\ Take("finished")
  /\ filesScanned' = Head(signals).summary.fileCount
  /\ bytesScanned' = Head(signals).summary.totalBytes
  /\ setStats(Head(signals).summary.extensions, Head(signals).summary.totalBytes)
  /\ statusText' = "Complete"
  /\ currentPath' = NoPath
  /\ running' = FALSE

onFinished ==
  /\ Take("finished")
  /\ LET report == Head(signals).summary IN
       /\ filesScanned' = report.fileCount
       /\ bytesScanned' = report.totalBytes
       /\ setStats(report.extensions, report.totalBytes)
       /\ statusText' = IF report.canceled THEN "Cancelled" ELSE "Complete"
  /\ currentPath' = NoPath
  /\ running' = FALSE

(* Mutant: a failed scan never ends. *)
onFailedStaysRunning ==
  /\ Take("failed")
  /\ statusText' = "Not a directory"
  /\ UNCHANGED <<resultVars, running, filesScanned, bytesScanned, currentPath>>

onFailed ==
  /\ Take("failed")
  /\ running' = FALSE
  /\ statusText' = "Not a directory"
  /\ UNCHANGED <<resultVars, filesScanned, bytesScanned, currentPath>>

DeliverSignal == onProgress \/ onFinished \/ onFailed

-----------------------------------------------------------------------------
(* Worker thread. *)

(* The event loop delivers scanRequested. After quit() it may still do so: *)
(* quit() races with the loop that is emptying the queue.                  *)
RunRequest ==
  /\ thread # "finished"
  /\ requests # <<>>
  /\ scan(Head(requests))
  /\ requests' = Tail(requests)
  /\ UNCHANGED <<resultVars, viewVars, thread, workerAlive, life>>

RunWorker == WorkerStep /\ UNCHANGED <<resultVars, viewVars, threadVars, life>>

(* The event loop returns: the worker's deferred deletion runs, and what   *)
(* is still posted to it goes with it.                                     *)
FinishThread ==
  /\ thread = "quitting"
  /\ workerPc = "idle"
  /\ thread' = "finished"
  /\ workerAlive' = FALSE
  /\ requests' = <<>>
  /\ UNCHANGED <<workerVars, resultVars, viewVars, life>>

WorkerThread == RunRequest \/ RunWorker \/ FinishThread

-----------------------------------------------------------------------------
(* GUI thread: the destructor, in its order. *)

AskWorkerToStop ==
  /\ life = "up"
  /\ life' = "cancelSent"
  /\ requestCancel
  /\ UNCHANGED <<resultVars, viewVars, threadVars>>

QuitThread ==
  /\ life = "cancelSent"
  /\ life' = "waiting"
  /\ thread' = "quitting"
  /\ UNCHANGED <<workerVars, resultVars, viewVars, requests, workerAlive>>

(* Mutant: no wait() before the members go. *)
ReturnWithoutWait ==
  /\ life = "waiting"
  /\ life' = "destroyed"
  /\ signals' = <<>>
  /\ UNCHANGED <<cancelRequested, workerPc, todo, summary, byExtension,
                 resultVars, viewVars, threadVars>>

(* wait() returns, and events still posted to the controller are dropped.  *)
WaitReturns ==
  /\ life = "waiting"
  /\ thread = "finished"
  /\ life' = "destroyed"
  /\ signals' = <<>>
  /\ UNCHANGED <<cancelRequested, workerPc, todo, summary, byExtension,
                 resultVars, viewVars, threadVars>>

Destructor == QuitThread \/ WaitReturns

-----------------------------------------------------------------------------
UserCommand ==
  \/ \E text \in Texts : start(text)
  \/ \E url \in Urls : startFromUrl(url)
  \/ cancel
  \/ AskWorkerToStop

(* Nothing is left to happen once the destructor has returned. *)
Gone == life = "destroyed" /\ UNCHANGED vars

Next == UserCommand \/ DeliverSignal \/ WorkerThread \/ Destructor \/ Gone

(* The threads are scheduled and the event loops run; the user owes        *)
(* nothing.                                                                *)
Fairness == WF_vars(DeliverSignal) /\ WF_vars(WorkerThread) /\ WF_vars(Destructor)

Spec == Init /\ [][Next]_vars /\ Fairness

-----------------------------------------------------------------------------
(* A scan is in exactly one place: requested but not begun, in the worker, *)
(* or reported but not delivered.                                          *)
Requested ==
  /\ Len(requests) = 1
  /\ workerPc = "idle"
  /\ signals = <<>>

InWorker ==
  /\ requests = <<>>
  /\ workerPc # "idle"
  /\ \A i \in DOMAIN signals : ~IsTerminal(signals[i])

Reported ==
  /\ requests = <<>>
  /\ workerPc = "idle"
  /\ signals # <<>>
  /\ \A i \in DOMAIN signals : IsTerminal(signals[i]) <=> i = Len(signals)

AtRest == requests = <<>> /\ workerPc = "idle" /\ signals = <<>>

(* `running` is the only thing that keeps a second scan from being queued, *)
(* and it is true exactly while one is under way; when it is false no      *)
(* event of an earlier scan is left that could overwrite the view later    *)
(* (ScannerController.cpp:55, 81, 144, 159).                               *)
OneScanAtATime ==
  life = "up" => IF running THEN Requested \/ InWorker \/ Reported ELSE AtRest

(* Between scans the table, the counters and the path line tell one story, *)
(* whichever way the last scan ended and whatever the table held before:   *)
(* the early return of clearStats() leaves no stale total behind           *)
(* (ScanResultModel.cpp:64-73, ScannerController.cpp:136-161).             *)
SettledViewAgrees ==
  ~running =>
    /\ currentPath = NoPath
    /\ ListFiles(rows) = filesScanned
    /\ ListBytes(rows) = bytesScanned
    /\ totalBytes = bytesScanned

(* The share column adds up to a hundred, less what whole percents lose:   *)
(* rows and total never come from two different scans. It has a value when *)
(* the total is zero too, and the total is zero only when no row has bytes *)
(* to have a share of (ScanResultModel.cpp:38, 55-62).                     *)
SharesAddUp ==
  LET shares == SumFunction([i \in DOMAIN rows |-> sharePercent(i)]) IN
    /\ shares <= 100
    /\ totalBytes > 0 \/ ListBytes(rows) > 0 => shares + Len(rows) > 100

(* "Cancelled after ..." appears only when this very scan was cancelled: a *)
(* flag left over from an earlier scan, or a cancel that came after the    *)
(* last entry of one, never ends the next (ScanWorker.cpp:28).             *)
CancelledOnlyIfAsked ==
  [][statusText' = "Cancelled" => statusText \in {"Cancelling", "Cancelled"}]_vars

(* While a scan runs the counters on screen never go back: progress and    *)
(* the final report arrive in the order they were emitted                  *)
(* (ScannerController.cpp:25-27, 128-139).                                 *)
CountersOnlyGrow ==
  [][running => filesScanned' >= filesScanned /\ bytesScanned' >= bytesScanned]_vars

(* The GUI thread touches the worker object only while it exists, the      *)
(* object dies only with its thread and with no walk in progress, and when *)
(* the destructor has returned nothing of the worker runs on and no event  *)
(* is left for an object that is gone (ScannerController.cpp:19, 38-45).   *)
NothingOutlivesController ==
  /\ life \in {"up", "cancelSent"} => thread = "running"
  /\ thread # "finished" => workerAlive
  /\ thread = "finished" => ~workerAlive /\ workerPc = "idle" /\ requests = <<>>
  /\ life = "destroyed" => thread = "finished" /\ signals = <<>>

(* Scan becomes pressable again, whatever the scan met, unless the window  *)
(* is closed first (ScannerController.cpp:144, 159).                       *)
EveryScanEnds == (running /\ life = "up") ~> (~running \/ life # "up")

(* Closing the window never hangs for good in wait(), whatever the worker  *)
(* was doing (ScannerController.cpp:36-46).                                *)
DestructorReturns == (life # "up") ~> (life = "destroyed")

(* The whole of it is the service the user sees. *)
Service == INSTANCE ScanService WITH
  phase   <- IF life # "up" THEN "gone" ELSE IF running THEN "scanning" ELSE "ready",
  target  <- rootPath,
  asked   <- statusText = "Cancelling",
  outcome <- CASE statusText = "Complete" -> "complete"
               [] statusText = "Cancelled" -> "cancelled"
               [] statusText = "Not a directory" -> "failed"
               [] OTHER -> "none",
  files   <- filesScanned,
  bytes   <- bytesScanned

(* Threads, queues and flag together implement ScanService: complete       *)
(* results are complete, partial ones were asked for, and every scan ends. *)
ImplementsService == Service!ServiceSpec

-----------------------------------------------------------------------------
(* docs/04-threading.md:157-158: "the worker stops at the next iteration". *)
(* Once the user has cancelled, or the destructor has asked the worker to  *)
(* stop and waits for it, a walk still under way has the flag raised       *)
(* before it (ScannerController.cpp:36-46, 99-103, ScanWorker.cpp:28).     *)
CancelReachesWalk ==
  (statusText = "Cancelling" \/ life = "waiting") /\ workerPc = "walking" => cancelRequested
=============================================================================
