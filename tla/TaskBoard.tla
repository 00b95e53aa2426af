----------------------------- MODULE TaskBoard -----------------------------
(***************************************************************************)
(* The task list in its window, from one start of the program to the next: *)
(* src/qml/Main.qml loads the file when the model is complete and puts     *)
(* sample tasks on an empty board, src/qml/TasksPage.qml and               *)
(* TaskEditorDialog.qml issue the commands, and the window is closed or    *)
(* the process dies. Everything runs on the GUI thread, so what one        *)
(* handler does is interrupted by nothing but the death of the process.    *)
(***************************************************************************)
EXTENDS TaskListModel

CONSTANT
  Samples     \* the sample tasks, in their order

ASSUME SampleAssumption == Samples \in Seq(Bodies \ Blank) /\ Samples # <<>>

VARIABLES
  session,    \* "loading", "sampling", "up", "closed" or "crashed"
  samplesLeft \* the sample tasks still to be added

boardVars == <<session, samplesLeft>>
vars == <<allVars, boardVars>>

Running == session \in {"loading", "sampling", "up"}

Init ==
  /\ StoreInit
  /\ FileInit
  /\ ModelInit
  /\ session = "loading"
  /\ samplesLeft = <<>>

BoardTypeOK ==
  /\ ModelTypeOK
  /\ session \in {"loading", "sampling", "up", "closed", "crashed"}
  /\ samplesLeft \in Seq(Bodies)
  /\ session = "sampling" <=> samplesLeft # <<>>

-----------------------------------------------------------------------------
(* Component.onCompleted: load() and the test of count. *)
StartUp(ok) ==
  /\ session = "loading"
  /\ Load(ok)
  /\ IF Len(tasks') = 0
     THEN session' = "sampling" /\ samplesLeft' = Samples
     ELSE session' = "up" /\ UNCHANGED samplesLeft

(* addSampleTasks(): one addTask() after the other. *)
AddSample(now) ==
  /\ session = "sampling"
  /\ AddTask(Head(samplesLeft), now)
  /\ samplesLeft' = Tail(samplesLeft)
  /\ session' = IF Len(samplesLeft) = 1 THEN "up" ELSE "sampling"

(* What the toolbar, the rows and the dialog can ask for. The dialog keeps *)
(* Save disabled for a blank title, except when it is opened for the first *)
(* time and nothing has been typed yet.                                    *)
UserEdit ==
  /\ session = "up"
  /\ \/ nextId <= LastId /\ \E body \in Bodies, now \in Times : AddTask(body, now)
     \/ \E row \in DOMAIN tasks, body \in Bodies \ Blank : UpdateTask(row, body)
     \/ \E row \in DOMAIN tasks : ToggleDone(row) \/ RemoveTask(row)
     \/ shown.done > 0 /\ ClearCompleted
  /\ UNCHANGED boardVars

TakeBack == session = "up" /\ TakeRowBack /\ UNCHANGED boardVars

Timer == session = "up" /\ (TimerElapses \/ TimerFires) /\ UNCHANGED boardVars

Saving == session = "up" /\ SaveStep /\ UNCHANGED boardVars

(* The window closes and main() returns: the model is destroyed, and its   *)
(* timer with it, whether it was running or not.                           *)
Close ==
  /\ session = "up" /\ Free
  /\ session' = "closed"
  /\ autoSave' = "off"
  /\ UNCHANGED <<storeVars, fileVars, mirror, shown, statusMessage, announcing, settled,
                 samplesLeft>>

Crash ==
  /\ Running
  /\ session' = "crashed"
  /\ FileCrash
  /\ autoSave' = "off"
  /\ announcing' = FALSE
  /\ mirror' = <<>>
  /\ samplesLeft' = <<>>
  /\ UNCHANGED <<storeVars, shown, statusMessage, settled>>

(* Another session, with nothing left but the file. The model looks only   *)
(* at files whose counter a session can have left behind under the bound.  *)
Restart ==
  /\ session \in {"closed", "crashed"}
  /\ disk \in Document => disk.nextId <= LastId + 1
  /\ session' = "loading"
  /\ tasks' = <<>> /\ nextId' = 1
  /\ mirror' = <<>>
  /\ shown' = [count |-> 0, open |-> 0, done |-> 0]
  /\ statusMessage' = ""
  /\ settled' = [tasks |-> <<>>, nextId |-> 1]
  /\ UNCHANGED <<fileVars, autoSave, announcing, samplesLeft>>

(* A session that is over for good. *)
Over == session \in {"closed", "crashed"} /\ UNCHANGED vars

Next ==
  \/ \E ok \in BOOLEAN : StartUp(ok)
  \/ \E now \in Times : AddSample(now)
  \/ UserEdit \/ TakeBack
  \/ Timer \/ Saving
  \/ Close \/ Crash \/ Restart \/ Over

(* The GUI thread goes on with the handler it is in, and a timer that runs *)
(* or is due is dealt with by the event loop, unless an edit sets it back. *)
(* The user owes nothing, and the program need not be started again.       *)
Fairness ==
  /\ WF_vars(\E ok \in BOOLEAN : StartUp(ok))
  /\ WF_vars(\E now \in Times : AddSample(now))
  /\ WF_vars(TakeBack) /\ WF_vars(Timer) /\ WF_vars(Saving)

Spec == Init /\ [][Next]_vars /\ Fairness

-----------------------------------------------------------------------------
(* The file is replaced as a whole or not at all, by the board as it is,   *)
(* and opens again as what was saved, wherever a crash hits                *)
(* (TaskStore.cpp:194-204; AboutPage.qml:57-59).                           *)
Boards == Document
SoundFile(doc) ==
  \A i, j \in DOMAIN doc.tasks :
    /\ 0 < doc.tasks[i].id /\ doc.tasks[i].id < doc.nextId
    /\ doc.tasks[i].body \notin Blank
    /\ i # j => doc.tasks[i].id # doc.tasks[j].id

Vault == INSTANCE TaskVault WITH
  Sound  <- {doc \in Document : SoundFile(doc)},
  Other  <- {NotATaskFile, Missing},
  Empty  <- [nextId |-> 1, tasks |-> <<>>],
  Closed <- Missing,
  board  <- IF session \in {"sampling", "up"} THEN toJson ELSE Missing,
  saved  <- disk

ImplementsVault == Vault!VaultSpec

(* An edit is saved, or a save is seen to fail, once the user pauses and   *)
(* if the session goes on (TaskListModel.cpp:383-388).                     *)
EditsGetSaved ==
  \/ []<><<UserEdit>>_vars
  \/ (session = "up" /\ content # settled) ~> (session # "up" \/ content = settled)

-----------------------------------------------------------------------------
(* TaskListModel.cpp:385-386: "a burst of edits results in exactly one     *)
(* write 400 ms after the last one". After the window was closed, the      *)
(* edits have been written.                                                *)
EditsSurviveClose == session = "closed" => content = settled

(* TaskListModel.h:105: addSampleTasks() "Fills an empty board with a few  *)
(* examples". When samples are added, there is no file that holds a task.  *)
SamplesOnlyOnEmptyBoard ==
  session = "sampling" /\ disk \in Document =>
    \A i \in DOMAIN disk.tasks : disk.tasks[i].body \in Blank
=============================================================================
