--------------------------- MODULE TaskListModel ---------------------------
(***************************************************************************)
(* src/models/TaskListModel.cpp: the Qt model around the store. It owes    *)
(* its views a notification for every change, the footer of the window a   *)
(* countsChanged(), and the file a save once the user has paused.          *)
(*                                                                         *)
(* A view is modelled by what the notifications alone tell it. Commands    *)
(* take rows, the store takes ids; a command with a row that does not      *)
(* exist returns at once and is left out. The model's commands are in      *)
(* capitals (AddTask), the store's are not (addTask).                      *)
(***************************************************************************)
EXTENDS TaskFile

CONSTANT
  UnknownRow      \* what a view reads of a row the model does not have

ASSUME RowAssumption == UnknownRow \notin Task

VARIABLES
  mirror,         \* the rows a view knows of, from notifications
  shown,          \* the counts a binding read at the last countsChanged()
  statusMessage,  \* statusMessage, by the kind of message
  autoSave,       \* the 400 ms timer: "off", "running", or "due" to fire
  announcing,     \* addTask() has announced a row that the store refused
  settled         \* history: the content when last loaded, saved or failed
                  \* to be saved

modelVars == <<mirror, shown, statusMessage, autoSave, announcing, settled>>
allVars == <<storeVars, fileVars, modelVars>>

content == [tasks |-> tasks, nextId |-> nextId]
counts == [count |-> Len(tasks), open |-> openCount, done |-> doneCount]

ModelInit ==
  /\ mirror = <<>>
  /\ shown = [count |-> 0, open |-> 0, done |-> 0]
  /\ statusMessage = ""
  /\ autoSave = "off"
  /\ announcing = FALSE
  /\ settled = [tasks |-> <<>>, nextId |-> 1]

ModelTypeOK ==
  /\ StoreTypeOK
  /\ FileTypeOK
  /\ mirror \in Seq(Task \union {UnknownRow})
  /\ ~announcing => mirror \in Seq(Task)
  /\ shown \in [count: Nat, open: Int, done: Int]
  /\ statusMessage \in {"", "Loaded", "Load failed", "Save failed", "Needs a title", "Changed"}
  /\ autoSave \in {"off", "running", "due"}
  /\ announcing \in BOOLEAN
  /\ settled \in [tasks: Seq(Task), nextId: Nat]

(* The GUI thread is not inside a command or a save.                       *)
Free == ~announcing /\ savePc = "idle"

-----------------------------------------------------------------------------
(* Notifications. *)

countsChanged == shown' = counts'

(* start() on a running timer starts it over. *)
scheduleAutoSave == autoSave' = "running"

(* Mutant: a changed row is not saved. *)
notifyRowChangedOnly(row) ==
  /\ mirror' = [mirror EXCEPT ![row] = tasks'[row]]
  /\ countsChanged
  /\ UNCHANGED autoSave

(* Mutant: a changed row is not counted again. *)
notifyRowChangedUncounted(row) ==
  /\ mirror' = [mirror EXCEPT ![row] = tasks'[row]]
  /\ UNCHANGED shown
  /\ scheduleAutoSave

notifyRowChanged(row) ==
  /\ mirror' = [mirror EXCEPT ![row] = tasks'[row]]
  /\ countsChanged
  /\ scheduleAutoSave

(* What a command leaves alone that changed the list, or that did not.     *)
Changed == statusMessage' = "Changed" /\ UNCHANGED <<fileVars, announcing, settled>>
Refused == UNCHANGED <<fileVars, mirror, shown, autoSave, settled>>

-----------------------------------------------------------------------------
(* Commands. *)

(* Mutant: the refused row is not taken back. *)
AddTaskKeepsRow(body, now) ==
  /\ Free
  /\ addTask([id |-> 0, body |-> body, done |-> FALSE, createdAt |-> NoTime], now)
  /\ mirror' = Append(mirror, IF body \in Blank THEN UnknownRow ELSE tasks'[Len(tasks) + 1])
  /\ countsChanged
  /\ scheduleAutoSave
  /\ Changed

(* The row is announced whether or not the store takes it.                 *)
AddTask(body, now) ==
  /\ Free
  /\ addTask([id |-> 0, body |-> body, done |-> FALSE, createdAt |-> NoTime], now)
  /\ \/ /\ body \notin Blank
        /\ mirror' = Append(mirror, tasks'[Len(tasks) + 1])
        /\ countsChanged
        /\ scheduleAutoSave
        /\ Changed
     \/ /\ body \in Blank
        /\ mirror' = Append(mirror, UnknownRow)
        /\ announcing' = TRUE
        /\ UNCHANGED <<fileVars, shown, statusMessage, autoSave, settled>>

(* addTask() went on after the refusal: the row is taken back.             *)
TakeRowBack ==
  /\ announcing
  /\ mirror' = Without(mirror, Len(mirror))
  /\ announcing' = FALSE
  /\ statusMessage' = "Needs a title"
  /\ UNCHANGED <<storeVars, fileVars, shown, autoSave, settled>>

UpdateTask(row, body) ==
  /\ Free
  /\ updateTask(tasks[row].id, [tasks[row] EXCEPT !.body = body])
  /\ \/ body \notin Blank /\ notifyRowChanged(row) /\ Changed
     \/ /\ body \in Blank /\ Refused
        /\ statusMessage' = "Needs a title"
        /\ UNCHANGED announcing

(* setData() gives one role a new value. Nothing is emitted for a value    *)
(* the row has already, and no message is shown for a refusal.             *)
SetData(row, updated) ==
  /\ Free
  /\ \/ /\ updated = tasks[row] \/ updated.body \in Blank
        /\ Refused
        /\ UNCHANGED <<storeVars, announcing, statusMessage>>
     \/ /\ updated # tasks[row] /\ updated.body \notin Blank
        /\ updateTask(tasks[row].id, updated)
        /\ notifyRowChanged(row)
        /\ UNCHANGED <<fileVars, announcing, settled, statusMessage>>

(* Mutant: the views hear of the wrong row. *)
RemoveTaskNotifiesLast(row) ==
  /\ Free
  /\ removeTask(tasks[row].id)
  /\ mirror' = Without(mirror, Len(mirror))
  /\ countsChanged
  /\ scheduleAutoSave
  /\ Changed

RemoveTask(row) ==
  /\ Free
  /\ removeTask(tasks[row].id)
  /\ mirror' = Without(mirror, row)
  /\ countsChanged
  /\ scheduleAutoSave
  /\ Changed

(* The call does nothing, and is left out, when the store finds its row in *)
(* that state already, as it may under an id given twice.                  *)
ToggleDone(row) ==
  /\ Free
  /\ \A i \in indexOfId(tasks[row].id) : tasks[i].done = tasks[row].done
  /\ setDone(tasks[row].id, ~tasks[row].done)
  /\ notifyRowChanged(row)
  /\ UNCHANGED <<fileVars, announcing, settled, statusMessage>>

(* A model reset: the views read every row again. *)
ClearCompleted ==
  /\ Free
  /\ doneCount # 0
  /\ removeCompleted
  /\ mirror' = tasks'
  /\ countsChanged
  /\ scheduleAutoSave
  /\ Changed

-----------------------------------------------------------------------------
(* Persistence. *)

Load(ok) ==
  /\ Free
  /\ loadFromFile(ok)
  /\ mirror' = tasks'
  /\ countsChanged
  /\ statusMessage' = IF ok THEN "Loaded" ELSE "Load failed"
  /\ settled' = content'
  /\ UNCHANGED <<autoSave, announcing>>

(* Another path, at which there is a file that this model did not write.   *)
SetStoragePath ==
  /\ Free
  /\ disk' \in Documents \union {NotATaskFile, Missing}
  /\ UNCHANGED <<storeVars, temporary, savePc, modelVars>>

(* save() as far as open(), and its other steps. Only a failure is shown,  *)
(* and nothing tries again after one.                                      *)
SaveFailed == SaveFails /\ statusMessage' = "Save failed" /\ settled' = content

Save ==
  /\ Free
  /\ \/ OpenSave /\ UNCHANGED <<statusMessage, settled>>
     \/ SaveFailed
  /\ UNCHANGED <<storeVars, mirror, shown, announcing>>

SaveStep ==
  /\ savePc # "idle"
  /\ \/ WriteSave /\ UNCHANGED <<statusMessage, settled>>
     \/ CommitSave /\ settled' = content /\ UNCHANGED statusMessage
     \/ SaveFailed
  /\ UNCHANGED <<storeVars, mirror, shown, autoSave, announcing>>

(* 400 ms without an edit have passed. *)
TimerElapses ==
  /\ autoSave = "running"
  /\ autoSave' = "due"
  /\ UNCHANGED <<storeVars, fileVars, mirror, shown, statusMessage, announcing, settled>>

(* The single shot: the timer is off before save() runs. *)
TimerFires == autoSave = "due" /\ autoSave' = "off" /\ Save

-----------------------------------------------------------------------------
(***************************************************************************)
(* The model by itself, with every call that QML or                        *)
(* tests/tst_tasklistmodel.cpp can make, in any order.                     *)
(***************************************************************************)
RowCommand(row) ==
  \/ \E body \in Bodies :
       \/ UpdateTask(row, body)
       \/ SetData(row, [tasks[row] EXCEPT !.body = body])
  \/ \E done \in BOOLEAN : SetData(row, [tasks[row] EXCEPT !.done = done])
  \/ RemoveTask(row)
  \/ ToggleDone(row)

ModelNext ==
  \/ nextId <= LastId /\ \E body \in Bodies, now \in Times : AddTask(body, now)
  \/ TakeRowBack
  \/ \E row \in DOMAIN tasks : RowCommand(row)
  \/ ClearCompleted
  \/ \E ok \in BOOLEAN : Load(ok)
  \/ SetStoragePath
  \/ Save /\ UNCHANGED autoSave
  \/ SaveStep
  \/ TimerElapses
  \/ TimerFires

ListInit == StoreInit /\ FileInit /\ ModelInit

ModelSpec == ListInit /\ [][ModelNext]_allVars

-----------------------------------------------------------------------------
(* What the notifications told a view is what is in the store, between any *)
(* two commands: a command that finds its row by id changes the row it     *)
(* announced by position, and a refused row is taken back                  *)
(* (TaskListModel.cpp:190-199, 247-249, 284-286, 330-332, 365-370).        *)
ViewMirrorsStore == ~announcing => mirror = tasks

(* The footer agrees with the list: no change of its rows, flags or length *)
(* goes by without countsChanged()                                         *)
(* (TaskListModel.cpp:203, 254, 288, 334, 371).                            *)
CountsShown ==
  ~announcing => /\ shown.count = Len(mirror)
                 /\ shown.open = Cardinality({i \in DOMAIN mirror : ~mirror[i].done})
                 /\ shown.done = Cardinality({i \in DOMAIN mirror : mirror[i].done})

(* An edit is never forgotten while the program runs: until it has been    *)
(* saved, or a save has been seen to fail, the timer is set or the save is *)
(* under way (TaskListModel.cpp:205, 256, 290, 372, 385-387).              *)
UnsavedIsScheduled == content # settled => autoSave # "off" \/ savePc # "idle"
=============================================================================
