--------------------------- MODULE TaskListProofs ---------------------------
(***************************************************************************)
(* Theorems about the list model, for every list, body and file. That the  *)
(* views follow the store is not inductive by itself: a command finds its  *)
(* row by id and announces it by position, and only unique ids make the    *)
(* two the same. So the invariant takes in the store's, and what the file  *)
(* can put into the store. The footer's counts and the remaining types are *)
(* a second invariant over it, NoticeInv, stated for any step of the list  *)
(* model so that the board, the page and the clock can use it.             *)
(***************************************************************************)
EXTENDS TaskListModel, TaskStoreProofs

(* What the file, and the one under way to it, can put into the store. *)
FileInv ==
  /\ disk \in Document => DistinctIds(disk)
  /\ temporary \in Document => DistinctIds(temporary)

(* What a view knows is the list, and a row more while one is announced    *)
(* that the store refused.                                                 *)
MirrorInv == mirror = IF announcing THEN Append(tasks, UnknownRow) ELSE tasks

(* The invariant of the list model, carried on by every module above it. *)
ModelInv == StoreInv /\ FileInv /\ MirrorInv /\ UnsavedIsScheduled

-----------------------------------------------------------------------------
(* It holds at the start, and then one lemma per command. *)
LEMMA ModelInitInv == StoreInit /\ FileInit /\ ModelInit => ModelInv
<1> SUFFICES ASSUME StoreInit, FileInit, ModelInit PROVE ModelInv
  OBVIOUS
<1>1. StoreInv
  BY InitInv
<1>2. FileInv
  BY FileAssumption, DocumentAssumption, DistinctAssumption DEF FileInit, FileInv
<1>3. MirrorInv /\ UnsavedIsScheduled
  BY DEF StoreInit, ModelInit, MirrorInv, UnsavedIsScheduled, content
<1> QED
  BY <1>1, <1>2, <1>3 DEF ModelInv

(* A row that changed and was announced by its position. *)
LEMMA NotifyInv ==
  ASSUME ModelInv, ~announcing, NEW row \in DOMAIN tasks, StoreInv', notifyRowChanged(row),
         DOMAIN tasks' = DOMAIN tasks, \A j \in DOMAIN tasks : j # row => tasks'[j] = tasks[j],
         UNCHANGED <<fileVars, announcing, settled>>
  PROVE  ModelInv'
<1>1. tasks \in Seq(Task) /\ tasks' \in Seq(Task) /\ mirror = tasks
  BY DEF ModelInv, MirrorInv, StoreInv, StoreTypeOK
<1>2. mirror' = [tasks EXCEPT ![row] = tasks'[row]]
  BY <1>1 DEF notifyRowChanged
<1>3. [tasks EXCEPT ![row] = tasks'[row]] = tasks'
  BY <1>1
<1>4. MirrorInv' /\ UnsavedIsScheduled'
  BY <1>2, <1>3 DEF MirrorInv, UnsavedIsScheduled, notifyRowChanged, scheduleAutoSave
<1> QED
  BY <1>4 DEF ModelInv, FileInv, fileVars

(* Nothing happened to the list, its views or its file. *)
LEMMA RefusedInv ==
  ASSUME ModelInv, UNCHANGED <<storeVars, announcing>>, Refused
  PROVE  ModelInv'
BY DEF ModelInv, Refused, StoreInv, StoreTypeOK, IdsUnique, FileInv, MirrorInv,
       UnsavedIsScheduled, content, storeVars, fileVars

LEMMA AddTaskInv ==
  ASSUME ModelInv, NEW body \in Bodies, NEW now \in Times, AddTask(body, now)
  PROVE  ModelInv'
<1> DEFINE task == [id |-> 0, body |-> body, done |-> FALSE, createdAt |-> NoTime]
<1>1. task \in Task /\ task.body = body
  BY DEF Task
<1>2. addTask(task, now) /\ ~announcing
  BY DEF AddTask, Free
<1> HIDE DEF task
<1>3. StoreInv'
  BY <1>1, <1>2, AddInv DEF ModelInv
<1>4. tasks \in Seq(Task) /\ mirror = tasks
  BY <1>2 DEF ModelInv, MirrorInv, StoreInv, StoreTypeOK
<1>5. CASE body \notin Blank
  <2>1. PICK row : tasks' = Append(tasks, row)
    BY <1>1, <1>2, <1>5 DEF addTask
  <2>2. mirror' = Append(tasks, tasks'[Len(tasks) + 1]) /\ autoSave' = "running"
        /\ UNCHANGED <<fileVars, announcing>>
    BY <1>4, <1>5 DEF AddTask, Changed, scheduleAutoSave
  <2>3. tasks'[Len(tasks) + 1] = row
    BY <1>4, <2>1
  <2> QED
    BY <1>2, <1>3, <2>1, <2>2, <2>3
       DEF ModelInv, MirrorInv, UnsavedIsScheduled, FileInv, fileVars
<1>6. CASE body \in Blank
  <2>1. UNCHANGED storeVars
    BY <1>1, <1>2, <1>6 DEF addTask
  <2>2. /\ mirror' = Append(tasks, UnknownRow)
        /\ announcing' = TRUE
        /\ UNCHANGED <<fileVars, shown, statusMessage, autoSave, settled>>
    BY <1>4, <1>6 DEF AddTask
  <2> QED
    BY <1>3, <2>1, <2>2
       DEF ModelInv, MirrorInv, UnsavedIsScheduled, FileInv, fileVars, storeVars, content
<1> QED
  BY <1>5, <1>6

LEMMA TakeRowBackInv ==
  ASSUME ModelInv, TakeRowBack
  PROVE  ModelInv'
<1>1. tasks \in Seq(Task) /\ mirror = Append(tasks, UnknownRow)
  BY DEF TakeRowBack, ModelInv, MirrorInv, StoreInv, StoreTypeOK
<1>2. mirror' = tasks
  <2>1. Len(mirror) = Len(tasks) + 1 /\ Len(tasks) \in Nat
    BY <1>1
  <2>2. \A j \in 1 .. Len(tasks) : mirror[IF j < Len(mirror) THEN j ELSE j + 1] = tasks[j]
    BY <1>1, <2>1
  <2>3. tasks = [j \in 1 .. Len(tasks) |-> tasks[j]]
    BY <1>1
  <2>4. mirror' = [j \in 1 .. Len(tasks) |-> mirror[IF j < Len(mirror) THEN j ELSE j + 1]]
    <3>1. Len(mirror) - 1 = Len(tasks)
      BY <2>1
    <3>2. mirror' = [j \in 1 .. Len(mirror) - 1 |->
                       mirror[IF j < Len(mirror) THEN j ELSE j + 1]]
      BY DEF TakeRowBack, Without
    <3> QED
      BY <3>1, <3>2
  <2> QED
    BY <2>2, <2>3, <2>4
<1> QED
  BY <1>2 DEF TakeRowBack, ModelInv, StoreInv, StoreTypeOK, IdsUnique, FileInv, MirrorInv,
              UnsavedIsScheduled, content, storeVars, fileVars

LEMMA UpdateTaskInv ==
  ASSUME ModelInv, NEW row \in DOMAIN tasks, NEW body \in Bodies, UpdateTask(row, body)
  PROVE  ModelInv'
<1> DEFINE task == [tasks[row] EXCEPT !.body = body]
           id == tasks[row].id
<1>1. task \in Task /\ task.body = body
  BY RowType DEF ModelInv, StoreInv, Task
<1>2. updateTask(id, task) /\ ~announcing /\ indexOfId(id) = {row}
  BY IndexOfRow DEF UpdateTask, Free, ModelInv
<1> HIDE DEF task, id
<1>3. StoreInv'
  BY <1>1, <1>2, UpdateInv DEF ModelInv
<1>4. CASE body \in Blank
  <2>1. UNCHANGED storeVars
    BY <1>1, <1>2, <1>4 DEF updateTask
  <2> QED
    BY <1>4, <2>1, RefusedInv DEF UpdateTask
<1>5. CASE body \notin Blank
  <2>1. notifyRowChanged(row) /\ Changed
    BY <1>5 DEF UpdateTask
  <2>2. /\ DOMAIN tasks' = DOMAIN tasks
        /\ \A j \in DOMAIN tasks : j # row => tasks'[j] = tasks[j]
    BY <1>2 DEF updateTask, storeVars
  <2> QED
    BY <1>2, <1>3, <2>1, <2>2, NotifyInv DEF Changed
<1> QED
  BY <1>4, <1>5

LEMMA SetDataInv ==
  ASSUME ModelInv, NEW row \in DOMAIN tasks, NEW updated \in Task, SetData(row, updated)
  PROVE  ModelInv'
<1> DEFINE id == tasks[row].id
<1>1. ~announcing /\ indexOfId(id) = {row}
  BY IndexOfRow DEF SetData, Free, ModelInv
<1> HIDE DEF id
<1>2. CASE updated = tasks[row] \/ updated.body \in Blank
  BY <1>2, RefusedInv DEF SetData
<1>3. CASE updated # tasks[row] /\ updated.body \notin Blank
  <2>1. updateTask(id, updated) /\ notifyRowChanged(row) /\ UNCHANGED <<fileVars, announcing, settled>>
    BY <1>3 DEF SetData, id
  <2>2. StoreInv'
    BY <2>1, UpdateInv DEF ModelInv
  <2>3. /\ DOMAIN tasks' = DOMAIN tasks
        /\ \A j \in DOMAIN tasks : j # row => tasks'[j] = tasks[j]
    BY <1>1, <2>1 DEF updateTask, storeVars
  <2> QED
    BY <1>1, <2>1, <2>2, <2>3, NotifyInv
<1> QED
  BY <1>2, <1>3

LEMMA ToggleDoneInv ==
  ASSUME ModelInv, NEW row \in DOMAIN tasks, ToggleDone(row)
  PROVE  ModelInv'
<1> DEFINE id == tasks[row].id
           done == ~tasks[row].done
<1>1. ~announcing /\ indexOfId(id) = {row} /\ done \in BOOLEAN
  BY IndexOfRow DEF ToggleDone, Free, ModelInv
<1> HIDE DEF id, done
<1>2. /\ setDone(id, done) /\ notifyRowChanged(row)
      /\ UNCHANGED <<fileVars, announcing, settled>>
  BY DEF ToggleDone, id, done
<1>3. StoreInv'
  BY <1>1, <1>2, SetDoneInv DEF ModelInv
<1>4. /\ DOMAIN tasks' = DOMAIN tasks
      /\ \A j \in DOMAIN tasks : j # row => tasks'[j] = tasks[j]
  BY <1>1, <1>2 DEF setDone, storeVars
<1> QED
  BY <1>1, <1>2, <1>3, <1>4, NotifyInv

LEMMA RemoveTaskInv ==
  ASSUME ModelInv, NEW row \in DOMAIN tasks, RemoveTask(row)
  PROVE  ModelInv'
<1>1. ~announcing /\ mirror = tasks /\ indexOfId(tasks[row].id) = {row}
  BY IndexOfRow DEF RemoveTask, Free, ModelInv, MirrorInv
<1>2. StoreInv'
  BY RemoveInv DEF RemoveTask, ModelInv
<1>3. tasks' = Without(tasks, row) /\ mirror' = Without(tasks, row)
  BY <1>1 DEF RemoveTask, removeTask
<1> QED
  BY <1>1, <1>2, <1>3
     DEF RemoveTask, Changed, scheduleAutoSave, ModelInv, MirrorInv, UnsavedIsScheduled,
         FileInv, fileVars

LEMMA ClearCompletedInv ==
  ASSUME ModelInv, ClearCompleted
  PROVE  ModelInv'
<1>1. StoreInv' /\ ~announcing
  BY RemoveCompletedInv DEF ClearCompleted, Free, ModelInv
<1> QED
  BY <1>1
     DEF ClearCompleted, Changed, scheduleAutoSave, ModelInv, MirrorInv, UnsavedIsScheduled,
         FileInv, fileVars

LEMMA LoadFileInv ==
  ASSUME ModelInv, NEW ok \in BOOLEAN, Load(ok)
  PROVE  ModelInv'
<1>1. /\ loadFromFile(ok) /\ ~announcing /\ mirror' = tasks' /\ settled' = content'
      /\ UNCHANGED <<autoSave, announcing>>
  BY DEF Load, Free
<1>2. StoreInv'
  <2>1. CASE clear
    BY <2>1, ClearInv
  <2>2. CASE disk \in Document /\ loadFromJson(disk)
    BY <2>2, LoadInv DEF ModelInv, FileInv
  <2>3. CASE UNCHANGED storeVars
    BY <2>3 DEF ModelInv, StoreInv, StoreTypeOK, IdsUnique, storeVars
  <2> QED
    BY <1>1, <2>1, <2>2, <2>3 DEF loadFromFile
<1> QED
  BY <1>1, <1>2
     DEF loadFromFile, ModelInv, MirrorInv, UnsavedIsScheduled, FileInv, fileVars

-----------------------------------------------------------------------------
LEMMA SaveInv ==
  ASSUME ModelInv, Save
  PROVE  ModelInv'
<1>1. UNCHANGED <<storeVars, mirror, announcing, disk>>
  BY DEF Save, SaveFailed, SaveFails, OpenSave
<1>2. temporary' \notin Document
  BY FileAssumption, DocumentAssumption DEF Save, SaveFailed, SaveFails, OpenSave
<1>3. savePc' # "idle" \/ settled' = content'
  BY <1>1 DEF Save, SaveFailed, OpenSave, content, storeVars
<1> QED
  BY <1>1, <1>2, <1>3
     DEF ModelInv, StoreInv, StoreTypeOK, IdsUnique, MirrorInv, UnsavedIsScheduled, FileInv, storeVars

LEMMA SaveStepInv ==
  ASSUME ModelInv, SaveStep
  PROVE  ModelInv'
<1>1. UNCHANGED <<storeVars, mirror, announcing>>
  BY DEF SaveStep
<1>2. FileInv'
  <2>1. CASE WriteSave
    BY <2>1, JsonType DEF WriteSave, ModelInv, FileInv
  <2>2. CASE CommitSave
    BY <2>2, FileAssumption DEF CommitSave, ModelInv, FileInv
  <2>3. CASE SaveFails
    BY <2>3, FileAssumption DEF SaveFails, ModelInv, FileInv
  <2> QED
    BY <2>1, <2>2, <2>3 DEF SaveStep, SaveFailed
<1>3. savePc' # "idle" \/ settled' = content'
  BY <1>1 DEF SaveStep, SaveFailed, WriteSave, content, storeVars
<1> QED
  BY <1>1, <1>2, <1>3
     DEF ModelInv, StoreInv, StoreTypeOK, IdsUnique, MirrorInv, UnsavedIsScheduled, storeVars

LEMMA SetStoragePathInv ==
  ASSUME ModelInv, SetStoragePath
  PROVE  ModelInv'
<1>1. FileInv'
  BY FileAssumption, DocumentAssumption, DistinctAssumption DEF SetStoragePath, ModelInv, FileInv
<1> QED
  BY <1>1
     DEF SetStoragePath, modelVars, ModelInv, StoreInv, StoreTypeOK, IdsUnique, MirrorInv,
         UnsavedIsScheduled, content, storeVars

LEMMA TimerElapsesInv ==
  ASSUME ModelInv, TimerElapses
  PROVE  ModelInv'
BY DEF TimerElapses, ModelInv, StoreInv, StoreTypeOK, IdsUnique, MirrorInv, UnsavedIsScheduled,
       FileInv, content, storeVars, fileVars

LEMMA ModelStutterInv ==
  ASSUME ModelInv, UNCHANGED allVars
  PROVE  ModelInv'
BY DEF allVars, modelVars, ModelInv, StoreInv, StoreTypeOK, IdsUnique, MirrorInv,
       UnsavedIsScheduled, FileInv, content, storeVars, fileVars

LEMMA RowCommandInv ==
  ASSUME ModelInv, NEW row \in DOMAIN tasks, RowCommand(row)
  PROVE  ModelInv'
<1>1. /\ \A body \in Bodies : [tasks[row] EXCEPT !.body = body] \in Task
      /\ \A done \in BOOLEAN : [tasks[row] EXCEPT !.done = done] \in Task
  BY RowType DEF ModelInv, StoreInv, Task
<1> QED
  BY <1>1, UpdateTaskInv, SetDataInv, RemoveTaskInv, ToggleDoneInv DEF RowCommand

LEMMA ModelNextInv ==
  ASSUME ModelInv, [ModelNext]_allVars
  PROVE  ModelInv'
<1>1. CASE \E body \in Bodies, now \in Times : AddTask(body, now)
  BY <1>1, AddTaskInv
<1>2. CASE \E row \in DOMAIN tasks : RowCommand(row)
  BY <1>2, RowCommandInv
<1>3. CASE \E ok \in BOOLEAN : Load(ok)
  BY <1>3, LoadFileInv
<1>4. CASE Save
  BY <1>4, SaveInv
<1> QED
  BY <1>1, <1>2, <1>3, <1>4, TakeRowBackInv, ClearCompletedInv, SaveStepInv, TimerElapsesInv,
     SetStoragePathInv, ModelStutterInv DEF ModelNext, TimerFires

(* Hence it is inductive. *)
LEMMA ModelInvInductive == ModelSpec => []ModelInv
<1>1. ListInit => ModelInv
  BY ModelInitInv DEF ListInit
<1>2. ModelInv /\ [ModelNext]_allVars => ModelInv'
  BY ModelNextInv
<1> QED
  BY <1>1, <1>2, PTL DEF ModelSpec

(* Between two commands a view knows exactly the rows of the store, for    *)
(* every list and any sequence of commands, loads and saves                *)
(* (TaskListModel.cpp:175-292, 326-338).                                   *)
THEOREM ViewsFollow == ModelSpec => []ViewMirrorsStore
<1>1. ModelInv => ViewMirrorsStore
  BY DEF ModelInv, MirrorInv, ViewMirrorsStore
<1> QED
  BY <1>1, ModelInvInductive, PTL

(* No edit is forgotten: the timer is set, or a save is under way, until   *)
(* the list has been saved or a save has failed (TaskListModel.cpp:205,    *)
(* 256, 290, 372, 385-387).                                                *)
THEOREM EditsAreScheduled == ModelSpec => []UnsavedIsScheduled
<1>1. ModelInv => UnsavedIsScheduled
  BY DEF ModelInv
<1> QED
  BY <1>1, ModelInvInductive, PTL
-----------------------------------------------------------------------------
(* What the footer and the message line were told, and the file on the     *)
(* way: the counts shown are the store's at every moment, also while a row *)
(* is announced that the store refused.                                    *)
NoticeInv ==
  /\ FileTypeOK
  /\ shown = counts
  /\ statusMessage \in {"", "Loaded", "Load failed", "Save failed", "Needs a title", "Changed"}
  /\ autoSave \in {"off", "running", "due"}
  /\ announcing \in BOOLEAN
  /\ settled \in [tasks: Seq(Task), nextId: Nat]

(* The steps that a window takes of the model, whatever else they do.      *)
Commands ==
  \/ \E body \in Bodies, now \in Times : AddTask(body, now)
  \/ TakeRowBack
  \/ \E row \in DOMAIN tasks : RowCommand(row)
  \/ ClearCompleted
  \/ \E ok \in BOOLEAN : Load(ok)

(* Any step of the list model, whichever module it is part of: the timer   *)
(* may fire or be stopped when a save begins.                              *)
ModelStep ==
  \/ Commands
  \/ SetStoragePath
  \/ Save /\ autoSave' \in {autoSave, "off"}
  \/ SaveStep \/ TimerElapses
  \/ UNCHANGED allVars

(* The commands among them. *)
LEMMA CommandsInv ==
  ASSUME ModelInv, Commands
  PROVE  ModelInv'
BY AddTaskInv, TakeRowBackInv, RowCommandInv, ClearCompletedInv, LoadFileInv DEF Commands

(* All of them keep the invariant. *)
LEMMA ModelStepInv ==
  ASSUME ModelInv, ModelStep
  PROVE  ModelInv'
BY CommandsInv, SaveInv, SaveStepInv, TimerElapsesInv, SetStoragePathInv, ModelStutterInv
   DEF ModelStep

(* The counts that are shown are told to the footer whenever the rows      *)
(* change, and by no step that leaves them alone.                          *)
LEMMA CountsFollow ==
  ASSUME ModelInv, ModelStep
  PROVE  shown' = counts' \/ UNCHANGED <<tasks, shown>>
<1>1. ASSUME NEW body \in Bodies, NEW now \in Times, AddTask(body, now)
      PROVE  shown' = counts' \/ UNCHANGED <<tasks, shown>>
  BY <1>1 DEF AddTask, addTask, storeVars, countsChanged
<1>2. ASSUME NEW row \in DOMAIN tasks, RowCommand(row)
      PROVE  shown' = counts' \/ UNCHANGED <<tasks, shown>>
  <2>1. ASSUME NEW body \in Bodies, UpdateTask(row, body)
        PROVE  shown' = counts' \/ UNCHANGED <<tasks, shown>>
    <3>1. [tasks[row] EXCEPT !.body = body].body = body
      BY RowType DEF ModelInv, StoreInv, Task
    <3> QED
      BY <2>1, <3>1 DEF UpdateTask, updateTask, storeVars, notifyRowChanged, countsChanged, Refused
  <2>2. ASSUME NEW updated, SetData(row, updated)
        PROVE  shown' = counts' \/ UNCHANGED <<tasks, shown>>
    BY <2>2 DEF SetData, storeVars, notifyRowChanged, countsChanged, Refused
  <2>3. CASE RemoveTask(row) \/ ToggleDone(row)
    BY <2>3 DEF RemoveTask, ToggleDone, notifyRowChanged, countsChanged
  <2> QED
    BY <1>2, <2>1, <2>2, <2>3 DEF RowCommand
<1>3. CASE ClearCompleted \/ \E ok \in BOOLEAN : Load(ok)
  BY <1>3 DEF ClearCompleted, Load, countsChanged
<1>4. CASE TakeRowBack \/ SetStoragePath \/ Save \/ SaveStep \/ TimerElapses \/ UNCHANGED allVars
  BY <1>4 DEF TakeRowBack, SetStoragePath, Save, SaveStep, TimerElapses, allVars, modelVars,
              storeVars
<1> QED
  BY <1>1, <1>2, <1>3, <1>4 DEF ModelStep, Commands

(* The steps of a save and of a load keep the types of the file. *)
LEMMA FileTypeKept ==
  ASSUME ModelInv, FileTypeOK, ModelStep
  PROVE  FileTypeOK'
<1>1. CASE UNCHANGED fileVars
  BY <1>1 DEF FileTypeOK, fileVars
<1>2. CASE SetStoragePath
  BY <1>2, DocumentAssumption DEF SetStoragePath, FileTypeOK, FileContents
<1>3. CASE Save
  BY <1>3 DEF Save, OpenSave, SaveFailed, SaveFails, FileTypeOK, FileContents
<1>4. CASE SaveStep
  <2>1. toJson \in Document
    BY JsonType DEF ModelInv
  <2> QED
    BY <1>4, <2>1
       DEF SaveStep, WriteSave, CommitSave, SaveFailed, SaveFails, FileTypeOK, FileContents
<1>5. Commands \/ TimerElapses \/ UNCHANGED allVars => UNCHANGED fileVars
  BY DEF Commands, RowCommand, AddTask, UpdateTask, SetData, RemoveTask, ToggleDone, TakeRowBack,
         ClearCompleted, Load, loadFromFile, TimerElapses, Changed, Refused, allVars
<1> QED
  BY <1>1, <1>2, <1>3, <1>4, <1>5 DEF ModelStep

(* The message line, the timer and the history move within their types.    *)
LEMMA NoticesKept ==
  ASSUME ModelInv, NoticeInv, ModelStep
  PROVE  /\ statusMessage' \in {"", "Loaded", "Load failed", "Save failed", "Needs a title",
                                "Changed"}
         /\ autoSave' \in {"off", "running", "due"}
         /\ announcing' \in BOOLEAN
         /\ settled' \in {settled, content, content'}
<1> USE DEF NoticeInv
<1>1. ASSUME NEW body \in Bodies, NEW now \in Times, AddTask(body, now)
      PROVE  /\ statusMessage' \in {statusMessage, "Changed"} /\ autoSave' \in {autoSave, "running"}
             /\ announcing' \in {announcing, TRUE} /\ settled' = settled
  BY <1>1 DEF AddTask, Changed, scheduleAutoSave
<1>2. ASSUME NEW row \in DOMAIN tasks, RowCommand(row)
      PROVE  /\ statusMessage' \in {statusMessage, "Changed", "Needs a title"}
             /\ autoSave' \in {autoSave, "running"}
             /\ announcing' = announcing /\ settled' = settled
  BY <1>2 DEF RowCommand, UpdateTask, SetData, RemoveTask, ToggleDone, notifyRowChanged, Changed,
              Refused, scheduleAutoSave
<1>3. CASE TakeRowBack \/ ClearCompleted
  BY <1>3 DEF TakeRowBack, ClearCompleted, Changed, scheduleAutoSave
<1>4. CASE \E ok \in BOOLEAN : Load(ok)
  BY <1>4 DEF Load
<1>5. CASE SetStoragePath \/ TimerElapses \/ UNCHANGED allVars
  BY <1>5 DEF SetStoragePath, TimerElapses, allVars, modelVars
<1>6. CASE Save /\ autoSave' \in {autoSave, "off"}
  BY <1>6 DEF Save, SaveFailed
<1>7. CASE SaveStep
  BY <1>7 DEF SaveStep, SaveFailed
<1> QED
  BY <1>1, <1>2, <1>3, <1>4, <1>5, <1>6, <1>7 DEF ModelStep, Commands

(* Every step of the list model keeps footer and types. *)
LEMMA NoticeStepInv ==
  ASSUME ModelInv, NoticeInv, ModelStep
  PROVE  NoticeInv'
<1>1. FileTypeOK' /\ shown' = counts'
  <2>1. UNCHANGED tasks => UNCHANGED counts
    BY DEF counts, openCount, doneCount, OpenRows
  <2> QED
    BY <2>1, FileTypeKept, CountsFollow DEF NoticeInv
<1>2. settled' \in [tasks: Seq(Task), nextId: Nat]
  <2>1. /\ tasks \in Seq(Task) /\ nextId \in Nat
        /\ tasks' \in Seq(Task) /\ nextId' \in Nat
    BY ModelStepInv DEF ModelInv, StoreInv, StoreTypeOK
  <2>2. /\ content \in [tasks: Seq(Task), nextId: Nat]
        /\ content' \in [tasks: Seq(Task), nextId: Nat]
    BY <2>1 DEF content
  <2>3. settled' \in {settled, content, content'}
    BY NoticesKept
  <2> QED
    BY <2>2, <2>3 DEF NoticeInv
<1> QED
  BY <1>1, <1>2, NoticesKept DEF NoticeInv

(* The footer starts at an empty list. *)
LEMMA NoticeInitInv == ListInit => NoticeInv
<1> SUFFICES ASSUME ListInit PROVE NoticeInv
  OBVIOUS
<1>1. FileTypeOK
  BY DocumentAssumption DEF ListInit, FileInit, FileTypeOK, FileContents
<1>2. shown = counts
  <2>1. tasks = <<>> /\ shown = [count |-> 0, open |-> 0, done |-> 0]
    BY DEF ListInit, StoreInit, ModelInit
  <2>2. OpenRows = {}
    BY <2>1 DEF OpenRows
  <2> QED
    BY <2>1, <2>2, FS_EmptySet DEF counts, openCount, doneCount
<1>3. settled \in [tasks: Seq(Task), nextId: Nat]
  <2>1. <<>> \in Seq(Task) /\ 1 \in Nat
    OBVIOUS
  <2> QED
    BY <2>1 DEF ListInit, ModelInit
<1> QED
  BY <1>1, <1>2, <1>3 DEF ListInit, ModelInit, NoticeInv

(* Hence, with the invariant above, it is inductive. *)
LEMMA NoticeInvInductive == ModelSpec => [](ModelInv /\ NoticeInv)
<1>1. ListInit => NoticeInv
  BY NoticeInitInv
<1>2. ModelInv /\ NoticeInv /\ [ModelNext]_allVars => NoticeInv'
  BY NoticeStepInv DEF ModelNext, ModelStep, Commands, TimerFires
<1> QED
  BY <1>1, <1>2, ModelInvInductive, PTL DEF ModelSpec

(* The open rows and the done rows make up the list. *)
LEMMA CountsAddUp ==
  ASSUME StoreTypeOK
  PROVE  /\ Len(tasks) \in Nat /\ openCount \in Nat /\ doneCount \in Nat
         /\ openCount = Cardinality({i \in DOMAIN tasks : ~tasks[i].done})
         /\ doneCount = Cardinality({i \in DOMAIN tasks : tasks[i].done})
<1> DEFINE Done == {i \in DOMAIN tasks : tasks[i].done}
<1>1. DOMAIN tasks = 1 .. Len(tasks) /\ Len(tasks) \in Nat
  BY RowType
<1>2. IsFiniteSet(1 .. Len(tasks)) /\ Cardinality(1 .. Len(tasks)) = Len(tasks)
  <2>1. \A n \in Nat : IsFiniteSet(1 .. n) /\ Cardinality(1 .. n) = n
    BY FS_Interval
  <2> QED
    BY <1>1, <2>1
<1>3. /\ OpenRows \in SUBSET (1 .. Len(tasks))
      /\ (1 .. Len(tasks)) \ OpenRows = Done
      /\ (1 .. Len(tasks)) \intersect OpenRows = OpenRows
  BY <1>1 DEF OpenRows
<1>4. Cardinality(Done) = Len(tasks) - Cardinality(OpenRows)
  <2>1. Cardinality((1 .. Len(tasks)) \ OpenRows)
          = Cardinality(1 .. Len(tasks)) - Cardinality((1 .. Len(tasks)) \intersect OpenRows)
    BY <1>2, FS_Difference
  <2> QED
    BY <1>2, <1>3, <2>1
<1>5. IsFiniteSet(OpenRows) /\ IsFiniteSet(Done)
  BY <1>2, <1>3, FS_Subset
<1>6. Cardinality(OpenRows) \in Nat /\ Cardinality(Done) \in Nat
  BY <1>5, FS_CardinalityType
<1> QED
  BY <1>1, <1>4, <1>6 DEF openCount, doneCount, OpenRows

(* Types of all that the list model has. *)
LEMMA ModelTypesHold == ModelInv /\ NoticeInv => ModelTypeOK
<1> SUFFICES ASSUME ModelInv, NoticeInv PROVE ModelTypeOK
  OBVIOUS
<1>1. StoreTypeOK /\ tasks \in Seq(Task)
  BY DEF ModelInv, StoreInv, StoreTypeOK
<1>2. shown \in [count: Nat, open: Int, done: Int]
  <2>1. Len(tasks) \in Nat /\ openCount \in Int /\ doneCount \in Int
    <3>1. Len(tasks) \in Nat /\ openCount \in Nat /\ doneCount \in Nat
      BY <1>1, CountsAddUp
    <3> QED
      BY <3>1
  <2>2. shown = [count |-> Len(tasks), open |-> openCount, done |-> doneCount]
    BY DEF NoticeInv, counts
  <2> QED
    BY <2>1, <2>2
<1>3. mirror \in Seq(Task \union {UnknownRow}) /\ (~announcing => mirror \in Seq(Task))
  <2>1. tasks \in Seq(Task \union {UnknownRow})
    BY <1>1
  <2> QED
    BY <1>1, <2>1 DEF ModelInv, MirrorInv
<1> QED
  BY <1>1, <1>2, <1>3 DEF NoticeInv, ModelTypeOK

(* The model and its file hold what they are meant to hold, for every      *)
(* list, file and sequence of commands (TaskListModel.cpp:175-390).        *)
THEOREM ModelTypeCorrect == ModelSpec => []ModelTypeOK
BY ModelTypesHold, NoticeInvInductive, PTL

(* The footer agrees with the list between any two commands: what it was   *)
(* told last counts the rows the views know, open and done                 *)
(* (TaskListModel.cpp:203, 254, 288, 334, 371).                            *)
THEOREM FooterCounts == ModelSpec => []CountsShown
<1>1. ModelInv /\ NoticeInv => CountsShown
  <2> SUFFICES ASSUME ModelInv, NoticeInv, ~announcing PROVE CountsShown
    BY DEF CountsShown
  <2>1. mirror = tasks
    BY DEF ModelInv, MirrorInv
  <2>2. StoreTypeOK /\ shown = [count |-> Len(tasks), open |-> openCount, done |-> doneCount]
    BY DEF ModelInv, StoreInv, NoticeInv, counts
  <2> QED
    BY <2>1, <2>2, CountsAddUp DEF CountsShown
<1> QED
  BY <1>1, NoticeInvInductive, PTL
=============================================================================
