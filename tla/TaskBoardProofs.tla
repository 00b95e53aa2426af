-------------------------- MODULE TaskBoardProofs --------------------------
(***************************************************************************)
(* The list model's invariant carried through whole sessions: a session    *)
(* starts from the file alone, so what one session leaves there, at its    *)
(* end or in the middle of a save, must be good enough for the next. On    *)
(* top of it VaultInv says what a save has under way and what the file is  *)
(* when it is one; with it every step of a session is a step of TaskVault  *)
(* or leaves board and file alone.                                         *)
(***************************************************************************)
EXTENDS TaskBoard, TaskListProofs

(* The list is in order while the program runs. Once it is over, only the  *)
(* file matters, and that no command is left half done.                    *)
BoardInv ==
  /\ StoreInv
  /\ FileInv
  /\ IF Running THEN ModelInv ELSE ~announcing
  /\ samplesLeft \in Seq(Bodies \ Blank)
  /\ session = "sampling" => samplesLeft # <<>>

-----------------------------------------------------------------------------
(* A session that is about to load, and then one lemma per step. *)
LEMMA BoardInitInv == Init => BoardInv
<1> SUFFICES ASSUME Init PROVE BoardInv
  OBVIOUS
<1>1. ModelInv /\ Running
  BY ModelInitInv DEF Init, Running
<1>2. samplesLeft = <<>> /\ session = "loading"
  BY DEF Init
<1> QED
  BY <1>1, <1>2 DEF BoardInv, ModelInv

(* A step of the model within a session that stays up. *)
LEMMA WithinSession ==
  ASSUME BoardInv, session = "up", UNCHANGED boardVars, ModelInv'
  PROVE  BoardInv'
BY DEF BoardInv, Running, ModelInv, boardVars

LEMMA StartUpInv ==
  ASSUME BoardInv, NEW ok \in BOOLEAN, StartUp(ok)
  PROVE  BoardInv'
<1>1. ModelInv'
  BY LoadFileInv DEF StartUp, BoardInv, Running
<1>2. CASE session' = "sampling" /\ samplesLeft' = Samples
  BY <1>1, <1>2, SampleAssumption DEF BoardInv, Running, ModelInv
<1>3. CASE session' = "up" /\ UNCHANGED samplesLeft
  BY <1>1, <1>3 DEF BoardInv, Running, ModelInv
<1> QED
  BY <1>2, <1>3 DEF StartUp

LEMMA AddSampleInv ==
  ASSUME BoardInv, NEW now \in Times, AddSample(now)
  PROVE  BoardInv'
<1>1. samplesLeft \in Seq(Bodies \ Blank) /\ samplesLeft # <<>> /\ ModelInv
  BY DEF AddSample, BoardInv, Running
<1>2. Head(samplesLeft) \in Bodies
  BY <1>1
<1>3. ModelInv'
  BY <1>1, <1>2, AddTaskInv DEF AddSample
<1>4. samplesLeft' = Tail(samplesLeft) /\ samplesLeft' \in Seq(Bodies \ Blank)
  BY <1>1 DEF AddSample
<1>5. /\ session' \in {"sampling", "up"}
      /\ session' = "sampling" => Len(samplesLeft) # 1
  BY DEF AddSample
<1>6. session' = "sampling" => samplesLeft' # <<>>
  <2>1. Len(samplesLeft) \in Nat /\ Len(samplesLeft) > 0
    BY <1>1
  <2>2. Len(Tail(samplesLeft)) = Len(samplesLeft) - 1
    BY <1>1
  <2>3. Len(samplesLeft) # 1 => Len(samplesLeft') > 0
    BY <1>4, <2>1, <2>2
  <2>4. \A seq \in Seq(Bodies \ Blank) : Len(seq) > 0 => seq # <<>>
    OBVIOUS
  <2> QED
    BY <1>4, <1>5, <2>3, <2>4
<1> QED
  BY <1>3, <1>4, <1>5, <1>6 DEF BoardInv, Running, ModelInv

LEMMA UserEditInv ==
  ASSUME BoardInv, UserEdit
  PROVE  BoardInv'
<1>1. ModelInv /\ session = "up" /\ UNCHANGED boardVars
  BY DEF UserEdit, BoardInv, Running
<1>2. ModelInv'
  BY <1>1, AddTaskInv, UpdateTaskInv, ToggleDoneInv, RemoveTaskInv, ClearCompletedInv
     DEF UserEdit
<1> QED
  BY <1>1, <1>2, WithinSession

LEMMA HousekeepingInv ==
  ASSUME BoardInv, TakeBack \/ Timer \/ Saving
  PROVE  BoardInv'
<1>1. ModelInv /\ session = "up" /\ UNCHANGED boardVars
  BY DEF TakeBack, Timer, Saving, BoardInv, Running
<1>2. ModelInv'
  BY <1>1, TakeRowBackInv, TimerElapsesInv, SaveInv, SaveStepInv
     DEF TakeBack, Timer, Saving, TimerFires
<1> QED
  BY <1>1, <1>2, WithinSession

LEMMA SessionInv ==
  ASSUME BoardInv, Close \/ Crash \/ Restart
  PROVE  BoardInv'
<1>1. CASE Close
  BY <1>1 DEF Close, Free, BoardInv, Running, StoreInv, StoreTypeOK, IdsUnique, FileInv,
              storeVars, fileVars
<1>2. CASE Crash
  <2>1. samplesLeft' \in Seq(Bodies \ Blank) /\ session' = "crashed" /\ ~announcing'
    BY <1>2 DEF Crash
  <2>2. FileInv'
    BY <1>2, FileAssumption DEF Crash, FileCrash, BoardInv, FileInv
  <2>3. StoreInv'
    BY <1>2 DEF Crash, BoardInv, StoreInv, StoreTypeOK, IdsUnique, storeVars
  <2> QED
    BY <2>1, <2>2, <2>3 DEF BoardInv, Running
<1>3. CASE Restart
  <2>1. StoreInv'
    <3>1. tasks' = <<>> /\ nextId' = 1
      BY <1>3 DEF Restart
    <3>2. tasks' \in Seq(Task) /\ DOMAIN tasks' = {}
      BY <3>1
    <3> QED
      BY <3>1, <3>2 DEF StoreInv, StoreTypeOK, IdsUnique
  <2>2. FileInv'
    BY <1>3 DEF Restart, BoardInv, FileInv, fileVars
  <2>3. MirrorInv' /\ UnsavedIsScheduled'
    BY <1>3 DEF Restart, BoardInv, Running, MirrorInv, UnsavedIsScheduled, content
  <2> QED
    BY <1>3, <2>1, <2>2, <2>3 DEF Restart, BoardInv, Running, ModelInv
<1> QED
  BY <1>1, <1>2, <1>3

LEMMA BoardStutterInv ==
  ASSUME BoardInv, UNCHANGED vars
  PROVE  BoardInv'
BY DEF vars, allVars, boardVars, modelVars, BoardInv, Running, ModelInv, StoreInv, StoreTypeOK,
       IdsUnique, MirrorInv, UnsavedIsScheduled, FileInv, content, storeVars, fileVars

(* Hence it is inductive. *)
LEMMA BoardInvInductive == Spec => []BoardInv
<1>1. Init => BoardInv
  BY BoardInitInv
<1>2. BoardInv /\ [Next]_vars => BoardInv'
  BY StartUpInv, AddSampleInv, UserEditInv, HousekeepingInv, SessionInv, BoardStutterInv
     DEF Next, Over
<1> QED
  BY <1>1, <1>2, PTL DEF Spec

(* Through any number of sessions, closed or crashed at any step, from any *)
(* file whose positive ids are distinct: ids name one task each, below the *)
(* counter, and no title is blank (TaskStore.cpp:53-57, 173-180, 194-204). *)
THEOREM SessionsKeepIds == Spec => []IdsUnique
<1>1. BoardInv => IdsUnique
  BY DEF BoardInv, StoreInv
<1> QED
  BY <1>1, BoardInvInductive, PTL

(* While the program runs, the window shows the list and no edit goes      *)
(* unscheduled (TaskListModel.cpp:175-292, 326-338, 383-388).              *)
THEOREM RunningSessionIsSound == Spec => [](Running => ViewMirrorsStore /\ UnsavedIsScheduled)
<1>1. BoardInv => (Running => ViewMirrorsStore /\ UnsavedIsScheduled)
  BY DEF BoardInv, ModelInv, MirrorInv, ViewMirrorsStore
<1> QED
  BY <1>1, BoardInvInductive, PTL
-----------------------------------------------------------------------------
(* The types, which a session that is over keeps as well.                  *)
BoardTypes ==
  /\ NoticeInv
  /\ mirror \in Seq(Task \union {UnknownRow})
  /\ ~announcing => mirror \in Seq(Task)
  /\ session \in {"loading", "sampling", "up", "closed", "crashed"}
  /\ session # "sampling" => samplesLeft = <<>>

(* Within a session the board is the list model and nothing else.          *)
LEMMA SessionSteps ==
  ASSUME BoardInv,
         \/ \E ok \in BOOLEAN : StartUp(ok)
         \/ \E now \in Times : AddSample(now)
         \/ UserEdit \/ TakeBack \/ Timer \/ Saving
  PROVE  ModelInv /\ ModelStep /\ session' \in {"sampling", "up"}
<1>1. CASE \E ok \in BOOLEAN : StartUp(ok)
  BY <1>1 DEF StartUp, ModelStep, Commands, BoardInv, Running
<1>2. CASE \E now \in Times : AddSample(now)
  <2>1. samplesLeft \in Seq(Bodies \ Blank) /\ samplesLeft # <<>>
    BY <1>2 DEF AddSample, BoardInv
  <2>2. Head(samplesLeft) \in Bodies
    BY <2>1
  <2> QED
    BY <1>2, <2>2 DEF AddSample, ModelStep, Commands, BoardInv, Running
<1>3. CASE UserEdit
  BY <1>3 DEF UserEdit, ModelStep, Commands, RowCommand, boardVars, BoardInv, Running
<1>4. CASE TakeBack \/ Timer \/ Saving
  BY <1>4 DEF TakeBack, Timer, TimerFires, Saving, ModelStep, Commands, boardVars, BoardInv, Running
<1> QED
  BY <1>1, <1>2, <1>3, <1>4

LEMMA SamplesTaken ==
  ASSUME BoardInv, BoardTypes,
         \/ \E ok \in BOOLEAN : StartUp(ok)
         \/ \E now \in Times : AddSample(now)
         \/ UserEdit \/ TakeBack \/ Timer \/ Saving
  PROVE  session' # "sampling" => samplesLeft' = <<>>
<1>1. CASE \E ok \in BOOLEAN : StartUp(ok)
  BY <1>1 DEF StartUp, BoardTypes
<1>2. CASE \E now \in Times : AddSample(now)
  <2>1. samplesLeft \in Seq(Bodies \ Blank) /\ samplesLeft # <<>>
    BY <1>2 DEF AddSample, BoardInv
  <2>2. Len(samplesLeft) = 1 => Tail(samplesLeft) = <<>>
    <3> DEFINE rest == Tail(samplesLeft)
    <3>1. rest \in Seq(Bodies \ Blank) /\ (Len(samplesLeft) = 1 => Len(rest) = 0)
      BY <2>1
    <3> HIDE DEF rest
    <3>2. \A seq \in Seq(Bodies \ Blank) : Len(seq) = 0 => seq = <<>>
      OBVIOUS
    <3>3. Len(samplesLeft) = 1 => rest = <<>>
      BY <3>1, <3>2
    <3> QED
      BY <3>3 DEF rest
  <2> QED
    BY <1>2, <2>2 DEF AddSample
<1>3. CASE UserEdit \/ TakeBack \/ Timer \/ Saving
  BY <1>3 DEF UserEdit, TakeBack, Timer, Saving, boardVars, BoardTypes
<1> QED
  BY <1>1, <1>2, <1>3

LEMMA BoundaryTypes ==
  ASSUME BoardInv, BoardTypes, Close \/ Crash \/ Restart
  PROVE  BoardTypes'
<1>1. CASE Close
  BY <1>1 DEF Close, Free, BoardTypes, NoticeInv, FileTypeOK, FileContents, counts, openCount,
              doneCount, OpenRows, storeVars, fileVars
<1>2. CASE Crash
  <2>1. FileTypeOK' /\ shown' = counts'
    BY <1>2 DEF Crash, FileCrash, BoardTypes, NoticeInv, FileTypeOK, FileContents, counts,
                openCount, doneCount, OpenRows, storeVars
  <2>2. /\ UNCHANGED <<statusMessage, settled>> /\ autoSave' = "off" /\ announcing' = FALSE
        /\ mirror' = <<>> /\ samplesLeft' = <<>> /\ session' = "crashed"
    BY <1>2 DEF Crash
  <2>3. mirror' \in Seq(Task) /\ mirror' \in Seq(Task \union {UnknownRow})
    BY <2>2
  <2> QED
    BY <2>1, <2>2, <2>3 DEF BoardTypes, NoticeInv
<1>3. CASE Restart
  <2>1. FileTypeOK'
    BY <1>3 DEF Restart, BoardTypes, NoticeInv, FileTypeOK, FileContents, fileVars
  <2>2. tasks' = <<>> /\ shown' = [count |-> 0, open |-> 0, done |-> 0] /\ mirror' = <<>>
        /\ settled' = [tasks |-> <<>>, nextId |-> 1] /\ statusMessage' = ""
        /\ session' = "loading" /\ UNCHANGED <<autoSave, announcing, samplesLeft>>
        /\ session \in {"closed", "crashed"}
    BY <1>3 DEF Restart
  <2>3. shown' = counts'
    <3>1. DOMAIN tasks' = {} /\ Len(tasks') = 0
      <4>1. tasks' = <<>>
        BY <2>2
      <4>2. DOMAIN <<>> = {} /\ Len(<<>>) = 0
        OBVIOUS
      <4> QED
        BY <4>1, <4>2
    <3>2. Cardinality(OpenRows') = 0
      BY <3>1, FS_EmptySet DEF OpenRows
    <3>3. openCount' = 0 /\ doneCount' = 0
      BY <3>1, <3>2 DEF openCount, doneCount
    <3> QED
      BY <2>2, <3>1, <3>3 DEF counts
  <2>4. /\ mirror' \in Seq(Task) /\ mirror' \in Seq(Task \union {UnknownRow})
        /\ settled' \in [tasks: Seq(Task), nextId: Nat]
    <3>1. \A T : <<>> \in Seq(T)
      OBVIOUS
    <3> QED
      BY <2>2, <3>1
  <2> QED
    BY <2>1, <2>2, <2>3, <2>4 DEF BoardTypes, NoticeInv
<1> QED
  BY <1>1, <1>2, <1>3

LEMMA BoardTypesNext ==
  ASSUME BoardInv, BoardTypes, [Next]_vars
  PROVE  BoardTypes'
<1>1. CASE \/ \E ok \in BOOLEAN : StartUp(ok)
           \/ \E now \in Times : AddSample(now)
           \/ UserEdit \/ TakeBack \/ Timer \/ Saving
  <2>1. ModelInv /\ ModelStep /\ session' \in {"sampling", "up"}
    BY <1>1, SessionSteps
  <2>2. ModelInv' /\ NoticeInv'
    BY <2>1, ModelStepInv, NoticeStepInv DEF BoardTypes
  <2>3. mirror' \in Seq(Task \union {UnknownRow}) /\ (~announcing' => mirror' \in Seq(Task))
    <3>1. tasks' \in Seq(Task) /\ tasks' \in Seq(Task \union {UnknownRow})
      BY <2>2 DEF ModelInv, StoreInv, StoreTypeOK
    <3> QED
      BY <2>2, <3>1 DEF ModelInv, MirrorInv
  <2> QED
    BY <1>1, <2>1, <2>2, <2>3, SamplesTaken DEF BoardTypes
<1>2. CASE UNCHANGED vars
  <2>1. UNCHANGED <<allVars, mirror, announcing, session, samplesLeft>>
    BY <1>2 DEF vars, allVars, modelVars, boardVars
  <2>2. NoticeInv'
    <3>1. UNCHANGED counts
      BY <2>1 DEF allVars, storeVars, counts, openCount, doneCount, OpenRows
    <3> QED
      BY <2>1, <3>1 DEF allVars, fileVars, modelVars, BoardTypes, NoticeInv, FileTypeOK,
                        FileContents
  <2> QED
    BY <2>1, <2>2 DEF BoardTypes
<1> QED
  BY <1>1, <1>2, BoundaryTypes DEF Next, Over

LEMMA BoardTypesInductive == Spec => [](BoardInv /\ BoardTypes)
<1>1. Init => BoardTypes
  <2> SUFFICES ASSUME Init PROVE BoardTypes
    OBVIOUS
  <2>1. NoticeInv
    BY NoticeInitInv DEF Init, ListInit
  <2>2. mirror = <<>> /\ samplesLeft = <<>> /\ session = "loading"
    BY DEF Init, ModelInit
  <2>3. mirror \in Seq(Task) /\ mirror \in Seq(Task \union {UnknownRow})
    BY <2>2
  <2> QED
    BY <2>1, <2>2, <2>3 DEF BoardTypes
<1>2. BoardInv /\ BoardTypes /\ [Next]_vars => BoardTypes'
  BY BoardTypesNext
<1> QED
  BY <1>1, <1>2, BoardInvInductive, PTL DEF Spec

(* Through all the sessions the model, its file and the samples hold what  *)
(* they are meant to hold, and samples wait exactly while they are being   *)
(* added (Main.qml; TaskListModel.cpp:294-324).                            *)
THEOREM BoardTypeCorrect == Spec => []BoardTypeOK
<1>1. BoardInv /\ BoardTypes => BoardTypeOK
  <2> SUFFICES ASSUME BoardInv, BoardTypes PROVE BoardTypeOK
    OBVIOUS
  <2>1. StoreTypeOK
    BY DEF BoardInv, StoreInv
  <2>2. shown \in [count: Nat, open: Int, done: Int]
    <3>1. Len(tasks) \in Nat /\ openCount \in Int /\ doneCount \in Int
      <4>1. Len(tasks) \in Nat /\ openCount \in Nat /\ doneCount \in Nat
        BY <2>1, CountsAddUp
      <4> QED
        BY <4>1
    <3>2. shown = [count |-> Len(tasks), open |-> openCount, done |-> doneCount]
      BY DEF BoardTypes, NoticeInv, counts
    <3> QED
      BY <3>1, <3>2
  <2>3. ModelTypeOK
    BY <2>1, <2>2 DEF BoardTypes, NoticeInv, ModelTypeOK
  <2>4. samplesLeft \in Seq(Bodies)
    <3>1. samplesLeft \in Seq(Bodies \ Blank)
      BY DEF BoardInv
    <3> QED
      BY <3>1
  <2> QED
    BY <2>3, <2>4 DEF BoardTypes, BoardInv, BoardTypeOK
<1> QED
  BY <1>1, BoardTypesInductive, PTL
-----------------------------------------------------------------------------
(* That the board serves the vault: the file is only ever the whole board. *)
(* The file that is on its way holds the board as it is, since nothing     *)
(* changes the list during a save; and every body in the file is one that  *)
(* reads back as itself, whoever wrote the file.                           *)
AsRead(doc) ==
  \A i \in DOMAIN doc.tasks : Written[doc.tasks[i].body] = doc.tasks[i].body

(* What is under way to the file: nothing yet, or the board as it is.      *)
(* Edits wait until a save is over.                                        *)
SavingInv ==
  /\ savePc = "writing" => temporary = NotATaskFile
  /\ savePc = "committing" /\ temporary \in Document => temporary = toJson

(* Together with it: a session that is about to load knows nothing, and    *)
(* the file, when it is one, holds bodies as they read back.               *)
VaultInv ==
  /\ SavingInv
  /\ ~Running => savePc = "idle"
  /\ session = "loading" => tasks = <<>> /\ nextId = 1
  /\ disk \in Document => AsRead(disk)

(* The board is written as it would be read. *)
LEMMA JsonAsRead ==
  ASSUME StoreInv
  PROVE  AsRead(toJson)
<1>1. \A i \in DOMAIN tasks :
        LET row == [tasks[i] EXCEPT !.body = Written[@]] IN Written[row.body] = row.body
  BY RowType, BodyAssumption DEF StoreInv, Task
<1> QED
  BY <1>1 DEF AsRead, toJson

(* The file changes in one step, to the board of that moment. *)
LEMMA SavingNext ==
  ASSUME ModelInv, SavingInv, Commands \/ Save \/ SaveStep \/ TimerElapses
  PROVE  SavingInv' /\ (disk' # disk => disk' = toJson /\ UNCHANGED storeVars)
<1>1. CASE Commands /\ ~TakeRowBack
  <2>1. savePc' = "idle" /\ disk' = disk
    BY <1>1 DEF Commands, RowCommand, AddTask, UpdateTask, SetData, RemoveTask, ToggleDone,
                ClearCompleted, Load, loadFromFile, Changed, Refused, Free, fileVars
  <2> QED
    BY <2>1 DEF SavingInv
<1>2. CASE TakeRowBack \/ TimerElapses
  BY <1>2 DEF TakeRowBack, TimerElapses, SavingInv, toJson, storeVars, fileVars
<1>3. CASE Save
  BY <1>3 DEF Save, OpenSave, SaveFailed, SaveFails, SavingInv
<1>4. CASE SaveStep
  <2>1. toJson' = toJson /\ UNCHANGED storeVars
    BY <1>4 DEF SaveStep, toJson, storeVars
  <2> QED
    BY <1>4, <2>1, DocumentAssumption
       DEF SaveStep, WriteSave, CommitSave, SaveFailed, SaveFails, SavingInv
<1> QED
  BY <1>1, <1>2, <1>3, <1>4

(* The steps of a session, as steps of the list model.                     *)
LEMMA SessionModel ==
  ASSUME BoardInv,
         \/ \E ok \in BOOLEAN : StartUp(ok)
         \/ \E now \in Times : AddSample(now)
         \/ UserEdit \/ TakeBack \/ Timer \/ Saving
  PROVE  Commands \/ Save \/ SaveStep \/ TimerElapses
<1>1. CASE \E now \in Times : AddSample(now)
  <2>1. samplesLeft \in Seq(Bodies \ Blank) /\ samplesLeft # <<>>
    BY <1>1 DEF AddSample, BoardInv
  <2>2. Head(samplesLeft) \in Bodies
    BY <2>1
  <2> QED
    BY <1>1, <2>2 DEF AddSample, Commands
<1> QED
  BY <1>1 DEF StartUp, UserEdit, TakeBack, Timer, TimerFires, Saving, Commands, RowCommand

(* Every step keeps both. *)
LEMMA VaultInvNext ==
  ASSUME BoardInv, VaultInv, [Next]_vars
  PROVE  VaultInv'
<1>1. CASE \/ \E ok \in BOOLEAN : StartUp(ok)
           \/ \E now \in Times : AddSample(now)
           \/ UserEdit \/ TakeBack \/ Timer \/ Saving
  <2>1. ModelInv /\ session' \in {"sampling", "up"}
    BY <1>1, SessionSteps
  <2>2. SavingInv' /\ (disk' # disk => disk' = toJson)
    BY <1>1, <2>1, SessionModel, SavingNext DEF VaultInv
  <2>3. disk' \in Document => AsRead(disk')
    BY <2>1, <2>2, JsonAsRead DEF VaultInv, ModelInv
  <2> QED
    BY <2>1, <2>2, <2>3 DEF VaultInv, Running
<1>2. CASE Close
  BY <1>2 DEF Close, Free, VaultInv, SavingInv, Running, toJson, storeVars, fileVars
<1>3. CASE Crash
  BY <1>3 DEF Crash, FileCrash, VaultInv, SavingInv, Running
<1>4. CASE Restart
  BY <1>4 DEF Restart, VaultInv, SavingInv, Running, fileVars
<1>5. CASE UNCHANGED vars
  BY <1>5 DEF vars, allVars, storeVars, fileVars, boardVars, VaultInv, SavingInv, Running, toJson
<1> QED
  BY <1>1, <1>2, <1>3, <1>4, <1>5 DEF Next, Over

(* They hold at the start. *)
LEMMA VaultInvInit == Init => VaultInv
<1> SUFFICES ASSUME Init PROVE VaultInv
  OBVIOUS
<1>1. disk \in Document => AsRead(disk)
  BY DocumentAssumption, FileAssumption DEF Init, FileInit, AsRead
<1> QED
  BY <1>1 DEF Init, StoreInit, FileInit, VaultInv, SavingInv, Running

-----------------------------------------------------------------------------
(* The board of a session, as the file would hold it, is sound, and its    *)
(* counter is the store's.                                                 *)
SoundDocuments == {doc \in Document : SoundFile(doc)}

(* What TaskVault asks of a board. *)
BoardOK ==
  /\ toJson \in SoundDocuments
  /\ toJson.nextId = nextId
  /\ toJson # Missing

(* The store's invariant gives it, *)
LEMMA BoardIsSound == StoreInv => BoardOK
<1> SUFFICES ASSUME StoreInv PROVE BoardOK
  OBVIOUS
<1>1. Sound(toJson) /\ DistinctIds(toJson)
  BY JsonSound, JsonType
<1>2. toJson.nextId = nextId
  BY DEF toJson
<1> QED
  BY <1>1, <1>2, FileAssumption DEF Sound, DistinctIds, SoundFile, SoundDocuments, BoardOK

(* and after a step. *)
LEMMA NextBoardIsSound == StoreInv' => BoardOK'
<1>1. StoreInv => BoardOK
  BY BoardIsSound
<1> QED
  BY <1>1, PTL

-----------------------------------------------------------------------------
(* Loading a file without rows whose counter is no good starts over at 1.  *)
LEMMA LoadEmpty ==
  ASSUME NEW doc \in Document, doc.tasks = <<>>, doc.nextId <= 0, loadFromJson(doc)
  PROVE  tasks' = <<>> /\ nextId' = 1
<1> DEFINE S == {i \in DOMAIN doc.tasks : doc.tasks[i].body \notin Blank}
           parsed(f) == [i \in DOMAIN f |-> doc.tasks[f[i]]]
           lowest(f) == {1, doc.nextId} \union {parsed(f)[i].id + 1 : i \in DOMAIN parsed(f)}
           idless(f, k) == Cardinality({j \in 1 .. k : parsed(f)[j].id <= 0})
<1>1. PICK f \in Enumerations(S) :
        \E first \in lowest(f) :
          /\ \A n \in lowest(f) : n <= first
          /\ tasks' = [i \in DOMAIN parsed(f) |->
                         IF parsed(f)[i].id > 0 THEN parsed(f)[i]
                         ELSE [parsed(f)[i] EXCEPT !.id = first + idless(f, i - 1)]]
          /\ nextId' = first + idless(f, Len(parsed(f)))
  BY DEF loadFromJson
<1>2. S = {} /\ Cardinality(S) = 0
  BY FS_EmptySet
<1>3. DOMAIN f = {} /\ DOMAIN parsed(f) = {}
  BY <1>2 DEF Enumerations
<1>4. parsed(f) = <<>>
  BY <1>3
<1>5. PICK first \in lowest(f) :
        /\ \A n \in lowest(f) : n <= first
        /\ tasks' = [i \in DOMAIN parsed(f) |->
                       IF parsed(f)[i].id > 0 THEN parsed(f)[i]
                       ELSE [parsed(f)[i] EXCEPT !.id = first + idless(f, i - 1)]]
        /\ nextId' = first + idless(f, Len(parsed(f)))
  BY <1>1
<1>6. first = 1
  <2>1. lowest(f) = {1, doc.nextId} /\ doc.nextId \in Int
    BY <1>3 DEF Document
  <2>2. first \in {1, doc.nextId} /\ 1 <= first
    BY <1>5, <2>1
  <2> QED
    BY <2>1, <2>2
<1>7. idless(f, Len(parsed(f))) = 0
  <2>1. Len(parsed(f)) = 0
    BY <1>4
  <2>2. {j \in 1 .. Len(parsed(f)) : parsed(f)[j].id <= 0} = {}
    BY <2>1
  <2> QED
    BY <2>2, FS_EmptySet
<1>8. tasks' = <<>>
  BY <1>3, <1>5
<1> QED
  BY <1>5, <1>6, <1>7, <1>8

(* The board of no rows, and the board of rows that a file gave.           *)
LEMMA EmptyBoard ==
  ASSUME tasks' = <<>>, nextId' = 1
  PROVE  toJson' = [nextId |-> 1, tasks |-> <<>>]
<1>1. DOMAIN tasks' = {}
  BY SMT
<1>2. [i \in DOMAIN tasks' |-> [tasks'[i] EXCEPT !.body = Written[@]]] = <<>>
  BY <1>1
<1> QED
  BY <1>2 DEF toJson

(* A session that took its file as it is has the board in the file. *)
LEMMA SameBoard ==
  ASSUME NEW doc \in Document, AsRead(doc), tasks' = doc.tasks, nextId' = doc.nextId
  PROVE  toJson' = doc
<1>1. /\ doc = [nextId |-> doc.nextId, tasks |-> doc.tasks]
      /\ doc.tasks \in Seq(Task)
  BY DEF Document
<1>2. \A i \in DOMAIN doc.tasks : [doc.tasks[i] EXCEPT !.body = Written[@]] = doc.tasks[i]
  <2> SUFFICES ASSUME NEW i \in DOMAIN doc.tasks
               PROVE  [doc.tasks[i] EXCEPT !.body = Written[@]] = doc.tasks[i]
    OBVIOUS
  <2>1. doc.tasks[i] \in Task
    BY <1>1
  <2>2. Written[doc.tasks[i].body] = doc.tasks[i].body
    BY DEF AsRead
  <2> QED
    BY <2>1, <2>2 DEF Task
<1>3. [i \in DOMAIN doc.tasks |-> [doc.tasks[i] EXCEPT !.body = Written[@]]] = doc.tasks
  BY <1>1, <1>2
<1> QED
  BY <1>1, <1>3 DEF toJson

(* A session starts from the file as it is, from nothing, or from what     *)
(* loading makes of a file that is not sound.                              *)
LEMMA StartUpOpens ==
  ASSUME BoardInv, VaultInv, BoardInv', NEW ok \in BOOLEAN, StartUp(ok)
  PROVE  Vault!Open
<1>1. /\ session = "loading" /\ session' \in {"sampling", "up"}
      /\ loadFromFile(ok) /\ disk' = disk
      /\ tasks = <<>> /\ nextId = 1
  BY DEF StartUp, Load, loadFromFile, fileVars, VaultInv
<1>2. \/ toJson' = [nextId |-> 1, tasks |-> <<>>]
      \/ disk \in Document /\ toJson' = disk
      \/ disk \in Document \ SoundDocuments /\ toJson' \in SoundDocuments
  <2>1. CASE clear \/ UNCHANGED storeVars
    BY <1>1, <2>1, EmptyBoard DEF clear, storeVars
  <2>2. CASE disk \in Document /\ loadFromJson(disk)
    <3>1. AsRead(disk) /\ DistinctIds(disk)
      BY <2>2 DEF VaultInv, BoardInv, FileInv
    <3>2. CASE ~SoundFile(disk)
      <4>1. toJson' \in SoundDocuments
        <5>1. BoardOK'
          BY NextBoardIsSound DEF BoardInv
        <5> QED
          BY <5>1 DEF BoardOK, SoundDocuments, SoundFile
      <4> QED
        BY <2>2, <3>2, <4>1 DEF SoundDocuments
    <3>3. CASE SoundFile(disk) /\ disk.nextId > 0
      <4>1. Sound(disk)
        BY <2>2, <3>3 DEF Sound, SoundFile
      <4>2. tasks' = disk.tasks /\ nextId' = disk.nextId
        BY <2>2, <3>1, <4>1, LoadSound
      <4> QED
        BY <2>2, <3>1, <4>2, SameBoard
    <3>4. CASE SoundFile(disk) /\ ~(disk.nextId > 0)
      <4>1. disk.tasks \in Seq(Task) /\ disk.nextId \in Int
        BY <2>2 DEF Document
      <4> DEFINE rows == disk.tasks
      <4>2. \A i \in DOMAIN rows : rows[i].id \in Int
        <5> HIDE DEF rows
        <5>1. rows \in Seq(Task)
          BY <4>1 DEF rows
        <5>2. \A i \in DOMAIN rows : rows[i] \in Task
          BY <5>1
        <5> QED
          BY <5>2 DEF Task
      <4>3. DOMAIN rows = {}
        BY <3>4, <4>1, <4>2 DEF SoundFile
      <4>4. disk.tasks = <<>>
        <5> HIDE DEF rows
        <5>1. rows \in Seq(Task)
          BY <4>1 DEF rows
        <5>2. rows = <<>>
          BY <4>3, <5>1
        <5> QED
          BY <5>2 DEF rows
      <4> QED
        BY <2>2, <3>4, <4>1, <4>4, LoadEmpty, EmptyBoard
    <3> QED
      BY <3>2, <3>3, <3>4
  <2> QED
    BY <1>1, <2>1, <2>2 DEF loadFromFile
<1> QED
  BY <1>1, <1>2 DEF Vault!Open, Boards, SoundDocuments

(* Within a session the counter never goes back.                           *)
LEMMA SessionCounter ==
  ASSUME BoardInv,
         \/ \E now \in Times : AddSample(now)
         \/ UserEdit \/ TakeBack \/ Timer \/ Saving
  PROVE  nextId' >= nextId
<1>1. StoreInv /\ nextId \in Nat
  BY DEF BoardInv, StoreInv, StoreTypeOK
<1>2. ASSUME NEW body \in Bodies, NEW now \in Times, AddTask(body, now)
      PROVE  nextId' \in {nextId, nextId + 1}
  <2> DEFINE task == [id |-> 0, body |-> body, done |-> FALSE, createdAt |-> NoTime]
  <2>1. task \in Task /\ addTask(task, now)
    BY <1>2 DEF AddTask, Task
  <2> QED
    BY <1>1, <2>1, AddInv
<1>3. CASE \E now \in Times : AddSample(now)
  <2>1. samplesLeft \in Seq(Bodies \ Blank) /\ samplesLeft # <<>>
    BY <1>3 DEF AddSample, BoardInv
  <2>2. Head(samplesLeft) \in Bodies
    BY <2>1
  <2> QED
    BY <1>1, <1>2, <1>3, <2>2 DEF AddSample
<1>4. CASE UserEdit
  <2>1. CASE nextId <= LastId /\ \E body \in Bodies, now \in Times : AddTask(body, now)
    BY <1>1, <1>2, <2>1
  <2>2. CASE \E row \in DOMAIN tasks, body \in Bodies \ Blank : UpdateTask(row, body)
    <3>1. PICK row \in DOMAIN tasks, body \in Bodies \ Blank : UpdateTask(row, body)
      BY <2>2
    <3>2. updateTask(tasks[row].id, [tasks[row] EXCEPT !.body = body])
      BY <3>1 DEF UpdateTask
    <3>3. UNCHANGED nextId
      BY <3>2 DEF updateTask, storeVars
    <3> QED
      BY <1>1, <3>3
  <2>3. CASE \E row \in DOMAIN tasks : ToggleDone(row) \/ RemoveTask(row)
    BY <1>1, <2>3 DEF ToggleDone, setDone, RemoveTask, removeTask, storeVars
  <2>4. CASE ClearCompleted
    BY <1>1, <2>4 DEF ClearCompleted, removeCompleted
  <2> QED
    BY <1>4, <2>1, <2>2, <2>3, <2>4 DEF UserEdit
<1>5. CASE TakeBack \/ Timer \/ Saving
  <2>1. UNCHANGED storeVars
    BY <1>5 DEF TakeBack, TakeRowBack, Timer, TimerElapses, TimerFires, Save, Saving, SaveStep
  <2> QED
    BY <1>1, <2>1 DEF storeVars
<1> QED
  BY <1>3, <1>4, <1>5

(* Every other step of a session edits the board, or stores it whole.      *)
LEMMA SessionServes ==
  ASSUME BoardInv, VaultInv, BoardInv',
         \/ \E now \in Times : AddSample(now)
         \/ UserEdit \/ TakeBack \/ Timer \/ Saving
  PROVE  Vault!Modify \/ Vault!Store
<1>1. session \in {"sampling", "up"} /\ session' \in {"sampling", "up"}
  BY SessionSteps DEF AddSample, UserEdit, TakeBack, Timer, Saving
<1>2. toJson \in SoundDocuments /\ toJson.nextId = nextId /\ toJson # Missing
  BY BoardIsSound DEF BoardInv, BoardOK
<1>3. toJson' \in SoundDocuments /\ toJson'.nextId = nextId'
  <2>1. BoardOK'
    BY NextBoardIsSound DEF BoardInv
  <2> QED
    BY <2>1 DEF BoardOK, SoundDocuments, SoundFile
<1>4. CASE disk' = disk
  <2>1. nextId' >= nextId
    BY SessionCounter
  <2> QED
    BY <1>1, <1>2, <1>3, <1>4, <2>1 DEF Vault!Modify, SoundDocuments
<1>5. CASE disk' # disk
  <2>1. ModelInv /\ SavingInv
    BY SessionSteps DEF VaultInv
  <2>2. disk' = toJson /\ UNCHANGED storeVars
    BY <1>5, <2>1, SessionModel, SavingNext
  <2>3. toJson' = toJson
    BY <2>2 DEF toJson, storeVars
  <2> QED
    BY <1>1, <1>2, <2>2, <2>3 DEF Vault!Store
<1> QED
  BY <1>4, <1>5

(* Closing, a crash and a new session. *)
LEMMA BoundaryServes ==
  ASSUME BoardInv, Close \/ Crash \/ Restart
  PROVE  Vault!End \/ UNCHANGED Vault!vaultVars
<1>1. disk' = disk
  BY DEF Close, Crash, FileCrash, Restart, fileVars
<1>2. session' \in {"closed", "crashed", "loading"}
  BY DEF Close, Crash, Restart
<1>3. toJson # Missing
  BY BoardIsSound DEF BoardInv, BoardOK
<1>4. CASE session \in {"sampling", "up"}
  BY <1>1, <1>2, <1>3, <1>4 DEF Vault!End
<1>5. CASE session \notin {"sampling", "up"}
  BY <1>1, <1>2, <1>5 DEF Vault!vaultVars
<1> QED
  BY <1>4, <1>5

(* Through any number of sessions, wherever they end, the file is replaced *)
(* only as a whole, by the board as it is at that moment, and a session    *)
(* opens with what was saved (TaskStore.cpp:124-204; AboutPage.qml:57-59). *)
THEOREM BoardServesVault == Spec => ImplementsVault
<1>1. Init => Vault!VaultInit
  BY DocumentAssumption DEF Init, FileInit, Vault!VaultInit, Boards
<1>2. BoardInv /\ VaultInv /\ BoardInv' /\ [Next]_vars => [Vault!VaultNext]_(Vault!vaultVars)
  <2> SUFFICES ASSUME BoardInv, VaultInv, BoardInv', [Next]_vars
               PROVE  Vault!VaultNext \/ UNCHANGED Vault!vaultVars
    OBVIOUS
  <2>1. CASE UNCHANGED vars
    <3>1. toJson' = toJson /\ disk' = disk /\ session' = session
      BY <2>1 DEF vars, allVars, storeVars, fileVars, boardVars, toJson
    <3> QED
      BY <3>1 DEF Vault!vaultVars
  <2> QED
    BY <2>1, StartUpOpens, SessionServes, BoundaryServes DEF Next, Over, Vault!VaultNext
<1>3. Init => VaultInv
  BY VaultInvInit
<1>4. BoardInv /\ VaultInv /\ [Next]_vars => VaultInv'
  BY VaultInvNext
<1> QED
  BY <1>1, <1>2, <1>3, <1>4, BoardInvInductive, PTL DEF Spec, ImplementsVault, Vault!VaultSpec
=============================================================================
