-------------------------- MODULE TaskClockProofs --------------------------
(***************************************************************************)
(* Theorems about due dates and the clock, for every list, calendar and    *)
(* sequence of commands. What was read stays an answer of the model for    *)
(* the same reason as in TaskListProofs: the row a command announces is    *)
(* the row it changed. An edit keeps the day only because the dialog holds *)
(* the date of the row it will save, and that needs it to be modal. The    *)
(* types are ClockInv and the list model's NoticeInv together.             *)
(***************************************************************************)
EXTENDS TaskClock, TaskListProofs

(* What was read is what the model would have answered at some moment. *)
WasAnswer(read, task, until) == \E moment \in 0 .. until : read = data(task, moment)

(* All that the model can answer. *)
Answers == {data(task, moment) : task \in Task, moment \in Nat}

(* Every row shows such an answer, for its task as it is now. *)
DrawnInv ==
  /\ drawn \in Seq(Answers)
  /\ Len(drawn) = Len(tasks)
  /\ \A i \in DOMAIN tasks : WasAnswer(drawn[i], tasks[i], now)

(* The footer shows a count that was true of the list as it is now. *)
FooterInv == \E moment \in 0 .. now : overdueShown = overdueCount(tasks, moment)

(* The open dialog holds the due date of its row until somebody types.     *)
DialogInv ==
  dialog # NotOpen =>
    /\ dialog \in Dialog
    /\ loaded /\ samplesLeft = <<>>
    /\ dialog.row \in DOMAIN tasks \union {0}
    /\ dialog.untouched /\ dialog.row # 0 =>
         LET due == Due[tasks[dialog.row].body] IN
           IF due = NoDue THEN ~dialog.checked ELSE dialog.checked /\ dialog.day = day(due)

(* The inductive invariant. *)
ClockInv ==
  /\ ModelInv
  /\ now \in Nat
  /\ samplesLeft \in Seq(Moments)
  /\ DrawnInv /\ FooterInv /\ DialogInv

-----------------------------------------------------------------------------
(* A label is empty without a due date only, whenever it is read.          *)
LEMMA LabelOfDate ==
  ASSUME NEW due \in Moments, NEW moment \in Nat
  PROVE  humanDueDate(due, moment) = <<>> <=> due = NoDue
BY DEF humanDueDate, Moments

(* Once overdue, always overdue. *)
LEMMA OverdueStays ==
  ASSUME NEW task \in Task, NEW later \in Nat, NEW moment \in 0 .. later, isOverdue(task, moment)
  PROVE  isOverdue(task, later)
<1>1. Due[task.body] \in Moments
  BY ClockAssumption DEF Task
<1> QED
  BY <1>1 DEF isOverdue, Moments

(* What is overdue stays overdue, so the count only grows with time. *)
LEMMA CountGrows ==
  ASSUME NEW rows \in Seq(Task), NEW later \in Nat, NEW moment \in 0 .. later
  PROVE  overdueCount(rows, moment) <= overdueCount(rows, later)
<1> DEFINE then == {i \in DOMAIN rows : isOverdue(rows[i], moment)}
           finally == {i \in DOMAIN rows : isOverdue(rows[i], later)}
<1>1. \A i \in DOMAIN rows : rows[i] \in Task
  OBVIOUS
<1>2. then \in SUBSET finally
  BY <1>1, OverdueStays
<1>3. IsFiniteSet(finally)
  <2>1. finally \in SUBSET (1 .. Len(rows)) /\ Len(rows) \in Nat
    OBVIOUS
  <2> QED
    BY <2>1, FS_Interval, FS_Subset
<1> QED
  BY <1>2, <1>3, FS_Subset DEF overdueCount

-----------------------------------------------------------------------------
(* What the readers know after each notification. *)

LEMMA AnswerType ==
  ASSUME NEW rows \in Seq(Task), NEW i \in DOMAIN rows, now \in Nat
  PROVE  data(rows[i], now) \in Answers /\ WasAnswer(data(rows[i], now), rows[i], now)
<1>1. rows[i] \in Task
  OBVIOUS
<1> QED
  BY <1>1 DEF Answers, WasAnswer

(* The footer reads again when it is told to. *)
LEMMA FooterRead ==
  ASSUME now \in Nat, UNCHANGED now, countsRead
  PROVE  FooterInv'
BY DEF countsRead, FooterInv

(* So do the rows, for each kind of notification: the rows it names are    *)
(* the rows that changed.                                                  *)
LEMMA InsertedRead ==
  ASSUME ModelInv, DrawnInv, now \in Nat, UNCHANGED now,
         NEW task \in Task, tasks' = Append(tasks, task), rowInserted
  PROVE  DrawnInv' /\ FooterInv'
<1>1. tasks \in Seq(Task) /\ tasks' \in Seq(Task) /\ Len(tasks') = Len(tasks) + 1
  BY DEF ModelInv, StoreInv, StoreTypeOK
<1> DEFINE answer == data(tasks'[Len(tasks) + 1], now)
<1>2. answer \in Answers /\ WasAnswer(answer, tasks'[Len(tasks) + 1], now)
  BY <1>1, AnswerType
<1>3. drawn \in Seq(Answers) /\ Len(drawn) = Len(tasks) /\ drawn' = Append(drawn, answer)
  BY DEF DrawnInv, rowInserted
<1> HIDE DEF answer
<1>4. drawn' \in Seq(Answers) /\ Len(drawn') = Len(tasks')
  BY <1>1, <1>2, <1>3
<1>5. \A i \in DOMAIN tasks' : WasAnswer(drawn'[i], tasks'[i], now)
  <2>1. \A i \in DOMAIN tasks : drawn'[i] = drawn[i] /\ tasks'[i] = tasks[i]
    BY <1>1, <1>3
  <2>2. drawn'[Len(tasks) + 1] = answer
    BY <1>1, <1>3
  <2>3. DOMAIN tasks' = DOMAIN tasks \union {Len(tasks) + 1}
    BY <1>1
  <2> QED
    BY <1>2, <2>1, <2>2, <2>3 DEF DrawnInv
<1> QED
  BY <1>4, <1>5, FooterRead DEF DrawnInv, rowInserted, WasAnswer

LEMMA ChangedRead ==
  ASSUME DrawnInv, now \in Nat, UNCHANGED now, NEW row \in DOMAIN tasks,
         tasks \in Seq(Task), tasks' \in Seq(Task), DOMAIN tasks' = DOMAIN tasks,
         \A i \in DOMAIN tasks : i # row => tasks'[i] = tasks[i],
         rowChanged(row)
  PROVE  DrawnInv' /\ FooterInv'
<1> DEFINE answer == data(tasks'[row], now)
<1>1. answer \in Answers /\ WasAnswer(answer, tasks'[row], now)
  BY AnswerType
<1>2. drawn \in Seq(Answers) /\ Len(drawn) = Len(tasks) /\ Len(tasks') = Len(tasks)
  BY DEF DrawnInv
<1>3. drawn' = [drawn EXCEPT ![row] = answer]
  BY DEF rowChanged
<1> HIDE DEF answer
<1>4. drawn' \in Seq(Answers) /\ Len(drawn') = Len(tasks')
  BY <1>1, <1>2, <1>3
<1>5. \A i \in DOMAIN tasks' : WasAnswer(drawn'[i], tasks'[i], now)
  <2>1. \A i \in DOMAIN tasks : drawn'[i] = IF i = row THEN answer ELSE drawn[i]
    BY <1>2, <1>3
  <2> QED
    BY <1>1, <2>1 DEF DrawnInv
<1> QED
  BY <1>4, <1>5, FooterRead DEF DrawnInv, rowChanged, WasAnswer

LEMMA RemovedRead ==
  ASSUME ModelInv, DrawnInv, now \in Nat, UNCHANGED now,
         NEW row \in DOMAIN tasks, tasks' = Without(tasks, row), rowRemoved(row)
  PROVE  DrawnInv' /\ FooterInv'
<1> DEFINE from(i) == IF i < row THEN i ELSE i + 1
<1>1. tasks \in Seq(Task) /\ drawn \in Seq(Answers) /\ Len(drawn) = Len(tasks)
      /\ row \in 1 .. Len(tasks)
  BY DEF ModelInv, StoreInv, StoreTypeOK, DrawnInv
<1>2. /\ tasks' \in Seq(Task) /\ Len(tasks') = Len(tasks) - 1
      /\ \A i \in 1 .. Len(tasks) - 1 : tasks'[i] = tasks[from(i)]
  BY <1>1, WithoutType
<1>3. /\ drawn' \in Seq(Answers) /\ Len(drawn') = Len(drawn) - 1
      /\ \A i \in 1 .. Len(drawn) - 1 : drawn'[i] = drawn[from(i)]
  BY <1>1, WithoutType DEF rowRemoved
<1>4. \A i \in 1 .. Len(tasks) - 1 : from(i) \in DOMAIN tasks
  BY <1>1
<1>5. \A i \in DOMAIN tasks' : WasAnswer(drawn'[i], tasks'[i], now)
  <2>1. DOMAIN tasks' = 1 .. Len(tasks) - 1
    BY <1>1, <1>2
  <2> HIDE DEF from
  <2> QED
    BY <1>1, <1>2, <1>3, <1>4, <2>1 DEF DrawnInv
<1> QED
  BY <1>1, <1>2, <1>3, <1>5, FooterRead DEF DrawnInv, rowRemoved, WasAnswer

LEMMA ResetRead ==
  ASSUME now \in Nat, UNCHANGED now, tasks' \in Seq(Task), allReset
  PROVE  DrawnInv' /\ FooterInv'
<1>1. \A i \in DOMAIN tasks' : data(tasks'[i], now) \in Answers
                             /\ WasAnswer(data(tasks'[i], now), tasks'[i], now)
  BY AnswerType
<1>2. drawn' = [i \in 1 .. Len(tasks') |-> data(tasks'[i], now)] /\ Len(tasks') \in Nat
      /\ DOMAIN tasks' = 1 .. Len(tasks')
  BY DEF allReset
<1>3. drawn' \in Seq(Answers) /\ Len(drawn') = Len(tasks')
  BY <1>1, <1>2
<1>4. \A i \in DOMAIN tasks' : WasAnswer(drawn'[i], tasks'[i], now)
  BY <1>1, <1>2
<1> QED
  BY <1>3, <1>4, FooterRead DEF DrawnInv, allReset, WasAnswer

-----------------------------------------------------------------------------
(* The rows after each command. *)

LEMMA AddedTask ==
  ASSUME ModelInv, NEW body \in Bodies, NEW createdAt \in Times, AddTask(body, createdAt)
  PROVE  IF body \in Blank THEN UNCHANGED tasks
                           ELSE \E task \in Task : tasks' = Append(tasks, task)
<1> DEFINE given == [id |-> 0, body |-> body, done |-> FALSE, createdAt |-> NoTime]
           stored == [id |-> nextId, body |-> Trimmed[body], done |-> FALSE,
                      createdAt |-> createdAt]
<1>1. addTask(given, createdAt)
  BY DEF AddTask
<1>2. given.body = body /\ given.done = FALSE /\ given.createdAt = NoTime
  OBVIOUS
<1>3. stored \in Task
  BY BodyAssumption DEF ModelInv, StoreInv, StoreTypeOK, Task
<1> QED
  BY <1>1, <1>2, <1>3 DEF addTask, storeVars

(* The other rows stay, and the updated one has the body it was given.     *)
LEMMA UpdatedTask ==
  ASSUME ModelInv, NEW row \in DOMAIN tasks, NEW body \in Bodies, UpdateTask(row, body)
  PROVE  IF body \in Blank THEN UNCHANGED tasks
         ELSE /\ DOMAIN tasks' = DOMAIN tasks
              /\ \A i \in DOMAIN tasks : i # row => tasks'[i] = tasks[i]
              /\ tasks'[row].body = Trimmed[body]
<1>1. tasks \in Seq(Task) /\ indexOfId(tasks[row].id) = {row} /\ tasks[row] \in Task
  BY IndexOfRow, RowType DEF ModelInv, StoreInv, StoreTypeOK
<1> DEFINE given == [tasks[row] EXCEPT !.body = body]
<1>2. given.body = body
  BY <1>1 DEF Task
<1>3. updateTask(tasks[row].id, given)
  BY DEF UpdateTask
<1> HIDE DEF given
<1>4. CASE body \in Blank
  BY <1>2, <1>3, <1>4 DEF updateTask, storeVars
<1>5. CASE body \notin Blank
  <2>1. tasks' = [tasks EXCEPT ![row].body = Trimmed[given.body], ![row].done = given.done]
    BY <1>1, <1>2, <1>3, <1>5 DEF updateTask, storeVars
  <2>2. tasks'[row].body = Trimmed[body]
    BY <1>1, <1>2, <2>1 DEF Task
  <2> QED
    BY <1>1, <1>5, <2>1, <2>2
<1> QED
  BY <1>4, <1>5

(* The row that is announced is the row that changed. *)
LEMMA ToggledTask ==
  ASSUME ModelInv, NEW row \in DOMAIN tasks, ToggleDone(row)
  PROVE  DOMAIN tasks' = DOMAIN tasks /\ \A i \in DOMAIN tasks : i # row => tasks'[i] = tasks[i]
<1>1. tasks \in Seq(Task) /\ indexOfId(tasks[row].id) = {row}
  BY IndexOfRow DEF ModelInv, StoreInv, StoreTypeOK
<1> QED
  BY <1>1 DEF ToggleDone, setDone, storeVars

-----------------------------------------------------------------------------
(* The steps. *)

LEMMA ClockInitInv == ClockInit => ClockInv
<1> SUFFICES ASSUME ClockInit PROVE ClockInv
  OBVIOUS
<1>1. ModelInv
  BY ModelInitInv DEF ClockInit, ListInit
<1>2. tasks = <<>> /\ drawn = <<>> /\ now = 0 /\ overdueShown = 0 /\ dialog = NotOpen
      /\ samplesLeft = <<>>
  BY DEF ClockInit, ListInit, StoreInit
<1>3. overdueCount(<<>>, 0) = 0
  <2>1. {i \in DOMAIN <<>> : isOverdue(<<>>[i], 0)} = {}
    OBVIOUS
  <2> QED
    BY <2>1, FS_EmptySet DEF overdueCount
<1> QED
  BY <1>1, <1>2, <1>3 DEF ClockInv, DrawnInv, FooterInv, DialogInv

(* One lemma per step: time passes and nobody is told. *)
LEMMA TickInv ==
  ASSUME ClockInv, Tick
  PROVE  ClockInv'
<1>1. ModelInv'
  BY ModelStutterInv DEF ClockInv, Tick
<1>2. now \in Nat /\ now' = now + 1 /\ 0 .. now \subseteq 0 .. now'
  BY DEF ClockInv, Tick
<1>3. UNCHANGED <<tasks, overdueShown, drawn, dialog, loaded, samplesLeft>>
  BY DEF Tick, allVars, storeVars, readVars, startVars
<1>4. DrawnInv' /\ FooterInv'
  BY <1>2, <1>3 DEF ClockInv, DrawnInv, FooterInv, WasAnswer
<1> QED
  BY <1>1, <1>2, <1>3, <1>4 DEF ClockInv, DialogInv

LEMMA RedrawInv ==
  ASSUME ClockInv, NEW row \in DOMAIN tasks, Redraw(row)
  PROVE  ClockInv'
<1>1. ModelInv' /\ tasks \in Seq(Task) /\ UNCHANGED tasks
  BY ModelStutterInv DEF ClockInv, Redraw, ModelInv, StoreInv, StoreTypeOK, allVars, storeVars
<1> DEFINE answer == data(tasks[row], now)
<1>2. answer \in Answers /\ WasAnswer(answer, tasks[row], now)
  BY <1>1, AnswerType DEF ClockInv
<1>3. drawn' = [drawn EXCEPT ![row] = answer] /\ UNCHANGED <<now, overdueShown, dialog, startVars>>
  BY DEF Redraw
<1> HIDE DEF answer
<1>4. drawn' \in Seq(Answers) /\ Len(drawn') = Len(tasks)
  BY <1>2, <1>3 DEF ClockInv, DrawnInv
<1>5. \A i \in DOMAIN tasks : drawn'[i] = IF i = row THEN answer ELSE drawn[i]
  BY <1>1, <1>3 DEF ClockInv, DrawnInv
<1>6. DrawnInv' /\ FooterInv'
  BY <1>1, <1>2, <1>3, <1>4, <1>5 DEF ClockInv, DrawnInv, FooterInv, WasAnswer
<1> QED
  BY <1>1, <1>3, <1>6 DEF ClockInv, DialogInv, startVars

(* A task that was added, or refused: nothing that was read becomes wrong. *)
LEMMA AddDatedInv ==
  ASSUME ClockInv, NEW body \in Bodies, AddDated(body), UNCHANGED now
  PROVE  ModelInv' /\ DrawnInv' /\ FooterInv'
<1>1. PICK createdAt \in Times : AddTask(body, createdAt)
  BY DEF AddDated
<1>2. ModelInv' /\ now \in Nat
  BY <1>1, AddTaskInv DEF ClockInv
<1>3. CASE body \in Blank
  <2>1. UNCHANGED <<tasks, drawn, overdueShown, now>>
    BY <1>1, <1>3, AddedTask DEF ClockInv, AddDated, readVars
  <2> QED
    BY <1>2, <2>1 DEF ClockInv, DrawnInv, FooterInv, WasAnswer
<1>4. CASE body \notin Blank
  <2>1. PICK task \in Task : tasks' = Append(tasks, task)
    BY <1>1, <1>4, AddedTask DEF ClockInv
  <2> QED
    BY <1>2, <1>4, <2>1, InsertedRead DEF ClockInv, AddDated
<1> QED
  BY <1>3, <1>4

LEMMA StartUpDates ==
  ASSUME ClockInv, NEW ok \in BOOLEAN, StartUp(ok)
  PROVE  ClockInv'
<1>1. ModelInv' /\ tasks' \in Seq(Task)
  BY LoadFileInv DEF ClockInv, StartUp, ModelInv, StoreInv, StoreTypeOK
<1>2. DrawnInv' /\ FooterInv' /\ UNCHANGED <<now, dialog>>
  BY <1>1, ResetRead DEF ClockInv, StartUp
<1>3. samplesLeft' \in Seq(Moments)
  <2>1. CASE Len(tasks') # 0
    BY <2>1 DEF StartUp
  <2>2. CASE Len(tasks') = 0
    <3>1. SampleDays \in Seq(Nat \union {NoDue}) /\ DayLength \in Nat /\ now \in Nat
      BY ClockAssumption DEF ClockInv
    <3> DEFINE dueIn(k) == IF SampleDays[k] = NoDue THEN NoDue
                           ELSE now + SampleDays[k] * DayLength
    <3>2. \A k \in 1 .. Len(SampleDays) : dueIn(k) \in Moments
      BY <3>1 DEF Moments
    <3>3. samplesLeft' = [k \in 1 .. Len(SampleDays) |-> dueIn(k)]
      BY <2>2, <3>1 DEF StartUp
    <3> HIDE DEF dueIn
    <3> QED
      BY <3>1, <3>2, <3>3
  <2> QED
    BY <2>1, <2>2
<1>4. DialogInv'
  BY <1>2 DEF ClockInv, DialogInv, StartUp
<1> QED
  BY <1>1, <1>2, <1>3, <1>4 DEF ClockInv

LEMMA AddSampleDates ==
  ASSUME ClockInv, AddSample
  PROVE  ClockInv'
<1>1. PICK body \in Bodies : AddDated(body)
  BY DEF AddSample, BodiesDue
<1>2. UNCHANGED <<now, dialog, loaded>> /\ samplesLeft # <<>> /\ samplesLeft' = Tail(samplesLeft)
  BY DEF AddSample
<1>3. samplesLeft' \in Seq(Moments) /\ dialog = NotOpen
  BY <1>2 DEF ClockInv, DialogInv
<1> QED
  BY <1>1, <1>2, <1>3, AddDatedInv DEF ClockInv, DialogInv

LEMMA TakeBackDates ==
  ASSUME ClockInv, TakeBack
  PROVE  ClockInv'
<1>1. ModelInv'
  BY TakeRowBackInv DEF ClockInv, TakeBack
<1>2. UNCHANGED <<tasks, now, overdueShown, drawn, dialog, loaded, samplesLeft>>
  BY DEF TakeBack, TakeRowBack, storeVars, readVars, startVars
<1> QED
  BY <1>1, <1>2 DEF ClockInv, DrawnInv, FooterInv, DialogInv, WasAnswer

LEMMA RowClickedDates ==
  ASSUME ClockInv, NEW row \in DOMAIN tasks, RowClicked(row)
  PROVE  ClockInv'
<1>1. ModelInv' /\ DrawnInv' /\ FooterInv'
  <2>1. CASE ToggleDone(row) /\ rowChanged(row)
    <3>1. ModelInv'
      BY <2>1, ToggleDoneInv DEF ClockInv
    <3>2. tasks \in Seq(Task) /\ tasks' \in Seq(Task)
      BY <3>1 DEF ClockInv, ModelInv, StoreInv, StoreTypeOK
    <3> QED
      BY <2>1, <3>1, <3>2, ToggledTask, ChangedRead DEF ClockInv, RowClicked
  <2>2. CASE RemoveTask(row) /\ rowRemoved(row)
    <3>1. indexOfId(tasks[row].id) = {row}
      BY IndexOfRow DEF ClockInv, ModelInv
    <3>2. ModelInv' /\ tasks' = Without(tasks, row)
      BY <2>2, <3>1, RemoveTaskInv DEF ClockInv, RemoveTask, removeTask
    <3> QED
      BY <2>2, <3>2, RemovedRead DEF ClockInv, RowClicked
  <2> QED
    BY <2>1, <2>2 DEF RowClicked
<1>2. UNCHANGED <<now, dialog, loaded, samplesLeft>> /\ dialog = NotOpen
  BY DEF RowClicked, Usable, startVars
<1> QED
  BY <1>1, <1>2 DEF ClockInv, DialogInv

LEMMA ClearDoneDates ==
  ASSUME ClockInv, clearDone
  PROVE  ClockInv'
<1>1. ModelInv' /\ tasks' \in Seq(Task)
  BY ClearCompletedInv DEF ClockInv, clearDone, ModelInv, StoreInv, StoreTypeOK
<1>2. UNCHANGED <<now, dialog, loaded, samplesLeft>> /\ dialog = NotOpen
  BY DEF clearDone, Usable, startVars
<1> QED
  BY <1>1, <1>2, ResetRead DEF ClockInv, DialogInv, clearDone

(* The dialog is opened, typed into or cancelled: the list stays.          *)
LEMMA ListStaysInv ==
  ASSUME ClockInv, UNCHANGED <<allVars, now, readVars, startVars>>, DialogInv'
  PROVE  ClockInv'
<1>1. ModelInv'
  BY ModelStutterInv DEF ClockInv
<1>2. UNCHANGED <<tasks, now, overdueShown, drawn, samplesLeft>>
  BY DEF allVars, storeVars, readVars, startVars
<1> QED
  BY <1>1, <1>2 DEF ClockInv, DrawnInv, FooterInv, WasAnswer

LEMMA OpenForNewDates ==
  ASSUME ClockInv, openForNew
  PROVE  ClockInv'
<1>1. dialog' \in Dialog /\ dialog'.row = 0 /\ loaded' /\ samplesLeft' = <<>>
  BY ClockAssumption DEF ClockInv, openForNew, Opened, Usable, startVars, Dialog, day
<1> QED
  BY <1>1, ListStaysInv DEF DialogInv, openForNew, Opened

LEMMA OpenForRowDates ==
  ASSUME ClockInv, NEW row \in DOMAIN tasks, openForRow(row)
  PROVE  ClockInv'
<1> DEFINE due == Due[tasks[row].body]
<1>1. due \in Moments /\ now \in Nat
  BY RowType, ClockAssumption DEF ClockInv, ModelInv, StoreInv, Task
<1>2. data(tasks[row], now).dueDateLabel # <<>> <=> due # NoDue
  BY <1>1, LabelOfDate DEF data
<1>3. /\ dialog'.row = row /\ dialog'.checked = (due # NoDue)
      /\ due # NoDue => dialog'.day = day(due)
      /\ loaded' /\ samplesLeft' = <<>> /\ UNCHANGED tasks
  BY <1>2 DEF openForRow, Opened, Usable, allVars, storeVars, startVars
<1>4. dialog' \in Dialog
  <2>1. row \in Nat /\ day(now) \in Int /\ (due # NoDue => day(due) \in Int)
    BY <1>1, RowType, ClockAssumption DEF ClockInv, ModelInv, StoreInv, Moments, day
  <2> QED
    BY <2>1, <1>2 DEF openForRow, Opened, Dialog
<1>5. DialogInv'
  BY <1>3, <1>4 DEF DialogInv, day
<1> QED
  BY <1>5, ListStaysInv DEF openForRow, Opened

LEMMA TypeDates ==
  ASSUME ClockInv, NEW checked \in BOOLEAN, NEW d \in Days \union {NoDue}, Type(checked, d)
  PROVE  ClockInv'
<1>1. /\ dialog \in Dialog /\ dialog # NotOpen
      /\ dialog' = [dialog EXCEPT !.checked = checked, !.day = d, !.untouched = FALSE]
      /\ UNCHANGED <<tasks, loaded, samplesLeft>>
  BY DEF ClockInv, DialogInv, Type, allVars, storeVars, startVars
<1>2. dialog' \in Dialog /\ dialog'.row = dialog.row /\ dialog'.untouched = FALSE
  BY <1>1 DEF Dialog
<1> QED
  BY <1>1, <1>2, ListStaysInv DEF ClockInv, DialogInv, Type

LEMMA RejectedDates ==
  ASSUME ClockInv, rejected
  PROVE  ClockInv'
BY ListStaysInv DEF rejected, DialogInv

LEMMA AcceptedNewDates ==
  ASSUME ClockInv, acceptedNew
  PROVE  ClockInv'
<1>1. PICK body \in Bodies : AddDated(body)
  BY DEF acceptedNew, BodiesDue
<1> QED
  BY <1>1, AddDatedInv DEF ClockInv, DialogInv, acceptedNew, startVars

LEMMA AcceptedRowDates ==
  ASSUME ClockInv, acceptedRow
  PROVE  ClockInv'
<1>1. PICK body \in Bodies : /\ UpdateTask(dialog.row, body)
                            /\ IF body \in Blank THEN UNCHANGED readVars ELSE rowChanged(dialog.row)
  BY DEF acceptedRow, BodiesDue
<1> DEFINE row == dialog.row
<1>2. row \in DOMAIN tasks /\ UNCHANGED <<now, loaded, samplesLeft>> /\ dialog' = NotOpen
  BY DEF acceptedRow, ClockInv, DialogInv, startVars
<1>3. ModelInv' /\ tasks \in Seq(Task) /\ tasks' \in Seq(Task)
  BY <1>1, <1>2, UpdateTaskInv DEF ClockInv, ModelInv, StoreInv, StoreTypeOK
<1>4. CASE body \in Blank
  <2>1. UNCHANGED <<tasks, overdueShown, drawn>>
    BY <1>1, <1>2, <1>4, UpdatedTask DEF ClockInv, readVars
  <2> QED
    BY <1>2, <1>3, <2>1 DEF ClockInv, DrawnInv, FooterInv, DialogInv, WasAnswer
<1>5. CASE body \notin Blank
  <2>1. DrawnInv' /\ FooterInv'
    BY <1>1, <1>2, <1>3, <1>5, UpdatedTask, ChangedRead DEF ClockInv
  <2> QED
    BY <1>2, <1>3, <2>1 DEF ClockInv, DialogInv
<1> QED
  BY <1>4, <1>5

LEMMA ClockNextInv ==
  ASSUME ClockInv, [ClockNext]_vars
  PROVE  ClockInv'
<1>1. CASE ClockNext
  BY <1>1, TickInv, StartUpDates, AddSampleDates, TakeBackDates, ClearDoneDates, RedrawInv,
     RowClickedDates, OpenForRowDates, OpenForNewDates, TypeDates, AcceptedNewDates,
     AcceptedRowDates, RejectedDates DEF ClockNext
<1>2. CASE UNCHANGED vars
  <2>1. UNCHANGED <<allVars, now, readVars, startVars>> /\ DialogInv'
    BY <1>2 DEF vars, ClockInv, DialogInv, allVars, storeVars, startVars
  <2> QED
    BY <2>1, ListStaysInv
<1> QED
  BY <1>1, <1>2

(* Hence it is inductive. *)
LEMMA ClockInvInductive == ClockSpec => []ClockInv
<1>1. ClockInit => ClockInv
  BY ClockInitInv
<1>2. ClockInv /\ [ClockNext]_vars => ClockInv'
  BY ClockNextInv
<1> QED
  BY <1>1, <1>2, PTL DEF ClockSpec

-----------------------------------------------------------------------------
(* A row shows what was true of its task, as it is now, at some moment     *)
(* since the start: whatever the commands, only the clock makes a label or *)
(* a red date wrong (TaskListModel.cpp:88-91, 370).                        *)
THEOREM RowsShowTasks == ClockSpec => []DrawnWasTrue
<1>1. ClockInv => DrawnWasTrue
  <2> SUFFICES ASSUME ClockInv, NEW i \in DOMAIN tasks
               PROVE  /\ \E moment \in 0 .. now : drawn[i] = data(tasks[i], moment)
                      /\ drawn[i].overdue => isOverdue(tasks[i], now)
                      /\ drawn[i].dueDateLabel = <<>> <=> Due[tasks[i].body] = NoDue
    BY DEF DrawnWasTrue
  <2>1. PICK moment \in 0 .. now : drawn[i] = data(tasks[i], moment)
    BY DEF ClockInv, DrawnInv, WasAnswer
  <2>2. tasks[i] \in Task /\ Due[tasks[i].body] \in Moments /\ now \in Nat
    BY RowType, ClockAssumption DEF ClockInv, ModelInv, StoreInv, Task
  <2>3. drawn[i].overdue = isOverdue(tasks[i], moment)
    BY <2>1 DEF data
  <2>4. drawn[i].dueDateLabel = <<>> <=> Due[tasks[i].body] = NoDue
    BY <2>1, <2>2, LabelOfDate DEF data
  <2> QED
    BY <2>1, <2>2, <2>3, <2>4, OverdueStays
<1> QED
  BY <1>1, ClockInvInductive, PTL

(* The count of overdue tasks in the footer lags behind the clock, never   *)
(* behind the list, and is never too high                                  *)
(* (TaskStore.cpp:42-47, TaskListModel.cpp:203, 254, 288, 334, 371).       *)
THEOREM FooterLagsOnlyTheClock == ClockSpec => []FooterWasTrue
<1>1. ClockInv => FooterWasTrue
  <2> SUFFICES ASSUME ClockInv PROVE FooterWasTrue
    OBVIOUS
  <2>1. PICK moment \in 0 .. now : overdueShown = overdueCount(tasks, moment)
    BY DEF ClockInv, FooterInv
  <2>2. overdueCount(tasks, moment) <= overdueCount(tasks, now)
    BY CountGrows DEF ClockInv, ModelInv, StoreInv, StoreTypeOK
  <2> QED
    BY <2>1, <2>2 DEF FooterWasTrue
<1> QED
  BY <1>1, ClockInvInductive, PTL

(* Saving the dialog with its date untouched keeps the day the task is due *)
(* on, at whatever time the dialog was opened and saved                    *)
(* (TaskEditorDialog.qml:43-69).                                           *)
THEOREM UntouchedDayStays == ClockSpec => EditKeepsDay
<1> DEFINE before == Due[tasks[dialog.row].body]
           after == Due[tasks'[dialog.row].body]
           Kept == before # after => before # NoDue /\ after = startOfDay(day(before))
<1>1. ASSUME ClockInv, acceptedRow, dialog.untouched PROVE Kept
  <2>1. PICK body \in BodiesDue(dueDate) : UpdateTask(dialog.row, body)
    BY <1>1 DEF acceptedRow
  <2>2. body \in Bodies /\ Due[body] = dueDate /\ dialog.row \in DOMAIN tasks
    BY <1>1 DEF BodiesDue, acceptedRow, ClockInv, DialogInv
  <2>3. CASE body \in Blank
    BY <1>1, <2>1, <2>2, <2>3, UpdatedTask DEF ClockInv
  <2>4. CASE body \notin Blank
    <3>1. after = dueDate
      BY <1>1, <2>1, <2>2, <2>4, UpdatedTask, ClockAssumption DEF ClockInv
    <3>2. before \in Moments
      BY <1>1, <2>2, RowType, ClockAssumption DEF ClockInv, ModelInv, StoreInv, Task
    <3>3. IF before = NoDue THEN ~dialog.checked ELSE dialog.checked /\ dialog.day = day(before)
      BY <1>1 DEF ClockInv, DialogInv, acceptedRow
    <3>4. CASE before = NoDue
      BY <3>1, <3>3, <3>4 DEF dueDate
    <3>5. CASE before # NoDue
      <4>1. day(before) # NoDue
        BY <3>2, <3>5, ClockAssumption DEF Moments, day
      <4> QED
        BY <3>1, <3>3, <3>5, <4>1 DEF dueDate
    <3> QED
      BY <3>4, <3>5
  <2> QED
    BY <2>3, <2>4
<1>2. ClockInv /\ [ClockNext]_vars => [acceptedRow /\ dialog.untouched => Kept]_vars
  BY <1>1
<1> QED
  BY <1>2, ClockInvInductive, PTL DEF ClockSpec, EditKeepsDay
-----------------------------------------------------------------------------
(* Every step here is a step of the list model, or leaves it alone.        *)
LEMMA ClockSteps ==
  ASSUME ClockInv, [ClockNext]_vars
  PROVE  ModelStep /\ loaded' \in {loaded, TRUE}
<1>1. CASE Tick \/ openForNew \/ rejected \/ UNCHANGED vars
  BY <1>1 DEF Tick, openForNew, Opened, rejected, vars, startVars, ModelStep
<1>2. CASE \E checked \in BOOLEAN, d \in Days \union {NoDue} : Type(checked, d)
  BY <1>2 DEF Type, startVars, ModelStep
<1>3. CASE \E ok \in BOOLEAN : StartUp(ok)
  BY <1>3 DEF StartUp, ModelStep, Commands
<1>4. CASE TakeBack \/ clearDone
  BY <1>4 DEF TakeBack, clearDone, startVars, ModelStep, Commands
<1>5. ASSUME NEW row \in DOMAIN tasks, Redraw(row) \/ openForRow(row) \/ RowClicked(row)
      PROVE  ModelStep /\ loaded' \in {loaded, TRUE}
  BY <1>5 DEF Redraw, openForRow, Opened, RowClicked, startVars, ModelStep, Commands, RowCommand
<1>6. CASE AddSample \/ acceptedNew
  BY <1>6 DEF AddSample, acceptedNew, AddDated, BodiesDue, startVars, ModelStep, Commands
<1>7. CASE acceptedRow
  <2>1. PICK body \in Bodies : UpdateTask(dialog.row, body)
    BY <1>7 DEF acceptedRow, BodiesDue
  <2>2. dialog.row \in DOMAIN tasks /\ UNCHANGED startVars
    BY <1>7 DEF acceptedRow, ClockInv, DialogInv
  <2> QED
    BY <2>1, <2>2 DEF startVars, ModelStep, Commands, RowCommand
<1> QED
  BY <1>1, <1>2, <1>3, <1>4, <1>5, <1>6, <1>7 DEF ClockNext

(* With the list model's second invariant, for the types. *)
LEMMA ClockNoticeInductive == ClockSpec => [](ClockInv /\ NoticeInv /\ loaded \in BOOLEAN)
<1>1. ClockInit => NoticeInv /\ loaded \in BOOLEAN
  BY NoticeInitInv DEF ClockInit
<1>2. ClockInv /\ NoticeInv /\ loaded \in BOOLEAN /\ [ClockNext]_vars
        => (NoticeInv /\ loaded \in BOOLEAN)'
  BY ClockSteps, NoticeStepInv DEF ClockInv
<1> QED
  BY <1>1, <1>2, ClockInvInductive, PTL DEF ClockSpec

(* The rows that are drawn, the footer and the dialog hold what they are   *)
(* meant to hold, and the dialog no row past the end of the list           *)
(* (TaskListModel.cpp:77-91; TaskEditorDialog.qml:25-63).                  *)
THEOREM ClockTypeCorrect == ClockSpec => []ClockTypeOK
<1>1. ClockInv /\ NoticeInv /\ loaded \in BOOLEAN => ClockTypeOK
  <2> SUFFICES ASSUME ClockInv, NoticeInv, loaded \in BOOLEAN PROVE ClockTypeOK
    OBVIOUS
  <2>1. ModelTypeOK
    BY ModelTypesHold DEF ClockInv
  <2>2. overdueShown \in Nat
    <3>1. PICK moment \in 0 .. now : overdueShown = overdueCount(tasks, moment)
      BY DEF ClockInv, FooterInv
    <3> DEFINE late == {i \in DOMAIN tasks : isOverdue(tasks[i], moment)}
    <3>2. late \in SUBSET (1 .. Len(tasks)) /\ Len(tasks) \in Nat
      BY RowType DEF ClockInv, ModelInv, StoreInv
    <3>3. IsFiniteSet(late)
      BY <3>2, FS_Interval, FS_Subset
    <3> QED
      BY <3>1, <3>3, FS_CardinalityType DEF overdueCount
  <2>3. dialog # NotOpen => dialog \in Dialog /\ dialog.row <= Len(tasks)
    <3>1. DOMAIN tasks = 1 .. Len(tasks) /\ Len(tasks) \in Nat
      BY RowType DEF ClockInv, ModelInv, StoreInv
    <3> QED
      BY <3>1 DEF ClockInv, DialogInv
  <2> QED
    BY <2>1, <2>2, <2>3 DEF ClockInv, DrawnInv, ClockTypeOK
<1> QED
  BY <1>1, ClockNoticeInductive, PTL
=============================================================================
