------------------------------ MODULE TaskClock ------------------------------
(***************************************************************************)
(* Due dates and the clock. Whether a task is overdue, and whether it is   *)
(* due "today", follows from the time at which somebody asks; a delegate   *)
(* asks when it is created and at dataChanged(), the footer of Main.qml at *)
(* countsChanged(), and time itself notifies nobody. The editor dialog     *)
(* turns a due date into the text of a day and back.                       *)
(*                                                                         *)
(* A moment is a number, so many of them to the day; the clock is not set  *)
(* back. Every row is taken to have a delegate. The other fields of the    *)
(* dialog, the order of the list and the save are in other modules: here   *)
(* they hold anything, are left out, or stay due.                          *)
(***************************************************************************)
EXTENDS TaskListModel

CONSTANTS
  DayLength,   \* moments in a day
  Week,        \* days ahead that a label names by their number: 7
  Due,         \* Due[b]: the moment a body is due
  NoDue,       \* an invalid date
  Days,        \* the days a user may type
  SampleDays,  \* in how many days the sample tasks are due
  NotOpen,     \* the dialog is closed
  LastMoment   \* bound of the model: the clock stops

Moments == Int \union {NoDue}

ASSUME ClockAssumption ==
  /\ DayLength \in Nat \ {0}
  /\ NoDue \notin Int
  /\ Due \in [Bodies -> Moments]
  /\ \A b \in Bodies : Due[Trimmed[b]] = Due[b] /\ Due[Written[b]] = Due[b]
  /\ Days \subseteq Nat
  /\ SampleDays \in Seq(Nat \union {NoDue})

VARIABLES
  now,          \* QDateTime::currentDateTime()
  overdueShown, \* overdueCount as the footer read it last
  drawn,        \* the computed roles of each row as its delegate read them
  dialog,       \* what the editor holds of a due date while it is open
  loaded,       \* Main.qml has loaded the file
  samplesLeft   \* the due dates of the sample tasks still to be added

readVars == <<overdueShown, drawn>>
startVars == <<loaded, samplesLeft>>
vars == <<allVars, now, readVars, dialog, startVars>>

day(moment) == moment \div DayLength
startOfDay(d) == d * DayLength

BodiesDue(moment) == {b \in Bodies : Due[b] = moment}

(* row 0 is a new task; untouched is history: the date is as it was when   *)
(* the dialog was opened.                                                  *)
Dialog == [row: Nat, checked: BOOLEAN, day: Days \union Int \union {NoDue}, untouched: BOOLEAN]

-----------------------------------------------------------------------------
(* What the model answers at a moment. *)

isOverdue(task, moment) ==
  /\ ~task.done
  /\ Due[task.body] # NoDue
  /\ Due[task.body] < moment

overdueCount(rows, moment) == Cardinality({i \in DOMAIN rows : isOverdue(rows[i], moment)})

(* The days from the moment to the due date stand for "today", "tomorrow", *)
(* "3 days ago"; nothing for the empty label.                              *)
humanDueDate(due, moment) ==
  LET days == day(due) - day(moment) IN
    CASE due = NoDue -> <<>>
      [] due # NoDue /\ days < Week -> <<"in days", days>>
      [] OTHER -> <<"on day", day(due)>>

data(task, moment) ==
  [dueDateLabel |-> humanDueDate(Due[task.body], moment), overdue |-> isOverdue(task, moment)]

(* Who reads when. *)
countsRead == overdueShown' = overdueCount(tasks', now)

rowInserted == drawn' = Append(drawn, data(tasks'[Len(tasks) + 1], now)) /\ countsRead

(* Mutant: the delegate is not told. *)
rowChangedSilently(row) == UNCHANGED drawn /\ countsRead

rowChanged(row) == drawn' = [drawn EXCEPT ![row] = data(tasks'[row], now)] /\ countsRead

(* Mutant: the footer is not told. *)
rowRemovedUncounted(row) == drawn' = Without(drawn, row) /\ UNCHANGED overdueShown

rowRemoved(row) == drawn' = Without(drawn, row) /\ countsRead

allReset == drawn' = [i \in DOMAIN tasks' |-> data(tasks'[i], now)] /\ countsRead

ClockInit ==
  /\ ListInit
  /\ now = 0
  /\ overdueShown = 0 /\ drawn = <<>>
  /\ dialog = NotOpen
  /\ loaded = FALSE /\ samplesLeft = <<>>

ClockTypeOK ==
  /\ ModelTypeOK
  /\ now \in Nat
  /\ overdueShown \in Nat
  /\ Len(drawn) = Len(tasks)
  /\ dialog \in Dialog \union {NotOpen}
  /\ dialog # NotOpen => dialog.row <= Len(tasks)
  /\ loaded \in BOOLEAN
  /\ samplesLeft \in Seq(Moments)

(* Mutant: modal: false. *)
UsableBesideDialog == loaded /\ samplesLeft = <<>> /\ Free

(* The modal dialog is closed and no handler is running.                   *)
Usable == loaded /\ samplesLeft = <<>> /\ Free /\ dialog = NotOpen

-----------------------------------------------------------------------------
(* Time passes, in the middle of a handler too. *)
Tick ==
  /\ now < LastMoment
  /\ now' = now + 1
  /\ UNCHANGED <<allVars, readVars, dialog, startVars>>

(* The view creates the delegate of a row anew: it was scrolled out of     *)
(* sight, or filtered out, and comes back.                                 *)
Redraw(row) ==
  /\ drawn' = [drawn EXCEPT ![row] = data(tasks[row], now)]
  /\ UNCHANGED <<allVars, now, overdueShown, dialog, startVars>>

(* Main.qml; addSampleTasks() reads the clock once, before the first.      *)
StartUp(ok) ==
  /\ ~loaded
  /\ Load(ok)
  /\ allReset
  /\ loaded' = TRUE
  /\ samplesLeft' =
       IF Len(tasks') # 0 THEN <<>>
       ELSE [k \in DOMAIN SampleDays |->
               IF SampleDays[k] = NoDue THEN NoDue ELSE now + SampleDays[k] * DayLength]
  /\ UNCHANGED <<now, dialog>>

(* AddTask(); a row that is refused is never shown (ListShowsFilter).      *)
AddDated(body) ==
  /\ \E createdAt \in Times : AddTask(body, createdAt)
  /\ IF body \in Blank THEN UNCHANGED readVars ELSE rowInserted

AddSample ==
  /\ samplesLeft # <<>>
  /\ \E body \in BodiesDue(Head(samplesLeft)) \ Blank : AddDated(body)
  /\ samplesLeft' = Tail(samplesLeft)
  /\ UNCHANGED <<now, dialog, loaded>>

TakeBack == TakeRowBack /\ UNCHANGED <<now, readVars, dialog, startVars>>

RowClicked(row) ==
  /\ Usable
  /\ \/ ToggleDone(row) /\ rowChanged(row)
     \/ RemoveTask(row) /\ rowRemoved(row)
  /\ UNCHANGED <<now, dialog, startVars>>

clearDone == Usable /\ ClearCompleted /\ allReset /\ UNCHANGED <<now, dialog, startVars>>

-----------------------------------------------------------------------------
(* The dialog. *)

Opened(row, checked, d) ==
  /\ Usable
  /\ dialog' = [row |-> row, checked |-> checked, day |-> d, untouched |-> TRUE]
  /\ UNCHANGED <<allVars, now, readVars, startVars>>

openForNew == Opened(0, FALSE, day(now))

(* Mutant: the field starts from today's date. *)
openForRowToday(row) ==
  LET task == tasks[row] IN
    Opened(row, data(task, now).dueDateLabel # <<>>, day(now))

openForRow(row) ==
  LET task == tasks[row]
      checked == data(task, now).dueDateLabel # <<>>
  IN  Opened(row, checked, IF checked THEN day(Due[task.body]) ELSE day(now))

(* The box, and the field, which is enabled while the box is checked and   *)
(* may be left incomplete.                                                 *)
Type(checked, d) ==
  /\ dialog # NotOpen
  /\ dialog.checked \/ d = dialog.day
  /\ dialog' = [dialog EXCEPT !.checked = checked, !.day = d, !.untouched = FALSE]
  /\ UNCHANGED <<allVars, now, readVars, startVars>>

(* What onAccepted makes of box and field: the first moment of the day.    *)
dueDate == IF dialog.checked /\ dialog.day # NoDue THEN startOfDay(dialog.day) ELSE NoDue

acceptedNew ==
  /\ dialog # NotOpen /\ dialog.row = 0
  /\ nextId <= LastId
  /\ \E body \in BodiesDue(dueDate) : AddDated(body)
  /\ dialog' = NotOpen
  /\ UNCHANGED <<now, startVars>>

acceptedRow ==
  /\ dialog # NotOpen /\ dialog.row # 0
  /\ \E body \in BodiesDue(dueDate) :
       /\ UpdateTask(dialog.row, body)
       /\ IF body \in Blank THEN UNCHANGED readVars ELSE rowChanged(dialog.row)
  /\ dialog' = NotOpen
  /\ UNCHANGED <<now, startVars>>

rejected ==
  /\ dialog # NotOpen
  /\ dialog' = NotOpen
  /\ UNCHANGED <<allVars, now, readVars, startVars>>

ClockNext ==
  \/ Tick
  \/ \E ok \in BOOLEAN : StartUp(ok)
  \/ AddSample \/ TakeBack \/ clearDone
  \/ \E row \in DOMAIN tasks : Redraw(row) \/ RowClicked(row) \/ openForRow(row)
  \/ openForNew
  \/ \E checked \in BOOLEAN, d \in Days \union {NoDue} : Type(checked, d)
  \/ acceptedNew \/ acceptedRow \/ rejected

ClockSpec == ClockInit /\ [][ClockNext]_vars

-----------------------------------------------------------------------------
(* What a row shows was true of the task, as it is now, at some moment:    *)
(* only the clock can make a label or a red date wrong, no edit can. In    *)
(* particular a row in red is overdue, and its label is empty only without *)
(* a due date, which the dialog relies on (TaskListModel.cpp:88-91, 370;   *)
(* TaskEditorDialog.qml:53-55).                                            *)
DrawnWasTrue ==
  \A i \in DOMAIN tasks :
    /\ \E moment \in 0 .. now : drawn[i] = data(tasks[i], moment)
    /\ drawn[i].overdue => isOverdue(tasks[i], now)
    /\ drawn[i].dueDateLabel = <<>> <=> Due[tasks[i].body] = NoDue

(* The footer shows how many of the tasks there are now were overdue at    *)
(* some moment, so it lags behind the clock, never behind the list, and    *)
(* never counts too many (TaskStore.cpp:42-47, TaskListModel.cpp:203, 254, *)
(* 288, 334, 371; Main.qml:168-175).                                       *)
FooterWasTrue ==
  /\ \E moment \in 0 .. now : overdueShown = overdueCount(tasks, moment)
  /\ overdueShown <= overdueCount(tasks, now)

(* Saving the dialog without touching the date leaves a task due on the    *)
(* day it was due, though not at the time of day, whenever the dialog was  *)
(* opened and however long it stayed open (TaskEditorDialog.qml:55-63).    *)
EditKeepsDay ==
  [][acceptedRow /\ dialog.untouched =>
       LET before == Due[tasks[dialog.row].body]
           after == Due[tasks'[dialog.row].body]
       IN  before # after => before # NoDue /\ after = startOfDay(day(before))]_vars
=============================================================================
