------------------------------ MODULE TasksPage ------------------------------
(***************************************************************************)
(* src/qml/TasksPage.qml: the toolbar, the list over the filtered model,   *)
(* and the editor of src/qml/TaskEditorDialog.qml, which is modal. What    *)
(* the user clicks on is a proxy row, what the list model takes is a       *)
(* source row, and the dialog remembers one while it is open. The save     *)
(* that follows an edit changes neither and is left to TaskListModel.      *)
(***************************************************************************)
EXTENDS TaskFilterModel

CONSTANTS
  Title,      \* Title[b]: the text of a body's title
  NewDraft,   \* the fields of the dialog, opened for a new task
  Drafted,    \* Drafted[b]: the fields when opened for a task with body b;
              \* they hold a due date without its time of day
  NotOpen,    \* the dialog is closed
  Samples     \* the sample tasks, in their order

ASSUME DraftAssumption ==
  /\ NewDraft \in Blank
  /\ Drafted \in [Bodies -> Bodies]
  /\ DOMAIN Title = Bodies
  /\ \A b \in Bodies : Title[Drafted[b]] = Title[b]
  /\ \A b, c \in Bodies : Title[b] = Title[c] => (b \in Blank <=> c \in Blank)
  /\ NotOpen \notin Nat
  /\ Samples \in Seq(Bodies \ Blank)

VARIABLES
  loaded,       \* Main.qml has loaded the file
  samplesLeft,  \* the sample tasks it still has to add
  editing,      \* the source row in the open dialog, 0 for a new task
  draft,        \* what its fields hold; they keep it when it is closed
  saveEnabled,  \* of its Save button
  editedId      \* history: the task the dialog was opened for

startVars == <<loaded, samplesLeft>>
dialogVars == <<editing, draft, saveEnabled, editedId>>
vars == <<allVars, filterVars, dialogVars, startVars>>

Init ==
  /\ ListInit
  /\ FilterInit
  /\ loaded = FALSE
  /\ samplesLeft = <<>>
  /\ editing = NotOpen
  /\ draft = NewDraft
  /\ saveEnabled = TRUE
  /\ editedId = 0

PageTypeOK ==
  /\ ModelTypeOK
  /\ FilterTypeOK
  /\ loaded \in BOOLEAN
  /\ samplesLeft \in Seq(Bodies)
  /\ editing \in Nat \union {NotOpen}
  /\ draft \in Bodies
  /\ saveEnabled \in BOOLEAN
  /\ editedId \in Nat

(* Mutant: modal: false. *)
UsableBesideDialog == loaded /\ samplesLeft = <<>> /\ Free

(* A modal dialog keeps the toolbar and the list from being used.          *)
Usable == loaded /\ samplesLeft = <<>> /\ Free /\ editing = NotOpen

-----------------------------------------------------------------------------
(* The dialog. *)

(* Mutant: a text typed into the title does not enable Save. *)
fillNeverEnables(body) ==
  /\ draft' = body
  /\ saveEnabled' = (saveEnabled /\ (Title[body] = Title[draft] \/ body \notin Blank))

(* onTextChanged of the title field, which a text it has already does not  *)
(* trigger.                                                                *)
fill(body) ==
  /\ draft' = body
  /\ saveEnabled' = IF Title[body] # Title[draft] THEN body \notin Blank ELSE saveEnabled

openForNew ==
  /\ Usable
  /\ editing' = 0 /\ editedId' = 0
  /\ fill(NewDraft)
  /\ UNCHANGED <<allVars, filterVars, startVars>>

openForRow(row) ==
  /\ Usable
  /\ editing' = row /\ editedId' = tasks[row].id
  /\ fill(Drafted[tasks[row].body])
  /\ UNCHANGED <<allVars, filterVars, startVars>>

Type(body) ==
  /\ editing # NotOpen
  /\ body # draft
  /\ fill(body)
  /\ UNCHANGED <<allVars, filterVars, startVars, editing, editedId>>

rejected ==
  /\ editing # NotOpen
  /\ editing' = NotOpen /\ editedId' = 0
  /\ UNCHANGED <<allVars, filterVars, startVars, draft, saveEnabled>>

acceptedNew(now) ==
  /\ editing = 0
  /\ AddTask(draft, now)
  /\ rowsInserted(Len(tasks) + 1)

acceptedRow ==
  /\ editing \in DOMAIN tasks
  /\ UpdateTask(editing, draft)
  /\ IF draft \in Blank THEN UNCHANGED visible ELSE dataChanged(editing)

accepted ==
  /\ saveEnabled
  /\ SettingsStay
  /\ \/ acceptedRow
     \/ nextId <= LastId /\ \E now \in Times : acceptedNew(now)
  /\ editing' = NotOpen /\ editedId' = 0
  /\ UNCHANGED <<startVars, draft, saveEnabled>>

(* The end of addTask(), when the store refused the task. *)
TakeBack ==
  /\ TakeRowBack
  /\ SettingsStay
  /\ rowsRemoved(Len(mirror))
  /\ UNCHANGED <<dialogVars, startVars>>

-----------------------------------------------------------------------------
(* Main.qml, before the window is shown: load(), and sample tasks for an   *)
(* empty list.                                                             *)
StartUp(ok) ==
  /\ ~loaded
  /\ Load(ok)
  /\ SettingsStay
  /\ modelReset
  /\ loaded' = TRUE
  /\ samplesLeft' = IF Len(tasks') = 0 THEN Samples ELSE <<>>
  /\ UNCHANGED dialogVars

AddSample(now) ==
  /\ samplesLeft # <<>>
  /\ AddTask(Head(samplesLeft), now)
  /\ SettingsStay
  /\ rowsInserted(Len(tasks) + 1)
  /\ samplesLeft' = Tail(samplesLeft)
  /\ UNCHANGED <<dialogVars, loaded>>

(* The rows of the list. *)

(* Mutant: the view's row is taken for the model's. *)
sourceRowIsProxyRow(proxyRow) == proxyRow

sourceRow(proxyRow) == visible[proxyRow]

toggleRequested(proxyRow) ==
  /\ ToggleDone(sourceRow(proxyRow))
  /\ dataChanged(sourceRow(proxyRow))

removeRequested(proxyRow) ==
  /\ RemoveTask(sourceRow(proxyRow))
  /\ rowsRemoved(sourceRow(proxyRow))

RowClicked ==
  /\ Usable
  /\ SettingsStay
  /\ \E proxyRow \in DOMAIN visible : toggleRequested(proxyRow) \/ removeRequested(proxyRow)
  /\ UNCHANGED <<dialogVars, startVars>>

(* Mutant: the view's row is taken for the model's. *)
editRequestedUnmapped == \E proxyRow \in DOMAIN visible : openForRow(proxyRow)

editRequested == \E proxyRow \in DOMAIN visible : openForRow(sourceRow(proxyRow))

(* The toolbar. *)
clearDone ==
  /\ Usable
  /\ shown.done > 0
  /\ ClearCompleted
  /\ SettingsStay
  /\ modelReset
  /\ UNCHANGED <<dialogVars, startVars>>

ViewChosen ==
  /\ Usable
  /\ \/ \E text \in Texts : setSearchText(text)
     \/ \E show \in BOOLEAN : setShowCompleted(show)
     \/ \E mode \in SortModes : setSortMode(mode)
  /\ UNCHANGED <<dialogVars, startVars>>

Next ==
  \/ \E ok \in BOOLEAN : StartUp(ok)
  \/ \E now \in Times : AddSample(now)
  \/ ViewChosen \/ clearDone
  \/ RowClicked \/ editRequested \/ openForNew
  \/ \E body \in Bodies : Type(body)
  \/ accepted \/ rejected \/ TakeBack

Spec == Init /\ [][Next]_vars

-----------------------------------------------------------------------------
(* What the user does in the list, with a row or through the dialog, leaves *)
(* every task alone that the list does not show: rows of the view are      *)
(* turned into rows of the model, never taken for them                     *)
(* (TasksPage.qml:113-123, TaskFilterModel.cpp:51-57).                     *)
HiddenTasksUntouched ==
  [][RowClicked \/ accepted =>
       \A row \in DOMAIN tasks \ Rows : \E i \in DOMAIN tasks' : tasks'[i] = tasks[row]]_vars

(* An edit changes the task the dialog was opened for and no other, though *)
(* the dialog remembers a row and not an id: nothing moves the rows while  *)
(* it is open (TaskEditorDialog.qml:25-28, 61-69).                         *)
EditLandsOnItsTask ==
  [][accepted => \A row \in DOMAIN tasks : tasks[row].id # editedId => tasks'[row] = tasks[row]]_vars

(* A task that has a title can be saved, whatever became of the button     *)
(* when the dialog was open before. The converse does not hold: Save is    *)
(* enabled until the title first changes (TaskEditorDialog.qml:71-88).     *)
SaveFollowsTitle == editing # NotOpen /\ draft \notin Blank => saveEnabled

(* A command on a row, or a saved dialog, changes the task it was given    *)
(* for, under its id, and leaves every other task and its place in the     *)
(* list alone; searching and ordering change no task                       *)
(* (TasksPage.qml:35-124, TaskFilterModel.cpp:7-120).                      *)
View == INSTANCE TaskView WITH
  Closed <- NotOpen,
  items  <- [id \in Ids |-> tasks[CHOOSE row \in DOMAIN tasks : tasks[row].id = id]],
  list   <- [p \in DOMAIN visible |-> tasks[visible[p]].id],
  open   <- IF editing = NotOpen THEN NotOpen ELSE editedId,
  last   <- nextId - 1

ImplementsView == View!ViewSpec
=============================================================================
