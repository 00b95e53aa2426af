# DevBoard in TLA+

DevBoard is a Qt Quick application with a task list and a folder scanner. The
repository uses it to teach three things that are easy to get wrong: a worker
object on a thread of its own, a list model that must tell its views the truth,
and a file that must survive a crash. This directory holds TLA+ models of the
three, TLC configurations that check them on small instances, and proofs that
TLAPS checks for all values of the constants. Paths below are relative to the
repository root.

## 1. The system

| component | state | operations | modelled |
|---|---|---|---|
| scan worker, `src/scanner` | cancel flag (atomic), locals of `scan()` | `scan`, `requestCancel`; signals `progress`, `finished`, `failed` | `ScanTypes`, `ScanWorker` |
| result table, `src/models/ScanResultModel` | rows, total | `setStats`, `clearStats`, share column | `ScanResultModel` |
| scanner controller, `src/app/ScannerController`, `qml/ScannerPage.qml` | running, path, counters, status, thread, worker pointer | `start`, `startFromUrl`, `cancel`, three slots, destructor | `ScannerController` |
| task and store, `src/core` | rows, id counter | add, update, remove, set done, remove completed, clear, to/from JSON, save/load | `TaskStore`, `TaskFile` |
| list model, `src/models/TaskListModel` | the store, status line, path, 400 ms timer | the store's commands by row, `setData`, `load`, `save`, `setStoragePath`, notifications; the roles and the count that depend on the time | `TaskListModel`, `TaskClock` |
| session, `main.cpp`, `qml/Main.qml` | lifetime of the above | load and samples at start, close | `TaskBoard` |
| filter model, `src/models/TaskFilterModel` | search text, flag, order, row mapping | accept, compare, map rows, three setters | `TaskFilterModel` |
| tasks page, `qml/TasksPage.qml`, `qml/TaskDelegate.qml` | what each row read last | buttons; rows that ask to be toggled, edited, removed | `TasksPage`, `TaskView`; reading in `TaskClock` |
| editor dialog, `qml/TaskEditorDialog.qml` | draft, remembered row, Save button, due-date box and field | open for new / row, type, save, cancel | `TasksPage`; due dates in `TaskClock` |
| `AppInfo`, `Theme`, `StatTile`, `AboutPage` | none | constants, layout | no |

How they interact: the GUI thread calls the controller and the task list model
directly and receives the worker's signals as events of its queue. The
controller posts `scanRequested` to the worker's queue; only `requestCancel()`
reaches the worker directly, through an atomic flag. The list model owns the
store, calls it synchronously, notifies its views and bindings, and restarts a
single-shot timer whose timeout saves. The filter model stands between the list
model and the page: it follows the list model's notifications, and the page asks
it to turn a row of the view into a row of the list. The scanner and the task
list share nothing but the GUI thread.

What is hard: the two event queues and the flag between the scanner's threads
(a cancel races with the request before it and with the end of the walk); a
destructor that blocks; the pairing of every change of the list with the right
notification; ids across removals, hand-edited files and restarts; a save that
can fail at three points or be cut off by a crash; a debounce timer that is the
only thing between an edit and its loss; two numberings of the rows, one of the
list and one of the view, that drift apart with every filtered or sorted edit;
a clock that changes what the model would answer and tells nobody.
`PROJECT.json` lists these hazards by source line, each with the properties that
watch over it, or why none does. One that nothing here watches is what follows a
failed save: the timer drops its result (`TaskListModel.cpp:46`), nothing tries
again until the next edit, and the message may be overwritten before it is read.
`UnsavedIsScheduled` and `EditsGetSaved` end at the failure.

## 2. Modules

    ScanTypes ── ScanWorker ──────┐
        └─────── ScanResultModel ─┴─ ScannerController ── ScannerProofs
        └─────── ScanService  (abstract; ScannerController implements it)

    TaskStore ── TaskFile ── TaskListModel ─┬─ TaskBoard
        └─ DistinctFiles                    ├─ TaskFilterModel ── TasksPage
                                            └─ TaskClock
    TaskVault  (abstract; TaskBoard implements it)
    TaskView   (abstract; TasksPage implements it)

    Sums ─┬─ WorkerProofs ── ScannerProofs
          └─ TaskStoreProofs ── TaskListProofs ─┬─ TaskBoardProofs
                                                ├─ TasksPageProofs
                                                └─ TaskClockProofs

An edge means EXTENDS; each `*Proofs` module also extends the module it is named
after (`TaskListProofs` extends `TaskListModel`). `Sums` has lemmas about sums
over finite sets. `MC*` modules give the constants their values.
`TaskStoreProofs`, and the `MC*` modules of the task list but for one, extend
`DistinctFiles`, the assumption that a file never gives one positive id to two
tasks.

### Scanner

**ScanWorker.** `scan()` is split where another thread can get in between: its
start (flag lowered, directory tested, iterator set up), one action per loop
iteration (the flag is read once in it), the last `progress()`, and
`finished()`. The file system is the constant `Tree`: which entries the
`QDirIterator` yields below a directory; their order is free, as it is on a
disk. The 80 ms throttle lets `progress()` through or not after any file.
`byExtension` is the hash of statistics, `SortedSeen` what `std::sort` may make
of it. A tree that changes during a scan is not modelled.

**ScanResultModel.** Two operations and the share column, with the early return
of `clearStats()` as it stands. Doubles are replaced by whole percents.

**ScannerController.** The composition: GUI thread, worker thread, `requests`
(events posted to the worker) and `signals` (events posted to the controller).
Qt's part, modelled from how `ScannerController.cpp:16-45` uses it: an event
queue is in order; the worker's loop may still run a posted request after
`quit()` or may drop it, depending on how far it got (`RunRequest` and
`FinishThread` are both enabled), because `quit()` takes effect only when
control returns to the loop; `finished` runs the deferred deletion of the worker
on its thread. While the destructor runs, the GUI thread delivers nothing. One
command is one action, except the destructor, whose three calls are three.

**ScanService** is the promise to the user: one scan at a time, counters that
only grow up to the true totals, one outcome, `cancelled` only when asked for,
`failed` only for what is no directory, and an end to every scan.

### Task list

**TaskStore.** A task is its id, creation time, done flag and a *body* (title,
notes, priority, due date): the store only trims the title, tests it for being
blank, and writes and reads it back, and these three are the constants
`Trimmed`, `Blank` and `Written`. `Written` is not the identity: a priority
outside the enumeration is written as "Normal" (`Task.cpp:7-29`). Times are
written with milliseconds and are kept (`Task.cpp:51-61`). `indexOfId` is a set
of at most one row, the first. `loadFromJson` takes the file as
`Task::fromJson` reads its entries, junk and idless rows included; what it reads
is in the enumeration, so bodies in a file are ones that writing leaves alone.

**TaskFile.** `saveToFile()` in its steps on a `QSaveFile`: open, write, commit,
each of which can fail (a failed `write()` is noticed by `commit()`); a crash
can come between them. A failed `loadFromFile()` leaves the store alone.

**TaskListModel.** `mirror` is what a view knows if it believes the
notifications and nothing else; `shown` is what a binding read at the last
`countsChanged()`; `settled` is a history variable, the content when it was last
loaded, saved, or seen not to be saved. `addTask()` with a blank title is two
steps, because views can look at the model between `endInsertRows()` and
`beginRemoveRows()`. The timer is off, running or due. `SetStoragePath` puts
some other file in place of the one in use, which is all that the next load or
save can tell.

**TaskBoard.** Sessions: load, samples when the list is then empty, the commands
the window offers, closing (the model dies and its timer with it), a crash at
any step, and a new session that knows the file alone.

**TaskFilterModel.** `filterAcceptsRow` and `lessThan` as the code has them, over
constants that say what a body's title, priority and due date compare like and
which bodies a search finds. Qt's proxy is modelled from how it is used: for
every notification of the source it asks the two questions again for the rows
the notification names, and for no other. A row that is inserted or has changed
is sorted in among the others; rows that are equal to `lessThan` may come in any
order, which covers a stable sort and any other.

**TasksPage.** The page and the dialog over it. Rows of the view are numbers that
`sourceRow` maps; the dialog remembers a row of the list while it is open and is
modal. Its Save button is what `onTextChanged` last made of it. The draft stays
in the fields after the dialog is closed, and decides whether the next opening
changes the title. `editedId` is a history variable. Saving changes neither the
rows nor the dialog and is left to the other modules.

**TaskClock.** Due dates, beside `TasksPage` and over the same list model. `now`
is the time; `drawn` is what each row read from the model when it was told to,
`overdueShown` what the footer read at the last `countsChanged()`. `Tick` moves
the clock, in the middle of a handler too, and changes nothing else. The dialog
is here what it holds of a due date: a box and a field with a day, filled when it
is opened (`TaskEditorDialog.qml:53-63`). A date goes out as `yyyy-MM-dd` and
comes back as the first moment of that day. A body is known here by its due date
alone: whatever else the user typed is chosen freely. Taken as given: the clock
is not set back, a typed date reads back as the day it names, every row of the
list has a delegate, and a delegate reads its roles at one moment. `Redraw` is a
delegate created anew, at any time.

**TaskView** is the promise of the page, without rows, proxies and
notifications: tasks known by ids, a list that shows some of them once each with
the open ones first, a command that changes the task it was given for and leaves
every other, and its place among the rest, alone.

**DistinctFiles** is the assumption about files named above.

**TaskVault** is the promise about the file: it changes in one step, to the
whole board of that moment; a session opens with it or with nothing; the id
counter never goes back within a session.

## 3. Runs

`tlc -config X.cfg M`. Every run checks deadlock.

| run | module, cfg | distinct states | shows |
|---|---|---|---|
| worker | `MCScanWorker` | 2,370 | A complete report equals what the tree says; the list of any report adds up to its totals and is sorted; `finished` and `failed` exclude each other and are last; every walk ends. |
| controller | `MCScannerController` | 16,827 | One scan at a time; between scans table, counters and status agree; shares add up; the worker object and its thread are gone, in order, when the destructor returns; "Cancelled" only if asked; counters never go back during a scan; every scan ends; closing returns; `ScanService` is implemented, liveness included. |
| store | `MCTaskStore` | 995 | Ids unique and below the counter; never used twice by edits or reloads; identity and order kept; a saved store reads back as itself. |
| list_model | `MCTaskListModel` | 59,908 | Views and footer follow the store; an unsaved edit always has a save coming, also when the path is changed under it. |
| page | `MCTasksPage` | 139,728 | The list shows what the filter accepts, each row once, in the order chosen; the comparison is a strict weak order; a click or an edit leaves tasks alone that are not shown, and an edit lands on the task the dialog was opened for; a titled draft can be saved; `TaskView` is implemented. |
| clock | `MCTaskClock` | 148,682 | A row shows what was true of its task at some moment, the footer counts what was true of the list at some moment and never too many; saving an untouched due date keeps its day. |
| board | `MCTaskBoard` | 372,221 | The same across sessions and crashes; `TaskVault` is implemented; an edit is saved, or its save seen to fail, once the user pauses. |

Five runs show statements of the repository that the code does not keep. Each
stops at a counterexample:

| run | statement | what happens |
|---|---|---|
| lost_cancel | `docs/04-threading.md:157-158`: "the worker stops at the next iteration" | `scan()` lowers the flag at its start (`ScanWorker.cpp:28`). A cancel made while the request is still in the queue is lost, and the walk goes on to its end under "Cancelling ...". A stop that the destructor asks for is lost likewise, and `wait()` lasts for a whole walk. It does return (`DestructorReturns`). |
| duplicate_ids | `TaskListModel.cpp:188-189`: outside begin/end the model "never may be" inconsistent | A copied row in `tasks.json` keeps the id of its original (`TaskStore.cpp:163-180` looks for missing ids only). A command announces the row it was given and changes, or removes, the first row with that id: views and store differ from then on (`MCTaskDuplicates` is `TaskListModel` without `DistinctFiles`). |
| lost_edit | `TaskListModel.cpp:385-386`: "exactly one write 400 ms after the last one" | Closing the window sooner destroys the timer; nothing is written. |
| priority_order | `TaskFilterModel.h:47`: "high first, then by due date" | Ties are broken by creation time (`TaskFilterModel.cpp:105-112`). |
| samples_over_file | `TaskListModel.h:105`: "Fills an empty board" | `Main.qml:43-46` tests `count` and not the result of `load()`: after a failed load samples are added, and saving them replaces the file. |

Further observations, which the models contain and no run is about:

- `addTask()` announces a row for a blank title, and takes it back two statements
  later; between `endInsertRows()` and `beginRemoveRows()`
  (`TaskListModel.cpp:188-199`) a view can see a row that does not exist. This is
  deliberate (`docs/03-models.md:126`), and why `ViewMirrorsStore` excepts
  `announcing`.
- `TaskEditorDialog.qml:71-72` wants Save disabled until there is a title. The
  first `openForNew()` sets an empty title to empty; nothing changes,
  `onTextChanged` does not run, and Save stays enabled. The store refuses the
  task. `SaveFollowsTitle` therefore states one direction.
- `docs/02-cpp-and-qml.md:53-54` says of the four counts that "they all change
  together". `overdueCount` changes with the clock, between two signals: the
  footer shows the old number until the next edit. A row that is drawn anew may
  meanwhile be red.
- A task saved with today's date is due at today's first moment, so it is overdue
  at once while its label says "today" (`Task.h:70`, `TaskEditorDialog.qml:62-63`).
- `docs/02-cpp-and-qml.md:28` gives `storagePath` as a property that never
  changes; `setStoragePath()` changes it, without a signal.

### Bounds

*Worker*: every subset of four entries as a directory, among them two files with
one suffix, two suffixes of equal weight (the tie-break of the sort) and a
folder. *Controller*: three files and a folder, so that a progress can be under
way while the flag is read and a cancelled walk can have several suffixes; the
same directory by a relative path; a file without bytes (the scan cancelled
after it has a row and a total of zero, by which no share may be divided); an
empty directory (rows stay empty, the early return of `clearStats()`); a path
that does not exist; blanks; local and remote URLs. The number of scans, cancels
and signals is not bounded. *Store*: `LastId = 3` bounds the ids that adding
hands out; the files bring ids beyond it, a counter behind its ids, a counter of
zero, idless and junk rows. *List model*: `LastId = 2`; a padded, a plain and a
blank title. *Board*: `LastId = 3`, two samples, a plain and a blank title, one
creation time; a session opens only files with a counter up to `LastId + 1`.
*Page*: `LastId = 3`; the file has a done and an open task, without creation
times, or is missing or unreadable, when one sample is added; bodies with and
without a due date, of two priorities, one found by the search and one not, and
a blank one; all four orders. Rows are alike but for their id, flag and body, so
that three suffice for a row before, at and after the one a command is about.
*Clock*: two days of two moments, four ticks of the clock in all, so that a date
can be earlier, later and at the other end of the same day; `LastId = 2`; a file
with a task due late today, or a sample due tomorrow; dates that are typed are
today's and tomorrow's. A label names days in words when they are less than
`Week = 1` ahead, 7 in the code: both kinds of label, and the change from one to
the other, occur within the bound. *Duplicates*: two tasks, one id.

### Fairness

Weak fairness is assumed of the worker thread, of the delivery of queued signals
and of the destructor's steps: threads are scheduled and event loops run. In
`TaskBoard` it is assumed of the handler the GUI thread is in, and of the timer
as a whole. A user owes nothing: not to scan, cancel, edit, pause or close.
`EditsGetSaved` therefore speaks of users who stop editing at some time, since
each edit sets the timer back. The runs of the page and of the clock have no
liveness and assume nothing; the clock may stop. `WalkEnds` needs no fairness
about the tree: it is finite, and symbolic links are not followed
(`ScanWorker.cpp:41-45`).

## 4. Proofs

`tlapm M.tla` checks each; nothing is left unproved in any of them. Every
invariant, every action property and the safety of every refinement that a
passing run checks is a theorem. They hold for every tree, path, list, file,
calendar and number of steps, from the assumptions on the constants alone: trees
are finite and sizes natural numbers; the suffix order is a strict total order;
trimming and writing keep blankness and due dates, and what was read from a file
is written as it was read; a file never gives one positive id to two tasks
(`DistinctAssumption`; the repository promises to repair missing ids,
`TaskStore.cpp:176`, not equal ones, and the run duplicate_ids shows that the
theorems on the list need it).

**Sums.** The totals of a scan and the share column are sums over finite sets,
which the community modules define by recursion. The library's induction
theorems take an operator, and none of the provers can instantiate them. But
`NatLessThanWellFounded` does not: from it follow `SmallestElement`, induction
over numbers with a set in place of the operator (`SetInduction`), and from that
induction over the subsets of a finite set (`SubsetInduction`). `TableExists`
shows that the recursive function exists, `SumRemove` that it does not matter
which element it takes first; the rest is arithmetic.

**WorkerProofs.** `WorkerInv` has four parts. `WalkIsExact`: while `scan()`
runs, its locals are exactly what is true of the entries seen so far, and these
are all but those still to do, unless the flag was found raised.
`TalliesAddUp`: the statistics by suffix add up to the totals, which must hold
for a walk that is cut off too. `ReportsHold`: reports in the queue are true of
the tree and add up. `ProtocolInv`: the order of the signals, which needs to
know that the last `progress()` is at the end of the queue when `finished()` is
about to join it. `CompleteReportsAreTrue`, `ListsAddUp`, `SignalsInOrder` and
`WorkerTypeCorrect` follow. That `std::sort` loses no suffix is `SortedOnce`:
what it returns is a one-to-one enumeration of them.

**ScannerProofs.** `TypeCorrect` and, with it, `ScanInv`: types,
`OneScanAtATime` and `NothingOutlivesController` together are inductive
(`ScanInvInductive`). The parts need each other: a report may be delivered only
because `running` says that no request is behind it, and `WaitReturns` empties a
reply queue into which nothing writes any more because the thread is finished.
`OneScan` and `NothingOutlives` follow. `CancelledWasAsked` needs the further
invariant `CanceledWasAsked`: a raised flag under a walk, a canceled summary and
a canceled report in the queue all imply the status "Cancelling". It is
inductive only with `OneScanAtATime`, which says that a new request finds no
event of an older scan.

`CountersGrow` needs all the counters that are on their way to be in order
(`CountsInOrder`): those on screen, those of each event in the queue and those
of the walk. `SettledView` needs `ViewInv`, which says what the slots rely on
while a scan runs: the table is empty, and `failed()` finds the counters and the
path line as `start()` left them, because it is only ever the first event. With
`ListsAddUp` the table that `finished()` brings agrees with the counters beside
it, and `SharesMakeAHundred` follows by `SumBounded`, or by `NoShares` when the
total is zero. `ScannerServes` is the safety part of `ScanService`: by
`ScanIsOfTarget`, request, walk and events all belong to the directory on screen
and carry at most its true totals. Threads, queues and the flag are hidden, and
their steps are stutters (`OthersStutter`).

**TaskStoreProofs.** `StoreInv`, types and `IdsUnique` together, is inductive:
a fresh id is fresh because the counter is past every id, and loading restores
that because it looks at the ids and not only at the counter of the file.
`StoreTypeCorrect`, `StoreIdsUnique` and `IdsStayUsed` follow. One lemma per
operation, and lemmas on enumerations of rows and on erasing one.
`EditsKeepIdentity`: after every command each row is one of the rows before, by
an increasing map (`RowsFrom`), or the new one. `FilesReadBack`: what is saved
is in order (`Sound`), and loading what is in order drops no row, hands out no
id and believes the counter (`LoadSound`). It needs that the increasing
enumeration of all rows is the identity (`EnumerationOfAll`).

**TaskListProofs.** `ModelInv` adds to `StoreInv` that files hold distinct ids,
that the mirror equals the list, with one more row while a refused one is
announced, and that unsaved content has a save coming. `ViewsFollow` needs
`StoreInv`: commands announce a row by position and change it by id, and these
are the same row only because ids are unique. `EditsAreScheduled` needs that a
save runs to its end before another command. `NoticeInv` goes beside it: the
counts that the footer shows are the store's at every moment, between
`endInsertRows()` and `beginRemoveRows()` too, and the file, the timer and the
status line keep their types. It is proved for any step of the list model
(`ModelStep`), and so carries over to the board, the page and the clock.
`FooterCounts` and `ModelTypeCorrect` follow.

**TaskBoardProofs.** `BoardInv` carries the same through sessions: while the
program runs, `ModelInv` holds; when it does not, what is left is the file.
`SessionsKeepIds` and `RunningSessionIsSound` follow, and with `BoardTypes` the
types. `BoardServesVault` is the refinement of `TaskVault`. Its invariant is
`VaultInv`: what is on its way to the file is the board as it is, since nothing
edits during a save (`SavingInv`); a session that is about to load is empty; and
the bodies in the file read back as themselves, whoever wrote it. Hence a commit
is `Store`, start-up is `Open` in one of its three ways, and a command is
`Modify` or changes nothing.

**TasksPageProofs.** `PageInv` adds to `ModelInv` that the list shows the filter
and that the fields of the dialog hold a body. `ListIsTheFilter` rests on one
lemma per notification: the proxy looks again at the rows a notification names,
which is enough only because the commands change no other row (`AddedRow`,
`ChangedRow`, `RemovedRow`), and this in turn because ids are unique. That a
click reaches a row the list has (`SourceRowExists`) needs the invariant back.
`ArrangeShows` is the counting argument: an enumeration without repetition, as
long as the set is large, leaves nothing out. `OrderStaysWeak` proves the order
for all possible tasks, mode by mode. `HiddenTasksStay` follows from what the
commands do to the rows besides their own. `OpenDialogInv` adds what the open
dialog relies on: its row is shown, is still the row of the task it was opened
for, and Save is enabled under a title. It is inductive because nothing moves
the rows while the dialog is open; the one step beside it, taking a refused row
back, leaves the list as it was. `EditsLand` and `TitledDraftCanBeSaved` follow,
and with `PageTypes` the types.

`ListKeepsOrder` is `OrderInv`: any two rows of the list are in order, not only
neighbours. A row that stays was in order with the others that stay and is so
still, since neither its task nor the order chosen has changed; one that comes
is sorted in (`ArrangeOrders`). `PageServesView` is the refinement of
`TaskView`. It goes from rows to ids (`ById`: under unique ids an id is a row),
shows that the list of ids is proper, and then, command by command, that every
task but the one in question keeps its place among the others, although its row
may have moved twice, in the list and in the view (`RestFromRows`). `TaskView`
says so with pairs of places: before and after, one of two tasks is above the
other.

**TaskClockProofs.** `ClockInv` adds to `ModelInv` that what was read is an
answer of the model from some moment up to now (`DrawnInv`, `FooterInv`), and
that the open dialog holds the due date of its row until somebody types
(`DialogInv`). The first two are kept because the row a command announces is the
row it changed; that a red row and the footer never claim too much follows,
since what is overdue stays overdue (`OverdueStays`, `CountGrows`).
`UntouchedDayStays` needs `DialogInv`, hence the modal dialog, and that no label
of a date is empty (`LabelOfDate`): the dialog takes the label for the question
whether there is a date. With `NoticeInv` the types follow
(`ClockTypeCorrect`).

The runs check the properties these invariants are made of. The strengthenings
that no run names serve the proofs only.

## 5. Only model-checked

Liveness is out of the prover's reach: `WalkEnds`, `EveryScanEnds`,
`DestructorReturns`, `EditsGetSaved`, and the fairness of `ScanService`, which
makes `ImplementsService` more than `ScannerServes`. So are, by their nature,
the five runs that show a statement violated. All else that the runs check is
proved as well.

## 6. Not modelled

The text of titles, paths, labels and messages; sizes in a locale; role names;
the widths of `int` counters (a scan of 2^31 files, an id of 2^31 - 1 in a
hand-made file); a disk that changes during a scan; two instances of the program
on one file; a clock that is set back, and a day without a first moment at
midnight (a change to summer time); a typed date that is no day of the calendar,
beyond its being invalid. `AppInfo`, `Theme`, `StatTile` and `AboutPage` hold no
state of the program. A signal that Qt delivers late or not at all while its
loop runs is outside Qt's contract and not considered.

## 7. Plan

Done: the scanner (worker, table, controller, service), the task list (store,
file, model, board, vault), the filter model, the page with its dialog and the
promise of the page, due dates and the clock, and the proofs above. Next, in
this order:

1. The page inside a session: `TaskBoard` over the filtered list, so that the
   order and the dialog are checked across a close and a restart.
2. Proofs: the action properties of the store (`IdsNeverReused`,
   `IdentityKept`) for the commands of the list model, in whole sessions.
