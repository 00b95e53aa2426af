-------------------------- MODULE TasksPageProofs --------------------------
(***************************************************************************)
(* Theorems about the tasks page, for every list, filter and order. That   *)
(* the list shows what the filter accepts is kept by a notification only   *)
(* if the rows it names are the rows the command changed, so the invariant *)
(* takes in the list model's; and a click hits a row of the model only if  *)
(* the list shows nothing else. The row in the dialog stays the row of its *)
(* task because the dialog is modal. That the list is in order is an       *)
(* invariant over these (OrderInv), and the last part maps rows to ids and *)
(* shows that every step of the page is one of TaskView.                   *)
(***************************************************************************)
EXTENDS TasksPage, TaskListProofs

(* The list is rows, and those that the filter accepts. *)
ListInv == visible \in Seq(Nat) /\ ListShowsFilter

(* The inductive invariant, with the list model's. *)
PageInv ==
  /\ ModelInv
  /\ ListInv
  /\ draft \in Bodies
  /\ samplesLeft \in Seq(Bodies)

-----------------------------------------------------------------------------
(* lessThan() is a strict weak order of all the tasks there are. *)
LEMMA OrderOnTasks == \A mode \in SortModes : StrictWeakOrder(mode, Task)
<1> SUFFICES ASSUME NEW mode \in SortModes, NEW a \in Task, NEW b \in Task, NEW c \in Task
             PROVE  /\ ~lessThan(mode, a, a)
                    /\ lessThan(mode, a, b) /\ lessThan(mode, b, c) => lessThan(mode, a, c)
                    /\ lessThan(mode, a, c) => lessThan(mode, a, b) \/ lessThan(mode, b, c)
  BY DEF StrictWeakOrder
<1>1. \A t \in {a, b, c} : /\ CreatedRank[t.createdAt] \in Int
                           /\ TitleRank[t.body] \in Int
                           /\ Level[t.body] \in Int
                           /\ Due[t.body] = NoDue \/ Due[t.body] \in Int
                           /\ t.done \in BOOLEAN
  BY FilterAssumption DEF Task
<1>2. CASE mode = "ByCreated"
  BY <1>1, <1>2 DEF lessThan, Newer
<1>3. CASE mode = "ByDueDate"
  BY <1>1, <1>3 DEF lessThan, Newer
<1>4. CASE mode = "ByPriority"
  BY <1>1, <1>4 DEF lessThan, Newer
<1>5. CASE mode = "ByTitle"
  BY <1>1, <1>5 DEF lessThan, Newer
<1> QED
  BY <1>2, <1>3, <1>4, <1>5 DEF SortModes

-----------------------------------------------------------------------------
(* The mapping after each notification. *)

LEMMA FiniteAccepted ==
  ASSUME StoreTypeOK, StoreTypeOK'
  PROVE  /\ IsFiniteSet(Accepted) /\ Accepted \subseteq Nat
         /\ IsFiniteSet(Accepted') /\ Accepted' \subseteq Nat
<1>1. Accepted \subseteq 1 .. Len(tasks) /\ Len(tasks) \in Nat
  BY DEF Accepted, StoreTypeOK
<1>2. Accepted' \subseteq 1 .. Len(tasks') /\ Len(tasks') \in Nat
  BY DEF Accepted, StoreTypeOK
<1>3. \A n \in Nat : IsFiniteSet(1 .. n)
  BY FS_Interval
<1>4. IsFiniteSet(Accepted)
  BY <1>1, <1>3, FS_Subset
<1>5. IsFiniteSet(Accepted')
  BY <1>2, <1>3, FS_Subset
<1> QED
  BY <1>1, <1>2, <1>4, <1>5

(* An enumeration without repetition of a finite set, as long as the set   *)
(* is large, leaves nothing out.                                           *)
LEMMA ArrangeShows ==
  ASSUME NEW stay \in SUBSET Nat, NEW come \in SUBSET Nat,
         IsFiniteSet(stay), IsFiniteSet(come), arrange(stay, come)
  PROVE  /\ visible' \in Seq(Nat)
         /\ Rows' = stay \union come
         /\ \A p, q \in DOMAIN visible' : p # q => visible'[p] # visible'[q]
<1> DEFINE all == stay \union come
           n == Cardinality(all)
<1>1. IsFiniteSet(all) /\ n \in Nat /\ n = Cardinality(all)
  BY FS_Union, FS_CardinalityType
<1>2. PICK order \in [1 .. n -> all] :
        /\ \A p, q \in DOMAIN order : p < q => order[p] # order[q]
        /\ visible' = order
  BY DEF arrange
<1> HIDE DEF n, all
<1>3. \A p, q \in 1 .. n : p # q => order[p] # order[q]
  <2> SUFFICES ASSUME NEW p \in 1 .. n, NEW q \in 1 .. n, p # q
               PROVE  order[p] # order[q]
    OBVIOUS
  <2>1. DOMAIN order = 1 .. n
    BY <1>2
  <2>2. p < q \/ q < p
    BY <1>1
  <2> QED
    BY <1>2, <2>1, <2>2
<1>4. order \in Injection(1 .. n, all)
  BY <1>2, <1>3 DEF Injection, IsInjective
<1>5. Cardinality(1 .. n) = n
  BY <1>1, FS_Interval
<1>6. order \in Surjection(1 .. n, all)
  BY <1>1, <1>4, <1>5, FS_Injection
<1>7. {order[p] : p \in 1 .. n} = all
  <2>1. \A t \in all : \E p \in 1 .. n : order[p] = t
    BY <1>6 DEF Surjection
  <2>2. \A p \in 1 .. n : order[p] \in all
    BY <1>2
  <2> QED
    BY <2>1, <2>2
<1>8. order \in [1 .. n -> Nat]
  BY <1>2 DEF all
<1>9. order \in Seq(Nat)
  BY <1>1, <1>8
<1>10. Rows' = all
  BY <1>2, <1>7 DEF Rows
<1> QED
  BY <1>2, <1>3, <1>9, <1>10 DEF all

(* One lemma per notification: the proxy asks again about the rows it      *)
(* names, and no other row's answer has changed.                           *)
LEMMA RowsInsertedShows ==
  ASSUME ListInv, StoreTypeOK, StoreTypeOK', NEW row, rowsInserted(row),
         Accepted \subseteq Accepted', Accepted' \subseteq Accepted \union {row}
  PROVE  ListInv'
<1>1. Rows \union ({row} \intersect Accepted') = Accepted'
  BY DEF ListInv, ListShowsFilter
<1>2. Rows = Accepted
  BY DEF ListInv, ListShowsFilter
<1>3. /\ IsFiniteSet(Rows) /\ Rows \in SUBSET Nat
      /\ IsFiniteSet({row} \intersect Accepted') /\ {row} \intersect Accepted' \in SUBSET Nat
  BY <1>2, FiniteAccepted, FS_Subset
<1> QED
  BY <1>1, <1>3, ArrangeShows DEF rowsInserted, ListInv, ListShowsFilter

LEMMA DataChangedShows ==
  ASSUME ListInv, StoreTypeOK, StoreTypeOK', NEW row, dataChanged(row),
         Accepted' \ {row} = Accepted \ {row}
  PROVE  ListInv'
<1>1. (Rows \ {row}) \union ({row} \intersect Accepted') = Accepted'
  BY DEF ListInv, ListShowsFilter
<1>2. Rows = Accepted
  BY DEF ListInv, ListShowsFilter
<1>3. /\ IsFiniteSet(Rows \ {row}) /\ Rows \ {row} \in SUBSET Nat
      /\ IsFiniteSet({row} \intersect Accepted') /\ {row} \intersect Accepted' \in SUBSET Nat
  BY <1>2, FiniteAccepted, FS_Subset
<1> QED
  BY <1>1, <1>3, ArrangeShows DEF dataChanged, ListInv, ListShowsFilter

LEMMA ModelResetShows ==
  ASSUME StoreTypeOK, StoreTypeOK', modelReset
  PROVE  ListInv'
<1>1. IsFiniteSet({}) /\ {} \union Accepted' = Accepted'
  BY FS_EmptySet
<1>2. IsFiniteSet(Accepted') /\ Accepted' \in SUBSET Nat /\ {} \in SUBSET Nat
  BY FiniteAccepted
<1> QED
  BY <1>1, <1>2, ArrangeShows DEF modelReset, ListInv, ListShowsFilter

LEMMA InvalidateFilterShows ==
  ASSUME ListInv, StoreTypeOK, StoreTypeOK', invalidateFilter
  PROVE  ListInv'
<1>1. (Rows \intersect Accepted') \union (Accepted' \ Rows) = Accepted'
  OBVIOUS
<1>2. /\ IsFiniteSet(Rows \intersect Accepted') /\ Rows \intersect Accepted' \in SUBSET Nat
      /\ IsFiniteSet(Accepted' \ Rows) /\ Accepted' \ Rows \in SUBSET Nat
  BY FiniteAccepted, FS_Subset
<1> QED
  BY <1>1, <1>2, ArrangeShows DEF invalidateFilter, ListInv, ListShowsFilter

(* A row goes, and the rows behind it move up, in the list as in the view. *)
LEMMA RowsRemovedShows ==
  ASSUME ListInv, StoreTypeOK, StoreTypeOK', NEW row \in DOMAIN tasks,
         tasks' = Without(tasks, row), SettingsStay, rowsRemoved(row)
  PROVE  ListInv'
<1> DEFINE up(r) == IF r > row THEN r - 1 ELSE r
           n == Len(tasks)
<1>1. /\ n \in Nat /\ DOMAIN tasks = 1 .. n /\ row \in 1 .. n
      /\ DOMAIN tasks' = 1 .. n - 1
      /\ \A j \in 1 .. n - 1 : tasks'[j] = tasks[IF j < row THEN j ELSE j + 1]
  BY WithoutType DEF StoreTypeOK
<1>2. /\ visible \in Seq(Nat) /\ Rows = Accepted /\ Accepted \subseteq 1 .. n
      /\ \A p, q \in DOMAIN visible : p # q => visible[p] # visible[q]
  BY <1>1 DEF ListInv, ListShowsFilter, Accepted
<1>3. \A r \in Nat : up(r) \in Nat
  BY <1>1
<1>4. Accepted' = {up(r) : r \in Accepted \ {row}}
  <2>1. \A r \in 1 .. n : r # row => up(r) \in 1 .. n - 1 /\ tasks'[up(r)] = tasks[r]
    BY <1>1
  <2>2. \A r \in 1 .. n : r # row => (up(r) \in Accepted' <=> r \in Accepted)
    BY <1>1, <2>1 DEF Accepted, filterAcceptsRow, SettingsStay
  <2>3. \A j \in Accepted' : \E r \in 1 .. n : r # row /\ up(r) = j
    <3> SUFFICES ASSUME NEW j \in 1 .. n - 1 PROVE \E r \in 1 .. n : r # row /\ up(r) = j
      BY <1>1 DEF Accepted
    <3>1. CASE j < row
      BY <1>1, <3>1
    <3>2. CASE ~(j < row)
      BY <1>1, <3>2
    <3> QED
      BY <3>1, <3>2
  <2> QED
    BY <1>2, <2>2, <2>3
<1>5. \A r, s \in Accepted \ {row} : r # s => up(r) # up(s)
  BY <1>1, <1>2
<1>6. CASE row \notin Rows /\ visible' = [p \in DOMAIN visible |-> up(visible[p])]
  <2>1. visible' \in Seq(Nat) /\ DOMAIN visible' = DOMAIN visible
    BY <1>2, <1>3, <1>6
  <2>2. Rows' = {up(r) : r \in Rows}
    BY <1>6, <2>1 DEF Rows
  <2>3. Rows' = Accepted'
    BY <1>2, <1>4, <1>6, <2>2
  <2>4. \A p, q \in DOMAIN visible' : p # q => visible'[p] # visible'[q]
    <3>1. \A p \in DOMAIN visible : visible[p] \in Accepted \ {row} /\ visible'[p] = up(visible[p])
      BY <1>2, <1>6 DEF Rows
    <3> HIDE DEF up
    <3> QED
      BY <1>2, <1>5, <2>1, <3>1
  <2> QED
    BY <2>1, <2>3, <2>4 DEF ListInv, ListShowsFilter
<1>7. ASSUME NEW k \in DOMAIN visible, visible[k] = row,
             visible' = [p \in DOMAIN Without(visible, k) |-> up(Without(visible, k)[p])]
      PROVE  ListInv'
  <2> DEFINE m == Len(visible)
             from(p) == IF p < k THEN p ELSE p + 1
  <2>1. /\ m \in Nat /\ DOMAIN visible = 1 .. m /\ k \in 1 .. m
        /\ DOMAIN Without(visible, k) = 1 .. m - 1
        /\ \A p \in 1 .. m - 1 : Without(visible, k)[p] = visible[from(p)]
    <3>1. visible \in Seq(Nat) /\ m \in Nat /\ DOMAIN visible = 1 .. m /\ k \in 1 .. m
      BY <1>2
    <3>2. /\ Without(visible, k) \in Seq(Nat)
          /\ Len(Without(visible, k)) = m - 1
          /\ \A p \in 1 .. m - 1 : Without(visible, k)[p] = visible[from(p)]
      BY <3>1, WithoutType
    <3> QED
      BY <3>1, <3>2
  <2>2. /\ DOMAIN visible' = 1 .. m - 1
        /\ \A p \in 1 .. m - 1 : visible'[p] = up(visible[from(p)])
    BY <1>7, <2>1
  <2>3. \A p \in 1 .. m - 1 : from(p) \in 1 .. m /\ from(p) # k
    BY <2>1
  <2>4. \A p \in 1 .. m - 1 : visible[from(p)] \in Accepted \ {row}
    BY <1>2, <1>7, <2>1, <2>3 DEF Rows
  <2>5. visible' \in Seq(Nat)
    <3>1. visible' = [p \in 1 .. m - 1 |-> up(visible[from(p)])]
      BY <1>7, <2>1
    <3>2. \A p \in 1 .. m - 1 : up(visible[from(p)]) \in Nat
      <4> SUFFICES ASSUME NEW p \in 1 .. m - 1 PROVE up(visible[from(p)]) \in Nat
        OBVIOUS
      <4>1. visible[from(p)] \in Accepted /\ visible[from(p)] # row
        BY <2>4
      <4>2. visible[from(p)] \in Nat
        BY <1>1, <1>2, <4>1
      <4> HIDE DEF up, from
      <4> QED
        BY <1>3, <4>2
    <3> QED
      BY <2>1, <3>1, <3>2
  <2>6. \A r \in Accepted \ {row} : \E p \in 1 .. m - 1 : visible[from(p)] = r
    <3> SUFFICES ASSUME NEW r \in Accepted \ {row}
                 PROVE  \E p \in 1 .. m - 1 : visible[from(p)] = r
      OBVIOUS
    <3>1. PICK q \in 1 .. m : visible[q] = r
      BY <1>2, <2>1 DEF Rows
    <3>2. q # k
      BY <1>7, <3>1
    <3>3. CASE q < k
      <4>1. q \in 1 .. m - 1 /\ from(q) = q
        BY <2>1, <3>3
      <4> QED
        BY <3>1, <4>1
    <3>4. CASE q > k
      <4>1. q - 1 \in 1 .. m - 1 /\ from(q - 1) = q
        BY <2>1, <3>4
      <4> QED
        BY <3>1, <4>1
    <3> QED
      BY <2>1, <3>2, <3>3, <3>4
  <2>7. Rows' = Accepted'
    <3>1. Rows' = {up(visible[from(p)]) : p \in 1 .. m - 1}
      BY <2>2 DEF Rows
    <3>2. {up(visible[from(p)]) : p \in 1 .. m - 1} = {up(r) : r \in Accepted \ {row}}
      <4> HIDE DEF up, from
      <4> QED
        BY <2>4, <2>6, Zenon
    <3> QED
      BY <1>4, <3>1, <3>2
  <2>8. \A p, q \in 1 .. m - 1 : p # q => visible'[p] # visible'[q]
    <3>1. \A p, q \in 1 .. m - 1 : p # q => from(p) # from(q)
      BY <2>1
    <3>2. \A p, q \in 1 .. m - 1 : p # q => visible[from(p)] # visible[from(q)]
      BY <1>2, <2>1, <2>3, <3>1
    <3> HIDE DEF up, from
    <3> QED
      BY <1>5, <2>2, <2>4, <3>2
  <2> QED
    BY <2>2, <2>5, <2>7, <2>8 DEF ListInv, ListShowsFilter
<1> QED
  BY <1>6, <1>7 DEF rowsRemoved

-----------------------------------------------------------------------------
(* What the commands do to the rows. *)

LEMMA AddedRow ==
  ASSUME ModelInv, NEW body \in Bodies, NEW now \in Times, AddTask(body, now), SettingsStay
  PROVE  Accepted \subseteq Accepted' /\ Accepted' \subseteq Accepted \union {Len(tasks) + 1}
<1>1. tasks \in Seq(Task)
  BY DEF ModelInv, StoreInv, StoreTypeOK
<1>2. CASE UNCHANGED tasks
  BY <1>2 DEF Accepted, filterAcceptsRow, SettingsStay
<1>3. CASE \E task \in Task : tasks' = Append(tasks, task)
  <2>1. /\ DOMAIN tasks \subseteq DOMAIN tasks'
        /\ DOMAIN tasks' \subseteq DOMAIN tasks \union {Len(tasks) + 1}
        /\ \A i \in DOMAIN tasks : tasks'[i] = tasks[i]
    BY <1>1, <1>3
  <2> QED
    BY <2>1 DEF Accepted, filterAcceptsRow, SettingsStay
<1>4. UNCHANGED tasks \/ \E task \in Task : tasks' = Append(tasks, task)
  <2> DEFINE given == [id |-> 0, body |-> body, done |-> FALSE, createdAt |-> NoTime]
             stored == [id |-> nextId, body |-> Trimmed[body], done |-> FALSE, createdAt |-> now]
  <2>1. addTask(given, now)
    BY DEF AddTask
  <2>2. given.body = body /\ given.done = FALSE /\ given.createdAt = NoTime
    OBVIOUS
  <2>3. UNCHANGED tasks \/ tasks' = Append(tasks, stored)
    BY <2>1, <2>2 DEF addTask, storeVars
  <2>4. stored \in Task
    BY BodyAssumption DEF ModelInv, StoreInv, StoreTypeOK, Task
  <2> QED
    BY <2>3, <2>4
<1> QED
  BY <1>2, <1>3, <1>4

(* The commands on a row change the filter's answer for that row alone. *)
LEMMA ChangedRow ==
  ASSUME ModelInv, NEW row \in DOMAIN tasks, SettingsStay,
         \/ \E body \in Bodies : UpdateTask(row, body)
         \/ ToggleDone(row)
  PROVE  Accepted' \ {row} = Accepted \ {row}
<1>1. tasks \in Seq(Task) /\ indexOfId(tasks[row].id) = {row}
  BY IndexOfRow DEF ModelInv, StoreInv, StoreTypeOK
<1>2. DOMAIN tasks' = DOMAIN tasks /\ \A i \in DOMAIN tasks : i # row => tasks'[i] = tasks[i]
  <2>1. CASE \E body \in Bodies : UpdateTask(row, body)
    BY <1>1, <2>1 DEF UpdateTask, updateTask, storeVars
  <2>2. CASE ToggleDone(row)
    BY <1>1, <2>2 DEF ToggleDone, setDone, storeVars
  <2> QED
    BY <2>1, <2>2
<1> QED
  BY <1>2 DEF Accepted, filterAcceptsRow, SettingsStay

(* A command removes the row it was given. *)
LEMMA RemovedRow ==
  ASSUME ModelInv, NEW row \in DOMAIN tasks, RemoveTask(row)
  PROVE  tasks' = Without(tasks, row)
<1>1. indexOfId(tasks[row].id) = {row}
  BY IndexOfRow DEF ModelInv
<1> QED
  BY <1>1 DEF RemoveTask, removeTask

(* A proxy row is mapped to a row of the list. *)
LEMMA SourceRowExists ==
  ASSUME PageInv, NEW proxyRow \in DOMAIN visible
  PROVE  sourceRow(proxyRow) \in DOMAIN tasks
BY DEF PageInv, ListInv, ListShowsFilter, Rows, Accepted, sourceRow

(* Nothing happened to the list or to what it shows. *)
LEMMA SameListInv ==
  ASSUME PageInv, UNCHANGED <<tasks, filterVars>>
  PROVE  ListInv'
BY DEF PageInv, ListInv, ListShowsFilter, Rows, Accepted, filterAcceptsRow, filterVars

LEMMA ModelTypes ==
  ASSUME ModelInv, ModelInv'
  PROVE  StoreTypeOK /\ StoreTypeOK'
BY DEF ModelInv, StoreInv

-----------------------------------------------------------------------------
(* The steps of the page. *)

LEMMA PageInitInv == Init => PageInv
<1> SUFFICES ASSUME Init PROVE PageInv
  OBVIOUS
<1>1. ModelInv
  BY ModelInitInv DEF Init, ListInit
<1>2. ListInv
  BY DEF Init, ListInit, StoreInit, FilterInit, ListInv, ListShowsFilter, Rows, Accepted
<1>3. draft \in Bodies /\ samplesLeft \in Seq(Bodies)
  BY DraftAssumption, BodyAssumption DEF Init
<1> QED
  BY <1>1, <1>2, <1>3 DEF PageInv

LEMMA StartUpInv ==
  ASSUME PageInv, NEW ok \in BOOLEAN, StartUp(ok)
  PROVE  PageInv'
<1>1. ModelInv'
  BY LoadFileInv DEF PageInv, StartUp
<1>2. ListInv'
  BY <1>1, ModelTypes, ModelResetShows DEF PageInv, StartUp
<1>3. draft' \in Bodies /\ samplesLeft' \in Seq(Bodies)
  BY DraftAssumption DEF PageInv, StartUp, dialogVars
<1> QED
  BY <1>1, <1>2, <1>3 DEF PageInv

LEMMA AddSampleInv ==
  ASSUME PageInv, NEW now \in Times, AddSample(now)
  PROVE  PageInv'
<1>1. samplesLeft \in Seq(Bodies) /\ samplesLeft # <<>>
  BY DEF PageInv, AddSample
<1>2. Head(samplesLeft) \in Bodies /\ Tail(samplesLeft) \in Seq(Bodies)
  BY <1>1
<1>3. ModelInv'
  BY <1>2, AddTaskInv DEF PageInv, AddSample
<1>4. ListInv'
  BY <1>2, <1>3, ModelTypes, AddedRow, RowsInsertedShows DEF PageInv, AddSample
<1> QED
  BY <1>2, <1>3, <1>4 DEF PageInv, AddSample, dialogVars

LEMMA AcceptedInv ==
  ASSUME PageInv, accepted
  PROVE  PageInv'
<1>1. CASE acceptedRow
  <2>1. editing \in DOMAIN tasks /\ draft \in Bodies /\ UpdateTask(editing, draft)
    BY <1>1 DEF acceptedRow, PageInv
  <2>2. ModelInv'
    BY <2>1, UpdateTaskInv DEF PageInv
  <2>3. CASE draft \in Blank
    <3>1. tasks[editing] \in Task
      BY <2>1 DEF PageInv, ModelInv, StoreInv, StoreTypeOK
    <3>2. [tasks[editing] EXCEPT !.body = draft].body = draft
      BY <3>1 DEF Task
    <3>3. UNCHANGED storeVars
      BY <2>1, <2>3, <3>2 DEF UpdateTask, updateTask
    <3>4. UNCHANGED <<tasks, filterVars>>
      BY <1>1, <2>3, <3>3 DEF acceptedRow, accepted, SettingsStay, storeVars, filterVars
    <3> QED
      BY <2>2, <3>4, SameListInv DEF PageInv, accepted, startVars
  <2>4. CASE draft \notin Blank
    <3>1. ListInv'
      BY <1>1, <2>1, <2>2, <2>4, ModelTypes, ChangedRow, DataChangedShows
         DEF PageInv, accepted, acceptedRow
    <3> QED
      BY <2>2, <3>1 DEF PageInv, accepted, startVars
  <2> QED
    BY <2>3, <2>4
<1>2. ASSUME NEW now \in Times, acceptedNew(now) PROVE PageInv'
  <2>1. draft \in Bodies /\ AddTask(draft, now) /\ SettingsStay
    BY <1>2 DEF acceptedNew, accepted, PageInv
  <2>2. ModelInv'
    BY <2>1, AddTaskInv DEF PageInv
  <2>3. ListInv'
    BY <1>2, <2>1, <2>2, ModelTypes, AddedRow, RowsInsertedShows DEF PageInv, acceptedNew
  <2> QED
    BY <2>2, <2>3 DEF PageInv, accepted, startVars
<1> QED
  BY <1>1, <1>2 DEF accepted

(* The row that was announced in vain was never shown.                     *)
LEMMA TakeBackKeeps ==
  ASSUME PageInv, TakeBack
  PROVE  UNCHANGED <<tasks, nextId, filterVars, editing, editedId>>
<1>1. tasks \in Seq(Task) /\ Len(mirror) = Len(tasks) + 1 /\ UNCHANGED <<tasks, nextId>>
  <2>1. tasks \in Seq(Task) /\ mirror = Append(tasks, UnknownRow)
    BY DEF TakeBack, TakeRowBack, PageInv, ModelInv, MirrorInv, StoreInv, StoreTypeOK
  <2>2. tasks \in Seq(Task \union {UnknownRow})
    BY <2>1
  <2>3. Len(mirror) = Len(tasks) + 1
    BY <2>1, <2>2
  <2> QED
    BY <2>1, <2>3 DEF TakeBack, TakeRowBack, storeVars
<1>2. \A p \in DOMAIN visible : visible[p] \in Nat /\ visible[p] < Len(mirror)
  <2>1. \A p \in DOMAIN visible : visible[p] \in DOMAIN tasks
    BY DEF PageInv, ListInv, ListShowsFilter, Rows, Accepted
  <2>2. DOMAIN tasks = 1 .. Len(tasks) /\ Len(tasks) \in Nat
    BY <1>1
  <2> QED
    BY <1>1, <2>1, <2>2
<1>3. visible' = visible
  <2>1. Len(mirror) \notin Rows
    BY <1>2 DEF Rows
  <2>2. visible' = [p \in DOMAIN visible |->
                     IF visible[p] > Len(mirror) THEN visible[p] - 1 ELSE visible[p]]
    BY <2>1 DEF TakeBack, rowsRemoved, Rows
  <2>3. \A p \in DOMAIN visible : visible'[p] = visible[p]
    BY <1>1, <1>2, <2>2
  <2> QED
    BY <2>2, <2>3 DEF PageInv, ListInv
<1> QED
  BY <1>1, <1>3 DEF TakeBack, SettingsStay, filterVars, dialogVars

LEMMA TakeBackInv ==
  ASSUME PageInv, TakeBack
  PROVE  PageInv'
<1>1. ModelInv'
  BY TakeRowBackInv DEF PageInv, TakeBack
<1>2. ListInv'
  BY TakeBackKeeps, SameListInv
<1> QED
  BY <1>1, <1>2 DEF PageInv, TakeBack, dialogVars, startVars

LEMMA RowClickedInv ==
  ASSUME PageInv, RowClicked
  PROVE  PageInv'
<1>1. PICK proxyRow \in DOMAIN visible : toggleRequested(proxyRow) \/ removeRequested(proxyRow)
  BY DEF RowClicked
<1> DEFINE row == sourceRow(proxyRow)
<1>2. row \in DOMAIN tasks /\ SettingsStay
  BY SourceRowExists DEF RowClicked
<1> HIDE DEF row
<1>3. CASE toggleRequested(proxyRow)
  <2>1. ToggleDone(row) /\ dataChanged(row)
    BY <1>3 DEF toggleRequested, row
  <2>2. ModelInv'
    BY <1>2, <2>1, ToggleDoneInv DEF PageInv
  <2>3. ListInv'
    BY <1>2, <2>1, <2>2, ModelTypes, ChangedRow, DataChangedShows DEF PageInv
  <2> QED
    BY <2>2, <2>3 DEF PageInv, RowClicked, dialogVars, startVars
<1>4. CASE removeRequested(proxyRow)
  <2>1. RemoveTask(row) /\ rowsRemoved(row)
    BY <1>4 DEF removeRequested, row
  <2>2. ModelInv'
    BY <1>2, <2>1, RemoveTaskInv DEF PageInv
  <2>3. ListInv'
    BY <1>2, <2>1, <2>2, ModelTypes, RemovedRow, RowsRemovedShows DEF PageInv
  <2> QED
    BY <2>2, <2>3 DEF PageInv, RowClicked, dialogVars, startVars
<1> QED
  BY <1>1, <1>3, <1>4

LEMMA ClearDoneInv ==
  ASSUME PageInv, clearDone
  PROVE  PageInv'
<1>1. ModelInv'
  BY ClearCompletedInv DEF PageInv, clearDone
<1>2. ListInv'
  BY <1>1, ModelTypes, ModelResetShows DEF PageInv, clearDone
<1> QED
  BY <1>1, <1>2 DEF PageInv, clearDone, dialogVars, startVars

LEMMA ViewChosenInv ==
  ASSUME PageInv, ViewChosen
  PROVE  PageInv'
<1>1. UNCHANGED allVars /\ (invalidateFilter \/ modelReset)
  BY DEF ViewChosen, setSearchText, setShowCompleted, setSortMode, invalidate, modelReset
<1>2. ModelInv'
  BY <1>1, ModelStutterInv DEF PageInv
<1>3. ListInv'
  BY <1>1, <1>2, ModelTypes, InvalidateFilterShows, ModelResetShows DEF PageInv
<1> QED
  BY <1>2, <1>3 DEF PageInv, ViewChosen, dialogVars, startVars

(* The dialog is opened, typed into or cancelled. *)
LEMMA DialogInv ==
  ASSUME PageInv, openForNew \/ editRequested \/ rejected \/ \E body \in Bodies : Type(body)
  PROVE  PageInv'
<1>1. UNCHANGED <<allVars, filterVars, startVars>>
  BY DEF openForNew, editRequested, openForRow, rejected, Type
<1>2. ModelInv' /\ ListInv'
  BY <1>1, ModelStutterInv, SameListInv DEF PageInv, allVars, storeVars
<1>3. draft' \in Bodies
  <2>1. CASE openForNew
    BY <2>1, DraftAssumption, BodyAssumption DEF openForNew, fill
  <2>2. ASSUME NEW proxyRow \in DOMAIN visible, openForRow(sourceRow(proxyRow))
        PROVE  draft' \in Bodies
    <3>1. tasks[sourceRow(proxyRow)].body \in Bodies
      <4>1. tasks[sourceRow(proxyRow)] \in Task
        BY SourceRowExists, RowType DEF PageInv, ModelInv, StoreInv
      <4> QED
        BY <4>1 DEF Task
    <3> QED
      BY <2>2, <3>1, DraftAssumption DEF openForRow, fill
  <2>3. CASE rejected
    BY <2>3 DEF rejected, PageInv
  <2>4. CASE \E body \in Bodies : Type(body)
    BY <2>4 DEF Type, fill
  <2> QED
    BY <2>1, <2>2, <2>3, <2>4 DEF editRequested
<1> QED
  BY <1>1, <1>2, <1>3 DEF PageInv, startVars

LEMMA PageNextInv ==
  ASSUME PageInv, [Next]_vars
  PROVE  PageInv'
<1>1. CASE Next
  BY <1>1, StartUpInv, AddSampleInv, ViewChosenInv, ClearDoneInv, RowClickedInv, AcceptedInv,
     TakeBackInv, DialogInv DEF Next
<1>2. CASE UNCHANGED vars
  BY <1>2, ModelStutterInv, SameListInv
     DEF vars, allVars, storeVars, dialogVars, startVars, PageInv
<1> QED
  BY <1>1, <1>2

(* Hence it is inductive. *)
LEMMA PageInvInductive == Spec => []PageInv
<1>1. Init => PageInv
  BY PageInitInv
<1>2. PageInv /\ [Next]_vars => PageInv'
  BY PageNextInv
<1> QED
  BY <1>1, <1>2, PTL DEF Spec

-----------------------------------------------------------------------------
(* The list shows exactly the rows the filter accepts, after every command *)
(* and every change of the filter (TaskFilterModel.cpp:7-80).              *)
THEOREM ListIsTheFilter == Spec => []ListShowsFilter
<1>1. PageInv => ListShowsFilter
  BY DEF PageInv, ListInv
<1> QED
  BY <1>1, PageInvInductive, PTL

(* The comparison never breaks the sort: it is a strict weak order of all  *)
(* the tasks there can be, so of those in the list                         *)
(* (TaskFilterModel.cpp:82-120).                                           *)
THEOREM OrderStaysWeak == Spec => []OrderIsStrictWeak
<1>1. PageInv => OrderIsStrictWeak
  <2> SUFFICES ASSUME PageInv, NEW mode \in SortModes
               PROVE  StrictWeakOrder(mode, {tasks[i] : i \in DOMAIN tasks})
    BY DEF OrderIsStrictWeak
  <2>1. {tasks[i] : i \in DOMAIN tasks} \subseteq Task
    BY DEF PageInv, ModelInv, StoreInv, StoreTypeOK
  <2> QED
    BY <2>1, OrderOnTasks, Zenon DEF StrictWeakOrder
<1> QED
  BY <1>1, PageInvInductive, PTL

-----------------------------------------------------------------------------
(* The open dialog: its row is shown and is still the row of the task it   *)
(* was opened for, and a title can be saved.                               *)
OpenDialogInv ==
  /\ editing # NotOpen =>
       /\ loaded /\ samplesLeft = <<>>
       /\ editing # 0 => editing \in Rows /\ tasks[editing].id = editedId
  /\ draft \notin Blank => saveEnabled

LEMMA FillEnables ==
  ASSUME PageInv, OpenDialogInv, NEW body \in Bodies, fill(body)
  PROVE  draft' \notin Blank => saveEnabled'
BY DraftAssumption DEF PageInv, OpenDialogInv, fill

LEMMA OpenedInv ==
  ASSUME PageInv, OpenDialogInv, openForNew \/ editRequested
  PROVE  OpenDialogInv'
<1>1. UNCHANGED <<tasks, visible, loaded, samplesLeft>> /\ loaded /\ samplesLeft = <<>>
  BY DEF openForNew, editRequested, openForRow, Usable, allVars, storeVars, filterVars, startVars
<1>2. CASE openForNew
  <2>1. editing' = 0 /\ NewDraft \in Bodies /\ fill(NewDraft)
    BY <1>2, DraftAssumption, BodyAssumption DEF openForNew
  <2> QED
    BY <1>1, <2>1, FillEnables DEF OpenDialogInv
<1>3. ASSUME NEW proxyRow \in DOMAIN visible, openForRow(sourceRow(proxyRow)) PROVE OpenDialogInv'
  <2> DEFINE row == sourceRow(proxyRow)
  <2>1. row \in DOMAIN tasks /\ row \in Rows
    BY SourceRowExists DEF sourceRow, Rows
  <2>2. Drafted[tasks[row].body] \in Bodies
    <3>1. tasks[row] \in Task
      BY <2>1, RowType DEF PageInv, ModelInv, StoreInv
    <3> QED
      BY <3>1, DraftAssumption DEF Task
  <2>3. editing' = row /\ editedId' = tasks[row].id /\ fill(Drafted[tasks[row].body])
    BY <1>3 DEF openForRow
  <2> HIDE DEF row
  <2> QED
    BY <1>1, <2>1, <2>2, <2>3, FillEnables DEF OpenDialogInv, Rows
<1> QED
  BY <1>2, <1>3 DEF editRequested

LEMMA OpenDialogNextInv ==
  ASSUME PageInv, OpenDialogInv, [Next]_vars
  PROVE  OpenDialogInv'
<1>1. ASSUME NEW ok \in BOOLEAN, StartUp(ok) PROVE OpenDialogInv'
  BY <1>1 DEF StartUp, OpenDialogInv, dialogVars
<1>2. ASSUME NEW now \in Times, AddSample(now) PROVE OpenDialogInv'
  BY <1>2 DEF AddSample, OpenDialogInv, dialogVars
<1>3. CASE ViewChosen \/ clearDone \/ RowClicked
  BY <1>3 DEF ViewChosen, clearDone, RowClicked, Usable, OpenDialogInv, dialogVars
<1>4. CASE openForNew \/ editRequested
  BY <1>4, OpenedInv
<1>5. ASSUME NEW body \in Bodies, Type(body) PROVE OpenDialogInv'
  <2>1. UNCHANGED <<tasks, visible, loaded, samplesLeft, editing, editedId>> /\ fill(body)
    BY <1>5 DEF Type, allVars, storeVars, filterVars, startVars
  <2> QED
    BY <2>1, FillEnables DEF OpenDialogInv, Rows
<1>6. CASE accepted \/ rejected
  BY <1>6 DEF accepted, rejected, OpenDialogInv
<1>7. CASE TakeBack
  <2>1. UNCHANGED <<tasks, loaded, samplesLeft, editing, editedId, draft, saveEnabled>>
    BY <1>7 DEF TakeBack, TakeRowBack, storeVars, dialogVars, startVars
  <2>2. Rows' = Rows
    <3>1. ListInv /\ ListInv'
      BY <1>7, TakeBackInv DEF PageInv
    <3>2. Accepted' = Accepted
      BY <1>7, <2>1 DEF TakeBack, SettingsStay, Accepted, filterAcceptsRow
    <3> QED
      BY <3>1, <3>2 DEF ListInv, ListShowsFilter
  <2> QED
    BY <2>1, <2>2 DEF OpenDialogInv
<1>8. CASE UNCHANGED vars
  BY <1>8 DEF vars, allVars, storeVars, filterVars, dialogVars, startVars, OpenDialogInv, Rows
<1> QED
  BY <1>1, <1>2, <1>3, <1>4, <1>5, <1>6, <1>7, <1>8 DEF Next

(* So is what the open dialog relies on. *)
LEMMA OpenDialogInvInductive == Spec => [](PageInv /\ OpenDialogInv)
<1>1. Init => OpenDialogInv
  BY DraftAssumption DEF Init, OpenDialogInv
<1>2. PageInv /\ OpenDialogInv /\ [Next]_vars => OpenDialogInv'
  BY OpenDialogNextInv
<1> QED
  BY <1>1, <1>2, PageInvInductive, PTL DEF Spec

(* Whatever the button went through in earlier openings, a dialog with a   *)
(* title can be saved (TaskEditorDialog.qml:80-88).                        *)
THEOREM TitledDraftCanBeSaved == Spec => []SaveFollowsTitle
<1>1. OpenDialogInv => SaveFollowsTitle
  BY DEF OpenDialogInv, SaveFollowsTitle
<1> QED
  BY <1>1, OpenDialogInvInductive, PTL

-----------------------------------------------------------------------------
(* What an accepted dialog does to the other rows. *)
LEMMA NoRowZero == PageInv => 0 \notin DOMAIN tasks
BY RowType DEF PageInv, ModelInv, StoreInv

(* Save changes the row of the task the dialog was opened for, and no      *)
(* other.                                                                  *)
LEMMA AcceptedRows ==
  ASSUME PageInv, OpenDialogInv, accepted
  PROVE  /\ editing # 0 => editing \in Rows /\ tasks[editing].id = editedId
         /\ \A row \in DOMAIN tasks \ {editing} : row \in DOMAIN tasks' /\ tasks'[row] = tasks[row]
<1>1. ModelInv /\ tasks \in Seq(Task) /\ draft \in Bodies
  BY DEF PageInv, ModelInv, StoreInv, StoreTypeOK
<1>2. CASE acceptedRow
  <2>1. editing \in DOMAIN tasks /\ UpdateTask(editing, draft)
    BY <1>2 DEF acceptedRow
  <2>2. editing # NotOpen /\ editing # 0
    BY <1>1, <2>1, NoRowZero, DraftAssumption
  <2>3. indexOfId(tasks[editing].id) = {editing}
    BY <1>1, <2>1, IndexOfRow DEF ModelInv
  <2> QED
    BY <1>1, <2>1, <2>2, <2>3 DEF OpenDialogInv, UpdateTask, updateTask, storeVars
<1>3. ASSUME NEW now \in Times, acceptedNew(now)
      PROVE  editing = 0 /\ \A row \in DOMAIN tasks : row \in DOMAIN tasks' /\ tasks'[row] = tasks[row]
  <2>1. CASE UNCHANGED tasks
    BY <1>3, <2>1 DEF acceptedNew
  <2>2. CASE ~UNCHANGED tasks
    <3>1. PICK task : tasks' = Append(tasks, task)
      BY <1>3, <2>2 DEF acceptedNew, AddTask, addTask, storeVars
    <3> QED
      BY <1>1, <1>3, <3>1 DEF acceptedNew
  <2> QED
    BY <2>1, <2>2
<1> QED
  BY <1>2, <1>3 DEF accepted

(* An edit changes the task the dialog was opened for and no other         *)
(* (TaskEditorDialog.qml:25-28, 61-69).                                    *)
THEOREM EditsLand == Spec => EditLandsOnItsTask
<1> DEFINE OthersStay == \A row \in DOMAIN tasks :
                           tasks[row].id # editedId => tasks'[row] = tasks[row]
<1>1. ASSUME PageInv, OpenDialogInv, accepted PROVE OthersStay
  BY <1>1, NoRowZero, AcceptedRows
<1>2. PageInv /\ OpenDialogInv /\ [Next]_vars => [accepted => OthersStay]_vars
  BY <1>1
<1> QED
  BY <1>2, OpenDialogInvInductive, PTL DEF Spec, EditLandsOnItsTask

(* What is done to a row of the list, or saved in the dialog, leaves the   *)
(* tasks alone that the list does not show                                 *)
(* (TasksPage.qml:113-123, TaskFilterModel.cpp:51-57).                     *)
THEOREM HiddenTasksStay == Spec => HiddenTasksUntouched
<1> DEFINE HiddenStay == \A row \in DOMAIN tasks \ Rows : \E i \in DOMAIN tasks' : tasks'[i] = tasks[row]
<1>1. ASSUME PageInv, OpenDialogInv, accepted PROVE HiddenStay
  BY <1>1, NoRowZero, AcceptedRows
<1>2. ASSUME PageInv, RowClicked PROVE HiddenStay
  <2>1. PICK proxyRow \in DOMAIN visible : toggleRequested(proxyRow) \/ removeRequested(proxyRow)
    BY <1>2 DEF RowClicked
  <2> DEFINE row == sourceRow(proxyRow)
  <2>2. /\ row \in DOMAIN tasks /\ row \in Rows
        /\ indexOfId(tasks[row].id) = {row}
        /\ tasks \in Seq(Task)
    <3>1. row \in DOMAIN tasks /\ row \in Rows
      BY <1>2, SourceRowExists DEF sourceRow, Rows
    <3> QED
      BY <1>2, <3>1, IndexOfRow DEF PageInv, ModelInv, StoreInv, StoreTypeOK
  <2> HIDE DEF row
  <2>3. CASE ToggleDone(row)
    BY <2>2, <2>3 DEF ToggleDone, setDone, storeVars
  <2>4. CASE RemoveTask(row)
    <3>1. tasks' = Without(tasks, row)
      BY <1>2, <2>2, <2>4, RemovedRow DEF PageInv
    <3> row \in 1 .. Len(tasks) /\ Len(tasks) \in Nat
      BY <2>2
    <3>2. /\ Len(tasks') = Len(tasks) - 1 /\ DOMAIN tasks' = 1 .. Len(tasks) - 1
          /\ \A j \in 1 .. Len(tasks) - 1 : tasks'[j] = tasks[IF j < row THEN j ELSE j + 1]
      BY <2>2, <3>1, WithoutType
    <3>3. ASSUME NEW other \in DOMAIN tasks, other # row
          PROVE  \E i \in DOMAIN tasks' : tasks'[i] = tasks[other]
      <4>1. CASE other < row
        BY <2>2, <3>2, <3>3, <4>1
      <4>2. CASE other > row
        <5>1. other - 1 \in DOMAIN tasks' /\ tasks'[other - 1] = tasks[other]
          BY <2>2, <3>2, <3>3, <4>2
        <5> QED
          BY <5>1
      <4> QED
        BY <2>2, <3>3, <4>1, <4>2
    <3> QED
      BY <2>2, <3>3
  <2> QED
    BY <2>1, <2>3, <2>4 DEF toggleRequested, removeRequested, row
<1>3. PageInv /\ OpenDialogInv /\ [Next]_vars => [RowClicked \/ accepted => HiddenStay]_vars
  BY <1>1, <1>2
<1> QED
  BY <1>3, OpenDialogInvInductive, PTL DEF Spec, HiddenTasksUntouched

-----------------------------------------------------------------------------
(* The types of the page. Each of its steps is a step of the list model or *)
(* leaves the model alone.                                                 *)
PageTypes ==
  /\ NoticeInv
  /\ searchText \in Texts /\ showCompleted \in BOOLEAN /\ sortMode \in SortModes
  /\ loaded \in BOOLEAN
  /\ editing \in Nat \union {NotOpen}
  /\ saveEnabled \in BOOLEAN
  /\ editedId \in Nat

(* Every step of the page is a step of the list model, or none. *)
LEMMA PageModelStep ==
  ASSUME PageInv, [Next]_vars
  PROVE  ModelStep
<1>1. ASSUME NEW ok \in BOOLEAN, StartUp(ok) PROVE ModelStep
  BY <1>1 DEF StartUp, ModelStep, Commands
<1>2. ASSUME NEW now \in Times, AddSample(now) PROVE ModelStep
  <2>1. samplesLeft \in Seq(Bodies) /\ samplesLeft # <<>>
    BY <1>2 DEF PageInv, AddSample
  <2>2. Head(samplesLeft) \in Bodies
    BY <2>1
  <2> QED
    BY <1>2, <2>2 DEF AddSample, ModelStep, Commands
<1>3. CASE ViewChosen
  BY <1>3 DEF ViewChosen, setSearchText, setShowCompleted, setSortMode, ModelStep
<1>4. CASE clearDone
  BY <1>4 DEF clearDone, ModelStep, Commands
<1>5. CASE RowClicked
  <2>1. PICK proxyRow \in DOMAIN visible : toggleRequested(proxyRow) \/ removeRequested(proxyRow)
    BY <1>5 DEF RowClicked
  <2>2. sourceRow(proxyRow) \in DOMAIN tasks
    BY SourceRowExists
  <2> QED
    BY <2>1, <2>2 DEF toggleRequested, removeRequested, ModelStep, Commands, RowCommand
<1>6. CASE openForNew \/ editRequested \/ rejected \/ \E body \in Bodies : Type(body)
  <2>1. UNCHANGED allVars
    BY <1>6 DEF openForNew, editRequested, openForRow, rejected, Type
  <2> QED
    BY <2>1 DEF ModelStep
<1>7. CASE accepted
  <2>1. draft \in Bodies
    BY DEF PageInv
  <2>2. CASE acceptedRow
    BY <2>1, <2>2 DEF acceptedRow, ModelStep, Commands, RowCommand
  <2>3. CASE \E now \in Times : acceptedNew(now)
    BY <2>1, <2>3 DEF acceptedNew, ModelStep, Commands
  <2> QED
    BY <1>7, <2>2, <2>3 DEF accepted
<1>8. CASE TakeBack
  BY <1>8 DEF TakeBack, ModelStep, Commands
<1>9. CASE UNCHANGED vars
  <2>1. UNCHANGED allVars
    BY <1>9 DEF vars
  <2> QED
    BY <2>1 DEF ModelStep
<1> QED
  BY <1>1, <1>2, <1>3, <1>4, <1>5, <1>6, <1>7, <1>8, <1>9 DEF Next

LEMMA DialogTypes ==
  ASSUME PageInv, PageTypes,
         \/ openForNew \/ editRequested \/ rejected \/ accepted
         \/ \E body \in Bodies : Type(body)
  PROVE  /\ editing' \in Nat \union {NotOpen}
         /\ saveEnabled' \in BOOLEAN
         /\ editedId' \in Nat
<1>1. CASE openForNew
  BY <1>1 DEF openForNew, fill, PageTypes
<1>2. ASSUME NEW proxyRow \in DOMAIN visible, openForRow(sourceRow(proxyRow))
      PROVE  /\ editing' \in Nat \union {NotOpen}
             /\ saveEnabled' \in BOOLEAN
             /\ editedId' \in Nat
  <2> DEFINE row == sourceRow(proxyRow)
  <2>1. row \in DOMAIN tasks
    BY SourceRowExists
  <2>2. row \in Nat /\ tasks[row].id \in Nat
    <3>1. /\ Len(tasks) \in Nat /\ DOMAIN tasks = 1 .. Len(tasks)
          /\ tasks[row] \in Task /\ 0 < tasks[row].id
      BY <2>1, RowType DEF PageInv, ModelInv, StoreInv, IdsUnique
    <3> QED
      BY <2>1, <3>1 DEF Task
  <2>3. editing' = row /\ editedId' = tasks[row].id /\ fill(Drafted[tasks[row].body])
    BY <1>2 DEF openForRow
  <2> HIDE DEF row
  <2> QED
    BY <2>2, <2>3 DEF fill, PageTypes
<1>3. CASE rejected \/ accepted
  BY <1>3 DEF rejected, accepted, PageTypes
<1>4. CASE \E body \in Bodies : Type(body)
  BY <1>4 DEF Type, fill, PageTypes
<1> QED
  BY <1>1, <1>2, <1>3, <1>4 DEF editRequested

LEMMA PageTypesNext ==
  ASSUME PageInv, PageTypes, [Next]_vars
  PROVE  PageTypes'
<1>1. NoticeInv'
  BY PageModelStep, NoticeStepInv DEF PageInv, PageTypes
<1>2. searchText' \in Texts /\ showCompleted' \in BOOLEAN /\ sortMode' \in SortModes
  <2>1. CASE ViewChosen
    BY <2>1 DEF ViewChosen, setSearchText, setShowCompleted, setSortMode, PageTypes
  <2>2. CASE UNCHANGED <<searchText, showCompleted, sortMode>>
    BY <2>2 DEF PageTypes
  <2> QED
    BY <2>1, <2>2 DEF Next, StartUp, AddSample, clearDone, RowClicked, editRequested, openForNew,
                      openForRow, Type, accepted, rejected, TakeBack, SettingsStay, filterVars, vars
<1>3. loaded' \in BOOLEAN
  <2>1. CASE \E ok \in BOOLEAN : StartUp(ok)
    BY <2>1 DEF StartUp
  <2>2. CASE UNCHANGED loaded
    BY <2>2 DEF PageTypes
  <2> QED
    BY <2>1, <2>2 DEF Next, AddSample, ViewChosen, clearDone, RowClicked, editRequested, openForNew,
                      openForRow, Type, accepted, rejected, TakeBack, startVars, vars
<1>4. /\ editing' \in Nat \union {NotOpen}
      /\ saveEnabled' \in BOOLEAN
      /\ editedId' \in Nat
  <2>1. CASE \/ openForNew \/ editRequested \/ rejected \/ accepted
             \/ \E body \in Bodies : Type(body)
    BY <2>1, DialogTypes
  <2>2. CASE UNCHANGED dialogVars
    BY <2>2 DEF dialogVars, PageTypes
  <2> QED
    BY <2>1, <2>2 DEF Next, StartUp, AddSample, ViewChosen, clearDone, RowClicked, TakeBack, vars
<1> QED
  BY <1>1, <1>2, <1>3, <1>4 DEF PageTypes

(* Hence types stay. *)
LEMMA PageTypesInductive == Spec => [](PageInv /\ PageTypes)
<1>1. Init => PageTypes
  <2> SUFFICES ASSUME Init PROVE PageTypes
    OBVIOUS
  <2>1. NoticeInv
    BY NoticeInitInv DEF Init
  <2> QED
    BY <2>1 DEF Init, FilterInit, SortModes, PageTypes
<1>2. PageInv /\ PageTypes /\ [Next]_vars => PageTypes'
  BY PageTypesNext
<1> QED
  BY <1>1, <1>2, PageInvInductive, PTL DEF Spec

(* The model, the filter and the dialog hold what they are meant to hold,  *)
(* whatever the user does (TasksPage.qml, TaskEditorDialog.qml,            *)
(* TaskFilterModel.cpp).                                                   *)
THEOREM PageTypeCorrect == Spec => []PageTypeOK
<1>1. PageInv /\ PageTypes => PageTypeOK
  <2> SUFFICES ASSUME PageInv, PageTypes PROVE PageTypeOK
    OBVIOUS
  <2>1. ModelTypeOK
    BY ModelTypesHold DEF PageInv, PageTypes
  <2> QED
    BY <2>1 DEF PageInv, ListInv, PageTypes, FilterTypeOK, PageTypeOK
<1> QED
  BY <1>1, PageTypesInductive, PTL

-----------------------------------------------------------------------------
(* The order. A row that stays was in order with the others that stay, and *)
(* is so still, if neither its task nor the chosen order has changed; a    *)
(* row that comes is put in order with all the others.                     *)
OrderInv == \A p, q \in DOMAIN visible : p < q => InOrder(visible[p], visible[q])

(* The order as it is after a step. *)
InOrderNext(row, next) == ~lessThan(sortMode', tasks'[next], tasks'[row])

(* Rows that stay must be in order among themselves; the rest is sorted    *)
(* in.                                                                     *)
LEMMA ArrangeOrders ==
  ASSUME OrderInv, NEW stay, NEW come, arrange(stay, come),
         \A row, next \in stay : InOrder(row, next) => InOrderNext(row, next)
  PROVE  OrderInv'
<1>1. PICK order \in [1 .. Cardinality(stay \union come) -> stay \union come] :
        /\ \A p, q \in DOMAIN order : p < q =>
             IF order[p] \in stay /\ order[q] \in stay
             THEN Above(order[p], order[q])
             ELSE InOrderNext(order[p], order[q])
        /\ visible' = order
  BY DEF arrange, InOrder, InOrderNext
<1>2. ASSUME NEW p \in DOMAIN order, NEW q \in DOMAIN order, p < q
      PROVE  InOrderNext(order[p], order[q])
  <2>1. CASE order[p] \in stay /\ order[q] \in stay
    <3>1. Above(order[p], order[q])
      BY <1>1, <1>2, <2>1
    <3>2. InOrder(order[p], order[q])
      BY <3>1 DEF Above, OrderInv
    <3> QED
      BY <2>1, <3>2
  <2>2. CASE ~(order[p] \in stay /\ order[q] \in stay)
    BY <1>1, <1>2, <2>2
  <2> QED
    BY <2>1, <2>2
<1>3. ASSUME NEW p \in DOMAIN visible', NEW q \in DOMAIN visible', p < q
      PROVE  InOrderNext(visible'[p], visible'[q])
  BY <1>1, <1>2, <1>3
<1> QED
  BY <1>3 DEF OrderInv, InOrder, InOrderNext

(* The same for the rows of a list of which only some have changed.        *)
LEMMA SameRowsOrder ==
  ASSUME NEW stay, \A row \in stay : tasks'[row] = tasks[row], UNCHANGED sortMode
  PROVE  \A row, next \in stay : InOrder(row, next) => InOrderNext(row, next)
BY DEF InOrder, InOrderNext

(* A removed row moves the rows below it up, and changes none. *)
LEMMA RowsRemovedOrders ==
  ASSUME PageInv, OrderInv, NEW row \in DOMAIN tasks, tasks' = Without(tasks, row),
         UNCHANGED sortMode, rowsRemoved(row)
  PROVE  OrderInv'
<1> DEFINE up(r) == IF r > row THEN r - 1 ELSE r
<1>1. /\ Len(tasks) \in Nat /\ DOMAIN tasks = 1 .. Len(tasks) /\ row \in 1 .. Len(tasks)
      /\ \A j \in 1 .. Len(tasks) - 1 : tasks'[j] = tasks[IF j < row THEN j ELSE j + 1]
  BY WithoutType DEF PageInv, ModelInv, StoreInv, StoreTypeOK
<1>2. \A r \in DOMAIN tasks : r # row => tasks'[up(r)] = tasks[r]
  BY <1>1
<1>3. \A r, s \in DOMAIN tasks \ {row} : InOrder(r, s) => InOrderNext(up(r), up(s))
  BY <1>2 DEF InOrder, InOrderNext
<1>4. /\ visible \in Seq(Nat) /\ \A p \in DOMAIN visible : visible[p] \in DOMAIN tasks
      /\ \A p, q \in DOMAIN visible : p # q => visible[p] # visible[q]
  BY DEF PageInv, ListInv, ListShowsFilter, Rows, Accepted
<1> HIDE DEF up
<1>5. CASE row \notin Rows /\ visible' = [p \in DOMAIN visible |-> up(visible[p])]
  <2>1. \A p \in DOMAIN visible : visible[p] \in DOMAIN tasks \ {row}
    BY <1>4, <1>5 DEF Rows
  <2>2. ASSUME NEW p \in DOMAIN visible', NEW q \in DOMAIN visible', p < q
        PROVE  InOrderNext(visible'[p], visible'[q])
    <3>1. p \in DOMAIN visible /\ q \in DOMAIN visible
      BY <1>5, <2>2
    <3>2. InOrder(visible[p], visible[q])
      BY <2>2, <3>1 DEF OrderInv
    <3>3. InOrderNext(up(visible[p]), up(visible[q]))
      BY <1>3, <2>1, <3>1, <3>2
    <3>4. visible'[p] = up(visible[p]) /\ visible'[q] = up(visible[q])
      BY <1>5, <3>1
    <3> QED
      BY <3>3, <3>4
  <2> QED
    BY <2>2 DEF OrderInv, InOrder, InOrderNext
<1>6. ASSUME NEW k \in DOMAIN visible, visible[k] = row,
             visible' = [p \in DOMAIN Without(visible, k) |-> up(Without(visible, k)[p])]
      PROVE  OrderInv'
  <2> DEFINE m == Len(visible)
             from(p) == IF p < k THEN p ELSE p + 1
  <2>1. /\ m \in Nat /\ DOMAIN visible = 1 .. m /\ k \in 1 .. m
        /\ DOMAIN Without(visible, k) = 1 .. m - 1
        /\ \A p \in 1 .. m - 1 : Without(visible, k)[p] = visible[from(p)]
    <3>1. visible \in Seq(Nat) /\ m \in Nat /\ DOMAIN visible = 1 .. m /\ k \in 1 .. m
      BY <1>4, <1>6
    <3>2. /\ Without(visible, k) \in Seq(Nat)
          /\ Len(Without(visible, k)) = m - 1
          /\ \A p \in 1 .. m - 1 : Without(visible, k)[p] = visible[from(p)]
      BY <3>1, WithoutType
    <3>3. DOMAIN Without(visible, k) = 1 .. m - 1
      BY <3>1 DEF Without
    <3> QED
      BY <3>1, <3>2, <3>3
  <2>2. /\ DOMAIN visible' = 1 .. m - 1
        /\ \A p \in 1 .. m - 1 : visible'[p] = up(visible[from(p)])
    BY <1>6, <2>1
  <2>3. /\ \A p \in 1 .. m - 1 : from(p) \in 1 .. m /\ from(p) # k
        /\ \A p, q \in 1 .. m - 1 : p < q => from(p) < from(q)
    BY <2>1
  <2> HIDE DEF from, m
  <2>4. \A p \in 1 .. m - 1 : visible[from(p)] \in DOMAIN tasks \ {row}
    BY <1>4, <1>6, <2>1, <2>3
  <2>5. ASSUME NEW p \in DOMAIN visible', NEW q \in DOMAIN visible', p < q
        PROVE  InOrderNext(visible'[p], visible'[q])
    <3>1. p \in 1 .. m - 1 /\ q \in 1 .. m - 1
      BY <2>2, <2>5
    <3>2. InOrder(visible[from(p)], visible[from(q)])
      BY <2>1, <2>3, <2>5, <3>1 DEF OrderInv
    <3>3. InOrderNext(up(visible[from(p)]), up(visible[from(q)]))
      BY <1>3, <2>4, <3>1, <3>2
    <3> QED
      BY <2>2, <3>1, <3>3
  <2> QED
    BY <2>5 DEF OrderInv, InOrder, InOrderNext
<1> QED
  BY <1>5, <1>6 DEF rowsRemoved, up

(* Nothing in the list moves when neither it nor the rows have changed. *)
LEMMA SameListOrder ==
  ASSUME OrderInv, UNCHANGED <<tasks, sortMode, visible>>
  PROVE  OrderInv'
BY DEF OrderInv, InOrder

(* A reset, or a new order, sorts everything. *)
LEMMA ModelResetOrders ==
  ASSUME OrderInv, modelReset
  PROVE  OrderInv'
<1>1. arrange({}, Accepted')
  BY DEF modelReset
<1>2. \A row, next \in {} : InOrder(row, next) => InOrderNext(row, next)
  OBVIOUS
<1> QED
  BY <1>1, <1>2, ArrangeOrders

(* A new row leaves the others what they are.                              *)
LEMMA AddedRowOrders ==
  ASSUME PageInv, OrderInv, NEW body \in Bodies, NEW now \in Times, AddTask(body, now),
         rowsInserted(Len(tasks) + 1), SettingsStay
  PROVE  OrderInv'
<1>1. tasks \in Seq(Task) /\ Rows \subseteq DOMAIN tasks
  BY DEF PageInv, ModelInv, StoreInv, StoreTypeOK, ListInv, ListShowsFilter, Accepted
<1>2. \A row \in Rows : tasks'[row] = tasks[row]
  <2>1. CASE UNCHANGED tasks
    BY <2>1
  <2>2. CASE \E task : tasks' = Append(tasks, task)
    BY <1>1, <2>2
  <2> QED
    BY <2>1, <2>2 DEF AddTask, addTask, storeVars
<1>3. \A row, next \in Rows : InOrder(row, next) => InOrderNext(row, next)
  BY <1>2, SameRowsOrder DEF SettingsStay
<1> QED
  BY <1>3, ArrangeOrders DEF rowsInserted

(* The row that changed is sorted in again; the others compare as before. *)
LEMMA ChangedRowOrders ==
  ASSUME PageInv, OrderInv, NEW row \in DOMAIN tasks, SettingsStay, dataChanged(row),
         \/ \E body \in Bodies : UpdateTask(row, body)
         \/ ToggleDone(row)
  PROVE  OrderInv'
<1>1. ModelInv /\ indexOfId(tasks[row].id) = {row} /\ Rows \subseteq DOMAIN tasks
  BY IndexOfRow DEF PageInv, ModelInv, ListInv, ListShowsFilter, Accepted
<1>2. \A other \in Rows \ {row} : tasks'[other] = tasks[other]
  <2>1. CASE \E body \in Bodies : UpdateTask(row, body)
    BY <1>1, <2>1 DEF UpdateTask, updateTask, storeVars
  <2>2. CASE ToggleDone(row)
    BY <1>1, <2>2 DEF ToggleDone, setDone, storeVars
  <2> QED
    BY <2>1, <2>2
<1>3. \A other, next \in Rows \ {row} : InOrder(other, next) => InOrderNext(other, next)
  BY <1>2, SameRowsOrder DEF SettingsStay
<1> QED
  BY <1>3, ArrangeOrders DEF dataChanged

LEMMA ViewChosenOrders ==
  ASSUME PageInv, OrderInv, ViewChosen
  PROVE  OrderInv'
<1>1. CASE modelReset
  BY <1>1, ModelResetOrders
<1>2. CASE invalidateFilter /\ UNCHANGED <<tasks, sortMode>>
  <2>1. \A row, next \in Rows \intersect Accepted' : InOrder(row, next) => InOrderNext(row, next)
    BY <1>2, SameRowsOrder
  <2> QED
    BY <1>2, <2>1, ArrangeOrders DEF invalidateFilter
<1> QED
  BY <1>1, <1>2 DEF ViewChosen, setSearchText, setShowCompleted, setSortMode, invalidate, modelReset,
                    allVars, storeVars

LEMMA AcceptedOrders ==
  ASSUME PageInv, OrderInv, accepted
  PROVE  OrderInv'
<1>1. draft \in Bodies /\ SettingsStay
  BY DEF PageInv, accepted
<1>2. CASE acceptedRow
  <2>1. editing \in DOMAIN tasks /\ UpdateTask(editing, draft)
    BY <1>2 DEF acceptedRow
  <2>2. CASE draft \in Blank
    <3>1. tasks[editing] \in Task
      BY <2>1 DEF PageInv, ModelInv, StoreInv, StoreTypeOK
    <3>2. [tasks[editing] EXCEPT !.body = draft].body = draft
      BY <3>1 DEF Task
    <3>3. UNCHANGED storeVars
      BY <2>1, <2>2, <3>2 DEF UpdateTask, updateTask
    <3> QED
      BY <1>1, <1>2, <2>2, <3>3, SameListOrder DEF acceptedRow, SettingsStay, storeVars
  <2>3. CASE draft \notin Blank
    BY <1>1, <1>2, <2>1, <2>3, ChangedRowOrders DEF acceptedRow
  <2> QED
    BY <2>2, <2>3
<1>3. ASSUME NEW now \in Times, acceptedNew(now) PROVE OrderInv'
  BY <1>1, <1>3, AddedRowOrders DEF acceptedNew
<1> QED
  BY <1>2, <1>3 DEF accepted

LEMMA OrderNextInv ==
  ASSUME PageInv, OrderInv, [Next]_vars
  PROVE  OrderInv'
<1>1. CASE \/ \E ok \in BOOLEAN : StartUp(ok)
           \/ clearDone
  BY <1>1, ModelResetOrders DEF StartUp, clearDone
<1>2. ASSUME NEW now \in Times, AddSample(now) PROVE OrderInv'
  <2>1. samplesLeft \in Seq(Bodies) /\ samplesLeft # <<>>
    BY <1>2 DEF PageInv, AddSample
  <2>2. Head(samplesLeft) \in Bodies
    BY <2>1
  <2> QED
    BY <1>2, <2>2, AddedRowOrders DEF AddSample
<1>3. CASE RowClicked
  <2>1. PICK proxyRow \in DOMAIN visible : toggleRequested(proxyRow) \/ removeRequested(proxyRow)
    BY <1>3 DEF RowClicked
  <2> DEFINE row == sourceRow(proxyRow)
  <2>2. row \in DOMAIN tasks /\ SettingsStay
    BY <1>3, SourceRowExists DEF RowClicked
  <2> HIDE DEF row
  <2>3. CASE toggleRequested(proxyRow)
    BY <2>2, <2>3, ChangedRowOrders DEF toggleRequested, row
  <2>4. CASE removeRequested(proxyRow)
    <3>1. RemoveTask(row) /\ rowsRemoved(row)
      BY <2>4 DEF removeRequested, row
    <3>2. tasks' = Without(tasks, row)
      BY <2>2, <3>1, RemovedRow DEF PageInv
    <3> QED
      BY <2>2, <3>1, <3>2, RowsRemovedOrders DEF SettingsStay
  <2> QED
    BY <2>1, <2>3, <2>4
<1>4. CASE openForNew \/ editRequested \/ rejected \/ TakeBack \/ \E body \in Bodies : Type(body)
  <2>1. UNCHANGED <<tasks, sortMode, visible>>
    BY <1>4, TakeBackKeeps DEF openForNew, editRequested, openForRow, rejected, Type, allVars,
                               storeVars, filterVars
  <2> QED
    BY <2>1, SameListOrder
<1>5. CASE UNCHANGED vars
  BY <1>5, SameListOrder DEF vars, allVars, storeVars, filterVars
<1> QED
  BY <1>1, <1>2, <1>3, <1>4, <1>5, ViewChosenOrders, AcceptedOrders DEF Next

(* Hence the order stays. *)
LEMMA OrderInvInductive == Spec => [](PageInv /\ PageTypes /\ OrderInv)
<1>1. Init => OrderInv
  BY DEF Init, FilterInit, OrderInv
<1>2. PageInv /\ OrderInv /\ [Next]_vars => OrderInv'
  BY OrderNextInv
<1> QED
  BY <1>1, <1>2, PageTypesInductive, PTL DEF Spec

(* From any row to a later one the list is in the chosen order, with the   *)
(* open tasks first, also after an edit of what it is sorted by, although  *)
(* only the changed row is put in its place again                          *)
(* (TaskFilterModel.cpp:10, 46-47, 82-120).                                *)
THEOREM ListKeepsOrder == Spec => []ListInOrder
<1>1. PageInv /\ PageTypes /\ OrderInv => ListInOrder
  <2> SUFFICES ASSUME PageInv, PageTypes, OrderInv,
                      NEW p \in DOMAIN visible, NEW q \in DOMAIN visible, p < q,
                      visible[p] \in DOMAIN tasks, visible[q] \in DOMAIN tasks
               PROVE  LET row == tasks[visible[p]]
                          next == tasks[visible[q]]
                      IN  /\ row.done => next.done
                          /\ row.done = next.done =>
                               CASE sortMode = "ByCreated" ->
                                      CreatedRank[row.createdAt] >= CreatedRank[next.createdAt]
                                 [] sortMode = "ByDueDate" ->
                                      \/ Due[next.body] = NoDue
                                      \/ Due[row.body] # NoDue /\ Due[row.body] <= Due[next.body]
                                 [] sortMode = "ByPriority" -> Level[row.body] >= Level[next.body]
                                 [] sortMode = "ByTitle" ->
                                      TitleRank[row.body] <= TitleRank[next.body]
    BY DEF ListInOrder
  <2> DEFINE row == tasks[visible[p]]
             next == tasks[visible[q]]
  <2>1. row \in Task /\ next \in Task
    BY RowType DEF PageInv, ModelInv, StoreInv
  <2>2. ~lessThan(sortMode, next, row)
    BY DEF OrderInv, InOrder
  <2>3. \A t \in {row, next} : /\ CreatedRank[t.createdAt] \in Int
                               /\ TitleRank[t.body] \in Int
                               /\ Level[t.body] \in Int
                               /\ Due[t.body] = NoDue \/ Due[t.body] \in Int
                               /\ t.done \in BOOLEAN
    BY <2>1, FilterAssumption DEF Task
  <2> HIDE DEF row, next
  <2>4. row.done => next.done
    BY <2>2, <2>3 DEF lessThan
  <2>5. CASE sortMode = "ByCreated"
    BY <2>2, <2>3, <2>4, <2>5 DEF lessThan, Newer, row, next
  <2>6. CASE sortMode = "ByDueDate"
    BY <2>2, <2>3, <2>4, <2>6 DEF lessThan, Newer, row, next
  <2>7. CASE sortMode = "ByPriority"
    BY <2>2, <2>3, <2>4, <2>7 DEF lessThan, Newer, row, next
  <2>8. CASE sortMode = "ByTitle"
    BY <2>2, <2>3, <2>4, <2>8 DEF lessThan, Newer, row, next
  <2> QED
    BY <2>5, <2>6, <2>7, <2>8 DEF PageTypes, SortModes
<1> QED
  BY <1>1, OrderInvInductive, PTL

-----------------------------------------------------------------------------
(* That the page serves the view: what the user sees of it, by id.         *)
Items == [id \in Ids |-> tasks[CHOOSE row \in DOMAIN tasks : tasks[row].id = id]]
(* The list as ids: what the user sees. *)
List == [p \in DOMAIN visible |-> tasks[visible[p]].id]
(* The ids in it. *)
Listed == {List[p] : p \in DOMAIN List}
(* The task the dialog is open for. *)
OpenFor == IF editing = NotOpen THEN NotOpen ELSE editedId

(* Under unique ids, an id stands for one row.                             *)
ById ==
  /\ DOMAIN Items = Ids
  /\ \A row \in DOMAIN tasks : tasks[row].id \in Ids /\ Items[tasks[row].id] = tasks[row]
  /\ \A id \in Ids : \E row \in DOMAIN tasks : tasks[row].id = id
  /\ \A row, other \in DOMAIN tasks : tasks[row].id = tasks[other].id => row = other
  /\ \A row \in DOMAIN tasks : /\ tasks[row].id \in 1 .. nextId - 1
                               /\ tasks[row].body \in Bodies /\ tasks[row].done \in BOOLEAN
  /\ DOMAIN List = DOMAIN visible
  /\ \A p \in DOMAIN visible : visible[p] \in DOMAIN tasks /\ List[p] = tasks[visible[p]].id
  /\ \A p, q \in DOMAIN visible : p # q => visible[p] # visible[q]
  /\ Listed = {tasks[row].id : row \in Rows}

(* Ids are unique, *)
LEMMA PageById == PageInv => ById
<1> SUFFICES ASSUME PageInv PROVE ById
  OBVIOUS
<1>1. /\ StoreInv /\ tasks \in Seq(Task)
      /\ \A p \in DOMAIN visible : visible[p] \in DOMAIN tasks
      /\ \A p, q \in DOMAIN visible : p # q => visible[p] # visible[q]
  BY DEF PageInv, ModelInv, StoreInv, StoreTypeOK, ListInv, ListShowsFilter, Rows, Accepted
<1>2. \A row, other \in DOMAIN tasks : tasks[row].id = tasks[other].id => row = other
  BY <1>1 DEF StoreInv, IdsUnique
<1>3. \A row \in DOMAIN tasks : tasks[row].id \in Ids /\ Items[tasks[row].id] = tasks[row]
  <2> SUFFICES ASSUME NEW row \in DOMAIN tasks
               PROVE  tasks[row].id \in Ids /\ Items[tasks[row].id] = tasks[row]
    OBVIOUS
  <2>1. tasks[row].id \in Ids
    BY DEF Ids
  <2>2. (CHOOSE other \in DOMAIN tasks : tasks[other].id = tasks[row].id) = row
    BY <1>2
  <2> QED
    BY <2>1, <2>2 DEF Items
<1>4. \A row \in DOMAIN tasks : /\ tasks[row].id \in 1 .. nextId - 1
                                /\ tasks[row].body \in Bodies /\ tasks[row].done \in BOOLEAN
  BY <1>1, RowType DEF StoreInv, IdsUnique, Task
<1>5. /\ DOMAIN List = DOMAIN visible
      /\ \A p \in DOMAIN visible : List[p] = tasks[visible[p]].id
  BY DEF List
<1>6. Listed = {tasks[row].id : row \in Rows}
  BY <1>5 DEF Listed, Rows
<1> QED
  BY <1>1, <1>2, <1>3, <1>4, <1>5, <1>6 DEF ById, Items, Ids

(* and after a step. *)
LEMMA NextById == PageInv' => ById'
<1>1. PageInv => ById
  BY PageById
<1> QED
  BY <1>1, PTL

(* The list is proper, now and after any step. *)
ProperList ==
  /\ DOMAIN Items \subseteq 1 .. nextId - 1
  /\ Listed \subseteq DOMAIN Items
  /\ \A p, q \in DOMAIN List : p < q =>
       List[p] # List[q] /\ (Items[List[p]].done => Items[List[q]].done)

(* It is so at any time, *)
LEMMA ListIsProper == PageInv /\ OrderInv => ProperList
<1> SUFFICES ASSUME PageInv, OrderInv PROVE ProperList
  OBVIOUS
<1>1. ById
  BY PageById
<1>2. DOMAIN Items \subseteq 1 .. nextId - 1
  BY <1>1 DEF ById
<1>3. Listed \subseteq DOMAIN Items
  BY <1>1 DEF ById, Rows
<1>4. ASSUME NEW p \in DOMAIN List, NEW q \in DOMAIN List, p < q
      PROVE  List[p] # List[q] /\ (Items[List[p]].done => Items[List[q]].done)
  <2>1. /\ visible[p] \in DOMAIN tasks /\ List[p] = tasks[visible[p]].id
        /\ visible[q] \in DOMAIN tasks /\ List[q] = tasks[visible[q]].id
        /\ p \in DOMAIN visible /\ q \in DOMAIN visible
    BY <1>1, <1>4 DEF ById
  <2>2. p # q
    <3>1. DOMAIN visible \subseteq Nat
      BY DEF PageInv, ListInv
    <3> QED
      BY <1>4, <2>1, <3>1
  <2>3. List[p] # List[q]
    BY <1>1, <2>1, <2>2 DEF ById
  <2>4. ~lessThan(sortMode, tasks[visible[q]], tasks[visible[p]])
    BY <1>4, <2>1 DEF OrderInv, InOrder
  <2>5. tasks[visible[p]].done => tasks[visible[q]].done
    <3>1. tasks[visible[p]].done \in BOOLEAN /\ tasks[visible[q]].done \in BOOLEAN
      BY <1>1, <2>1 DEF ById
    <3> QED
      BY <2>4, <3>1 DEF lessThan
  <2> QED
    BY <1>1, <2>1, <2>3, <2>5 DEF ById
<1> QED
  BY <1>2, <1>3, <1>4 DEF ProperList

(* and after a step. *)
LEMMA NextIsProper == PageInv' /\ OrderInv' => ProperList'
<1>1. PageInv /\ OrderInv => ProperList
  BY ListIsProper
<1> QED
  BY <1>1, PTL

-----------------------------------------------------------------------------
(* The rows that stay keep their order, however the others are arranged. *)
LEMMA ArrangeKeeps ==
  ASSUME PageInv, NEW stay, NEW come, arrange(stay, come), DOMAIN visible' \subseteq Nat
  PROVE  \A p, q \in DOMAIN visible, k, l \in DOMAIN visible' :
           visible[p] \in stay /\ visible[q] \in stay /\ visible'[k] = visible[p]
             /\ visible'[l] = visible[q] => (p < q <=> k < l)
<1>1. PICK order \in [1 .. Cardinality(stay \union come) -> stay \union come] :
        /\ \A p, q \in DOMAIN order : p < q =>
             /\ order[p] # order[q]
             /\ order[p] \in stay /\ order[q] \in stay => Above(order[p], order[q])
        /\ visible' = order
  BY DEF arrange
<1>2. DOMAIN visible \subseteq Nat /\ \A p, q \in DOMAIN visible : visible[p] = visible[q] => p = q
  BY DEF PageInv, ListInv, ListShowsFilter
<1>3. \A k, l \in DOMAIN visible', p, q \in DOMAIN visible :
        visible[p] \in stay /\ visible[q] \in stay /\ visible'[k] = visible[p]
          /\ visible'[l] = visible[q] /\ k < l => p < q
  <2> SUFFICES ASSUME NEW k \in DOMAIN visible', NEW l \in DOMAIN visible',
                      NEW p \in DOMAIN visible, NEW q \in DOMAIN visible,
                      visible[p] \in stay, visible[q] \in stay, visible'[k] = visible[p],
                      visible'[l] = visible[q], k < l
               PROVE  p < q
    OBVIOUS
  <2>1. Above(visible[p], visible[q])
    BY <1>1
  <2> QED
    BY <1>2, <2>1 DEF Above
<1> SUFFICES ASSUME NEW k \in DOMAIN visible', NEW l \in DOMAIN visible',
                    NEW p \in DOMAIN visible, NEW q \in DOMAIN visible,
                    visible[p] \in stay, visible[q] \in stay, visible'[k] = visible[p],
                    visible'[l] = visible[q], p < q
             PROVE  k < l
  BY <1>3
<1>4. p \in Nat /\ q \in Nat /\ k \in Nat /\ l \in Nat
  BY <1>2
<1>5. ~(l < k)
  <2>1. l < k => q < p
    BY <1>3
  <2> QED
    BY <1>4, <2>1
<1>6. k # l
  <2>1. k = l => visible[p] = visible[q]
    OBVIOUS
  <2>2. p # q
    BY <1>4
  <2> QED
    BY <1>2, <2>1, <2>2
<1> QED
  BY <1>4, <1>5, <1>6

(* With no row to come and none to go, the list is as it was. *)
LEMMA ArrangeNothing ==
  ASSUME PageInv, arrange(Rows, {})
  PROVE  visible' = visible
<1> DEFINE n == Len(visible)
<1>1. /\ visible \in Seq(Nat) /\ n \in Nat /\ DOMAIN visible = 1 .. n
      /\ \A p, q \in 1 .. n : visible[p] = visible[q] => p = q
  BY DEF PageInv, ListInv, ListShowsFilter
<1>2. Cardinality(Rows) = n /\ IsFiniteSet(Rows)
  <2>1. visible \in Bijection(1 .. n, Rows)
    BY <1>1 DEF Rows, Bijection, Injection, Surjection, IsInjective
  <2>2. IsFiniteSet(1 .. n) /\ Cardinality(1 .. n) = n
    BY <1>1, FirstNumbers
  <2>3. ExistsBijection(1 .. n, Rows)
    BY <2>1 DEF ExistsBijection
  <2> QED
    BY <2>2, <2>3, FS_Bijection
<1>3. PICK order \in [1 .. n -> Rows] :
        /\ \A p, q \in 1 .. n : p < q => Above(order[p], order[q])
        /\ visible' = order
  <2>1. Rows \union {} = Rows
    OBVIOUS
  <2> QED
    BY <1>2, <2>1 DEF arrange
<1> HIDE DEF n
<1> DEFINE place == [p \in 1 .. n |-> CHOOSE q \in 1 .. n : visible[q] = order[p]]
<1>4. \A p \in 1 .. n : place[p] \in 1 .. n /\ visible[place[p]] = order[p]
  <2>1. \A p \in 1 .. n : \E q \in 1 .. n : visible[q] = order[p]
    <3>1. \A p \in 1 .. n : order[p] \in Rows
      BY <1>3
    <3>2. \A row \in Rows : \E q \in 1 .. n : visible[q] = row
      BY <1>1 DEF Rows
    <3> QED
      BY <3>1, <3>2
  <2> QED
    BY <2>1
<1>5. \A p, q \in 1 .. n : p < q => place[p] < place[q]
  <2> SUFFICES ASSUME NEW p \in 1 .. n, NEW q \in 1 .. n, p < q PROVE place[p] < place[q]
    OBVIOUS
  <2>1. PICK a, b \in 1 .. n : a < b /\ visible[a] = order[p] /\ visible[b] = order[q]
    <3>1. Above(order[p], order[q])
      BY <1>3
    <3> HIDE DEF place
    <3> QED
      BY <1>1, <3>1 DEF Above
  <2>2. place[p] = a /\ place[q] = b
    BY <1>1, <1>4, <2>1
  <2> QED
    BY <2>1, <2>2
<1>6. place \in Enumerations(1 .. n)
  <2>1. Cardinality(1 .. n) = n
    BY <1>1, FirstNumbers
  <2>2. place \in [1 .. n -> 1 .. n] /\ DOMAIN place = 1 .. n
    BY <1>4
  <2> HIDE DEF place
  <2> QED
    BY <1>5, <2>1, <2>2 DEF Enumerations
<1>7. place = [p \in 1 .. n |-> p]
  BY <1>1, <1>6, EnumerationOfAll
<1>8. \A p \in 1 .. n : order[p] = visible[p]
  BY <1>4, <1>7
<1>9. visible = [p \in 1 .. n |-> visible[p]]
  BY <1>1
<1> QED
  BY <1>3, <1>8, <1>9

-----------------------------------------------------------------------------
(* The list but for one id, as the view has it, from the rows that stay    *)
(* and the numbers they go by afterwards.                                  *)
RestOfList(id) ==
  /\ Listed' \ {id} = Listed \ {id}
  /\ \A p, q \in DOMAIN List, k, l \in DOMAIN List' :
       id \notin {List[p], List[q]} /\ List[p] = List'[k] /\ List[q] = List'[l] =>
         (p < q <=> k < l)

(* From rows to ids: when the rows that stay keep their tasks and their    *)
(* order, whatever happened to their numbers, every task but the one in    *)
(* question keeps its place in the list.                                   *)
LEMMA RestFromRows ==
  ASSUME PageInv, PageInv', NEW id, NEW stay \in SUBSET Rows, NEW to \in [stay -> Rows'],
         \A p \in DOMAIN visible : visible[p] \in stay \/ tasks[visible[p]].id = id,
         \A k \in DOMAIN visible' : \/ \E row \in stay : visible'[k] = to[row]
                                    \/ tasks'[visible'[k]].id = id,
         \A row \in stay : tasks'[to[row]].id = tasks[row].id /\ tasks[row].id # id,
         \A p, q \in DOMAIN visible, k, l \in DOMAIN visible' :
           visible[p] \in stay /\ visible[q] \in stay /\ visible'[k] = to[visible[p]]
             /\ visible'[l] = to[visible[q]] => (p < q <=> k < l)
  PROVE  RestOfList(id)
<1>1. ById /\ ById'
  BY PageById, NextById
<1>2. Listed = {tasks[row].id : row \in Rows} /\ Listed' = {tasks'[row].id : row \in Rows'}
  BY <1>1 DEF ById
<1>3. \A row \in Rows : row \in stay \/ tasks[row].id = id
  BY DEF Rows
<1>4. \A row \in Rows' : (\E old \in stay : row = to[old]) \/ tasks'[row].id = id
  BY DEF Rows
<1>5. Listed \ {id} = {tasks[row].id : row \in stay}
  BY <1>2, <1>3
<1>6. Listed' \ {id} = {tasks[row].id : row \in stay}
  BY <1>2, <1>4
<1>7. ASSUME NEW p \in DOMAIN visible, NEW k \in DOMAIN visible', List[p] # id, List[p] = List'[k]
      PROVE  visible[p] \in stay /\ visible'[k] = to[visible[p]]
  <2>1. /\ List[p] = tasks[visible[p]].id /\ List'[k] = tasks'[visible'[k]].id
        /\ visible[p] \in DOMAIN tasks
    BY <1>1 DEF ById
  <2>2. visible[p] \in stay
    BY <1>7, <2>1
  <2>3. PICK row \in stay : visible'[k] = to[row]
    BY <1>7, <2>1
  <2>4. row \in DOMAIN tasks
    BY <1>1 DEF ById, Rows
  <2>5. tasks[row].id = tasks[visible[p]].id
    BY <1>7, <2>1, <2>3
  <2>6. row = visible[p]
    BY <1>1, <2>1, <2>4, <2>5 DEF ById
  <2> QED
    BY <2>2, <2>3, <2>6
<1>8. DOMAIN List = DOMAIN visible /\ DOMAIN List' = DOMAIN visible'
  BY <1>1 DEF ById
<1>9. ASSUME NEW p \in DOMAIN List, NEW q \in DOMAIN List, NEW k \in DOMAIN List',
             NEW l \in DOMAIN List', id \notin {List[p], List[q]}, List[p] = List'[k],
             List[q] = List'[l]
      PROVE  p < q <=> k < l
  <2>1. /\ p \in DOMAIN visible /\ q \in DOMAIN visible
        /\ k \in DOMAIN visible' /\ l \in DOMAIN visible'
    BY <1>8
  <2>2. /\ visible[p] \in stay /\ visible'[k] = to[visible[p]]
        /\ visible[q] \in stay /\ visible'[l] = to[visible[q]]
    BY <1>7, <1>9, <2>1
  <2> QED
    BY <2>1, <2>2
<1> QED
  BY <1>5, <1>6, <1>9 DEF RestOfList

(* Rows that keep their numbers. *)
LEMMA RestArranged ==
  ASSUME PageInv, PageInv', NEW id, NEW stay \in SUBSET Rows, NEW come \in SUBSET Nat,
         IsFiniteSet(come), arrange(stay, come),
         \A row \in Rows \ stay : tasks[row].id = id,
         \A row \in come : tasks'[row].id = id,
         \A row \in stay : tasks'[row].id = tasks[row].id /\ tasks[row].id # id
  PROVE  RestOfList(id)
<1> DEFINE to == [row \in stay |-> row]
<1>1. Rows \subseteq Nat /\ IsFiniteSet(Rows)
  <2>1. Rows = Accepted /\ StoreTypeOK /\ StoreTypeOK'
    BY DEF PageInv, ListInv, ListShowsFilter, ModelInv, StoreInv
  <2> QED
    BY <2>1, FiniteAccepted
<1>2. stay \in SUBSET Nat /\ IsFiniteSet(stay)
  BY <1>1, FS_Subset
<1>3. Rows' = stay \union come
  BY <1>2, ArrangeShows
<1>4. to \in [stay -> Rows'] /\ \A row \in stay : to[row] = row
  BY <1>3
<1>5. \A p \in DOMAIN visible : visible[p] \in stay \/ tasks[visible[p]].id = id
  BY DEF Rows
<1>6. \A k \in DOMAIN visible' : \/ \E row \in stay : visible'[k] = to[row]
                                 \/ tasks'[visible'[k]].id = id
  BY <1>3, <1>4 DEF Rows
<1>7. DOMAIN visible' \subseteq Nat
  BY DEF PageInv, ListInv
<1> HIDE DEF to
<1>8. \A p, q \in DOMAIN visible, k, l \in DOMAIN visible' :
        visible[p] \in stay /\ visible[q] \in stay /\ visible'[k] = to[visible[p]]
          /\ visible'[l] = to[visible[q]] => (p < q <=> k < l)
  BY <1>4, <1>7, ArrangeKeeps
<1>9. \A row \in stay : tasks'[to[row]].id = tasks[row].id /\ tasks[row].id # id
  BY <1>4
<1> QED
  BY <1>4, <1>5, <1>6, <1>8, <1>9, RestFromRows

(* A task is added at the end, or nothing happens that the user can see.   *)
LEMMA InsertedView ==
  ASSUME PageInv, PageInv', NEW body \in Bodies, NEW now \in Times, AddTask(body, now),
         rowsInserted(Len(tasks) + 1), SettingsStay
  PROVE  \/ UNCHANGED <<tasks, nextId, visible>>
         \/ /\ nextId' = nextId + 1
            /\ DOMAIN Items' = DOMAIN Items \union {nextId}
            /\ \A id \in DOMAIN Items : Items'[id] = Items[id]
            /\ Items'[nextId].body \in Bodies /\ ~Items'[nextId].done
            /\ RestOfList(nextId)
<1> DEFINE row == Len(tasks) + 1
           given == [id |-> 0, body |-> body, done |-> FALSE, createdAt |-> NoTime]
           stored == [id |-> nextId, body |-> Trimmed[body], done |-> FALSE, createdAt |-> now]
<1>1. /\ tasks \in Seq(Task) /\ Len(tasks) \in Nat /\ DOMAIN tasks = 1 .. Len(tasks)
      /\ nextId \in Nat
  BY DEF PageInv, ModelInv, StoreInv, StoreTypeOK
<1>2. \/ UNCHANGED storeVars
      \/ tasks' = Append(tasks, stored) /\ nextId' = nextId + 1
  <2>1. addTask(given, now)
    BY DEF AddTask
  <2>2. given.body = body /\ given.done = FALSE /\ given.createdAt = NoTime
    OBVIOUS
  <2> QED
    BY <2>1, <2>2 DEF addTask
<1>3. CASE UNCHANGED storeVars
  <2>1. UNCHANGED <<tasks, nextId>>
    BY <1>3 DEF storeVars
  <2>2. row \notin Accepted'
    BY <1>1, <2>1 DEF Accepted
  <2>3. arrange(Rows, {row} \intersect Accepted') /\ {row} \intersect Accepted' = {}
    BY <2>2 DEF rowsInserted
  <2> QED
    BY <2>1, <2>3, ArrangeNothing
<1>4. CASE tasks' = Append(tasks, stored) /\ nextId' = nextId + 1
  <2>1. /\ DOMAIN tasks' = DOMAIN tasks \union {row} /\ row \notin DOMAIN tasks /\ row \in Nat
        /\ \A other \in DOMAIN tasks : tasks'[other] = tasks[other]
        /\ tasks'[row] = stored
    BY <1>1, <1>4
  <2>2. stored.id = nextId /\ stored.body = Trimmed[body] /\ stored.done = FALSE
    OBVIOUS
  <2> HIDE DEF row, stored
  <2>3. ById /\ ById'
    BY PageById, NextById
  <2>4. Ids' = Ids \union {nextId}
    BY <2>1, <2>2 DEF Ids
  <2>5. \A id \in Ids : Items'[id] = Items[id]
    <3> SUFFICES ASSUME NEW id \in Ids PROVE Items'[id] = Items[id]
      OBVIOUS
    <3>1. PICK other \in DOMAIN tasks : tasks[other].id = id
      BY <2>3 DEF ById
    <3>2. other \in DOMAIN tasks' /\ tasks'[other] = tasks[other]
      BY <2>1
    <3> QED
      BY <2>3, <3>1, <3>2 DEF ById
  <2>6. Items'[nextId] = stored
    <3>1. row \in DOMAIN tasks' /\ tasks'[row].id = nextId
      BY <2>1, <2>2
    <3> QED
      BY <2>1, <2>3, <3>1 DEF ById
  <2>7. Trimmed[body] \in Bodies
    BY BodyAssumption
  <2>8. RestOfList(nextId)
    <3>1. Rows \subseteq DOMAIN tasks
      BY <2>3 DEF ById, Rows
    <3>2. \A other \in Rows : tasks'[other].id = tasks[other].id /\ tasks[other].id # nextId
      <4>1. \A other \in DOMAIN tasks : tasks[other].id \in 1 .. nextId - 1
        BY <2>3 DEF ById
      <4> QED
        BY <1>1, <2>1, <3>1, <4>1
    <3> DEFINE come == {row} \intersect Accepted'
    <3>3. /\ come \in SUBSET Nat /\ IsFiniteSet(come)
          /\ \A other \in come : tasks'[other].id = nextId
      <4>1. IsFiniteSet({row}) /\ come \subseteq {row}
        BY FS_Singleton
      <4>2. IsFiniteSet(come)
        BY <4>1, FS_Subset
      <4> QED
        BY <2>1, <2>2, <4>2
    <3>4. arrange(Rows, come) /\ Rows \in SUBSET Rows
      BY DEF rowsInserted, row
    <3> HIDE DEF come
    <3> QED
      BY <3>2, <3>3, <3>4, RestArranged
  <2> QED
    BY <1>4, <2>2, <2>3, <2>4, <2>5, <2>6, <2>7, <2>8 DEF ById
<1> QED
  BY <1>2, <1>3, <1>4

(* One row changes, under its id, and may take another place in the list.  *)
LEMMA ChangedView ==
  ASSUME PageInv, PageInv', NEW row \in DOMAIN tasks, dataChanged(row),
         DOMAIN tasks' = DOMAIN tasks, tasks'[row].id = tasks[row].id,
         \A other \in DOMAIN tasks : other # row => tasks'[other] = tasks[other]
  PROVE  /\ Items' = [Items EXCEPT ![tasks[row].id] = tasks'[row]]
         /\ RestOfList(tasks[row].id)
<1>1. ById /\ ById'
  BY PageById, NextById
<1>2. Rows \subseteq DOMAIN tasks /\ row \in Nat
  BY <1>1 DEF ById, Rows, PageInv, ModelInv, StoreInv, StoreTypeOK
<1>3. Ids' = Ids
  BY DEF Ids
<1>4. Items' = [Items EXCEPT ![tasks[row].id] = tasks'[row]]
  <2> DEFINE changed == [Items EXCEPT ![tasks[row].id] = tasks'[row]]
  <2>1. \A id \in Ids : Items'[id] = changed[id]
    <3> SUFFICES ASSUME NEW id \in Ids PROVE Items'[id] = changed[id]
      OBVIOUS
    <3>1. PICK other \in DOMAIN tasks : tasks[other].id = id
      BY <1>1 DEF ById
    <3>2. tasks'[other].id = id
      BY <3>1
    <3>3. Items'[id] = tasks'[other] /\ Items[id] = tasks[other] /\ id \in DOMAIN Items
      BY <1>1, <3>1, <3>2 DEF ById
    <3>4. other # row => id # tasks[row].id
      BY <1>1, <3>1 DEF ById
    <3> QED
      BY <3>1, <3>3, <3>4
  <2>2. Items' = [id \in Ids |-> Items'[id]]
    BY <1>3 DEF Items
  <2>3. changed = [id \in Ids |-> changed[id]]
    <3>1. changed = [id \in DOMAIN Items |-> changed[id]]
      OBVIOUS
    <3> QED
      BY <1>1, <3>1 DEF ById
  <2> HIDE DEF changed
  <2>4. Items' = changed
    BY <2>1, <2>2, <2>3
  <2> QED
    BY <2>4 DEF changed
<1>5. RestOfList(tasks[row].id)
  <2> DEFINE come == {row} \intersect Accepted'
             stay == Rows \ {row}
             id == tasks[row].id
  <2>1. arrange(stay, come) /\ stay \in SUBSET Rows
    BY DEF dataChanged
  <2>2. /\ come \in SUBSET Nat /\ IsFiniteSet(come)
        /\ \A other \in come : tasks'[other].id = id
    <3>1. IsFiniteSet({row}) /\ come \subseteq {row}
      BY FS_Singleton
    <3>2. IsFiniteSet(come)
      BY <3>1, FS_Subset
    <3> QED
      BY <1>2, <3>2
  <2>3. \A other \in Rows \ stay : tasks[other].id = id
    OBVIOUS
  <2>4. \A other \in stay : tasks'[other].id = tasks[other].id /\ tasks[other].id # id
    BY <1>1, <1>2 DEF ById
  <2> HIDE DEF come, stay, id
  <2>5. RestOfList(id)
    BY <2>1, <2>2, <2>3, <2>4, RestArranged
  <2> QED
    BY <2>5 DEF id
<1> QED
  BY <1>4, <1>5

(* A shown row goes, and the rows behind it move up.                       *)
LEMMA RemovedView ==
  ASSUME PageInv, PageInv', NEW row \in Rows, tasks' = Without(tasks, row), rowsRemoved(row)
  PROVE  /\ Items' = [other \in DOMAIN Items \ {tasks[row].id} |-> Items[other]]
         /\ RestOfList(tasks[row].id)
<1> DEFINE up(r) == IF r > row THEN r - 1 ELSE r
           back(j) == IF j < row THEN j ELSE j + 1
           n == Len(tasks)
           id == tasks[row].id
<1>1. ById /\ ById'
  BY PageById, NextById
<1>2. row \in DOMAIN tasks /\ Rows \subseteq DOMAIN tasks
  BY <1>1 DEF ById, Rows
<1>3. /\ n \in Nat /\ DOMAIN tasks = 1 .. n /\ row \in 1 .. n
      /\ DOMAIN tasks' = 1 .. n - 1
      /\ \A j \in 1 .. n - 1 : tasks'[j] = tasks[back(j)]
  <2>1. tasks \in Seq(Task) /\ n \in Nat /\ DOMAIN tasks = 1 .. n /\ row \in 1 .. n
    BY <1>2 DEF PageInv, ModelInv, StoreInv, StoreTypeOK
  <2>2. DOMAIN Without(tasks, row) = 1 .. n - 1
    BY <2>1 DEF Without
  <2>3. \A j \in 1 .. n - 1 : Without(tasks, row)[j] = tasks[back(j)]
    BY <2>1, WithoutType
  <2> QED
    BY <2>1, <2>2, <2>3
<1>4. /\ \A r \in 1 .. n : r # row => up(r) \in 1 .. n - 1 /\ back(up(r)) = r
      /\ \A j \in 1 .. n - 1 : back(j) \in 1 .. n /\ back(j) # row
  BY <1>3
<1>5. \A r \in 1 .. n : r # row => tasks'[up(r)] = tasks[r]
  BY <1>3, <1>4
<1>6. \A r, s \in 1 .. n : r # row /\ s # row /\ up(r) = up(s) => r = s
  BY <1>4
<1> HIDE DEF up, back, n
<1>7. Items' = [other \in DOMAIN Items \ {id} |-> Items[other]]
  <2>1. Ids' = Ids \ {id}
    <3>1. \A j \in DOMAIN tasks' : tasks'[j].id \in Ids \ {id}
      <4> SUFFICES ASSUME NEW j \in DOMAIN tasks' PROVE tasks'[j].id \in Ids \ {id}
        OBVIOUS
      <4>1. back(j) \in DOMAIN tasks /\ back(j) # row /\ tasks'[j] = tasks[back(j)]
        BY <1>3, <1>4
      <4> QED
        BY <1>1, <1>2, <4>1 DEF ById
    <3>2. \A r \in DOMAIN tasks : r # row => tasks[r].id \in Ids'
      <4> SUFFICES ASSUME NEW r \in DOMAIN tasks, r # row PROVE tasks[r].id \in Ids'
        OBVIOUS
      <4>1. up(r) \in DOMAIN tasks' /\ tasks'[up(r)] = tasks[r]
        BY <1>3, <1>4, <1>5
      <4> QED
        BY <1>1, <4>1 DEF ById
    <3>3. Ids' \subseteq Ids \ {id}
      BY <3>1 DEF Ids
    <3>4. Ids \ {id} \subseteq Ids'
      BY <3>2 DEF Ids
    <3> QED
      BY <3>3, <3>4
  <2>2. \A other \in Ids \ {id} : Items'[other] = Items[other]
    <3> SUFFICES ASSUME NEW other \in Ids \ {id} PROVE Items'[other] = Items[other]
      OBVIOUS
    <3>1. PICK r \in DOMAIN tasks : tasks[r].id = other /\ r # row
      BY <1>1 DEF ById
    <3>2. up(r) \in DOMAIN tasks' /\ tasks'[up(r)] = tasks[r]
      BY <1>3, <1>4, <1>5, <3>1
    <3>3. Items'[tasks'[up(r)].id] = tasks'[up(r)] /\ Items[tasks[r].id] = tasks[r]
      BY <1>1, <3>1, <3>2 DEF ById
    <3> QED
      BY <3>1, <3>2, <3>3
  <2>3. Items' = [other \in Ids' |-> Items'[other]] /\ DOMAIN Items = Ids
    BY DEF Items
  <2> QED
    BY <2>1, <2>2, <2>3
<1>8. RestOfList(id)
  <2> DEFINE m == Len(visible)
             stay == Rows \ {row}
             to == [r \in stay |-> up(r)]
  <2>1. PICK at \in DOMAIN visible :
          /\ visible[at] = row
          /\ visible' = [p \in DOMAIN Without(visible, at) |-> up(Without(visible, at)[p])]
    BY DEF rowsRemoved, up
  <2> DEFINE from(p) == IF p < at THEN p ELSE p + 1
  <2>2. /\ m \in Nat /\ DOMAIN visible = 1 .. m /\ at \in 1 .. m
        /\ DOMAIN Without(visible, at) = 1 .. m - 1
        /\ \A p \in 1 .. m - 1 : Without(visible, at)[p] = visible[from(p)]
    <3>1. visible \in Seq(Nat) /\ m \in Nat /\ DOMAIN visible = 1 .. m /\ at \in 1 .. m
      BY <2>1 DEF PageInv, ListInv
    <3>2. \A p \in 1 .. m - 1 : Without(visible, at)[p] = visible[from(p)]
      BY <3>1, WithoutType
    <3>3. DOMAIN Without(visible, at) = 1 .. m - 1
      BY <3>1 DEF Without
    <3> QED
      BY <3>1, <3>2, <3>3
  <2>3. /\ DOMAIN visible' = 1 .. m - 1
        /\ \A p \in 1 .. m - 1 : visible'[p] = up(visible[from(p)])
    BY <2>1, <2>2
  <2>4. /\ \A p \in 1 .. m - 1 : from(p) \in 1 .. m /\ from(p) # at
        /\ \A p, q \in 1 .. m - 1 : p < q <=> from(p) < from(q)
        /\ \A q \in 1 .. m : q # at => \E p \in 1 .. m - 1 : from(p) = q
    <3>1. \A q \in 1 .. m : q # at => LET p == IF q < at THEN q ELSE q - 1
                                      IN  p \in 1 .. m - 1 /\ from(p) = q
      BY <2>2
    <3>2. /\ \A p \in 1 .. m - 1 : from(p) \in 1 .. m /\ from(p) # at
          /\ \A p, q \in 1 .. m - 1 : p < q <=> from(p) < from(q)
      BY <2>2
    <3> QED
      BY <3>1, <3>2
  <2> HIDE DEF from, m
  <2>5. \A p, q \in 1 .. m : visible[p] = visible[q] => p = q
    <3>1. \A p, q \in DOMAIN visible : p # q => visible[p] # visible[q]
      BY <1>1 DEF ById
    <3> QED
      BY <2>2, <3>1
  <2>6. \A p \in 1 .. m - 1 : visible[from(p)] \in stay
    BY <2>1, <2>2, <2>4, <2>5 DEF Rows
  <2>7. to \in [stay -> Rows']
    <3> SUFFICES ASSUME NEW r \in stay PROVE up(r) \in Rows'
      OBVIOUS
    <3>1. PICK q \in 1 .. m : visible[q] = r
      BY <2>2 DEF Rows
    <3>2. PICK p \in 1 .. m - 1 : from(p) = q
      BY <2>1, <2>4, <3>1
    <3>3. p \in DOMAIN visible' /\ visible'[p] = up(r)
      BY <2>3, <3>1, <3>2
    <3> QED
      BY <3>3 DEF Rows
  <2>8. \A p \in DOMAIN visible : visible[p] \in stay \/ tasks[visible[p]].id = id
    BY DEF Rows
  <2>9. \A k \in DOMAIN visible' : \/ \E r \in stay : visible'[k] = to[r]
                                   \/ tasks'[visible'[k]].id = id
    BY <2>3, <2>6
  <2>10. \A r \in stay : r \in 1 .. n /\ r # row /\ to[r] = up(r)
    BY <1>2, <1>3
  <2>11. \A r \in stay : tasks'[to[r]].id = tasks[r].id /\ tasks[r].id # id
    <3> SUFFICES ASSUME NEW r \in stay PROVE tasks'[to[r]].id = tasks[r].id /\ tasks[r].id # id
      OBVIOUS
    <3>1. r \in DOMAIN tasks /\ r # row /\ tasks'[to[r]] = tasks[r]
      BY <1>3, <1>5, <2>10
    <3> QED
      BY <1>1, <1>2, <3>1 DEF ById
  <2>12. ASSUME NEW p \in DOMAIN visible, NEW k \in DOMAIN visible', visible[p] \in stay,
                visible'[k] = to[visible[p]]
         PROVE  k \in 1 .. m - 1 /\ from(k) = p
    <3>1. k \in 1 .. m - 1 /\ p \in 1 .. m
      BY <2>2, <2>3
    <3>2. up(visible[from(k)]) = up(visible[p])
      BY <2>3, <2>10, <2>12, <3>1
    <3>3. visible[from(k)] = visible[p]
      BY <1>6, <2>6, <2>10, <2>12, <3>1, <3>2
    <3>4. from(k) \in 1 .. m
      BY <2>4, <3>1
    <3> QED
      BY <2>5, <3>1, <3>3, <3>4
  <2> HIDE DEF to, stay, id
  <2>13. \A p, q \in DOMAIN visible, k, l \in DOMAIN visible' :
           visible[p] \in stay /\ visible[q] \in stay /\ visible'[k] = to[visible[p]]
             /\ visible'[l] = to[visible[q]] => (p < q <=> k < l)
    <3> SUFFICES ASSUME NEW p \in DOMAIN visible, NEW q \in DOMAIN visible,
                        NEW k \in DOMAIN visible', NEW l \in DOMAIN visible',
                        visible[p] \in stay, visible[q] \in stay,
                        visible'[k] = to[visible[p]], visible'[l] = to[visible[q]]
                 PROVE  p < q <=> k < l
      OBVIOUS
    <3>1. /\ k \in 1 .. m - 1 /\ from(k) = p
          /\ l \in 1 .. m - 1 /\ from(l) = q
      BY <2>12
    <3> QED
      BY <2>4, <3>1
  <2>14. stay \in SUBSET Rows
    BY DEF stay
  <2> QED
    BY <2>7, <2>8, <2>9, <2>11, <2>13, <2>14, RestFromRows
<1> QED
  BY <1>7, <1>8

(* The done rows go; the others are shown as before.                       *)
LEMMA ClearedView ==
  ASSUME PageInv, PageInv', removeCompleted, SettingsStay
  PROVE  /\ Items' = [id \in {other \in DOMAIN Items : ~Items[other].done} |-> Items[id]]
         /\ Listed' = Listed \intersect DOMAIN Items'
<1> DEFINE c == Cardinality(OpenRows)
<1>1. ById /\ ById'
  BY PageById, NextById
<1>2. /\ tasks \in Seq(Task) /\ DOMAIN tasks = 1 .. Len(tasks) /\ Len(tasks) \in Nat
      /\ Rows = Accepted /\ Rows' = Accepted'
  BY DEF PageInv, ModelInv, StoreInv, StoreTypeOK, ListInv, ListShowsFilter
<1>3. PICK f \in Enumerations(OpenRows) : tasks' = [i \in DOMAIN f |-> tasks[f[i]]]
  BY DEF removeCompleted
<1>4. /\ OpenRows \in SUBSET (1 .. Len(tasks)) /\ IsFiniteSet(OpenRows) /\ c \in Nat
      /\ f \in [1 .. c -> OpenRows] /\ DOMAIN f = 1 .. c
      /\ \A i, j \in 1 .. c : i < j => f[i] < f[j]
  <2>1. OpenRows \in SUBSET (1 .. Len(tasks)) /\ IsFiniteSet(1 .. Len(tasks))
    BY <1>2, FS_Interval DEF OpenRows
  <2>2. IsFiniteSet(OpenRows) /\ c \in Nat
    BY <2>1, FS_Subset, FS_CardinalityType
  <2> QED
    BY <2>1, <2>2 DEF Enumerations
<1>5. \A row \in OpenRows : \E i \in 1 .. c : f[i] = row
  <2>1. \A i, j \in 1 .. c : i # j => f[i] # f[j]
    <3> SUFFICES ASSUME NEW i \in 1 .. c, NEW j \in 1 .. c, i < j PROVE f[i] # f[j]
      BY <1>4
    <3>1. f[i] < f[j]
      BY <1>4
    <3>2. f[i] \in OpenRows /\ f[j] \in OpenRows
      BY <1>4
    <3>3. f[i] \in Nat /\ f[j] \in Nat
      <4>1. OpenRows \subseteq Nat
        BY DEF OpenRows, PageInv, ModelInv, StoreInv, StoreTypeOK
      <4> QED
        BY <3>2, <4>1
    <3> QED
      BY <3>1, <3>3
  <2> HIDE DEF c
  <2>2. f \in Injection(1 .. c, OpenRows)
    BY <1>4, <2>1 DEF Injection, IsInjective
  <2>3. Cardinality(1 .. c) = Cardinality(OpenRows) /\ IsFiniteSet(1 .. c)
    BY <1>4, FS_Interval DEF c
  <2>4. f \in Surjection(1 .. c, OpenRows)
    BY <1>4, <2>2, <2>3, FS_Injection
  <2> QED
    BY <2>4 DEF Surjection
<1> HIDE DEF c
<1>6. /\ DOMAIN tasks' = 1 .. c
      /\ \A i \in 1 .. c : /\ f[i] \in DOMAIN tasks /\ ~tasks[f[i]].done
                           /\ tasks'[i] = tasks[f[i]]
  BY <1>3, <1>4 DEF OpenRows
<1>7. \A row \in DOMAIN tasks : ~tasks[row].done => \E i \in 1 .. c : f[i] = row
  BY <1>5 DEF OpenRows
<1> DEFINE left == {other \in DOMAIN Items : ~Items[other].done}
<1>8. Ids' = left
  <2>1. \A i \in DOMAIN tasks' : tasks'[i].id \in left
    BY <1>1, <1>6 DEF ById
  <2>2. \A id \in left : \E i \in DOMAIN tasks' : tasks'[i].id = id
    <3> SUFFICES ASSUME NEW id \in left PROVE \E i \in DOMAIN tasks' : tasks'[i].id = id
      OBVIOUS
    <3>1. PICK row \in DOMAIN tasks : tasks[row].id = id
      BY <1>1 DEF ById
    <3>2. ~tasks[row].done
      BY <1>1, <3>1 DEF ById
    <3>3. PICK i \in 1 .. c : f[i] = row
      BY <1>7, <3>2
    <3> QED
      BY <1>6, <3>1, <3>3
  <2> HIDE DEF left
  <2>3. Ids' \subseteq left
    BY <2>1 DEF Ids
  <2>4. left \subseteq Ids'
    BY <2>2 DEF Ids
  <2> QED
    BY <2>3, <2>4
<1>9. Items' = [id \in left |-> Items[id]]
  <2>1. \A id \in Ids' : Items'[id] = Items[id]
    <3> SUFFICES ASSUME NEW id \in Ids' PROVE Items'[id] = Items[id]
      OBVIOUS
    <3>1. PICK i \in DOMAIN tasks' : tasks'[i].id = id
      BY <1>1 DEF ById
    <3>2. Items'[tasks'[i].id] = tasks'[i]
      BY <1>1, <3>1 DEF ById
    <3>3. Items[tasks[f[i]].id] = tasks[f[i]] /\ tasks'[i] = tasks[f[i]]
      BY <1>1, <1>6, <3>1 DEF ById
    <3> QED
      BY <3>1, <3>2, <3>3
  <2>2. Items' = [id \in Ids' |-> Items'[id]]
    BY DEF Items
  <2> HIDE DEF left
  <2> QED
    BY <1>8, <2>1, <2>2
<1>10. Listed' = Listed \intersect left
  <2>1. \A i \in 1 .. c : i \in Accepted' <=> f[i] \in Accepted
    BY <1>6 DEF Accepted, filterAcceptsRow, SettingsStay
  <2>2. /\ Listed = {tasks[row].id : row \in Accepted}
        /\ Listed' = {tasks'[row].id : row \in Accepted'}
    BY <1>1, <1>2 DEF ById
  <2>3. \A i \in Accepted' : tasks'[i].id \in Listed \intersect left
    <3> SUFFICES ASSUME NEW i \in Accepted' PROVE tasks'[i].id \in Listed \intersect left
      OBVIOUS
    <3>1. i \in 1 .. c
      BY <1>6 DEF Accepted
    <3>2. tasks'[i] = tasks[f[i]] /\ f[i] \in Accepted
      BY <1>6, <2>1, <3>1
    <3>3. tasks'[i].id \in Ids'
      BY <1>1, <1>6, <3>1 DEF ById
    <3> QED
      BY <1>8, <2>2, <3>2, <3>3
  <2>4. \A id \in Listed \intersect left : id \in Listed'
    <3> SUFFICES ASSUME NEW id \in Listed, id \in left PROVE id \in Listed'
      OBVIOUS
    <3>1. PICK row \in Accepted : tasks[row].id = id
      BY <2>2
    <3>2. row \in DOMAIN tasks /\ ~tasks[row].done
      BY <1>1, <3>1 DEF ById, Accepted
    <3>3. PICK i \in 1 .. c : f[i] = row
      BY <1>7, <3>2
    <3> QED
      BY <1>6, <2>1, <2>2, <3>1, <3>3
  <2> HIDE DEF left
  <2> QED
    BY <2>2, <2>3, <2>4
<1>11. DOMAIN Items' = left
  BY <1>1, <1>8 DEF ById
<1> QED
  BY <1>9, <1>10, <1>11

-----------------------------------------------------------------------------
(* The same, in the words of the view. *)
LEMMA ViewTerms ==
  /\ ProperList' <=> View!Proper'
  /\ OpenFor = (IF editing = NotOpen THEN NotOpen ELSE editedId)
  /\ OpenFor' = (IF editing' = NotOpen THEN NotOpen ELSE editedId')
<1>1. ProperList' <=> View!Proper'
  BY DEF ProperList, View!Proper, View!Shown, Listed, List, Items
<1> QED
  BY <1>1 DEF OpenFor

(* Before the file is loaded there is nothing, and a dialog for a new task *)
(* is open for no id.                                                      *)
StartInv ==
  /\ ~loaded => nextId = 1 /\ samplesLeft = <<>>
  /\ editing = 0 => editedId = 0

(* Save is pressed in an open dialog. *)
LEMMA AcceptedIsOpen ==
  ASSUME PageInv, OpenDialogInv, accepted
  PROVE  /\ editing # NotOpen /\ loaded /\ samplesLeft = <<>>
         /\ editing \in DOMAIN tasks \/ editing = 0
<1>1. DOMAIN tasks \subseteq Nat /\ NotOpen \notin Nat
  BY DraftAssumption DEF PageInv, ModelInv, StoreInv, StoreTypeOK
<1> QED
  BY <1>1 DEF accepted, acceptedRow, acceptedNew, OpenDialogInv

(* It stays so until the file has been read. *)
LEMMA StartNextInv ==
  ASSUME PageInv, OpenDialogInv, StartInv, [Next]_vars
  PROVE  StartInv'
<1>1. CASE \E ok \in BOOLEAN : StartUp(ok)
  BY <1>1 DEF StartUp, StartInv, dialogVars
<1>2. CASE \E now \in Times : AddSample(now)
  BY <1>2 DEF AddSample, StartInv, dialogVars
<1>3. CASE ViewChosen \/ clearDone \/ RowClicked
  BY <1>3 DEF ViewChosen, clearDone, RowClicked, Usable, StartInv, dialogVars, startVars
<1>4. CASE openForNew
  BY <1>4 DEF openForNew, Usable, StartInv, startVars
<1>5. CASE editRequested
  <2>1. PICK proxyRow \in DOMAIN visible : openForRow(sourceRow(proxyRow))
    BY <1>5 DEF editRequested
  <2>2. sourceRow(proxyRow) # 0
    BY SourceRowExists, NoRowZero
  <2> QED
    BY <2>1, <2>2 DEF openForRow, Usable, StartInv, startVars
<1>6. CASE \E body \in Bodies : Type(body)
  BY <1>6 DEF Type, StartInv, allVars, storeVars, startVars
<1>7. CASE accepted
  BY <1>7, AcceptedIsOpen, DraftAssumption DEF accepted, StartInv, startVars
<1>8. CASE rejected
  BY <1>8, DraftAssumption DEF rejected, StartInv, allVars, storeVars, startVars
<1>9. CASE TakeBack
  BY <1>9, TakeBackKeeps DEF TakeBack, StartInv, startVars
<1>10. CASE UNCHANGED vars
  BY <1>10 DEF vars, allVars, storeVars, startVars, dialogVars, StartInv
<1> QED
  BY <1>1, <1>2, <1>3, <1>4, <1>5, <1>6, <1>7, <1>8, <1>9, <1>10 DEF Next

(* All invariants of the page together. *)
PageGood == PageInv /\ PageTypes /\ OrderInv /\ OpenDialogInv /\ StartInv

(* They hold in every state. *)
LEMMA PageGoodInductive == Spec => []PageGood
<1>1. Init => StartInv
  BY DraftAssumption DEF Init, ListInit, StoreInit, StartInv
<1>2. PageInv /\ OpenDialogInv /\ StartInv /\ [Next]_vars => StartInv'
  BY StartNextInv
<1> QED
  BY <1>1, <1>2, OrderInvInductive, OpenDialogInvInductive, PTL DEF Spec, PageGood

(* Nothing happens to the tasks or the list, and the dialog may close. *)
LEMMA SameView ==
  ASSUME PageGood, PageGood', UNCHANGED <<tasks, nextId, visible>>
  PROVE  /\ OpenFor' = OpenFor => UNCHANGED View!viewVars
         /\ OpenFor # NotOpen /\ OpenFor' = NotOpen => View!ViewNext
         /\ OpenFor = NotOpen /\ OpenFor' \in Listed \union {0} => View!ViewNext
<1>1. UNCHANGED <<Items, List, Listed>>
  BY DEF Items, List, Listed, Ids
<1>2. View!Proper'
  BY NextIsProper, ViewTerms DEF PageGood
<1>3. OpenFor' = OpenFor => UNCHANGED View!viewVars
  BY <1>1 DEF View!viewVars, Items, List, OpenFor
<1>4. OpenFor' = NotOpen => View!CloseDialog
  BY <1>1 DEF View!CloseDialog, Items, List, OpenFor
<1>5. OpenFor' \in Listed \union {0} => View!OpenDialog
  BY <1>1 DEF View!OpenDialog, View!Shown, Items, List, Listed, OpenFor
<1> QED
  BY <1>2, <1>3, <1>4, <1>5 DEF View!ViewNext, OpenFor

(* One lemma per step from here on: each is a step of the view or leaves   *)
(* all it shows alone. A new task first, typed or a sample.                *)
LEMMA NewTaskServes ==
  ASSUME PageGood, PageGood', NEW body \in Bodies, NEW now \in Times, AddTask(body, now),
         rowsInserted(Len(tasks) + 1), SettingsStay,
         OpenFor \in {NotOpen, 0}, OpenFor' = NotOpen
  PROVE  [View!ViewNext]_(View!viewVars)
<1>1. nextId \in Nat
  BY DEF PageGood, PageInv, ModelInv, StoreInv, StoreTypeOK
<1>2. CASE UNCHANGED <<tasks, nextId, visible>>
  BY <1>2, SameView
<1>3. CASE /\ nextId' = nextId + 1
           /\ DOMAIN Items' = DOMAIN Items \union {nextId}
           /\ \A id \in DOMAIN Items : Items'[id] = Items[id]
           /\ Items'[nextId].body \in Bodies /\ ~Items'[nextId].done
           /\ RestOfList(nextId)
  <2>1. View!Proper'
    BY NextIsProper, ViewTerms DEF PageGood
  <2>2. nextId' - 1 = nextId /\ (nextId - 1) + 1 = nextId
    BY <1>1, <1>3
  <2>3. View!RestStays((nextId - 1) + 1)
    <3>1. RestOfList(nextId)
      BY <1>3
    <3> QED
      BY <2>2, <3>1 DEF RestOfList, View!RestStays, View!Shown, Listed, List
  <2>4. /\ OpenFor \in {NotOpen, 0} /\ OpenFor' = NotOpen
        /\ nextId' - 1 = (nextId - 1) + 1
        /\ DOMAIN Items' = DOMAIN Items \union {nextId' - 1}
        /\ \A id \in DOMAIN Items : Items'[id] = Items[id]
        /\ Items'[nextId' - 1].body \in Bodies /\ ~Items'[nextId' - 1].done
    BY <1>3, <2>2
  <2>5. View!NewTask
    BY <2>3, <2>4, Zenon DEF View!NewTask, Items, OpenFor
  <2> QED
    BY <2>1, <2>5 DEF View!ViewNext, OpenFor
<1> QED
  BY <1>2, <1>3, InsertedView DEF PageGood

LEMMA StartServes ==
  ASSUME PageGood, PageGood', NEW ok \in BOOLEAN, StartUp(ok)
  PROVE  View!ViewNext
<1>1. View!Proper'
  BY NextIsProper, ViewTerms DEF PageGood
<1>2. nextId = 1 /\ editing = NotOpen /\ editing' = NotOpen
  BY DEF StartUp, PageGood, StartInv, OpenDialogInv, dialogVars
<1>3. View!Start
  BY <1>2 DEF View!Start
<1> QED
  BY <1>1, <1>2, <1>3 DEF View!ViewNext

LEMMA SampleServes ==
  ASSUME PageGood, PageGood', NEW now \in Times, AddSample(now)
  PROVE  [View!ViewNext]_(View!viewVars)
<1>1. samplesLeft \in Seq(Bodies) /\ samplesLeft # <<>>
  BY DEF PageGood, PageInv, AddSample
<1>2. Head(samplesLeft) \in Bodies
  BY <1>1
<1>3. editing = NotOpen /\ editing' = NotOpen
  BY <1>1 DEF AddSample, PageGood, OpenDialogInv, dialogVars
<1> QED
  BY <1>2, <1>3, NewTaskServes DEF AddSample, OpenFor

LEMMA LookServes ==
  ASSUME PageGood, PageGood', ViewChosen
  PROVE  View!ViewNext
<1>1. View!Proper'
  BY NextIsProper, ViewTerms DEF PageGood
<1>2. editing = NotOpen /\ UNCHANGED <<tasks, nextId, editing, editedId>>
  BY DEF ViewChosen, Usable, setSearchText, setShowCompleted, setSortMode, allVars, storeVars,
         dialogVars
<1>3. UNCHANGED Items
  BY <1>2 DEF Items, Ids
<1>4. View!Look
  BY <1>2, <1>3 DEF View!Look, Items
<1> QED
  BY <1>1, <1>2, <1>4 DEF View!ViewNext

LEMMA ClearServes ==
  ASSUME PageGood, PageGood', clearDone
  PROVE  View!ViewNext
<1>1. View!Proper'
  BY NextIsProper, ViewTerms DEF PageGood
<1>2. removeCompleted /\ SettingsStay /\ editing = NotOpen /\ UNCHANGED <<nextId, editing, editedId>>
  BY DEF clearDone, ClearCompleted, removeCompleted, Usable, dialogVars
<1>3. /\ Items' = [id \in {other \in DOMAIN Items : ~Items[other].done} |-> Items[id]]
      /\ Listed' = Listed \intersect DOMAIN Items'
  BY <1>2, ClearedView DEF PageGood
<1>4. View!ClearDone
  BY <1>2, <1>3 DEF View!ClearDone, View!Shown, Items, List, Listed
<1> QED
  BY <1>1, <1>2, <1>4 DEF View!ViewNext

(* What UpdateTask and ToggleDone do to their row.                         *)
LEMMA UpdatedTask ==
  ASSUME ModelInv, NEW row \in DOMAIN tasks, NEW body \in Bodies \ Blank, UpdateTask(row, body)
  PROVE  tasks' = [tasks EXCEPT ![row].body = Trimmed[body]] /\ UNCHANGED nextId
<1>1. indexOfId(tasks[row].id) = {row} /\ tasks \in Seq(Task) /\ tasks[row] \in Task
  BY IndexOfRow, RowType DEF ModelInv, StoreInv, StoreTypeOK
<1> DEFINE given == [tasks[row] EXCEPT !.body = body]
<1>2. given.body = body /\ given.done = tasks[row].done
  BY <1>1 DEF Task
<1>3. updateTask(tasks[row].id, given)
  BY DEF UpdateTask
<1> HIDE DEF given
<1>4. /\ tasks' = [tasks EXCEPT ![row].body = Trimmed[given.body], ![row].done = given.done]
      /\ UNCHANGED nextId
  BY <1>1, <1>2, <1>3 DEF updateTask
<1>5. [tasks EXCEPT ![row].body = Trimmed[body], ![row].done = tasks[row].done]
        = [tasks EXCEPT ![row].body = Trimmed[body]]
  BY <1>1 DEF Task
<1> QED
  BY <1>2, <1>4, <1>5

(* A toggled row is the row that was clicked. *)
LEMMA ToggledTask ==
  ASSUME ModelInv, NEW row \in DOMAIN tasks, ToggleDone(row)
  PROVE  tasks' = [tasks EXCEPT ![row].done = ~tasks[row].done] /\ UNCHANGED nextId
<1>1. indexOfId(tasks[row].id) = {row} /\ tasks[row] \in Task
  BY IndexOfRow, RowType DEF ModelInv, StoreInv
<1>2. setDone(tasks[row].id, ~tasks[row].done)
  BY DEF ToggleDone
<1>3. tasks[row].done # ~tasks[row].done
  BY <1>1 DEF Task
<1> QED
  BY <1>1, <1>2, <1>3 DEF setDone

LEMMA ToggleServes ==
  ASSUME PageGood, PageGood', NEW row \in Rows, ToggleDone(row), dataChanged(row),
         editing = NotOpen, UNCHANGED <<editing, editedId>>
  PROVE  View!ViewNext
<1>1. View!Proper'
  BY NextIsProper, ViewTerms DEF PageGood
<1>2. ModelInv /\ ById /\ row \in DOMAIN tasks /\ tasks[row] \in Task
  <2>1. ModelInv /\ ById
    BY PageById DEF PageGood, PageInv
  <2>2. row \in DOMAIN tasks
    BY <2>1 DEF ById, Rows
  <2> QED
    BY <2>1, <2>2, RowType DEF ModelInv, StoreInv
<1>3. tasks' = [tasks EXCEPT ![row].done = ~tasks[row].done] /\ UNCHANGED nextId
  BY <1>2, ToggledTask
<1>4. PICK id : id = tasks[row].id
  OBVIOUS
<1>5. id \in Listed /\ id \in DOMAIN Items /\ Items[id] = tasks[row]
  BY <1>2, <1>4 DEF ById
<1>6. /\ DOMAIN tasks' = DOMAIN tasks
      /\ tasks'[row] = [tasks[row] EXCEPT !.done = ~tasks[row].done]
      /\ tasks'[row].id = tasks[row].id
      /\ \A other \in DOMAIN tasks : other # row => tasks'[other] = tasks[other]
  BY <1>2, <1>3 DEF Task
<1>7. Items' = [Items EXCEPT ![id] = tasks'[row]] /\ RestOfList(id)
  <2>1. /\ Items' = [Items EXCEPT ![tasks[row].id] = tasks'[row]]
        /\ RestOfList(tasks[row].id)
    BY <1>2, <1>6, ChangedView DEF PageGood
  <2> QED
    BY <1>4, <2>1 DEF RestOfList
<1>8. Items' = [Items EXCEPT ![id].done = ~@]
  BY <1>5, <1>6, <1>7
<1>9. View!RestStays(id)
  BY <1>7 DEF RestOfList, View!RestStays, View!Shown, Listed, List
<1>10. View!Toggle(id)
  BY <1>3, <1>8, <1>9 DEF View!Toggle, Items
<1>11. id \in View!Shown
  BY <1>5 DEF View!Shown, Listed, List
<1> QED
  BY <1>1, <1>10, <1>11 DEF View!ViewNext

LEMMA RemoveServes ==
  ASSUME PageGood, PageGood', NEW row \in Rows, RemoveTask(row), rowsRemoved(row),
         editing = NotOpen, UNCHANGED <<editing, editedId>>
  PROVE  View!ViewNext
<1>1. View!Proper'
  BY NextIsProper, ViewTerms DEF PageGood
<1>2. ModelInv /\ ById /\ row \in DOMAIN tasks
  BY PageById DEF PageGood, PageInv, ById, Rows
<1>3. tasks' = Without(tasks, row) /\ UNCHANGED nextId
  <2>1. tasks' = Without(tasks, row)
    BY <1>2, RemovedRow
  <2>2. UNCHANGED nextId
    BY DEF RemoveTask, removeTask, storeVars
  <2> QED
    BY <2>1, <2>2
<1>4. PICK id : id = tasks[row].id
  OBVIOUS
<1>5. id \in Listed
  BY <1>2, <1>4 DEF ById
<1>6. /\ Items' = [other \in DOMAIN Items \ {id} |-> Items[other]]
      /\ RestOfList(id)
  <2>1. /\ Items' = [other \in DOMAIN Items \ {tasks[row].id} |-> Items[other]]
        /\ RestOfList(tasks[row].id)
    BY <1>3, RemovedView DEF PageGood
  <2> QED
    BY <1>4, <2>1 DEF RestOfList
<1>7. View!RestStays(id)
  BY <1>6 DEF RestOfList, View!RestStays, View!Shown, Listed, List
<1>8. View!Remove(id)
  BY <1>3, <1>6, <1>7 DEF View!Remove, Items
<1>9. id \in View!Shown
  BY <1>5 DEF View!Shown, Listed, List
<1> QED
  BY <1>1, <1>8, <1>9 DEF View!ViewNext

LEMMA RowClickedServes ==
  ASSUME PageGood, PageGood', RowClicked
  PROVE  View!ViewNext
<1>1. PICK proxyRow \in DOMAIN visible : toggleRequested(proxyRow) \/ removeRequested(proxyRow)
  BY DEF RowClicked
<1>2. sourceRow(proxyRow) \in Rows
  BY DEF sourceRow, Rows
<1>3. editing = NotOpen /\ UNCHANGED <<editing, editedId>>
  BY DEF RowClicked, Usable, dialogVars
<1> QED
  BY <1>1, <1>2, <1>3, ToggleServes, RemoveServes DEF toggleRequested, removeRequested

(* The dialog is accepted for the task it was opened for. *)
LEMMA ChangeServes ==
  ASSUME PageGood, PageGood', NEW row \in Rows, NEW body \in Bodies \ Blank,
         UpdateTask(row, body), dataChanged(row),
         OpenFor = tasks[row].id, OpenFor # NotOpen, OpenFor' = NotOpen
  PROVE  View!ViewNext
<1>1. View!Proper'
  BY NextIsProper, ViewTerms DEF PageGood
<1>2. ModelInv /\ ById /\ row \in DOMAIN tasks /\ tasks[row] \in Task
  <2>1. ModelInv /\ ById
    BY PageById DEF PageGood, PageInv
  <2>2. row \in DOMAIN tasks
    BY <2>1 DEF ById, Rows
  <2> QED
    BY <2>1, <2>2, RowType DEF ModelInv, StoreInv
<1>3. tasks' = [tasks EXCEPT ![row].body = Trimmed[body]] /\ UNCHANGED nextId
  BY <1>2, UpdatedTask
<1>4. PICK id : id = tasks[row].id
  OBVIOUS
<1>5. id \in DOMAIN Items /\ Items[id] = tasks[row] /\ OpenFor = id /\ Trimmed[body] \in Bodies
  BY <1>2, <1>4, BodyAssumption DEF ById
<1>6. /\ DOMAIN tasks' = DOMAIN tasks
      /\ tasks'[row] = [tasks[row] EXCEPT !.body = Trimmed[body]]
      /\ tasks'[row].id = tasks[row].id
      /\ \A other \in DOMAIN tasks : other # row => tasks'[other] = tasks[other]
  BY <1>2, <1>3 DEF Task
<1>7. Items' = [Items EXCEPT ![id] = tasks'[row]] /\ RestOfList(id)
  <2>1. /\ Items' = [Items EXCEPT ![tasks[row].id] = tasks'[row]]
        /\ RestOfList(tasks[row].id)
    BY <1>2, <1>6, ChangedView DEF PageGood
  <2> QED
    BY <1>4, <2>1 DEF RestOfList
<1>8. Items' = [Items EXCEPT ![OpenFor].body = Trimmed[body]]
  BY <1>5, <1>6, <1>7
<1>9. View!RestStays(OpenFor)
  <2>1. RestOfList(OpenFor)
    <3>1. Listed' \ {OpenFor} = Listed \ {OpenFor}
      BY <1>5, <1>7 DEF RestOfList
    <3>2. \A p, q \in DOMAIN List, k, l \in DOMAIN List' :
            OpenFor \notin {List[p], List[q]} /\ List[p] = List'[k] /\ List[q] = List'[l] =>
              (p < q <=> k < l)
      BY <1>5, <1>7 DEF RestOfList
    <3> QED
      BY <3>1, <3>2, Zenon DEF RestOfList
  <2> QED
    BY <2>1, Zenon DEF RestOfList, View!RestStays, View!Shown, Listed, List
<1>10. OpenFor \in DOMAIN Items
  BY <1>5
<1>11. View!Change
  BY <1>3, <1>5, <1>8, <1>9, <1>10, Zenon DEF View!Change, Items, OpenFor
<1> QED
  BY <1>1, <1>11 DEF View!ViewNext, OpenFor

LEMMA AcceptedServes ==
  ASSUME PageGood, PageGood', accepted
  PROVE  [View!ViewNext]_(View!viewVars)
<1>1. /\ editing # NotOpen /\ editing' = NotOpen /\ draft \in Bodies /\ SettingsStay
      /\ editedId # NotOpen
  BY AcceptedIsOpen, DraftAssumption DEF accepted, PageGood, PageInv, PageTypes
<1>2. OpenFor = editedId /\ OpenFor # NotOpen /\ OpenFor' = NotOpen
  BY <1>1 DEF OpenFor
<1>3. CASE acceptedRow
  <2>1. editing \in DOMAIN tasks /\ UpdateTask(editing, draft)
    BY <1>3 DEF acceptedRow
  <2>2. editing # 0
    BY <2>1, NoRowZero DEF PageGood
  <2>3. editing \in Rows /\ tasks[editing].id = editedId
    BY <1>1, <2>2 DEF PageGood, OpenDialogInv
  <2>4. CASE draft \in Blank
    <3>1. tasks[editing] \in Task
      BY <2>1, RowType DEF PageGood, PageInv, ModelInv, StoreInv
    <3>2. [tasks[editing] EXCEPT !.body = draft].body = draft
      BY <3>1 DEF Task
    <3>3. UNCHANGED storeVars
      BY <2>1, <2>4, <3>2 DEF UpdateTask, updateTask
    <3>4. UNCHANGED <<tasks, nextId, visible>>
      BY <1>3, <2>4, <3>3 DEF acceptedRow, storeVars
    <3> QED
      BY <1>2, <3>4, SameView
  <2>5. CASE draft \notin Blank
    <3>1. dataChanged(editing)
      BY <1>3, <2>5 DEF acceptedRow
    <3> QED
      BY <1>1, <1>2, <2>1, <2>3, <2>5, <3>1, ChangeServes
  <2> QED
    BY <2>4, <2>5
<1>4. ASSUME NEW now \in Times, acceptedNew(now) PROVE [View!ViewNext]_(View!viewVars)
  <2>1. OpenFor = 0
    BY <1>2, <1>4 DEF acceptedNew, PageGood, StartInv
  <2> QED
    BY <1>1, <1>2, <1>4, <2>1, NewTaskServes DEF acceptedNew
<1> QED
  BY <1>3, <1>4 DEF accepted

(* The dialog is opened for a task that is shown, or for a new one, typed  *)
(* into, or cancelled.                                                     *)
LEMMA DialogServes ==
  ASSUME PageGood, PageGood',
         openForNew \/ editRequested \/ rejected \/ \E body \in Bodies : Type(body)
  PROVE  [View!ViewNext]_(View!viewVars)
<1>1. UNCHANGED <<tasks, nextId, visible>>
  BY DEF openForNew, editRequested, openForRow, rejected, Type, allVars, storeVars, filterVars
<1>2. CASE openForNew
  <2>1. OpenFor = NotOpen /\ OpenFor' = 0
    BY <1>2, DraftAssumption DEF openForNew, Usable, OpenFor
  <2> QED
    BY <1>1, <2>1, SameView
<1>3. CASE editRequested
  <2>1. PICK proxyRow \in DOMAIN visible : openForRow(sourceRow(proxyRow))
    BY <1>3 DEF editRequested
  <2>2. /\ editing = NotOpen /\ editing' = visible[proxyRow]
        /\ editedId' = tasks[visible[proxyRow]].id
    BY <2>1 DEF openForRow, Usable, sourceRow
  <2>3. visible[proxyRow] \in Nat
    BY DEF PageGood, PageInv, ListInv
  <2>4. List[proxyRow] = tasks[visible[proxyRow]].id /\ proxyRow \in DOMAIN List
    BY DEF List
  <2>5. OpenFor = NotOpen /\ OpenFor' \in Listed
    BY <2>2, <2>3, <2>4, DraftAssumption DEF OpenFor, Listed
  <2> QED
    BY <1>1, <2>5, SameView
<1>4. CASE rejected
  <2>1. editing # NotOpen /\ editing' = NotOpen /\ editedId # NotOpen
    BY <1>4, DraftAssumption DEF rejected, PageGood, PageTypes
  <2>2. OpenFor # NotOpen /\ OpenFor' = NotOpen
    BY <2>1 DEF OpenFor
  <2> QED
    BY <1>1, <2>2, SameView
<1>5. CASE \E body \in Bodies : Type(body)
  <2>1. OpenFor' = OpenFor
    BY <1>5 DEF Type, OpenFor
  <2> QED
    BY <1>1, <2>1, SameView
<1> QED
  BY <1>2, <1>3, <1>4, <1>5

(* Every step of the page does to the tasks and to the list what the user  *)
(* was promised, or nothing: one task changes, under its id, the others    *)
(* and their places stay, and looking at the list changes no task          *)
(* (TasksPage.qml:35-124, TaskFilterModel.cpp:7-120).                      *)
THEOREM PageServesView == Spec => ImplementsView
<1>1. Init => View!ViewInit
  <2> SUFFICES ASSUME Init PROVE View!ViewInit
    OBVIOUS
  <2>1. tasks = <<>> /\ nextId = 1 /\ visible = <<>> /\ editing = NotOpen
    BY DEF Init, ListInit, StoreInit, FilterInit
  <2>2. DOMAIN tasks = {} /\ DOMAIN visible = {}
    BY <2>1
  <2>3. Ids = {}
    BY <2>2 DEF Ids
  <2>4. Items = <<>> /\ List = <<>>
    BY <2>2, <2>3 DEF Items, List
  <2> QED
    BY <2>1, <2>4 DEF View!ViewInit, Items, List
<1>2. PageGood /\ PageGood' /\ [Next]_vars => [View!ViewNext]_(View!viewVars)
  <2> SUFFICES ASSUME PageGood, PageGood', [Next]_vars
               PROVE  [View!ViewNext]_(View!viewVars)
    OBVIOUS
  <2>1. CASE TakeBack
    <3>1. UNCHANGED <<tasks, nextId, visible>> /\ OpenFor' = OpenFor
      BY <2>1, TakeBackKeeps DEF PageGood, filterVars, OpenFor
    <3> QED
      BY <3>1, SameView
  <2>2. CASE UNCHANGED vars
    <3>1. UNCHANGED <<tasks, nextId, visible>> /\ OpenFor' = OpenFor
      BY <2>2 DEF vars, allVars, storeVars, filterVars, dialogVars, OpenFor
    <3> QED
      BY <3>1, SameView
  <2> QED
    BY <2>1, <2>2, StartServes, SampleServes, LookServes, ClearServes, RowClickedServes,
       AcceptedServes, DialogServes DEF Next
<1> QED
  BY <1>1, <1>2, PageGoodInductive, PTL DEF Spec, ImplementsView, View!ViewSpec

=============================================================================
