-------------------------- MODULE TaskStoreProofs --------------------------
(***************************************************************************)
(* Theorems about the task store, for every list, every caller and every   *)
(* file whose positive ids are distinct. StoreInv is inductive: that a     *)
(* fresh id is fresh needs the counter to be past every id, and that in    *)
(* turn needs loading to look at the ids, not only at the counter, of the  *)
(* file. One lemma per operation; TaskBoardProofs uses them again. From    *)
(* StoreInv follow the action properties: ids that are never used again,   *)
(* rows that keep identity and order (every row after a step is a row      *)
(* before it, found by an increasing map), and a saved store that reads    *)
(* back as itself (its document is in order, and loading one that is in    *)
(* order changes nothing).                                                 *)
(***************************************************************************)
EXTENDS DistinctFiles, Sums

(* What every later invariant contains. *)
StoreInv == StoreTypeOK /\ IdsUnique

-----------------------------------------------------------------------------
(* A subset of the rows of a sequence is counted by a natural number, and  *)
(* an enumeration of it lists rows in increasing order.                    *)
LEMMA EnumerationType ==
  ASSUME NEW n \in Nat, NEW S \in SUBSET (1 .. n), NEW f \in Enumerations(S)
  PROVE  /\ Cardinality(S) \in Nat
         /\ f \in [1 .. Cardinality(S) -> 1 .. n]
         /\ \A i \in DOMAIN f : f[i] \in S
         /\ \A i, j \in DOMAIN f : i < j => f[i] < f[j]
<1>1. IsFiniteSet(S)
  <2>1. IsFiniteSet(1 .. n)
    BY FS_Interval
  <2> QED
    BY <2>1, FS_Subset
<1>2. Cardinality(S) \in Nat
  BY <1>1, FS_CardinalityType
<1> QED
  BY <1>2 DEF Enumerations

(* Choosing every row of a list leaves the list as it is: a row that moved *)
(* up would have to be the first to do so, one that moved down the last.   *)
LEMMA EnumerationOfAll ==
  ASSUME NEW n \in Nat, NEW f \in Enumerations(1 .. n)
  PROVE  f = [i \in 1 .. n |-> i]
<1>1. /\ f \in [1 .. n -> 1 .. n]
      /\ \A i, j \in 1 .. n : i < j => f[i] < f[j]
  <2>1. Cardinality(1 .. n) = n
    BY FS_Interval
  <2> QED
    BY <2>1 DEF Enumerations
<1>2. \A i \in 1 .. n : f[i] >= i
  <2> DEFINE Up == {i \in 1 .. n : f[i] < i}
  <2> SUFFICES ASSUME Up # {} PROVE FALSE
    BY <1>1
  <2>1. PICK i \in Up : \A j \in Up : i <= j
    <3>1. Up \in SUBSET Nat
      OBVIOUS
    <3> HIDE DEF Up
    <3> QED
      BY <3>1, SmallestElement
  <2>2. i # 1 /\ i - 1 \in 1 .. n
    BY <1>1
  <2>3. f[i - 1] >= i - 1
    BY <1>1, <2>1, <2>2
  <2> QED
    BY <1>1, <2>2, <2>3
<1>3. \A i \in 1 .. n : f[i] <= i
  <2> DEFINE Down == {k \in Nat : k < n /\ f[n - k] > n - k}
  <2> SUFFICES ASSUME Down # {} PROVE FALSE
    <3>1. ASSUME NEW i \in 1 .. n, ~ (f[i] <= i) PROVE n - i \in Down
      <4>1. n - i \in Nat /\ n - i < n /\ n - (n - i) = i
        OBVIOUS
      <4> QED
        BY <1>1, <3>1, <4>1
    <3> QED
      BY <3>1
  <2>1. PICK k \in Down : \A j \in Down : k <= j
    <3>1. Down \in SUBSET Nat
      OBVIOUS
    <3> HIDE DEF Down
    <3> QED
      BY <3>1, SmallestElement
  <2>2. k # 0 /\ k - 1 \in Nat /\ k - 1 < n /\ n - k \in 1 .. n /\ n - (k - 1) \in 1 .. n
    BY <1>1
  <2>3. f[n - (k - 1)] <= n - (k - 1)
    <3>1. k - 1 \notin Down
      BY <2>1, <2>2
    <3> QED
      BY <1>1, <2>2, <3>1
  <2>4. f[n - k] < f[n - (k - 1)]
    BY <1>1, <2>2
  <2> QED
    BY <1>1, <2>2, <2>3, <2>4
<1>4. \A i \in 1 .. n : f[i] = i
  BY <1>1, <1>2, <1>3
<1> QED
  BY <1>1, <1>4

(* The rows are numbered from one, and each is a task. *)
LEMMA RowType ==
  ASSUME StoreTypeOK
  PROVE  /\ Len(tasks) \in Nat
         /\ DOMAIN tasks = 1 .. Len(tasks)
         /\ \A j \in DOMAIN tasks : tasks[j] \in Task
         /\ nextId \in Nat
BY DEF StoreTypeOK

(* The first of the rows with an id is a row with that id; when the ids    *)
(* are unique it is the only one.                                          *)
LEMMA IndexType ==
  ASSUME StoreTypeOK, NEW id, NEW i \in indexOfId(id)
  PROVE  i \in 1 .. Len(tasks) /\ tasks[i].id = id
BY DEF indexOfId, StoreTypeOK

(* A command by id finds the row it was meant for. *)
LEMMA IndexOfRow ==
  ASSUME StoreInv, NEW row \in DOMAIN tasks
  PROVE  indexOfId(tasks[row].id) = {row}
BY DEF indexOfId, StoreInv, StoreTypeOK, IdsUnique

(* The rows without one of them are rows, in the same order.               *)
LEMMA WithoutType ==
  ASSUME NEW T, NEW seq \in Seq(T), NEW i \in 1 .. Len(seq)
  PROVE  /\ Without(seq, i) \in Seq(T)
         /\ Len(Without(seq, i)) = Len(seq) - 1
         /\ \A j \in 1 .. Len(seq) - 1 : Without(seq, i)[j] = seq[IF j < i THEN j ELSE j + 1]
BY DEF Without

-----------------------------------------------------------------------------
(* An empty store, and then one lemma per operation. *)
LEMMA InitInv == StoreInit => StoreInv
BY DEF StoreInit, StoreInv, StoreTypeOK, IdsUnique

LEMMA AddInv ==
  ASSUME StoreInv, NEW task \in Task, NEW now \in Times, addTask(task, now)
  PROVE  StoreInv' /\ nextId' \in {nextId, nextId + 1}
<1>1. CASE UNCHANGED storeVars
  BY <1>1 DEF StoreInv, StoreTypeOK, IdsUnique, storeVars
<1>2. CASE task.body \notin Blank /\ ~UNCHANGED storeVars
  <2> DEFINE row == [id |-> nextId, body |-> Trimmed[task.body], done |-> task.done,
                     createdAt |-> IF task.createdAt = NoTime THEN now ELSE task.createdAt]
  <2>1. tasks' = Append(tasks, row) /\ nextId' = nextId + 1
    BY <1>2 DEF addTask
  <2>2. row \in Task /\ row.body \notin Blank /\ row.id = nextId
    BY <1>2, BodyAssumption DEF Task, StoreInv, StoreTypeOK
  <2> HIDE DEF row
  <2>3. StoreTypeOK'
    BY <2>1, <2>2 DEF StoreInv, StoreTypeOK
  <2>4. /\ DOMAIN tasks = 1 .. Len(tasks) /\ Len(tasks) \in Nat
        /\ DOMAIN tasks' = 1 .. Len(tasks) + 1
        /\ \A j \in 1 .. Len(tasks) : tasks'[j] = tasks[j]
        /\ tasks'[Len(tasks) + 1] = row
    BY <2>1, <2>2 DEF StoreInv, StoreTypeOK
  <2>5. \A j \in DOMAIN tasks : tasks[j].id \in Int /\ 0 < tasks[j].id /\ tasks[j].id < nextId
    <3>1. \A j \in DOMAIN tasks : tasks[j] \in Task
      BY RowType DEF StoreInv
    <3> QED
      BY <3>1 DEF StoreInv, IdsUnique, Task
  <2>6. \A j \in DOMAIN tasks' : /\ 0 < tasks'[j].id /\ tasks'[j].id < nextId'
                                /\ tasks'[j].body \notin Blank
    BY <2>1, <2>2, <2>4, <2>5 DEF StoreInv, StoreTypeOK, IdsUnique
  <2>7. \A j, k \in DOMAIN tasks' : j # k => tasks'[j].id # tasks'[k].id
    BY <2>2, <2>4, <2>5 DEF StoreInv, StoreTypeOK, IdsUnique
  <2> QED
    BY <2>1, <2>3, <2>6, <2>7 DEF StoreInv, IdsUnique
<1> QED
  BY <1>1, <1>2 DEF addTask

LEMMA UpdateInv ==
  ASSUME StoreInv, NEW id, NEW task \in Task, updateTask(id, task)
  PROVE  StoreInv' /\ nextId' = nextId
<1>1. CASE UNCHANGED storeVars
  BY <1>1 DEF StoreInv, StoreTypeOK, IdsUnique, storeVars
<1>2. ASSUME task.body \notin Blank, NEW i \in indexOfId(id), UNCHANGED nextId,
             tasks' = [tasks EXCEPT ![i].body = Trimmed[task.body], ![i].done = task.done]
      PROVE  StoreInv'
  <2>1. i \in 1 .. Len(tasks)
    BY <1>2, IndexType DEF StoreInv
  <2>2. Trimmed[task.body] \in Bodies \ Blank /\ task.done \in BOOLEAN
    BY <1>2, BodyAssumption DEF Task
  <2>3. StoreTypeOK'
    <3>1. \A j \in DOMAIN tasks : tasks'[j] \in Task
      <4> SUFFICES ASSUME NEW j \in DOMAIN tasks PROVE tasks'[j] \in Task
        OBVIOUS
      <4>1. tasks[j] \in Task
        BY RowType DEF StoreInv
      <4>2. CASE j = i
        <5>1. tasks'[j] = [tasks[j] EXCEPT !.body = Trimmed[task.body], !.done = task.done]
          BY <1>2, <4>2
        <5> QED
          BY <2>2, <4>1, <5>1 DEF Task
      <4>3. CASE j # i
        BY <1>2, <4>1, <4>3
      <4> QED
        BY <4>2, <4>3
    <3>2. Len(tasks) \in Nat /\ DOMAIN tasks = 1 .. Len(tasks)
      BY RowType DEF StoreInv
    <3>3. tasks' = [j \in 1 .. Len(tasks) |-> tasks'[j]]
      BY <1>2, <3>2
    <3>4. tasks' \in Seq(Task)
      BY <3>1, <3>2, <3>3
    <3> QED
      BY <1>2, <3>4 DEF StoreInv, StoreTypeOK
  <2>4. /\ DOMAIN tasks' = DOMAIN tasks
        /\ \A j \in DOMAIN tasks : tasks'[j].id = tasks[j].id
        /\ \A j \in DOMAIN tasks : tasks'[j].body \in {tasks[j].body, Trimmed[task.body]}
    BY <1>2, <2>1 DEF StoreInv, StoreTypeOK, Task
  <2> QED
    BY <1>2, <2>2, <2>3, <2>4 DEF StoreInv, IdsUnique
<1> QED
  BY <1>1, <1>2 DEF updateTask, storeVars

LEMMA RemoveInv ==
  ASSUME StoreInv, NEW id, removeTask(id)
  PROVE  StoreInv' /\ nextId' = nextId
<1>1. CASE UNCHANGED storeVars
  BY <1>1 DEF StoreInv, StoreTypeOK, IdsUnique, storeVars
<1>2. ASSUME NEW i \in indexOfId(id), tasks' = Without(tasks, i), UNCHANGED nextId
      PROVE  StoreInv'
  <2>1. i \in 1 .. Len(tasks)
    BY <1>2, IndexType DEF StoreInv
  <2>2. /\ tasks' \in Seq(Task)
        /\ Len(tasks') = Len(tasks) - 1
        /\ \A j \in 1 .. Len(tasks) - 1 : tasks'[j] = tasks[IF j < i THEN j ELSE j + 1]
    BY <1>2, <2>1, WithoutType DEF StoreInv, StoreTypeOK
  <2> DEFINE at(j) == IF j < i THEN j ELSE j + 1
  <2>3. /\ DOMAIN tasks = 1 .. Len(tasks) /\ Len(tasks) \in Nat
        /\ DOMAIN tasks' = 1 .. Len(tasks) - 1
        /\ \A j \in DOMAIN tasks' : at(j) \in DOMAIN tasks /\ tasks'[j] = tasks[at(j)]
        /\ \A j, k \in DOMAIN tasks' : j # k => at(j) # at(k)
    BY <2>1, <2>2 DEF StoreInv, StoreTypeOK
  <2> HIDE DEF at
  <2>4. IdsUnique'
    BY <1>2, <2>3 DEF StoreInv, IdsUnique
  <2> QED
    BY <1>2, <2>2, <2>4 DEF StoreInv, StoreTypeOK
<1> QED
  BY <1>1, <1>2 DEF removeTask, storeVars

LEMMA SetDoneInv ==
  ASSUME StoreInv, NEW id, NEW done \in BOOLEAN, setDone(id, done)
  PROVE  StoreInv' /\ nextId' = nextId
<1>1. CASE UNCHANGED storeVars
  BY <1>1 DEF StoreInv, StoreTypeOK, IdsUnique, storeVars
<1>2. ASSUME NEW i \in indexOfId(id), UNCHANGED nextId,
             tasks' = [tasks EXCEPT ![i].done = done]
      PROVE  StoreInv'
  <2>1. i \in 1 .. Len(tasks)
    BY <1>2, IndexType DEF StoreInv
  <2>2. StoreTypeOK'
    <3>1. \A j \in DOMAIN tasks : tasks'[j] \in Task
      <4> SUFFICES ASSUME NEW j \in DOMAIN tasks PROVE tasks'[j] \in Task
        OBVIOUS
      <4>1. tasks[j] \in Task
        BY RowType DEF StoreInv
      <4>2. CASE j = i
        <5>1. tasks'[j] = [tasks[j] EXCEPT !.done = done]
          BY <1>2, <4>2
        <5> QED
          BY <4>1, <5>1 DEF Task
      <4>3. CASE j # i
        BY <1>2, <4>1, <4>3
      <4> QED
        BY <4>2, <4>3
    <3>2. Len(tasks) \in Nat /\ DOMAIN tasks = 1 .. Len(tasks)
      BY RowType DEF StoreInv
    <3>3. tasks' = [j \in 1 .. Len(tasks) |-> tasks'[j]]
      BY <1>2, <3>2
    <3>4. tasks' \in Seq(Task)
      BY <3>1, <3>2, <3>3
    <3> QED
      BY <1>2, <3>4 DEF StoreInv, StoreTypeOK
  <2>3. /\ DOMAIN tasks' = DOMAIN tasks
        /\ \A j \in DOMAIN tasks : tasks'[j].id = tasks[j].id /\ tasks'[j].body = tasks[j].body
    BY <1>2, <2>1 DEF StoreInv, StoreTypeOK, Task
  <2> QED
    BY <1>2, <2>2, <2>3 DEF StoreInv, IdsUnique
<1> QED
  BY <1>1, <1>2 DEF setDone, storeVars

LEMMA RemoveCompletedInv ==
  ASSUME StoreInv, removeCompleted
  PROVE  StoreInv' /\ nextId' = nextId
<1>1. PICK f \in Enumerations(OpenRows) : tasks' = [i \in DOMAIN f |-> tasks[f[i]]]
  BY DEF removeCompleted
<1> DEFINE m == Cardinality(OpenRows)
<1>2. Len(tasks) \in Nat /\ OpenRows \in SUBSET (1 .. Len(tasks))
  BY DEF StoreInv, StoreTypeOK, OpenRows
<1>3. /\ m \in Nat
      /\ f \in [1 .. m -> 1 .. Len(tasks)]
      /\ \A i, j \in DOMAIN f : i < j => f[i] < f[j]
  BY <1>2, EnumerationType
<1> HIDE DEF m
<1>4. \A i, j \in 1 .. m : i # j => f[i] # f[j]
  BY <1>3
<1>5. tasks' \in Seq(Task) /\ DOMAIN tasks' = 1 .. m /\ \A i \in 1 .. m : tasks'[i] = tasks[f[i]]
  BY <1>1, <1>3 DEF StoreInv, StoreTypeOK
<1>6. nextId' = nextId
  BY DEF removeCompleted
<1>7. \A i \in 1 .. m : f[i] \in DOMAIN tasks
  BY <1>2, <1>3 DEF StoreInv, StoreTypeOK
<1>8. IdsUnique'
  BY <1>4, <1>5, <1>6, <1>7 DEF StoreInv, IdsUnique
<1> QED
  BY <1>5, <1>6, <1>8 DEF StoreInv, StoreTypeOK

LEMMA ClearInv ==
  ASSUME clear
  PROVE  StoreInv'
BY DEF clear, StoreInv, StoreTypeOK, IdsUnique

-----------------------------------------------------------------------------
(* The numbers handed to the rows without an id are all different: the     *)
(* idless rows before an idless row are fewer than those up to any later   *)
(* place.                                                                  *)
LEMMA IdlessCount ==
  ASSUME NEW parsed \in Seq(Task)
  PROVE  /\ \A k \in 0 .. Len(parsed) : Cardinality({j \in 1 .. k : parsed[j].id <= 0}) \in Nat
         /\ \A i \in 1 .. Len(parsed), k \in 1 .. Len(parsed) :
              parsed[i].id <= 0 /\ i <= k =>
                Cardinality({j \in 1 .. i - 1 : parsed[j].id <= 0})
                  < Cardinality({j \in 1 .. k : parsed[j].id <= 0})
<1> DEFINE upTo(k) == {j \in 1 .. k : parsed[j].id <= 0}
<1>1. ASSUME NEW k \in 0 .. Len(parsed)
      PROVE  IsFiniteSet(upTo(k)) /\ Cardinality(upTo(k)) \in Nat
  <2>1. IsFiniteSet(1 .. k)
    BY FS_Interval
  <2>2. upTo(k) \in SUBSET (1 .. k)
    OBVIOUS
  <2>3. IsFiniteSet(upTo(k))
    BY <2>1, <2>2, FS_Subset
  <2> QED
    BY <2>3, FS_CardinalityType
<1>2. ASSUME NEW i \in 1 .. Len(parsed), NEW k \in 1 .. Len(parsed),
             parsed[i].id <= 0, i <= k
      PROVE  Cardinality(upTo(i - 1)) < Cardinality(upTo(k))
  <2>1. i - 1 \in 0 .. Len(parsed) /\ k \in 0 .. Len(parsed)
    OBVIOUS
  <2>2. upTo(i - 1) \in SUBSET upTo(k) /\ i \in upTo(k) /\ i \notin upTo(i - 1)
    BY <1>2
  <2>3. /\ IsFiniteSet(upTo(k))
        /\ Cardinality(upTo(k)) \in Nat /\ Cardinality(upTo(i - 1)) \in Nat
    BY <1>1, <2>1
  <2> HIDE DEF upTo
  <2>4. /\ Cardinality(upTo(i - 1)) <= Cardinality(upTo(k))
        /\ Cardinality(upTo(i - 1)) # Cardinality(upTo(k))
    BY <2>2, <2>3, FS_Subset
  <2> QED
    BY <2>3, <2>4
<1> QED
  BY <1>1, <1>2

(* The rows that loading keeps are tasks with a title and, where they have *)
(* one, an id of their own.                                                *)
LEMMA ParsedType ==
  ASSUME NEW doc \in Document, DistinctIds(doc),
         NEW f \in Enumerations({i \in DOMAIN doc.tasks : doc.tasks[i].body \notin Blank}),
         NEW parsed, parsed = [i \in DOMAIN f |-> doc.tasks[f[i]]]
  PROVE  /\ parsed \in Seq(Task)
         /\ \A i \in DOMAIN parsed : parsed[i].body \notin Blank
         /\ \A i, j \in DOMAIN parsed :
              i # j /\ parsed[i].id > 0 => parsed[i].id # parsed[j].id
<1> DEFINE S == {i \in DOMAIN doc.tasks : doc.tasks[i].body \notin Blank}
           m == Cardinality(S)
<1>1. doc.tasks \in Seq(Task)
  BY DEF Document
<1>2. Len(doc.tasks) \in Nat /\ DOMAIN doc.tasks = 1 .. Len(doc.tasks)
  BY <1>1
<1>3. S \in SUBSET (1 .. Len(doc.tasks))
  BY <1>2
<1>4. /\ m \in Nat
      /\ f \in [1 .. m -> 1 .. Len(doc.tasks)]
      /\ \A i \in DOMAIN f : f[i] \in S
      /\ \A i, j \in DOMAIN f : i < j => f[i] < f[j]
  BY <1>2, <1>3, EnumerationType
<1>5. \A i \in DOMAIN f : f[i] \in DOMAIN doc.tasks /\ doc.tasks[f[i]].body \notin Blank
  BY <1>4
<1> HIDE DEF m, S
<1>6. \A i, j \in DOMAIN f : i # j => f[i] # f[j]
  BY <1>4
<1>7. parsed \in Seq(Task) /\ DOMAIN parsed = DOMAIN f
  BY <1>1, <1>4, <1>5
<1> QED
  BY <1>5, <1>6, <1>7 DEF DistinctIds

LEMMA LoadInv ==
  ASSUME StoreInv, NEW doc, doc \in Document => DistinctIds(doc), loadFromJson(doc)
  PROVE  StoreInv'
<1>1. CASE UNCHANGED storeVars
  BY <1>1 DEF StoreInv, StoreTypeOK, IdsUnique, storeVars
<1>2. CASE doc \in Document /\ ~UNCHANGED storeVars
  <2>1. PICK f \in Enumerations({i \in DOMAIN doc.tasks : doc.tasks[i].body \notin Blank}) :
          LET parsed == [i \in DOMAIN f |-> doc.tasks[f[i]]]
              lowest == {1, doc.nextId} \union {parsed[i].id + 1 : i \in DOMAIN parsed}
              idless(k) == Cardinality({j \in 1 .. k : parsed[j].id <= 0})
          IN  \E first \in lowest :
                /\ \A n \in lowest : n <= first
                /\ tasks' = [i \in DOMAIN parsed |->
                               IF parsed[i].id > 0 THEN parsed[i]
                               ELSE [parsed[i] EXCEPT !.id = first + idless(i - 1)]]
                /\ nextId' = first + idless(Len(parsed))
    BY <1>2 DEF loadFromJson
  <2> DEFINE parsed == [i \in DOMAIN f |-> doc.tasks[f[i]]]
             lowest == {1, doc.nextId} \union {parsed[i].id + 1 : i \in DOMAIN parsed}
             idless(k) == Cardinality({j \in 1 .. k : parsed[j].id <= 0})
             n == Len(parsed)
  <2>2. PICK first \in lowest :
          /\ \A k \in lowest : k <= first
          /\ tasks' = [i \in DOMAIN parsed |->
                         IF parsed[i].id > 0 THEN parsed[i]
                         ELSE [parsed[i] EXCEPT !.id = first + idless(i - 1)]]
          /\ nextId' = first + idless(Len(parsed))
    BY <2>1
  <2>3. /\ parsed \in Seq(Task)
        /\ \A i \in DOMAIN parsed : parsed[i].body \notin Blank
        /\ \A i, j \in DOMAIN parsed :
             i # j /\ parsed[i].id > 0 => parsed[i].id # parsed[j].id
    <3> HIDE DEF parsed
    <3>1. parsed = [i \in DOMAIN f |-> doc.tasks[f[i]]]
      BY DEF parsed
    <3> QED
      BY <1>2, <3>1, ParsedType
  <2> HIDE DEF parsed
  <2>4. n \in Nat /\ DOMAIN parsed = 1 .. n /\ \A i \in 1 .. n : parsed[i] \in Task
    BY <2>3
  <2>5. \A i \in 1 .. n : parsed[i].id \in Int
    BY <2>4 DEF Task
  <2>6. /\ first \in Int /\ first >= 1
        /\ \A i \in 1 .. n : parsed[i].id < first
    <3>1. doc.nextId \in Int
      BY <1>2 DEF Document
    <3>2. \A k \in lowest : k \in Int
      BY <2>4, <2>5, <3>1
    <3>3. 1 \in lowest /\ \A i \in 1 .. n : parsed[i].id + 1 \in lowest
      BY <2>4
    <3> HIDE DEF lowest
    <3>4. first \in Int /\ \A k \in lowest : k <= first
      BY <2>2, <3>2
    <3> QED
      BY <2>5, <3>3, <3>4
  <2>7. /\ \A k \in 0 .. n : idless(k) \in Nat
        /\ \A i, k \in 1 .. n : parsed[i].id <= 0 /\ i <= k => idless(i - 1) < idless(k)
    BY <2>3, IdlessCount
  <2> DEFINE number(i) == IF parsed[i].id > 0 THEN parsed[i].id ELSE first + idless(i - 1)
  <2> HIDE DEF idless, n
  <2>8. nextId' = first + idless(n)
    BY <2>2 DEF n
  <2>9. \A i \in 1 .. n : /\ number(i) \in Int /\ 0 < number(i)
                          /\ number(i) < first + idless(n)
    <3> SUFFICES ASSUME NEW i \in 1 .. n
                 PROVE  number(i) \in Int /\ 0 < number(i) /\ number(i) < first + idless(n)
      OBVIOUS
    <3>1. idless(i - 1) \in Nat /\ idless(n) \in Nat
      BY <2>4, <2>7
    <3>2. parsed[i].id <= 0 => idless(i - 1) < idless(n)
      BY <2>4, <2>7
    <3> QED
      BY <2>5, <2>6, <3>1, <3>2
  <2>10. \A i, j \in 1 .. n : i < j => number(i) # number(j)
    <3> SUFFICES ASSUME NEW i \in 1 .. n, NEW j \in 1 .. n, i < j
                 PROVE  number(i) # number(j)
      OBVIOUS
    <3>1. j - 1 \in 1 .. n /\ i <= j - 1
      BY <2>4
    <3>2. /\ idless(i - 1) \in Nat /\ idless(j - 1) \in Nat
          /\ parsed[i].id <= 0 => idless(i - 1) < idless(j - 1)
      BY <2>4, <2>7, <3>1
    <3>3. parsed[i].id > 0 /\ parsed[j].id > 0 => parsed[i].id # parsed[j].id
      BY <2>3, <2>4
    <3> QED
      BY <2>5, <2>6, <3>2, <3>3
  <2>11. /\ DOMAIN tasks' = 1 .. n
         /\ \A i \in 1 .. n : tasks'[i] = [parsed[i] EXCEPT !.id = number(i)]
    <3>1. \A i \in 1 .. n : parsed[i] = [parsed[i] EXCEPT !.id = parsed[i].id]
      BY <2>4 DEF Task
    <3> QED
      BY <2>2, <2>4, <3>1
  <2> HIDE DEF number
  <2>12. \A i \in 1 .. n : /\ tasks'[i] \in Task
                           /\ tasks'[i].id = number(i)
                           /\ tasks'[i].body = parsed[i].body
    BY <2>4, <2>9, <2>11 DEF Task
  <2>13. tasks' \in Seq(Task)
    <3>1. tasks' = [i \in 1 .. n |-> tasks'[i]]
      BY <2>2, <2>11
    <3> QED
      BY <2>4, <2>12, <3>1
  <2>14. \A i, j \in 1 .. n : i # j => number(i) # number(j)
    BY <2>4, <2>10
  <2>15. nextId' \in Nat \ {0}
    BY <2>4, <2>6, <2>7, <2>8
  <2>16. IdsUnique'
    BY <2>3, <2>4, <2>8, <2>9, <2>11, <2>12, <2>14 DEF IdsUnique
  <2> QED
    BY <2>13, <2>15, <2>16 DEF StoreInv, StoreTypeOK
<1> QED
  BY <1>1, <1>2 DEF loadFromJson

(* What the store writes can be given back to it. *)
LEMMA JsonType ==
  ASSUME StoreInv
  PROVE  toJson \in Document /\ DistinctIds(toJson)
<1> DEFINE written == [i \in DOMAIN tasks |-> [tasks[i] EXCEPT !.body = Written[@]]]
<1>1. \A i \in DOMAIN tasks : written[i] \in Task /\ written[i].id = tasks[i].id
  BY RowType, BodyAssumption DEF StoreInv, Task
<1>2. written \in Seq(Task) /\ DOMAIN written = DOMAIN tasks
  BY <1>1, RowType DEF StoreInv
<1>3. nextId \in Int
  BY RowType DEF StoreInv
<1>4. toJson = [nextId |-> nextId, tasks |-> written]
  BY DEF toJson
<1> HIDE DEF written
<1> QED
  BY <1>1, <1>2, <1>3, <1>4 DEF Document, DistinctIds, StoreInv, IdsUnique

-----------------------------------------------------------------------------
(* An edit keeps the invariant and never lowers the counter.               *)
LEMMA EditInv ==
  ASSUME StoreInv, Edit
  PROVE  StoreInv' /\ nextId' \in {nextId, nextId + 1}
<1>1. CASE Add
  BY <1>1, AddInv, DocumentAssumption DEF Add
<1>2. CASE Change
  <2>1. PICK id \in Ids \union {nextId} :
           \/ \E task \in Given : updateTask(id, task)
           \/ removeTask(id)
           \/ \E done \in BOOLEAN : setDone(id, done)
    BY <1>2 DEF Change
  <2>2. CASE \E task \in Given : updateTask(id, task)
    BY <2>2, UpdateInv, DocumentAssumption
  <2>3. CASE removeTask(id)
    BY <2>3, RemoveInv
  <2>4. CASE \E done \in BOOLEAN : setDone(id, done)
    BY <2>4, SetDoneInv
  <2> QED
    BY <2>1, <2>2, <2>3, <2>4
<1>3. CASE removeCompleted
  BY <1>3, RemoveCompletedInv
<1> QED
  BY <1>1, <1>2, <1>3 DEF Edit

LEMMA StoreNextInv ==
  ASSUME StoreInv, [StoreNext]_storeVars
  PROVE  StoreInv'
<1>1. CASE Edit
  BY <1>1, EditInv
<1>2. CASE clear
  BY <1>2, ClearInv
<1>3. CASE Reload
  BY <1>3, LoadInv, JsonType DEF Reload
<1>4. CASE Import
  <2>1. PICK doc \in Documents \union {NotATaskFile} : loadFromJson(doc)
    BY <1>4 DEF Import
  <2>2. doc \in Document => DistinctIds(doc)
    BY DocumentAssumption, DistinctAssumption
  <2> QED
    BY <2>1, <2>2, LoadInv
<1>5. CASE UNCHANGED storeVars
  BY <1>5 DEF StoreInv, StoreTypeOK, IdsUnique, storeVars
<1> QED
  BY <1>1, <1>2, <1>3, <1>4, <1>5 DEF StoreNext

(* Hence it is inductive. *)
LEMMA StoreInvInductive == StoreSpec => []StoreInv
<1>1. StoreInit => StoreInv
  BY InitInv
<1>2. StoreInv /\ [StoreNext]_storeVars => StoreInv'
  BY StoreNextInv
<1> QED
  BY <1>1, <1>2, PTL DEF StoreSpec

(* The store holds tasks and a positive counter, whatever calls and files  *)
(* it is given (TaskStore.cpp:49-182).                                     *)
THEOREM StoreTypeCorrect == StoreSpec => []StoreTypeOK
<1>1. StoreInv => StoreTypeOK
  BY DEF StoreInv
<1> QED
  BY <1>1, StoreInvInductive, PTL

(* Ids are unique and below the counter, and no row has a blank title,     *)
(* for every list and every file (TaskStore.cpp:53-57, 71-73, 163-180).    *)
THEOREM StoreIdsUnique == StoreSpec => []IdsUnique
<1>1. StoreInv => IdsUnique
  BY DEF StoreInv
<1> QED
  BY <1>1, StoreInvInductive, PTL

-----------------------------------------------------------------------------
(* The ids an edit leaves are old ones, or come from the counter. *)
LEMMA AddIds ==
  ASSUME StoreInv, NEW task \in Task, NEW now \in Times, addTask(task, now)
  PROVE  Ids' \subseteq Ids \union nextId .. nextId' - 1
<1>1. CASE UNCHANGED storeVars
  BY <1>1 DEF Ids, storeVars
<1>2. CASE task.body \notin Blank /\ ~UNCHANGED storeVars
  <2>1. PICK row : tasks' = Append(tasks, row) /\ row.id = nextId /\ nextId' = nextId + 1
    BY <1>2 DEF addTask
  <2>2. tasks \in Seq(Task) /\ nextId \in Nat
    BY DEF StoreInv, StoreTypeOK
  <2>3. \A i \in DOMAIN tasks' : \/ i \in DOMAIN tasks /\ tasks'[i] = tasks[i]
                               \/ tasks'[i] = row
    BY <2>1, <2>2
  <2>4. nextId \in nextId .. nextId' - 1
    BY <2>1, <2>2
  <2> QED
    BY <2>1, <2>3, <2>4 DEF Ids
<1> QED
  BY <1>1, <1>2 DEF addTask

(* Ids that a command may leave behind, operation by operation: adding     *)
(* alone brings a new one, the counter's.                                  *)
LEMMA UpdateIds ==
  ASSUME StoreInv, NEW id, NEW task \in Task, updateTask(id, task)
  PROVE  Ids' \subseteq Ids
<1>1. CASE UNCHANGED storeVars
  BY <1>1 DEF Ids, storeVars
<1>2. ASSUME NEW i \in indexOfId(id),
             tasks' = [tasks EXCEPT ![i].body = Trimmed[task.body], ![i].done = task.done]
      PROVE  Ids' \subseteq Ids
  BY <1>2, RowType, IndexType DEF Ids, Task, StoreInv
<1> QED
  BY <1>1, <1>2 DEF updateTask

LEMMA RemoveIds ==
  ASSUME StoreInv, NEW id, removeTask(id)
  PROVE  Ids' \subseteq Ids
<1>1. CASE UNCHANGED storeVars
  BY <1>1 DEF Ids, storeVars
<1>2. ASSUME NEW i \in indexOfId(id), tasks' = Without(tasks, i)
      PROVE  Ids' \subseteq Ids
  <2>1. i \in 1 .. Len(tasks) /\ tasks \in Seq(Task)
    BY <1>2, IndexType DEF StoreInv, StoreTypeOK
  <2>2. \A j \in DOMAIN tasks' : \E k \in DOMAIN tasks : tasks'[j] = tasks[k]
    <3>1. DOMAIN tasks' = 1 .. Len(tasks) - 1
      BY <1>2, <2>1, WithoutType DEF Without
    <3>2. \A j \in 1 .. Len(tasks) - 1 : tasks'[j] = tasks[IF j < i THEN j ELSE j + 1]
      BY <1>2, <2>1, WithoutType
    <3>3. \A j \in 1 .. Len(tasks) - 1 : (IF j < i THEN j ELSE j + 1) \in DOMAIN tasks
      BY <2>1
    <3> QED
      BY <3>1, <3>2, <3>3
  <2> QED
    BY <2>2 DEF Ids
<1> QED
  BY <1>1, <1>2 DEF removeTask

LEMMA SetDoneIds ==
  ASSUME StoreInv, NEW id, NEW done \in BOOLEAN, setDone(id, done)
  PROVE  Ids' \subseteq Ids
<1>1. CASE UNCHANGED storeVars
  BY <1>1 DEF Ids, storeVars
<1>2. ASSUME NEW i \in indexOfId(id), tasks' = [tasks EXCEPT ![i].done = done]
      PROVE  Ids' \subseteq Ids
  BY <1>2, RowType, IndexType DEF Ids, Task, StoreInv
<1> QED
  BY <1>1, <1>2 DEF setDone

LEMMA RemoveCompletedIds ==
  ASSUME StoreInv, removeCompleted
  PROVE  Ids' \subseteq Ids
<1>1. PICK f \in Enumerations(OpenRows) : tasks' = [i \in DOMAIN f |-> tasks[f[i]]]
  BY DEF removeCompleted
<1>2. \A i \in DOMAIN f : f[i] \in DOMAIN tasks
  BY DEF Enumerations, OpenRows
<1> QED
  BY <1>1, <1>2 DEF Ids

LEMMA EditIds ==
  ASSUME StoreInv, Edit
  PROVE  Ids' \subseteq Ids \union nextId .. nextId' - 1
<1>1. CASE Add
  BY <1>1, AddIds, DocumentAssumption DEF Add
<1>2. CASE Change
  <2>1. PICK id \in Ids \union {nextId} :
           \/ \E task \in Given : updateTask(id, task)
           \/ removeTask(id)
           \/ \E done \in BOOLEAN : setDone(id, done)
    BY <1>2 DEF Change
  <2> QED
    BY <2>1, UpdateIds, RemoveIds, SetDoneIds, DocumentAssumption
<1>3. CASE removeCompleted
  BY <1>3, RemoveCompletedIds
<1> QED
  BY <1>1, <1>2, <1>3 DEF Edit

(* What loading takes as it is: every row has a title and an id of its     *)
(* own, and the counter is past them.                                      *)
Sound(doc) ==
  /\ doc \in Document
  /\ doc.nextId > 0
  /\ \A i \in DOMAIN doc.tasks : /\ 0 < doc.tasks[i].id /\ doc.tasks[i].id < doc.nextId
                                 /\ doc.tasks[i].body \notin Blank

(* A document that is in order is taken as it is: no id is given out, no   *)
(* row dropped and the counter believed.                                   *)
LEMMA LoadSound ==
  ASSUME NEW doc, Sound(doc), DistinctIds(doc), loadFromJson(doc)
  PROVE  tasks' = doc.tasks /\ nextId' = doc.nextId
<1>1. /\ doc \in Document /\ doc.tasks \in Seq(Task)
      /\ doc.nextId \in Int /\ doc.nextId >= 1
      /\ \A i \in DOMAIN doc.tasks : /\ doc.tasks[i].id \in Int
                                     /\ 0 < doc.tasks[i].id /\ doc.tasks[i].id < doc.nextId
                                     /\ doc.tasks[i].body \notin Blank
  <2>1. doc.tasks \in Seq(Task) /\ doc.nextId \in Int
    BY DEF Sound, Document
  <2>2. \A i \in DOMAIN doc.tasks : doc.tasks[i].id \in Int
    <3>1. \A i \in DOMAIN doc.tasks : doc.tasks[i] \in Task
      BY <2>1
    <3> QED
      BY <3>1 DEF Task
  <2> QED
    BY <2>1, <2>2 DEF Sound
<1> DEFINE n == Len(doc.tasks)
<1>2. /\ n \in Nat /\ DOMAIN doc.tasks = 1 .. n
      /\ {i \in DOMAIN doc.tasks : doc.tasks[i].body \notin Blank} = 1 .. n
  BY <1>1
<1>3. PICK f \in Enumerations({i \in DOMAIN doc.tasks : doc.tasks[i].body \notin Blank}) :
        LET parsed == [i \in DOMAIN f |-> doc.tasks[f[i]]]
            lowest == {1, doc.nextId} \union {parsed[i].id + 1 : i \in DOMAIN parsed}
            idless(k) == Cardinality({j \in 1 .. k : parsed[j].id <= 0})
        IN  \E first \in lowest :
              /\ \A k \in lowest : k <= first
              /\ tasks' = [i \in DOMAIN parsed |->
                             IF parsed[i].id > 0 THEN parsed[i]
                             ELSE [parsed[i] EXCEPT !.id = first + idless(i - 1)]]
              /\ nextId' = first + idless(Len(parsed))
  BY <1>1 DEF loadFromJson
<1> DEFINE parsed == [i \in DOMAIN f |-> doc.tasks[f[i]]]
           lowest == {1, doc.nextId} \union {parsed[i].id + 1 : i \in DOMAIN parsed}
           idless(k) == Cardinality({j \in 1 .. k : parsed[j].id <= 0})
<1>4. PICK first \in lowest :
        /\ \A k \in lowest : k <= first
        /\ tasks' = [i \in DOMAIN parsed |->
                       IF parsed[i].id > 0 THEN parsed[i]
                       ELSE [parsed[i] EXCEPT !.id = first + idless(i - 1)]]
        /\ nextId' = first + idless(Len(parsed))
  BY <1>3
<1>5. parsed = doc.tasks
  <2>1. f = [i \in 1 .. n |-> i]
    BY <1>2, EnumerationOfAll
  <2>2. parsed = [i \in 1 .. n |-> doc.tasks[i]]
    BY <2>1
  <2>3. doc.tasks = [i \in 1 .. n |-> doc.tasks[i]]
    BY <1>1
  <2> QED
    BY <2>2, <2>3
<1> HIDE DEF parsed, n
<1>6. first = doc.nextId
  <2>1. doc.nextId \in lowest /\ \A k \in lowest : k \in Int /\ k <= doc.nextId
    BY <1>1, <1>5
  <2> HIDE DEF lowest
  <2> QED
    BY <1>1, <1>4, <2>1
<1>7. idless(Len(parsed)) = 0
  <2>1. {j \in 1 .. Len(parsed) : parsed[j].id <= 0} = {}
    BY <1>1, <1>2, <1>5 DEF n
  <2> QED
    BY <2>1, FS_EmptySet
<1>8. tasks' = [i \in DOMAIN parsed |-> parsed[i]]
  <2>1. \A i \in DOMAIN parsed : parsed[i].id > 0
    BY <1>1, <1>5
  <2> QED
    BY <1>4, <2>1
<1>9. tasks' = doc.tasks
  BY <1>1, <1>5, <1>8
<1>10. nextId' = first + idless(Len(parsed))
  BY <1>4
<1> HIDE DEF idless
<1> QED
  BY <1>1, <1>6, <1>7, <1>9, <1>10

(* A file of the store's own has no idless row and a counter past its ids, *)
(* so loading it takes its rows and its counter as they are.               *)
LEMMA JsonSound ==
  ASSUME StoreInv
  PROVE  Sound(toJson)
<1>1. \A i \in DOMAIN tasks :
        LET row == [tasks[i] EXCEPT !.body = Written[@]]
        IN  row.id = tasks[i].id /\ row.body \notin Blank
  BY RowType, BodyAssumption DEF StoreInv, IdsUnique, Task
<1>2. /\ DOMAIN toJson.tasks = DOMAIN tasks /\ toJson.nextId = nextId
      /\ \A i \in DOMAIN tasks : /\ toJson.tasks[i].id = tasks[i].id
                                 /\ toJson.tasks[i].body \notin Blank
  BY <1>1 DEF toJson
<1>3. toJson \in Document /\ nextId > 0
  BY JsonType DEF StoreInv, StoreTypeOK
<1> QED
  BY <1>2, <1>3 DEF Sound, StoreInv, IdsUnique

(* Saving writes such a document, so loading it again brings back the      *)
(* rows, bodies as they are written.                                       *)
LEMMA ReloadKeeps ==
  ASSUME StoreInv, Reload
  PROVE  nextId' = nextId /\ tasks' = toJson.tasks
<1> DEFINE doc == toJson
<1>1. Sound(doc) /\ DistinctIds(doc) /\ loadFromJson(doc) /\ doc.nextId = nextId
  BY JsonSound, JsonType DEF Reload, toJson
<1> HIDE DEF doc
<1>2. tasks' = doc.tasks /\ nextId' = doc.nextId
  BY <1>1, LoadSound
<1> QED
  BY <1>1, <1>2 DEF doc

(* In particular ids and counter. *)
LEMMA ReloadIds ==
  ASSUME StoreInv, Reload
  PROVE  nextId' = nextId /\ Ids' \subseteq Ids
<1>1. \A i \in DOMAIN tasks : [tasks[i] EXCEPT !.body = Written[@]].id = tasks[i].id
  BY RowType DEF StoreInv, Task
<1> QED
  BY <1>1, ReloadKeeps DEF Ids, toJson

(* The id of a task that is gone is never given to another one, by any     *)
(* number of edits, saves and loads (TaskStore.cpp:57, 90, 134, 174).      *)
THEOREM IdsStayUsed == StoreSpec => IdsNeverReused
<1>1. ASSUME StoreInv, [StoreNext]_storeVars
      PROVE  [Edit \/ Reload =>
                /\ nextId' >= nextId
                /\ {tasks'[i].id : i \in DOMAIN tasks'}
                     \subseteq Ids \union nextId .. nextId' - 1]_storeVars
  <2>1. nextId \in Nat /\ Ids' = {tasks'[i].id : i \in DOMAIN tasks'}
    BY <1>1 DEF StoreInv, StoreTypeOK, Ids
  <2>2. CASE Edit
    BY <1>1, <2>1, <2>2, EditInv, EditIds
  <2>3. CASE Reload
    BY <1>1, <2>1, <2>3, ReloadIds
  <2> QED
    BY <2>2, <2>3
<1> QED
  BY <1>1, StoreInvInductive, PTL DEF StoreSpec, IdsNeverReused

(* A file written by the store reads back as the store, for every list: no *)
(* row is skipped, renumbered or moved (TaskStore.cpp:124-182).            *)
THEOREM FilesReadBack == StoreSpec => RoundTrip
<1>1. ASSUME StoreInv, [StoreNext]_storeVars
      PROVE  [Reload => nextId' = nextId /\ tasks' = toJson.tasks]_storeVars
  BY <1>1, ReloadKeeps
<1> QED
  BY <1>1, StoreInvInductive, PTL DEF StoreSpec, RoundTrip

-----------------------------------------------------------------------------
(* Where the rows of the next list come from: from[k] is the old row that  *)
(* row k was, or a row past the end when it is a new task. No two rows     *)
(* swap.                                                                   *)
RowsFrom(from) ==
  /\ from \in [DOMAIN tasks' -> Nat]
  /\ \A k, l \in DOMAIN tasks' : k < l => from[k] < from[l]
  /\ \A k \in DOMAIN tasks' :
       \/ /\ from[k] \in DOMAIN tasks
          /\ tasks'[k].id = tasks[from[k]].id
          /\ tasks'[k].createdAt = tasks[from[k]].createdAt
       \/ tasks'[k].id = nextId

(* Where the rows after a step come from, operation by operation: from     *)
(* rows before it, in the same order and with id and creation time, but    *)
(* for one added at the end.                                               *)
LEMMA UnchangedRows ==
  ASSUME StoreInv, UNCHANGED storeVars
  PROVE  \E from : RowsFrom(from)
<1> DEFINE from == [k \in DOMAIN tasks |-> k]
<1>1. DOMAIN tasks = 1 .. Len(tasks) /\ Len(tasks) \in Nat
  BY RowType DEF StoreInv
<1>2. RowsFrom(from)
  BY <1>1 DEF RowsFrom, storeVars
<1> QED
  BY <1>2

(* Adding puts one row at the end. *)
LEMMA AddRows ==
  ASSUME StoreInv, NEW task \in Task, NEW now \in Times, addTask(task, now)
  PROVE  \E from : RowsFrom(from)
<1>1. CASE UNCHANGED storeVars
  BY <1>1, UnchangedRows
<1>2. CASE task.body \notin Blank /\ ~UNCHANGED storeVars
  <2>1. PICK row : tasks' = Append(tasks, row) /\ row.id = nextId
    BY <1>2 DEF addTask
  <2>2. tasks \in Seq(Task)
    BY DEF StoreInv, StoreTypeOK
  <2> DEFINE from == [k \in DOMAIN tasks' |-> k]
  <2>3. /\ DOMAIN tasks' = 1 .. Len(tasks) + 1 /\ DOMAIN tasks = 1 .. Len(tasks)
        /\ Len(tasks) \in Nat
        /\ \A k \in DOMAIN tasks' : \/ k \in DOMAIN tasks /\ tasks'[k] = tasks[k]
                                 \/ tasks'[k] = row
    BY <2>1, <2>2
  <2>4. RowsFrom(from)
    BY <2>1, <2>3 DEF RowsFrom
  <2> QED
    BY <2>4
<1> QED
  BY <1>1, <1>2 DEF addTask

(* Changing rows in place moves none. *)
LEMMA ChangedRows ==
  ASSUME StoreInv, DOMAIN tasks' = DOMAIN tasks,
         \A k \in DOMAIN tasks : /\ tasks'[k].id = tasks[k].id
                                 /\ tasks'[k].createdAt = tasks[k].createdAt
  PROVE  \E from : RowsFrom(from)
<1> DEFINE from == [k \in DOMAIN tasks |-> k]
<1>1. DOMAIN tasks = 1 .. Len(tasks) /\ Len(tasks) \in Nat
  BY RowType DEF StoreInv
<1>2. RowsFrom(from)
  BY <1>1 DEF RowsFrom
<1> QED
  BY <1>2

LEMMA UpdateRows ==
  ASSUME StoreInv, NEW id, NEW task \in Task, updateTask(id, task)
  PROVE  \E from : RowsFrom(from)
<1>1. CASE UNCHANGED storeVars
  BY <1>1, UnchangedRows
<1>2. ASSUME NEW i \in indexOfId(id),
             tasks' = [tasks EXCEPT ![i].body = Trimmed[task.body], ![i].done = task.done]
      PROVE  \E from : RowsFrom(from)
  <2>1. /\ DOMAIN tasks' = DOMAIN tasks
        /\ \A k \in DOMAIN tasks : /\ tasks'[k].id = tasks[k].id
                                   /\ tasks'[k].createdAt = tasks[k].createdAt
    BY <1>2, RowType, IndexType DEF Task, StoreInv
  <2> QED
    BY <2>1, ChangedRows
<1> QED
  BY <1>1, <1>2 DEF updateTask

LEMMA SetDoneRows ==
  ASSUME StoreInv, NEW id, NEW done \in BOOLEAN, setDone(id, done)
  PROVE  \E from : RowsFrom(from)
<1>1. CASE UNCHANGED storeVars
  BY <1>1, UnchangedRows
<1>2. ASSUME NEW i \in indexOfId(id), tasks' = [tasks EXCEPT ![i].done = done]
      PROVE  \E from : RowsFrom(from)
  <2>1. /\ DOMAIN tasks' = DOMAIN tasks
        /\ \A k \in DOMAIN tasks : /\ tasks'[k].id = tasks[k].id
                                   /\ tasks'[k].createdAt = tasks[k].createdAt
    BY <1>2, RowType, IndexType DEF Task, StoreInv
  <2> QED
    BY <2>1, ChangedRows
<1> QED
  BY <1>1, <1>2 DEF setDone

LEMMA RemoveRows ==
  ASSUME StoreInv, NEW id, removeTask(id)
  PROVE  \E from : RowsFrom(from)
<1>1. CASE UNCHANGED storeVars
  BY <1>1, UnchangedRows
<1>2. ASSUME NEW i \in indexOfId(id), tasks' = Without(tasks, i)
      PROVE  \E from : RowsFrom(from)
  <2>1. i \in 1 .. Len(tasks) /\ tasks \in Seq(Task)
    BY <1>2, IndexType DEF StoreInv, StoreTypeOK
  <2> DEFINE from == [k \in DOMAIN tasks' |-> IF k < i THEN k ELSE k + 1]
  <2>2. /\ DOMAIN tasks' = 1 .. Len(tasks) - 1 /\ DOMAIN tasks = 1 .. Len(tasks)
        /\ Len(tasks) \in Nat
        /\ \A k \in DOMAIN tasks' : tasks'[k] = tasks[IF k < i THEN k ELSE k + 1]
    BY <1>2, <2>1 DEF Without
  <2>3. /\ from \in [DOMAIN tasks' -> Nat]
        /\ \A k, l \in DOMAIN tasks' : k < l => from[k] < from[l]
        /\ \A k \in DOMAIN tasks' : from[k] \in DOMAIN tasks /\ tasks'[k] = tasks[from[k]]
    BY <2>1, <2>2
  <2> HIDE DEF from
  <2>4. RowsFrom(from)
    BY <2>3 DEF RowsFrom
  <2> QED
    BY <2>4
<1> QED
  BY <1>1, <1>2 DEF removeTask

LEMMA RemoveCompletedRows ==
  ASSUME StoreInv, removeCompleted
  PROVE  \E from : RowsFrom(from)
<1>1. PICK f \in Enumerations(OpenRows) : tasks' = [i \in DOMAIN f |-> tasks[f[i]]]
  BY DEF removeCompleted
<1>2. Len(tasks) \in Nat /\ OpenRows \in SUBSET (1 .. Len(tasks)) /\ DOMAIN tasks = 1 .. Len(tasks)
  BY DEF StoreInv, StoreTypeOK, OpenRows
<1>3. /\ f \in [1 .. Cardinality(OpenRows) -> 1 .. Len(tasks)]
      /\ \A i, j \in DOMAIN f : i < j => f[i] < f[j]
  BY <1>2, EnumerationType
<1>4. RowsFrom(f)
  BY <1>1, <1>2, <1>3 DEF RowsFrom
<1> QED
  BY <1>4

LEMMA EditRows ==
  ASSUME StoreInv, Edit
  PROVE  \E from : RowsFrom(from)
<1>1. CASE Add
  BY <1>1, AddRows, DocumentAssumption DEF Add
<1>2. CASE Change
  <2>1. PICK id \in Ids \union {nextId} :
           \/ \E task \in Given : updateTask(id, task)
           \/ removeTask(id)
           \/ \E done \in BOOLEAN : setDone(id, done)
    BY <1>2 DEF Change
  <2> QED
    BY <2>1, UpdateRows, RemoveRows, SetDoneRows, DocumentAssumption
<1>3. CASE removeCompleted
  BY <1>3, RemoveCompletedRows
<1> QED
  BY <1>1, <1>2, <1>3 DEF Edit

(* A row of the new list with the id of an old row was that row: the id of *)
(* a new task is the counter's, and the old rows' ids are different.       *)
LEMMA RowsIdentified ==
  ASSUME StoreInv, StoreTypeOK', NEW from, RowsFrom(from)
  PROVE  \A i, j \in DOMAIN tasks, k, l \in DOMAIN tasks' :
           tasks[i].id = tasks'[k].id /\ tasks[j].id = tasks'[l].id =>
             /\ tasks[i].createdAt = tasks'[k].createdAt
             /\ i < j <=> k < l
<1>1. /\ DOMAIN tasks = 1 .. Len(tasks) /\ DOMAIN tasks' = 1 .. Len(tasks')
      /\ Len(tasks) \in Nat /\ Len(tasks') \in Nat /\ nextId \in Nat
      /\ \A i \in DOMAIN tasks : tasks[i].id \in Int /\ tasks[i].id < nextId
  BY RowType DEF StoreInv, StoreTypeOK, IdsUnique, Task
<1>2. ASSUME NEW i \in DOMAIN tasks, NEW k \in DOMAIN tasks', tasks[i].id = tasks'[k].id
      PROVE  from[k] = i /\ tasks[i].createdAt = tasks'[k].createdAt
  <2>1. /\ from[k] \in DOMAIN tasks
        /\ tasks'[k].id = tasks[from[k]].id
        /\ tasks'[k].createdAt = tasks[from[k]].createdAt
    BY <1>1, <1>2 DEF RowsFrom
  <2>2. from[k] = i
    BY <1>2, <2>1 DEF StoreInv, IdsUnique
  <2> QED
    BY <2>1, <2>2
<1> SUFFICES ASSUME NEW i \in DOMAIN tasks, NEW j \in DOMAIN tasks,
                    NEW k \in DOMAIN tasks', NEW l \in DOMAIN tasks',
                    tasks[i].id = tasks'[k].id, tasks[j].id = tasks'[l].id
             PROVE  tasks[i].createdAt = tasks'[k].createdAt /\ (i < j <=> k < l)
  OBVIOUS
<1>3. from[k] = i /\ from[l] = j /\ tasks[i].createdAt = tasks'[k].createdAt
  BY <1>2
<1>4. /\ k < l => from[k] < from[l]
      /\ l < k => from[l] < from[k]
  BY DEF RowsFrom
<1> QED
  BY <1>1, <1>3, <1>4

(* Edits keep the identity of every row and the order of the rows that     *)
(* stay, for every list (TaskStore.cpp:77-81, 90, 111-114).                *)
THEOREM EditsKeepIdentity == StoreSpec => IdentityKept
<1>1. ASSUME StoreInv, [StoreNext]_storeVars
      PROVE  [Edit =>
                \A i, j \in DOMAIN tasks, k, l \in DOMAIN tasks' :
                  tasks[i].id = tasks'[k].id /\ tasks[j].id = tasks'[l].id =>
                    /\ tasks[i].createdAt = tasks'[k].createdAt
                    /\ i < j <=> k < l]_storeVars
  <2> SUFFICES ASSUME Edit
               PROVE  \A i, j \in DOMAIN tasks, k, l \in DOMAIN tasks' :
                        tasks[i].id = tasks'[k].id /\ tasks[j].id = tasks'[l].id =>
                          /\ tasks[i].createdAt = tasks'[k].createdAt
                          /\ i < j <=> k < l
    OBVIOUS
  <2>1. StoreTypeOK'
    BY <1>1, EditInv DEF StoreInv
  <2>2. PICK from : RowsFrom(from)
    BY <1>1, EditRows
  <2> QED
    BY <1>1, <2>1, <2>2, RowsIdentified
<1> QED
  BY <1>1, StoreInvInductive, PTL DEF StoreSpec, IdentityKept
=============================================================================
