----------------------------- MODULE TaskStore -----------------------------
(***************************************************************************)
(* The rows of the task list and the counter that numbers them,            *)
(* src/core/TaskStore.cpp, with the record they hold, src/core/Task.h.     *)
(*                                                                         *)
(* A row is its identity (id, createdAt), the done flag and a body: title, *)
(* notes, priority and due date, which the store only trims, tests for a   *)
(* blank title, writes and reads back. Rows count from 1 here.             *)
(***************************************************************************)
EXTENDS Integers, Sequences, FiniteSets

CONSTANTS
  Bodies,     \* what the user can enter for a task
  Blank,      \* the bodies whose title is empty once trimmed
  Trimmed,    \* Trimmed[b]: b with its title trimmed
  Written,    \* Written[b]: b as it reads back from a file, where a priority
              \* outside the enumeration has become "Normal"
  Times,      \* creation times
  NoTime,     \* an invalid QDateTime
  Given,      \* the Task values a caller passes in
  Documents,  \* files that were not written by this program, as fromJson()
              \* reads them: idless rows, junk rows, stale counters
  NotATaskFile,  \* anything loadFromJson() refuses
  LastId      \* bound of the model: no task is added beyond this id

ASSUME BodyAssumption ==
  /\ Blank \subseteq Bodies
  /\ Trimmed \in [Bodies -> Bodies]
  /\ Written \in [Bodies -> Bodies]
  /\ \A b \in Bodies : /\ Trimmed[b] \in Blank <=> b \in Blank
                       /\ Written[b] \in Blank <=> b \in Blank
                       /\ Written[Written[b]] = Written[b]

ASSUME TimeAssumption == NoTime \notin Times

Task == [id: Int, body: Bodies, done: BOOLEAN, createdAt: Times \union {NoTime}]
Document == [nextId: Int, tasks: Seq(Task)]

ASSUME DocumentAssumption ==
  /\ Given \subseteq Task
  /\ Documents \subseteq Document
  /\ NotATaskFile \notin Document
  /\ \A doc \in Documents : \A i \in DOMAIN doc.tasks :
       Written[doc.tasks[i].body] = doc.tasks[i].body

VARIABLES
  tasks,   \* m_tasks
  nextId   \* m_nextId

storeVars == <<tasks, nextId>>

StoreInit == tasks = <<>> /\ nextId = 1

StoreTypeOK == tasks \in Seq(Task) /\ nextId \in Nat \ {0}

-----------------------------------------------------------------------------
(* The row of a task, as a set of at most one row.                         *)
indexOfId(id) ==
  {i \in DOMAIN tasks : tasks[i].id = id /\ \A j \in 1 .. i - 1 : tasks[j].id # id}

OpenRows == {i \in DOMAIN tasks : ~tasks[i].done}
openCount == Cardinality(OpenRows)
doneCount == Len(tasks) - openCount

(* The rows of a set from first to last.                                   *)
Enumerations(S) ==
  {f \in [1 .. Cardinality(S) -> S] : \A i, j \in DOMAIN f : i < j => f[i] < f[j]}

(* A blank title is refused. Whatever id the caller filled in is ignored;  *)
(* a creation time it filled in is kept.                                   *)
addTask(task, now) ==
  \/ task.body \in Blank /\ UNCHANGED storeVars
  \/ /\ task.body \notin Blank
     /\ tasks' = Append(tasks,
          [id |-> nextId, body |-> Trimmed[task.body], done |-> task.done,
           createdAt |-> IF task.createdAt = NoTime THEN now ELSE task.createdAt])
     /\ nextId' = nextId + 1

(* Mutant: the caller's creation time replaces the stored one. *)
updateTaskTakesTime(id, task) ==
  \/ (indexOfId(id) = {} \/ task.body \in Blank) /\ UNCHANGED storeVars
  \/ /\ task.body \notin Blank
     /\ \E i \in indexOfId(id) :
          tasks' = [tasks EXCEPT ![i] = [task EXCEPT !.id = id, !.body = Trimmed[@]]]
     /\ UNCHANGED nextId

(* Mutant: a blank title gets through. *)
updateTaskUnchecked(id, task) ==
  \/ indexOfId(id) = {} /\ UNCHANGED storeVars
  \/ /\ \E i \in indexOfId(id) : tasks' = [tasks EXCEPT ![i].body = Trimmed[task.body],
                                                        ![i].done = task.done]
     /\ UNCHANGED nextId

(* Everything but the identity is taken from the caller. *)
updateTask(id, task) ==
  \/ (indexOfId(id) = {} \/ task.body \in Blank) /\ UNCHANGED storeVars
  \/ /\ task.body \notin Blank
     /\ \E i \in indexOfId(id) : tasks' = [tasks EXCEPT ![i].body = Trimmed[task.body],
                                                        ![i].done = task.done]
     /\ UNCHANGED nextId

(* The rows without row i. *)
Without(seq, i) == [j \in 1 .. Len(seq) - 1 |-> seq[IF j < i THEN j ELSE j + 1]]

(* Mutant: removing the newest task gives its id back. *)
removeTaskReturnsId(id) ==
  \/ indexOfId(id) = {} /\ UNCHANGED storeVars
  \/ \E i \in indexOfId(id) :
       /\ tasks' = Without(tasks, i)
       /\ nextId' = IF id = nextId - 1 THEN id ELSE nextId

removeTask(id) ==
  \/ indexOfId(id) = {} /\ UNCHANGED storeVars
  \/ \E i \in indexOfId(id) : tasks' = Without(tasks, i) /\ UNCHANGED nextId

setDone(id, done) ==
  \/ (\A i \in indexOfId(id) : tasks[i].done = done) /\ UNCHANGED storeVars
  \/ \E i \in indexOfId(id) :
       /\ tasks[i].done # done
       /\ tasks' = [tasks EXCEPT ![i].done = done]
       /\ UNCHANGED nextId

(* Erase-remove: the open rows close ranks in their order. *)
removeCompleted ==
  /\ \E f \in Enumerations(OpenRows) : tasks' = [i \in DOMAIN f |-> tasks[f[i]]]
  /\ UNCHANGED nextId

clear == tasks' = <<>> /\ nextId' = 1

-----------------------------------------------------------------------------
(* Mutant: the counter is not written. *)
toJsonWithoutCounter ==
  [nextId |-> 1, tasks |-> [i \in DOMAIN tasks |-> [tasks[i] EXCEPT !.body = Written[@]]]]

(* The file toJson() writes, as fromJson() will read it. *)
toJson ==
  [nextId |-> nextId,
   tasks  |-> [i \in DOMAIN tasks |-> [tasks[i] EXCEPT !.body = Written[@]]]]

(* Mutant: the counter of the file is trusted, the ids in it are not       *)
(* looked at.                                                              *)
loadFromJsonTrustsCounter(doc) ==
  \/ doc \notin Document /\ UNCHANGED storeVars
  \/ /\ doc \in Document
     /\ \E f \in Enumerations({i \in DOMAIN doc.tasks : doc.tasks[i].body \notin Blank}) :
          LET parsed == [i \in DOMAIN f |-> doc.tasks[f[i]]]
              idless(k) == Cardinality({j \in 1 .. k : parsed[j].id <= 0})
          IN  /\ tasks' = [i \in DOMAIN parsed |->
                             IF parsed[i].id > 0 THEN parsed[i]
                             ELSE [parsed[i] EXCEPT !.id = doc.nextId + idless(i - 1)]]
              /\ nextId' = doc.nextId + idless(Len(parsed))

(* All or nothing. Junk rows are skipped, the counter goes past every id   *)
(* in the file, and then the rows without an id take one each from it.     *)
loadFromJson(doc) ==
  \/ doc \notin Document /\ UNCHANGED storeVars
  \/ /\ doc \in Document
     /\ \E f \in Enumerations({i \in DOMAIN doc.tasks : doc.tasks[i].body \notin Blank}) :
          LET parsed == [i \in DOMAIN f |-> doc.tasks[f[i]]]
              lowest == {1, doc.nextId} \union {parsed[i].id + 1 : i \in DOMAIN parsed}
              idless(k) == Cardinality({j \in 1 .. k : parsed[j].id <= 0})
          IN  \E first \in lowest :
                /\ \A n \in lowest : n <= first
                /\ tasks' = [i \in DOMAIN parsed |->
                               IF parsed[i].id > 0 THEN parsed[i]
                               ELSE [parsed[i] EXCEPT !.id = first + idless(i - 1)]]
                /\ nextId' = first + idless(Len(parsed))

-----------------------------------------------------------------------------
(***************************************************************************)
(* The store used as tests/tst_taskstore.cpp uses it: every call, with any *)
(* argument, and files from anywhere.                                      *)
(***************************************************************************)
Ids == {tasks[i].id : i \in DOMAIN tasks}

Add == nextId <= LastId /\ \E task \in Given, now \in Times : addTask(task, now)

Change ==
  \E id \in Ids \union {nextId} :
    \/ \E task \in Given : updateTask(id, task)
    \/ removeTask(id)
    \/ \E done \in BOOLEAN : setDone(id, done)

Edit == Add \/ Change \/ removeCompleted

Reload == loadFromJson(toJson)

Import == \E doc \in Documents \union {NotATaskFile} : loadFromJson(doc)

StoreNext == Edit \/ clear \/ Reload \/ Import

StoreSpec == StoreInit /\ [][StoreNext]_storeVars

-----------------------------------------------------------------------------
(* An id names one task and the counter is past it, also after a file      *)
(* whose counter lags behind or whose rows have no id; and no row has a    *)
(* blank title, whichever call it came through (TaskStore.cpp:53-57,       *)
(* 71-73, 163-180).                                                        *)
IdsUnique ==
  /\ \A i \in DOMAIN tasks : /\ 0 < tasks[i].id /\ tasks[i].id < nextId
                             /\ tasks[i].body \notin Blank
  /\ \A i, j \in DOMAIN tasks : i # j => tasks[i].id # tasks[j].id

(* No edit brings back the id of a task that is gone, nor does saving and  *)
(* loading: an id the counter has passed is never given to another task    *)
(* (TaskStore.cpp:57, 90, 134, 174).                                       *)
IdsNeverReused ==
  [][Edit \/ Reload =>
       /\ nextId' >= nextId
       /\ {tasks'[i].id : i \in DOMAIN tasks'} \subseteq Ids \union nextId .. nextId' - 1]_storeVars

(* Edits keep the identity of the other rows and of the edited one, and    *)
(* rows that stay keep their order (TaskStore.cpp:77-81, 90, 111-114).     *)
IdentityKept ==
  [][Edit =>
       \A i, j \in DOMAIN tasks, k, l \in DOMAIN tasks' :
         tasks[i].id = tasks'[k].id /\ tasks[j].id = tasks'[l].id =>
           /\ tasks[i].createdAt = tasks'[k].createdAt
           /\ i < j <=> k < l]_storeVars

(* A file written by the store reads back as the store, counter included:  *)
(* no row is skipped, renumbered or moved (TaskStore.cpp:124-182).         *)
RoundTrip ==
  [][Reload => /\ nextId' = nextId
               /\ tasks' = toJson.tasks]_storeVars
=============================================================================
