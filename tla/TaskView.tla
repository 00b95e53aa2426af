------------------------------ MODULE TaskView ------------------------------
(***************************************************************************)
(* What the tasks page promises its user, with no rows, proxies or         *)
(* notifications. There are tasks, known by an id each, and a list that    *)
(* shows some of them, open ones first. A command changes the one task it  *)
(* was given for; the rest of the list stays as it is and where it is. A   *)
(* new search or order shows the same tasks in another way.                *)
(***************************************************************************)
EXTENDS Integers

CONSTANTS
  Bodies,     \* what the user enters for a task
  Closed      \* the dialog is not open

VARIABLES
  items,      \* the task of each id
  list,       \* the ids in the list, from top to bottom
  open,       \* the id the dialog is open for, 0 for a new task
  last        \* the highest id that was given out

viewVars == <<items, list, open, last>>

Shown == {list[p] : p \in DOMAIN list}

(* The list, but for one task, is as it was: the same tasks, in the same   *)
(* order. A proper list names no task twice.                               *)
RestStays(id) ==
  /\ Shown' \ {id} = Shown \ {id}
  /\ \A p, q \in DOMAIN list, k, l \in DOMAIN list' :
       id \notin {list[p], list[q]} /\ list[p] = list'[k] /\ list[q] = list'[l] =>
         (p < q <=> k < l)

Proper ==
  /\ DOMAIN items \subseteq 1 .. last
  /\ Shown \subseteq DOMAIN items
  /\ \A p, q \in DOMAIN list : p < q =>
       list[p] # list[q] /\ (items[list[p]].done => items[list[q]].done)

ViewInit == items = <<>> /\ list = <<>> /\ open = Closed /\ last = 0

Start == last = 0 /\ UNCHANGED open

NewTask ==
  /\ open \in {Closed, 0} /\ open' = Closed
  /\ last' = last + 1
  /\ DOMAIN items' = DOMAIN items \union {last'}
  /\ \A id \in DOMAIN items : items'[id] = items[id]
  /\ items'[last'].body \in Bodies /\ ~items'[last'].done
  /\ RestStays(last + 1)

Change ==
  /\ open \in DOMAIN items /\ open' = Closed
  /\ \E body \in Bodies : items' = [items EXCEPT ![open].body = body]
  /\ RestStays(open)
  /\ UNCHANGED last

Toggle(id) ==
  /\ items' = [items EXCEPT ![id].done = ~@]
  /\ RestStays(id)
  /\ UNCHANGED <<open, last>>

Remove(id) ==
  /\ items' = [other \in DOMAIN items \ {id} |-> items[other]]
  /\ RestStays(id)
  /\ UNCHANGED <<open, last>>

ClearDone ==
  /\ items' = [id \in {other \in DOMAIN items : ~items[other].done} |-> items[id]]
  /\ Shown' = Shown \intersect DOMAIN items'
  /\ UNCHANGED <<open, last>>

Look == UNCHANGED <<items, open, last>>

OpenDialog == open' \in Shown \union {0} /\ UNCHANGED <<items, list, last>>

CloseDialog == open' = Closed /\ UNCHANGED <<items, list, last>>

ViewNext ==
  /\ Proper'
  /\ \/ open # Closed /\ (NewTask \/ Change \/ CloseDialog)
     \/ open = Closed /\ \/ Start \/ NewTask \/ ClearDone \/ Look \/ OpenDialog
                         \/ \E id \in Shown : Toggle(id) \/ Remove(id)

ViewSpec == ViewInit /\ [][ViewNext]_viewVars
=============================================================================
