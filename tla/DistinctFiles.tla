--------------------------- MODULE DistinctFiles ---------------------------
(***************************************************************************)
(* What loadFromJson() relies on and does not check: who edits tasks.json  *)
(* by hand gives no positive id to two tasks. MCTaskDuplicates does        *)
(* without, and shows what follows.                                        *)
(***************************************************************************)
EXTENDS TaskStore

DistinctIds(doc) ==
  \A i, j \in DOMAIN doc.tasks :
    i # j /\ doc.tasks[i].id > 0 => doc.tasks[i].id # doc.tasks[j].id

ASSUME DistinctAssumption == \A doc \in Documents : DistinctIds(doc)
=============================================================================
