-------------------------- MODULE MCTaskDuplicates --------------------------
(***************************************************************************)
(* A file in which somebody copied a row and left its id in the copy.      *)
(***************************************************************************)
EXTENDS TaskListModel, TLC

CONSTANTS plain, other, noon, never, notAFile, missing, unknown

MCBodies == {plain, other}
MCSame == [b \in MCBodies |-> b]
MCTask(id, body) == [id |-> id, body |-> body, done |-> FALSE, createdAt |-> noon]
MCDocuments == {[nextId |-> 2, tasks |-> <<MCTask(1, plain), MCTask(1, other)>>]}
=============================================================================
