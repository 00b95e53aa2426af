-------------------------- MODULE MCTaskListModel --------------------------
(***************************************************************************)
(* Two tasks, a padded, a plain and a blank title; the file is missing, is *)
(* no task file, or was edited by hand: one row has no id, one no title.   *)
(***************************************************************************)
EXTENDS TaskListModel, DistinctFiles, TLC

CONSTANTS plain, padded, blank, noon, never, notAFile, missing, unknown

MCBodies == {plain, padded, blank}
MCTrimmed == [b \in MCBodies |-> IF b = padded THEN plain ELSE b]
MCWritten == [b \in MCBodies |-> b]
MCTask(id, body, done) == [id |-> id, body |-> body, done |-> done, createdAt |-> noon]
MCDocuments ==
  {[nextId |-> 1, tasks |-> <<MCTask(0, padded, FALSE), MCTask(1, plain, TRUE),
                              MCTask(3, blank, FALSE)>>]}
=============================================================================
