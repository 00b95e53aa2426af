---------------------------- MODULE MCTaskStore ----------------------------
(***************************************************************************)
(* Up to three tasks. Of the bodies, one is padded with blanks, one is     *)
(* blank and one has a priority no file can hold. Of the files, one has a  *)
(* counter that lags behind its ids and rows without an id, one has only   *)
(* junk in it and no usable counter, and one a counter that ran ahead.     *)
(***************************************************************************)
EXTENDS TaskStore, DistinctFiles, TLC

CONSTANTS plain, padded, urgent, blank, noon, later, never, notAFile

MCBodies == {plain, padded, urgent, blank}
MCBlank == {blank}
MCTrimmed == [b \in MCBodies |-> IF b = padded THEN plain ELSE b]
MCWritten == [b \in MCBodies |-> IF b = urgent THEN plain ELSE b]
MCTimes == {noon, later}
MCTask(id, body, done, time) == [id |-> id, body |-> body, done |-> done, createdAt |-> time]
MCGiven == {MCTask(0, padded, FALSE, never), MCTask(0, urgent, FALSE, never),
            MCTask(1, plain, TRUE, noon), MCTask(0, blank, FALSE, noon)}
MCDocuments ==
  {[nextId |-> 1, tasks |-> <<MCTask(0, plain, FALSE, noon), MCTask(2, padded, TRUE, never),
                              MCTask(-1, plain, FALSE, never), MCTask(7, blank, FALSE, noon)>>],
   [nextId |-> 0, tasks |-> <<MCTask(0, blank, FALSE, never)>>],
   [nextId |-> 3, tasks |-> <<>>]}
=============================================================================
