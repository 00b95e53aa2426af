---------------------------- MODULE MCTaskBoard ----------------------------
(***************************************************************************)
(* Sessions with up to three tasks, two of them samples, a plain           *)
(* and a blank title; the first session finds no file, no task file, a     *)
(* file that a row was put into by hand, or one of junk. The priorities in *)
(* the dialog are those a file can hold.                                   *)
(***************************************************************************)
EXTENDS TaskBoard, DistinctFiles, TLC

CONSTANTS plain, blank, noon, never, notAFile, missing, unknown

MCBodies == {plain, blank}
MCTrimmed == [b \in MCBodies |-> b]
MCTask(id, body, done) == [id |-> id, body |-> body, done |-> done, createdAt |-> noon]
MCDocuments ==
  {[nextId |-> 1, tasks |-> <<MCTask(0, plain, TRUE), MCTask(1, plain, FALSE)>>],
   [nextId |-> 2, tasks |-> <<MCTask(1, blank, FALSE)>>]}
MCSamples == <<plain, plain>>
=============================================================================
