---------------------------- MODULE MCTaskClock ----------------------------
(***************************************************************************)
(* Two days of two moments each, and up to two tasks. The file has one     *)
(* that is due at the second moment of today, or is missing or unreadable, *)
(* when a sample is added that is due tomorrow. A label names the day when *)
(* that is not today or earlier.                                           *)
(***************************************************************************)
EXTENDS TaskClock, DistinctFiles, TLC

CONSTANTS plain, blank, noon, never, notAFile, missing, unknown, noDue, notOpen

MCDues == (0 .. 5) \union {noDue}
MCBodies == {plain, blank} \X MCDues
MCBlank == {blank} \X MCDues
MCSame == [b \in MCBodies |-> b]
MCDue == [b \in MCBodies |-> b[2]]
MCTask(id, due, done) == [id |-> id, body |-> <<plain, due>>, done |-> done, createdAt |-> noon]
MCDocuments == {[nextId |-> 2, tasks |-> <<MCTask(1, 1, FALSE)>>]}
MCSampleDays == <<1>>
=============================================================================
