----------------------------- MODULE MCTasksPage -----------------------------
(***************************************************************************)
(* Up to three tasks, two of them from the file, where they have no        *)
(* creation time, or one of them a sample. A report has a due date and a   *)
(* call has none; searching finds the calls. Two constants take the values *)
(* they need for PriorityThenDueDate: there both have a due date and one   *)
(* priority.                                                               *)
(***************************************************************************)
EXTENDS TasksPage, DistinctFiles, TLC

CONSTANTS report, call, empty, noon, never, notAFile, missing, unknown,
          noNeedle, noDue, notOpen

MCBodies == {report, call, empty}
MCSame == [b \in MCBodies |-> b]
MCTask(id, body, done) == [id |-> id, body |-> body, done |-> done, createdAt |-> never]
MCDocuments == {[nextId |-> 3, tasks |-> <<MCTask(1, call, TRUE), MCTask(2, report, FALSE)>>]}
MCNeedle == ("   " :> noNeedle) @@ ("a" :> "a")
MCMatches == "a" :> {call}
MCSamples == <<report>>
MCTitleRank == report :> 2 @@ call :> 1 @@ empty :> 0
MCLevel == report :> 1 @@ call :> 2 @@ empty :> 1
MCOneLevel == [b \in MCBodies |-> 1]
MCDue == report :> 1 @@ call :> noDue @@ empty :> noDue
MCTwoDates == report :> 1 @@ call :> 2 @@ empty :> noDue
MCCreatedRank == noon :> 1 @@ never :> 0
=============================================================================
