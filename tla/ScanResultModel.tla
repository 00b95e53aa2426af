-------------------------- MODULE ScanResultModel --------------------------
(***************************************************************************)
(* The result table, src/models/ScanResultModel.cpp: the rows and the      *)
(* total that the share column divides by. It lives on the GUI thread and  *)
(* changes in two ways, both under a model reset.                          *)
(***************************************************************************)
EXTENDS ScanTypes

VARIABLES
  rows,        \* m_stats
  totalBytes   \* m_totalBytes

resultVars == <<rows, totalBytes>>

ResultInit == rows = <<>> /\ totalBytes = 0

ResultTypeOK == rows \in Seq(ExtensionStat) /\ totalBytes \in Nat

(* Mutant: the rows change, the total does not. *)
setStatsKeepsTotal(list, bytes) == rows' = list /\ UNCHANGED totalBytes

setStats(list, bytes) == rows' = list /\ totalBytes' = bytes

(* Mutant: the rows go, their total stays. *)
clearStatsKeepsTotal ==
  \/ rows = <<>> /\ UNCHANGED resultVars
  \/ rows # <<>> /\ rows' = <<>> /\ UNCHANGED totalBytes

(* An empty table returns early and leaves the total alone. *)
clearStats ==
  \/ rows = <<>> /\ UNCHANGED resultVars
  \/ rows # <<>> /\ rows' = <<>> /\ totalBytes' = 0

(* SharePercentRole of a row, in whole percent. *)
sharePercent(row) ==
  IF totalBytes > 0 THEN (100 * rows[row].totalBytes) \div totalBytes ELSE 0
=============================================================================
