---------------------------- MODULE ScanService ----------------------------
(***************************************************************************)
(* What the scanner promises the user, with no thread, queue or flag: one  *)
(* scan at a time, counters that only grow while it runs, and one outcome. *)
(* "complete" comes with the totals of the whole tree, "cancelled" only    *)
(* after the user asked for it, "failed" only for what is not a directory. *)
(* A cancel that comes too late does not falsify a complete result.        *)
(***************************************************************************)
EXTENDS ScanTypes

VARIABLES
  phase,    \* "ready", "scanning" or "gone"
  target,   \* the directory of the current or the last scan
  asked,    \* the user cancelled the current scan
  outcome,  \* of the last scan: "none" before it, and after a refused start
  files, bytes

serviceVars == <<phase, target, asked, outcome, files, bytes>>

Outcomes == {"none", "complete", "cancelled", "failed"}
TotalFiles(d) == Cardinality(FilesBelow(d))
TotalBytes(d) == BytesOf(FilesBelow(d))

ServiceInit ==
  /\ phase = "ready"
  /\ target \in Paths
  /\ asked = FALSE
  /\ outcome = "none"
  /\ files = 0 /\ bytes = 0

Refuse ==
  /\ phase = "ready"
  /\ outcome' = "none"
  /\ UNCHANGED <<phase, target, asked, files, bytes>>

StartScan ==
  /\ phase = "ready"
  /\ phase' = "scanning"
  /\ target' \in Paths
  /\ outcome' = "none"
  /\ files' = 0 /\ bytes' = 0
  /\ UNCHANGED asked

AskToCancel ==
  /\ phase = "scanning"
  /\ asked' = TRUE
  /\ UNCHANGED <<phase, target, outcome, files, bytes>>

ShowProgress ==
  /\ phase = "scanning"
  /\ target \in Directories
  /\ files' \in files .. TotalFiles(target)
  /\ bytes' \in bytes .. TotalBytes(target)
  /\ UNCHANGED <<phase, target, asked, outcome>>

EndScan ==
  /\ phase = "scanning"
  /\ phase' = "ready"
  /\ asked' = FALSE
  /\ \/ /\ outcome' = "complete"
        /\ target \in Directories
        /\ files' = TotalFiles(target)
        /\ bytes' = TotalBytes(target)
     \/ /\ outcome' = "cancelled"
        /\ asked
        /\ target \in Directories
        /\ files' \in files .. TotalFiles(target)
        /\ bytes' \in bytes .. TotalBytes(target)
     \/ /\ outcome' = "failed"
        /\ target \notin Directories
        /\ UNCHANGED <<files, bytes>>
  /\ UNCHANGED target

(* The window closes, in the middle of a scan or not.                      *)
Close ==
  /\ phase # "gone"
  /\ phase' = "gone"
  /\ UNCHANGED <<target, asked, outcome, files, bytes>>

ServiceNext == Refuse \/ StartScan \/ AskToCancel \/ ShowProgress \/ EndScan \/ Close

ServiceSpec == ServiceInit /\ [][ServiceNext]_serviceVars /\ WF_serviceVars(EndScan)
=============================================================================
