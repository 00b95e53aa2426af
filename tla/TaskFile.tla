------------------------------ MODULE TaskFile ------------------------------
(***************************************************************************)
(* tasks.json and the two functions of src/core/TaskStore.cpp that touch   *)
(* it. saveToFile() goes through a QSaveFile: a temporary file is opened,  *)
(* written and renamed over the real one, and each of the three may fail.  *)
(* It runs to its end on the GUI thread, so that only the death of the     *)
(* process comes in between, and that leaves a temporary file behind which *)
(* nobody reads.                                                           *)
(***************************************************************************)
EXTENDS TaskStore

CONSTANT
  Missing     \* no such file

ASSUME FileAssumption == Missing \notin Document /\ Missing # NotATaskFile

VARIABLES
  disk,       \* tasks.json
  temporary,  \* what QSaveFile has written so far
  savePc      \* where saveToFile() is: "idle", "writing", "committing"

fileVars == <<disk, temporary, savePc>>

FileContents == Document \union {NotATaskFile, Missing}

FileInit ==
  /\ disk \in Documents \union {NotATaskFile, Missing}
  /\ temporary = Missing
  /\ savePc = "idle"

FileTypeOK ==
  /\ disk \in FileContents
  /\ temporary \in FileContents
  /\ savePc \in {"idle", "writing", "committing"}

(* Mutant: a QFile, truncated when it is opened. *)
OpenSaveTruncates ==
  /\ savePc = "idle"
  /\ savePc' = "writing"
  /\ disk' = NotATaskFile
  /\ temporary' = NotATaskFile

(* saveToFile() as far as a successful open(); see SaveFails for the rest. *)
OpenSave ==
  /\ savePc = "idle"
  /\ savePc' = "writing"
  /\ temporary' = NotATaskFile
  /\ UNCHANGED disk

(* write(): its result is ignored, the QSaveFile remembers the error.      *)
WriteSave ==
  /\ savePc = "writing"
  /\ savePc' = "committing"
  /\ \/ temporary' = toJson
     \/ UNCHANGED temporary
  /\ UNCHANGED disk

(* commit() renames a temporary file that was written whole.               *)
CommitSave ==
  /\ savePc = "committing"
  /\ temporary \in Document
  /\ disk' = temporary
  /\ temporary' = Missing
  /\ savePc' = "idle"

(* open() fails, or commit() does, for a write that failed or by itself.   *)
SaveFails ==
  /\ savePc \in {"idle", "committing"}
  /\ savePc' = "idle"
  /\ temporary' = Missing
  /\ UNCHANGED disk

(* loadFromFile(), and its result: no file is an empty list; a file that   *)
(* cannot be opened or parsed is an error and leaves the store alone.      *)
loadFromFile(ok) ==
  /\ \/ ok /\ disk = Missing /\ clear
     \/ ok /\ disk \in Document /\ loadFromJson(disk)
     \/ ~ok /\ disk # Missing /\ UNCHANGED storeVars
  /\ UNCHANGED fileVars

(* The process is gone and with it a save that was under way.              *)
FileCrash ==
  /\ temporary' = Missing
  /\ savePc' = "idle"
  /\ UNCHANGED disk
=============================================================================
