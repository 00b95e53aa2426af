----------------------------- MODULE TaskVault -----------------------------
(***************************************************************************)
(* What the task board promises about the file, with no timer, save steps  *)
(* or failures: tasks.json only ever changes in one step, and then to the  *)
(* whole board as it is at that moment. A session starts from the file or, *)
(* when there is none or it cannot be read, from nothing; it ends at any   *)
(* moment. Within a session the counter of ids never goes back.            *)
(***************************************************************************)
EXTENDS Integers

CONSTANTS
  Boards,     \* what a file can say: rows and the counter
  Sound,      \* the boards that can be opened as they are
  Other,      \* no file, or not a file of tasks
  Empty,      \* the board without rows
  Closed      \* no session

VARIABLES board, saved

vaultVars == <<board, saved>>

VaultInit == board = Closed /\ saved \in Boards \union Other

(* Nothing is lost or renumbered in a sound file. *)
Open ==
  /\ board = Closed
  /\ \/ board' = Empty
     \/ saved \in Boards /\ board' = saved
     \/ saved \in Boards \ Sound /\ board' \in Sound
  /\ UNCHANGED saved

Modify ==
  /\ board # Closed
  /\ board' \in Sound
  /\ board'.nextId >= board.nextId
  /\ UNCHANGED saved

Store ==
  /\ board # Closed
  /\ saved' = board
  /\ UNCHANGED board

End ==
  /\ board # Closed
  /\ board' = Closed
  /\ UNCHANGED saved

VaultNext == Open \/ Modify \/ Store \/ End

VaultSpec == VaultInit /\ [][VaultNext]_vaultVars
=============================================================================
