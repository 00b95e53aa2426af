\* The task store by itself: every call, any file.
CONSTANTS
  plain = plain
  padded = padded
  urgent = urgent
  blank = blank
  noon = noon
  later = later
  never = never
  notAFile = notAFile
  Bodies <- MCBodies
  Blank <- MCBlank
  Trimmed <- MCTrimmed
  Written <- MCWritten
  Times <- MCTimes
  NoTime = never
  Given <- MCGiven
  Documents <- MCDocuments
  NotATaskFile = notAFile
  LastId = 3

SPECIFICATION StoreSpec

INVARIANTS
  StoreTypeOK
  IdsUnique
PROPERTIES
  RoundTrip
  IdsNeverReused
  IdentityKept
