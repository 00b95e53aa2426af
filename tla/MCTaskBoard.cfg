\* The task board from one start of the program to the next.
CONSTANTS
  plain = plain
  blank = blank
  noon = noon
  never = never
  notAFile = notAFile
  missing = missing
  unknown = unknown
  Bodies <- MCBodies
  Blank = {blank}
  Trimmed <- MCTrimmed
  Written <- MCTrimmed
  Times = {noon}
  NoTime = never
  Given = {}
  Documents <- MCDocuments
  NotATaskFile = notAFile
  LastId = 3
  Missing = missing
  UnknownRow = unknown
  Samples <- MCSamples

SPECIFICATION Spec

INVARIANTS
  BoardTypeOK
  IdsUnique
PROPERTIES
  EditsGetSaved
  ImplementsVault
