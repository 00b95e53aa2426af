\* The list model by itself: views, footer and the save timer.
CONSTANTS
  plain = plain
  padded = padded
  blank = blank
  noon = noon
  never = never
  notAFile = notAFile
  missing = missing
  unknown = unknown
  Bodies <- MCBodies
  Blank = {blank}
  Trimmed <- MCTrimmed
  Written <- MCWritten
  Times = {noon}
  NoTime = never
  Given = {}
  Documents <- MCDocuments
  NotATaskFile = notAFile
  LastId = 2
  Missing = missing
  UnknownRow = unknown

SPECIFICATION ModelSpec

INVARIANTS
  ModelTypeOK
  ViewMirrorsStore
  CountsShown
  UnsavedIsScheduled
