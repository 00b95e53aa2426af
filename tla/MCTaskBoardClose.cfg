\* Are edits written when the window is closed?
CONSTANTS
  plain = plain
  blank = blank
  noon = noon
  never = never
  notAFile = notAFile
  missing = missing
  unknown = unknown
  Bodies <- MCBodies
  Blank = {blank}
  Trimmed <- MCTrimmed
  Written <- MCTrimmed
  Times = {noon}
  NoTime = never
  Given = {}
  Documents <- MCDocuments
  NotATaskFile = notAFile
  LastId = 3
  Missing = missing
  UnknownRow = unknown
  Samples <- MCSamples

SPECIFICATION Spec

INVARIANT
  EditsSurviveClose
