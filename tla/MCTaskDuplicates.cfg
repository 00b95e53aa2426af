\* Do the views follow the store when the file gives one id twice?
CONSTANTS
  plain = plain
  other = other
  noon = noon
  never = never
  notAFile = notAFile
  missing = missing
  unknown = unknown
  Bodies <- MCBodies
  Blank = {}
  Trimmed <- MCSame
  Written <- MCSame
  Times = {noon}
  NoTime = never
  Given = {}
  Documents <- MCDocuments
  NotATaskFile = notAFile
  LastId = 3
  Missing = missing
  UnknownRow = unknown

SPECIFICATION ModelSpec

INVARIANT
  ViewMirrorsStore
