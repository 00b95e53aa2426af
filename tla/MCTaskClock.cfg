\* Due dates: rows, footer and dialog against the clock.
CONSTANTS
  plain = plain
  blank = blank
  noon = noon
  never = never
  notAFile = notAFile
  missing = missing
  unknown = unknown
  noDue = noDue
  notOpen = notOpen
  Bodies <- MCBodies
  Blank <- MCBlank
  Trimmed <- MCSame
  Written <- MCSame
  Times = {noon}
  NoTime = never
  Given = {}
  Documents <- MCDocuments
  NotATaskFile = notAFile
  LastId = 2
  Missing = missing
  UnknownRow = unknown
  DayLength = 2
  Week = 1
  Due <- MCDue
  NoDue = noDue
  Days = {0, 1}
  SampleDays <- MCSampleDays
  NotOpen = notOpen
  LastMoment = 3

SPECIFICATION ClockSpec

INVARIANTS
  ClockTypeOK
  DrawnWasTrue
  FooterWasTrue
PROPERTY EditKeepsDay
