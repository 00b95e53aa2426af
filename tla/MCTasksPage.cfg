\* The page: toolbar, filtered list and editor over the list model.
CONSTANTS
  report = report
  call = call
  empty = empty
  noon = noon
  never = never
  notAFile = notAFile
  missing = missing
  unknown = unknown
  noNeedle = noNeedle
  noDue = noDue
  notOpen = notOpen
  Bodies <- MCBodies
  Blank = {empty}
  Trimmed <- MCSame
  Written <- MCSame
  Times = {noon}
  NoTime = never
  Given = {}
  Documents <- MCDocuments
  NotATaskFile = notAFile
  LastId = 3
  Missing = missing
  UnknownRow = unknown
  Texts = {"   ", "a"}
  NoNeedle = noNeedle
  Needle <- MCNeedle
  Matches <- MCMatches
  TitleRank <- MCTitleRank
  Level <- MCLevel
  Due <- MCDue
  NoDue = noDue
  CreatedRank <- MCCreatedRank
  Title <- MCSame
  NewDraft = empty
  Drafted <- MCSame
  NotOpen = notOpen
  Samples <- MCSamples

SPECIFICATION Spec

INVARIANTS
  PageTypeOK
  ListShowsFilter
  ListInOrder
  OrderIsStrictWeak
  SaveFollowsTitle
PROPERTIES
  HiddenTasksUntouched
  EditLandsOnItsTask
  ImplementsView
