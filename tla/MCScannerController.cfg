\* The scanner: GUI thread, worker thread and their queues.
CONSTANTS
  readme = readme
  notes = notes
  main = main
  src = src
  home = home
  dot = dot
  vacant = vacant
  nowhere = nowhere
  none = none
  Paths <- MCPaths
  NoPath = none
  Absolute <- MCAbsolute
  Directories <- MCDirectories
  Entries <- MCEntries
  Tree <- MCTree
  Suffixes <- MCSuffixes
  Info <- MCInfo
  SuffixLess <- MCSuffixLess
  Texts <- MCTexts
  Clean <- MCClean
  Urls <- MCUrls
  UrlText <- MCUrlText
  DefaultPath = home

SPECIFICATION Spec

INVARIANTS
  TypeOK
  OneScanAtATime
  SettledViewAgrees
  SharesAddUp
  NothingOutlivesController
PROPERTIES
  CancelledOnlyIfAsked
  CountersOnlyGrow
  EveryScanEnds
  DestructorReturns
  ImplementsService
