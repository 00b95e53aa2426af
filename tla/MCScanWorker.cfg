\* The worker alone, called directly and cancelled from any thread.
CONSTANTS
  a = a
  b = b
  c = c
  folder = folder
  nowhere = nowhere
  none = none
  Paths <- MCPaths
  NoPath = none
  Absolute <- MCAbsolute
  Directories <- MCDirectories
  Entries <- MCEntries
  Tree <- MCTree
  Suffixes <- MCSuffixes
  Info <- MCInfo
  SuffixLess <- MCSuffixLess

SPECIFICATION WorkerSpec

INVARIANTS
  WorkerTypeOK
  CompleteReportMatchesTree
  ListAddsUp
  SignalProtocol
PROPERTY
  WalkEnds
