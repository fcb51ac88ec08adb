CONSTANTS
  Names = {"Root", "Middle", "Other", "Deep", "Outside"}
  Local = {"Root", "Middle", "Other", "Deep"}
  Imported = {"Root", "Middle", "Other", "Deep", "Outside"}
  Words = {"Root", "Middle", "Other", "Deep", "Outside", "text"}
  Unreadable = Unreadable
  Unread = Unreadable
  NoModule = NoModule
  Graphs <- MCGraphs
  Files <- MCFiles
  Manifests <- MCManifests
  Trees <- MCTrees
  Sources <- MCSources
  Tests <- MCTests
  PublicRoots <- MCPublicRoots
  Inventories <- MCInventories
SPECIFICATION SourceSpec
INVARIANTS
  HeadersExact
  AcceptExact
  AcceptStratified
  RefusalShortest
PROPERTIES
  GatesTerminate
CHECK_DEADLOCK FALSE
