SPECIFICATION Spec
CONSTANTS
  Codes = {"driver", "loop", "leaf"}
  Traced = {"loop", "leaf"}
  Kept = {"driver", "loop", "leaf"}
  Main = "driver"
  ScriptApi = {"start", "stop", "clear", "collect"}
  CodeApi = {"collect"}
  ScriptAhead = {1}
  CodeAhead = {1, 2}
  MaxDepth = 3
  MaxWalk = 4
  Api <- MCApi
  Ahead <- MCAhead
  Starts <- MCStarts
  Entries <- MCEntries
  Outs <- MCOuts
  Paths <- MCPaths
  Home <- MCHome
  Ident <- MCIdent
  First <- MCFirst
  Flow <- MCFlow
  Leaves <- MCLeaves
  Calls <- MCCalls
  Callees <- MCCallees
  Throws <- MCThrows
  Catch <- MCCatch
INVARIANTS
  BranchHitsExact
  EdgesTraversed
  ExitEdgesTaken
  PathHitsWalked
  NoLostPath
CHECK_DEADLOCK FALSE
