SPECIFICATION Spec
CONSTANTS
  Codes = {"driver", "h"}
  Traced = {"h"}
  Kept = {"driver", "h"}
  Main = "driver"
  ScriptApi = {"start"}
  CodeApi = {}
  ScriptAhead = {1}
  CodeAhead = {1}
  MaxDepth = 2
  MaxWalk = 3
  Api <- MCApi
  Ahead <- MCAhead
  Starts <- MCStarts
  Entries <- MCEntries
  Outs <- MCOuts
  Paths <- MCPaths
  Home <- MCHome
  Ident <- MCIdent
  First <- MCFirst
  Flow <- MCFlow
  Leaves <- MCLeaves
  Calls <- MCCalls
  Callees <- MCCallees
  Throws <- MCThrows
  Catch <- MCCatch
INVARIANT BranchHitsExact
CHECK_DEADLOCK FALSE
