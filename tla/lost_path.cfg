SPECIFICATION Spec
CONSTANTS
  Codes = {"driver", "f"}
  Traced = {"f"}
  Kept = {"driver", "f"}
  Main = "driver"
  ScriptApi = {"start"}
  CodeApi = {}
  ScriptAhead = {1, 2}
  CodeAhead = {1}
  MaxDepth = 3
  MaxWalk = 3
  Api <- MCApi
  Ahead <- MCAhead
  Starts <- MCStarts
  Entries <- MCEntries
  Outs <- MCOuts
  Paths <- MCPaths
  Home <- MCHome
  Ident <- MCIdent
  First <- MCFirst
  Flow <- MCFlow
  Leaves <- MCLeaves
  Calls <- MCCalls
  Callees <- MCCallees
  Throws <- MCThrows
  Catch <- MCCatch
INVARIANT NoLostPath
CHECK_DEADLOCK FALSE
