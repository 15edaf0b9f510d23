SPECIFICATION Spec
CONSTANTS
  Codes = {"driver", "k", "t", "u"}
  Traced = {"k", "t"}
  Kept = {"driver", "k", "u"}
  Main = "driver"
  ScriptApi = {"start", "stop", "clear", "collect"}
  CodeApi = {"stop", "collect"}
  ScriptAhead = {1, 2}
  CodeAhead = {1}
  MaxDepth = 3
  MaxWalk = 3
  Api <- MCApi
  Ahead <- MCAhead
  Starts <- MCStarts
  Entries <- MCEntries
  Outs <- MCOuts
  Paths <- MCPaths
  Home <- MCHome
  Ident <- MCIdent
  First <- MCFirst
  Flow <- MCFlow
  Leaves <- MCLeaves
  Calls <- MCCalls
  Callees <- MCCallees
  Throws <- MCThrows
  Catch <- MCCatch
VIEW WithoutHistory
INVARIANTS
  TypeOK
  NoDanglingCache
  StackShape
CHECK_DEADLOCK FALSE
