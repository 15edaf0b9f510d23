------------------------------ MODULE MCPcovFrames ------------------------------
(***************************************************************************)
(* Small programs for PcovFrames.  Opcode by opcode:                       *)
(*                                                                         *)
(* driver  0 call in a try, whose catch leads back to 0: the script, of a  *)
(*         file that is not wanted                                         *)
(* f, k, t 0 call, 1 conditional jump to 3, 2 call, 3 return; t is a code  *)
(*         that is freed after its run, whose address k takes              *)
(* loop    0 plain, 1 call in a try, 2 jump to 4, 3 last catch, 4 jump     *)
(*         back to 1 or go on, 5 return                                    *)
(* leaf    0 return                                                         *)
(* u       0 call, 1 return: of a file that is not wanted                  *)
(* h       0 receive an untyped parameter, 1 return                        *)
(* tried   0 call in a try, 1 return its value, 2 last catch, 3 return     *)
(***************************************************************************)
EXTENDS PcovFrames, TLC

CONSTANTS
  ScriptApi, CodeApi,     \* API functions called by the script, by the rest
  ScriptAhead, CodeAhead  \* where the callees' slots are: for the script, the rest

(* The engine's and pcov's state, without the history the properties that  *)
(* use this view do not mention.                                           *)
WithoutHistory == <<pcovVars, engineVars>>

Outside(flow, catch, leaves) ==
  [first |-> 0, entries |-> {0}, outs |-> (0 :> {EXIT}), flow |-> flow,
   leaves |-> leaves, calls |-> {0}, throws |-> {}, catch |-> catch]

Branching ==
  [first |-> 0, entries |-> {0},
   outs  |-> (0 :> {2, 3} @@ 2 :> {3} @@ 3 :> {EXIT}),
   flow  |-> (0 :> {1} @@ 1 :> {2, 3} @@ 2 :> {3} @@ 3 :> {}),
   leaves |-> {3}, calls |-> {0, 2}, throws |-> {2},
   catch |-> [i \in 0 .. 3 |-> {}]]

Looping ==
  [first |-> 0, entries |-> {0, 3},
   outs  |-> (0 :> {1} @@ 1 :> {4} @@ 3 :> {4, EXIT} @@ 4 :> {1, 5} @@ 5 :> {EXIT}),
   flow  |-> (0 :> {1} @@ 1 :> {2} @@ 2 :> {4} @@ 3 :> {4} @@ 4 :> {1, 5} @@ 5 :> {}),
   leaves |-> {5}, calls |-> {1}, throws |-> {1},
   catch |-> [i \in 0 .. 5 |-> IF i = 1 THEN {3} ELSE {}]]

Receiving ==
  [first |-> 1, entries |-> {0}, outs |-> (0 :> {EXIT}),
   flow |-> (0 :> {1} @@ 1 :> {}), leaves |-> {1}, calls |-> {}, throws |-> {},
   catch |-> [i \in 0 .. 1 |-> {}]]

Leaf ==
  [first |-> 0, entries |-> {0}, outs |-> (0 :> {EXIT}),
   flow |-> (0 :> {}), leaves |-> {0}, calls |-> {}, throws |-> {0},
   catch |-> (0 :> {})]

Trying ==
  [first |-> 0, entries |-> {0, 2},
   outs  |-> (0 :> {EXIT} @@ 2 :> {3, EXIT} @@ 3 :> {EXIT}),
   flow  |-> (0 :> {1} @@ 1 :> {} @@ 2 :> {3} @@ 3 :> {}),
   leaves |-> {1, 3}, calls |-> {0}, throws |-> {0},
   catch |-> [i \in 0 .. 3 |-> IF i = 0 THEN {2} ELSE {}]]

Shape(c) ==
  CASE c = "driver" -> Outside((0 :> {0}), (0 :> {0}), {})
    [] c = "u"      -> Outside((0 :> {1} @@ 1 :> {}), (0 :> {} @@ 1 :> {}), {1})
    [] c = "loop"   -> Looping
    [] c = "h"      -> Receiving
    [] c = "leaf"   -> Leaf
    [] c = "tried"  -> Trying
    [] OTHER        -> Branching

(* pcov_branch_find_path: the walks from an entry point that use no edge   *)
(* twice and cannot be prolonged.                                          *)
RECURSIVE FindPath(_, _)
FindPath(outs, p) ==
  LET to == {n \in outs[LastOf(p)] \ {EXIT, 0} :
               \A i \in 1 .. Len(p) - 1 : ~(p[i] = LastOf(p) /\ p[i + 1] = n)}
  IN  IF to = {} THEN {p} ELSE UNION {FindPath(outs, Append(p, n)) : n \in to}

MCStarts  == [c \in Codes |-> DOMAIN Shape(c).outs]
MCEntries == [c \in Codes |-> Shape(c).entries]
MCOuts    == [c \in Codes |-> Shape(c).outs]
MCPaths   == [c \in Codes |-> UNION {FindPath(Shape(c).outs, <<e>>) : e \in Shape(c).entries}]
MCFirst   == [c \in Codes |-> Shape(c).first]
MCFlow    == [c \in Codes |-> Shape(c).flow]
MCLeaves  == [c \in Codes |-> Shape(c).leaves]
MCCalls   == [c \in Codes |-> Shape(c).calls]
MCThrows  == [c \in Codes |-> Shape(c).throws]
MCCatch   == [c \in Codes |-> Shape(c).catch]
MCCallees == [c \in Codes |-> Codes \ {"driver"}]
MCApi     == [c \in Codes |-> IF c = Main THEN ScriptApi ELSE CodeApi]
MCAhead   == [c \in Codes |-> IF c = Main THEN ScriptAhead ELSE CodeAhead]
MCIdent   == [c \in Codes |-> c]

(* t and k have the same address, one after the other.                     *)
MCHome    == [c \in Codes |-> IF c = "t" THEN "k" ELSE c]
================================================================================
