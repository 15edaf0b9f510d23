-------------------------------- MODULE ZendCfg --------------------------------
(***************************************************************************)
(* Which lines of an op_array are executable: zend_build_cfg, the copy of  *)
(* the engine's control-flow graph that is compiled in for PHP before 8.1, *)
(* and php_pcov_discover_code on top of it.                                *)
(*                                                                         *)
(* A basic block is named by its first opcode, so the next block is the    *)
(* next start.  The recursion of zend_mark_reachable is the sequence       *)
(* stack, whose elements are a block and the successor it is at; a call    *)
(* marks its block at once.  An opcode is its kind, the opcodes its        *)
(* operands point at and its line; kinds the two functions treat alike are *)
(* one: ASSERT_CHECK, for instance, is a "fast_call", a jump whose line    *)
(* nobody reports.  try_catch_array is tries, with 0 for what a try does   *)
(* not have.                                                               *)
(*                                                                         *)
(* One op_array at a time: php_pcov_discover_code returns at once for an   *)
(* abstract method, which has no code, and goes on with the closures and   *)
(* functions that are declared in this one, which are op_arrays of their   *)
(* own and add their lines to the same table.                              *)
(***************************************************************************)
EXTENDS Integers, Sequences, FiniteSets

CONSTANT Programs   \* op_arrays [last, ops, tries], ops a function on 0 .. last - 1

Kinds == {"plain", "ignored", "new", "do_fcall", "jmp", "jmpznz", "cond",
          "fast_call", "fast_ret", "return", "catch", "last_catch", "switch"}

VARIABLES
  opa,         \* the op_array
  phase,       \* "build", "mark", "discover" or "done"
  starts,      \* first opcodes of the basic blocks
  successors,  \* of each block, in order
  reachable,   \* blocks with ZEND_BB_REACHABLE
  stack,       \* invocations of zend_mark_reachable, innermost last
  try_op,      \* the tries' beginnings, which marking may move
  j, part,     \* the try of the loop over tries, and what of it comes next
  changed,     \* the loop over tries has to be run again
  lines        \* the executable lines

markVars == <<reachable, stack, try_op, j, part, changed>>
vars == <<opa, phase, starts, successors, markVars, lines>>

Ops(p) == 0 .. p.last - 1

Elements(s) == {s[i] : i \in 1 .. Len(s)}

-----------------------------------------------------------------------------
(* Blocks and successors.                                                  *)

Inside == {"plain", "ignored", "new", "do_fcall"}

(* Mutant: a return is followed by the next block.                         *)
FallsUnlessJump(op) == op.kind \notin {"jmp", "jmpznz"}

(* Control may go on with the next opcode.                                 *)
FallsThrough(op) == op.kind \notin {"return", "fast_ret", "jmp", "jmpznz"}

(* Calls of a constructor without arguments, reported with their NEW.      *)
CallsOfNew(p) == {i \in Ops(p) \ {0} : p.ops[i].kind = "do_fcall" /\ p.ops[i - 1].kind = "new"}

(* The blocks that opcode i makes begin: its targets and what follows it.  *)
Begins(p, i) ==
  IF p.ops[i].kind \in Inside
  THEN {}
  ELSE Elements(p.ops[i].to) \union ({i + 1} \intersect Ops(p))

Handlers(try) == {try.catch, try.finally, try.finally_end} \ {0}

BlockStarts(p) ==
  {0} \union (UNION {Begins(p, i) : i \in Ops(p)})
      \union (UNION {{t.try} \union Handlers(t) : t \in Elements(p.tries)})

(* What the compiler emits: the last opcode of a function is the return    *)
(* it adds, an opcode inside a block points nowhere, a try is in front of  *)
(* its catch and that in front of its finally block, which ends in an      *)
(* opcode of its own, and nothing jumps between a NEW and its call.        *)
ASSUME CfgAssumption ==
  \A p \in Programs :
    LET Here == Ops(p)
    IN  /\ p.last \in Nat \ {0}
        /\ p.ops \in [Here -> [kind : Kinds, to : Seq(Here), line : Nat]]
        /\ p.ops[p.last - 1].kind = "return"
        /\ \A i \in Here : p.ops[i].kind \in Inside => p.ops[i].to = <<>>
        /\ p.tries \in Seq([try : Here, catch : Here, finally : Here, finally_end : Here])
        /\ \A t \in Elements(p.tries) :
             /\ t.catch # 0 => t.try < t.catch
             /\ t.finally # 0 => t.try < t.finally /\ t.catch <= t.finally
             /\ t.finally_end # 0 => t.finally # 0
        /\ CallsOfNew(p) \intersect BlockStarts(p) = {}

(* cfg->map: the block of an opcode.                                       *)
BlockOf(i) == CHOOSE b \in starts : b <= i /\ \A c \in starts : c <= i => c <= b

(* The opcodes of block b, in an op_array cut at S.                        *)
Body(p, S, b) == {i \in Ops(p) : b <= i /\ \A c \in S : b < c => i < c}

(* A target starts a block, so it is the block it is mapped to.            *)
SuccessorsOf(p, S, b) ==
  LET end == CHOOSE i \in Body(p, S, b) : i + 1 \notin Body(p, S, b)
      op  == p.ops[end]
  IN  op.to \o (IF FallsThrough(op) THEN <<end + 1>> ELSE <<>>)

(* Steps 1 to 3 of zend_build_cfg; the fourth begins with block 0.         *)
zend_build_cfg ==
  /\ phase = "build"
  /\ phase' = "mark"
  /\ starts' = BlockStarts(opa)
  /\ successors' = [b \in starts' |-> SuccessorsOf(opa, starts', b)]
  /\ reachable' = {0}
  /\ stack' = <<[block |-> 0, i |-> 1]>>
  /\ UNCHANGED <<opa, try_op, j, part, changed, lines>>

-----------------------------------------------------------------------------
(* Marking.                                                                *)

(* One turn of the loop over successors: an unmarked one is called, and    *)
(* the last one takes the place of its caller.                             *)
zend_mark_reachable ==
  LET top   == stack[Len(stack)]
      rest  == SubSeq(stack, 1, Len(stack) - 1)
      succs == successors[top.block]
      succ  == succs[top.i]
      back  == IF top.i = Len(succs) THEN rest
                                     ELSE Append(rest, [top EXCEPT !.i = @ + 1])
  IN  /\ phase = "mark" /\ stack # <<>>
      /\ IF succs = <<>>
         THEN stack' = rest /\ UNCHANGED reachable
         ELSE IF succ \in reachable
         THEN stack' = back /\ UNCHANGED reachable
         ELSE /\ stack' = Append(back, [block |-> succ, i |-> 1])
              /\ reachable' = reachable \union {succ}
      /\ UNCHANGED <<opa, phase, starts, successors, try_op, j, part, changed, lines>>

Mark(b) ==
  /\ stack' = <<[block |-> b, i |-> 1]>>
  /\ reachable' = reachable \union {b}

(* Reachable blocks in front of opcode end, from that of opcode i on.      *)
ReachedBetween(i, end) == {b \in reachable : BlockOf(i) <= b /\ b < BlockOf(end)}

(* A try whose first block is not reachable begins at the first one that   *)
(* is, before its catch.                                                   *)
TryMoved(try, from) ==
  LET reached == ReachedBetween(from, try.catch)
  IN  IF BlockOf(from) \notin reachable /\ try.catch # 0 /\ reached # {}
      THEN CHOOSE b \in reached : \A c \in reached : b <= c
      ELSE from

(* The first half of the loop's body.  When it is a catch of the try that  *)
(* is jumped into, the try begins at its catch.                            *)
EnterTry ==
  LET try  == opa.tries[j]
      from == TryMoved(try, try_op[j])
  IN  /\ phase = "mark" /\ stack = <<>> /\ j <= Len(opa.tries)
      /\ part = "try"
      /\ part' = "catch"
      /\ IF /\ BlockOf(from) \notin reachable /\ try.finally # 0
            /\ ReachedBetween(from, try.finally) # {}
         THEN /\ try_op' = [try_op EXCEPT ![j] = try.catch]
              /\ changed' = TRUE
              /\ Mark(BlockOf(try.catch))
         ELSE /\ try_op' = [try_op EXCEPT ![j] = from]
              /\ UNCHANGED <<changed, stack, reachable>>
      /\ UNCHANGED <<opa, phase, starts, successors, j, lines>>

(* Mutant: a handler is marked again in every round.                       *)
MarksAgain(try, op) == op # 0 /\ BlockOf(try_op[j]) \in reachable

(* Mutant: the handlers of a try nobody reaches are marked as well.        *)
MarksOfDead(try, op) == op # 0 /\ BlockOf(op) \notin reachable

Marks(try, op) ==
  op # 0 /\ BlockOf(try_op[j]) \in reachable /\ BlockOf(op) \notin reachable

(* The second half: the handlers of a reachable try are reachable.         *)
MarkHandler ==
  LET try == opa.tries[j]
      op  == try[part]
  IN  /\ phase = "mark" /\ stack = <<>> /\ j <= Len(opa.tries)
      /\ part # "try"
      /\ part' = CASE part = "catch"       -> "finally"
                   [] part = "finally"     -> "finally_end"
                   [] part = "finally_end" -> "try"
      /\ j' = IF part = "finally_end" THEN j + 1 ELSE j
      /\ IF Marks(try, op)
         THEN changed' = TRUE /\ Mark(BlockOf(op))
         ELSE UNCHANGED <<changed, stack, reachable>>
      /\ UNCHANGED <<opa, phase, starts, successors, try_op, lines>>

(* Mutant: the tries are gone through once.                                *)
OneRound ==
  /\ phase = "mark" /\ stack = <<>> /\ j > Len(opa.tries)
  /\ phase' = "discover"
  /\ changed' = FALSE
  /\ UNCHANGED <<opa, starts, successors, reachable, stack, try_op, j, part, lines>>

(* The tries are gone through until nothing changes.                       *)
zend_mark_reachable_blocks ==
  /\ phase = "mark" /\ stack = <<>> /\ j > Len(opa.tries)
  /\ IF changed THEN j' = 1 /\ UNCHANGED phase
                ELSE phase' = "discover" /\ UNCHANGED j
  /\ changed' = FALSE
  /\ UNCHANGED <<opa, starts, successors, reachable, stack, try_op, part, lines>>

-----------------------------------------------------------------------------
(* Line discovery.                                                         *)

php_pcov_ignored_opcode(op) == op.kind \in {"ignored", "fast_call", "fast_ret"}

(* A NEW is passed over together with the call of a constructor that gets  *)
(* no arguments.                                                           *)
PassesCall(i) == opa.ops[i].kind = "new" /\ opa.ops[i + 1].kind = "do_fcall"

php_pcov_discover_code ==
  LET Looked(b) == {i \in Body(opa, starts, b) :
                      /\ ~php_pcov_ignored_opcode(opa.ops[i])
                      /\ ~(i > b /\ PassesCall(i - 1))}
  IN  /\ phase = "discover"
      /\ phase' = "done"
      /\ lines' = {opa.ops[i].line : i \in UNION {Looked(b) : b \in reachable}}
      /\ UNCHANGED <<opa, starts, successors, markVars>>

Init ==
  /\ opa \in Programs
  /\ phase = "build"
  /\ starts = {} /\ successors = <<>>
  /\ reachable = {} /\ stack = <<>>
  /\ try_op = [n \in 1 .. Len(opa.tries) |-> opa.tries[n].try]
  /\ j = 1 /\ part = "try" /\ changed = FALSE
  /\ lines = {}

Next ==
  \/ zend_build_cfg
  \/ zend_mark_reachable
  \/ EnterTry
  \/ MarkHandler
  \/ zend_mark_reachable_blocks
  \/ php_pcov_discover_code

(* The code is a function that runs to its end.                            *)
Spec == Init /\ [][Next]_vars /\ WF_vars(Next)

-----------------------------------------------------------------------------
(* What the opcodes say, without blocks.                                   *)

Flows(p, i) ==
  Elements(p.ops[i].to) \union (IF FallsThrough(p.ops[i]) THEN {i + 1} ELSE {})

(* The opcodes an exception of which a try handles.                        *)
Guarded(try) == try.try .. (IF try.finally # 0 THEN try.finally ELSE try.catch) - 1

(* Where control can be is where it can go on from, by itself or through  *)
(* an exception that any opcode may throw: a handler is as live as         *)
(* anything it guards.                                                     *)
Closed(p, L) ==
  /\ 0 \in L
  /\ \A i \in L : Flows(p, i) \subseteq L
  /\ \A t \in Elements(p.tries) : Guarded(t) \intersect L # {} => Handlers(t) \subseteq L

(* The opcodes control can come to: the least closed set.                  *)
Live(p) ==
  LET closed == {L \in SUBSET Ops(p) : Closed(p, L)}
  IN  {i \in Ops(p) : \A L \in closed : i \in L}

-----------------------------------------------------------------------------
(* Properties.                                                             *)

(* Blocks begin inside the op_array and lead to blocks, and the recursion  *)
(* is never deeper than there are blocks.                                  *)
TypeOK ==
  /\ phase \in {"build", "mark", "discover", "done"}
  /\ starts \subseteq Ops(opa)
  /\ \A b \in DOMAIN successors : Elements(successors[b]) \subseteq starts
  /\ reachable \subseteq starts
  /\ \A n \in 1 .. Len(stack) :
       stack[n].block \in reachable /\ stack[n].i \in 1 .. Len(successors[stack[n].block]) + 1
  /\ Len(stack) <= Cardinality(starts)
  /\ Len(try_op) = Len(opa.tries) /\ Elements(try_op) \subseteq Ops(opa)
  /\ j \in 1 .. Len(opa.tries) + 1
  /\ part \in {"try", "catch", "finally", "finally_end"} /\ changed \in BOOLEAN
  /\ lines \subseteq {opa.ops[i].line : i \in Ops(opa)}

(* The lines are those of the opcodes that control can come to, through    *)
(* jumps into the middle of a try and handlers that lead to other tries as *)
(* well, and that are not ignored.                                         *)
LinesExact ==
  phase = "done" =>
    lines = {opa.ops[i].line : i \in {k \in Live(opa) \ CallsOfNew(opa) :
                                        ~php_pcov_ignored_opcode(opa.ops[k])}}

(* ZEND_ASSERT in zend_mark_reachable_blocks: when a try cannot be         *)
(* reached, and nobody jumped into it, none of its handlers is reachable.  *)
DeadTriesDead ==
  phase = "mark" /\ stack = <<>> /\ j <= Len(opa.tries) /\ part = "catch" =>
    \/ BlockOf(try_op[j]) \in reachable
    \/ \A h \in Handlers(opa.tries[j]) : BlockOf(h) \notin reachable

(* The opcodes that run for a try's sake: where its catches begin and all  *)
(* of its finally block.                                                   *)
HandlerOps(try) ==
  Handlers(try) \union (IF try.finally # 0 THEN try.finally .. try.finally_end ELSE {})

(* How the compiler lays out handlers: nothing enters them but what they   *)
(* guard - goto into a finally block is an error, and none leads to a      *)
(* catch - and a try whose handlers lie in a finally block lies there too. *)
HandlersApart ==
  \A p \in Programs : \A t \in Elements(p.tries) :
    LET Own == Guarded(t) \union HandlerOps(t)
    IN  /\ \A i \in Ops(p) : Flows(p, i) \intersect HandlerOps(t) # {} => i \in Own
        /\ \A u \in Elements(p.tries) \ {t} :
             Handlers(u) \intersect HandlerOps(t) # {} => Guarded(u) \subseteq Own

(* Marking ends, although it goes through the tries until nothing changes  *)
(* and through graphs with loops.                                          *)
Ends == <>(phase = "done")

================================================================================
