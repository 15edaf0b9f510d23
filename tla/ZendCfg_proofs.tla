----------------------------- MODULE ZendCfg_proofs ----------------------------
(***************************************************************************)
(* Theorems about ZendCfg, for every op_array.                             *)
(*                                                                         *)
(* The live opcodes are the least set that control cannot leave. That the  *)
(* marked blocks hold exactly those takes both halves of the invariant.    *)
(* Sound: whatever is marked is in every set that control cannot leave; it *)
(* includes that a try still begins among the opcodes it guards, unless    *)
(* its handlers are known to be live, because it is try_op that decides    *)
(* whether a handler is marked. Closing and Round: what is not marked yet  *)
(* is still to come, in an invocation of zend_mark_reachable or in what is *)
(* left of a round; a round that changes nothing has asked every try of    *)
(* the reachable set that is there at its end.                             *)
(*                                                                         *)
(* zend_mark_reachable goes over blocks, the reference over opcodes: the   *)
(* lemmas of the first half say that control goes through a block from its *)
(* first opcode to its last and on to its successors.                      *)
(*                                                                         *)
(* That dead tries stay dead is an invariant on top of it: where a handler *)
(* is marked, something that it handles is, because nothing else enters it *)
(* (HandlersApart).                                                        *)
(***************************************************************************)
EXTENDS ZendCfg, WellFoundedInduction, FiniteSetTheorems, TLAPS

(* The order of the naturals as a relation, for WFMin.                     *)
LessThan == {ss \in Nat \X Nat : ss[1] < ss[2]}

(* A set of naturals has a least and, if bounded, a greatest element.      *)
LEMMA Least ==
  ASSUME NEW S, S \subseteq Nat, S # {}
  PROVE  \E m \in S : \A x \in S : m <= x
<1>1. IsWellFoundedOn(LessThan, Nat)
  BY NatLessThanWellFounded DEF OpToRel, LessThan
<1>2. \E m \in S : \A x \in S : <<x, m>> \notin LessThan
  BY <1>1, WFMin
<1>3. \A x, m \in S : <<x, m>> \in LessThan <=> x < m
  BY DEF LessThan
<1>4. PICK m \in S : \A x \in S : ~(x < m)
  BY <1>2, <1>3
<1> QED
  BY <1>4

LEMMA Greatest ==
  ASSUME NEW S, S \subseteq Nat, S # {}, NEW n \in Nat, \A x \in S : x <= n
  PROVE  \E m \in S : \A x \in S : x <= m
<1> DEFINE D == {n - x : x \in S}
<1>1. D \subseteq Nat /\ D # {}
  <2>1. \A x \in S : n - x \in Nat
    OBVIOUS
  <2> QED BY <2>1
<1>2. PICK d \in D : \A e \in D : d <= e
  <2> HIDE DEF D
  <2> QED BY <1>1, Least
<1>3. PICK m \in S : d = n - m
  BY <1>2
<1>4. \A x \in S : n - x \in D
  OBVIOUS
<1>5. \A x \in S : n - m <= n - x
  BY <1>2, <1>3, <1>4
<1> QED
  BY <1>3, <1>5

(* What CfgAssumption says of an op_array, in the form the proofs use.     *)
LEMMA ElementTyped ==
  ASSUME NEW S, NEW s \in Seq(S)
  PROVE  Len(s) \in Nat /\ \A n \in 1 .. Len(s) : s[n] \in S
OBVIOUS

LEMMA Typed ==
  ASSUME NEW p \in Programs
  PROVE  /\ p.last \in Nat \ {0}
         /\ \A i \in Ops(p) : /\ i \in Nat
                              /\ p.ops[i].kind \in Kinds
                              /\ p.ops[i].to \in Seq(Ops(p))
         /\ p.last - 1 \in Ops(p) /\ p.ops[p.last - 1].kind = "return"
         /\ 0 \in Ops(p)
         /\ \A n \in 1 .. Len(p.tries) :
              /\ p.tries[n].try \in Ops(p)
              /\ p.tries[n].catch \in Ops(p)
              /\ p.tries[n].finally \in Ops(p)
              /\ p.tries[n].finally_end \in Ops(p)
         /\ Len(p.tries) \in Nat
<1>1. p.ops \in [Ops(p) -> [kind : Kinds, to : Seq(Ops(p)), line : Nat]]
  BY CfgAssumption
<1>2. p.last \in Nat \ {0} /\ p.ops[p.last - 1].kind = "return"
  BY CfgAssumption
<1>3. p.tries \in Seq([try : Ops(p), catch : Ops(p), finally : Ops(p), finally_end : Ops(p)])
  BY CfgAssumption
<1>4. \A i \in Ops(p) : p.ops[i].kind \in Kinds /\ p.ops[i].to \in Seq(Ops(p))
  BY <1>1
<1>5. 0 \in Ops(p) /\ p.last - 1 \in Ops(p) /\ \A i \in Ops(p) : i \in Nat
  BY <1>2 DEF Ops
<1>6. \A n \in 1 .. Len(p.tries) :
        p.tries[n] \in [try : Ops(p), catch : Ops(p), finally : Ops(p), finally_end : Ops(p)]
  BY <1>3, ElementTyped
<1>7. Len(p.tries) \in Nat
  BY <1>3, ElementTyped
<1> QED
  BY <1>2, <1>4, <1>5, <1>6, <1>7

(* Blocks begin inside the op_array: at its first opcode, where opcodes    *)
(* lead and where tries and their handlers begin.                          *)
LEMMA StartsTyped ==
  ASSUME NEW p \in Programs
  PROVE  /\ BlockStarts(p) \subseteq Ops(p)
         /\ 0 \in BlockStarts(p)
         /\ \A i \in Ops(p) : Begins(p, i) \subseteq BlockStarts(p)
         /\ \A n \in 1 .. Len(p.tries) :
              p.tries[n].try \in BlockStarts(p) /\ Handlers(p.tries[n]) \subseteq BlockStarts(p)
<1>1. \A i \in Ops(p) : Begins(p, i) \subseteq Ops(p)
  BY Typed DEF Begins, Elements
<1>2. \A t \in Elements(p.tries) : {t.try} \union Handlers(t) \subseteq Ops(p)
  BY Typed DEF Elements, Handlers
<1>3. BlockStarts(p) \subseteq Ops(p)
  BY <1>1, <1>2, Typed DEF BlockStarts
<1>4. \A n \in 1 .. Len(p.tries) : p.tries[n] \in Elements(p.tries)
  BY DEF Elements
<1> QED
  BY <1>3, <1>4 DEF BlockStarts

(* BlockOf, without the state.                                             *)
Block(p, i) ==
  CHOOSE b \in BlockStarts(p) : b <= i /\ \A c \in BlockStarts(p) : c <= i => c <= b

(* Every opcode is in the block of the last start in front of it; a start  *)
(* is in its own.                                                          *)
LEMMA BlockTyped ==
  ASSUME NEW p \in Programs, NEW i \in Ops(p)
  PROVE  /\ Block(p, i) \in BlockStarts(p) /\ Block(p, i) <= i
         /\ \A c \in BlockStarts(p) : c <= i => c <= Block(p, i)
<1> DEFINE S == {b \in BlockStarts(p) : b <= i}
<1>1. S \subseteq Nat /\ 0 \in S /\ i \in Nat
  BY StartsTyped, Typed
<1>2. PICK b \in S : \A c \in S : c <= b
  <2>1. \A c \in S : c <= i
    OBVIOUS
  <2> HIDE DEF S
  <2> QED BY <1>1, <2>1, Greatest
<1>3. b \in BlockStarts(p) /\ b <= i /\ \A c \in BlockStarts(p) : c <= i => c <= b
  BY <1>2
<1> QED
  BY <1>3 DEF Block

LEMMA OwnBlock ==
  ASSUME NEW p \in Programs, NEW b \in BlockStarts(p)
  PROVE  Block(p, b) = b
<1>1. b \in Ops(p) /\ \A c \in BlockStarts(p) : c \in Nat
  BY StartsTyped, Typed
<1>2. Block(p, b) \in BlockStarts(p) /\ Block(p, b) <= b /\ b <= Block(p, b)
  BY <1>1, BlockTyped
<1> QED
  BY <1>1, <1>2

(* The body of a block is what is mapped to it.                            *)
LEMMA InBody ==
  ASSUME NEW p \in Programs, NEW b \in BlockStarts(p), NEW i \in Ops(p)
  PROVE  i \in Body(p, BlockStarts(p), b) <=> Block(p, i) = b
<1>1. i \in Nat /\ \A c \in BlockStarts(p) : c \in Nat
  BY StartsTyped, Typed
<1>2. /\ Block(p, i) \in BlockStarts(p) /\ Block(p, i) <= i
      /\ \A c \in BlockStarts(p) : c <= i => c <= Block(p, i)
  BY BlockTyped
<1>3. ASSUME i \in Body(p, BlockStarts(p), b) PROVE Block(p, i) = b
  <2>1. b <= i /\ \A c \in BlockStarts(p) : b < c => i < c
    BY <1>3 DEF Body
  <2>2. ~(b < Block(p, i))
    BY <1>1, <1>2, <2>1
  <2> QED BY <1>1, <1>2, <2>1, <2>2
<1>4. ASSUME Block(p, i) = b PROVE i \in Body(p, BlockStarts(p), b)
  BY <1>1, <1>2, <1>4 DEF Body
<1> QED
  BY <1>3, <1>4

(* Inside a block control goes to the next opcode.                         *)
LEMMA BodyRuns ==
  ASSUME NEW p \in Programs, NEW b \in BlockStarts(p),
         NEW i \in Body(p, BlockStarts(p), b)
  PROVE  /\ i + 1 \in Body(p, BlockStarts(p), b) => p.ops[i].kind \in Inside
         /\ i + 1 \in Body(p, BlockStarts(p), b) \/ i + 1 \in BlockStarts(p) \/ i + 1 = p.last
         /\ \A k \in Body(p, BlockStarts(p), b) : i < k => i + 1 \in Body(p, BlockStarts(p), b)
<1>1. /\ i \in Ops(p) /\ i \in Nat /\ b <= i /\ b \in Nat
      /\ \A c \in BlockStarts(p) : c \in Nat /\ (b < c => i < c)
  BY StartsTyped, Typed DEF Body
<1>2. ASSUME i + 1 \in Body(p, BlockStarts(p), b) PROVE p.ops[i].kind \in Inside
  <2>1. i + 1 \in Ops(p) /\ i + 1 \notin BlockStarts(p)
    BY <1>1, <1>2 DEF Body
  <2> QED BY <1>1, <2>1, StartsTyped DEF Begins
<1>3. ASSUME i + 1 \notin BlockStarts(p), i + 1 # p.last
      PROVE  i + 1 \in Body(p, BlockStarts(p), b)
  <2>1. i + 1 \in Ops(p)
    BY <1>1, <1>3, Typed DEF Ops
  <2>2. \A c \in BlockStarts(p) : b < c => i + 1 < c
    BY <1>1, <1>3
  <2> QED BY <1>1, <2>1, <2>2 DEF Body
<1>4. ASSUME NEW k \in Body(p, BlockStarts(p), b), i < k
      PROVE  i + 1 \in Body(p, BlockStarts(p), b)
  <2>1. k \in Ops(p) /\ \A c \in BlockStarts(p) : b < c => k < c
    BY DEF Body
  <2>2. i + 1 \in Ops(p)
    BY <1>1, <1>4, <2>1, Typed DEF Ops
  <2>3. \A c \in BlockStarts(p) : b < c => i + 1 < c
    <3>1. k \in Nat
      BY <2>1, Typed
    <3> QED BY <1>1, <1>4, <2>1, <3>1
  <2> QED BY <1>1, <2>2, <2>3 DEF Body
<1> QED
  BY <1>2, <1>3, <1>4

(* The last opcode of a block, whose successors are the block's.           *)
End(p, b) == CHOOSE i \in Body(p, BlockStarts(p), b) : i + 1 \notin Body(p, BlockStarts(p), b)

LEMMA EndTyped ==
  ASSUME NEW p \in Programs, NEW b \in BlockStarts(p)
  PROVE  /\ End(p, b) \in Body(p, BlockStarts(p), b)
         /\ End(p, b) + 1 \notin Body(p, BlockStarts(p), b)
         /\ \A i \in Body(p, BlockStarts(p), b) :
              i # End(p, b) => i + 1 \in Body(p, BlockStarts(p), b)
<1> DEFINE B == Body(p, BlockStarts(p), b)
<1>1. b \in B /\ B \subseteq Nat /\ \A i \in B : i <= p.last
  BY StartsTyped, Typed DEF Body, Ops
<1>2. PICK m \in B : \A i \in B : i <= m
  <2> HIDE DEF B
  <2> QED BY <1>1, Typed, Greatest
<1>3. m + 1 \notin B
  BY <1>1, <1>2
<1>4. End(p, b) \in B /\ End(p, b) + 1 \notin B
  BY <1>2, <1>3 DEF End
<1>5. ASSUME NEW i \in B, i + 1 \notin B PROVE i = End(p, b)
  BY <1>1, <1>4, <1>5, BodyRuns
<1> QED
  BY <1>4, <1>5

LEMMA ElementsConcat ==
  ASSUME NEW S, NEW s \in Seq(S), NEW t \in Seq(S)
  PROVE  Elements(s \o t) = Elements(s) \union Elements(t)
<1>1. Len(s \o t) = Len(s) + Len(t) /\ Len(s) \in Nat /\ Len(t) \in Nat
  OBVIOUS
<1>2. \A i \in 1 .. Len(s) : (s \o t)[i] = s[i]
  OBVIOUS
<1>3. \A i \in 1 .. Len(t) : (s \o t)[Len(s) + i] = t[i]
  OBVIOUS
<1>4. \A i \in 1 .. Len(s \o t) :
        i \in 1 .. Len(s) \/ (i - Len(s) \in 1 .. Len(t) /\ Len(s) + (i - Len(s)) = i)
  BY <1>1
<1>5. Elements(s \o t) \subseteq Elements(s) \union Elements(t)
  BY <1>2, <1>3, <1>4 DEF Elements
<1>6. Elements(s) \subseteq Elements(s \o t)
  BY <1>1, <1>2 DEF Elements
<1>7. Elements(t) \subseteq Elements(s \o t)
  <2>1. \A i \in 1 .. Len(t) : Len(s) + i \in 1 .. Len(s \o t)
    BY <1>1
  <2> QED BY <1>3, <2>1 DEF Elements
<1> QED
  BY <1>5, <1>6, <1>7

LEMMA SuccessorsTyped ==
  ASSUME NEW p \in Programs, NEW b \in BlockStarts(p)
  PROVE  /\ SuccessorsOf(p, BlockStarts(p), b) \in Seq(BlockStarts(p))
         /\ Elements(SuccessorsOf(p, BlockStarts(p), b)) = Flows(p, End(p, b))
<1> DEFINE e  == End(p, b)
           op == p.ops[e]
           S  == SuccessorsOf(p, BlockStarts(p), b)
<1>1. e \in Ops(p) /\ e \in Nat
  BY EndTyped, Typed DEF Body
<1>2. op.to \in Seq(Ops(p))
  BY <1>1, Typed
<1>3. S = op.to \o (IF FallsThrough(op) THEN <<e + 1>> ELSE <<>>)
  BY DEF SuccessorsOf, End
<1>4. op.to \in Seq(BlockStarts(p))
  <2>1. CASE op.kind \in Inside
    <3>1. op.to = <<>>
      BY <1>1, <2>1, CfgAssumption
    <3> QED BY <3>1
  <2>2. CASE op.kind \notin Inside
    <3>1. Elements(op.to) \subseteq BlockStarts(p)
      BY <1>1, <2>2, StartsTyped DEF Begins
    <3> QED BY <1>2, <3>1 DEF Elements
  <2> QED BY <2>1, <2>2
<1>5. FallsThrough(op) => e + 1 \in BlockStarts(p)
  <2>1. e + 1 \in BlockStarts(p) \/ e + 1 = p.last
    BY EndTyped, BodyRuns
  <2>2. e + 1 = p.last => e = p.last - 1
    BY <1>1, Typed
  <2> QED BY <2>1, <2>2, Typed DEF FallsThrough
<1> DEFINE rest == IF FallsThrough(op) THEN <<e + 1>> ELSE <<>>
<1>6. rest \in Seq(BlockStarts(p))
  BY <1>5
<1>7. Elements(op.to \o rest) = Elements(op.to) \union Elements(rest)
  <2> HIDE DEF rest
  <2> QED BY <1>4, <1>6, ElementsConcat
<1>8. Elements(rest) = IF FallsThrough(op) THEN {e + 1} ELSE {}
  BY DEF Elements
<1>9. S = op.to \o rest
  BY <1>3
<1>10. op.to \o rest \in Seq(BlockStarts(p))
  <2> HIDE DEF rest
  <2> QED BY <1>4, <1>6
<1>11. Flows(p, e) = Elements(op.to) \union Elements(rest)
  BY <1>8 DEF Flows
<1> QED
  BY <1>7, <1>9, <1>10, <1>11

(* Control stays in a block or goes on to one of its successors.           *)
LEMMA FlowStays ==
  ASSUME NEW p \in Programs, NEW b \in BlockStarts(p), NEW i \in Body(p, BlockStarts(p), b)
  PROVE  \/ Flows(p, i) \subseteq Body(p, BlockStarts(p), b)
         \/ Flows(p, i) = Elements(SuccessorsOf(p, BlockStarts(p), b))
<1>1. i \in Ops(p)
  BY DEF Body
<1>2. CASE i = End(p, b)
  BY <1>2, SuccessorsTyped
<1>3. CASE i # End(p, b)
  <2>1. i + 1 \in Body(p, BlockStarts(p), b) /\ p.ops[i].kind \in Inside
    BY <1>3, EndTyped, BodyRuns
  <2>2. p.ops[i].to = <<>>
    BY <1>1, <2>1, CfgAssumption
  <2>3. Elements(p.ops[i].to) = {}
    BY <2>2 DEF Elements
  <2> QED BY <2>1, <2>3 DEF Flows
<1> QED
  BY <1>2, <1>3

(* A set that control cannot leave holds a block and its successors as     *)
(* soon as it holds the block's first opcode.                              *)
LEMMA BodyLive ==
  ASSUME NEW p \in Programs, NEW L \in SUBSET Ops(p), Closed(p, L),
         NEW b \in BlockStarts(p), b \in L
  PROVE  /\ Body(p, BlockStarts(p), b) \subseteq L
         /\ Elements(SuccessorsOf(p, BlockStarts(p), b)) \subseteq L
<1> DEFINE B == Body(p, BlockStarts(p), b)
           M == B \ L
<1>1. M = {}
  <2> SUFFICES ASSUME M # {} PROVE FALSE
    OBVIOUS
  <2>1. M \subseteq Nat
    BY Typed DEF Body
  <2>2. PICK m \in M : \A x \in M : m <= x
    <3> HIDE DEF M
    <3> QED BY <2>1, Least
  <2>3. /\ m \in Ops(p) /\ m \in Nat /\ b \in Nat /\ b < m
        /\ \A c \in BlockStarts(p) : b < c => m < c
    BY StartsTyped, Typed DEF Body
  <2>4. m - 1 \in Ops(p) /\ m - 1 \in Nat
    BY <2>3, Typed DEF Ops
  <2>5. m - 1 \in B
    <3>1. \A c \in BlockStarts(p) : c \in Nat
      BY StartsTyped, Typed
    <3> QED BY <2>3, <2>4, <3>1 DEF Body
  <2>6. m - 1 \in L
    BY <2>2, <2>3, <2>5
  <2>7. (m - 1) + 1 = m
    BY <2>3
  <2>8. p.ops[m - 1].kind \in Inside
    BY <2>5, <2>7, BodyRuns
  <2>9. m \in Flows(p, m - 1)
    BY <2>7, <2>8 DEF Flows, FallsThrough, Inside
  <2> QED BY <2>6, <2>9 DEF Closed
<1>2. Flows(p, End(p, b)) \subseteq L
  BY <1>1, EndTyped DEF Closed
<1> QED
  BY <1>1, <1>2, SuccessorsTyped

-----------------------------------------------------------------------------
(* The invariant.                                                          *)

Parts == {"try", "catch", "finally", "finally_end"}

Tries == 1 .. Len(opa.tries)

(* Types, and what the graph is once it is built.                          *)
Shape ==
  /\ opa \in Programs
  /\ phase \in {"build", "mark", "discover", "done"}
  /\ j \in 1 .. Len(opa.tries) + 1 /\ part \in Parts /\ changed \in BOOLEAN
  /\ part # "try" => j \in Tries
  /\ try_op \in [Tries -> Ops(opa)]
  /\ stack \in Seq([block : Ops(opa), i : Nat])
  /\ lines \subseteq {opa.ops[i].line : i \in Ops(opa)}

Graph ==
  IF phase = "build"
  THEN /\ starts = {} /\ successors = <<>> /\ reachable = {} /\ stack = <<>>
       /\ j = 1 /\ part = "try" /\ changed = FALSE
       /\ \A n \in Tries : try_op[n] = opa.tries[n].try
  ELSE /\ starts = BlockStarts(opa)
       /\ successors = [b \in BlockStarts(opa) |-> SuccessorsOf(opa, BlockStarts(opa), b)]
       /\ reachable \subseteq BlockStarts(opa) /\ 0 \in reachable

(* An invocation is of a marked block, of one at most, and at a successor. *)
Calls ==
  \A m \in 1 .. Len(stack) :
    /\ stack[m].block \in reachable
    /\ \/ stack[m].i \in 1 .. Len(successors[stack[m].block])
       \/ successors[stack[m].block] = <<>> /\ stack[m].i = 1
    /\ \A n \in 1 .. Len(stack) : stack[n].block = stack[m].block => n = m

(* An invocation for b has not got past its k-th successor.                *)
Pending(b, k) == \E m \in 1 .. Len(stack) : stack[m].block = b /\ stack[m].i <= k

(* What is not marked yet is still to come in some invocation.             *)
Closing ==
  \A b \in reachable : \A k \in 1 .. Len(successors[b]) :
    successors[b][k] \in reachable \/ Pending(b, k)

(* A try that was moved begins at a reachable block.                       *)
Moved ==
  phase # "build" =>
    \A n \in Tries :
      /\ try_op[n] \in BlockStarts(opa)
      /\ try_op[n] = opa.tries[n].try \/ try_op[n] \in reachable

(* The first half of the loop's body has nothing more to do for try n, and *)
(* the second nothing for its handler op.                                  *)
Entered(n) ==
  \/ try_op[n] \in reachable
  \/ \A i \in Guarded(opa.tries[n]) : Block(opa, i) \notin reachable

Handled(n, op) == try_op[n] \in reachable /\ op # 0 => op \in reachable

(* What a round that has changed nothing yet has found.                    *)
Round ==
  ~changed =>
    /\ j > 1 \/ part # "try" => stack = <<>>
    /\ \A n \in Tries :
         /\ n < j \/ (n = j /\ part # "try") => Entered(n)
         /\ n < j \/ (n = j /\ part \in {"finally", "finally_end"}) =>
              Handled(n, opa.tries[n].catch)
         /\ n < j \/ (n = j /\ part = "finally_end") => Handled(n, opa.tries[n].finally)
         /\ n < j => Handled(n, opa.tries[n].finally_end)

(* Marking is over when a whole round has changed nothing.                 *)
Marked == phase \in {"discover", "done"} => stack = <<>> /\ ~changed /\ j = Len(opa.tries) + 1

(* Nothing but live code is marked: every closed set holds it.             *)
Sound ==
  \A L \in SUBSET Ops(opa) : Closed(opa, L) =>
    /\ reachable \subseteq L
    /\ \A n \in Tries : try_op[n] \in Guarded(opa.tries[n]) \/ Handlers(opa.tries[n]) \subseteq L

(* The opcodes of the marked blocks, and what is reported of them.         *)
Covered == UNION {Body(opa, BlockStarts(opa), b) : b \in reachable}

Reported ==
  phase = "done" =>
    lines = {opa.ops[i].line : i \in {k \in Covered \ CallsOfNew(opa) :
                                        ~php_pcov_ignored_opcode(opa.ops[k])}}

IInv == Shape /\ Graph /\ Calls /\ Closing /\ Moved /\ Round /\ Marked /\ Sound /\ Reported

-----------------------------------------------------------------------------

(* The parts of a try are blocks, in the order the compiler puts them.     *)
LEMMA TryTyped ==
  ASSUME NEW p \in Programs, NEW n \in 1 .. Len(p.tries)
  PROVE  LET t == p.tries[n]
         IN  /\ t.try \in BlockStarts(p) /\ t.try \in Nat
             /\ t.catch \in BlockStarts(p) /\ t.catch \in Nat
             /\ t.finally \in BlockStarts(p) /\ t.finally \in Nat
             /\ t.finally_end \in BlockStarts(p) /\ t.finally_end \in Nat
             /\ t.catch # 0 => t.try < t.catch
             /\ t.finally # 0 => t.try < t.finally /\ t.catch <= t.finally
             /\ t.finally_end # 0 => t.finally # 0
             /\ \A i \in Guarded(t) : i \in Ops(p)
             /\ t.try \in Guarded(t) \/ Handlers(t) = {}
<1> DEFINE t == p.tries[n]
<1>1. t \in Elements(p.tries)
  BY DEF Elements
<1>2. /\ t.catch # 0 => t.try < t.catch
      /\ t.finally # 0 => t.try < t.finally /\ t.catch <= t.finally
      /\ t.finally_end # 0 => t.finally # 0
  BY <1>1, CfgAssumption
<1>3. /\ t.try \in Ops(p) /\ t.catch \in Ops(p) /\ t.finally \in Ops(p) /\ t.finally_end \in Ops(p)
      /\ t.try \in Nat /\ t.catch \in Nat /\ t.finally \in Nat /\ t.finally_end \in Nat
  BY Typed
<1>4. /\ t.try \in BlockStarts(p) /\ t.catch \in BlockStarts(p)
      /\ t.finally \in BlockStarts(p) /\ t.finally_end \in BlockStarts(p)
  BY StartsTyped DEF Handlers
<1>5. \A i \in Guarded(t) : i \in Ops(p)
  <2>1. t.try \in 0 .. p.last - 1 /\ t.catch \in 0 .. p.last - 1 /\ t.finally \in 0 .. p.last - 1
    BY <1>3 DEF Ops
  <2>2. p.last \in Nat
    BY Typed
  <2>3. \A a, z \in 0 .. p.last - 1 : \A i \in a .. z - 1 : i \in 0 .. p.last - 1
    BY <2>2
  <2> HIDE DEF t
  <2> QED BY <2>1, <2>3 DEF Guarded, Ops
<1>6. t.try \in Guarded(t) \/ Handlers(t) = {}
  BY <1>2, <1>3 DEF Guarded, Handlers
<1> QED
  BY <1>2, <1>3, <1>4, <1>5, <1>6

(* Once the graph is built.                                                *)
LEMMA BuiltBlocks ==
  ASSUME opa \in Programs, starts = BlockStarts(opa)
  PROVE  /\ \A i : BlockOf(i) = Block(opa, i)
         /\ \A b \in BlockStarts(opa) : BlockOf(b) = b
<1>1. \A i : BlockOf(i) = Block(opa, i)
  BY DEF BlockOf, Block
<1> QED
  BY <1>1, OwnBlock

(* The invariant holds initially, and every action keeps it.               *)
LEMMA InitInv ==
  ASSUME Init PROVE IInv
<1>1. opa \in Programs /\ Len(opa.tries) \in Nat
  BY Typed DEF Init
<1>2. Shape
  <2>1. try_op \in [Tries -> Ops(opa)]
    BY <1>1, Typed DEF Init, Tries
  <2>2. 1 \in 1 .. Len(opa.tries) + 1
    BY <1>1
  <2>3. <<>> \in Seq([block : Ops(opa), i : Nat])
    OBVIOUS
  <2> QED BY <1>1, <2>1, <2>2, <2>3 DEF Init, Shape, Parts
<1>3. Graph /\ Moved
  BY DEF Init, Graph, Moved, Tries
<1>4. Calls /\ Closing /\ Round /\ Marked /\ Reported
  BY <1>1 DEF Init, Calls, Closing, Round, Marked, Reported, Tries
<1>5. Sound
  BY <1>1, TryTyped DEF Init, Sound, Tries
<1> QED
  BY <1>2, <1>3, <1>4, <1>5 DEF IInv

LEMMA BuildKeeps ==
  ASSUME IInv, zend_build_cfg PROVE IInv'
<1> USE DEF IInv
<1>1. /\ phase = "build" /\ phase' = "mark" /\ opa \in Programs
      /\ UNCHANGED <<opa, try_op, j, part, changed, lines>>
      /\ starts' = BlockStarts(opa)
      /\ successors' = [b \in BlockStarts(opa) |-> SuccessorsOf(opa, BlockStarts(opa), b)]
      /\ reachable' = {0}
      /\ stack' = <<[block |-> 0, i |-> 1]>>
  BY DEF zend_build_cfg, Shape
<1>2. /\ 0 \in Ops(opa) /\ 0 \in BlockStarts(opa)
      /\ SuccessorsOf(opa, BlockStarts(opa), 0) \in Seq(BlockStarts(opa))
  BY <1>1, Typed, StartsTyped, SuccessorsTyped
<1>3. Len(stack') = 1 /\ stack'[1].block = 0 /\ stack'[1].i = 1
  BY <1>1
<1>4. Shape'
  BY <1>1, <1>2 DEF Shape, Tries
<1>5. Graph'
  BY <1>1, <1>2 DEF Graph
<1>6. Len(successors'[0]) \in Nat /\ (Len(successors'[0]) = 0 => successors'[0] = <<>>)
  BY <1>1, <1>2
<1>7. Calls'
  BY <1>1, <1>3, <1>6 DEF Calls
<1>8. Closing'
  BY <1>1, <1>3, <1>6 DEF Closing, Pending
<1>9. Moved'
  BY <1>1, TryTyped DEF Graph, Moved, Tries
<1>10. Round' /\ Marked' /\ Reported'
  BY <1>1 DEF Graph, Round, Marked, Reported, Tries
<1>11. Sound'
  BY <1>1 DEF Sound, Closed, Tries
<1> QED
  BY <1>4, <1>5, <1>7, <1>8, <1>9, <1>10, <1>11

(* A stack without its top.                                                *)
LEMMA Front ==
  ASSUME NEW S, NEW s \in Seq(S), s # <<>>
  PROVE  /\ Len(s) \in Nat \ {0} /\ s[Len(s)] \in S
         /\ SubSeq(s, 1, Len(s) - 1) \in Seq(S)
         /\ Len(SubSeq(s, 1, Len(s) - 1)) = Len(s) - 1
         /\ \A m \in 1 .. Len(s) - 1 : SubSeq(s, 1, Len(s) - 1)[m] = s[m]
<1>1. Len(s) \in Nat \ {0}
  OBVIOUS
<1>2. s[Len(s)] \in S
  BY <1>1
<1>3. \A m \in 1 .. Len(s) - 1 : s[m] \in S
  BY <1>1
<1>4. SubSeq(s, 1, Len(s) - 1) = [m \in 1 .. Len(s) - 1 |-> s[m]]
  BY <1>1
<1>5. SubSeq(s, 1, Len(s) - 1) \in Seq(S) /\ Len(SubSeq(s, 1, Len(s) - 1)) = Len(s) - 1
  <2> DEFINE k == Len(s) - 1
  <2>1. k \in Nat
    BY <1>1
  <2>2. [m \in 1 .. k |-> s[m]] \in Seq(S) /\ Len([m \in 1 .. k |-> s[m]]) = k
    <3> HIDE DEF k
    <3>1. k = Len(s) - 1
      BY DEF k
    <3> QED BY <1>3, <2>1, <3>1
  <2> QED BY <1>4, <2>2
<1> QED
  BY <1>1, <1>2, <1>4, <1>5

LEMMA MarkKeeps ==
  ASSUME IInv, zend_mark_reachable PROVE IInv'
<1> USE DEF IInv
<1> DEFINE N     == Len(stack)
           top   == stack[N]
           rest  == SubSeq(stack, 1, N - 1)
           succs == successors[top.block]
           succ  == succs[top.i]
           back  == IF top.i = Len(succs) THEN rest
                                          ELSE Append(rest, [top EXCEPT !.i = @ + 1])
           Call  == [block : Ops(opa), i : Nat]
<1>1. /\ phase = "mark" /\ stack # <<>> /\ opa \in Programs
      /\ UNCHANGED <<opa, phase, starts, successors, try_op, j, part, changed, lines>>
      /\ starts = BlockStarts(opa)
      /\ successors = [b \in BlockStarts(opa) |-> SuccessorsOf(opa, BlockStarts(opa), b)]
      /\ reachable \subseteq BlockStarts(opa) /\ 0 \in reachable
      /\ stack \in Seq(Call)
  BY DEF zend_mark_reachable, Shape, Graph
<1>2. /\ N \in Nat \ {0} /\ top \in Call
      /\ rest \in Seq(Call) /\ Len(rest) = N - 1
      /\ \A m \in 1 .. N - 1 : rest[m] = stack[m]
  <2> HIDE DEF Call
  <2> QED BY <1>1, Front
<1>3. /\ top.block \in reachable /\ top.i \in Nat
      /\ top.i \in 1 .. Len(succs) \/ succs = <<>>
  BY <1>2 DEF Calls
<1>4. succs \in Seq(BlockStarts(opa)) /\ Len(succs) \in Nat
      /\ Elements(succs) = Elements(SuccessorsOf(opa, BlockStarts(opa), top.block))
  BY <1>1, <1>3, SuccessorsTyped
<1>5. CASE succs = <<>>
  <2>1. stack' = rest /\ reachable' = reachable
    BY <1>1, <1>5 DEF zend_mark_reachable
  <2>2. Shape'
    BY <1>1, <1>2, <2>1 DEF Shape, Tries
  <2>3. Calls'
    <3>1. Len(stack') = N - 1 /\ \A m \in 1 .. N - 1 : stack'[m] = stack[m]
      BY <1>2, <2>1
    <3>2. \A m \in 1 .. N - 1 : m \in 1 .. N
      BY <1>2
    <3> QED BY <1>1, <2>1, <3>1, <3>2 DEF Calls
  <2>4. Closing'
    <3>1. ASSUME NEW b \in reachable, NEW k \in 1 .. Len(successors[b]), Pending(b, k)
          PROVE  Pending(b, k)'
      <4>1. PICK m \in 1 .. N : stack[m].block = b /\ stack[m].i <= k
        BY <3>1 DEF Pending
      <4>2. m # N
        BY <1>5, <3>1, <4>1
      <4> QED BY <1>2, <2>1, <4>1, <4>2 DEF Pending
    <3> QED BY <1>1, <2>1, <3>1 DEF Closing
  <2>5. Round'
    BY <1>1, <2>1 DEF Round, Entered, Handled, Tries
  <2>6. Graph' /\ Moved' /\ Marked' /\ Sound' /\ Reported'
    BY <1>1, <2>1 DEF Graph, Moved, Marked, Sound, Reported, Tries
  <2> QED BY <2>2, <2>3, <2>4, <2>5, <2>6
<1>6. CASE succs # <<>>
  <2>1. top.i \in 1 .. Len(succs) /\ succ \in BlockStarts(opa) /\ succ \in Elements(succs)
    BY <1>3, <1>4, <1>6 DEF Elements
  <2>2. /\ back \in Seq(Call)
        /\ Len(back) = IF top.i = Len(succs) THEN N - 1 ELSE N
        /\ \A m \in 1 .. N - 1 : back[m] = stack[m]
        /\ top.i # Len(succs) => back[N].block = top.block /\ back[N].i = top.i + 1
    <3>1. [top EXCEPT !.i = @ + 1] \in Call
      BY <1>2
    <3> DEFINE next == [top EXCEPT !.i = @ + 1]
    <3>2. next.block = top.block /\ next.i = top.i + 1
      BY <1>2
    <3>3. back = IF top.i = Len(succs) THEN rest ELSE Append(rest, next)
      OBVIOUS
    <3> HIDE DEF Call, next, rest, succs, top, N, back
    <3>4. CASE top.i = Len(succs)
      BY <1>2, <3>3, <3>4
    <3>5. CASE top.i # Len(succs)
      BY <1>2, <3>1, <3>2, <3>3, <3>5 DEF next
    <3> QED BY <3>4, <3>5
  <2>3. \A m \in 1 .. Len(back) :
          /\ m \in 1 .. N /\ back[m].block = stack[m].block
          /\ back[m].i \in 1 .. Len(successors[back[m].block])
             \/ (successors[back[m].block] = <<>> /\ back[m].i = 1)
    <3>1. \A m \in 1 .. Len(back) : m \in 1 .. N - 1 \/ (m = N /\ top.i # Len(succs))
      BY <1>2, <2>2
    <3>2. ASSUME NEW m \in 1 .. N - 1
          PROVE  /\ m \in 1 .. N /\ back[m].block = stack[m].block
                 /\ back[m].i \in 1 .. Len(successors[back[m].block])
                    \/ (successors[back[m].block] = <<>> /\ back[m].i = 1)
      <4>1. m \in 1 .. N /\ back[m] = stack[m]
        BY <1>2, <2>2
      <4> QED BY <4>1 DEF Calls
    <3>3. top.i # Len(succs) => top.i + 1 \in 1 .. Len(succs)
      BY <1>4, <2>1
    <3> HIDE DEF back
    <3> QED BY <1>2, <2>2, <3>1, <3>2, <3>3
  <2>4. ASSUME NEW b \in reachable, NEW k \in 1 .. Len(successors[b]), Pending(b, k)
        PROVE  \/ \E m \in 1 .. Len(back) : back[m].block = b /\ back[m].i <= k
               \/ successors[b][k] = succ
    <3>1. PICK m \in 1 .. N : stack[m].block = b /\ stack[m].i <= k
      BY <2>4 DEF Pending
    <3>2. CASE m \in 1 .. N - 1
      <4>1. m \in 1 .. Len(back) /\ back[m] = stack[m]
        BY <1>2, <2>2, <3>2
      <4> QED BY <3>1, <4>1
    <3>3. CASE m = N /\ k # top.i
      <4>1. top.i # Len(succs) /\ top.i + 1 <= k
        BY <1>3, <1>4, <2>1, <3>1, <3>3
      <4>2. N \in 1 .. Len(back) /\ back[N].block = b /\ back[N].i <= k
        BY <1>2, <2>2, <3>1, <3>3, <4>1
      <4> QED BY <4>2
    <3>4. CASE m = N /\ k = top.i
      BY <3>1, <3>4
    <3> QED BY <1>2, <3>2, <3>3, <3>4, SMTT(20)
  <2>5. \A L \in SUBSET Ops(opa) : Closed(opa, L) => succ \in L
    BY <1>1, <1>3, <1>4, <2>1, BodyLive DEF Sound
  <2>6. Round'
    <3>1. changed \/ (j = 1 /\ part = "try")
      BY <1>1 DEF Round, Shape
    <3> QED BY <1>1, <3>1 DEF Round, Shape, Tries
  <2>7. Marked' /\ Reported'
    BY <1>1 DEF Marked, Reported
  <2>8. CASE succ \in reachable
    <3>1. stack' = back /\ reachable' = reachable
      BY <1>1, <1>6, <2>8 DEF zend_mark_reachable
    <3> HIDE DEF back
    <3>2. Shape'
      BY <1>1, <2>2, <3>1 DEF Shape, Tries
    <3>3. Calls'
      BY <1>1, <2>3, <3>1 DEF Calls
    <3>4. Closing'
      <4> SUFFICES ASSUME NEW b \in reachable, NEW k \in 1 .. Len(successors[b])
                   PROVE  successors[b][k] \in reachable \/ Pending(b, k)'
        BY <1>1, <3>1 DEF Closing
      <4>1. CASE successors[b][k] \in reachable
        BY <4>1
      <4>2. CASE successors[b][k] \notin reachable
        <5>1. Pending(b, k)
          BY <4>2 DEF Closing
        <5>2. \E m \in 1 .. Len(back) : back[m].block = b /\ back[m].i <= k
          BY <2>4, <2>8, <4>2, <5>1
        <5> QED BY <3>1, <5>2 DEF Pending
      <4> QED BY <4>1, <4>2
    <3>5. Graph' /\ Moved' /\ Sound'
      BY <1>1, <3>1 DEF Graph, Moved, Sound, Tries
    <3> QED BY <2>6, <2>7, <3>2, <3>3, <3>4, <3>5
  <2>9. CASE succ \notin reachable
    <3> DEFINE new == [block |-> succ, i |-> 1]
    <3>1. stack' = Append(back, new) /\ reachable' = reachable \union {succ}
      BY <1>1, <1>6, <2>9 DEF zend_mark_reachable
    <3>2. new \in Call /\ new.block = succ /\ new.i = 1
      BY <1>1, <2>1, StartsTyped
    <3>3. /\ stack' \in Seq(Call) /\ Len(stack') = Len(back) + 1 /\ Len(back) \in Nat
          /\ \A m \in 1 .. Len(back) : stack'[m] = back[m]
          /\ stack'[Len(back) + 1] = new
      <4> HIDE DEF back, new, Call
      <4> QED BY <2>2, <3>1, <3>2
    <3> HIDE DEF back, new
    <3>4. Shape'
      BY <1>1, <3>3 DEF Shape, Tries
    <3>5. Len(successors[succ]) \in Nat /\ (Len(successors[succ]) = 0 => successors[succ] = <<>>)
      BY <1>1, <2>1, SuccessorsTyped
    <3>6. \A m \in 1 .. Len(back) : back[m].block \in reachable
      BY <2>3 DEF Calls
    <3>7. \A m \in 1 .. Len(stack') : m \in 1 .. Len(back) \/ m = Len(back) + 1
      BY <3>3
    <3>8. Calls'
      <4> SUFFICES ASSUME NEW m \in 1 .. Len(stack')
                   PROVE  /\ stack'[m].block \in reachable'
                          /\ \/ stack'[m].i \in 1 .. Len(successors[stack'[m].block])
                             \/ successors[stack'[m].block] = <<>> /\ stack'[m].i = 1
                          /\ \A n \in 1 .. Len(stack') : stack'[n].block = stack'[m].block => n = m
        BY <1>1 DEF Calls
      <4>1. CASE m \in 1 .. Len(back)
        <5>1. stack'[m].block # succ
          BY <2>9, <3>3, <3>6, <4>1
        <5>2. \A n \in 1 .. Len(stack') : stack'[n].block = stack'[m].block => n = m
          <6> SUFFICES ASSUME NEW n \in 1 .. Len(stack'), stack'[n].block = stack'[m].block
                       PROVE  n = m
            OBVIOUS
          <6>1. n # Len(back) + 1
            BY <3>2, <3>3, <5>1
          <6>2. n \in 1 .. Len(back)
            BY <3>7, <6>1
          <6>3. n \in 1 .. N /\ m \in 1 .. N /\ stack[n].block = stack[m].block
            BY <2>3, <3>3, <4>1, <6>2
          <6> QED BY <6>3 DEF Calls
        <5> QED BY <2>3, <3>1, <3>3, <3>6, <4>1, <5>2
      <4>2. CASE m = Len(back) + 1
        <5>1. \A n \in 1 .. Len(stack') : stack'[n].block = succ => n = m
          BY <2>9, <3>3, <3>6, <3>7, <4>2
        <5> QED BY <3>1, <3>2, <3>3, <3>5, <4>2, <5>1
      <4> QED BY <3>7, <4>1, <4>2
    <3>9. Closing'
      <4> SUFFICES ASSUME NEW b \in reachable', NEW k \in 1 .. Len(successors[b])
                   PROVE  successors[b][k] \in reachable' \/ Pending(b, k)'
        BY <1>1 DEF Closing
      <4>1. CASE b = succ
        <5>1. Len(back) + 1 \in 1 .. Len(stack')
          BY <3>3
        <5> QED BY <3>2, <3>3, <4>1, <5>1 DEF Pending
      <4>2. CASE b \in reachable /\ Pending(b, k)
        <5>1. CASE successors[b][k] = succ
          BY <3>1, <5>1
        <5>2. CASE \E m \in 1 .. Len(back) : back[m].block = b /\ back[m].i <= k
          <6>1. PICK m \in 1 .. Len(back) : back[m].block = b /\ back[m].i <= k
            BY <5>2
          <6>2. m \in 1 .. Len(stack') /\ stack'[m] = back[m]
            BY <3>3
          <6> QED BY <6>1, <6>2 DEF Pending
        <5> QED BY <2>4, <4>2, <5>1, <5>2
      <4>3. CASE b \in reachable /\ ~Pending(b, k)
        BY <3>1, <4>3 DEF Closing
      <4> QED BY <3>1, <4>1, <4>2, <4>3
    <3>10. Graph' /\ Moved'
      BY <1>1, <2>1, <3>1 DEF Graph, Moved, Tries
    <3>11. Sound'
      BY <1>1, <2>5, <3>1 DEF Sound, Tries
    <3> QED BY <2>6, <2>7, <3>4, <3>8, <3>9, <3>10, <3>11
  <2> QED BY <2>8, <2>9
<1> QED
  BY <1>5, <1>6

(* A marking that starts at h when no invocation is left.                  *)
LEMMA MarkStarts ==
  ASSUME IInv, phase = "mark", stack = <<>>, NEW h \in BlockStarts(opa),
         stack' = <<[block |-> h, i |-> 1]>>, reachable' = reachable \union {h},
         UNCHANGED <<opa, starts, successors>>
  PROVE  /\ stack' \in Seq([block : Ops(opa), i : Nat])
         /\ reachable' \subseteq BlockStarts(opa)
         /\ Calls' /\ Closing'
<1> USE DEF IInv
<1>1. /\ opa \in Programs /\ reachable \subseteq BlockStarts(opa)
      /\ successors = [b \in BlockStarts(opa) |-> SuccessorsOf(opa, BlockStarts(opa), b)]
  BY DEF Shape, Graph
<1>2. h \in Ops(opa)
  BY <1>1, StartsTyped
<1>3. Len(stack') = 1 /\ stack'[1].block = h /\ stack'[1].i = 1
  OBVIOUS
<1>4. Len(successors[h]) \in Nat /\ (Len(successors[h]) = 0 => successors[h] = <<>>)
  BY <1>1, SuccessorsTyped
<1>5. Calls'
  BY <1>3, <1>4 DEF Calls
<1>6. Closing'
  <2> SUFFICES ASSUME NEW b \in reachable \union {h}, NEW k \in 1 .. Len(successors[b])
               PROVE  successors[b][k] \in reachable' \/ Pending(b, k)'
    BY DEF Closing
  <2>1. CASE b = h
    BY <1>3, <1>4, <2>1 DEF Pending
  <2>2. CASE b # h
    <3>1. b \in reachable /\ ~Pending(b, k)
      BY <2>2 DEF Pending
    <3> QED BY <3>1 DEF Closing
  <2> QED BY <2>1, <2>2
<1> QED
  BY <1>1, <1>2, <1>5, <1>6

(* ReachedBetween of two starts.                                           *)
LEMMA Between ==
  ASSUME IInv, phase = "mark", NEW a \in BlockStarts(opa), NEW z \in BlockStarts(opa)
  PROVE  ReachedBetween(a, z) = {b \in reachable : a <= b /\ b < z}
<1>1. BlockOf(a) = a /\ BlockOf(z) = z
  BY BuiltBlocks DEF IInv, Shape, Graph
<1> QED
  BY <1>1 DEF ReachedBetween

(* A try is moved to a reachable opcode that it guards, or stays; when it  *)
(* stays and is not reachable, nothing in front of its catch is.           *)
LEMMA TryMovedTyped ==
  ASSUME IInv, phase = "mark", NEW n \in Tries
  PROVE  LET t == opa.tries[n]
             f == TryMoved(t, try_op[n])
         IN  /\ f \in BlockStarts(opa)
             /\ \/ f = try_op[n]
                \/ f \in reachable /\ f \in Guarded(t)
             /\ f \notin reachable =>
                  /\ f = try_op[n] /\ f = t.try
                  /\ t.catch # 0 => ReachedBetween(t.try, t.catch) = {}
<1> USE DEF IInv
<1> DEFINE t == opa.tries[n]
           from == try_op[n]
           f == TryMoved(t, from)
           reached == ReachedBetween(from, t.catch)
<1>1. /\ opa \in Programs /\ from \in BlockStarts(opa) /\ (from = t.try \/ from \in reachable)
      /\ reachable \subseteq BlockStarts(opa) /\ BlockOf(from) = from
  BY BuiltBlocks DEF Shape, Graph, Moved
<1>2. /\ t.catch \in BlockStarts(opa) /\ t.catch \in Nat /\ t.try \in Nat /\ t.finally \in Nat
      /\ t.finally # 0 => t.catch <= t.finally
  BY <1>1, TryTyped DEF Tries
<1>3. reached = {b \in reachable : from <= b /\ b < t.catch}
  BY <1>1, <1>2, Between
<1>4. f = IF from \notin reachable /\ t.catch # 0 /\ reached # {}
          THEN CHOOSE b \in reached : \A c \in reached : b <= c
          ELSE from
  BY <1>1 DEF TryMoved
<1>5. CASE from \notin reachable /\ t.catch # 0 /\ reached # {}
  <2>1. reached \subseteq Nat
    BY <1>1, <1>3, StartsTyped, Typed
  <2>2. \E b \in reached : \A c \in reached : b <= c
    <3> HIDE DEF reached
    <3> QED BY <1>5, <2>1, Least
  <2>3. f \in reached
    <3> HIDE DEF reached, f
    <3> QED BY <1>4, <1>5, <2>2
  <2>4. f \in Nat /\ from <= f /\ f < t.catch /\ f \in reachable /\ from = t.try
    BY <1>1, <1>3, <1>5, <2>1, <2>3
  <2>5. f \in Guarded(t)
    <3> HIDE DEF f, t
    <3> QED BY <1>2, <2>4 DEF Guarded
  <2> QED BY <1>1, <2>4, <2>5
<1>6. CASE ~(from \notin reachable /\ t.catch # 0 /\ reached # {})
  <2>1. f = from
    BY <1>4, <1>6
  <2>2. ASSUME f \notin reachable
        PROVE  f = from /\ f = t.try /\ (t.catch # 0 => ReachedBetween(t.try, t.catch) = {})
    <3>1. from = t.try
      BY <1>1, <2>1, <2>2
    <3>2. t.catch # 0 => reached = {}
      BY <1>6, <2>1, <2>2
    <3> QED BY <2>1, <3>1, <3>2
  <2> QED BY <1>1, <2>1, <2>2
<1> QED
  BY <1>5, <1>6

LEMMA EnterKeeps ==
  ASSUME IInv, EnterTry PROVE IInv'
<1> USE DEF IInv
<1> DEFINE t    == opa.tries[j]
           from == TryMoved(t, try_op[j])
           Jumped == /\ BlockOf(from) \notin reachable /\ t.finally # 0
                     /\ ReachedBetween(from, t.finally) # {}
<1>1. /\ phase = "mark" /\ stack = <<>> /\ opa \in Programs /\ j \in Tries
      /\ part = "try" /\ part' = "catch"
      /\ UNCHANGED <<opa, phase, starts, successors, j, lines>>
      /\ starts = BlockStarts(opa)
      /\ successors = [b \in BlockStarts(opa) |-> SuccessorsOf(opa, BlockStarts(opa), b)]
      /\ reachable \subseteq BlockStarts(opa) /\ 0 \in reachable
      /\ try_op \in [Tries -> Ops(opa)]
      /\ Len(opa.tries) \in Nat
  BY Typed DEF EnterTry, Shape, Graph, Tries
<1>2. /\ t.try \in BlockStarts(opa) /\ t.try \in Nat
      /\ t.catch \in BlockStarts(opa) /\ t.catch \in Nat
      /\ t.finally \in BlockStarts(opa) /\ t.finally \in Nat
      /\ \A i \in Guarded(t) : i \in Ops(opa)
  BY <1>1, TryTyped DEF Tries
<1>3. /\ from \in BlockStarts(opa)
      /\ from = try_op[j] \/ (from \in reachable /\ from \in Guarded(t))
      /\ from \notin reachable =>
           /\ from = try_op[j] /\ from = t.try
           /\ t.catch # 0 => ReachedBetween(t.try, t.catch) = {}
  BY <1>1, TryMovedTyped
<1>4. BlockOf(from) = from /\ BlockOf(t.catch) = t.catch
  BY <1>1, <1>2, <1>3, BuiltBlocks
<1>5. BlockStarts(opa) \subseteq Ops(opa) /\ Ops(opa) \subseteq Nat
  BY <1>1, StartsTyped, Typed
<1>6. CASE Jumped
  <2>1. /\ try_op' = [try_op EXCEPT ![j] = t.catch] /\ changed' = TRUE
        /\ stack' = <<[block |-> t.catch, i |-> 1]>>
        /\ reachable' = reachable \union {t.catch}
    BY <1>4, <1>6 DEF EnterTry, Mark
  <2>2. /\ stack' \in Seq([block : Ops(opa), i : Nat])
        /\ reachable' \subseteq BlockStarts(opa)
        /\ Calls' /\ Closing'
    BY <1>1, <1>2, <2>1, MarkStarts
  <2>3. from = t.try
    BY <1>3, <1>4, <1>6
  <2>4. PICK b \in reachable : t.try <= b /\ b < t.finally
    BY <1>1, <1>2, <1>6, <2>3, Between
  <2>5. b \in Guarded(t)
    BY <1>1, <1>2, <1>5, <1>6, <2>4 DEF Guarded
  <2>6. Shape'
    BY <1>1, <1>2, <1>5, <2>1, <2>2 DEF Shape, Tries, Parts
  <2>7. Graph' /\ Moved'
    BY <1>1, <1>2, <2>1, <2>2 DEF Graph, Moved, Tries
  <2>8. Round' /\ Marked' /\ Reported'
    BY <1>1, <2>1 DEF Round, Marked, Reported
  <2>9. Sound'
    <3> SUFFICES ASSUME NEW L \in SUBSET Ops(opa), Closed(opa, L)
                 PROVE  /\ reachable' \subseteq L
                        /\ \A n \in Tries : try_op'[n] \in Guarded(opa.tries[n])
                                            \/ Handlers(opa.tries[n]) \subseteq L
      BY <1>1 DEF Sound, Tries
    <3>1. /\ reachable \subseteq L
          /\ \A n \in Tries : try_op[n] \in Guarded(opa.tries[n])
                              \/ Handlers(opa.tries[n]) \subseteq L
      BY DEF Sound
    <3>2. Handlers(t) \subseteq L
      BY <1>1, <2>4, <2>5, <3>1 DEF Closed, Elements, Tries
    <3>3. t.catch \in L
      BY <3>2 DEF Closed, Handlers
    <3> QED BY <1>1, <2>1, <3>1, <3>2, <3>3
  <2> QED BY <2>2, <2>6, <2>7, <2>8, <2>9
<1>7. CASE ~Jumped
  <2>1. /\ try_op' = [try_op EXCEPT ![j] = from]
        /\ UNCHANGED <<changed, stack, reachable>>
    BY <1>7 DEF EnterTry
  <2>2. Shape'
    BY <1>1, <1>3, <1>5, <2>1 DEF Shape, Tries, Parts
  <2>3. Graph' /\ Calls' /\ Marked' /\ Reported'
    BY <1>1, <2>1 DEF Graph, Calls, Marked, Reported
  <2>4. Closing'
    BY <1>1, <2>1 DEF Closing, Pending
  <2>5. Moved'
    BY <1>1, <1>3, <2>1 DEF Moved, Tries
  <2>6. from \in reachable \/ \A i \in Guarded(t) : Block(opa, i) \notin reachable
    <3> SUFFICES ASSUME from \notin reachable, NEW i \in Guarded(t), Block(opa, i) \in reachable
                 PROVE  FALSE
      OBVIOUS
    <3>1. from = t.try /\ (t.catch # 0 => ReachedBetween(t.try, t.catch) = {})
      BY <1>3
    <3>2. t.finally # 0 => ReachedBetween(t.try, t.finally) = {}
      BY <1>4, <1>7, <3>1
    <3>3. i \in Ops(opa) /\ i \in Nat /\ t.try <= i
      BY <1>2, <1>5 DEF Guarded
    <3>4. t.try <= Block(opa, i) /\ Block(opa, i) <= i /\ Block(opa, i) \in Nat
      BY <1>1, <1>2, <1>5, <3>3, BlockTyped
    <3>5. CASE t.finally # 0
      <4>1. i < t.finally
        BY <1>2, <3>3, <3>5 DEF Guarded
      <4>2. Block(opa, i) \in ReachedBetween(t.try, t.finally)
        BY <1>1, <1>2, <3>3, <3>4, <4>1, Between
      <4> QED BY <3>2, <3>5, <4>2
    <3>6. CASE t.finally = 0
      <4>1. i < t.catch /\ t.catch # 0
        BY <1>2, <3>3, <3>6 DEF Guarded
      <4>2. Block(opa, i) \in ReachedBetween(t.try, t.catch)
        BY <1>1, <1>2, <3>3, <3>4, <4>1, Between
      <4> QED BY <3>1, <4>1, <4>2
    <3> QED BY <3>5, <3>6
  <2>7. Round'
    <3> SUFFICES ASSUME ~changed
                 PROVE  \A n \in Tries :
                          /\ n <= j => Entered(n)'
                          /\ n < j => /\ Handled(n, opa.tries[n].catch)'
                                      /\ Handled(n, opa.tries[n].finally)'
                                      /\ Handled(n, opa.tries[n].finally_end)'
      BY <1>1, <2>1 DEF Round, Tries
    <3> TAKE n \in Tries
    <3>1. CASE n = j
      <4>1. Entered(n)'
        BY <1>1, <2>1, <2>6, <3>1 DEF Entered
      <4> QED BY <1>1, <3>1, <4>1 DEF Tries
    <3>2. CASE n # j
      <4>1. try_op'[n] = try_op[n]
        BY <1>1, <2>1, <3>2
      <4>2. n < j => /\ Entered(n) /\ Handled(n, opa.tries[n].catch)
                     /\ Handled(n, opa.tries[n].finally) /\ Handled(n, opa.tries[n].finally_end)
        BY DEF Round
      <4> QED BY <1>1, <2>1, <3>2, <4>1, <4>2 DEF Entered, Handled, Tries
    <3> QED BY <3>1, <3>2
  <2>8. Sound'
    BY <1>1, <1>3, <2>1 DEF Sound, Tries
  <2> QED BY <2>2, <2>3, <2>4, <2>5, <2>7, <2>8
<1> QED
  BY <1>6, <1>7

LEMMA HandlerKeeps ==
  ASSUME IInv, MarkHandler PROVE IInv'
<1> USE DEF IInv
<1> DEFINE t  == opa.tries[j]
           op == t[part]
<1>1. /\ phase = "mark" /\ stack = <<>> /\ opa \in Programs /\ j \in Tries
      /\ part \in {"catch", "finally", "finally_end"}
      /\ UNCHANGED <<opa, phase, starts, successors, try_op, lines>>
      /\ starts = BlockStarts(opa)
      /\ successors = [b \in BlockStarts(opa) |-> SuccessorsOf(opa, BlockStarts(opa), b)]
      /\ reachable \subseteq BlockStarts(opa) /\ 0 \in reachable
      /\ Len(opa.tries) \in Nat
  BY Typed DEF MarkHandler, Shape, Graph, Tries, Parts
<1>2. /\ part = "catch" => part' = "finally" /\ j' = j
      /\ part = "finally" => part' = "finally_end" /\ j' = j
      /\ part = "finally_end" => part' = "try" /\ j' = j + 1
  BY DEF MarkHandler
<1>3. /\ part = "catch" => op = t.catch
      /\ part = "finally" => op = t.finally
      /\ part = "finally_end" => op = t.finally_end
  OBVIOUS
<1>4. op \in BlockStarts(opa) /\ (op # 0 => op \in Handlers(t))
  BY <1>1, <1>3, TryTyped DEF Tries, Handlers
<1>5. BlockOf(op) = op /\ BlockOf(try_op[j]) = try_op[j]
  BY <1>1, <1>4, BuiltBlocks DEF Moved
<1>6. /\ j' \in 1 .. Len(opa.tries) + 1 /\ part' \in Parts
      /\ part' # "try" => j' \in Tries
  BY <1>1, <1>2 DEF Tries, Parts
<1>7. Moved' /\ Marked' /\ Reported'
  <2>1. reachable \subseteq reachable'
    BY DEF MarkHandler, Mark
  <2> QED BY <1>1, <2>1 DEF Moved, Marked, Reported, Tries
<1>8. CASE Marks(t, op)
  <2>1. /\ changed' = TRUE
        /\ stack' = <<[block |-> op, i |-> 1]>> /\ reachable' = reachable \union {op}
    BY <1>5, <1>8 DEF MarkHandler, Mark
  <2>2. /\ stack' \in Seq([block : Ops(opa), i : Nat])
        /\ reachable' \subseteq BlockStarts(opa)
        /\ Calls' /\ Closing'
    <3> HIDE DEF op
    <3> QED BY <1>1, <1>4, <2>1, MarkStarts
  <2>3. Shape' /\ Graph'
    BY <1>1, <1>6, <2>1, <2>2 DEF Shape, Graph, Tries
  <2>4. Round'
    BY <2>1 DEF Round
  <2>5. Sound'
    <3> SUFFICES ASSUME NEW L \in SUBSET Ops(opa), Closed(opa, L) PROVE op \in L
      BY <1>1, <2>1 DEF Sound, Tries
    <3>1. try_op[j] \in L /\ op # 0
      BY <1>5, <1>8 DEF Sound, Marks
    <3>2. t \in Elements(opa.tries)
      BY <1>1 DEF Elements, Tries
    <3>3. Handlers(t) \subseteq L
      BY <1>1, <3>1, <3>2 DEF Sound, Closed
    <3> QED BY <1>4, <3>1, <3>3
  <2> QED BY <1>7, <2>2, <2>3, <2>4, <2>5
<1>9. CASE ~Marks(t, op)
  <2>1. UNCHANGED <<changed, stack, reachable>>
    BY <1>9 DEF MarkHandler
  <2>2. Handled(j, op)
    BY <1>5, <1>9 DEF Handled, Marks
  <2>3. Shape' /\ Graph' /\ Calls'
    BY <1>1, <1>6, <2>1 DEF Shape, Graph, Calls, Tries
  <2>4. Closing' /\ Sound'
    BY <1>1, <2>1 DEF Closing, Pending, Sound, Tries
  <2>5. ASSUME ~changed, NEW n \in Tries
        PROVE  /\ n <= j => Entered(n)
               /\ n < j => /\ Handled(n, opa.tries[n].catch)
                           /\ Handled(n, opa.tries[n].finally)
                           /\ Handled(n, opa.tries[n].finally_end)
               /\ n = j /\ part \in {"finally", "finally_end"} => Handled(n, opa.tries[n].catch)
               /\ n = j /\ part = "finally_end" => Handled(n, opa.tries[n].finally)
    BY <1>1, <2>5 DEF Round, Tries
  <2>6. \A n \in Tries : \A h : (Entered(n)' <=> Entered(n)) /\ (Handled(n, h)' <=> Handled(n, h))
    BY <1>1, <2>1 DEF Entered, Handled
  <2>7. Round'
    <3> SUFFICES ASSUME ~changed, NEW n \in Tries
                 PROVE  /\ n < j' \/ (n = j' /\ part' # "try") => Entered(n)
                        /\ n < j' \/ (n = j' /\ part' \in {"finally", "finally_end"}) =>
                             Handled(n, opa.tries[n].catch)
                        /\ n < j' \/ (n = j' /\ part' = "finally_end") =>
                             Handled(n, opa.tries[n].finally)
                        /\ n < j' => Handled(n, opa.tries[n].finally_end)
      BY <1>1, <2>1, <2>6 DEF Round, Tries
    <3>1. CASE part = "catch"
      BY <1>1, <1>2, <1>3, <2>2, <2>5, <3>1 DEF Tries
    <3>2. CASE part = "finally"
      BY <1>1, <1>2, <1>3, <2>2, <2>5, <3>2 DEF Tries
    <3>3. CASE part = "finally_end"
      BY <1>1, <1>2, <1>3, <2>2, <2>5, <3>3 DEF Tries
    <3> QED BY <1>1, <3>1, <3>2, <3>3
  <2> QED BY <1>7, <2>3, <2>4, <2>7
<1> QED
  BY <1>8, <1>9

LEMMA RoundsKeep ==
  ASSUME IInv, zend_mark_reachable_blocks PROVE IInv'
<1> USE DEF IInv
<1>1. /\ phase = "mark" /\ stack = <<>> /\ j > Len(opa.tries) /\ changed' = FALSE
      /\ IF changed THEN j' = 1 /\ phase' = phase
                    ELSE phase' = "discover" /\ j' = j
      /\ UNCHANGED <<opa, starts, successors, reachable, stack, try_op, part, lines>>
  BY DEF zend_mark_reachable_blocks
<1>2. /\ Len(opa.tries) \in Nat /\ j = Len(opa.tries) + 1 /\ part = "try"
      /\ changed \in BOOLEAN /\ \A n \in Tries : n < j
  BY <1>1, Typed DEF Shape, Tries
<1>3. Shape'
  <2>1. j' \in 1 .. Len(opa.tries) + 1 /\ phase' \in {"mark", "discover"}
    BY <1>1, <1>2
  <2> QED BY <1>1, <1>2, <2>1 DEF Shape, Tries
<1>4. Graph' /\ Calls' /\ Moved' /\ Marked' /\ Reported' /\ Sound'
  BY <1>1, <1>2 DEF Graph, Calls, Moved, Marked, Reported, Sound, Tries
<1>5. Closing'
  BY <1>1 DEF Closing, Pending
<1>6. Round'
  <2>1. CASE changed
    <3>1. \A n \in Tries : ~(n < 1)
      BY <1>2 DEF Tries
    <3> QED BY <1>1, <1>2, <2>1, <3>1 DEF Round, Tries
  <2>2. CASE ~changed
    BY <1>1, <1>2, <2>2 DEF Round, Entered, Handled, Tries
  <2> QED BY <2>1, <2>2
<1> QED
  BY <1>3, <1>4, <1>5, <1>6

LEMMA DiscoverKeeps ==
  ASSUME IInv, php_pcov_discover_code PROVE IInv'
<1> USE DEF IInv
<1> DEFINE Looked(b) == {i \in Body(opa, starts, b) :
                           /\ ~php_pcov_ignored_opcode(opa.ops[i])
                           /\ ~(i > b /\ PassesCall(i - 1))}
           seen == UNION {Looked(b) : b \in reachable}
           told == {k \in Covered \ CallsOfNew(opa) : ~php_pcov_ignored_opcode(opa.ops[k])}
<1>1. /\ phase = "discover" /\ phase' = "done" /\ opa \in Programs
      /\ lines' = {opa.ops[i].line : i \in seen}
      /\ UNCHANGED <<opa, starts, successors, markVars>>
      /\ starts = BlockStarts(opa) /\ reachable \subseteq BlockStarts(opa)
  BY DEF php_pcov_discover_code, Shape, Graph
<1>2. ASSUME NEW b \in reachable, NEW i \in Body(opa, starts, b)
      PROVE  i \in CallsOfNew(opa) <=> i > b /\ PassesCall(i - 1)
  <2>1. i \in Ops(opa) /\ i \in Nat /\ b <= i /\ b \in Nat /\ b \in BlockStarts(opa)
    BY <1>1, StartsTyped, Typed DEF Body
  <2>2. i \in CallsOfNew(opa) => i # b
    BY <1>1, <2>1, CfgAssumption
  <2>3. (i - 1) + 1 = i
    BY <2>1
  <2> QED BY <2>1, <2>2, <2>3 DEF CallsOfNew, PassesCall
<1>3. seen = told
  <2>1. \A b \in reachable : Looked(b) = {i \in Body(opa, starts, b) :
                               /\ ~php_pcov_ignored_opcode(opa.ops[i])
                               /\ i \notin CallsOfNew(opa)}
    BY <1>2
  <2> HIDE DEF Looked
  <2> QED BY <1>1, <2>1 DEF Covered
<1>4. Reported'
  <2>1. (lines = {opa.ops[i].line : i \in told})'
    BY <1>1, <1>3 DEF markVars, Covered
  <2> QED BY <2>1 DEF Reported
<1>5. told \subseteq Ops(opa)
  BY DEF Covered, Body
<1>6. Shape'
  <2> HIDE DEF seen, told
  <2> QED BY <1>1, <1>3, <1>5 DEF Shape, markVars, Tries
<1>7. Graph' /\ Calls' /\ Moved' /\ Round' /\ Marked' /\ Sound'
  BY <1>1 DEF Graph, Calls, Moved, Round, Entered, Handled, Marked, Sound, markVars, Tries
<1>8. Closing'
  BY <1>1 DEF Closing, Pending, markVars
<1> QED
  BY <1>4, <1>6, <1>7, <1>8

(* The invariant is inductive, and so always holds.                        *)
LEMMA Inductive ==
  IInv /\ [Next]_vars => IInv'
<1> SUFFICES ASSUME IInv, [Next]_vars PROVE IInv'
  OBVIOUS
<1>1. CASE Next
  BY <1>1, BuildKeeps, MarkKeeps, EnterKeeps, HandlerKeeps, RoundsKeep, DiscoverKeeps DEF Next
<1>2. CASE UNCHANGED vars
  BY <1>2 DEF IInv, Shape, Graph, Calls, Closing, Pending, Moved, Round, Entered, Handled,
              Marked, Sound, Reported, Covered, vars, markVars, Tries
<1> QED
  BY <1>1, <1>2

LEMMA Invariance ==
  Spec => []IInv
<1>1. Init => IInv
  BY InitInv
<1> QED
  BY <1>1, Inductive, PTL DEF Spec

(* Control cannot leave the marked blocks, and they are in every set that  *)
(* it cannot leave.                                                        *)
LEMMA CoveredClosed ==
  ASSUME IInv, phase \in {"discover", "done"}
  PROVE  Covered \in SUBSET Ops(opa) /\ Closed(opa, Covered)
<1> USE DEF IInv
<1>1. /\ opa \in Programs /\ stack = <<>> /\ ~changed /\ j = Len(opa.tries) + 1
      /\ successors = [b \in BlockStarts(opa) |-> SuccessorsOf(opa, BlockStarts(opa), b)]
      /\ reachable \subseteq BlockStarts(opa) /\ 0 \in reachable
      /\ Len(opa.tries) \in Nat
  BY Typed DEF Shape, Graph, Marked
<1>2. Covered \in SUBSET Ops(opa)
  BY DEF Covered, Body
<1>3. ASSUME NEW b \in reachable PROVE b \in Covered
  <2>1. b \in Body(opa, BlockStarts(opa), b)
    BY <1>1, InBody, OwnBlock, StartsTyped
  <2> QED BY <2>1 DEF Covered
<1>4. ASSUME NEW i \in Covered PROVE Flows(opa, i) \subseteq Covered
  <2>1. PICK b \in reachable : i \in Body(opa, BlockStarts(opa), b)
    BY DEF Covered
  <2>2. b \in BlockStarts(opa) /\ successors[b] = SuccessorsOf(opa, BlockStarts(opa), b)
    BY <1>1
  <2>3. CASE Flows(opa, i) \subseteq Body(opa, BlockStarts(opa), b)
    BY <2>3 DEF Covered
  <2>4. CASE Flows(opa, i) = Elements(successors[b])
    <3>1. \A k \in 1 .. Len(successors[b]) : successors[b][k] \in reachable
      <4>1. \A k : ~Pending(b, k)
        BY <1>1 DEF Pending
      <4> QED BY <4>1 DEF Closing
    <3> QED BY <1>3, <2>4, <3>1 DEF Elements
  <2> QED BY <1>1, <2>1, <2>2, <2>3, <2>4, FlowStays
<1>5. ASSUME NEW t \in Elements(opa.tries), Guarded(t) \intersect Covered # {}
      PROVE  Handlers(t) \subseteq Covered
  <2>1. PICK n \in Tries : t = opa.tries[n]
    BY DEF Elements, Tries
  <2>2. PICK i \in Guarded(t) : i \in Covered
    BY <1>5
  <2>3. Block(opa, i) \in reachable
    BY <1>1, <2>2, InBody DEF Covered, Body
  <2>4. n < j
    BY <1>1 DEF Tries
  <2>5. try_op[n] \in reachable
    BY <1>1, <2>1, <2>2, <2>3, <2>4 DEF Round, Entered
  <2>6. /\ t.catch # 0 => t.catch \in reachable
        /\ t.finally # 0 => t.finally \in reachable
        /\ t.finally_end # 0 => t.finally_end \in reachable
    BY <1>1, <2>1, <2>4, <2>5 DEF Round, Handled
  <2> QED BY <1>3, <2>6 DEF Handlers
<1> QED
  BY <1>1, <1>2, <1>3, <1>4, <1>5 DEF Closed

LEMMA CoveredIsLive ==
  ASSUME IInv, phase \in {"discover", "done"} PROVE Covered = Live(opa)
<1> USE DEF IInv
<1>1. opa \in Programs /\ reachable \subseteq BlockStarts(opa)
  BY DEF Shape, Graph
<1>2. Live(opa) \subseteq Covered
  BY CoveredClosed DEF Live
<1>3. ASSUME NEW L \in SUBSET Ops(opa), Closed(opa, L) PROVE Covered \subseteq L
  BY <1>1, <1>3, BodyLive DEF Sound, Covered
<1>4. Covered \subseteq Live(opa)
  BY <1>3, CoveredClosed DEF Live
<1> QED
  BY <1>2, <1>4

(* The lines php_pcov_discover_code reports are exactly those of the       *)
(* opcodes that control can come to and that are not ignored, whatever the *)
(* op_array's jumps, loops and tries.                                      *)
THEOREM LinesAreExact == Spec => []LinesExact
<1>1. IInv => LinesExact
  BY CoveredIsLive DEF IInv, Reported, LinesExact
<1> QED
  BY <1>1, Invariance, PTL

(* zend_mark_reachable is in a block at most once, so the C stack is       *)
(* bounded by the number of blocks.                                        *)
LEMMA StackBounded ==
  ASSUME IInv PROVE Len(stack) <= Cardinality(starts)
<1> USE DEF IInv
<1>1. opa \in Programs /\ Len(stack) \in Nat
  BY DEF Shape
<1>2. CASE phase = "build"
  BY <1>2, FS_EmptySet DEF Graph
<1>3. CASE phase # "build"
  <2>1. starts = BlockStarts(opa) /\ reachable \subseteq starts
    BY <1>3 DEF Graph
  <2>2. IsFiniteSet(starts)
    <3>1. IsFiniteSet(Ops(opa))
      <4>1. 0 \in Int /\ opa.last - 1 \in Int
        BY <1>1, Typed
      <4> QED BY <4>1, FS_Interval DEF Ops
    <3> QED BY <1>1, <2>1, <3>1, StartsTyped, FS_Subset
  <2>3. IsFiniteSet(1 .. Len(stack)) /\ Cardinality(1 .. Len(stack)) = Len(stack)
    <3> DEFINE d == Len(stack)
    <3>1. d \in Nat
      BY <1>1
    <3> HIDE DEF d
    <3>2. /\ IsFiniteSet(1 .. d)
          /\ Cardinality(1 .. d) = IF 1 > d THEN 0 ELSE d - 1 + 1
      BY <3>1, FS_Interval
    <3>3. Cardinality(1 .. d) = d
      BY <3>1, <3>2
    <3> QED BY <3>2, <3>3 DEF d
  <2> DEFINE f == [m \in 1 .. Len(stack) |-> stack[m].block]
  <2>4. f \in [1 .. Len(stack) -> starts] /\ \A m, n \in 1 .. Len(stack) : f[m] = f[n] => m = n
    BY <2>1 DEF Calls
  <2>5. f \in Injection(1 .. Len(stack), starts)
    BY <2>4 DEF Injection, IsInjective
  <2>6. Cardinality(1 .. Len(stack)) <= Cardinality(starts)
    BY <2>2, <2>5, FS_Injection DEF ExistsInjection
  <2> QED BY <2>3, <2>6
<1> QED
  BY <1>2, <1>3

(* Blocks, successors, the invocations and the loop over tries keep within *)
(* their bounds; the recursion is never deeper than there are blocks.      *)
THEOREM TypeCorrect == Spec => []TypeOK
<1>1. ASSUME IInv PROVE TypeOK
  <2> USE <1>1 DEF IInv
  <2>1. opa \in Programs /\ Len(opa.tries) \in Nat
    BY Typed DEF Shape
  <2>2. starts \subseteq Ops(opa) /\ reachable \subseteq starts
    BY <2>1, StartsTyped DEF Graph
  <2>3. \A b \in DOMAIN successors : Elements(successors[b]) \subseteq starts
    <3>1. CASE phase = "build"
      <4>1. DOMAIN successors = {}
        BY <3>1 DEF Graph
      <4> QED BY <4>1
    <3>2. CASE phase # "build"
      BY <2>1, <3>2, SuccessorsTyped DEF Graph, Elements
    <3> QED BY <3>1, <3>2
  <2>4. \A n \in 1 .. Len(stack) :
          stack[n].block \in reachable
          /\ stack[n].i \in 1 .. Len(successors[stack[n].block]) + 1
    <3>1. CASE phase = "build"
      BY <3>1 DEF Graph
    <3>2. CASE phase # "build"
      <4> TAKE n \in 1 .. Len(stack)
      <4>1. stack[n].block \in reachable /\ Len(successors[stack[n].block]) \in Nat
        BY <2>1, <2>2, <3>2, SuccessorsTyped DEF Calls, Graph
      <4> QED BY <4>1 DEF Calls
    <3> QED BY <3>1, <3>2
  <2>5. Len(try_op) = Len(opa.tries) /\ Elements(try_op) \subseteq Ops(opa)
    BY <2>1 DEF Shape, Tries, Elements
  <2> QED BY <2>2, <2>3, <2>4, <2>5, StackBounded DEF TypeOK, Shape, Parts
<1> QED
  BY <1>1, Invariance, PTL

-----------------------------------------------------------------------------
(* Dead tries.                                                             *)

(* The opcodes of the blocks R, and: a handler among them has company of   *)
(* what it guards.                                                         *)
BodiesOf(p, R) == UNION {Body(p, BlockStarts(p), b) : b \in R}

Accompanied(p, t, R) == Guarded(t) \intersect BodiesOf(p, R) # {}

HandlersLed(p, R) ==
  \A t \in Elements(p.tries) :
    HandlerOps(t) \intersect BodiesOf(p, R) # {} => Accompanied(p, t, R)

(* A block is entered from what is marked, or as its handler.              *)
EnteredFrom(p, R, b) ==
  \/ b = 0
  \/ \E i \in BodiesOf(p, R) : b \in Flows(p, i)
  \/ \E u \in Elements(p.tries) : b \in Handlers(u) /\ Accompanied(p, u, R)

LEMMA HandlerOpsTyped ==
  ASSUME NEW p \in Programs, NEW n \in 1 .. Len(p.tries)
  PROVE  /\ 0 \notin HandlerOps(p.tries[n])
         /\ HandlerOps(p.tries[n]) \subseteq Nat
         /\ Handlers(p.tries[n]) \subseteq HandlerOps(p.tries[n])
<1> DEFINE t == p.tries[n]
<1>1. /\ t.catch \in Nat /\ t.finally \in Nat /\ t.finally_end \in Nat
  BY TryTyped
<1>2. \A i \in t.finally .. t.finally_end : i \in Nat /\ t.finally <= i
  BY <1>1
<1> HIDE DEF t
<1>3. 0 \notin HandlerOps(t) /\ HandlerOps(t) \subseteq Nat /\ Handlers(t) \subseteq HandlerOps(t)
  BY <1>1, <1>2 DEF HandlerOps, Handlers
<1> QED BY <1>3 DEF t

(* The first opcode of a block that belongs to a try's handlers is entered *)
(* from what the try guards, or there was one before.                      *)
LEMMA LedIntoBlock ==
  ASSUME HandlersApart, NEW p \in Programs, NEW R, R \subseteq BlockStarts(p),
         HandlersLed(p, R), NEW b \in BlockStarts(p), EnteredFrom(p, R, b)
  PROVE  HandlersLed(p, R \union {b})
<1> SUFFICES ASSUME NEW t \in Elements(p.tries),
                    HandlerOps(t) \intersect BodiesOf(p, R \union {b}) # {}
             PROVE  Accompanied(p, t, R \union {b})
  BY DEF HandlersLed
<1> DEFINE B == Body(p, BlockStarts(p), b)
           X == B \intersect HandlerOps(t)
<1>1. BodiesOf(p, R \union {b}) = BodiesOf(p, R) \union B
  BY DEF BodiesOf
<1>2. Accompanied(p, t, R) => Accompanied(p, t, R \union {b})
  BY <1>1 DEF Accompanied
<1>3. HandlerOps(t) \intersect BodiesOf(p, R) # {} => Accompanied(p, t, R)
  BY DEF HandlersLed
<1>4. BodiesOf(p, R) \subseteq Ops(p)
  BY DEF BodiesOf, Body
<1>5. /\ \A i \in Ops(p) : Flows(p, i) \intersect HandlerOps(t) # {} =>
                             i \in Guarded(t) \union HandlerOps(t)
      /\ \A u \in Elements(p.tries) \ {t} :
           Handlers(u) \intersect HandlerOps(t) # {} =>
             Guarded(u) \subseteq Guarded(t) \union HandlerOps(t)
  BY DEF HandlersApart
<1>6. 0 \notin HandlerOps(t)
  BY HandlerOpsTyped DEF Elements
<1>7. CASE X = {}
  BY <1>1, <1>2, <1>3, <1>7
<1>8. CASE X # {}
  <2>1. X \subseteq Nat
    BY Typed DEF Body
  <2>2. PICK x \in X : \A y \in X : x <= y
    <3> HIDE DEF X
    <3> QED BY <1>8, <2>1, Least
  <2>3. x \in B /\ x \in HandlerOps(t) /\ x \in Nat
    BY <2>1, <2>2
  <2>4. CASE x = b
    <3>1. CASE \E i \in BodiesOf(p, R) : b \in Flows(p, i)
      <4>1. PICK i \in BodiesOf(p, R) : b \in Flows(p, i)
        BY <3>1
      <4>2. i \in Guarded(t) \union HandlerOps(t)
        BY <1>4, <1>5, <2>3, <2>4, <4>1
      <4> QED BY <1>2, <1>3, <4>2 DEF Accompanied
    <3>2. CASE \E u \in Elements(p.tries) : b \in Handlers(u) /\ Accompanied(p, u, R)
      <4>1. PICK u \in Elements(p.tries) : b \in Handlers(u) /\ Accompanied(p, u, R)
        BY <3>2
      <4>2. u # t => Guarded(u) \subseteq Guarded(t) \union HandlerOps(t)
        BY <1>5, <2>3, <2>4, <4>1
      <4>3. PICK i \in BodiesOf(p, R) : i \in Guarded(u)
        BY <4>1 DEF Accompanied
      <4>4. i \in Guarded(t) \union HandlerOps(t)
        BY <4>2, <4>3
      <4> QED BY <1>2, <1>3, <4>4 DEF Accompanied
    <3> QED BY <1>6, <2>3, <2>4, <3>1, <3>2 DEF EnteredFrom
  <2>5. CASE x # b
    <3>1. /\ x \in Ops(p) /\ b \in Nat /\ b < x
          /\ \A c \in BlockStarts(p) : c \in Nat /\ (b < c => x < c)
      <4>1. \A c \in BlockStarts(p) : c \in Nat
        BY StartsTyped, Typed
      <4>2. x \in Ops(p) /\ b <= x /\ \A c \in BlockStarts(p) : b < c => x < c
        BY <2>3 DEF Body
      <4> QED BY <2>3, <2>5, <4>1, <4>2
    <3>2. x - 1 \in Ops(p) /\ x - 1 \in Nat /\ (x - 1) + 1 = x
      BY <2>3, <3>1, Typed DEF Ops
    <3>3. x - 1 \in B
      BY <2>3, <3>1, <3>2 DEF Body
    <3>4. x \in Flows(p, x - 1)
      BY <2>3, <3>2, <3>3, BodyRuns DEF Flows, FallsThrough, Inside
    <3>5. x - 1 \in Guarded(t) \union HandlerOps(t)
      BY <1>5, <2>3, <3>2, <3>4
    <3>6. x - 1 \notin HandlerOps(t)
      BY <2>2, <2>3, <3>2, <3>3
    <3> QED BY <1>1, <3>3, <3>5, <3>6 DEF Accompanied
  <2> QED BY <2>4, <2>5
<1> QED
  BY <1>7, <1>8

(* A start is among the opcodes of the blocks when it is one of them.      *)
LEMMA BodiesHold ==
  ASSUME NEW p \in Programs, NEW R, R \subseteq BlockStarts(p)
  PROVE  /\ R \subseteq BodiesOf(p, R)
         /\ \A i \in Ops(p) : i \in BodiesOf(p, R) <=> Block(p, i) \in R
         /\ \A b \in BlockStarts(p) : b \in BodiesOf(p, R) => b \in R
<1>1. \A i \in Ops(p) : i \in BodiesOf(p, R) <=> Block(p, i) \in R
  BY InBody DEF BodiesOf
<1> QED
  BY <1>1, OwnBlock, StartsTyped

-----------------------------------------------------------------------------

(* A try that was moved guards something marked.                           *)
MovedLed ==
  \A n \in Tries :
    try_op[n] # opa.tries[n].try => Accompanied(opa, opa.tries[n], reachable)

(* What the first half of the loop's body leaves to the second.            *)
Looking ==
  part = "catch" =>
    \/ try_op[j] \in reachable
    \/ stack = <<>> /\ ~Accompanied(opa, opa.tries[j], reachable)

DInv == IInv /\ HandlersLed(opa, reachable) /\ MovedLed /\ Looking

(* More blocks, more company.                                              *)
LEMMA AccompaniedStays ==
  ASSUME NEW p, NEW t, NEW R, NEW Q, R \subseteq Q, Accompanied(p, t, R)
  PROVE  Accompanied(p, t, Q)
BY DEF Accompanied, BodiesOf

(* A try that begins at a reachable block guards something reachable.      *)
LEMMA BegunLed ==
  ASSUME DInv, phase = "mark", NEW n \in Tries, try_op[n] \in reachable,
         Handlers(opa.tries[n]) # {}
  PROVE  Accompanied(opa, opa.tries[n], reachable)
<1> DEFINE t == opa.tries[n]
<1>1. opa \in Programs /\ reachable \subseteq BlockStarts(opa)
  BY DEF DInv, IInv, Shape, Graph
<1>2. t.try \in Guarded(t)
  BY <1>1, TryTyped DEF Tries
<1>3. CASE try_op[n] = t.try
  BY <1>1, <1>2, <1>3, BodiesHold DEF Accompanied
<1>4. CASE try_op[n] # t.try
  BY <1>4 DEF DInv, MovedLed
<1> QED
  BY <1>3, <1>4

LEMMA LedInit ==
  ASSUME Init PROVE DInv
<1>1. IInv
  BY InitInv
<1>2. opa \in Programs /\ reachable = {} /\ part = "try"
      /\ \A n \in Tries : try_op[n] = opa.tries[n].try
  BY DEF Init, Tries
<1>3. HandlersLed(opa, reachable)
  BY <1>2 DEF HandlersLed, BodiesOf
<1> QED
  BY <1>1, <1>2, <1>3 DEF DInv, MovedLed, Looking

LEMMA LedBuild ==
  ASSUME HandlersApart, DInv, zend_build_cfg
  PROVE  HandlersLed(opa, reachable)' /\ MovedLed' /\ Looking'
<1>1. /\ opa \in Programs /\ reachable = {} /\ part = "try"
      /\ \A n \in Tries : try_op[n] = opa.tries[n].try
      /\ UNCHANGED <<opa, try_op, j, part>> /\ reachable' = {0}
  BY DEF zend_build_cfg, DInv, IInv, Shape, Graph
<1>2. HandlersLed(opa, {} \union {0})
  <2>1. 0 \in BlockStarts(opa) /\ EnteredFrom(opa, {}, 0)
    BY <1>1, StartsTyped DEF EnteredFrom
  <2>2. HandlersLed(opa, {})
    BY <1>1 DEF DInv
  <2> QED BY <1>1, <2>1, <2>2, LedIntoBlock
<1>3. {} \union {0} = reachable'
  BY <1>1
<1> QED
  BY <1>1, <1>2, <1>3 DEF MovedLed, Looking, Tries

(* A step that marks one more block, entered from those that are marked.   *)
LEMMA LedByOne ==
  ASSUME HandlersApart, DInv, phase = "mark", NEW b \in BlockStarts(opa),
         EnteredFrom(opa, reachable, b), reachable' = reachable \union {b}, opa' = opa
  PROVE  HandlersLed(opa, reachable)'
<1>1. opa \in Programs /\ reachable \subseteq BlockStarts(opa) /\ HandlersLed(opa, reachable)
  BY DEF DInv, IInv, Shape, Graph
<1>2. HandlersLed(opa, reachable \union {b})
  BY <1>1, LedIntoBlock
<1> QED
  BY <1>2

LEMMA LedMark ==
  ASSUME HandlersApart, DInv, zend_mark_reachable
  PROVE  HandlersLed(opa, reachable)' /\ MovedLed' /\ Looking'
<1> DEFINE top   == stack[Len(stack)]
           succs == successors[top.block]
           succ  == succs[top.i]
<1>1. /\ phase = "mark" /\ stack # <<>> /\ opa \in Programs
      /\ UNCHANGED <<opa, try_op, j, part>>
      /\ successors = [b \in BlockStarts(opa) |-> SuccessorsOf(opa, BlockStarts(opa), b)]
      /\ reachable \subseteq BlockStarts(opa)
      /\ stack \in Seq([block : Ops(opa), i : Nat])
  BY DEF zend_mark_reachable, DInv, IInv, Shape, Graph
<1>2. Len(stack) \in 1 .. Len(stack)
  BY <1>1, Front
<1>3. /\ top.block \in reachable
      /\ top.i \in 1 .. Len(succs) \/ succs = <<>>
  BY <1>2 DEF DInv, IInv, Calls
<1>4. \/ reachable' = reachable
      \/ succs # <<>> /\ reachable' = reachable \union {succ}
  BY DEF zend_mark_reachable
<1>5. ASSUME succs # <<>>, reachable' = reachable \union {succ}
      PROVE  HandlersLed(opa, reachable)'
  <2>1. top.i \in 1 .. Len(succs) /\ top.block \in BlockStarts(opa)
        /\ succs = SuccessorsOf(opa, BlockStarts(opa), top.block)
    BY <1>1, <1>3, <1>5
  <2>2. /\ succs \in Seq(BlockStarts(opa))
        /\ Elements(succs) = Flows(opa, End(opa, top.block))
    BY <1>1, <2>1, SuccessorsTyped
  <2>3. succ \in BlockStarts(opa) /\ succ \in Flows(opa, End(opa, top.block))
    <3> HIDE DEF succs
    <3> QED BY <2>1, <2>2 DEF Elements
  <2>4. End(opa, top.block) \in BodiesOf(opa, reachable)
    BY <1>1, <1>3, <2>1, EndTyped DEF BodiesOf
  <2>5. EnteredFrom(opa, reachable, succ)
    BY <2>3, <2>4 DEF EnteredFrom
  <2> HIDE DEF succ
  <2> QED BY <1>1, <1>5, <2>3, <2>5, LedByOne
<1>6. HandlersLed(opa, reachable)'
  <2>1. CASE reachable' = reachable
    BY <1>1, <2>1 DEF DInv
  <2> QED BY <1>4, <1>5, <2>1
<1>7. reachable \subseteq reachable'
  BY <1>4
<1>8. MovedLed'
  BY <1>1, <1>7, AccompaniedStays DEF DInv, MovedLed, Tries
<1>9. Looking'
  BY <1>1, <1>7 DEF DInv, Looking
<1> QED
  BY <1>6, <1>8, <1>9

(* When no block of a try is found in front of its catch, nor of its       *)
(* finally block, it guards nothing that is marked.                        *)
LEMMA UnmovedAlone ==
  ASSUME IInv, phase = "mark", NEW n \in Tries,
         LET t    == opa.tries[n]
             from == TryMoved(t, try_op[n])
         IN  ~(/\ BlockOf(from) \notin reachable /\ t.finally # 0
               /\ ReachedBetween(from, t.finally) # {})
  PROVE  \/ TryMoved(opa.tries[n], try_op[n]) \in reachable
         \/ ~Accompanied(opa, opa.tries[n], reachable)
<1> USE DEF IInv
<1> DEFINE t    == opa.tries[n]
           from == TryMoved(t, try_op[n])
<1>1. /\ opa \in Programs /\ starts = BlockStarts(opa) /\ reachable \subseteq BlockStarts(opa)
  BY DEF Shape, Graph
<1>2. /\ t.try \in BlockStarts(opa) /\ t.try \in Nat
      /\ t.catch \in BlockStarts(opa) /\ t.catch \in Nat
      /\ t.finally \in BlockStarts(opa) /\ t.finally \in Nat
      /\ \A i \in Guarded(t) : i \in Ops(opa)
  BY <1>1, TryTyped DEF Tries
<1>3. /\ from \in BlockStarts(opa)
      /\ from \notin reachable =>
           from = t.try /\ (t.catch # 0 => ReachedBetween(t.try, t.catch) = {})
  BY <1>1, TryMovedTyped
<1>4. BlockOf(from) = from
  BY <1>1, <1>3, BuiltBlocks
<1>5. BlockStarts(opa) \subseteq Ops(opa) /\ Ops(opa) \subseteq Nat
  BY <1>1, StartsTyped, Typed
<1> SUFFICES ASSUME from \notin reachable, Accompanied(opa, t, reachable)
             PROVE  FALSE
  OBVIOUS
<1>6. PICK i \in Guarded(t) : i \in BodiesOf(opa, reachable)
  BY DEF Accompanied
<1>7. i \in Ops(opa) /\ i \in Nat /\ t.try <= i /\ Block(opa, i) \in reachable
  BY <1>1, <1>2, <1>5, <1>6, BodiesHold DEF Guarded
<1>8. t.try <= Block(opa, i) /\ Block(opa, i) <= i /\ Block(opa, i) \in Nat
  BY <1>1, <1>2, <1>5, <1>7, BlockTyped
<1>9. from = t.try /\ (t.catch # 0 => ReachedBetween(t.try, t.catch) = {})
  BY <1>3
<1>10. CASE t.finally # 0
  <2>1. i < t.finally
    BY <1>2, <1>7, <1>10 DEF Guarded
  <2>2. Block(opa, i) \in ReachedBetween(t.try, t.finally)
    BY <1>1, <1>2, <1>7, <1>8, <2>1, Between
  <2> QED BY <1>4, <1>9, <1>10, <2>2
<1>11. CASE t.finally = 0
  <2>1. i < t.catch /\ t.catch # 0
    BY <1>2, <1>7, <1>11 DEF Guarded
  <2>2. Block(opa, i) \in ReachedBetween(t.try, t.catch)
    BY <1>1, <1>2, <1>7, <1>8, <2>1, Between
  <2> QED BY <1>9, <2>1, <2>2
<1> QED
  BY <1>10, <1>11

LEMMA LedEnter ==
  ASSUME HandlersApart, DInv, EnterTry
  PROVE  HandlersLed(opa, reachable)' /\ MovedLed' /\ Looking'
<1> DEFINE t    == opa.tries[j]
           from == TryMoved(t, try_op[j])
           Jumped == /\ BlockOf(from) \notin reachable /\ t.finally # 0
                     /\ ReachedBetween(from, t.finally) # {}
<1>1. /\ phase = "mark" /\ stack = <<>> /\ opa \in Programs /\ j \in Tries
      /\ part' = "catch" /\ UNCHANGED <<opa, j>>
      /\ starts = BlockStarts(opa) /\ reachable \subseteq BlockStarts(opa) /\ 0 \in reachable
      /\ try_op \in [Tries -> Ops(opa)] /\ Len(opa.tries) \in Nat
  BY Typed DEF EnterTry, DInv, IInv, Shape, Graph, Tries
<1>2. /\ t.try \in BlockStarts(opa) /\ t.try \in Nat
      /\ t.catch \in BlockStarts(opa) /\ t.catch \in Nat
      /\ t.finally \in BlockStarts(opa) /\ t.finally \in Nat
      /\ \A i \in Guarded(t) : i \in Ops(opa)
      /\ t \in Elements(opa.tries)
  BY <1>1, TryTyped DEF Tries, Elements
<1>3. /\ from \in BlockStarts(opa)
      /\ from = try_op[j] \/ (from \in reachable /\ from \in Guarded(t))
      /\ from \notin reachable =>
           /\ from = try_op[j] /\ from = t.try
           /\ t.catch # 0 => ReachedBetween(t.try, t.catch) = {}
  BY <1>1, TryMovedTyped DEF DInv
<1>4. BlockOf(from) = from /\ BlockOf(t.catch) = t.catch
  BY <1>1, <1>2, <1>3, BuiltBlocks
<1>5. BlockStarts(opa) \subseteq Ops(opa) /\ Ops(opa) \subseteq Nat
  BY <1>1, StartsTyped, Typed
<1>6. HandlersLed(opa, reachable) /\ MovedLed
  BY DEF DInv
<1>7. CASE Jumped
  <2>1. /\ try_op' = [try_op EXCEPT ![j] = t.catch]
        /\ reachable' = reachable \union {t.catch}
    BY <1>4, <1>7 DEF EnterTry, Mark
  <2>2. from = t.try
    BY <1>3, <1>4, <1>7
  <2>3. PICK b \in reachable : t.try <= b /\ b < t.finally
    BY <1>1, <1>2, <1>7, <2>2, Between DEF DInv
  <2>4. b \in Guarded(t)
    BY <1>1, <1>2, <1>5, <1>7, <2>3 DEF Guarded
  <2>5. Accompanied(opa, t, reachable)
    BY <1>1, <2>3, <2>4, BodiesHold DEF Accompanied
  <2>6. EnteredFrom(opa, reachable, t.catch)
    BY <1>2, <2>5 DEF EnteredFrom, Handlers
  <2>7. HandlersLed(opa, reachable)'
    <3> HIDE DEF t
    <3> QED BY <1>1, <1>2, <2>1, <2>6, LedByOne
  <2>8. MovedLed'
    <3> SUFFICES ASSUME NEW n \in Tries, try_op'[n] # opa.tries[n].try
                 PROVE  Accompanied(opa, opa.tries[n], reachable')
      BY <1>1 DEF MovedLed, Tries
    <3>1. CASE n = j
      BY <2>1, <2>5, <3>1, AccompaniedStays
    <3>2. CASE n # j
      <4>1. try_op'[n] = try_op[n]
        BY <1>1, <2>1, <3>2
      <4> QED BY <1>6, <2>1, <4>1, AccompaniedStays DEF MovedLed
    <3> QED BY <3>1, <3>2
  <2>9. Looking'
    BY <1>1, <2>1 DEF Looking
  <2> QED BY <2>7, <2>8, <2>9
<1>8. CASE ~Jumped
  <2>1. /\ try_op' = [try_op EXCEPT ![j] = from]
        /\ UNCHANGED <<changed, stack, reachable>>
    BY <1>8 DEF EnterTry
  <2>2. HandlersLed(opa, reachable)'
    BY <1>1, <1>6, <2>1
  <2>3. MovedLed'
    <3> SUFFICES ASSUME NEW n \in Tries, try_op'[n] # opa.tries[n].try
                 PROVE  Accompanied(opa, opa.tries[n], reachable)
      BY <1>1, <2>1 DEF MovedLed, Tries
    <3>1. CASE n = j /\ from \in reachable /\ from \in Guarded(t)
      BY <1>1, <3>1, BodiesHold DEF Accompanied
    <3>2. CASE try_op'[n] = try_op[n]
      BY <1>6, <3>2 DEF MovedLed
    <3> QED BY <1>1, <1>3, <2>1, <3>1, <3>2
  <2>4. from \in reachable \/ ~Accompanied(opa, t, reachable)
    BY <1>1, <1>8, UnmovedAlone DEF DInv
  <2>5. Looking'
    BY <1>1, <2>1, <2>4 DEF Looking
  <2> QED BY <2>2, <2>3, <2>5
<1> QED
  BY <1>7, <1>8

LEMMA LedHandler ==
  ASSUME HandlersApart, DInv, MarkHandler
  PROVE  HandlersLed(opa, reachable)' /\ MovedLed' /\ Looking'
<1> DEFINE t  == opa.tries[j]
           op == t[part]
<1>1. /\ phase = "mark" /\ opa \in Programs /\ j \in Tries
      /\ part \in {"catch", "finally", "finally_end"}
      /\ UNCHANGED <<opa, try_op>>
      /\ starts = BlockStarts(opa) /\ reachable \subseteq BlockStarts(opa) /\ 0 \in reachable
  BY DEF MarkHandler, DInv, IInv, Shape, Graph, Tries, Parts
<1>2. part' # "catch"
  BY <1>1 DEF MarkHandler
<1>3. /\ part = "catch" => op = t.catch
      /\ part = "finally" => op = t.finally
      /\ part = "finally_end" => op = t.finally_end
  OBVIOUS
<1>4. op \in BlockStarts(opa) /\ (op # 0 => op \in Handlers(t)) /\ t \in Elements(opa.tries)
  BY <1>1, <1>3, TryTyped DEF Tries, Handlers, Elements
<1>5. BlockOf(op) = op /\ BlockOf(try_op[j]) = try_op[j]
  BY <1>1, <1>4, BuiltBlocks DEF DInv, IInv, Moved
<1>6. CASE Marks(t, op)
  <2>1. op # 0 /\ try_op[j] \in reachable /\ reachable' = reachable \union {op}
    BY <1>5, <1>6 DEF Marks, MarkHandler, Mark
  <2>2. Accompanied(opa, t, reachable)
    BY <1>1, <1>4, <2>1, BegunLed
  <2>3. EnteredFrom(opa, reachable, op)
    BY <1>4, <2>1, <2>2 DEF EnteredFrom
  <2>4. HandlersLed(opa, reachable)'
    <3> HIDE DEF op
    <3> QED BY <1>1, <1>4, <2>1, <2>3, LedByOne
  <2>5. MovedLed'
    BY <1>1, <2>1, AccompaniedStays DEF DInv, MovedLed, Tries
  <2> QED BY <1>2, <2>4, <2>5 DEF Looking
<1>7. CASE ~Marks(t, op)
  <2>1. reachable' = reachable
    BY <1>7 DEF MarkHandler
  <2>2. HandlersLed(opa, reachable)' /\ MovedLed'
    BY <1>1, <2>1 DEF DInv, MovedLed, Tries
  <2> QED BY <1>2, <2>2 DEF Looking
<1> QED
  BY <1>6, <1>7

LEMMA LedStep ==
  ASSUME HandlersApart
  PROVE  DInv /\ [Next]_vars => DInv'
<1> SUFFICES ASSUME DInv, [Next]_vars PROVE DInv'
  OBVIOUS
<1>1. IInv'
  BY Inductive DEF DInv
<1>2. ASSUME UNCHANGED <<opa, reachable, stack, try_op, part>>, j' = j \/ part # "catch"
      PROVE  HandlersLed(opa, reachable)' /\ MovedLed' /\ Looking'
  BY <1>2 DEF DInv, MovedLed, Looking, Tries
<1>3. ASSUME zend_mark_reachable_blocks
      PROVE  HandlersLed(opa, reachable)' /\ MovedLed' /\ Looking'
  <2>1. part # "catch"
    <3>1. j \in 1 .. Len(opa.tries) + 1 /\ j > Len(opa.tries) /\ Len(opa.tries) \in Nat
      BY <1>3, Typed DEF zend_mark_reachable_blocks, DInv, IInv, Shape
    <3>2. j \notin Tries
      BY <3>1 DEF Tries
    <3> QED BY <3>2 DEF DInv, IInv, Shape
  <2> QED BY <1>2, <1>3, <2>1 DEF zend_mark_reachable_blocks
<1>4. ASSUME php_pcov_discover_code \/ UNCHANGED vars
      PROVE  HandlersLed(opa, reachable)' /\ MovedLed' /\ Looking'
  BY <1>2, <1>4 DEF php_pcov_discover_code, vars, markVars
<1>5. HandlersLed(opa, reachable)' /\ MovedLed' /\ Looking'
  BY <1>3, <1>4, LedBuild, LedMark, LedEnter, LedHandler
     DEF Next
<1> QED
  BY <1>1, <1>5 DEF DInv

(* Where nothing enters a handler but what it guards, the assertion of     *)
(* zend_mark_reachable_blocks holds in every round: a try that cannot be   *)
(* reached and that nobody jumped into has no reachable handler, however   *)
(* its neighbours lead to each other.                                      *)
THEOREM DeadTriesStayDead ==
  ASSUME HandlersApart
  PROVE  Spec => []DeadTriesDead
<1>1. DInv => DeadTriesDead
  <2> SUFFICES ASSUME DInv, phase = "mark", stack = <<>>, j <= Len(opa.tries), part = "catch"
               PROVE  \/ BlockOf(try_op[j]) \in reachable
                      \/ \A h \in Handlers(opa.tries[j]) : BlockOf(h) \notin reachable
    BY DEF DeadTriesDead
  <2> DEFINE t == opa.tries[j]
  <2>1. /\ opa \in Programs /\ j \in Tries /\ starts = BlockStarts(opa)
        /\ reachable \subseteq BlockStarts(opa)
    BY DEF DInv, IInv, Shape, Graph
  <2>2. BlockOf(try_op[j]) = try_op[j]
    BY <2>1, BuiltBlocks DEF DInv, IInv, Moved
  <2>3. /\ \A h \in Handlers(t) : h \in BlockStarts(opa) /\ BlockOf(h) = h
        /\ Handlers(t) \subseteq HandlerOps(t) /\ t \in Elements(opa.tries)
    BY <2>1, StartsTyped, BuiltBlocks, HandlerOpsTyped DEF Tries, Elements
  <2>4. ASSUME ~Accompanied(opa, t, reachable)
        PROVE  \A h \in Handlers(t) : BlockOf(h) \notin reachable
    <3>1. HandlerOps(t) \intersect BodiesOf(opa, reachable) = {}
      BY <2>3, <2>4 DEF DInv, HandlersLed
    <3> QED BY <2>1, <2>3, <3>1, BodiesHold
  <2> QED BY <2>2, <2>4 DEF DInv, Looking
<1>2. Init => DInv
  BY LedInit
<1>3. DInv /\ [Next]_vars => DInv'
  BY LedStep
<1> QED
  BY <1>1, <1>2, <1>3, PTL DEF Spec

================================================================================
