------------------------- MODULE PcovBranchInfo_proofs -------------------------
(***************************************************************************)
(* The branches of pcov_branch_info are those of the opcodes.              *)
(*                                                                         *)
(* The walk skips what it has seen, so that nothing is missed has to be    *)
(* argued: what has been walked is closed under control but for targets    *)
(* that are still pending (Walking), and whatever was walked follows a     *)
(* start with nothing that stops in between (Reached).  Post-processing    *)
(* then has given each start it has passed the out-edges of the end of its *)
(* branch, and has touched nothing ahead (Processing).                     *)
(***************************************************************************)
EXTENDS PcovBranchInfo, WellFoundedInduction, SequenceTheorems, TLAPS

(* The order of the naturals as a relation, for WFMin.                     *)
Smaller == {ss \in Nat \X Nat : ss[1] < ss[2]}

(* A set of naturals that is not empty has a least element.                *)
LEMMA Least ==
  ASSUME NEW S, S \subseteq Nat, S # {}
  PROVE  \E m \in S : \A x \in S : m <= x
<1>1. IsWellFoundedOn(Smaller, Nat)
  BY NatLessThanWellFounded DEF OpToRel, Smaller
<1>2. \E m \in S : \A x \in S : <<x, m>> \notin Smaller
  BY <1>1, WFMin
<1>3. \A x, m \in S : <<x, m>> \in Smaller <=> x < m
  BY DEF Smaller
<1>4. PICK m \in S : \A x \in S : ~(x < m)
  BY <1>2, <1>3
<1> QED
  BY <1>4

-----------------------------------------------------------------------------
(* Sequences.                                                              *)

LEMMA Joined ==
  ASSUME NEW s \in Seq(Int), NEW t \in Seq(Int)
  PROVE  s \o t \in Seq(Int) /\ Len(s \o t) = Len(s) + Len(t)
OBVIOUS

LEMMA FunctionIsSeq ==
  ASSUME NEW n \in Nat, NEW f \in [1 .. n -> Int]
  PROVE  f \in Seq(Int) /\ Len(f) = n
OBVIOUS

LEMMA Empty == <<>> \in Seq(Int) /\ Len(<<>>) = 0
OBVIOUS

LEMMA Singleton ==
  ASSUME NEW a \in Int
  PROVE  <<a>> \in Seq(Int) /\ Len(<<a>>) = 1
OBVIOUS

LEMMA Pair ==
  ASSUME NEW a \in Int, NEW b \in Int
  PROVE  <<a, b>> \in Seq(Int) /\ Len(<<a, b>>) = 2
OBVIOUS

-----------------------------------------------------------------------------
(* The types.                                                              *)

OutLists == {s \in Seq(Int) : Len(s) <= MaxOuts}

(* What ProgramsAssumption says of an op_array, in the form proofs use.    *)
LEMMA OpTyped ==
  ASSUME NEW p \in Programs, NEW i \in Ops(p)
  PROVE  /\ p.last \in Nat \ {0} /\ 0 \in Ops(p) /\ i \in Nat
         /\ p.ops[i].kind \in Kinds /\ p.ops[i].to \in Seq(Nat)
         /\ p.ops[i].kind \in WithTargets => Len(p.ops[i].to) \in Nat \ {0}
<1>1. /\ p.last \in Nat \ {0}
      /\ p.ops \in [0 .. p.last - 1 -> [kind : Kinds, to : Seq(Nat)]]
      /\ p.ops[i].kind \in WithTargets => p.ops[i].to # <<>>
  BY ProgramsAssumption DEF Ops
<1>2. p.ops[i] \in [kind : Kinds, to : Seq(Nat)]
  BY <1>1 DEF Ops
<1> QED
  BY <1>1, <1>2, EmptySeq DEF Ops

LEMMA FirstCasesTyped ==
  ASSUME NEW s \in Seq(Nat)
  PROVE  FirstCases(s) \in Seq(Int) /\ Len(FirstCases(s)) <= MaxOuts - 2
<1> DEFINE n == IF Len(s) <= MaxOuts - 2 THEN Len(s) ELSE MaxOuts - 2
<1>1. MaxOuts \in Nat \ {0, 1} /\ Len(s) \in Nat
  BY ProgramsAssumption, LenProperties
<1>2. n \in Nat /\ n <= MaxOuts - 2 /\ {m \in 1 .. Len(s) : m <= MaxOuts - 2} = 1 .. n
  BY <1>1
<1>3. FirstCases(s) = [m \in 1 .. n |-> s[m]]
  BY <1>2 DEF FirstCases
<1>4. \A m \in 1 .. n : s[m] \in Int
  BY <1>1, ElementOfSeq
<1>5. [m \in 1 .. n |-> s[m]] \in [1 .. n -> Int]
  BY <1>4
<1> QED
  <2> HIDE DEF n
  <2>1. FirstCases(s) \in [1 .. n -> Int]
    BY <1>3, <1>5
  <2>2. FirstCases(s) \in Seq(Int) /\ Len(FirstCases(s)) = n
    BY <1>2, <2>1, FunctionIsSeq
  <2> QED BY <1>2, <2>2

LEMMA JumpsTyped ==
  ASSUME NEW p \in Programs, NEW i \in Ops(p)
  PROVE  pcov_find_jumps(p, i) \in OutLists
<1> DEFINE op == p.ops[i]
           cases == SubSeq(op.to, 1, Len(op.to) - 1)
           some == FirstCases(cases)
           default == <<op.to[Len(op.to)]>>
<1>1. MaxOuts \in Nat /\ MaxOuts >= 2 /\ i + 1 \in Int /\ EXIT \in Int
  BY ProgramsAssumption, OpTyped DEF EXIT
<1>2. op.to \in Seq(Nat) /\ op.kind \in Kinds
      /\ (op.kind \in WithTargets => Len(op.to) \in Nat \ {0})
  BY OpTyped
<1>3. op.kind \in WithTargets => /\ op.to[1] \in Int /\ default \in Seq(Int)
                                 /\ Len(default) = 1 /\ cases \in Seq(Nat)
  <2> SUFFICES ASSUME op.kind \in WithTargets
               PROVE  /\ op.to[1] \in Nat /\ op.to[Len(op.to)] \in Nat
                      /\ cases \in Seq(Nat)
    OBVIOUS
  <2>1. Len(op.to) \in Nat \ {0}
    BY <1>2
  <2>2. \A m \in 1 .. Len(op.to) : op.to[m] \in Nat
    BY <1>2, ElementOfSeq
  <2>3. cases \in Seq(Nat)
    <3> HIDE DEF op
    <3>1. \A m \in 1 .. Len(op.to) - 1 : op.to[m] \in Nat
      BY <2>1, <2>2
    <3> QED BY <2>1, <3>1, SubSeqProperties
  <2> QED BY <2>1, <2>2, <2>3, SMTT(20)
<1>4. op.kind \in WithTargets => some \in Seq(Int) /\ Len(some) <= MaxOuts - 2
  <2> HIDE DEF cases
  <2> QED BY <1>3, FirstCasesTyped
<1> HIDE DEF op, cases, some, default
<1>5. op.kind \in WithTargets =>
        /\ some \o default \in Seq(Int) /\ Len(some \o default) <= MaxOuts
        /\ (some \o default) \o <<i + 1>> \in Seq(Int)
        /\ Len((some \o default) \o <<i + 1>>) <= MaxOuts
  <2> SUFFICES ASSUME op.kind \in WithTargets
               PROVE  /\ some \o default \in Seq(Int)
                      /\ Len(some \o default) <= MaxOuts
                      /\ (some \o default) \o <<i + 1>> \in Seq(Int)
                      /\ Len((some \o default) \o <<i + 1>>) <= MaxOuts
    OBVIOUS
  <2>1. some \in Seq(Int) /\ Len(some) \in Nat /\ Len(some) <= MaxOuts - 2
        /\ default \in Seq(Int) /\ Len(default) = 1
    BY <1>3, <1>4, LenProperties
  <2>2. some \o default \in Seq(Int) /\ Len(some \o default) = Len(some) + 1
    BY <2>1, Joined
  <2>3. <<i + 1>> \in Seq(Int) /\ Len(<<i + 1>>) = 1
    BY <1>1, Singleton
  <2>4. /\ (some \o default) \o <<i + 1>> \in Seq(Int)
        /\ Len((some \o default) \o <<i + 1>>) = Len(some) + 1 + 1
    BY <2>1, <2>2, <2>3, Joined
  <2> QED BY <1>1, <2>1, <2>2, <2>4
<1>6. pcov_find_jumps(p, i) =
        CASE op.kind = "jmp"        -> <<op.to[1]>>
          [] op.kind = "cond"       -> <<i + 1, op.to[1]>>
          [] op.kind = "fast_call"  -> <<op.to[1], i + 1>>
          [] op.kind = "return"     -> <<EXIT>>
          [] op.kind = "catch"      -> IF op.to[1] = i + 1 THEN <<i + 1>>
                                                           ELSE <<i + 1, op.to[1]>>
          [] op.kind = "last_catch" -> <<i + 1, EXIT>>
          [] op.kind = "switch"     -> some \o default \o <<i + 1>>
          [] op.kind = "match"      -> some \o default
          [] OTHER                  -> <<>>
  BY DEF pcov_find_jumps, op, cases, some, default
<1>7. \A s : s \in OutLists <=> s \in Seq(Int) /\ Len(s) <= MaxOuts
  BY DEF OutLists
<1>8. \A a, b \in Int : <<>> \in OutLists /\ <<a>> \in OutLists /\ <<a, b>> \in OutLists
  <2>1. <<>> \in OutLists
    BY <1>1, Empty DEF OutLists
  <2>2. \A a \in Int : <<a>> \in OutLists
    BY <1>1, <1>7, Singleton
  <2>3. \A a, b \in Int : <<a, b>> \in OutLists
    BY <1>1, <1>7, Pair
  <2> QED BY <2>1, <2>2, <2>3
<1>9. CASE op.kind \in WithTargets
  <2>1. CASE op.kind \in {"jmp", "cond", "fast_call", "catch"}
    <3>1. \A a \in Int : /\ <<a>> \in OutLists
                         /\ <<i + 1, a>> \in OutLists /\ <<a, i + 1>> \in OutLists
      BY <1>1, <1>8
    <3>2. <<i + 1>> \in OutLists
      BY <1>1, <1>8
    <3>3. op.to[1] \in Int
      BY <1>3, <1>9
    <3>4. CASE op.kind = "jmp"
      BY <1>6, <3>4, <3>3, <1>8
    <3>5. CASE op.kind = "cond"
      BY <1>6, <3>5, <3>3, <3>1
    <3>6. CASE op.kind = "fast_call"
      BY <1>6, <3>6, <3>3, <3>1
    <3>7. CASE op.kind = "catch"
      <4> DEFINE one == <<i + 1>>
                 both == <<i + 1, op.to[1]>>
      <4>1. pcov_find_jumps(p, i) = IF op.to[1] = i + 1 THEN one ELSE both
        BY <1>6, <3>7
      <4>2. one \in OutLists
        BY <3>2
      <4>3. both \in OutLists
        BY <3>1, <3>3
      <4> HIDE DEF one, both
      <4> QED BY <4>1, <4>2, <4>3
    <3> QED BY <2>1, <3>4, <3>5, <3>6, <3>7
  <2>2. CASE op.kind \in {"switch", "match"}
    <3> DEFINE most == some \o default
               all  == most \o <<i + 1>>
    <3>1. most \in OutLists
      BY <1>5, <1>7, <1>9
    <3>2. all \in OutLists
      BY <1>5, <1>7, <1>9
    <3>3. pcov_find_jumps(p, i) = IF op.kind = "switch" THEN all ELSE most
      BY <1>6, <2>2
    <3> HIDE DEF most, all
    <3> QED BY <3>1, <3>2, <3>3
  <2> QED BY <1>9, <2>1, <2>2 DEF WithTargets
<1>10. CASE op.kind \notin WithTargets
  BY <1>1, <1>2, <1>6, <1>8, <1>10 DEF WithTargets, Kinds
<1> QED
  BY <1>9, <1>10

(* A walk goes to the first opcode that stops it, or to the end.           *)
LEMMA WalkShape ==
  ASSUME NEW p \in Programs, NEW pos \in Ops(p)
  PROVE  \/ /\ \A j \in Stops(p) : j < pos
            /\ Walked(p, pos) = pos .. p.last
            /\ Walked(p, pos) \intersect Stops(p) = {}
         \/ \E e \in Stops(p) :
              /\ pos <= e /\ \A j \in pos .. e - 1 : j \notin Stops(p)
              /\ Walked(p, pos) = pos .. e
              /\ Walked(p, pos) \intersect Stops(p) = {e}
<1> DEFINE ahead == {j \in Stops(p) : j >= pos}
<1>1. p.last \in Nat \ {0} /\ Ops(p) = 0 .. p.last - 1 /\ Stops(p) \subseteq Ops(p)
  BY OpTyped DEF Ops, Stops
<1>2. CASE ahead = {}
  <2>1. \A j \in Stops(p) : j < pos /\ ~(j >= pos)
    BY <1>1, <1>2
  <2>2. Walked(p, pos) = {i \in 0 .. p.last : i >= pos}
    BY <2>1 DEF Walked
  <2>3. Walked(p, pos) = pos .. p.last
    BY <1>1, <2>2
  <2> QED BY <1>1, <2>1, <2>3
<1>3. CASE ahead # {}
  <2>1. ahead \subseteq Nat
    BY <1>1
  <2>2. PICK e \in ahead : \A j \in ahead : e <= j
    <3> HIDE DEF ahead
    <3> QED BY <1>3, <2>1, Least
  <2>3. e \in Stops(p) /\ pos <= e /\ \A j \in Stops(p) : j >= pos => e <= j
    BY <1>1, <2>2
  <2>4. \A j \in pos .. e - 1 : j \notin Stops(p)
    BY <1>1, <2>3
  <2>5. Walked(p, pos) = pos .. e
    BY <1>1, <2>3 DEF Walked
  <2>6. Walked(p, pos) \intersect Stops(p) = {e}
    BY <1>1, <2>3, <2>4, <2>5
  <2> QED BY <2>3, <2>4, <2>5, <2>6
<1> QED BY <1>2, <1>3

Walks == {w \in Seq(Int) : w # <<>> /\ LastOf(w) \in Ops(opa)}

Invocations == [walk : Walks, i : Nat \ {0}, found : BOOLEAN]

(* The type invariant, with what is left out of TypeOK: pending calls of   *)
(* pcov_branch_find_path have a walk that ends in the op_array.            *)
TInv ==
  /\ opa \in Programs
  /\ phase \in {"analysis", "process", "paths", "done"}
  /\ position \in 0 .. opa.last
  /\ pending \in Seq(Int)
  /\ set \subseteq 0 .. opa.last
  /\ starts \subseteq Ops(opa) /\ ends \subseteq Ops(opa)
  /\ entry_points \subseteq Ops(opa)
  /\ outs \in [Ops(opa) -> OutLists]
  /\ last_start \in Ops(opa) \union {-1}
  /\ in_branch \in BOOLEAN
  /\ calls \in Seq(Invocations)
  /\ paths \in Seq(Seq(Int))

-----------------------------------------------------------------------------
(* What pcov_analysis_branch does with a pending position: it was walked,  *)
(* the walk from it runs off the end, or the walk from it ends at e.       *)

Skip(pos) ==
  /\ pos \notin Ops(opa) \/ pos \in Done
  /\ starts' = starts \union ({pos} \intersect Ops(opa))
  /\ pending' = Tail(pending)
  /\ UNCHANGED <<Done, ends, outs>>

WalkOff(pos) ==
  /\ pos \in Ops(opa) \ Done /\ \A j \in Stops(opa) : j < pos
  /\ starts' = starts \union {pos}
  /\ Done' = Done \union (pos .. opa.last - 1)
  /\ pending' = Tail(pending)
  /\ UNCHANGED <<ends, outs>>

WalkTo(pos, e) ==
  /\ pos \in Ops(opa) \ Done /\ e \in Stops(opa)
  /\ pos <= e /\ \A j \in pos .. e - 1 : j \notin Stops(opa)
  /\ starts' = starts \union {pos}
  /\ Done' = Done \union (pos .. e)
  /\ pending' = pcov_find_jumps(opa, e) \o Tail(pending)
  /\ ends' = ends \union {e}
  /\ outs' = [outs EXCEPT ![e] = pcov_find_jumps(opa, e)]

LEMMA BranchSteps ==
  ASSUME TInv, pcov_analysis_branch
  PROVE  /\ phase = "analysis" /\ pending # <<>>
         /\ UNCHANGED <<opa, phase, position, entry_points, processVars, pathVars>>
         /\ set' \subseteq set \union (0 .. opa.last)
         /\ \/ Skip(Head(pending))
            \/ WalkOff(Head(pending))
            \/ \E e \in Stops(opa) : WalkTo(Head(pending), e)
<1> DEFINE pos   == Head(pending)
           walk  == Walked(opa, pos)
           stop  == walk \intersect Stops(opa)
           jumps == [i \in stop |-> pcov_find_jumps(opa, i)]
<1>1. /\ phase = "analysis" /\ pending # <<>>
      /\ UNCHANGED <<opa, phase, position, entry_points, processVars, pathVars>>
  BY DEF pcov_analysis_branch
<1>2. CASE pos \notin Ops(opa) \/ Seen(pos)
  <2>1. set' = set /\ Done' = Done
    BY <1>1, <1>2 DEF pcov_analysis_branch, Done, Ops
  <2>2. pos \notin Ops(opa) \/ pos \in Done
    BY <1>2 DEF Seen, Done
  <2> QED BY <1>1, <1>2, <2>1, <2>2 DEF pcov_analysis_branch, Skip
<1>3. CASE ~(pos \notin Ops(opa) \/ Seen(pos))
  <2>1. /\ starts' = starts \union {pos}
        /\ set'    = set \union walk
        /\ ends'   = ends \union stop
        /\ outs'   = [i \in Ops(opa) |-> IF i \in stop THEN jumps[i] ELSE outs[i]]
        /\ \/ \E i \in stop : pending' = jumps[i] \o Tail(pending)
           \/ stop = {} /\ pending' = Tail(pending)
    BY <1>3 DEF pcov_analysis_branch
  <2>2. opa \in Programs /\ pos \in Ops(opa) /\ pos \notin Done
        /\ outs = [i \in Ops(opa) |-> outs[i]] /\ Stops(opa) \subseteq Ops(opa)
    BY <1>3 DEF TInv, Seen, Stops, Done
  <2>9. opa.last \in Nat /\ Ops(opa) = 0 .. opa.last - 1 /\ walk \subseteq 0 .. opa.last
    BY <2>2, ProgramsAssumption DEF Ops, Walked
  <2>10. Done' = Done \union (walk \intersect Ops(opa))
    BY <1>1, <2>1 DEF Done, Ops
  <2>3. ASSUME /\ \A j \in Stops(opa) : j < pos
               /\ walk = pos .. opa.last
               /\ stop = {}
        PROVE  WalkOff(pos)
    <3>1. outs' = outs /\ ends' = ends /\ pending' = Tail(pending)
      BY <2>1, <2>2, <2>3
    <3>2. Done' = Done \union (pos .. opa.last - 1)
      <4>1. walk \intersect Ops(opa) = pos .. opa.last - 1
        BY <2>2, <2>3, <2>9
      <4> QED BY <2>10, <4>1
    <3> QED BY <1>1, <2>1, <2>2, <2>3, <3>1, <3>2 DEF WalkOff
  <2>4. ASSUME NEW e \in Stops(opa), pos <= e, \A j \in pos .. e - 1 : j \notin Stops(opa),
               walk = pos .. e, stop = {e}
        PROVE  WalkTo(pos, e)
    <3>1. jumps[e] = pcov_find_jumps(opa, e)
      BY <2>4
    <3>2. pending' = pcov_find_jumps(opa, e) \o Tail(pending)
      <4>1. PICK i \in stop : pending' = jumps[i] \o Tail(pending)
        BY <2>1, <2>4
      <4>2. i = e
        BY <2>4
      <4> QED BY <3>1, <4>1, <4>2
    <3>3. outs' = [outs EXCEPT ![e] = pcov_find_jumps(opa, e)]
      <4>1. \A i : (IF i \in stop THEN jumps[i] ELSE outs[i])
                     = IF i = e THEN pcov_find_jumps(opa, e) ELSE outs[i]
        BY <2>4, <3>1
      <4> HIDE DEF jumps, stop
      <4> QED BY <2>1, <2>2, <4>1
    <3>4. Done' = Done \union (pos .. e) /\ ends' = ends \union {e}
      <4>1. walk \intersect Ops(opa) = pos .. e
        BY <2>2, <2>4, <2>9
      <4> QED BY <2>1, <2>4, <2>10, <4>1
    <3> QED BY <2>1, <2>2, <2>4, <3>2, <3>3, <3>4 DEF WalkTo
  <2> QED
    <3>1. \/ /\ \A j \in Stops(opa) : j < pos
             /\ walk = pos .. opa.last
             /\ stop = {}
          \/ \E e \in Stops(opa) :
               /\ pos <= e /\ \A j \in pos .. e - 1 : j \notin Stops(opa)
               /\ walk = pos .. e
               /\ stop = {e}
      BY <2>2, WalkShape
    <3> HIDE DEF pos, walk, stop, jumps
    <3>2. WalkOff(pos) \/ \E e \in Stops(opa) : WalkTo(pos, e)
      <4>1. ASSUME NEW e \in Stops(opa), pos <= e,
                   \A j \in pos .. e - 1 : j \notin Stops(opa), walk = pos .. e, stop = {e}
            PROVE  \E x \in Stops(opa) : WalkTo(pos, x)
        BY <2>4, <4>1
      <4>2. CASE /\ \A j \in Stops(opa) : j < pos
                 /\ walk = pos .. opa.last
                 /\ stop = {}
        BY <2>3, <4>2
      <4>3. CASE \E e \in Stops(opa) :
                   /\ pos <= e /\ \A j \in pos .. e - 1 : j \notin Stops(opa)
                   /\ walk = pos .. e
                   /\ stop = {e}
        <5>1. PICK e \in Stops(opa) :
                /\ pos <= e /\ \A j \in pos .. e - 1 : j \notin Stops(opa)
                /\ walk = pos .. e
                /\ stop = {e}
          BY <4>3
        <5> QED BY <4>1, <5>1
      <4> QED BY <3>1, <4>2, <4>3
    <3>3. set' \subseteq set \union (0 .. opa.last)
      BY <2>1, <2>9
    <3> QED BY <1>1, <3>2, <3>3 DEF pos
<1> QED BY <1>2, <1>3

LEMMA TypesInit == Init => TInv
<1> SUFFICES ASSUME Init
             PROVE  TInv
  OBVIOUS
<1>1. opa \in Programs /\ opa.last \in Nat \ {0}
  BY ProgramsAssumption DEF Init
<1>2. <<>> \in OutLists
  BY ProgramsAssumption, Empty DEF OutLists
<1>3. pending = <<>> /\ <<>> \in Seq(Int) /\ calls = <<>> /\ <<>> \in Seq(Invocations)
      /\ paths = <<>> /\ <<>> \in Seq(Seq(Int))
  BY DEF Init
<1>4. outs \in [Ops(opa) -> OutLists]
  BY <1>2 DEF Init
<1>5. position = 0 /\ 0 \in 0 .. opa.last
  BY <1>1 DEF Init
<1> QED
  <2>1. pending \in Seq(Int) /\ calls \in Seq(Invocations) /\ paths \in Seq(Seq(Int))
    BY <1>3
  <2> QED BY <1>1, <1>4, <1>5, <2>1 DEF Init, TInv

LEMMA BranchTypes ==
  ASSUME TInv, pcov_analysis_branch
  PROVE  TInv'
<1>1. /\ phase = "analysis" /\ pending # <<>>
      /\ UNCHANGED <<opa, phase, position, entry_points, processVars, pathVars>>
  BY BranchSteps
<1>2. opa \in Programs /\ opa.last \in Nat \ {0} /\ Ops(opa) = 0 .. opa.last - 1
      /\ Stops(opa) \subseteq Ops(opa)
  BY ProgramsAssumption DEF TInv, Ops, Stops
<1>3. Tail(pending) \in Seq(Int) /\ set' \subseteq 0 .. opa.last
  BY <1>1, BranchSteps, HeadTailProperties DEF TInv
<1>4. /\ starts' \subseteq Ops(opa) /\ ends' \subseteq Ops(opa)
      /\ pending' \in Seq(Int) /\ outs' \in [Ops(opa) -> OutLists]
  <2> DEFINE pos == Head(pending)
  <2>1. CASE Skip(pos)
    BY <1>3, <2>1 DEF Skip, TInv
  <2>2. CASE WalkOff(pos)
    BY <1>2, <1>3, <2>2 DEF WalkOff, TInv
  <2>3. ASSUME NEW e \in Stops(opa), WalkTo(pos, e)
        PROVE  <1>4!1 /\ <1>4!2
    <3>1. pcov_find_jumps(opa, e) \in OutLists
      BY <1>2, JumpsTyped
    <3>2. pcov_find_jumps(opa, e) \in Seq(Int)
      BY <3>1 DEF OutLists
    <3>3. pending' \in Seq(Int)
      BY <1>3, <2>3, <3>2, Joined DEF WalkTo
    <3>4. outs' \in [Ops(opa) -> OutLists]
      BY <1>2, <2>3, <3>1 DEF WalkTo, TInv
    <3>5. starts' \subseteq Ops(opa) /\ ends' \subseteq Ops(opa)
      <4>1. pos \in Ops(opa) /\ e \in Ops(opa) /\ pos .. e \subseteq Ops(opa)
        BY <1>2, <2>3 DEF WalkTo
      <4> QED BY <2>3, <4>1 DEF WalkTo, TInv
    <3> QED BY <3>3, <3>4, <3>5
  <2> QED
    <3> HIDE DEF pos
    <3>1. Skip(pos) \/ WalkOff(pos) \/ \E e \in Stops(opa) : WalkTo(pos, e)
      BY BranchSteps DEF pos
    <3> QED BY <2>1, <2>2, <2>3, <3>1
<1> QED
  BY <1>1, <1>2, <1>3, <1>4 DEF TInv, Walks, Invocations, Ops, processVars, pathVars

LEMMA ScanTypes ==
  ASSUME TInv, pcov_analysis_oparray
  PROVE  TInv'
<1>1. opa \in Programs /\ opa.last \in Nat \ {0} /\ Ops(opa) = 0 .. opa.last - 1
      /\ position \in 0 .. opa.last /\ opa' = opa /\ Ops(opa)' = Ops(opa)
  BY ProgramsAssumption DEF TInv, Ops, pcov_analysis_oparray
<1>2. /\ position' \in 0 .. opa.last /\ phase' \in {"analysis", "process"}
      /\ pending' \in Seq(Int) /\ entry_points' \subseteq Ops(opa) /\ ends' \subseteq Ops(opa)
  <2>1. CASE position < opa.last
    <3>1. position \in Ops(opa) /\ <<position>> \in Seq(Int)
      BY <1>1, <2>1, Singleton
    <3>2. phase' = phase /\ phase = "analysis" /\ ends' = ends /\ position' = position + 1
          /\ (pending' = <<position>> \/ pending' = pending)
          /\ (entry_points' = entry_points \union {position} \/ entry_points' = entry_points)
      BY <2>1 DEF pcov_analysis_oparray
    <3>3. pending' \in Seq(Int)
      <4> DEFINE one == <<position>>
      <4>1. one \in Seq(Int) /\ (pending' = one \/ pending' = pending)
        BY <3>1, <3>2
      <4> HIDE DEF one
      <4> QED BY <4>1 DEF TInv
    <3>4. entry_points' \subseteq Ops(opa)
      BY <3>1, <3>2 DEF TInv
    <3>5. position' \in 0 .. opa.last
      BY <1>1, <2>1, <3>2
    <3> QED BY <3>2, <3>3, <3>4, <3>5 DEF TInv
  <2>2. CASE ~(position < opa.last)
    <3>1. opa.last - 1 \in Ops(opa) /\ 0 \in 0 .. opa.last
      BY <1>1
    <3> QED BY <2>2, <3>1 DEF pcov_analysis_oparray, TInv
  <2> QED BY <2>1, <2>2
<1> QED
  BY <1>1, <1>2 DEF pcov_analysis_oparray, TInv, Walks, Invocations, processVars, pathVars

LEMMA ProcessTypes ==
  ASSUME TInv, pcov_branch_post_process
  PROVE  TInv'
<1>1. opa \in Programs /\ opa.last \in Nat \ {0} /\ Ops(opa) = 0 .. opa.last - 1
      /\ position \in 0 .. opa.last /\ opa' = opa /\ Ops(opa)' = Ops(opa)
  BY ProgramsAssumption DEF TInv, Ops, pcov_branch_post_process
<1>2. /\ position' \in 0 .. opa.last /\ phase' \in {"process", "paths"}
      /\ outs' \in [Ops(opa) -> OutLists] /\ last_start' \in Ops(opa) \union {-1}
      /\ in_branch' \in BOOLEAN
  <2>1. CASE position < opa.last
    <3>1. position \in Ops(opa) /\ <<position>> \in OutLists
      BY <1>1, <2>1, Singleton, ProgramsAssumption DEF OutLists
    <3> DEFINE i == position
               fell == IF i \in starts /\ in_branch
                       THEN [outs EXCEPT ![last_start] = <<i>>] ELSE outs
               here == IF i \in starts THEN i ELSE last_start
    <3>2. fell \in [Ops(opa) -> OutLists]
      <4> DEFINE one == <<i>>
      <4>1. one \in OutLists /\ outs \in [Ops(opa) -> OutLists]
        BY <3>1 DEF TInv
      <4>2. fell = IF i \in starts /\ in_branch THEN [outs EXCEPT ![last_start] = one] ELSE outs
        OBVIOUS
      <4> HIDE DEF one, fell
      <4>3. [outs EXCEPT ![last_start] = one] \in [Ops(opa) -> OutLists]
        BY <4>1
      <4> QED BY <4>1, <4>2, <4>3
    <3>3. here \in Ops(opa) \union {-1}
      BY <3>1 DEF TInv
    <3>4. /\ outs' = (IF i \in ends THEN [fell EXCEPT ![here] = fell[i]] ELSE fell)
          /\ last_start' = here
          /\ in_branch'  = (i \notin ends /\ (in_branch \/ i \in starts))
          /\ position' = i + 1 /\ phase' = phase /\ phase = "process"
      BY <2>1 DEF pcov_branch_post_process, PostProcess
    <3> HIDE DEF fell, here
    <3>5. outs' \in [Ops(opa) -> OutLists]
      BY <3>1, <3>2, <3>4
    <3> QED BY <1>1, <2>1, <3>3, <3>4, <3>5
  <2>2. CASE ~(position < opa.last)
    BY <1>1, <2>2 DEF pcov_branch_post_process, TInv, processVars
  <2> QED BY <2>1, <2>2
<1> QED
  BY <1>1, <1>2 DEF pcov_branch_post_process, TInv, Walks, Invocations, analysisVars, pathVars

-----------------------------------------------------------------------------
(* What pcov_branch_find_path does with the next out-edge of the innermost *)
(* invocation: it does not follow it, is stopped by the cap, or goes on    *)
(* along it; or it is through with the out-edges and returns.              *)

Top == calls[Len(calls)]

Tos == outs[LastOf(Top.walk)]

Declines ==
  /\ Top.i <= Len(Tos) /\ ~Follows(Top.walk, Tos[Top.i])
  /\ calls' = [calls EXCEPT ![Len(calls)] = [Top EXCEPT !.i = @ + 1]]
  /\ UNCHANGED paths

IsCapped ==
  /\ Top.i <= Len(Tos) /\ Follows(Top.walk, Tos[Top.i])
  /\ Len(paths) >= MaxPaths
  /\ calls' = [calls EXCEPT ![Len(calls)] = [Top EXCEPT !.i = @ + 1, !.found = TRUE]]
  /\ UNCHANGED paths

Enters ==
  /\ Top.i <= Len(Tos) /\ Follows(Top.walk, Tos[Top.i])
  /\ Len(paths) < MaxPaths
  /\ calls' = Append([calls EXCEPT ![Len(calls)] =
                         [Top EXCEPT !.i = @ + 1, !.found = TRUE]],
                     [walk |-> Append(Top.walk, Tos[Top.i]), i |-> 1, found |-> FALSE])
  /\ UNCHANGED paths

Returns ==
  /\ Top.i > Len(Tos)
  /\ calls' = SubSeq(calls, 1, Len(calls) - 1)
  /\ paths' = IF Top.found THEN paths ELSE Append(paths, Top.walk)

LEMMA Replaced ==
  ASSUME NEW S, NEW s \in Seq(S), s # <<>>, NEW x \in S
  PROVE  Append(SubSeq(s, 1, Len(s) - 1), x) = [s EXCEPT ![Len(s)] = x]
<1> DEFINE r == SubSeq(s, 1, Len(s) - 1)
<1>1. Len(s) \in Nat \ {0}
  BY EmptySeq
<1>2. r \in Seq(S) /\ Len(r) = Len(s) - 1 /\ \A m \in 1 .. Len(s) - 1 : r[m] = s[m]
  <2>1. \A m \in 1 .. Len(s) - 1 : s[m] \in S
    BY <1>1, ElementOfSeq
  <2>2. r \in Seq(S)
    BY <1>1, <2>1, SubSeqProperties
  <2>3. Len(r) = Len(s) - 1
    <3> DEFINE n == Len(s)
    <3>1. Len(r) = IF 1 <= n - 1 THEN n - 1 - 1 + 1 ELSE 0
      BY <1>1, <2>1, SubSeqProperties
    <3>2. n \in Nat \ {0}
      BY <1>1
    <3> HIDE DEF r, n
    <3>3. Len(r) = n - 1
      BY <3>1, <3>2
    <3> QED BY <3>3 DEF n
  <2>4. \A m \in 1 .. Len(s) - 1 : r[m] = s[m]
    BY <1>1
  <2> QED BY <2>2, <2>3, <2>4
<1>3. /\ Append(r, x) \in Seq(S) /\ Len(Append(r, x)) = Len(s)
      /\ \A m \in 1 .. Len(s) : Append(r, x)[m] = IF m = Len(s) THEN x ELSE s[m]
  <2> HIDE DEF r
  <2> QED BY <1>1, <1>2
<1>4. /\ [s EXCEPT ![Len(s)] = x] \in Seq(S) /\ Len([s EXCEPT ![Len(s)] = x]) = Len(s)
      /\ \A m \in 1 .. Len(s) : [s EXCEPT ![Len(s)] = x][m] = IF m = Len(s) THEN x ELSE s[m]
  BY <1>1, ExceptSeq
<1> HIDE DEF r
<1> DEFINE a == Append(r, x)
           b == [s EXCEPT ![Len(s)] = x]
<1>5. a = b
  <2>1. a \in Seq(S) /\ b \in Seq(S) /\ Len(a) = Len(b)
        /\ \A m \in 1 .. Len(a) : a[m] = b[m]
    BY <1>3, <1>4
  <2> HIDE DEF a, b
  <2> QED BY <2>1, SeqEqual
<1> QED BY <1>5 DEF r

LEMMA TopTyped ==
  ASSUME TInv, calls # <<>>
  PROVE  /\ Len(calls) \in Nat \ {0} /\ Top \in Invocations
         /\ Top.walk \in Seq(Int) /\ Len(Top.walk) \in Nat \ {0}
         /\ LastOf(Top.walk) \in Ops(opa) /\ Tos \in Seq(Int)
         /\ Top.i \in Nat \ {0} /\ Top.found \in BOOLEAN
         /\ Top = [walk |-> Top.walk, i |-> Top.i, found |-> Top.found]
<1>1. Len(calls) \in Nat \ {0}
  BY EmptySeq DEF TInv
<1>2. Top \in Invocations
  BY <1>1, ElementOfSeq DEF TInv, Top
<1>3. Top.walk \in Walks /\ Top.i \in Nat \ {0} /\ Top.found \in BOOLEAN
      /\ Top = [walk |-> Top.walk, i |-> Top.i, found |-> Top.found]
  BY <1>2 DEF Invocations
<1>4. Top.walk \in Seq(Int) /\ Top.walk # <<>> /\ LastOf(Top.walk) \in Ops(opa)
  BY <1>3 DEF Walks
<1>5. Tos \in Seq(Int)
  BY <1>4 DEF Tos, TInv, OutLists
<1> QED BY <1>1, <1>2, <1>3, <1>4, <1>5, EmptySeq

LEMMA PathSteps ==
  ASSUME TInv, pcov_branch_find_path
  PROVE  /\ phase = "paths" /\ calls # <<>>
         /\ UNCHANGED <<opa, phase, position, analysisVars, ends, entry_points,
                        outs, processVars>>
         /\ Declines \/ IsCapped \/ Enters \/ Returns
<1> DEFINE rest == SubSeq(calls, 1, Len(calls) - 1)
           moved == [Top EXCEPT !.i = @ + 1]
           going == [Top EXCEPT !.i = @ + 1, !.found = TRUE]
<1>1. /\ phase = "paths" /\ calls # <<>>
      /\ UNCHANGED <<opa, phase, position, analysisVars, ends, entry_points,
                     outs, processVars>>
  BY DEF pcov_branch_find_path
<1>2. /\ Len(calls) \in Nat \ {0} /\ Top \in Invocations
      /\ moved \in Invocations /\ going \in Invocations
  <2>1. /\ Top \in [walk : Walks, i : Nat \ {0}, found : BOOLEAN] /\ Top.i + 1 \in Nat \ {0}
        /\ Len(calls) \in Nat \ {0}
    BY <1>1, TopTyped DEF Invocations
  <2>2. moved \in [walk : Walks, i : Nat \ {0}, found : BOOLEAN]
    BY <2>1
  <2>3. going \in [walk : Walks, i : Nat \ {0}, found : BOOLEAN]
    BY <2>1
  <2> QED BY <2>1, <2>2, <2>3 DEF Invocations
<1>3. /\ Append(rest, moved) = [calls EXCEPT ![Len(calls)] = moved]
      /\ Append(rest, going) = [calls EXCEPT ![Len(calls)] = going]
  <2> HIDE DEF moved, going
  <2> QED BY <1>1, <1>2, Replaced DEF TInv
<1>4. IF Top.i <= Len(Tos)
      THEN /\ calls' = IF Follows(Top.walk, Tos[Top.i])
                       THEN Invoke(Append(rest, going), Append(Top.walk, Tos[Top.i]))
                       ELSE Append(rest, moved)
           /\ UNCHANGED paths
      ELSE /\ calls' = rest
           /\ paths' = IF Top.found THEN paths ELSE Append(paths, Top.walk)
  BY DEF pcov_branch_find_path, Top, Tos, LastOf, pcov_path_new
<1> HIDE DEF rest, moved, going
<1>5. CASE Top.i <= Len(Tos) /\ ~Follows(Top.walk, Tos[Top.i])
  BY <1>1, <1>3, <1>4, <1>5 DEF Declines, moved
<1>6. CASE Top.i <= Len(Tos) /\ Follows(Top.walk, Tos[Top.i])
  <2>1. calls' = Invoke(Append(rest, going), Append(Top.walk, Tos[Top.i])) /\ UNCHANGED paths
    BY <1>4, <1>6
  <2>2. CASE Len(paths) >= MaxPaths
    <3>1. calls' = Append(rest, going)
      BY <2>1, <2>2 DEF Invoke
    <3> QED BY <1>1, <1>3, <1>6, <2>1, <2>2, <3>1 DEF IsCapped, going
  <2>3. CASE ~(Len(paths) >= MaxPaths)
    <3>1. calls' = Append(Append(rest, going),
                          [walk |-> Append(Top.walk, Tos[Top.i]), i |-> 1, found |-> FALSE])
      BY <2>1, <2>3 DEF Invoke
    <3>2. Len(paths) < MaxPaths
      BY <2>3, LenProperties, ProgramsAssumption DEF TInv
    <3> QED BY <1>1, <1>3, <1>6, <2>1, <3>1, <3>2 DEF Enters, going
  <2> QED BY <2>2, <2>3
<1>7. CASE ~(Top.i <= Len(Tos))
  <2>1. Top.i > Len(Tos)
    BY <1>1, <1>7, TopTyped, LenProperties
  <2> QED BY <1>1, <1>4, <1>7, <2>1 DEF Returns, rest
<1> QED BY <1>5, <1>6, <1>7

LEMMA FrontTyped ==
  ASSUME NEW S, NEW s \in Seq(S), s # <<>>
  PROVE  /\ SubSeq(s, 1, Len(s) - 1) \in Seq(S)
         /\ Len(SubSeq(s, 1, Len(s) - 1)) = Len(s) - 1
         /\ \A m \in 1 .. Len(s) - 1 : SubSeq(s, 1, Len(s) - 1)[m] = s[m]
<1> DEFINE r == SubSeq(s, 1, Len(s) - 1)
           n == Len(s)
<1>1. Len(s) \in Nat \ {0}
  BY EmptySeq
<1>2. \A m \in 1 .. Len(s) - 1 : s[m] \in S
  BY <1>1, ElementOfSeq
<1>3. r \in Seq(S)
  BY <1>1, <1>2, SubSeqProperties
<1>4. Len(r) = IF 1 <= n - 1 THEN n - 1 - 1 + 1 ELSE 0
  BY <1>1, <1>2, SubSeqProperties
<1>5. \A m \in 1 .. Len(s) - 1 : r[m] = s[m]
  BY <1>1
<1>6. n \in Nat \ {0}
  BY <1>1
<1> HIDE DEF r, n
<1>7. Len(r) = n - 1
  BY <1>4, <1>6
<1> QED BY <1>3, <1>5, <1>7 DEF r, n

(* A walk prolonged by an out-edge that is followed is a walk.             *)
LEMMA Prolonged ==
  ASSUME NEW w \in Seq(Int), NEW o \in Int
  PROVE  /\ Append(w, o) \in Seq(Int) /\ Append(w, o) # <<>>
         /\ Len(Append(w, o)) = Len(w) + 1 /\ LastOf(Append(w, o)) = o
         /\ \A m \in 1 .. Len(w) : Append(w, o)[m] = w[m]
<1>1. /\ Append(w, o) \in Seq(Int) /\ Len(Append(w, o)) = Len(w) + 1 /\ Len(w) \in Nat
      /\ \A m \in 1 .. Len(w) : Append(w, o)[m] = w[m]
      /\ Append(w, o)[Len(w) + 1] = o
  OBVIOUS
<1>2. Append(w, o) # <<>>
  BY <1>1, Empty
<1> QED BY <1>1, <1>2 DEF LastOf

LEMMA PathTypes ==
  ASSUME TInv, pcov_branch_find_path
  PROVE  TInv'
<1>1. /\ phase = "paths" /\ calls # <<>>
      /\ UNCHANGED <<opa, phase, position, analysisVars, ends, entry_points,
                     outs, processVars>>
      /\ Declines \/ IsCapped \/ Enters \/ Returns
  BY PathSteps
<1>2. /\ Len(calls) \in Nat \ {0} /\ Top \in [walk : Walks, i : Nat \ {0}, found : BOOLEAN]
      /\ Top.walk \in Seq(Int) /\ Tos \in Seq(Int)
      /\ calls \in Seq(Invocations) /\ Top.i \in Nat \ {0}
  BY <1>1, TopTyped DEF TInv, Invocations
<1>3. \A x \in Invocations : [calls EXCEPT ![Len(calls)] = x] \in Seq(Invocations)
  BY <1>2, ExceptSeq
<1>4. /\ [Top EXCEPT !.i = @ + 1] \in Invocations
      /\ [Top EXCEPT !.i = @ + 1, !.found = TRUE] \in Invocations
  <2>1. Top.i + 1 \in Nat \ {0}
    BY <1>2
  <2>2. [Top EXCEPT !.i = @ + 1] \in [walk : Walks, i : Nat \ {0}, found : BOOLEAN]
    BY <1>2, <2>1
  <2>3. [Top EXCEPT !.i = @ + 1, !.found = TRUE] \in [walk : Walks, i : Nat \ {0}, found : BOOLEAN]
    BY <1>2, <2>1
  <2> QED BY <2>2, <2>3 DEF Invocations
<1>5. calls' \in Seq(Invocations) /\ paths' \in Seq(Seq(Int))
  <2>1. CASE Declines
    BY <1>3, <1>4, <2>1 DEF Declines, TInv
  <2>2. CASE IsCapped
    BY <1>3, <1>4, <2>2 DEF IsCapped, TInv
  <2>3. CASE Enters
    <3> DEFINE o == Tos[Top.i]
               child == [walk |-> Append(Top.walk, o), i |-> 1, found |-> FALSE]
               going == [calls EXCEPT ![Len(calls)] = [Top EXCEPT !.i = @ + 1, !.found = TRUE]]
    <3>1. o \in Int /\ o \in Ops(opa)
      <4>1. Top.i \in 1 .. Len(Tos)
        BY <1>2, <2>3, LenProperties DEF Enters
      <4> QED BY <1>2, <2>3, <4>1, ElementOfSeq DEF Enters, Follows
    <3>2. child \in Invocations
      <4> HIDE DEF o
      <4>1. Append(Top.walk, o) \in Walks
        BY <1>2, <3>1, Prolonged DEF Walks
      <4> QED BY <4>1 DEF Invocations
    <3>3. going \in Seq(Invocations)
      BY <1>3, <1>4
    <3>4. calls' = Append(going, child) /\ paths' = paths
      BY <2>3 DEF Enters
    <3> HIDE DEF going, child
    <3> QED BY <3>2, <3>3, <3>4 DEF TInv
  <2>4. CASE Returns
    <3>1. calls' \in Seq(Invocations)
      BY <1>1, <1>2, <2>4, FrontTyped DEF Returns
    <3>2. paths' \in Seq(Seq(Int))
      BY <1>2, <2>4 DEF Returns, TInv
    <3> QED BY <3>1, <3>2
  <2> QED BY <1>1, <2>1, <2>2, <2>3, <2>4
<1> QED
  BY <1>1, <1>5 DEF TInv, Walks, Invocations, Ops, analysisVars, processVars

LEMMA EntryTypes ==
  ASSUME TInv, pcov_branch_find_paths
  PROVE  TInv'
<1>1. opa \in Programs /\ opa.last \in Nat \ {0} /\ Ops(opa) = 0 .. opa.last - 1
      /\ position \in 0 .. opa.last /\ opa' = opa /\ Ops(opa)' = Ops(opa)
  BY ProgramsAssumption DEF TInv, Ops, pcov_branch_find_paths
<1>2. position' \in 0 .. opa.last /\ phase' \in {"paths", "done"} /\ calls' \in Seq(Invocations)
  <2>1. CASE position < opa.last
    <3> DEFINE first == [walk |-> <<position>>, i |-> 1, found |-> FALSE]
    <3>1. first \in Invocations
      <4>1. <<position>> \in Seq(Int) /\ Len(<<position>>) = 1
        BY <1>1, Singleton
      <4>2. <<position>> \in Walks
        BY <1>1, <2>1, <4>1, Empty DEF Walks, LastOf
      <4> DEFINE w == <<position>>
      <4> HIDE DEF w
      <4>3. [walk |-> w, i |-> 1, found |-> FALSE] \in Invocations
        BY <4>2 DEF Invocations, w
      <4> QED BY <4>3 DEF w
    <3>2. calls' = calls \/ calls' = Append(calls, first)
      BY <2>1 DEF pcov_branch_find_paths, Invoke
    <3> HIDE DEF first
    <3>3. calls' \in Seq(Invocations)
      <4>1. calls \in Seq(Invocations)
        BY DEF TInv
      <4>2. Append(calls, first) \in Seq(Invocations)
        BY <3>1, <4>1
      <4> QED BY <3>2, <4>1, <4>2
    <3>4. position' = position + 1 /\ phase' = phase /\ phase = "paths"
      BY <2>1 DEF pcov_branch_find_paths
    <3> QED BY <1>1, <2>1, <3>3, <3>4
  <2>2. CASE ~(position < opa.last)
    BY <1>1, <2>2 DEF pcov_branch_find_paths, TInv
  <2> QED BY <2>1, <2>2
<1> QED
  BY <1>1, <1>2 DEF pcov_branch_find_paths, TInv, Walks, Invocations, analysisVars, processVars

LEMMA TypesStep == TInv /\ [Next]_vars => TInv'
<1> SUFFICES ASSUME TInv, [Next]_vars
             PROVE  TInv'
  OBVIOUS
<1>1. CASE pcov_analysis_branch
  BY <1>1, BranchTypes
<1>2. CASE pcov_analysis_oparray
  BY <1>2, ScanTypes
<1>3. CASE pcov_branch_post_process
  BY <1>3, ProcessTypes
<1>4. CASE pcov_branch_find_path
  BY <1>4, PathTypes
<1>5. CASE pcov_branch_find_paths
  BY <1>5, EntryTypes
<1>6. CASE UNCHANGED vars
  BY <1>6 DEF vars, analysisVars, processVars, pathVars, TInv, Walks, Invocations
<1> QED
  BY <1>1, <1>2, <1>3, <1>4, <1>5, <1>6 DEF Next

(* The analysis stays inside its arrays: positions, starts, ends and entry *)
(* points are opcodes, and no opcode, not even a switch with more cases    *)
(* than fit, has more out-edges than pcov_branch_info has room for.        *)
THEOREM TypesCorrect == Spec => []TypeOK
<1>1. TInv => TypeOK
  BY DEF TInv, TypeOK, OutLists
<1>2. Init /\ [][Next]_vars => []TInv
  BY TypesInit, TypesStep, PTL
<1> QED
  BY <1>1, <1>2, PTL DEF Spec

-----------------------------------------------------------------------------
(* The room of the walk's set.                                             *)

LEMMA EnoughWords ==
  ASSUME NEW n \in Nat \ {0}
  PROVE  n <= WordBits * ((n + WordBits - 1) \div WordBits)
<1>1. WordBits \in Nat \ {0}
  BY ProgramsAssumption
<1>2. ASSUME NEW w \in Nat \ {0}
      PROVE  n <= w * ((n + w - 1) \div w)
  OBVIOUS
<1> QED
  BY <1>1, <1>2

(* A walk of an op_array whose last opcode stops it stays in the op_array. *)
Stopped == opa.last - 1 \in Stops(opa) => set \subseteq Ops(opa)

LEMMA StoppedStep ==
  ASSUME TInv, Stopped, [Next]_vars
  PROVE  Stopped'
<1>1. CASE pcov_analysis_branch
  <2>1. SUFFICES ASSUME opa.last - 1 \in Stops(opa)
                 PROVE  set' \subseteq Ops(opa)
    BY <1>1 DEF pcov_analysis_branch, Stopped, Stops, Ops
  <2> DEFINE pos == Head(pending)
  <2>2. \/ set' = set
        \/ pos \in Ops(opa) /\ set' = set \union Walked(opa, pos)
    BY <1>1 DEF pcov_analysis_branch
  <2>3. opa.last \in Nat \ {0}
    BY ProgramsAssumption DEF TInv
  <2>4. pos \in Ops(opa) => Walked(opa, pos) \subseteq Ops(opa)
    <3>1. ASSUME pos \in Ops(opa), NEW i \in Walked(opa, pos)
          PROVE  i \in Ops(opa)
      <4>1. pos <= opa.last - 1
        BY <2>3, <3>1 DEF Ops
      <4>2. i \in 0 .. opa.last /\ i <= opa.last - 1
        BY <2>1, <3>1, <4>1 DEF Walked
      <4> QED BY <2>3, <4>2 DEF Ops
    <3> QED BY <3>1
  <2> QED BY <2>1, <2>2, <2>4 DEF Stopped
<1>2. CASE pcov_analysis_oparray
  BY <1>2 DEF pcov_analysis_oparray, Stopped, Stops, Ops
<1>3. CASE pcov_branch_post_process
  BY <1>3 DEF pcov_branch_post_process, analysisVars, Stopped, Stops, Ops
<1>4. CASE pcov_branch_find_path
  BY <1>4 DEF pcov_branch_find_path, analysisVars, Stopped, Stops, Ops
<1>5. CASE pcov_branch_find_paths
  BY <1>5 DEF pcov_branch_find_paths, analysisVars, Stopped, Stops, Ops
<1>6. CASE UNCHANGED vars
  BY <1>6 DEF vars, analysisVars, Stopped, Stops, Ops
<1> QED
  BY <1>1, <1>2, <1>3, <1>4, <1>5, <1>6 DEF Next

(* pcov_analysis_branch writes no bit behind the words allocated for set,  *)
(* whatever their size, where the last opcode stops the walk.              *)
THEOREM SetStaysInBounds == Spec => []SetInBounds
<1>1. Init => TInv /\ Stopped
  BY TypesInit DEF Init, Stopped
<1>2. TInv /\ [Next]_vars => TInv'
  BY TypesStep
<1>3. TInv /\ Stopped /\ [Next]_vars => Stopped'
  BY StoppedStep
<1>4. TInv /\ Stopped => SetInBounds
  <2>1. SUFFICES ASSUME TInv, opa.last - 1 \in Stops(opa), set \subseteq Ops(opa)
                 PROVE  set \subseteq Allocated(opa)
    BY DEF Stopped, SetInBounds
  <2> DEFINE room == WordBits * ((opa.last + WordBits - 1) \div WordBits)
  <2>2. opa.last \in Nat \ {0} /\ WordBits \in Nat \ {0}
    BY <2>1, ProgramsAssumption DEF TInv
  <2>3. opa.last <= room /\ room \in Int
    BY <2>2, EnoughWords
  <2> HIDE DEF room
  <2>4. Ops(opa) \subseteq 0 .. room - 1
    BY <2>2, <2>3 DEF Ops
  <2> QED BY <2>1, <2>4 DEF Allocated, room
<1> QED
  BY <1>1, <1>2, <1>3, <1>4, PTL DEF Spec

-----------------------------------------------------------------------------
(* The walk over the opcodes.                                              *)

LEMMA ElementsTail ==
  ASSUME NEW s \in Seq(Int), s # <<>>
  PROVE  Elements(s) = {Head(s)} \union Elements(Tail(s))
<1> DEFINE n == Len(s)
<1>1. n \in Nat \ {0} /\ Head(s) = s[1] /\ Len(Tail(s)) = n - 1
      /\ \A i \in 1 .. n - 1 : Tail(s)[i] = s[i + 1]
  BY EmptySeq, HeadTailProperties
<1>2. Elements(s) \subseteq {Head(s)} \union Elements(Tail(s))
  <2> SUFFICES ASSUME NEW i \in 1 .. n, i # 1
               PROVE  s[i] \in Elements(Tail(s))
    BY <1>1 DEF Elements
  <2>1. i - 1 \in 1 .. n - 1 /\ (i - 1) + 1 = i
    BY <1>1
  <2>2. Tail(s)[i - 1] = s[i]
    BY <1>1, <2>1
  <2> HIDE DEF n
  <2> QED BY <1>1, <2>1, <2>2 DEF Elements
<1>3. {Head(s)} \union Elements(Tail(s)) \subseteq Elements(s)
  <2>1. 1 \in 1 .. n /\ \A i \in 1 .. n - 1 : i + 1 \in 1 .. n
    BY <1>1
  <2> QED BY <1>1, <2>1 DEF Elements
<1> QED BY <1>2, <1>3

LEMMA ElementsJoined ==
  ASSUME NEW s \in Seq(Int), NEW t \in Seq(Int)
  PROVE  Elements(s \o t) = Elements(s) \union Elements(t)
<1>1. Len(s \o t) = Len(s) + Len(t) /\ Len(s) \in Nat /\ Len(t) \in Nat
  OBVIOUS
<1>2. \A i \in 1 .. Len(s) : (s \o t)[i] = s[i]
  OBVIOUS
<1>3. \A i \in 1 .. Len(t) : (s \o t)[Len(s) + i] = t[i]
  OBVIOUS
<1>4. \A i \in 1 .. Len(s \o t) :
        i \in 1 .. Len(s) \/ (i - Len(s) \in 1 .. Len(t) /\ Len(s) + (i - Len(s)) = i)
  BY <1>1
<1>5. Elements(s \o t) \subseteq Elements(s) \union Elements(t)
  BY <1>2, <1>3, <1>4 DEF Elements
<1>6. Elements(s) \subseteq Elements(s \o t)
  BY <1>1, <1>2 DEF Elements
<1>7. Elements(t) \subseteq Elements(s \o t)
  <2>1. \A i \in 1 .. Len(t) : Len(s) + i \in 1 .. Len(s \o t)
    BY <1>1
  <2> QED BY <1>3, <2>1 DEF Elements
<1> QED BY <1>5, <1>6, <1>7

LEMMA ElementsSmall ==
  /\ Elements(<<>>) = {}
  /\ \A a \in Int : Elements(<<a>>) = {a}
<1>1. Elements(<<>>) = {}
  BY Empty DEF Elements
<1>2. ASSUME NEW a \in Int
      PROVE  Elements(<<a>>) = {a}
  <2>1. Len(<<a>>) = 1 /\ <<a>>[1] = a /\ 1 .. 1 = {1}
    OBVIOUS
  <2> QED BY <2>1 DEF Elements
<1> QED BY <1>1, <1>2

(* Control that is in a closed set at a and is not stopped before b is in  *)
(* the set up to b.                                                        *)
LEMMA RunClosed ==
  ASSUME NEW p \in Programs, NEW S, S \subseteq Ops(p), NEW a \in S, NEW b \in Ops(p),
         \A i \in S : Flows(p, i) \intersect Ops(p) \subseteq S,
         \A j \in a .. b - 1 : j \notin Stops(p)
  PROVE  a .. b \subseteq S
<1>1. p.last \in Nat \ {0} /\ Ops(p) = 0 .. p.last - 1 /\ a \in Nat /\ b \in Nat
  BY OpTyped DEF Ops
<1> DEFINE missing == {i \in a .. b : i \notin S}
<1> SUFFICES ASSUME missing # {}
             PROVE  FALSE
  OBVIOUS
<1>2. missing \subseteq Nat
  BY <1>1
<1>3. PICK m \in missing : \A i \in missing : m <= i
  <2> HIDE DEF missing
  <2> QED BY <1>2, Least
<1>4. m \in a .. b /\ m \notin S /\ m # a /\ m - 1 \in a .. b - 1 /\ m - 1 \in Nat
  BY <1>1, <1>3
<1>5. m - 1 \in S /\ m - 1 \notin Stops(p)
  BY <1>1, <1>3, <1>4
<1>6. Flows(p, m - 1) = {m}
  BY <1>4, <1>5 DEF Flows
<1>7. m \in Ops(p)
  BY <1>1, <1>4
<1> QED BY <1>4, <1>5, <1>6, <1>7

(* The roots the scan has passed.                                          *)
Begun == {i \in Roots(opa) : phase # "analysis" \/ i < position}

Ahead == Elements(pending)

(* What has been walked is closed but for what is pending, and part of     *)
(* every closed set.                                                       *)
Walking ==
  /\ \A i \in Done : Flows(opa, i) \intersect Ops(opa) \subseteq Done \union Ahead
  /\ Begun \subseteq Done \union Ahead
  /\ \A S \in SUBSET Ops(opa) :
       Closed(opa, S) => Done \subseteq S /\ Ahead \intersect Ops(opa) \subseteq S

(* Starts are roots and targets.                                           *)
Starting ==
  /\ starts \union (Ahead \intersect Ops(opa)) = Begun \union Targets(opa, Done)
  /\ starts \subseteq Done

(* Whatever was walked follows a start with nothing that stops between.    *)
Reached ==
  \A i \in Done : \E s \in starts : s <= i /\ \A j \in s .. i - 1 : j \notin Stops(opa)

(* The ends, and while the analysis runs the out-edges, are those of the   *)
(* stops that were walked.                                                 *)
Jump(i) == IF i \in Done \intersect Stops(opa) THEN pcov_find_jumps(opa, i) ELSE <<>>

Ending ==
  /\ ends = (Done \intersect Stops(opa))
              \union (IF phase = "analysis" THEN {} ELSE {opa.last - 1})
  /\ phase = "analysis" => \A i \in Ops(opa) : outs[i] = Jump(i)
  /\ phase # "analysis" => pending = <<>>

WInv == TInv /\ Walking /\ Starting /\ Reached /\ Ending

LEMMA WalkInit == Init => WInv
<1> SUFFICES ASSUME Init
             PROVE  WInv
  OBVIOUS
<1>1. TInv
  BY TypesInit
<1>2. Ahead = {} /\ Begun = {} /\ Done = {} /\ starts = {} /\ ends = {}
  <2>1. \A i \in Roots(opa) : ~(i < 0)
    BY <1>1, ProgramsAssumption DEF Roots, Catches, Ops, TInv
  <2> QED BY <2>1, ElementsSmall DEF Init, Ahead, Begun, Done
<1>3. Targets(opa, Done) = {}
  BY <1>2 DEF Targets
<1>4. \A i \in Ops(opa) : outs[i] = Jump(i)
  BY <1>2 DEF Init, Jump
<1>5. phase = "analysis"
  BY DEF Init
<1> QED BY <1>1, <1>2, <1>3, <1>4, <1>5 DEF WInv, Walking, Starting, Reached, Ending

LEMMA BranchWalks ==
  ASSUME WInv, pcov_analysis_branch
  PROVE  Walking' /\ Starting' /\ Reached' /\ Ending'
<1> DEFINE pos == Head(pending)
           later == Elements(Tail(pending))
<1>1. /\ phase = "analysis" /\ pending # <<>>
      /\ UNCHANGED <<opa, phase, position, entry_points, processVars, pathVars>>
      /\ Skip(pos) \/ WalkOff(pos) \/ \E e \in Stops(opa) : WalkTo(pos, e)
  BY BranchSteps DEF WInv
<1>2. /\ opa \in Programs /\ opa.last \in Nat \ {0} /\ Ops(opa) = 0 .. opa.last - 1
      /\ Stops(opa) \subseteq Ops(opa) /\ Begun \subseteq Ops(opa)
      /\ Done \subseteq Ops(opa) /\ starts \subseteq Ops(opa) /\ ends \subseteq Ops(opa)
      /\ outs \in [Ops(opa) -> OutLists]
  BY ProgramsAssumption DEF WInv, TInv, Ops, Stops, Begun, Roots, Catches, Done
<1>3. pending \in Seq(Int) /\ Tail(pending) \in Seq(Int) /\ Ahead = {pos} \union later
  BY <1>1, HeadTailProperties, ElementsTail DEF WInv, TInv, Ahead
<1>4. Begun' = Begun /\ Ops(opa)' = Ops(opa) /\ Stops(opa)' = Stops(opa)
  BY <1>1 DEF Begun
<1>5. Walking /\ Starting /\ Reached /\ Ending
  BY DEF WInv
<1> HIDE DEF pos, later
<1>6. CASE Skip(pos)
  <2>1. Ahead' = later /\ Done' = Done /\ starts' = starts \union ({pos} \intersect Ops(opa))
        /\ ends' = ends /\ outs' = outs /\ (pos \notin Ops(opa) \/ pos \in Done)
    BY <1>6 DEF Skip, Ahead, later
  <2>2. Walking'
    <3>1. \A i \in Done : Flows(opa, i) \intersect Ops(opa) \subseteq Done \union later
      BY <1>3, <1>5, <2>1 DEF Walking
    <3>2. Begun \subseteq Done \union later
      BY <1>2, <1>3, <1>5, <2>1 DEF Walking
    <3>3. \A S \in SUBSET Ops(opa) :
            Closed(opa, S) => Done \subseteq S /\ later \intersect Ops(opa) \subseteq S
      BY <1>3, <1>5 DEF Walking
    <3> QED BY <1>1, <1>4, <2>1, <3>1, <3>2, <3>3 DEF Walking
  <2>3. Targets(opa, Done)' = Targets(opa, Done)
    BY <1>1, <1>4, <2>1 DEF Targets
  <2>4. Starting'
    BY <1>2, <1>3, <1>4, <1>5, <2>1, <2>3 DEF Starting
  <2>5. Reached'
    BY <1>4, <1>5, <2>1 DEF Reached
  <2>6. Ending'
    BY <1>1, <1>4, <1>5, <2>1 DEF Ending, Jump
  <2> QED BY <2>2, <2>4, <2>5, <2>6
<1>7. CASE WalkOff(pos)
  <2> DEFINE run == pos .. opa.last - 1
  <2>1. /\ Ahead' = later /\ Done' = Done \union run /\ starts' = starts \union {pos}
        /\ ends' = ends /\ outs' = outs /\ pos \in Ops(opa)
        /\ \A j \in Stops(opa) : j < pos
    BY <1>7 DEF WalkOff, Ahead, later
  <2>2. /\ \A j \in run : j \notin Stops(opa) /\ j \in Ops(opa) /\ pos <= j
        /\ \A j \in run : \A x \in pos .. j - 1 : x \notin Stops(opa)
        /\ pos \in run
    BY <1>2, <2>1
  <2>3. \A i \in run : Flows(opa, i) \intersect Ops(opa) \subseteq run
    <3> SUFFICES ASSUME NEW i \in run, i + 1 \in Ops(opa)
                 PROVE  i + 1 \in run
      BY <2>2 DEF Flows
    <3> QED BY <1>2, <2>1
  <2>4. \A S \in SUBSET Ops(opa) : Closed(opa, S) => run \subseteq S
    <3> SUFFICES ASSUME NEW S \in SUBSET Ops(opa), Closed(opa, S)
                 PROVE  run \subseteq S
      OBVIOUS
    <3>1. pos \in S
      BY <1>3, <1>5, <2>1 DEF Walking
    <3>2. opa.last - 1 \in Ops(opa) /\ \A j \in pos .. (opa.last - 1) - 1 : j \notin Stops(opa)
      BY <1>2, <2>1
    <3> QED BY <1>2, <3>1, <3>2, RunClosed DEF Closed
  <2> HIDE DEF run
  <2>5. Walking'
    <3>1. \A i \in Done \union run :
            Flows(opa, i) \intersect Ops(opa) \subseteq (Done \union run) \union later
      BY <1>3, <1>5, <2>2, <2>3 DEF Walking
    <3>2. Begun \subseteq (Done \union run) \union later
      BY <1>2, <1>3, <1>5, <2>2 DEF Walking
    <3>3. \A S \in SUBSET Ops(opa) :
            Closed(opa, S) => Done \union run \subseteq S /\ later \intersect Ops(opa) \subseteq S
      BY <1>3, <1>5, <2>4 DEF Walking
    <3> QED BY <1>1, <1>4, <2>1, <3>1, <3>2, <3>3 DEF Walking
  <2>6. (Done \union run) \intersect Stops(opa) = Done \intersect Stops(opa)
    BY <2>2
  <2>7. Targets(opa, Done)' = Targets(opa, Done)
    BY <1>1, <1>4, <2>1, <2>6 DEF Targets
  <2>8. Starting'
    BY <1>2, <1>3, <1>4, <1>5, <2>1, <2>2, <2>7 DEF Starting
  <2>9. Reached'
    <3>1. \A i \in Done \union run : \E s \in starts \union {pos} :
            s <= i /\ \A j \in s .. i - 1 : j \notin Stops(opa)
      BY <1>5, <2>2 DEF Reached
    <3> QED BY <1>4, <2>1, <3>1 DEF Reached
  <2>10. Ending'
    <3>1. \A i : Jump(i)' = Jump(i)
      BY <1>1, <1>4, <2>1, <2>6 DEF Jump
    <3> QED BY <1>1, <1>4, <1>5, <2>1, <2>6, <3>1 DEF Ending
  <2> QED BY <2>5, <2>8, <2>9, <2>10
<1>8. ASSUME NEW e \in Stops(opa), WalkTo(pos, e)
      PROVE  Walking' /\ Starting' /\ Reached' /\ Ending'
  <2> DEFINE run == pos .. e
             jumps == pcov_find_jumps(opa, e)
  <2>1. /\ Done' = Done \union run /\ starts' = starts \union {pos}
        /\ ends' = ends \union {e} /\ outs' = [outs EXCEPT ![e] = jumps]
        /\ pos \in Ops(opa) /\ pos <= e /\ e \in Ops(opa)
        /\ \A j \in pos .. e - 1 : j \notin Stops(opa)
    BY <1>2, <1>8 DEF WalkTo
  <2>2. jumps \in Seq(Int) /\ jumps \in OutLists
    BY <1>2, <2>1, JumpsTyped DEF OutLists
  <2>3. Ahead' = Elements(jumps) \union later
    <3> HIDE DEF jumps
    <3>1. Elements(jumps \o Tail(pending)) = Elements(jumps) \union later
      BY <1>3, <2>2, ElementsJoined DEF later
    <3>2. pending' = jumps \o Tail(pending)
      BY <1>8 DEF WalkTo, jumps
    <3> QED BY <3>1, <3>2 DEF Ahead
  <2>4. /\ \A j \in run : j \in Ops(opa) /\ pos <= j /\ (j \in Stops(opa) => j = e)
        /\ \A j \in run : \A x \in pos .. j - 1 : x \notin Stops(opa)
        /\ pos \in run /\ e \in run
    BY <1>2, <2>1
  <2>5. Flows(opa, e) = Elements(jumps)
    BY <1>8 DEF Flows
  <2>6. \A i \in run : Flows(opa, i) \subseteq run \union Elements(jumps)
    <3> SUFFICES ASSUME NEW i \in run, i # e
                 PROVE  i + 1 \in run
      BY <2>4, <2>5 DEF Flows
    <3> QED BY <1>2, <2>1
  <2>7. \A S \in SUBSET Ops(opa) :
          Closed(opa, S) => run \subseteq S /\ Elements(jumps) \intersect Ops(opa) \subseteq S
    <3> SUFFICES ASSUME NEW S \in SUBSET Ops(opa), Closed(opa, S)
                 PROVE  run \subseteq S /\ Flows(opa, e) \intersect Ops(opa) \subseteq S
      BY <2>5
    <3>1. pos \in S
      BY <1>3, <1>5, <2>1 DEF Walking
    <3>2. run \subseteq S
      BY <1>2, <2>1, <3>1, RunClosed DEF Closed
    <3> QED BY <2>4, <3>2 DEF Closed
  <2> HIDE DEF run
  <2>8. Walking'
    <3>1. \A i \in Done \union run :
            Flows(opa, i) \intersect Ops(opa)
              \subseteq (Done \union run) \union (Elements(jumps) \union later)
      BY <1>3, <1>5, <2>4, <2>6 DEF Walking
    <3>2. Begun \subseteq (Done \union run) \union later
      BY <1>2, <1>3, <1>5, <2>4 DEF Walking
    <3>3. \A S \in SUBSET Ops(opa) :
            Closed(opa, S) => /\ Done \union run \subseteq S
                              /\ (Elements(jumps) \union later) \intersect Ops(opa) \subseteq S
      BY <1>3, <1>5, <2>7 DEF Walking
    <3> HIDE DEF jumps
    <3> QED BY <1>1, <1>4, <2>1, <2>3, <3>1, <3>2, <3>3 DEF Walking
  <2>9. (Done \union run) \intersect Stops(opa) = (Done \intersect Stops(opa)) \union {e}
    BY <1>8, <2>4
  <2>10. Targets(opa, Done)' = Targets(opa, Done) \union (Elements(jumps) \intersect Ops(opa))
    <3>1. Targets(opa, Done)' =
            {o \in Ops(opa) : \E i \in (Done \intersect Stops(opa)) \union {e} :
                               o \in Elements(pcov_find_jumps(opa, i))}
      BY <1>1, <1>4, <2>1, <2>9 DEF Targets
    <3> QED BY <3>1 DEF Targets
  <2>11. Starting'
    <3> HIDE DEF jumps
    <3> QED BY <1>2, <1>3, <1>4, <1>5, <2>1, <2>3, <2>4, <2>10, ZenonT(30) DEF Starting
  <2>12. Reached'
    <3>1. \A i \in Done \union run : \E s \in starts \union {pos} :
            s <= i /\ \A j \in s .. i - 1 : j \notin Stops(opa)
      BY <1>5, <2>4 DEF Reached
    <3> QED BY <1>4, <2>1, <3>1 DEF Reached
  <2>13. Ending'
    <3>1. ends' = Done' \intersect Stops(opa)
      BY <1>1, <1>5, <2>1, <2>9 DEF Ending
    <3>2. ASSUME NEW i \in Ops(opa)
          PROVE  outs'[i] = Jump(i)'
      <4>1. Jump(i)' = IF i = e THEN jumps ELSE Jump(i)
        BY <1>1, <1>4, <2>1, <2>9 DEF Jump
      <4>2. outs[i] = Jump(i)
        BY <1>1, <1>5 DEF Ending
      <4> HIDE DEF jumps
      <4> QED BY <1>2, <2>1, <4>1, <4>2
    <3> QED BY <1>1, <1>4, <3>1, <3>2 DEF Ending
  <2> QED BY <2>8, <2>11, <2>12, <2>13
<1> QED BY <1>1, <1>6, <1>7, <1>8

LEMMA ScanWalks ==
  ASSUME WInv, pcov_analysis_oparray
  PROVE  Walking' /\ Starting' /\ Reached' /\ Ending'
<1>1. /\ phase = "analysis" /\ pending = <<>>
      /\ UNCHANGED <<opa, Done, starts, outs, processVars, pathVars>>
  BY DEF pcov_analysis_oparray, Done, Ops
<1>2. /\ opa \in Programs /\ opa.last \in Nat \ {0} /\ Ops(opa) = 0 .. opa.last - 1
      /\ position \in 0 .. opa.last /\ Roots(opa) \subseteq Ops(opa)
      /\ Roots(opa) = {0} \union Catches(opa)
  BY ProgramsAssumption DEF WInv, TInv, Ops, Roots, Catches
<1>3. /\ Ahead = {} /\ Roots(opa)' = Roots(opa) /\ Ops(opa)' = Ops(opa)
      /\ Stops(opa)' = Stops(opa) /\ Targets(opa, Done)' = Targets(opa, Done)
  BY <1>1, ElementsSmall DEF Ahead
<1>4. Walking /\ Starting /\ Reached /\ Ending
  BY DEF WInv
<1>5. Reached'
  BY <1>1, <1>4 DEF Reached
<1>6. CASE position < opa.last
  <2>1. phase' = phase /\ ends' = ends /\ position' = position + 1
    BY <1>6 DEF pcov_analysis_oparray
  <2>2. Begun' = Begun \union ({position} \intersect Roots(opa))
    <3>1. \A i \in Ops(opa) : i < position + 1 <=> (i < position \/ i = position)
      BY <1>2
    <3>2. Begun' = {i \in Roots(opa) : i < position + 1}
      BY <1>1, <1>3, <2>1 DEF Begun
    <3>3. Begun = {i \in Roots(opa) : i < position}
      BY <1>1 DEF Begun
    <3> QED BY <1>2, <3>1, <3>2, <3>3
  <2>3. Ahead' = {position} \intersect Roots(opa)
    <3>1. CASE position \in Roots(opa)
      <4>1. pending' = <<position>> /\ position \in Int
        BY <1>2, <1>6, <3>1 DEF pcov_analysis_oparray
      <4>2. Elements(<<position>>) = {position}
        BY <4>1, ElementsSmall
      <4> QED BY <3>1, <4>1, <4>2 DEF Ahead
    <3>2. CASE position \notin Roots(opa)
      <4>1. pending' = pending
        BY <1>2, <1>6, <3>2 DEF pcov_analysis_oparray
      <4> QED BY <1>3, <3>2, <4>1 DEF Ahead
    <3> QED BY <3>1, <3>2
  <2>4. Walking'
    <3>1. \A i \in Done :
            Flows(opa, i) \intersect Ops(opa) \subseteq Done \union ({position} \intersect Roots(opa))
      BY <1>3, <1>4 DEF Walking
    <3>2. Begun \union ({position} \intersect Roots(opa))
            \subseteq Done \union ({position} \intersect Roots(opa))
      BY <1>3, <1>4 DEF Walking
    <3>3. \A S \in SUBSET Ops(opa) :
            Closed(opa, S) => /\ Done \subseteq S
                              /\ ({position} \intersect Roots(opa)) \intersect Ops(opa) \subseteq S
      BY <1>4 DEF Walking, Closed
    <3> QED BY <1>1, <1>3, <2>2, <2>3, <3>1, <3>2, <3>3 DEF Walking
  <2>5. Starting'
    BY <1>1, <1>2, <1>3, <1>4, <2>2, <2>3 DEF Starting
  <2>6. Ending'
    BY <1>1, <1>3, <1>4, <2>1 DEF Ending, Jump
  <2> QED BY <1>5, <2>4, <2>5, <2>6
<1>7. CASE ~(position < opa.last)
  <2>1. phase' = "process" /\ ends' = ends \union {opa.last - 1} /\ pending' = pending
    BY <1>7 DEF pcov_analysis_oparray
  <2>2. Begun' = Begun
    <3>1. \A i \in Roots(opa) : i < position
      BY <1>2, <1>7
    <3> QED BY <1>1, <1>3, <2>1, <3>1 DEF Begun
  <2>3. Walking'
    BY <1>1, <1>3, <1>4, <2>1, <2>2 DEF Walking, Ahead
  <2>4. Starting'
    BY <1>1, <1>3, <1>4, <2>1, <2>2 DEF Starting, Ahead
  <2>5. Ending'
    BY <1>1, <1>3, <1>4, <2>1 DEF Ending
  <2> QED BY <1>5, <2>3, <2>4, <2>5
<1> QED BY <1>6, <1>7

(* The phases after it leave what the analysis found alone.                *)
LEMMA LaterWalks ==
  ASSUME WInv, phase # "analysis", phase' # "analysis",
         UNCHANGED <<opa, analysisVars, ends>>
  PROVE  Walking' /\ Starting' /\ Reached' /\ Ending'
<1>1. /\ Roots(opa)' = Roots(opa) /\ Ops(opa)' = Ops(opa) /\ Stops(opa)' = Stops(opa)
      /\ Targets(opa, Done)' = Targets(opa, Done) /\ Begun' = Begun /\ Ahead' = Ahead
      /\ Done' = Done
  BY DEF analysisVars, Begun, Ahead, Done, Ops
<1>2. Walking' /\ Starting' /\ Reached'
  BY <1>1 DEF WInv, Walking, Starting, Reached, analysisVars
<1>3. Ending'
  BY <1>1 DEF WInv, Ending, analysisVars
<1> QED BY <1>2, <1>3

LEMMA WalkStep == WInv /\ [Next]_vars => WInv'
<1> SUFFICES ASSUME WInv, [Next]_vars
             PROVE  Walking' /\ Starting' /\ Reached' /\ Ending'
  BY TypesStep DEF WInv
<1>1. CASE pcov_analysis_branch
  BY <1>1, BranchWalks
<1>2. CASE pcov_analysis_oparray
  BY <1>2, ScanWalks
<1>3. CASE pcov_branch_post_process
  <2>1. /\ phase # "analysis" /\ phase' # "analysis" /\ UNCHANGED <<opa, analysisVars, ends>>
    BY <1>3 DEF pcov_branch_post_process
  <2> QED BY <2>1, LaterWalks
<1>4. CASE pcov_branch_find_path
  <2>1. /\ phase # "analysis" /\ phase' # "analysis" /\ UNCHANGED <<opa, analysisVars, ends>>
    BY <1>4 DEF pcov_branch_find_path
  <2> QED BY <2>1, LaterWalks
<1>5. CASE pcov_branch_find_paths
  <2>1. /\ phase # "analysis" /\ phase' # "analysis" /\ UNCHANGED <<opa, analysisVars, ends>>
    BY <1>5 DEF pcov_branch_find_paths
  <2> QED BY <2>1, LaterWalks
<1>6. CASE UNCHANGED vars
  <2>1. UNCHANGED <<opa, phase, position, analysisVars, ends, outs>>
    BY <1>6 DEF vars
  <2>2. /\ Roots(opa)' = Roots(opa) /\ Ops(opa)' = Ops(opa) /\ Stops(opa)' = Stops(opa)
        /\ Targets(opa, Done)' = Targets(opa, Done) /\ Begun' = Begun /\ Ahead' = Ahead
        /\ Done' = Done
    BY <2>1 DEF analysisVars, Begun, Ahead, Done, Ops
  <2>3. Walking' /\ Starting' /\ Reached'
    BY <2>1, <2>2 DEF WInv, Walking, Starting, Reached, analysisVars
  <2>4. Ending'
    BY <2>1, <2>2 DEF WInv, Ending, Jump, analysisVars
  <2> QED BY <2>3, <2>4
<1> QED BY <1>1, <1>2, <1>3, <1>4, <1>5, <1>6 DEF Next

(* When nothing is pending, what has been walked is the least closed set.  *)
LEMMA WalkedIsLive ==
  ASSUME WInv, phase # "analysis"
  PROVE  Done = Live(opa) /\ Closed(opa, Done) /\ starts = Roots(opa) \union Targets(opa, Done)
<1>1. Ahead = {} /\ Begun = Roots(opa) /\ Done \subseteq Ops(opa)
  BY ElementsSmall DEF WInv, TInv, Ending, Ahead, Begun, Done
<1>2. Closed(opa, Done)
  BY <1>1 DEF WInv, Walking, Closed
<1>3. \A S \in SUBSET Ops(opa) : Closed(opa, S) => Done \subseteq S
  BY DEF WInv, Walking
<1>4. Done = Live(opa)
  BY <1>1, <1>2, <1>3 DEF Live
<1> QED BY <1>1, <1>2, <1>4 DEF WInv, Starting

(* The analysis walks from opcode 0 and from each catch, and stops at what *)
(* it has seen.  It misses nothing that control can come to and adds       *)
(* nothing; and the branches begin at the roots and where a live jump      *)
(* leads, also when the target is found after the walk went past it.       *)
THEOREM StartsAreExact == Spec => []StartsExact
<1>1. WInv => StartsExact
  BY WalkedIsLive DEF StartsExact
<1>2. Init /\ [][Next]_vars => []WInv
  BY WalkInit, WalkStep, PTL
<1> QED
  BY <1>1, <1>2, PTL DEF Spec

-----------------------------------------------------------------------------
(* Post-processing.                                                        *)

EndsAt(b, e) ==
  /\ e \in Stops(opa) \/ e + 1 \in starts \union {opa.last}
  /\ \A i \in b .. e - 1 : i \notin Stops(opa) /\ i + 1 \notin starts \union {opa.last}

LEMMA EndOfIs ==
  ASSUME opa \in Programs, NEW b \in Ops(opa), NEW e \in b .. opa.last - 1, EndsAt(b, e)
  PROVE  EndOf(b) = e
<1> DEFINE Is(x) ==
             /\ x \in Stops(opa) \/ x + 1 \in starts \union {opa.last}
             /\ \A i \in b .. x - 1 :
                  ~(i \in Stops(opa) \/ i + 1 \in starts \union {opa.last})
<1>1. opa.last \in Nat \ {0} /\ Ops(opa) = 0 .. opa.last - 1
  BY ProgramsAssumption DEF Ops
<1>2. Is(e)
  BY DEF EndsAt
<1>3. ASSUME NEW x \in b .. opa.last - 1, Is(x)
      PROVE  x = e
  <2>1. ~(x < e)
    <3> SUFFICES ASSUME x < e
                 PROVE  FALSE
      OBVIOUS
    <3>1. x \in b .. e - 1
      BY <1>1
    <3> QED BY <1>2, <1>3, <3>1
  <2>2. ~(e < x)
    <3> SUFFICES ASSUME e < x
                 PROVE  FALSE
      OBVIOUS
    <3>1. e \in b .. x - 1
      BY <1>1
    <3> QED BY <1>2, <1>3, <3>1
  <2> QED BY <1>1, <2>1, <2>2
<1>4. EndOf(b) = CHOOSE x \in b .. opa.last - 1 : Is(x)
  BY DEF EndOf
<1> HIDE DEF Is
<1> QED BY <1>2, <1>3, <1>4

(* The out-edges the opcodes say the branch at b has.                      *)
Right(b) ==
  IF EndOf(b) \in Stops(opa)      THEN pcov_find_jumps(opa, EndOf(b))
  ELSE IF EndOf(b) + 1 \in starts THEN <<EndOf(b) + 1>>
                                  ELSE <<>>

(* Before position, each start but that of a branch which has not ended    *)
(* yet has its out-edges; from position on, nothing has been touched.      *)
Processing ==
  /\ \A j \in Ops(opa) : j >= position => outs[j] = Jump(j)
  /\ position > 0 =>
       /\ last_start \in starts /\ last_start < position
       /\ \A s \in starts : s < position => s <= last_start
  /\ in_branch <=> position > 0 /\ \A j \in last_start .. position - 1 : j \notin ends
  /\ \A b \in starts : b < position => (b = last_start /\ in_branch) \/ outs[b] = Right(b)

PInv ==
  /\ phase = "analysis" => last_start = -1 /\ in_branch = FALSE
  /\ phase = "process" => Processing
  /\ Processed => \A b \in starts : outs[b] = Right(b)

(* The last opcode is not dead code.  The run dead_return has programs     *)
(* that lack this, and there OutsExact fails.                              *)
EndsLive == \A p \in Programs : p.last - 1 \in Live(p)

(* Ends are live stops, or the last opcode, which is live too.             *)
LEMMA EndsAreLive ==
  ASSUME EndsLive, WInv, phase # "analysis"
  PROVE  /\ opa \in Programs /\ opa.last \in Nat \ {0} /\ Ops(opa) = 0 .. opa.last - 1
         /\ starts \subseteq Ops(opa) /\ Done \subseteq Ops(opa) /\ 0 \in starts
         /\ opa.last - 1 \in Done /\ opa.last \notin starts
         /\ ends = (Done \intersect Stops(opa)) \union {opa.last - 1}
<1>1. /\ opa \in Programs /\ opa.last \in Nat \ {0} /\ Ops(opa) = 0 .. opa.last - 1
      /\ starts \subseteq Ops(opa) /\ Done \subseteq Ops(opa)
  BY ProgramsAssumption DEF WInv, TInv, Ops, Done
<1>2. opa.last \notin starts
  BY <1>1
<1>3. 0 \in starts /\ opa.last - 1 \in Done
  BY <1>1, WalkedIsLive DEF Roots, EndsLive
<1> QED BY <1>1, <1>2, <1>3 DEF WInv, Ending

(* A branch that meets no end up to i and no other start has no stop       *)
(* there, and was walked.                                                  *)
LEMMA NoEndNoStop ==
  ASSUME EndsLive, WInv, phase # "analysis", NEW b \in starts, NEW i \in Ops(opa),
         \A j \in b .. i : j \notin ends
  PROVE  \A j \in b .. i : j \notin Stops(opa)
<1> DEFINE bad == {j \in b .. i : j \in Stops(opa)}
<1> SUFFICES ASSUME bad # {}
             PROVE  FALSE
  OBVIOUS
<1>1. b \in Nat /\ i \in Nat /\ bad \subseteq Nat
  BY EndsAreLive
<1>2. PICK m \in bad : \A j \in bad : m <= j
  <2> HIDE DEF bad
  <2> QED BY <1>1, Least
<1>3. m \in Stops(opa) /\ m \in b .. i /\ m \in Ops(opa) /\ \A j \in b .. m - 1 : j \notin Stops(opa)
  BY <1>1, <1>2, EndsAreLive DEF Stops
<1>4. b .. m \subseteq Done
  <2>1. b \in Done /\ Closed(opa, Done) /\ Done \subseteq Ops(opa)
    BY WalkedIsLive, EndsAreLive DEF WInv, Starting
  <2> QED BY <1>3, <2>1, RunClosed, EndsAreLive DEF Closed
<1>5. m \in ends
  BY <1>1, <1>3, <1>4, EndsAreLive
<1> QED BY <1>3, <1>5

(* The last opcode of a branch that ends by falling into the next start.   *)
LEMMA FallsRight ==
  ASSUME EndsLive, WInv, phase # "analysis", NEW b \in starts, NEW i \in starts, b < i,
         \A j \in b .. i - 1 : j \notin ends,
         \A s \in starts : s < i => s <= b
  PROVE  Right(b) = <<i>>
<1>1. b \in Nat /\ i \in Nat /\ i - 1 \in Ops(opa) /\ b \in Ops(opa) /\ i - 1 \in b .. opa.last - 1
      /\ (i - 1) + 1 = i /\ opa \in Programs /\ i < opa.last /\ opa.last \in Nat
      /\ starts \subseteq Nat
  BY EndsAreLive
<1>2. \A j \in b .. i - 1 : j \notin Stops(opa)
  BY <1>1, NoEndNoStop
<1>3. \A j \in b .. (i - 1) - 1 : j + 1 \notin starts \union {opa.last}
  BY <1>1
<1>4. EndsAt(b, i - 1)
  BY <1>1, <1>2, <1>3 DEF EndsAt
<1>5. EndOf(b) = i - 1
  BY <1>1, <1>4, EndOfIs
<1> QED BY <1>1, <1>2, <1>5 DEF Right

(* ... and of one that ends at an end.                                     *)
LEMMA StopsRight ==
  ASSUME EndsLive, WInv, phase # "analysis", NEW b \in starts, NEW i \in ends, b <= i,
         \A s \in starts : s <= i => s <= b
  PROVE  Right(b) = Jump(i)
<1>1. /\ b \in Nat /\ i \in Nat /\ b \in Ops(opa) /\ i \in Ops(opa) /\ i \in b .. opa.last - 1
      /\ opa \in Programs /\ i < opa.last /\ opa.last \in Nat /\ i \in Done
      /\ starts \subseteq Nat /\ opa.last \notin starts
      /\ i \in Stops(opa) \/ i + 1 = opa.last
  BY EndsAreLive
<1>2. PICK s \in starts : s <= i /\ \A j \in s .. i - 1 : j \notin Stops(opa)
  BY <1>1 DEF WInv, Reached
<1>3. \A j \in b .. i - 1 : j \notin Stops(opa)
  BY <1>1, <1>2
<1>4. \A j \in b .. i - 1 : j + 1 \notin starts \union {opa.last}
  BY <1>1
<1>5. EndOf(b) = i
  BY <1>1, <1>3, <1>4, EndOfIs DEF EndsAt
<1>6. CASE i \in Stops(opa)
  <2>1. EndOf(b) \in Stops(opa) /\ EndOf(b) = i
    BY <1>1, <1>5, <1>6
  <2>2. Right(b) = pcov_find_jumps(opa, EndOf(b))
    BY <2>1 DEF Right
  <2>3. Jump(i) = pcov_find_jumps(opa, i)
    BY <1>1, <1>6 DEF Jump
  <2> QED BY <2>1, <2>2, <2>3
<1>7. CASE i \notin Stops(opa)
  <2>1. EndOf(b) \notin Stops(opa) /\ EndOf(b) + 1 \notin starts
    BY <1>1, <1>5, <1>7
  <2>2. Right(b) = <<>>
    BY <2>1 DEF Right
  <2>3. Jump(i) = <<>>
    BY <1>7 DEF Jump
  <2> QED BY <2>2, <2>3
<1> QED BY <1>6, <1>7

LEMMA ProcessRight ==
  ASSUME EndsLive, WInv, PInv, phase = "process", position < opa.last, pcov_branch_post_process
  PROVE  Processing'
<1> DEFINE i    == position
           fell == IF i \in starts /\ in_branch
                   THEN [outs EXCEPT ![last_start] = <<i>>] ELSE outs
           here == IF i \in starts THEN i ELSE last_start
<1>1. /\ position' = i + 1
      /\ outs' = (IF i \in ends THEN [fell EXCEPT ![here] = fell[i]] ELSE fell)
      /\ last_start' = here
      /\ in_branch'  = (i \notin ends /\ (in_branch \/ i \in starts))
      /\ UNCHANGED <<opa, Done, starts, ends>>
  BY DEF pcov_branch_post_process, PostProcess, analysisVars, Done, Ops
<1>2. /\ opa \in Programs /\ opa.last \in Nat \ {0} /\ Ops(opa) = 0 .. opa.last - 1
      /\ starts \subseteq Ops(opa) /\ Done \subseteq Ops(opa) /\ 0 \in starts
      /\ ends \subseteq Ops(opa) /\ i \in Ops(opa) /\ i \in Nat
  BY EndsAreLive DEF WInv, TInv
<1>3. Processing /\ outs \in [Ops(opa) -> OutLists] /\ in_branch \in BOOLEAN
  BY DEF PInv, WInv, TInv
<1>4. /\ here \in starts /\ here \in Nat /\ here <= i
      /\ \A s \in starts : s <= i => s <= here
      /\ i > 0 => last_start \in starts /\ last_start \in Nat /\ last_start < i
  <2>1. i > 0 => /\ last_start \in starts /\ last_start < i /\ last_start \in Nat
                 /\ \A s \in starts : s < i => s <= last_start
    <3>1. i > 0 => /\ last_start \in starts /\ last_start < i
                   /\ \A s \in starts : s < i => s <= last_start
      BY <1>3 DEF Processing
    <3>2. starts \subseteq Nat
      BY <1>2
    <3> QED BY <3>1, <3>2
  <2>2. CASE i \in starts
    <3>1. here = i /\ starts \subseteq Nat
      BY <1>2, <2>2
    <3> HIDE DEF here
    <3> QED BY <1>2, <2>1, <2>2, <3>1
  <2>3. CASE i \notin starts
    <3>1. here = last_start /\ i > 0 /\ starts \subseteq Nat
      BY <1>2, <2>3
    <3> HIDE DEF here
    <3>2. \A s \in starts : s <= i => s < i
      BY <1>2, <2>3, <3>1
    <3> QED BY <1>2, <2>1, <2>3, <3>1, <3>2
  <2> QED BY <2>2, <2>3
<1>5. fell \in [Ops(opa) -> OutLists] /\ \A j \in Ops(opa) : j >= i => fell[j] = Jump(j)
  <2>1. CASE i \in starts /\ in_branch
    <3> DEFINE one == <<i>>
    <3>1. one \in OutLists
      BY <1>2, Singleton, ProgramsAssumption DEF OutLists
    <3>2. i > 0
      BY <1>2, <1>3, <2>1 DEF Processing
    <3>3. fell = [outs EXCEPT ![last_start] = one] /\ last_start < i /\ last_start \in Nat
      BY <1>4, <2>1, <3>2
    <3> HIDE DEF one, fell
    <3> QED BY <1>2, <1>3, <3>1, <3>3 DEF Processing
  <2>2. CASE ~(i \in starts /\ in_branch)
    <3>1. fell = outs
      BY <2>2
    <3> HIDE DEF fell
    <3> QED BY <1>3, <3>1 DEF Processing
  <2> QED BY <2>1, <2>2
(* Every start before i that is not the one that goes on is right now.     *)
<1>6. \A b \in starts : b < i => (b = here /\ in_branch) \/ fell[b] = Right(b)
  <2> SUFFICES ASSUME NEW b \in starts, b < i, ~(b = here /\ in_branch)
               PROVE  fell[b] = Right(b)
    OBVIOUS
  <2>1. b \in Ops(opa) /\ i > 0
    BY <1>2
  <2>2. CASE i \in starts /\ in_branch /\ b = last_start
    <3>1. fell[b] = <<i>>
      BY <1>3, <2>1, <2>2
    <3>2. \A j \in b .. i - 1 : j \notin ends
      BY <1>3, <2>2 DEF Processing
    <3>3. \A s \in starts : s < i => s <= b
      BY <1>3, <2>1, <2>2 DEF Processing
    <3>4. Right(b) = <<i>>
      BY <2>2, <3>2, <3>3, FallsRight
    <3> QED BY <3>1, <3>4
  <2>3. CASE i \in starts /\ in_branch /\ b # last_start
    <3>1. fell[b] = outs[b]
      BY <1>3, <2>1, <2>3
    <3> QED BY <1>3, <2>3, <3>1 DEF Processing
  <2>4. CASE ~(i \in starts /\ in_branch)
    <3>1. fell[b] = outs[b] /\ ~(b = last_start /\ in_branch)
      BY <2>4
    <3> QED BY <1>3, <3>1 DEF Processing
  <2> QED BY <2>2, <2>3, <2>4
<1>7. i \in ends => Right(here) = Jump(i)
  BY <1>4, StopsRight
<1> DEFINE Same == /\ Stops(opa)' = Stops(opa) /\ Ops(opa)' = Ops(opa)
                   /\ \A j : Jump(j)' = Jump(j)
                   /\ \A b : Right(b)' = Right(b)
<1>8. Same
  BY <1>1 DEF Jump, Right, EndOf
<1> HIDE DEF fell, here
<1>9. \A j \in Ops(opa) : j >= i + 1 => outs'[j] = Jump(j)
  BY <1>1, <1>2, <1>4, <1>5
<1>10. /\ here \in starts /\ here < i + 1
       /\ \A s \in starts : s < i + 1 => s <= here
  BY <1>2, <1>4
<1>11. in_branch' <=> i + 1 > 0 /\ \A j \in here .. (i + 1) - 1 : j \notin ends
  <2>1. CASE i \in starts
    <3>1. here = i
      BY <2>1 DEF here
    <3>2. here .. (i + 1) - 1 = {i} /\ i + 1 > 0
      BY <1>2, <3>1
    <3>3. (\A j \in here .. (i + 1) - 1 : j \notin ends) <=> i \notin ends
      BY <3>2
    <3> QED BY <1>1, <2>1, <3>2, <3>3
  <2>2. CASE i \notin starts
    <3>1. here = last_start /\ i > 0
      BY <1>2, <2>2 DEF here
    <3>2. in_branch <=> \A j \in here .. i - 1 : j \notin ends
      BY <1>3, <3>1 DEF Processing
    <3>3. \A j : j \in here .. (i + 1) - 1 <=> (j \in here .. i - 1 \/ j = i)
      BY <1>2, <1>4
    <3>4. (\A j \in here .. (i + 1) - 1 : j \notin ends)
            <=> i \notin ends /\ \A j \in here .. i - 1 : j \notin ends
      BY <3>3
    <3>5. in_branch' <=> i \notin ends /\ in_branch
      BY <1>1, <2>2
    <3>6. i + 1 > 0
      BY <1>2
    <3> QED BY <3>2, <3>4, <3>5, <3>6
  <2> QED BY <2>1, <2>2
<1>12. \A b \in starts : b < i + 1 => (b = here /\ in_branch') \/ outs'[b] = Right(b)
  <2> SUFFICES ASSUME NEW b \in starts, b < i + 1, ~(b = here /\ in_branch')
               PROVE  outs'[b] = Right(b)
    OBVIOUS
  <2>1. b \in Ops(opa) /\ here \in Ops(opa)
    BY <1>2, <1>4
  <2>2. CASE i \in ends
    <3>1. outs' = [fell EXCEPT ![here] = fell[i]] /\ fell[i] = Jump(i)
      BY <1>1, <1>2, <1>5, <2>2
    <3>2. CASE b = here
      BY <1>5, <1>7, <2>1, <2>2, <3>1, <3>2
    <3>3. CASE b # here
      <4>1. b < i
        BY <1>2, <1>4, <2>1, <3>3 DEF here
      <4> QED BY <1>5, <1>6, <2>1, <3>1, <3>3, <4>1
    <3> QED BY <3>2, <3>3
  <2>3. CASE i \notin ends
    <3>1. outs' = fell /\ (in_branch \/ i \in starts => in_branch')
      BY <1>1, <2>3
    <3>2. b < i
      <4>1. b = i => b = here /\ i \in starts
        BY DEF here
      <4> QED BY <1>2, <2>1, <3>1, <4>1
    <3> QED BY <1>6, <3>1, <3>2
  <2> QED BY <2>2, <2>3
<1> QED
  BY <1>1, <1>8, <1>9, <1>10, <1>11, <1>12 DEF Processing

(* What Processing and Right are about is fixed once the analysis is over. *)
LEMMA RightSame ==
  ASSUME UNCHANGED <<opa, Done, starts>>
  PROVE  /\ \A b : Right(b)' = Right(b)
         /\ \A i : Jump(i)' = Jump(i)
         /\ Ops(opa)' = Ops(opa)
BY DEF Right, Jump, EndOf

LEMMA ProcessInit == Init => PInv
BY DEF Init, PInv, Processed

LEMMA ProcessStep ==
  ASSUME EndsLive, WInv, PInv, [Next]_vars
  PROVE  PInv'
<1>1. CASE pcov_analysis_branch
  <2>1. phase = "analysis" /\ phase' = phase /\ UNCHANGED processVars
    BY <1>1 DEF pcov_analysis_branch
  <2> QED BY <2>1 DEF PInv, Processed, processVars
<1>2. CASE pcov_analysis_oparray
  <2>1. /\ phase = "analysis" /\ UNCHANGED <<opa, Done, starts, outs, last_start, in_branch>>
        /\ phase' = phase \/ (phase' = "process" /\ position' = 0)
    BY <1>2 DEF pcov_analysis_oparray, processVars, Done, Ops
  <2>2. last_start = -1 /\ in_branch = FALSE
    BY <2>1 DEF PInv
  <2>3. CASE phase' = phase
    BY <2>1, <2>2, <2>3 DEF PInv, Processed
  <2>4. CASE phase' = "process" /\ position' = 0
    <3>1. \A j \in Ops(opa) : outs[j] = Jump(j)
      BY <2>1 DEF WInv, Ending
    <3>2. ~(0 > 0) /\ \A b \in starts : ~(b < 0)
      BY ProgramsAssumption DEF WInv, TInv, Ops
    <3>3. Processing'
      BY <2>1, <2>2, <2>4, <3>1, <3>2, RightSame DEF Processing
    <3> QED BY <2>4, <3>3 DEF PInv, Processed
  <2> QED BY <2>1, <2>3, <2>4
<1>3. CASE pcov_branch_post_process
  <2>1. phase = "process" /\ UNCHANGED <<opa, Done, starts, ends>>
    BY <1>3 DEF pcov_branch_post_process, analysisVars, Done, Ops
  <2>2. CASE position < opa.last
    <3>1. phase' = "process"
      BY <1>3, <2>1, <2>2 DEF pcov_branch_post_process
    <3> QED BY <1>3, <2>1, <2>2, <3>1, ProcessRight DEF PInv, Processed
  <2>3. CASE ~(position < opa.last)
    <3>1. phase' = "paths" /\ outs' = outs
      BY <1>3, <2>3 DEF pcov_branch_post_process
    <3>2. /\ opa.last \in Nat \ {0} /\ starts \subseteq Ops(opa) /\ Ops(opa) = 0 .. opa.last - 1
          /\ opa.last - 1 \in ends /\ position \in 0 .. opa.last
      BY <2>1, EndsAreLive DEF WInv, TInv
    <3>3. Processing /\ position = opa.last /\ position > 0
      BY <2>1, <2>3, <3>2 DEF PInv
    <3>4. last_start \in Ops(opa) /\ last_start < opa.last
      BY <3>2, <3>3 DEF Processing
    <3>5. ~in_branch
      <4>1. opa.last - 1 \in last_start .. position - 1
        BY <3>2, <3>3, <3>4
      <4> QED BY <3>2, <3>3, <4>1 DEF Processing
    <3>6. \A b \in starts : outs[b] = Right(b)
      BY <3>2, <3>3, <3>5 DEF Processing
    <3> QED BY <2>1, <3>1, <3>6, RightSame DEF PInv, Processed
  <2> QED BY <2>2, <2>3
<1>4. CASE pcov_branch_find_path \/ pcov_branch_find_paths
  <2>1. /\ phase = "paths" /\ phase' \in {"paths", "done"}
        /\ UNCHANGED <<opa, Done, starts, outs>>
    BY <1>4 DEF pcov_branch_find_path, pcov_branch_find_paths, analysisVars, Done, Ops
  <2>2. \A b \in starts : outs[b] = Right(b)
    BY <2>1 DEF PInv, Processed
  <2> QED BY <2>1, <2>2, RightSame DEF PInv, Processed
<1>5. CASE UNCHANGED vars
  <2>1. UNCHANGED <<opa, phase, position, Done, starts, ends, outs, last_start, in_branch>>
    BY <1>5 DEF vars, analysisVars, processVars, Done, Ops
  <2>2. (\A b : Right(b)' = Right(b)) /\ (\A i : Jump(i)' = Jump(i)) /\ Ops(opa)' = Ops(opa)
    BY <2>1, RightSame
  <2>3. Processing' <=> Processing
    BY <2>1, <2>2 DEF Processing
  <2> QED BY <2>1, <2>2, <2>3 DEF PInv, Processed
<1> QED BY <1>1, <1>2, <1>3, <1>4, <1>5 DEF Next

(* Post-processing moves the jumps of each end to the start of its branch, *)
(* overwriting what is there.  Each branch is left with the jumps of its   *)
(* own last opcode, or with the start it falls into, if the last opcode of *)
(* the op_array is not dead code.                                          *)
THEOREM OutsAreExact ==
  ASSUME EndsLive
  PROVE  Spec => []OutsExact
<1>1. PInv => OutsExact
  BY DEF PInv, OutsExact, Right
<1> DEFINE I == WInv /\ PInv
<1>2. Init => I
  BY WalkInit, ProcessInit
<1>3. I /\ [Next]_vars => I'
  BY WalkStep, ProcessStep
<1>4. I => OutsExact
  BY <1>1
<1> HIDE DEF I
<1> QED
  BY <1>2, <1>3, <1>4, PTL DEF Spec

================================================================================
