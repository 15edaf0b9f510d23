---------------------------- MODULE PcovExact_proofs ----------------------------
(***************************************************************************)
(* Under which conditions on the program what PcovFrames records is what   *)
(* happened: hit branches and traversed edges.                             *)
(*                                                                         *)
(* The argument rests on one lemma, HookEffect, which says what the hook   *)
(* does to PCG(frames) and PCG(reached) in terms of the state before it,   *)
(* whichever way it takes through php_pcov_path_trace.                     *)
(***************************************************************************)
EXTENDS PcovFrames_proofs

(* An entry at the address of a code is that code's.                       *)
LEMMA OwnEntry ==
  ASSUME OwnAddresses, EntriesOK(reached), NEW c \in Codes
  PROVE  /\ ~Stale(c)
         /\ Home[c] \in DOMAIN reached => reached[Home[c]].code = c
BY ProgramAssumption DEF OwnAddresses, EntriesOK, Stale

-----------------------------------------------------------------------------
(* What the hook does.                                                     *)

(* Q is the cache R after the frames K of F were finished.                 *)
Finish(F, R, Q, K) ==
  /\ DOMAIN Q = DOMAIN R
  /\ \A a \in DOMAIN R :
       /\ IsEntry(Q[a]) /\ Q[a].code = R[a].code /\ Q[a].hits = R[a].hits
       /\ \A p : p \in Q[a].paths <=>
            \/ p \in R[a].paths
            \/ /\ p \in Paths[R[a].code] /\ p # <<>>
               /\ \E h \in K : h[2] = a /\ F[h].seq = p
       /\ \A e : e \in Q[a].edges <=>
            \/ e \in R[a].edges
            \/ \E h \in K : /\ h[2] = a /\ F[h].seq # <<>>
                            /\ EXIT \in Outs[R[a].code][LastOf(F[h].seq)]
                            /\ e = <<LastOf(F[h].seq), EXIT>>

LEMMA FinalizeFinish ==
  ASSUME NEW F, NEW R, NEW K \in SUBSET DOMAIN F, Sound(F, R)
  PROVE  Finish(F, R, php_pcov_frame_finalize(F, R, K), K)
<1> DEFINE Q == php_pcov_frame_finalize(F, R, K)
<1>1. DOMAIN Q = DOMAIN R
  BY DEF php_pcov_frame_finalize
<1>2. ASSUME NEW a \in DOMAIN R
      PROVE  /\ IsEntry(Q[a]) /\ Q[a].code = R[a].code /\ Q[a].hits = R[a].hits
             /\ \A p : p \in Q[a].paths <=>
                  \/ p \in R[a].paths
                  \/ /\ p \in Paths[R[a].code] /\ p # <<>>
                     /\ \E h \in K : h[2] = a /\ F[h].seq = p
             /\ \A e : e \in Q[a].edges <=>
                  \/ e \in R[a].edges
                  \/ \E h \in K : /\ h[2] = a /\ F[h].seq # <<>>
                                  /\ EXIT \in Outs[R[a].code][LastOf(F[h].seq)]
                                  /\ e = <<LastOf(F[h].seq), EXIT>>
  <2> DEFINE c == R[a].code
             s == Finished(F, R, K, a)
  <2>1. IsEntry(R[a])
    BY DEF Sound
  <2>2. /\ IsEntry(Q[a]) /\ Q[a].code = c /\ Q[a].hits = R[a].hits
        /\ Q[a].paths = R[a].paths \union (s \intersect Paths[c])
        /\ Q[a].edges = R[a].edges \union
             {<<LastOf(q), EXIT>> : q \in {t \in s : EXIT \in Outs[c][LastOf(t)]}}
    BY <2>1, FinalizeFields
  <2>3. \A q : q \in s <=> \E h \in K : h[2] = a /\ F[h].seq # <<>> /\ F[h].seq = q
    <3>1. \A h \in K : h[2] = a => F[h].cache = c
      BY DEF Sound
    <3> QED
      BY <3>1 DEF Finished, Attached
  <2> HIDE DEF Q, s, c
  <2>4. \A p : p \in Q[a].paths <=>
          \/ p \in R[a].paths
          \/ p \in Paths[c] /\ p # <<>> /\ \E h \in K : h[2] = a /\ F[h].seq = p
    BY <2>2, <2>3
  <2>5. \A e : e \in Q[a].edges <=>
          \/ e \in R[a].edges
          \/ \E q \in s : EXIT \in Outs[c][LastOf(q)] /\ e = <<LastOf(q), EXIT>>
    BY <2>2
  <2>6. \A e : e \in Q[a].edges <=>
          \/ e \in R[a].edges
          \/ \E h \in K : /\ h[2] = a /\ F[h].seq # <<>>
                          /\ EXIT \in Outs[c][LastOf(F[h].seq)]
                          /\ e = <<LastOf(F[h].seq), EXIT>>
    BY <2>3, <2>5
  <2> QED
    BY <2>2, <2>4, <2>6 DEF c
<1> HIDE DEF Q
<1>3. Finish(F, R, Q, K)
  BY <1>1, <1>2 DEF Finish
<1> QED
  BY <1>3 DEF Q

LEMMA FinishNothing ==
  ASSUME NEW F, NEW R, \A a \in DOMAIN R : IsEntry(R[a])
  PROVE  Finish(F, R, R, {})
BY DEF Finish

LEMMA FinishTwice ==
  ASSUME NEW F, NEW G, NEW R, NEW Q, NEW P, NEW K, NEW L,
         Finish(F, R, Q, K), Finish(G, Q, P, L), \A h \in L : G[h].seq = F[h].seq
  PROVE  Finish(F, R, P, K \union L)
<1>1. DOMAIN Q = DOMAIN R /\ DOMAIN P = DOMAIN R
  BY DEF Finish
<1>2. ASSUME NEW a \in DOMAIN R
      PROVE  /\ IsEntry(P[a]) /\ P[a].code = R[a].code /\ P[a].hits = R[a].hits
             /\ Q[a].code = R[a].code
  BY <1>1 DEF Finish
<1>3. ASSUME NEW a \in DOMAIN R, NEW p
      PROVE  p \in P[a].paths <=>
               \/ p \in R[a].paths
               \/ /\ p \in Paths[R[a].code] /\ p # <<>>
                  /\ \E h \in K \union L : h[2] = a /\ F[h].seq = p
  <2>1. p \in Q[a].paths <=>
          \/ p \in R[a].paths
          \/ /\ p \in Paths[R[a].code] /\ p # <<>>
             /\ \E h \in K : h[2] = a /\ F[h].seq = p
    BY DEF Finish
  <2>2. p \in P[a].paths <=>
          \/ p \in Q[a].paths
          \/ /\ p \in Paths[Q[a].code] /\ p # <<>>
             /\ \E h \in L : h[2] = a /\ G[h].seq = p
    BY <1>1 DEF Finish
  <2> QED
    BY <1>2, <2>1, <2>2
<1>4. ASSUME NEW a \in DOMAIN R, NEW e
      PROVE  e \in P[a].edges <=>
               \/ e \in R[a].edges
               \/ \E h \in K \union L : /\ h[2] = a /\ F[h].seq # <<>>
                                        /\ EXIT \in Outs[R[a].code][LastOf(F[h].seq)]
                                        /\ e = <<LastOf(F[h].seq), EXIT>>
  <2>1. e \in Q[a].edges <=>
          \/ e \in R[a].edges
          \/ \E h \in K : /\ h[2] = a /\ F[h].seq # <<>>
                          /\ EXIT \in Outs[R[a].code][LastOf(F[h].seq)]
                          /\ e = <<LastOf(F[h].seq), EXIT>>
    BY DEF Finish
  <2>2. e \in P[a].edges <=>
          \/ e \in Q[a].edges
          \/ \E h \in L : /\ h[2] = a /\ G[h].seq # <<>>
                          /\ EXIT \in Outs[Q[a].code][LastOf(G[h].seq)]
                          /\ e = <<LastOf(G[h].seq), EXIT>>
    BY <1>1 DEF Finish
  <2> QED
    BY <1>2, <2>1, <2>2
<1> QED
  BY <1>1, <1>2, <1>3, <1>4 DEF Finish

(* The frame the hook works on: the one that is there, or a new one; the   *)
(* frames it takes to have returned; and all those it finishes, its own    *)
(* among them when the opcode is the entry of a new invocation.            *)
Fresh ==
  [pos |-> Cardinality(DOMAIN frames) + 1, cache |-> Top.code, seq |-> <<>>, last |-> NONE]

Placed ==
  [k \in DOMAIN frames \union {TopKey} |-> IF k \in DOMAIN frames THEN frames[k] ELSE Fresh]

Gone == IF TopKey \in DOMAIN frames THEN DOMAIN frames \ Below(TopKey) ELSE {}

FinishedBy(pc) ==
  Gone \union (IF Reentered(Placed[TopKey], pc) THEN {TopKey} ELSE {})

(* What is left on the stack, and what the hook's frame has become.        *)
HookFrames(pc, f) ==
  /\ DOMAIN frames' = DOMAIN Placed \ Gone
  /\ TopKey \in DOMAIN frames'
  /\ \A h \in DOMAIN frames' : frames'[h].cache = Placed[h].cache
  /\ \A h \in DOMAIN frames' : h # TopKey =>
       frames'[h].seq = frames[h].seq /\ frames'[h].last = frames[h].last
  /\ SameOrder(Placed, frames', DOMAIN frames')
  /\ IF pc \in Starts[Top.code]
     THEN /\ frames'[TopKey].last = pc
          /\ frames'[TopKey].seq = IF f.last = pc THEN f.seq ELSE Append(f.seq, pc)
     ELSE /\ frames'[TopKey].last = Placed[TopKey].last
          /\ frames'[TopKey].seq = Placed[TopKey].seq

(* The cache Q, in which the finished frames were recorded, has become the *)
(* new one: branch pc is hit, and the edge to it from the branch before.   *)
HookEntries(pc, f, Q) ==
  /\ DOMAIN reached' = DOMAIN Q
  /\ \A a \in DOMAIN Q :
       /\ reached'[a].code = Q[a].code /\ reached'[a].paths = Q[a].paths
       /\ reached'[a].hits = Q[a].hits \union
            (IF a = Home[Top.code] THEN {pc} \intersect Starts[Top.code] ELSE {})
       /\ \A e \in reached'[a].edges :
            \/ e \in Q[a].edges
            \/ /\ a = Home[Top.code] /\ pc \in Starts[Top.code]
               /\ f.last # NONE /\ e = <<f.last, pc>>

(* Before that, F and R are the frames and the cache with the hook's frame *)
(* found or pushed.                                                        *)
LEMMA HookSplit ==
  ASSUME OwnAddresses, TInv, OInv, enabled, Top.code \in Traced, NEW pc,
         php_pcov_trace(pc)
  PROVE  \E F, R :
           /\ Sound(F, R) /\ RecordOpcode(F, R, TopKey, pc)
           /\ DOMAIN F = DOMAIN Placed \ Gone /\ TopKey \in DOMAIN F
           /\ \A h \in DOMAIN F : /\ F[h].cache = Placed[h].cache
                                  /\ F[h].seq = Placed[h].seq
                                  /\ F[h].last = Placed[h].last
           /\ SameOrder(Placed, F, DOMAIN F)
           /\ Finish(frames, php_pcov_reached_get(Top.code), R, Gone)
<1> DEFINE c == Top.code
           k == TopKey
<1>1. /\ c \in Codes /\ ~Stale(c) /\ FInv /\ Ordered(frames) /\ Sound(frames, reached)
      /\ Home[c] \in DOMAIN reached => reached[Home[c]].code = c
  BY TopTyped, OwnEntry DEF TInv, Activations, OInv, FInv
<1>2. PICK F, R : /\ Sound(F, R) /\ k \in DOMAIN F /\ RecordOpcode(F, R, k, pc)
                  /\ FoundIn(F, R) \/ PushedOn(F, R)
  BY <1>1, TraceSplit
<1> DEFINE Same == \A h \in DOMAIN F : /\ F[h].cache = Placed[h].cache
                                       /\ F[h].seq = Placed[h].seq
                                       /\ F[h].last = Placed[h].last
<1>3. CASE FoundIn(F, R)
  <2>1. /\ k \in DOMAIN frames /\ F = Compact(frames, Below(k))
        /\ R = php_pcov_frame_finalize(frames, reached, DOMAIN frames \ Below(k))
        /\ Below(k) \in SUBSET DOMAIN frames
    BY <1>3 DEF FoundIn, Below
  <2>2. Gone = DOMAIN frames \ Below(k) /\ Placed = frames
    <3>1. Gone = DOMAIN frames \ Below(k)
      BY <2>1 DEF Gone
    <3>2. DOMAIN frames \union {k} = DOMAIN frames
      BY <2>1
    <3>3. Placed = [h \in DOMAIN frames |-> frames[h]]
      BY <3>2 DEF Placed
    <3>4. frames = [h \in DOMAIN frames |-> frames[h]]
      BY <1>1 DEF Sound
    <3> QED BY <3>1, <3>3, <3>4
  <2>3. /\ DOMAIN F = Below(k) /\ SameOrder(Placed, F, DOMAIN F)
    BY <1>1, <2>1, <2>2, CompactOrdered DEF Compact
  <2>4. Same
    <3> SUFFICES ASSUME NEW h \in DOMAIN F
                 PROVE  /\ F[h].cache = frames[h].cache
                        /\ F[h].seq = frames[h].seq
                        /\ F[h].last = frames[h].last
      BY <2>2
    <3>1. h \in Below(k) /\ IsFrame(frames[h])
      BY <1>1, <2>1, <2>3 DEF Sound
    <3>2. PICK p : F[h] = [frames[h] EXCEPT !.pos = p]
      BY <2>1, <3>1 DEF Compact
    <3> QED
      BY <3>1, <3>2 DEF IsFrame
  <2>5. php_pcov_reached_get(c) = reached
    <3>1. k[2] \in DOMAIN reached /\ k[2] = Home[c]
      BY <1>1, <2>1 DEF Sound, TopKey
    <3>2. php_pcov_reached_get(c) = [a \in DOMAIN reached |-> reached[a]]
      BY <1>1, <3>1 DEF php_pcov_reached_get
    <3> QED
      BY <1>1, <3>2 DEF Sound
  <2>6. Finish(frames, reached, R, Gone)
    BY <1>1, <2>1, <2>2, FinalizeFinish
  <2>7. DOMAIN F = DOMAIN Placed \ Gone
    BY <2>1, <2>2, <2>3
  <2> HIDE DEF Same
  <2> QED
    BY <1>2, <2>3, <2>4, <2>5, <2>6, <2>7 DEF Same
<1>4. CASE PushedOn(F, R)
  <2>1. /\ k \notin DOMAIN frames /\ R = php_pcov_reached_get(c)
        /\ DOMAIN F = DOMAIN frames \union {k}
        /\ \A h \in DOMAIN frames : F[h] = frames[h]
        /\ F[k] = [pos |-> Cardinality(DOMAIN F \ {k}) + 1,
                   cache |-> R[Home[c]].code, seq |-> <<>>, last |-> NONE]
    BY <1>1, <1>4 DEF PushedOn
  <2>2. Gone = {} /\ DOMAIN Placed = DOMAIN frames \union {k}
    BY <2>1 DEF Gone, Placed
  <2>3. R[Home[c]].code = c
    BY <1>1, <2>1 DEF php_pcov_reached_get, EmptyEntry
  <2>4. F[k] = Fresh
    <3>1. DOMAIN F \ {k} = DOMAIN frames
      BY <2>1
    <3> HIDE DEF k
    <3> QED
      BY <2>1, <2>3, <3>1 DEF Fresh
  <2>5. \A h \in DOMAIN F : F[h] = Placed[h]
    BY <2>1, <2>2, <2>4 DEF Placed
  <2>6. Same /\ SameOrder(Placed, F, DOMAIN F)
    BY <2>5 DEF SameOrder
  <2>7. Finish(frames, R, R, Gone)
    BY <1>2, <2>2, FinishNothing DEF Sound
  <2> HIDE DEF Same
  <2> QED
    BY <1>2, <2>1, <2>2, <2>6, <2>7 DEF Same
<1> QED
  BY <1>2, <1>3, <1>4

(* The whole effect of the hook.                                           *)
LEMMA HookEffect ==
  ASSUME OwnAddresses, TInv, OInv, enabled, Top.code \in Traced, NEW pc,
         php_pcov_trace(pc)
  PROVE  LET f == Renewed(Placed[TopKey], pc)
         IN  /\ HookFrames(pc, f)
             /\ \E Q : /\ Finish(frames, php_pcov_reached_get(Top.code), Q, FinishedBy(pc))
                       /\ HookEntries(pc, f, Q)
<1> DEFINE c == Top.code
           k == TopKey
           f == Renewed(Placed[k], pc)
<1>1. PICK F, R :
        /\ Sound(F, R) /\ RecordOpcode(F, R, k, pc)
        /\ DOMAIN F = DOMAIN Placed \ Gone /\ k \in DOMAIN F
        /\ \A h \in DOMAIN F : /\ F[h].cache = Placed[h].cache
                               /\ F[h].seq = Placed[h].seq
                               /\ F[h].last = Placed[h].last
        /\ SameOrder(Placed, F, DOMAIN F)
        /\ Finish(frames, php_pcov_reached_get(c), R, Gone)
  BY HookSplit
<1>2. /\ c \in Codes /\ k[2] = Home[c]
      /\ Placed[k].cache = c /\ k \in DOMAIN Placed
      /\ \A h \in DOMAIN Placed : h # k => Placed[h] = frames[h] /\ h \in DOMAIN frames
  <2>1. c \in Codes /\ FInv /\ (Home[c] \in DOMAIN reached => reached[Home[c]].code = c)
    BY TopTyped, OwnEntry DEF TInv, Activations
  <2>2. k \in DOMAIN frames => frames[k].cache = c
    BY <2>1 DEF FInv, Sound, TopKey
  <2>3. k[2] = Home[c]
    BY DEF TopKey
  <2> HIDE DEF k
  <2> QED
    BY <2>1, <2>2, <2>3 DEF Placed, Fresh, k
<1>3. IsFrame(F[k]) /\ F[k].cache = c /\ F[k].seq = Placed[k].seq /\ F[k].last = Placed[k].last
  BY <1>1, <1>2 DEF Sound
<1>4. /\ Reentered(F[k], pc) <=> Reentered(Placed[k], pc)
      /\ Reentered(F[k], pc) => pc \in Starts[c]
  BY <1>2, <1>3, ProgramAssumption DEF Reentered
<1>5. /\ IsFrame(Renewed(F[k], pc))
      /\ Renewed(F[k], pc).seq = f.seq /\ Renewed(F[k], pc).last = f.last
      /\ Renewed(F[k], pc).cache = c
  <2>1. /\ IsFrame(Renewed(F[k], pc)) /\ Renewed(F[k], pc).cache = c
        /\ Renewed(F[k], pc).seq = (IF Reentered(F[k], pc) THEN <<>> ELSE F[k].seq)
        /\ Renewed(F[k], pc).last = (IF Reentered(F[k], pc) THEN NONE ELSE F[k].last)
    BY <1>3, RenewedFrame
  <2>2. IsFrame(Placed[k])
    BY <1>2 DEF TInv, FInv, Sound, Placed, Fresh, IsFrame
  <2>3. /\ f.seq = (IF Reentered(Placed[k], pc) THEN <<>> ELSE Placed[k].seq)
        /\ f.last = (IF Reentered(Placed[k], pc) THEN NONE ELSE Placed[k].last)
    BY <2>2, RenewedFrame
  <2> QED
    BY <1>3, <1>4, <2>1, <2>3
<1>6. /\ DOMAIN frames' = DOMAIN F
      /\ \A h \in DOMAIN F \ {k} : frames'[h] = F[h]
      /\ frames'[k].pos = F[k].pos /\ frames'[k].cache = F[k].cache
  BY <1>1, <1>3, RecordFrames
<1>7. /\ \A h \in DOMAIN frames' : frames'[h].cache = Placed[h].cache
      /\ \A h \in DOMAIN frames' : h # k =>
           frames'[h].seq = frames[h].seq /\ frames'[h].last = frames[h].last
  <2> HIDE DEF k
  <2> QED
    BY <1>1, <1>2, <1>3, <1>6
<1>8. SameOrder(Placed, frames', DOMAIN frames')
  <2>1. \A h \in DOMAIN F : frames'[h].pos = F[h].pos
    BY <1>6
  <2> QED
    BY <1>1, <1>6, <2>1 DEF SameOrder
<1>9. CASE pc \in Starts[c]
  <2> DEFINE Q == Closed(F, R, k, pc)
  <2>1. Recorded(F, R, k, pc, Renewed(F[k], pc), Q)
    BY <1>1, <1>3, <1>9, RecordStart
  <2> DEFINE g == Renewed(F[k], pc)
  <2>2. /\ frames'[k].last = pc
        /\ frames'[k].seq = IF f.last = pc THEN f.seq ELSE Append(f.seq, pc)
    <3>1. frames'[k] = php_pcov_frame_append(g, pc)
      BY <1>1, <2>1 DEF Recorded
    <3> HIDE DEF g
    <3> QED
      BY <3>1, <1>5, AppendedFrame DEF g
  <2>3. HookFrames(pc, f)
    BY <1>1, <1>6, <1>7, <1>8, <1>9, <2>2 DEF HookFrames
  <2>4. Finish(frames, php_pcov_reached_get(c), Q, FinishedBy(pc))
    <3>1. CASE Reentered(F[k], pc)
      <4>1. Q = php_pcov_frame_finalize(F, R, {k}) /\ {k} \in SUBSET DOMAIN F
        BY <1>1, <3>1 DEF Closed
      <4>2. Finish(F, R, Q, {k})
        BY <1>1, <4>1, FinalizeFinish
      <4>3. FinishedBy(pc) = Gone \union {k}
        BY <1>4, <3>1 DEF FinishedBy
      <4>4. k \in DOMAIN frames
        BY <1>3, <3>1 DEF Reentered, Placed, Fresh
      <4>5. F[k].seq = frames[k].seq
        BY <1>3, <4>4 DEF Placed
      <4> HIDE DEF Q, k
      <4> QED
        BY <1>1, <4>2, <4>3, <4>5, FinishTwice
    <3>2. CASE ~Reentered(F[k], pc)
      BY <1>1, <1>4, <3>2 DEF Closed, FinishedBy
    <3> QED
      BY <3>1, <3>2
  <2>5. HookEntries(pc, f, Q)
    <3>1. DOMAIN Q = DOMAIN R /\ DOMAIN reached' = DOMAIN R
      BY <2>1 DEF Recorded
    <3>2. ASSUME NEW a \in DOMAIN Q, a # k[2]
          PROVE  reached'[a] = Q[a]
      BY <3>1, <3>2, <2>1 DEF Recorded
    <3>3. reached'[k[2]] =
            [code  |-> Q[k[2]].code, hits  |-> Q[k[2]].hits \union {pc},
             edges |-> Q[k[2]].edges \union TraversedEdges(g, Q[k[2]].hits, pc),
             paths |-> Q[k[2]].paths]
      BY <2>1 DEF Recorded
    <3>4. \A e \in TraversedEdges(g, Q[k[2]].hits, pc) : f.last # NONE /\ e = <<f.last, pc>>
      BY <1>5 DEF TraversedEdges
    <3> HIDE DEF Q, k, g, f
    <3> QED
      BY <1>2, <1>9, <3>1, <3>2, <3>3, <3>4 DEF HookEntries
  <2> HIDE DEF Q
  <2> QED
    BY <2>3, <2>4, <2>5
<1>10. CASE pc \notin Starts[c]
  <2>1. frames' = F /\ reached' = R
    BY <1>1, <1>3, <1>10, RecordElsewhere
  <2>2. FinishedBy(pc) = Gone
    BY <1>4, <1>10 DEF FinishedBy
  <2>3. HookFrames(pc, f)
    BY <1>1, <1>3, <1>6, <1>7, <1>8, <1>10, <2>1 DEF HookFrames
  <2>4. HookEntries(pc, f, R)
    BY <1>10, <2>1 DEF HookEntries
  <2> QED
    BY <1>1, <2>2, <2>3, <2>4
<1> QED
  BY <1>9, <1>10

-----------------------------------------------------------------------------
(* What stop and collect do.                                               *)

LiveFrames == {k \in DOMAIN frames : php_pcov_frame_is_live(k)}

(* The frames K stay, as they are and in their order.                      *)
Stay(K) ==
  /\ DOMAIN frames' = K
  /\ \A h \in K : /\ frames'[h].cache = frames[h].cache
                  /\ frames'[h].seq = frames[h].seq
                  /\ frames'[h].last = frames[h].last
  /\ SameOrder(frames, frames', K)

(* The cache is Q, with entries added that have recorded nothing.          *)
Extends(Q) ==
  /\ DOMAIN Q \subseteq DOMAIN reached'
  /\ \A a \in DOMAIN Q : reached'[a] = Q[a]
  /\ \A a \in DOMAIN reached' \ DOMAIN Q : \E c \in Traced : reached'[a] = EmptyEntry(c)

LEMMA CompactStay ==
  ASSUME NEW F, NEW K \in SUBSET DOMAIN F, Ordered(F)
  PROVE  /\ DOMAIN Compact(F, K) = K /\ Ordered(Compact(F, K))
         /\ SameOrder(F, Compact(F, K), K)
         /\ \A h \in K : /\ Compact(F, K)[h].cache = F[h].cache
                         /\ Compact(F, K)[h].seq = F[h].seq
                         /\ Compact(F, K)[h].last = F[h].last
<1>1. \A h \in K : IsFrame(F[h])
  BY DEF Ordered
<1>2. DOMAIN Compact(F, K) = K
  BY DEF Compact
<1>3. ASSUME NEW h \in K
      PROVE  /\ Compact(F, K)[h].cache = F[h].cache
             /\ Compact(F, K)[h].seq = F[h].seq
             /\ Compact(F, K)[h].last = F[h].last
  <2>1. PICK p : Compact(F, K)[h] = [F[h] EXCEPT !.pos = p]
    BY DEF Compact
  <2> QED
    BY <1>1, <2>1 DEF IsFrame
<1> QED
  BY <1>2, <1>3, CompactOrdered

LEMMA ReturnedEffect ==
  ASSUME OwnAddresses, TInv, OInv,
         php_pcov_frames_finalize_returned \/ php_pcov_collect
  PROVE  /\ Stay(LiveFrames)
         /\ \E Q : Finish(frames, reached, Q, DOMAIN frames \ LiveFrames) /\ Extends(Q)
<1> DEFINE R == php_pcov_frame_finalize(frames, reached, DOMAIN frames \ LiveFrames)
           F == Compact(frames, LiveFrames)
<1>1. /\ LiveFrames \in SUBSET DOMAIN frames /\ Ordered(frames)
      /\ Sound(frames, reached) /\ EntriesOK(reached) /\ IsFiniteSet(DOMAIN frames)
  BY DEF LiveFrames, TInv, OInv, FInv, Ordered
<1>2. Finish(frames, reached, R, DOMAIN frames \ LiveFrames)
  BY <1>1, FinalizeFinish
<1>3. /\ DOMAIN F = LiveFrames /\ Ordered(F) /\ SameOrder(frames, F, LiveFrames)
      /\ \A h \in LiveFrames : /\ F[h].cache = frames[h].cache
                               /\ F[h].seq = frames[h].seq
                               /\ F[h].last = frames[h].last
  BY <1>1, CompactStay
<1>4. CASE php_pcov_frames_finalize_returned
  <2>1. frames' = F /\ reached' = R
    BY <1>4 DEF php_pcov_frames_finalize_returned, LiveFrames
  <2>2. Stay(LiveFrames)
    BY <1>3, <2>1 DEF Stay
  <2>3. Extends(R)
    BY <2>1 DEF Extends
  <2> HIDE DEF R
  <2> QED
    BY <1>2, <2>2, <2>3
<1>5. CASE php_pcov_collect
  <2> DEFINE built == {c \in loaded \intersect Traced :
                         Home[c] \notin DOMAIN reached \/ Stale(c)}
             new == {Home[c] : c \in built}
  <2>1. /\ reached' = [a \in DOMAIN R \union new |->
                         IF \E c \in built : Home[c] = a
                         THEN EmptyEntry(CHOOSE c \in built : Home[c] = a)
                         ELSE R[a]]
        /\ frames' = php_pcov_frames_detach_cache(F, new \intersect DOMAIN reached)
    BY <1>5 DEF php_pcov_collect, LiveFrames
  <2>2. \A c \in built : Home[c] \notin DOMAIN reached
    BY <1>1, OwnEntry, ProgramAssumption
  <2>3. new \intersect DOMAIN reached = {} /\ DOMAIN R = DOMAIN reached
    BY <1>2, <2>2 DEF Finish
  <2>4. Stay(LiveFrames)
    <3> HIDE DEF F, R
    <3>1. frames' = Compact(F, DOMAIN F)
      BY <2>1, <2>3 DEF php_pcov_frames_detach_cache
    <3>2. DOMAIN F \in SUBSET DOMAIN F
      OBVIOUS
    <3>3. /\ DOMAIN frames' = DOMAIN F /\ SameOrder(F, frames', DOMAIN F)
          /\ \A h \in DOMAIN F : /\ frames'[h].cache = F[h].cache
                                 /\ frames'[h].seq = F[h].seq
                                 /\ frames'[h].last = F[h].last
      BY <1>3, <3>1, <3>2, CompactStay
    <3>4. SameOrder(frames, frames', LiveFrames)
      BY <1>3, <3>3 DEF SameOrder
    <3> QED
      BY <1>3, <3>3, <3>4 DEF Stay
  <2>5. Extends(R)
    <3> HIDE DEF R
    <3>1. ASSUME NEW a \in DOMAIN R
          PROVE  a \in DOMAIN reached' /\ reached'[a] = R[a]
      BY <2>1, <2>2, <2>3
    <3>2. ASSUME NEW a \in DOMAIN reached' \ DOMAIN R
          PROVE  \E c \in Traced : reached'[a] = EmptyEntry(c)
      <4>1. \E c \in built : Home[c] = a
        BY <2>1, <3>2
      <4>2. reached'[a] = EmptyEntry(CHOOSE c \in built : Home[c] = a)
        BY <2>1, <3>2, <4>1
      <4> QED
        BY <4>1, <4>2
    <3> QED
      BY <3>1, <3>2 DEF Extends
  <2> HIDE DEF R
  <2> QED
    BY <1>2, <2>4, <2>5
<1> QED
  BY <1>4, <1>5

-----------------------------------------------------------------------------
(* Hit branches.                                                           *)

Hits(R, c) == IF Home[c] \in DOMAIN R THEN R[Home[c]].hits ELSE {}

HitsExact ==
  \A c \in Traced : \A b \in Starts[c] : <<c, b>> \in entered <=> b \in Hits(reached, c)

(* The hook hits the branch it comes to and no other, of no other code.    *)
LEMMA HookHits ==
  ASSUME OwnAddresses, TInv, OInv, NEW pc, php_pcov_trace(pc), NEW c \in Traced
  PROVE  Hits(reached', c) =
           Hits(reached, c) \union
           (IF enabled /\ c = Top.code THEN {pc} \intersect Starts[c] ELSE {})
<1>1. CASE ~(enabled /\ Top.code \in Traced)
  BY <1>1 DEF php_pcov_trace, Hits
<1>2. CASE enabled /\ Top.code \in Traced
  <2> DEFINE t == Top.code
             G == php_pcov_reached_get(t)
             f == Renewed(Placed[TopKey], pc)
  <2>1. PICK Q : Finish(frames, G, Q, FinishedBy(pc)) /\ HookEntries(pc, f, Q)
    BY <1>2, HookEffect
  <2>2. t \in Codes /\ ~Stale(t) /\ c \in Codes /\ (Home[c] = Home[t] => c = t)
    BY TopTyped, OwnEntry, ProgramAssumption DEF TInv, Activations, OwnAddresses
  <2>3. Hits(G, c) = Hits(reached, c)
    BY <2>2 DEF php_pcov_reached_get, Hits, EmptyEntry
  <2>4. Hits(Q, c) = Hits(G, c)
    <3> HIDE DEF G
    <3> QED
      BY <2>1 DEF Finish, Hits
  <2>5. Home[t] \in DOMAIN Q
    BY <2>1 DEF Finish, php_pcov_reached_get
  <2>6. /\ DOMAIN reached' = DOMAIN Q
        /\ \A a \in DOMAIN Q : reached'[a].hits = Q[a].hits \union
             (IF a = Home[t] THEN {pc} \intersect Starts[t] ELSE {})
    BY <2>1 DEF HookEntries
  <2>7. Hits(reached', c) = Hits(Q, c) \union
          (IF c = t THEN {pc} \intersect Starts[c] ELSE {})
    BY <2>2, <2>5, <2>6 DEF Hits
  <2> QED
    BY <1>2, <2>3, <2>4, <2>7
<1> QED
  BY <1>1, <1>2

LEMMA ReturnedHits ==
  ASSUME OwnAddresses, TInv, OInv, NEW c \in Traced,
         php_pcov_frames_finalize_returned \/ php_pcov_collect
  PROVE  Hits(reached', c) = Hits(reached, c)
<1>1. PICK Q : Finish(frames, reached, Q, DOMAIN frames \ LiveFrames) /\ Extends(Q)
  BY ReturnedEffect
<1>2. Hits(Q, c) = Hits(reached, c)
  BY <1>1 DEF Finish, Hits
<1>3. Hits(reached', c) = Hits(Q, c)
  BY <1>1 DEF Extends, EmptyEntry, Hits
<1> QED
  BY <1>2, <1>3

HitsInv == TInv /\ OInv /\ HitsExact

LEMMA HitsStep ==
  ASSUME OwnAddresses, AllReceived
  PROVE  HitsInv /\ [Next]_vars => HitsInv'
<1> SUFFICES ASSUME HitsInv, [Next]_vars
             PROVE  HitsInv'
  OBVIOUS
<1> USE DEF HitsInv
<1>1. TInv' /\ OInv'
  BY TypesStep, OrderedStep
<1> SUFFICES HitsExact'
  BY <1>1
<1>2. ASSUME entered' = entered, \A c \in Traced : Hits(reached', c) = Hits(reached, c)
      PROVE  HitsExact'
  BY <1>2 DEF HitsExact
<1>3. ASSUME entered' = entered, reached' = reached
      PROVE  HitsExact'
  BY <1>2, <1>3
<1>4. CASE Run
  <2> DEFINE t == Top.code
             starts == IF Top.at = "new" THEN {0} ELSE {Top.pc} \intersect Starts[t]
  <2>1. /\ php_pcov_trace(Top.pc)
        /\ entered' = IF enabled /\ t \in Traced
                      THEN entered \union {<<t, b>> : b \in starts} ELSE entered
    BY <1>4 DEF Run
  <2>2. t \in Traced => starts = {Top.pc} \intersect Starts[t]
    <3>1. t \in Codes /\ ActOK(Top)
      BY TopTyped DEF TInv, Activations
    <3> QED
      BY <3>1, ProgramAssumption DEF ActOK, AllReceived
  <2>3. ASSUME NEW c \in Traced, NEW b \in Starts[c]
        PROVE  <<c, b>> \in entered' <=> b \in Hits(reached', c)
    <3>1. Hits(reached', c) =
            Hits(reached, c) \union
            (IF enabled /\ c = t THEN {Top.pc} \intersect Starts[c] ELSE {})
      BY <2>1, HookHits
    <3>2. <<c, b>> \in entered' <=>
            <<c, b>> \in entered \/ (enabled /\ c = t /\ b \in starts)
      <4> HIDE DEF starts
      <4> QED
        BY <2>1
    <3>3. <<c, b>> \in entered <=> b \in Hits(reached, c)
      BY DEF HitsExact
    <3> QED
      BY <2>2, <3>1, <3>2, <3>3
  <2> QED
    BY <2>3 DEF HitsExact
<1>5. ASSUME NEW c \in Codes, Call(c)
      PROVE  HitsExact'
  BY <1>3, <1>5 DEF Call, pcovVars, historyVars
<1>6. ASSUME NEW n, Advance(n)
      PROVE  HitsExact'
  BY <1>3, <1>6 DEF Advance, pcovVars
<1>7. CASE Leave
  BY <1>3, <1>7 DEF Leave, pcovVars
<1>8. CASE Throw
  BY <1>3, <1>8 DEF Throw, pcovVars, historyVars
<1>9. CASE Unwind
  <2>1. php_pcov_trace(NONE) /\ entered' = entered
    BY <1>9 DEF Unwind
  <2>2. \A c \in Traced : NONE \notin Starts[c]
    BY ProgramAssumption DEF NONE
  <2>3. \A c \in Traced : Hits(reached', c) = Hits(reached, c)
    BY <2>1, <2>2, HookHits
  <2> QED
    BY <1>2, <2>1, <2>3
<1>10. CASE php_pcov_start
  BY <1>3, <1>10 DEF php_pcov_start, historyVars
<1>11. CASE php_pcov_stop
  BY <1>2, <1>11, ReturnedHits DEF php_pcov_stop, historyVars
<1>12. CASE php_pcov_clear
  <2>1. reached' = [a \in {} |-> {}] /\ entered' = {}
    BY <1>12 DEF php_pcov_clear
  <2> QED
    BY <2>1 DEF HitsExact, Hits
<1>13. CASE php_pcov_collect
  <2>1. entered' = entered
    BY <1>13 DEF php_pcov_collect, historyVars
  <2> QED
    BY <1>2, <1>13, <2>1, ReturnedHits
<1>14. CASE UNCHANGED vars
  BY <1>3, <1>14 DEF vars, pcovVars, historyVars
<1>15. CASE Engine
  BY <1>15, <1>4, <1>5, <1>6, <1>7, <1>8, <1>9 DEF Engine
<1>16. CASE Script
  BY <1>16, <1>10, <1>11, <1>12, <1>13 DEF Script
<1> QED
  BY <1>14, <1>15, <1>16 DEF Next

LEMMA OrderedInit == Init => OInv
BY FS_EmptySet DEF Init, OInv, Ordered

(* Where no two op_arrays of the program ever share an address and no      *)
(* function starts past a branch, the hit branches of a retained code are  *)
(* exactly those that were entered while pcov was tracing, however often   *)
(* the program starts, stops, clears and collects and wherever it does.    *)
THEOREM BranchesExact ==
  ASSUME OwnAddresses, AllReceived
  PROVE  Spec => []BranchHitsExact
<1>1. Init => HitsInv
  <2> SUFFICES ASSUME Init
               PROVE  HitsExact
    BY TypesInit, OrderedInit DEF HitsInv
  <2>1. reached = [a \in {} |-> {}] /\ entered = {}
    BY DEF Init
  <2> QED
    BY <2>1 DEF HitsExact, Hits
<1>2. HitsInv => BranchHitsExact
  <2> SUFFICES ASSUME HitsInv, NEW c \in loaded \intersect Traced
               PROVE  {b \in Starts[c] : <<c, b>> \in entered} =
                        IF Home[c] \in DOMAIN reached /\ reached[Home[c]].code = c
                        THEN reached[Home[c]].hits
                        ELSE {}
    BY DEF BranchHitsExact
  <2>1. c \in Codes /\ EntriesOK(reached)
        /\ (Home[c] \in DOMAIN reached => reached[Home[c]].code = c)
    BY OwnEntry, ProgramAssumption DEF HitsInv, TInv
  <2>2. Hits(reached, c) \subseteq Starts[c]
    BY <2>1 DEF EntriesOK, Hits
  <2>3. {b \in Starts[c] : <<c, b>> \in entered} = Hits(reached, c)
    BY <2>2 DEF HitsInv, HitsExact
  <2> QED
    BY <2>1, <2>3 DEF Hits
<1>3. HitsInv /\ [Next]_vars => HitsInv'
  BY HitsStep
<1> QED
  BY <1>1, <1>2, <1>3, PTL DEF Spec

-----------------------------------------------------------------------------
(* The moves of the engine.                                                *)

(* An activation goes on as it was, whole perhaps no more.                 *)
Alike(b, a) ==
  /\ b.slot = a.slot /\ b.code = a.code /\ b.pc = a.pc /\ b.at = a.at
  /\ b.walk = a.walk /\ (b.whole => a.whole)

(* So do the activations below the innermost one, and this one is at at.   *)
TopAt(at) ==
  /\ Len(stack') = Len(stack)
  /\ \A i \in 1 .. Len(stack) - 1 : Alike(stack'[i], stack[i])
  /\ Top'.slot = Top.slot /\ Top'.code = Top.code /\ Top'.pc = Top.pc
  /\ Top'.walk = Top.walk /\ Top'.at = at /\ (Top'.whole => Top.whole)

TopGone ==
  /\ Len(stack) > 1 /\ Len(stack') = Len(stack) - 1
  /\ \A i \in 1 .. Len(stack) - 1 : stack'[i] = stack[i]

TopMoved(n, w) ==
  /\ Len(stack') = Len(stack)
  /\ \A i \in 1 .. Len(stack) - 1 : stack'[i] = stack[i]
  /\ Top'.slot = Top.slot /\ Top'.code = Top.code /\ Top'.pc = n
  /\ Top'.at = "ready" /\ Top'.walk = w /\ Top'.whole = Top.whole

LEMMA RunMoves ==
  ASSUME StackInv, Run
  PROVE  TopAt("run")
<1>1. Becomes(Turned(Top, "run")) /\ Top \in Activations /\ ActOK(Top)
  BY TopTyped DEF Run, Turned
<1> DEFINE t == Turned(Top, "run")
<1>2. /\ t \in Activations /\ t.slot = Top.slot /\ t.code = Top.code
      /\ t.pc = Top.pc /\ t.at = "run" /\ t.walk = Top.walk /\ t.whole = Top.whole
  BY <1>1, TurnedActivation
<1> HIDE DEF t
<1>3. /\ Len(stack') = Len(stack) /\ Top' = t
      /\ \A i \in 1 .. Len(stack) - 1 : stack'[i] = stack[i]
  BY <1>1, <1>2, BecomesStack DEF t
<1> QED
  BY <1>2, <1>3 DEF TopAt, Alike

LEMMA CallMoves ==
  ASSUME StackInv, NEW c \in Codes, Call(c)
  PROVE  /\ Len(stack') = Len(stack) + 1
         /\ \A i \in 1 .. Len(stack) - 1 : stack'[i] = stack[i]
         /\ LET t == stack'[Len(stack)]
            IN  /\ t.slot = Top.slot /\ t.code = Top.code /\ t.pc = Top.pc
                /\ t.at = "done" /\ t.walk = Top.walk /\ t.whole = Top.whole
         /\ Top' = stack'[Len(stack) + 1]
         /\ \E ahead \in Ahead[Top.code] : Top'.slot = Top.slot + ahead
         /\ Top'.code = c /\ Top'.at = "new" /\ Top'.whole = enabled
         /\ Top'.walk = <<0>> /\ Top'.pc = First[c]
<1>1. PICK ahead \in Ahead[Top.code] :
        stack' = Append([stack EXCEPT ![Len(stack)].at = "done"],
                        Activation(Top.slot + ahead, c, enabled))
  BY DEF Call
<1> DEFINE act == Activation(Top.slot + ahead, c, enabled)
           t == Turned(Top, "done")
<1>2. act \in Activations
  <2>1. Top.code \in Codes /\ Top.slot \in Nat /\ enabled \in BOOLEAN
    BY TopTyped DEF StackInv, Activations
  <2>2. Top.slot + ahead \in Nat
    BY <2>1, ProgramAssumption
  <2> QED
    BY <2>1, <2>2, NewActivation
<1>3. /\ t.slot = Top.slot /\ t.code = Top.code /\ t.pc = Top.pc /\ t.at = "done"
      /\ t.walk = Top.walk /\ t.whole = Top.whole
  BY TopTyped, TurnedActivation
<1> HIDE DEF act
<1>4. /\ Len(stack') = Len(stack) + 1 /\ Top' = act /\ stack'[Len(stack)] = t
      /\ \A i \in 1 .. Len(stack) - 1 : stack'[i] = stack[i]
  BY <1>1, <1>2, PushStack DEF Turned, act
<1>5. Top' = stack'[Len(stack) + 1]
  BY <1>4 DEF Top
<1>6. /\ act.slot = Top.slot + ahead /\ act.code = c /\ act.at = "new"
      /\ act.whole = enabled /\ act.walk = <<0>> /\ act.pc = First[c]
  BY DEF act, Activation
<1> HIDE DEF t
<1> QED
  BY <1>3, <1>4, <1>5, <1>6

(* Control goes on to n: what becomes of the walk, and what is noted.      *)
LEMMA GoToMoves ==
  ASSUME StackInv, NEW n \in Flow[Top.code][Top.pc] \union Catch[Top.code][Top.pc],
         GoTo(n)
  PROVE  LET c == Top.code
             w == Top.walk
             v == IF LastOf(w) = n THEN w ELSE Append(w, n)
         IN  /\ w \in Seq(Nat) /\ w # <<>> /\ n \in Opcodes(c) /\ n \in Nat /\ c \in Codes
             /\ \/ /\ c \in Traced /\ n \in Entries[c] /\ TopMoved(n, <<n>>)
                   /\ walked' = walked \union {<<c, w, Top.whole>>} /\ took' = took
                \/ /\ c \in Traced /\ n \in Starts[c] \ Entries[c] /\ TopMoved(n, v)
                   /\ took' = took \union {<<c, LastOf(w), n>>} /\ walked' = walked
                \/ /\ c \in Traced => n \notin Starts[c]
                   /\ TopMoved(n, w)
                   /\ walked' = walked /\ took' = took
<1> DEFINE c == Top.code
           w == Top.walk
           v == IF LastOf(w) = n THEN w ELSE Append(w, n)
<1>1. /\ Top \in Activations /\ c \in Codes /\ w \in Seq(Nat) /\ w # <<>>
      /\ n \in Opcodes(c) /\ n \in Nat
  <2>1. Top \in Activations /\ c \in Codes /\ w \in Seq(Nat) /\ ActOK(Top)
    BY TopTyped DEF Activations
  <2> QED
    BY <2>1, ProgramAssumption DEF ActOK
<1>2. ASSUME NEW u \in Seq(Nat), Becomes(Moved(Top, n, u))
      PROVE  TopMoved(n, u)
  <2> DEFINE t == Moved(Top, n, u)
  <2>1. /\ t \in Activations /\ t.slot = Top.slot /\ t.code = c /\ t.pc = n
        /\ t.at = "ready" /\ t.walk = u /\ t.whole = Top.whole
    BY <1>1, MovedActivation
  <2> HIDE DEF t
  <2>2. /\ Len(stack') = Len(stack) /\ Top' = t
        /\ \A i \in 1 .. Len(stack) - 1 : stack'[i] = stack[i]
    BY <1>2, <2>1, BecomesStack DEF t
  <2> QED
    BY <2>1, <2>2 DEF TopMoved
<1>3. <<n>> \in Seq(Nat) /\ v \in Seq(Nat)
  BY <1>1
<1>4. c \in Traced => Entries[c] \subseteq Starts[c]
  BY <1>1, ProgramAssumption
<1>5. CASE c \in Traced /\ n \in Entries[c]
  <2>1. /\ walked' = walked \union {<<c, w, Top.whole>>} /\ took' = took
        /\ Becomes(Moved(Top, n, <<n>>))
    BY <1>5 DEF GoTo, Moved
  <2> QED
    BY <1>1, <1>2, <1>3, <1>5, <2>1
<1>6. CASE c \in Traced /\ n \in Starts[c] \ Entries[c]
  <2>1. /\ took' = took \union {<<c, LastOf(w), n>>} /\ walked' = walked
        /\ Becomes(Moved(Top, n, v))
    BY <1>6 DEF GoTo, Moved
  <2> HIDE DEF v
  <2>2. TopMoved(n, v)
    BY <1>2, <1>3, <2>1
  <2> QED
    BY <1>1, <1>6, <2>1, <2>2 DEF v
<1>7. CASE c \in Traced => n \notin Starts[c]
  <2>1. walked' = walked /\ took' = took /\ Becomes(Moved(Top, n, w))
    BY <1>4, <1>7 DEF GoTo, Moved
  <2> QED
    BY <1>1, <1>2, <1>7, <2>1
<1> QED
  BY <1>5, <1>6, <1>7

LEMMA PopMoves ==
  ASSUME StackInv, Len(stack) > 1, stack' = SubSeq(stack, 1, Len(stack) - 1)
  PROVE  TopGone
BY PopStack DEF TopGone

(* An API function has returned.                                           *)
LEMMA ApiMoves ==
  ASSUME StackInv, Becomes(Returned) \/ Interrupt(Returned)
  PROVE  TopAt("done")
<1> DEFINE t == Turned(Top, "done")
<1>1. Top \in Activations /\ ActOK(Top)
      /\ \A i \in 1 .. Len(stack) : stack[i] \in Activations /\ ActOK(stack[i])
  BY TopTyped DEF StackInv
<1>2. /\ t \in Activations /\ ActOK(t) /\ t.slot = Top.slot /\ t.code = Top.code
      /\ t.pc = Top.pc /\ t.at = "done" /\ t.walk = Top.walk /\ t.whole = Top.whole
      /\ Returned = t
  BY <1>1, TurnedActivation DEF Returned, Turned
<1> HIDE DEF t
<1>3. CASE Becomes(Returned)
  <2>1. /\ Len(stack') = Len(stack) /\ Top' = t
        /\ \A i \in 1 .. Len(stack) - 1 : stack'[i] = stack[i]
    BY <1>2, <1>3, BecomesStack
  <2> QED
    BY <1>2, <2>1 DEF TopAt, Alike
<1>4. CASE Interrupt(Returned)
  <2>1. /\ Len(stack') = Len(stack) /\ Top' = Broken(t)
        /\ \A i \in 1 .. Len(stack) - 1 : stack'[i] = Broken(stack[i])
    BY <1>2, <1>4, InterruptStack
  <2>2. \A a \in Activations : ActOK(a) =>
          /\ Alike(Broken(a), a) /\ Broken(a).whole = FALSE
    BY BrokenActivation DEF Alike
  <2>3. ASSUME NEW i \in 1 .. Len(stack) - 1
        PROVE  Alike(stack'[i], stack[i])
    <3>1. i \in 1 .. Len(stack)
      BY TopTyped
    <3> QED
      BY <1>1, <2>1, <2>2, <3>1
  <2>4. Alike(Top', t) /\ Top'.whole = FALSE
    BY <1>2, <2>1, <2>2
  <2> QED
    BY <1>2, <2>1, <2>3, <2>4 DEF TopAt, Alike
<1> QED
  BY <1>3, <1>4

(* The codes and slots on the stack: no step changes them, but a call adds *)
(* one.                                                                    *)
SameCodes(n) ==
  /\ Len(stack') = n
  /\ \A i \in 1 .. n : stack'[i].code = stack[i].code /\ stack'[i].slot = stack[i].slot

LEMMA CodesKept ==
  ASSUME StackInv, NEW n, NEW w,
         (\E at \in {"run", "done"} : TopAt(at)) \/ TopMoved(n, w)
  PROVE  SameCodes(Len(stack))
<1>1. /\ Len(stack) \in Nat \ {0} /\ Len(stack') = Len(stack)
      /\ Top'.code = Top.code /\ Top'.slot = Top.slot
      /\ \A i \in 1 .. Len(stack) - 1 :
           stack'[i].code = stack[i].code /\ stack'[i].slot = stack[i].slot
  BY TopTyped DEF TopAt, TopMoved, Alike
<1>2. /\ stack'[Len(stack)].code = stack[Len(stack)].code
      /\ stack'[Len(stack)].slot = stack[Len(stack)].slot
  BY <1>1 DEF Top
<1> QED
  BY <1>1, <1>2 DEF SameCodes

LEMMA StepCodes ==
  ASSUME StackInv, [Next]_vars
  PROVE  \/ SameCodes(Len(stack))
         \/ Len(stack) > 1 /\ SameCodes(Len(stack) - 1)
         \/ \E c \in Codes : Call(c)
<1> DEFINE Goal == \/ SameCodes(Len(stack))
                   \/ Len(stack) > 1 /\ SameCodes(Len(stack) - 1)
                   \/ \E c \in Codes : Call(c)
<1> SUFFICES Goal
  OBVIOUS
<1>1. TopGone => Goal
  BY DEF TopGone, SameCodes
<1>2. \A at \in {"run", "done"} : TopAt(at) => Goal
  BY CodesKept
<1>3. \A n, w : TopMoved(n, w) => Goal
  BY CodesKept
<1>4. ASSUME NEW n \in Flow[Top.code][Top.pc] \union Catch[Top.code][Top.pc], GoTo(n)
      PROVE  Goal
  BY <1>3, <1>4, GoToMoves
<1>5. ASSUME Len(stack) > 1, stack' = SubSeq(stack, 1, Len(stack) - 1)
      PROVE  Goal
  BY <1>1, <1>5, PopMoves
<1>6. ASSUME stack' = stack
      PROVE  Goal
  BY <1>6 DEF SameCodes
<1>7. ASSUME Becomes(Returned) \/ Interrupt(Returned)
      PROVE  Goal
  BY <1>2, <1>7, ApiMoves
<1>8. ASSUME NEW c \in Codes, Call(c)
      PROVE  Goal
  BY <1>8
<1> HIDE DEF Goal
<1>9. CASE Engine
  <2>1. CASE Run
    BY <1>2, <2>1, RunMoves
  <2>2. ASSUME NEW n \in Flow[Top.code][Top.pc], Advance(n)
        PROVE  Goal
    BY <1>4, <2>2 DEF Advance
  <2>3. CASE Leave
    BY <1>5, <2>3 DEF Leave
  <2>4. CASE Throw
    BY <1>6, <2>4 DEF Throw
  <2>5. CASE Unwind
    BY <1>4, <1>5, <2>5 DEF Unwind
  <2> QED
    BY <1>8, <1>9, <2>1, <2>2, <2>3, <2>4, <2>5 DEF Engine
<1>10. CASE Script
  BY <1>7, <1>10 DEF Script, php_pcov_start, php_pcov_stop, php_pcov_clear, php_pcov_collect
<1>11. CASE UNCHANGED vars
  BY <1>6, <1>11 DEF vars, engineVars
<1> QED
  BY <1>9, <1>10, <1>11 DEF Next

(* The script is at the bottom of the stack and nowhere else.              *)
DriverInv ==
  /\ stack[1].code = Main
  /\ \A i \in 2 .. Len(stack) : stack[i].code # Main

LEMMA DriverStep ==
  ASSUME StoppedOutside
  PROVE  StackInv /\ DriverInv /\ [Next]_vars => DriverInv'
<1> SUFFICES ASSUME StackInv, DriverInv, [Next]_vars
             PROVE  DriverInv'
  OBVIOUS
<1>1. Len(stack) \in Nat \ {0}
  BY TopTyped
<1>2. CASE SameCodes(Len(stack))
  BY <1>1, <1>2 DEF DriverInv, SameCodes
<1>3. CASE Len(stack) > 1 /\ SameCodes(Len(stack) - 1)
  BY <1>1, <1>3 DEF DriverInv, SameCodes
<1>4. ASSUME NEW c \in Codes, Call(c)
      PROVE  DriverInv'
  <2>1. c # Main
    <3>1. c \in Callees[Top.code] /\ Top.code \in Codes
      BY <1>4, TopTyped DEF Call, Activations
    <3> QED
      BY <3>1 DEF StoppedOutside
  <2>2. /\ Len(stack') = Len(stack) + 1 /\ stack'[Len(stack) + 1].code = c
        /\ \A i \in 1 .. Len(stack) - 1 : stack'[i] = stack[i]
        /\ stack'[Len(stack)].code = Top.code
    BY <1>4, CallMoves
  <2>3. \A i \in 1 .. Len(stack) : stack'[i].code = stack[i].code
    BY <1>1, <2>2 DEF Top
  <2> QED
    BY <1>1, <2>1, <2>2, <2>3 DEF DriverInv
<1> QED
  BY <1>2, <1>3, <1>4, StepCodes

LEMMA DriverInit == Init => DriverInv
BY DEF Init, DriverInv, Activation

(* Only the script stops tracing, and when it does no frame is live.       *)
LEMMA StopLeavesNothing ==
  ASSUME OwnAddresses, StoppedOutside, TInv, OInv, DriverInv, php_pcov_stop
  PROVE  DOMAIN frames' = {}
<1>1. Top.code \in Codes /\ "stop" \in Api[Top.code] /\ Len(stack) \in Nat \ {0}
  BY TopTyped DEF php_pcov_stop, TInv, Activations
<1>2. Top.code = Main /\ Len(stack) = 1
  <2>1. Top.code = Main
    BY <1>1 DEF StoppedOutside
  <2>2. Len(stack) >= 2 => FALSE
    BY <1>1, <2>1 DEF DriverInv, Top
  <2> DEFINE n == Len(stack)
  <2>3. n \in Nat \ {0} /\ ~(n >= 2)
    BY <1>1, <2>2
  <2> HIDE DEF n
  <2>4. n = 1
    BY <2>3
  <2> QED
    BY <2>1, <2>4 DEF n
<1>3. DOMAIN frames' = LiveFrames
  BY ReturnedEffect DEF php_pcov_stop, Stay
<1>4. ASSUME NEW k \in DOMAIN frames, php_pcov_frame_is_live(k)
      PROVE  FALSE
  <2>1. k[2] = Home[Main]
    BY <1>2, <1>4 DEF php_pcov_frame_is_live, DriverInv
  <2>2. reached[k[2]].code \in Traced /\ Home[reached[k[2]].code] = k[2]
    BY DEF TInv, FInv, Sound, EntriesOK
  <2> QED
    BY <2>1, <2>2, ProgramAssumption DEF OwnAddresses, StoppedOutside
<1> QED
  BY <1>3, <1>4 DEF LiveFrames

-----------------------------------------------------------------------------
(* Edges between branches.                                                 *)

(* A frame is where its activation is, or has seen no branch yet.          *)
Trails(act, f) == f.last \in {NONE, LastOf(act.walk)}

Trailing(S, F) ==
  \A i \in 1 .. Len(S) :
    S[i].code \in Traced /\ Key(S, i) \in DOMAIN F => Trails(S[i], F[Key(S, i)])

(* Unless its activation has come to a branch start that the hook has not  *)
(* seen: the edge to it is one that was taken, or it is an entry point.    *)
Seen(act, f, T) ==
  IF act.at = "ready" /\ act.pc \in Starts[act.code]
  THEN \/ act.pc \in Entries[act.code]
       \/ f.last = NONE
       \/ <<act.code, f.last, act.pc>> \in T
  ELSE Trails(act, f)

AllSeen(S, F, T) ==
  \A i \in 1 .. Len(S) :
    S[i].code \in Traced /\ S[i].at # "new" /\ Key(S, i) \in DOMAIN F =>
      Seen(S[i], F[Key(S, i)], T)

AtStart(S) ==
  \A i \in 1 .. Len(S) :
    S[i].code \in Traced /\ S[i].at = "ready" /\ S[i].pc \in Starts[S[i].code] =>
      LastOf(S[i].walk) = S[i].pc

(* A frame that has seen no branch has an empty sequence, and only it.     *)
Sequenced(F) ==
  \A k \in DOMAIN F :
    F[k].seq \in Seq(Nat) /\ (F[k].seq = <<>> <=> F[k].last = NONE)

EdgesIn(R, T) ==
  \A a \in DOMAIN R : \A e \in R[a].edges :
    e[2] # EXIT => <<R[a].code, e[1], e[2]>> \in T

EdgeInv ==
  /\ TInv /\ OInv /\ DriverInv
  /\ ~enabled => DOMAIN frames = {}
  /\ Sequenced(frames) /\ AtStart(stack)
  /\ AllSeen(stack, frames, took)
  /\ EdgesIn(reached, took)

LEMMA PlacedFrame ==
  ASSUME OwnAddresses, TInv
  PROVE  /\ DOMAIN Placed = DOMAIN frames \union {TopKey}
         /\ IsFrame(Placed[TopKey]) /\ Placed[TopKey].cache = Top.code
         /\ \A h \in DOMAIN frames : Placed[h] = frames[h]
         /\ TopKey \notin DOMAIN frames => Placed[TopKey] = Fresh
         /\ TopKey[2] = Home[Top.code] /\ TopKey = Key(stack, Len(stack))
<1>1. Top.code \in Codes /\ FInv
      /\ (Home[Top.code] \in DOMAIN reached => reached[Home[Top.code]].code = Top.code)
  BY TopTyped, OwnEntry DEF TInv, Activations
<1>2. TopKey[2] = Home[Top.code] /\ TopKey = Key(stack, Len(stack))
  BY DEF TopKey, Key, Top
<1>3. TopKey \in DOMAIN frames =>
        IsFrame(frames[TopKey]) /\ frames[TopKey].cache = Top.code
  BY <1>1, <1>2 DEF FInv, Sound
<1>4. IsFrame(Fresh) /\ Fresh.cache = Top.code
  BY DEF IsFrame, Fresh
<1> QED
  BY <1>2, <1>3, <1>4 DEF Placed

(* The activations S are those of the stack, some of them gone, and none   *)
(* of them is about to run an opcode.                                      *)
LEMMA Settled ==
  ASSUME NEW S, NEW F, NEW T, Trailing(stack, F),
         \A i \in 1 .. Len(S) : /\ i \in 1 .. Len(stack) /\ S[i].at \in {"run", "done"}
                                /\ S[i].slot = stack[i].slot
                                /\ S[i].code = stack[i].code /\ S[i].walk = stack[i].walk
  PROVE  AllSeen(S, F, T) /\ AtStart(S)
<1>1. AtStart(S)
  BY DEF AtStart
<1>2. ASSUME NEW i \in 1 .. Len(S), S[i].code \in Traced, Key(S, i) \in DOMAIN F
      PROVE  Seen(S[i], F[Key(S, i)], T)
  <2>1. Key(S, i) = Key(stack, i)
    BY DEF Key
  <2>2. Trails(S[i], F[Key(S, i)])
    BY <1>2, <2>1 DEF Trailing, Trails
  <2> QED
    BY <2>2 DEF Seen
<1> QED
  BY <1>1, <1>2 DEF AllSeen

LEMMA SettledTop ==
  ASSUME StackInv, NEW F, NEW T, Trailing(stack, F),
         TopGone \/ \E at \in {"run", "done"} : TopAt(at)
  PROVE  AllSeen(stack', F, T) /\ AtStart(stack')
<1>1. Len(stack) \in Nat \ {0} /\ \A i \in 1 .. Len(stack) - 1 : stack[i].at = "done"
  BY TopTyped DEF StackInv
<1>2. CASE TopGone
  <2>1. \A i \in 1 .. Len(stack') : /\ i \in 1 .. Len(stack)
                                    /\ stack'[i].at \in {"run", "done"}
                                    /\ stack'[i].slot = stack[i].slot
                                    /\ stack'[i].code = stack[i].code
                                    /\ stack'[i].walk = stack[i].walk
    BY <1>1, <1>2 DEF TopGone
  <2> QED
    BY <2>1, Settled
<1>3. ASSUME NEW at \in {"run", "done"}, TopAt(at)
      PROVE  AllSeen(stack', F, T) /\ AtStart(stack')
  <2>1. \A i \in 1 .. Len(stack) - 1 : /\ stack'[i].at \in {"run", "done"}
                                       /\ stack'[i].slot = stack[i].slot
                                       /\ stack'[i].code = stack[i].code
                                       /\ stack'[i].walk = stack[i].walk
    BY <1>1, <1>3 DEF TopAt, Alike
  <2>2. /\ Len(stack') = Len(stack) /\ stack'[Len(stack)].at \in {"run", "done"}
        /\ stack'[Len(stack)].slot = stack[Len(stack)].slot
        /\ stack'[Len(stack)].code = stack[Len(stack)].code
        /\ stack'[Len(stack)].walk = stack[Len(stack)].walk
    BY <1>3 DEF TopAt, Top
  <2>3. \A i \in 1 .. Len(stack') : /\ i \in 1 .. Len(stack)
                                    /\ stack'[i].at \in {"run", "done"}
                                    /\ stack'[i].slot = stack[i].slot
                                    /\ stack'[i].code = stack[i].code
                                    /\ stack'[i].walk = stack[i].walk
    BY <1>1, <2>1, <2>2
  <2> QED
    BY <2>3, Settled
<1> QED
  BY <1>2, <1>3

LEMMA SeenTrails ==
  ASSUME StackInv, AllSeen(stack, frames, took), Top.at \in {"run", "done"}
  PROVE  Trailing(stack, frames)
<1>1. \A i \in 1 .. Len(stack) : stack[i].at \in {"run", "done"}
  <2>1. Len(stack) \in Nat \ {0} /\ \A i \in 1 .. Len(stack) - 1 : stack[i].at = "done"
    BY TopTyped DEF StackInv
  <2> QED
    BY <2>1 DEF Top
<1> QED
  BY <1>1 DEF Trailing, AllSeen, Seen

LEMMA GoToSeen ==
  ASSUME StackInv, NEW n \in Flow[Top.code][Top.pc] \union Catch[Top.code][Top.pc],
         GoTo(n), NEW F, Trailing(stack, F)
  PROVE  AllSeen(stack', F, took') /\ AtStart(stack') /\ took \subseteq took'
<1> DEFINE c == Top.code
           w == Top.walk
           v == IF LastOf(w) = n THEN w ELSE Append(w, n)
<1>1. /\ Len(stack) \in Nat \ {0} /\ \A i \in 1 .. Len(stack) - 1 : stack[i].at = "done"
      /\ w \in Seq(Nat) /\ w # <<>> /\ n \in Nat
  BY TopTyped, GoToMoves DEF StackInv
<1>2. LastOf(v) = n /\ LastOf(<<n>>) = n
  BY <1>1 DEF LastOf
<1>3. PICK u :
        /\ TopMoved(n, u) /\ took \subseteq took'
        /\ \/ c \in Traced /\ n \in Entries[c] /\ u = <<n>>
           \/ /\ c \in Traced /\ n \in Starts[c] \ Entries[c] /\ u = v
              /\ <<c, LastOf(w), n>> \in took'
           \/ (c \in Traced => n \notin Starts[c]) /\ u = w
  BY GoToMoves
<1> HIDE DEF v
<1>4. /\ Len(stack') = Len(stack)
      /\ \A i \in 1 .. Len(stack) - 1 : stack'[i] = stack[i]
      /\ stack'[Len(stack)].slot = Top.slot
      /\ stack'[Len(stack)].code = c /\ stack'[Len(stack)].pc = n
      /\ stack'[Len(stack)].at = "ready" /\ stack'[Len(stack)].walk = u
  BY <1>3 DEF TopMoved, Top
<1>5. AtStart(stack')
  <2> SUFFICES ASSUME NEW i \in 1 .. Len(stack), stack'[i].code \in Traced,
                      stack'[i].at = "ready", stack'[i].pc \in Starts[stack'[i].code]
               PROVE  LastOf(stack'[i].walk) = stack'[i].pc
    BY <1>4 DEF AtStart
  <2>1. i = Len(stack)
    BY <1>1, <1>4
  <2> QED
    BY <1>2, <1>3, <1>4, <2>1
<1>6. ASSUME NEW i \in 1 .. Len(stack), stack'[i].code \in Traced,
             Key(stack', i) \in DOMAIN F
      PROVE  Seen(stack'[i], F[Key(stack', i)], took')
  <2>1. stack'[i].code = stack[i].code /\ Key(stack', i) = Key(stack, i)
    BY <1>1, <1>4 DEF Top, Key
  <2>2. Trails(stack[i], F[Key(stack, i)])
    BY <1>6, <2>1 DEF Trailing
  <2>3. CASE i # Len(stack)
    BY <1>1, <1>4, <2>1, <2>2, <2>3 DEF Seen
  <2>4. CASE i = Len(stack)
    <3>1. F[Key(stack, i)].last \in {NONE, LastOf(w)}
      BY <2>2, <2>4 DEF Trails, Top
    <3> DEFINE f == F[Key(stack', i)]
               t == stack'[i]
    <3>2. /\ f.last \in {NONE, LastOf(w)}
          /\ t.code = c /\ t.pc = n /\ t.at = "ready" /\ t.walk = u
      BY <1>4, <2>1, <2>4, <3>1
    <3>3. c \in Traced /\ Entries[c] \subseteq Starts[c]
      BY <1>6, <3>2, ProgramAssumption
    <3> HIDE DEF f, t
    <3>4. Seen(t, f, took')
      <4>1. CASE n \in Entries[c]
        BY <1>3, <3>2, <3>3, <4>1 DEF Seen, Trails
      <4>2. CASE n \in Starts[c] \ Entries[c]
        BY <1>3, <3>2, <3>3, <4>2 DEF Seen
      <4>3. CASE n \notin Starts[c] /\ n \notin Entries[c]
        BY <1>3, <3>2, <3>3, <4>3 DEF Seen, Trails
      <4> QED
        BY <4>1, <4>2, <4>3
    <3> QED
      BY <3>4 DEF f, t
  <2> QED
    BY <2>3, <2>4
<1> QED
  BY <1>3, <1>4, <1>5, <1>6 DEF AllSeen

(* Finishing frames adds no edge but exits.                                *)
LEMMA FinishEdges ==
  ASSUME NEW F, NEW R, NEW Q, NEW K, NEW T, Finish(F, R, Q, K), EdgesIn(R, T)
  PROVE  EdgesIn(Q, T)
<1> SUFFICES ASSUME NEW a \in DOMAIN R, NEW e \in Q[a].edges, e[2] # EXIT
             PROVE  <<R[a].code, e[1], e[2]>> \in T
  BY DEF EdgesIn, Finish
<1>1. e \in R[a].edges \/ \E b : e = <<b, EXIT>>
  BY DEF Finish
<1> QED
  BY <1>1 DEF EdgesIn

(* What the hook records of edges was taken, and afterwards the frames are *)
(* where their activations are.                                            *)
LEMMA HookEdges ==
  ASSUME OwnAddresses, AllReceived, EdgeInv, NEW pc, php_pcov_trace(pc),
         \/ Top.at \in {"new", "ready"} /\ pc = Top.pc
         \/ Top.at \in {"run", "done"} /\ pc = NONE
  PROVE  /\ ~enabled => DOMAIN frames' = {}
         /\ Sequenced(frames') /\ Trailing(stack, frames')
         /\ EdgesIn(reached', took)
<1> DEFINE c == Top.code
           k == TopKey
           w == Top.walk
           old == Placed[k]
           f == Renewed(old, pc)
<1>1. /\ Len(stack) \in Nat \ {0} /\ c \in Codes /\ ActOK(Top)
      /\ \A i \in 1 .. Len(stack) - 1 : stack[i].at = "done"
  BY TopTyped DEF EdgeInv, TInv, StackInv, Activations
<1>2. \A i \in 1 .. Len(stack) - 1 :
        stack[i].code \in Traced /\ Key(stack, i) \in DOMAIN frames =>
          Trails(stack[i], frames[Key(stack, i)])
  <2> SUFFICES ASSUME NEW i \in 1 .. Len(stack) - 1,
                      stack[i].code \in Traced, Key(stack, i) \in DOMAIN frames
               PROVE  Trails(stack[i], frames[Key(stack, i)])
    OBVIOUS
  <2>1. i \in 1 .. Len(stack) /\ stack[i].at = "done"
    BY <1>1
  <2>2. Seen(stack[i], frames[Key(stack, i)], took)
    BY <2>1 DEF EdgeInv, AllSeen
  <2> QED
    BY <2>1, <2>2 DEF Seen
<1>3. CASE ~(enabled /\ c \in Traced)
  <2>1. frames' = frames /\ reached' = reached
    BY <1>3 DEF php_pcov_trace
  <2>2. Trailing(stack, frames)
    <3>1. CASE ~enabled
      BY <3>1 DEF EdgeInv, Trailing
    <3>2. CASE c \notin Traced
      BY <1>1, <1>2, <3>2 DEF Trailing, Top
    <3> QED
      BY <1>3, <3>1, <3>2
  <2> QED
    BY <2>1, <2>2 DEF EdgeInv
<1>4. CASE enabled /\ c \in Traced
  <2>1. HookFrames(pc, f) /\ \E Q : /\ Finish(frames, php_pcov_reached_get(c), Q, FinishedBy(pc))
                                    /\ HookEntries(pc, f, Q)
    BY <1>4, HookEffect DEF EdgeInv
  <2>2. /\ DOMAIN Placed = DOMAIN frames \union {k}
        /\ IsFrame(old) /\ old.cache = c
        /\ \A h \in DOMAIN frames : Placed[h] = frames[h]
        /\ k \notin DOMAIN frames => old = Fresh
        /\ k \in DOMAIN frames => old = frames[k]
        /\ k[2] = Home[c] /\ k = Key(stack, Len(stack))
    BY PlacedFrame DEF EdgeInv
  <2>3. /\ 0 \in Entries[c] /\ Entries[c] \subseteq Starts[c] /\ Starts[c] \subseteq Nat
        /\ First[c] = 0
    BY <1>1, <1>4, ProgramAssumption DEF AllReceived
  <2>4. /\ Top.at = "new" => Top.pc = 0 /\ w = <<0>>
        /\ Top.at \in {"new", "ready"} /\ Top.pc \in Starts[c] => LastOf(w) = Top.pc
    <3>1. Top.at = "new" => Top.pc = 0 /\ w = <<0>>
      BY <1>1, <2>3 DEF ActOK
    <3>2. Top.at = "ready" /\ Top.pc \in Starts[c] => LastOf(w) = Top.pc
      BY <1>1, <1>4 DEF EdgeInv, AtStart, Top
    <3> QED
      BY <3>1, <3>2 DEF LastOf
  <2>5. old.seq \in Seq(Nat) /\ (old.seq = <<>> <=> old.last = NONE)
    <3>1. CASE k \in DOMAIN frames
      BY <2>2, <3>1 DEF EdgeInv, Sequenced
    <3>2. CASE k \notin DOMAIN frames
      <4>1. old.seq = <<>> /\ old.last = NONE
        BY <2>2, <3>2 DEF Fresh
      <4> HIDE DEF old
      <4> QED
        BY <4>1
    <3> QED
      BY <3>1, <3>2
  <2>6. /\ f.seq = (IF Reentered(old, pc) THEN <<>> ELSE old.seq)
        /\ f.last = (IF Reentered(old, pc) THEN NONE ELSE old.last)
        /\ f.seq \in Seq(Nat) /\ (f.seq = <<>> <=> f.last = NONE)
    <3>1. /\ f.seq = (IF Reentered(old, pc) THEN <<>> ELSE old.seq)
          /\ f.last = (IF Reentered(old, pc) THEN NONE ELSE old.last)
      BY <2>2, RenewedFrame
    <3> HIDE DEF f, old
    <3> QED
      BY <2>5, <3>1
  <2>7. pc \in Starts[c] => Top.at \in {"new", "ready"} /\ pc = Top.pc /\ pc # NONE
    BY <2>3 DEF NONE
  <2> HIDE DEF f, old, k
  <2>8. /\ frames'[k].seq \in Seq(Nat) /\ (frames'[k].seq = <<>> <=> frames'[k].last = NONE)
        /\ frames'[k].last \in {NONE, LastOf(w)}
    <3>1. CASE pc \in Starts[c]
      <4>1. /\ frames'[k].last = pc
            /\ frames'[k].seq = IF f.last = pc THEN f.seq ELSE Append(f.seq, pc)
        BY <2>1, <3>1 DEF HookFrames, k
      <4>2. pc \in Nat /\ pc # NONE /\ LastOf(w) = pc
        BY <2>3, <2>4, <2>7, <3>1
      <4>3. Append(f.seq, pc) \in Seq(Nat) /\ Append(f.seq, pc) # <<>>
        BY <2>6, <4>2, LastAppended
      <4> QED
        BY <2>6, <4>1, <4>2, <4>3
    <3>2. CASE pc \notin Starts[c]
      <4>1. frames'[k].last = old.last /\ frames'[k].seq = old.seq
        BY <2>1, <3>2 DEF HookFrames, k, old
      <4>2. old.last \in {NONE, LastOf(w)}
        <5>1. CASE k \notin DOMAIN frames
          BY <2>2, <5>1 DEF Fresh
        <5>2. CASE k \in DOMAIN frames
          <6>1. Top.at # "new" /\ ~(Top.at = "ready" /\ Top.pc \in Starts[c])
            BY <2>3, <2>4, <3>2
          <6>2. Seen(Top, frames[k], took)
            BY <1>1, <1>4, <2>2, <5>2, <6>1 DEF EdgeInv, AllSeen, Top
          <6> QED
            BY <2>2, <5>2, <6>1, <6>2 DEF Seen, Trails
        <5> QED
          BY <5>1, <5>2
      <4> QED
        BY <2>5, <4>1, <4>2
    <3> QED
      BY <3>1, <3>2
  <2>9. \A h \in DOMAIN frames' : h # k =>
          /\ h \in DOMAIN frames
          /\ frames'[h].seq = frames[h].seq /\ frames'[h].last = frames[h].last
    BY <2>1, <2>2 DEF HookFrames, k
  <2>10. Sequenced(frames')
    BY <2>8, <2>9 DEF EdgeInv, Sequenced
  <2>11. Trailing(stack, frames')
    <3> SUFFICES ASSUME NEW i \in 1 .. Len(stack), stack[i].code \in Traced,
                        Key(stack, i) \in DOMAIN frames'
                 PROVE  Trails(stack[i], frames'[Key(stack, i)])
      BY DEF Trailing
    <3>1. CASE i = Len(stack)
      BY <2>2, <2>8, <3>1 DEF Trails, Top
    <3>2. CASE i # Len(stack)
      <4>1. i \in 1 .. Len(stack) - 1 /\ Len(stack) \in 1 .. Len(stack)
        BY <1>1, <3>2
      <4>2. Key(stack, i) # k
        BY <2>2, <3>2, <4>1, KeysDiffer DEF EdgeInv, TInv
      <4> QED
        BY <1>2, <2>9, <4>1, <4>2 DEF Trails
    <3> QED
      BY <3>1, <3>2
  <2>12. EdgesIn(reached', took)
    <3> DEFINE G == php_pcov_reached_get(c)
    <3>1. PICK Q : Finish(frames, G, Q, FinishedBy(pc)) /\ HookEntries(pc, f, Q)
      BY <2>1
    <3>2. EdgesIn(G, took)
      BY DEF php_pcov_reached_get, EmptyEntry, EdgeInv, EdgesIn
    <3> HIDE DEF G
    <3>3. EdgesIn(Q, took)
      BY <3>1, <3>2, FinishEdges
    <3>4. ASSUME NEW a \in DOMAIN reached', NEW e \in reached'[a].edges, e[2] # EXIT
          PROVE  <<reached'[a].code, e[1], e[2]>> \in took
      <4>1. a \in DOMAIN Q /\ reached'[a].code = Q[a].code
        BY <3>1 DEF HookEntries
      <4>2. CASE e \in Q[a].edges
        BY <3>3, <3>4, <4>1, <4>2 DEF EdgesIn
      <4>3. CASE e \notin Q[a].edges
        <5>1. /\ a = Home[c] /\ pc \in Starts[c] /\ f.last # NONE /\ e = <<f.last, pc>>
          BY <3>1, <4>1, <4>3 DEF HookEntries
        <5>2. reached'[a].code = c
          <6>1. EntriesOK(reached')
            BY TraceEntries DEF EdgeInv, TInv
          <6> QED
            BY <1>1, <5>1, <6>1, ProgramAssumption DEF EntriesOK, OwnAddresses
        <5>3. ~Reentered(old, pc) /\ f.last = old.last /\ old.seq # <<>>
          BY <2>5, <2>6, <5>1
        <5>4. k \in DOMAIN frames /\ pc \notin Entries[c]
          BY <2>2, <5>3 DEF Fresh, Reentered
        <5>5. Top.at = "ready" /\ pc = Top.pc
          BY <2>3, <2>4, <2>7, <5>1, <5>4
        <5>6. Seen(Top, frames[k], took)
          BY <1>1, <1>4, <2>2, <5>4, <5>5 DEF EdgeInv, AllSeen, Top
        <5>7. <<c, f.last, pc>> \in took
          BY <2>2, <5>1, <5>3, <5>4, <5>5, <5>6 DEF Seen
        <5> QED
          BY <5>1, <5>2, <5>7
      <4> QED
        BY <4>2, <4>3
    <3> QED
      BY <3>4 DEF EdgesIn
  <2> QED
    BY <1>4, <2>10, <2>11, <2>12
<1> QED
  BY <1>3, <1>4

LEMMA ReturnedEdges ==
  ASSUME OwnAddresses, TInv, OInv, NEW T, EdgesIn(reached, T), Sequenced(frames),
         php_pcov_frames_finalize_returned \/ php_pcov_collect
  PROVE  /\ EdgesIn(reached', T) /\ Sequenced(frames')
         /\ Trailing(stack, frames) => Trailing(stack, frames')
<1>1. Stay(LiveFrames) /\ LiveFrames \subseteq DOMAIN frames
  BY ReturnedEffect DEF LiveFrames
<1>2. PICK Q : Finish(frames, reached, Q, DOMAIN frames \ LiveFrames) /\ Extends(Q)
  BY ReturnedEffect
<1>3. EdgesIn(Q, T)
  BY <1>2, FinishEdges
<1>4. EdgesIn(reached', T)
  BY <1>2, <1>3 DEF Extends, EdgesIn, EmptyEntry
<1>5. Sequenced(frames')
  BY <1>1 DEF Stay, Sequenced
<1>6. Trailing(stack, frames) => Trailing(stack, frames')
  BY <1>1 DEF Stay, Trailing, Trails
<1> QED
  BY <1>4, <1>5, <1>6

LEMMA EdgeStep ==
  ASSUME OwnAddresses, AllReceived, StoppedOutside
  PROVE  EdgeInv /\ [Next]_vars => EdgeInv'
<1> SUFFICES ASSUME EdgeInv, [Next]_vars
             PROVE  EdgeInv'
  OBVIOUS
<1>1. /\ TInv /\ OInv /\ DriverInv /\ StackInv /\ Sequenced(frames) /\ AtStart(stack)
      /\ AllSeen(stack, frames, took) /\ EdgesIn(reached, took)
      /\ ~enabled => DOMAIN frames = {}
  BY DEF EdgeInv, TInv
<1>2. TInv' /\ OInv' /\ DriverInv'
  BY <1>1, TypesStep, OrderedStep, DriverStep
<1>3. ASSUME ~enabled' => DOMAIN frames' = {}, Sequenced(frames'), AtStart(stack'),
             AllSeen(stack', frames', took'), EdgesIn(reached', took')
      PROVE  EdgeInv'
  BY <1>2, <1>3 DEF EdgeInv
<1>4. EdgesIn(reached', took) /\ took \subseteq took' => EdgesIn(reached', took')
  BY DEF EdgesIn
<1>5. ASSUME Top.at \in {"run", "done"}
      PROVE  Trailing(stack, frames)
  BY <1>1, <1>5, SeenTrails
<1>6. throwing => Top.at \in {"run", "done"}
  BY <1>1 DEF StackInv
<1>7. CASE Run
  <2>1. /\ Top.at \in {"new", "ready"} /\ php_pcov_trace(Top.pc)
        /\ enabled' = enabled /\ took' = took
    BY <1>7 DEF Run
  <2>2. /\ ~enabled => DOMAIN frames' = {}
        /\ Sequenced(frames') /\ Trailing(stack, frames') /\ EdgesIn(reached', took)
    BY <2>1, HookEdges
  <2>3. AllSeen(stack', frames', took) /\ AtStart(stack')
    BY <1>1, <1>7, <2>2, RunMoves, SettledTop
  <2> QED
    BY <1>3, <2>1, <2>2, <2>3
<1>8. ASSUME NEW c \in Codes, Call(c)
      PROVE  EdgeInv'
  <2>1. /\ Top.at = "run" /\ took' = took /\ frames' = frames /\ reached' = reached
        /\ enabled' = enabled
    BY <1>8 DEF Call, InCall, pcovVars, historyVars
  <2>2. Trailing(stack, frames)
    BY <1>5, <2>1
  <2>3. /\ Len(stack) \in Nat \ {0} /\ \A i \in 1 .. Len(stack) - 1 : stack[i].at = "done"
    BY <1>1, TopTyped DEF StackInv
  <2>4. /\ Len(stack') = Len(stack) + 1
        /\ \A i \in 1 .. Len(stack) - 1 : stack'[i] = stack[i]
        /\ stack'[Len(stack)].slot = Top.slot /\ stack'[Len(stack)].code = Top.code
        /\ stack'[Len(stack)].at = "done" /\ stack'[Len(stack)].walk = Top.walk
        /\ stack'[Len(stack) + 1].at = "new"
    BY <1>1, <1>8, CallMoves
  <2>5. ASSUME NEW i \in 1 .. Len(stack)
        PROVE  /\ stack'[i].slot = stack[i].slot /\ stack'[i].code = stack[i].code
               /\ stack'[i].walk = stack[i].walk /\ stack'[i].at = "done"
    BY <2>3, <2>4 DEF Top
  <2>6. \A i \in 1 .. Len(stack') : i \in 1 .. Len(stack) \/ stack'[i].at = "new"
    BY <2>3, <2>4
  <2>7. AtStart(stack')
    BY <2>5, <2>6 DEF AtStart
  <2>8. ASSUME NEW i \in 1 .. Len(stack), stack'[i].code \in Traced,
               Key(stack', i) \in DOMAIN frames
        PROVE  Seen(stack'[i], frames[Key(stack', i)], took)
    <3>1. Key(stack', i) = Key(stack, i)
      BY <2>5 DEF Key
    <3>2. Trails(stack'[i], frames[Key(stack', i)])
      BY <2>2, <2>5, <2>8, <3>1 DEF Trailing, Trails
    <3> QED
      BY <2>5, <3>2 DEF Seen
  <2>9. AllSeen(stack', frames, took)
    BY <2>6, <2>8 DEF AllSeen
  <2> QED
    BY <1>1, <1>3, <2>1, <2>7, <2>9
<1>9. ASSUME NEW n \in Flow[Top.code][Top.pc], Advance(n)
      PROVE  EdgeInv'
  <2>1. /\ Top.at \in {"run", "done"} /\ GoTo(n)
        /\ enabled' = enabled /\ frames' = frames /\ reached' = reached
    BY <1>9 DEF Advance, pcovVars
  <2>2. AllSeen(stack', frames, took') /\ AtStart(stack') /\ took \subseteq took'
    BY <1>1, <1>5, <2>1, GoToSeen
  <2> QED
    BY <1>1, <1>3, <1>4, <2>1, <2>2
<1>10. took \subseteq took' \/ ~Ended
  BY DEF Ended
<1>11. CASE Leave
  <2>1. /\ Top.at = "run" /\ Ended /\ Len(stack) > 1
        /\ stack' = SubSeq(stack, 1, Len(stack) - 1)
        /\ enabled' = enabled /\ frames' = frames /\ reached' = reached
    BY <1>11 DEF Leave, pcovVars
  <2>2. AllSeen(stack', frames, took') /\ AtStart(stack')
    BY <1>1, <1>5, <2>1, PopMoves, SettledTop
  <2> QED
    BY <1>1, <1>3, <1>4, <1>10, <2>1, <2>2
<1>12. CASE Throw
  <2>1. stack' = stack /\ took' = took /\ enabled' = enabled /\ frames' = frames
        /\ reached' = reached
    BY <1>12 DEF Throw, pcovVars, historyVars
  <2> QED
    BY <1>1, <1>3, <2>1
<1>13. CASE Unwind
  <2>1. /\ throwing /\ php_pcov_trace(NONE) /\ enabled' = enabled
        /\ \/ \E n \in Catch[Top.code][Top.pc] : GoTo(n)
           \/ Len(stack) > 1 /\ Ended /\ stack' = SubSeq(stack, 1, Len(stack) - 1)
    BY <1>13 DEF Unwind
  <2>2. /\ ~enabled => DOMAIN frames' = {}
        /\ Sequenced(frames') /\ Trailing(stack, frames') /\ EdgesIn(reached', took)
    BY <1>6, <2>1, HookEdges
  <2>3. ASSUME NEW n \in Catch[Top.code][Top.pc], GoTo(n)
        PROVE  EdgeInv'
    <3>1. AllSeen(stack', frames', took') /\ AtStart(stack') /\ took \subseteq took'
      BY <1>1, <2>2, <2>3, GoToSeen
    <3> QED
      BY <1>3, <1>4, <2>1, <2>2, <3>1
  <2>4. ASSUME Len(stack) > 1, Ended, stack' = SubSeq(stack, 1, Len(stack) - 1)
        PROVE  EdgeInv'
    <3>1. AllSeen(stack', frames', took') /\ AtStart(stack')
      BY <1>1, <2>2, <2>4, PopMoves, SettledTop
    <3> QED
      BY <1>3, <1>4, <1>10, <2>1, <2>2, <2>4, <3>1
  <2> QED
    BY <2>1, <2>3, <2>4
<1>14. CASE php_pcov_start
  <2>1. /\ Top.at = "run" /\ Becomes(Returned) /\ enabled' = TRUE
        /\ frames' = frames /\ reached' = reached /\ took' = took
    BY <1>14 DEF php_pcov_start, InCall, historyVars
  <2>2. AllSeen(stack', frames, took) /\ AtStart(stack')
    BY <1>1, <1>5, <2>1, ApiMoves, SettledTop
  <2> QED
    BY <1>1, <1>3, <2>1, <2>2
<1>15. CASE php_pcov_stop
  <2>1. /\ Top.at = "run" /\ Interrupt(Returned) /\ took' = took
        /\ php_pcov_frames_finalize_returned
    BY <1>15 DEF php_pcov_stop, InCall, historyVars
  <2>2. DOMAIN frames' = {}
    BY <1>1, <1>15, StopLeavesNothing
  <2>3. EdgesIn(reached', took) /\ Sequenced(frames') /\ Trailing(stack, frames')
    BY <1>1, <1>5, <2>1, ReturnedEdges
  <2>4. AllSeen(stack', frames', took) /\ AtStart(stack')
    BY <1>1, <2>1, <2>3, ApiMoves, SettledTop
  <2> QED
    BY <1>3, <2>1, <2>2, <2>3, <2>4
<1>16. CASE php_pcov_clear
  <2>1. /\ Top.at = "run" /\ Interrupt(Returned)
        /\ reached' = [a \in {} |-> {}] /\ frames' = [k \in {} |-> {}]
    BY <1>16 DEF php_pcov_clear, InCall
  <2>2. /\ DOMAIN frames' = {} /\ Sequenced(frames') /\ EdgesIn(reached', took')
        /\ Trailing(stack, frames')
    BY <2>1 DEF Sequenced, EdgesIn, Trailing
  <2>3. AllSeen(stack', frames', took') /\ AtStart(stack')
    BY <1>1, <2>1, <2>2, ApiMoves, SettledTop
  <2> QED
    BY <1>3, <2>2, <2>3
<1>17. CASE php_pcov_collect
  <2>1. Top.at = "run" /\ Becomes(Returned) /\ took' = took /\ enabled' = enabled
    BY <1>17 DEF php_pcov_collect, InCall, historyVars
  <2>2. EdgesIn(reached', took) /\ Sequenced(frames') /\ Trailing(stack, frames')
    BY <1>1, <1>5, <1>17, <2>1, ReturnedEdges
  <2>3. AllSeen(stack', frames', took) /\ AtStart(stack')
    BY <1>1, <2>1, <2>2, ApiMoves, SettledTop
  <2>4. DOMAIN frames' \subseteq DOMAIN frames
    BY <1>1, <1>17, ReturnedEffect DEF Stay, LiveFrames
  <2> QED
    BY <1>1, <1>3, <2>1, <2>2, <2>3, <2>4
<1>18. CASE UNCHANGED vars
  <2>1. stack' = stack /\ took' = took /\ enabled' = enabled /\ frames' = frames
        /\ reached' = reached
    BY <1>18 DEF vars, pcovVars, engineVars, historyVars
  <2> QED
    BY <1>1, <1>3, <2>1
<1>19. CASE Engine
  BY <1>19, <1>7, <1>8, <1>9, <1>11, <1>12, <1>13 DEF Engine
<1>20. CASE Script
  BY <1>20, <1>14, <1>15, <1>16, <1>17 DEF Script
<1> QED
  BY <1>18, <1>19, <1>20 DEF Next

LEMMA EdgeInit == Init => EdgeInv
<1> SUFFICES ASSUME Init
             PROVE  EdgeInv
  OBVIOUS
<1>1. TInv /\ OInv /\ DriverInv
  BY TypesInit, OrderedInit, DriverInit
<1>2. DOMAIN frames = {} /\ DOMAIN reached = {} /\ stack = <<Activation(1, Main, FALSE)>>
  BY DEF Init
<1>3. AtStart(stack)
  BY <1>2 DEF AtStart, Activation
<1>4. Sequenced(frames) /\ AllSeen(stack, frames, took) /\ EdgesIn(reached, took)
  BY <1>2 DEF Sequenced, AllSeen, EdgesIn
<1> QED
  BY <1>1, <1>2, <1>3, <1>4 DEF EdgeInv

(* Where moreover only the script stops tracing, every edge recorded in    *)
(* php_pcov_path_trace was traversed: a frame's last branch is the one its *)
(* own activation came from, through calls, recursion and callbacks,       *)
(* exceptions caught here or further down, pops, clears and collects.      *)
THEOREM EdgesWereTraversed ==
  ASSUME OwnAddresses, AllReceived, StoppedOutside
  PROVE  Spec => []EdgesTraversed
<1>1. EdgeInv => EdgesTraversed
  BY DEF EdgeInv, EdgesIn, EdgesTraversed, Reported
<1>2. EdgeInv /\ [Next]_vars => EdgeInv'
  BY EdgeStep
<1> QED
  BY <1>1, <1>2, EdgeInit, PTL DEF Spec

================================================================================
