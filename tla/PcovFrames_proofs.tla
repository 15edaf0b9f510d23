--------------------------- MODULE PcovFrames_proofs ---------------------------
(***************************************************************************)
(* What holds of PCG(frames) for every program: no frame points at an      *)
(* analysis that was freed, the frames fill the stack without a hole, and  *)
(* what is recorded in an analysis is its own.                             *)
(*                                                                         *)
(* The argument for the pointers: PCG(reached) is changed in three ways    *)
(* only.  Hits are recorded in entries, which keep their code; entries are *)
(* added at an address that has none, where there can be no frame yet; and *)
(* entries are replaced at an address whose frames have been detached just *)
(* before, all of them, because all of them point at the entry that goes.  *)
(***************************************************************************)
EXTENDS PcovFrames, FiniteSetTheorems, FunctionTheorems, SequenceTheorems, TLAPS

IsFrame(f) ==
  f = [pos |-> f.pos, cache |-> f.cache, seq |-> f.seq, last |-> f.last]

IsEntry(r) ==
  r = [code |-> r.code, hits |-> r.hits, edges |-> r.edges, paths |-> r.paths]

(* The frames F and the cache R are what they should be: F and R are       *)
(* functions to records, and F's pointers are to entries of R.             *)
Sound(F, R) ==
  /\ F = [k \in DOMAIN F |-> F[k]]
  /\ R = [a \in DOMAIN R |-> R[a]]
  /\ \A k \in DOMAIN F : IsFrame(F[k])
  /\ \A a \in DOMAIN R : IsEntry(R[a])
  /\ \A k \in DOMAIN F : k[2] \in DOMAIN R /\ F[k].cache = R[k[2]].code

FInv == Sound(frames, reached)

(* What a frame says of its invocation, wherever it is on the stack.       *)
SameRecord(f, g) == f.cache = g.cache /\ f.seq = g.seq /\ f.last = g.last

-----------------------------------------------------------------------------
(* The operators.                                                          *)

(* Finalizing frames changes neither the addresses nor the codes of the    *)
(* entries.                                                                *)
LEMMA FinalizeSound ==
  ASSUME NEW F, NEW R, NEW G, NEW K, Sound(G, R)
  PROVE  /\ Sound(G, php_pcov_frame_finalize(F, R, K))
         /\ DOMAIN php_pcov_frame_finalize(F, R, K) = DOMAIN R
         /\ \A a \in DOMAIN R : php_pcov_frame_finalize(F, R, K)[a].code = R[a].code
<1> DEFINE Q == php_pcov_frame_finalize(F, R, K)
<1>1. DOMAIN Q = DOMAIN R /\ Q = [a \in DOMAIN Q |-> Q[a]]
  BY DEF php_pcov_frame_finalize
<1>2. \A a \in DOMAIN R : IsEntry(Q[a]) /\ Q[a].code = R[a].code
  <2> SUFFICES ASSUME NEW a \in DOMAIN R
               PROVE  IsEntry(Q[a]) /\ Q[a].code = R[a].code
    OBVIOUS
  <2>1. IsEntry(R[a])
    BY DEF Sound
  <2>2. PICK p, e : Q[a] = [R[a] EXCEPT !.paths = p, !.edges = e]
    BY DEF php_pcov_frame_finalize
  <2> QED
    BY <2>1, <2>2 DEF IsEntry
<1> QED
  BY <1>1, <1>2 DEF Sound

(* Dropping frames keeps the rest sound.                                   *)
LEMMA CompactSound ==
  ASSUME NEW F, NEW R, NEW K \in SUBSET DOMAIN F, Sound(F, R)
  PROVE  /\ Sound(Compact(F, K), R)
         /\ DOMAIN Compact(F, K) = K
         /\ \A k \in K : SameRecord(Compact(F, K)[k], F[k])
<1> DEFINE G == Compact(F, K)
<1>1. DOMAIN G = K /\ G = [k \in DOMAIN G |-> G[k]]
  BY DEF Compact
<1>2. \A k \in K : IsFrame(G[k]) /\ SameRecord(G[k], F[k])
  <2> SUFFICES ASSUME NEW k \in K
               PROVE  IsFrame(G[k]) /\ SameRecord(G[k], F[k])
    OBVIOUS
  <2>1. IsFrame(F[k])
    BY DEF Sound
  <2>2. PICK p : G[k] = [F[k] EXCEPT !.pos = p]
    BY DEF Compact
  <2> QED
    BY <2>1, <2>2 DEF IsFrame, SameRecord
<1> QED
  BY <1>1, <1>2 DEF Sound, SameRecord

(* Recording an opcode in a frame keeps its pointer and its entry's code.  *)
LEMMA RecordSound ==
  ASSUME NEW F, NEW R, NEW k \in DOMAIN F, NEW pc, Sound(F, R),
         RecordOpcode(F, R, k, pc)
  PROVE  FInv'
<1> DEFINE again == Reentered(F[k], pc)
           R1 == IF again THEN php_pcov_frame_finalize(F, R, {k}) ELSE R
           f  == IF again THEN [F[k] EXCEPT !.seq = <<>>, !.last = NONE] ELSE F[k]
           a  == k[2]
<1>1. Sound(F, R1)
  BY FinalizeSound
<1>2. IsFrame(f) /\ f.cache = F[k].cache
  <2>1. IsFrame(F[k])
    BY DEF Sound
  <2> QED
    BY <2>1 DEF IsFrame
<1>3. CASE ~pcov_branch_is_start(f.cache, pc)
  BY <1>3 DEF RecordOpcode, FInv
<1>4. CASE pcov_branch_is_start(f.cache, pc)
  <2> DEFINE g == php_pcov_frame_append(f, pc)
  <2>1. /\ frames' = [F EXCEPT ![k] = g]
        /\ reached' = [R1 EXCEPT ![a].hits  = @ \union {pc},
                                 ![a].edges = @ \union TraversedEdges(f, R1[a].hits, pc)]
    BY <1>4 DEF RecordOpcode
  <2>2. IsFrame(g) /\ g.cache = F[k].cache
    BY <1>2 DEF php_pcov_frame_append, IsFrame
  <2>3. a \in DOMAIN R1 /\ IsEntry(R1[a])
    BY <1>1 DEF Sound
  <2>4. PICK h, e : reached' = [R1 EXCEPT ![a] = [R1[a] EXCEPT !.hits = h, !.edges = e]]
    <3> DEFINE hits  == R1[a].hits \union {pc}
               edges == R1[a].edges \union TraversedEdges(f, R1[a].hits, pc)
    <3>1. reached' = [R1 EXCEPT ![a] = [R1[a] EXCEPT !.hits = hits, !.edges = edges]]
      BY <2>1, <2>3 DEF IsEntry
    <3> HIDE DEF hits, edges
    <3> QED BY <3>1
  <2>5. \A b \in DOMAIN R1 : IsEntry(reached'[b]) /\ reached'[b].code = R1[b].code
    BY <2>4, <2>3, <1>1 DEF Sound, IsEntry
  <2>6. DOMAIN reached' = DOMAIN R1 /\ reached' = [b \in DOMAIN reached' |-> reached'[b]]
    BY <2>4, <1>1
  <2>7. /\ DOMAIN frames' = DOMAIN F
        /\ frames' = [j \in DOMAIN frames' |-> frames'[j]]
        /\ \A j \in DOMAIN F : IsFrame(frames'[j]) /\ frames'[j].cache = F[j].cache
    BY <2>1, <2>2 DEF Sound
  <2> QED
    BY <1>1, <2>5, <2>6, <2>7 DEF FInv, Sound
<1> QED
  BY <1>3, <1>4

(* Frames that stay when an entry is evicted are not of its address.       *)
LEMMA DetachSound ==
  ASSUME NEW F, NEW A, Sound(F, reached)
  PROVE  /\ Sound(php_pcov_frames_detach_cache(F, A), reached)
         /\ \A k \in DOMAIN php_pcov_frames_detach_cache(F, A) :
              /\ k[2] \notin A /\ k \in DOMAIN F
              /\ SameRecord(php_pcov_frames_detach_cache(F, A)[k], F[k])
<1> DEFINE K == {k \in DOMAIN F : ~(k[2] \in A /\ F[k].cache = reached[k[2]].code)}
<1>1. php_pcov_frames_detach_cache(F, A) = Compact(F, K)
  BY DEF php_pcov_frames_detach_cache
<1>2. \A k \in K : k[2] \notin A
  BY DEF Sound
<1>3. K \in SUBSET DOMAIN F
  OBVIOUS
<1>4. /\ Sound(Compact(F, K), reached) /\ DOMAIN Compact(F, K) = K
      /\ \A k \in K : SameRecord(Compact(F, K)[k], F[k])
  BY <1>3, CompactSound
<1> QED
  BY <1>1, <1>2, <1>4

-----------------------------------------------------------------------------
(* The steps.                                                              *)

(* The frame of the innermost activation, and those that stay below it.    *)
TopKey == <<Top.slot, Home[Top.code]>>
Below(k) == {h \in DOMAIN frames : h = k \/ frames[h].pos < frames[k].pos}

(* The hook of a traced activation records its opcode in frame TopKey of   *)
(* F: the frames below it if it was there, and otherwise the frames with a *)
(* new one on top, less those of an entry that was evicted.                *)
FoundIn(F, R) ==
  /\ TopKey \in DOMAIN frames
  /\ F = Compact(frames, Below(TopKey))
  /\ R = php_pcov_frame_finalize(frames, reached, DOMAIN frames \ Below(TopKey))

PushedOn(F, R) ==
  /\ TopKey \notin DOMAIN frames
  /\ R = php_pcov_reached_get(Top.code)
  /\ DOMAIN F \subseteq DOMAIN frames \union {TopKey}
  /\ F[TopKey] = [pos |-> Cardinality(DOMAIN F \ {TopKey}) + 1,
                  cache |-> R[Home[Top.code]].code, seq |-> <<>>, last |-> NONE]
  /\ \A h \in DOMAIN F \ {TopKey} : SameRecord(F[h], frames[h])
  /\ ~Stale(Top.code) =>
       /\ DOMAIN F = DOMAIN frames \union {TopKey}
       /\ \A h \in DOMAIN frames : F[h] = frames[h]

LEMMA TraceSplit ==
  ASSUME FInv, enabled, Top.code \in Traced, NEW pc, php_pcov_trace(pc)
  PROVE  \E F, R : /\ Sound(F, R) /\ TopKey \in DOMAIN F
                   /\ RecordOpcode(F, R, TopKey, pc)
                   /\ FoundIn(F, R) \/ PushedOn(F, R)
<1> DEFINE c == Top.code
           k == TopKey
<1>1. php_pcov_path_trace(k, c, pc)
  BY DEF php_pcov_trace, TopKey
<1>2. CASE k \in DOMAIN frames
  <2> DEFINE F == Compact(frames, Below(k))
             R == php_pcov_frame_finalize(frames, reached, DOMAIN frames \ Below(k))
  <2>1. RecordOpcode(F, R, k, pc)
    BY <1>1, <1>2 DEF php_pcov_path_trace, Below
  <2>2. Sound(F, R) /\ DOMAIN F = Below(k)
    BY CompactSound, FinalizeSound DEF FInv, Below
  <2>3. k \in DOMAIN F
    BY <1>2, <2>2 DEF Below
  <2>4. FoundIn(F, R)
    BY <1>2 DEF FoundIn
  <2> HIDE DEF F, R
  <2> QED
    BY <2>1, <2>2, <2>3, <2>4
<1>3. CASE k \notin DOMAIN frames
  <2> DEFINE D == IF Stale(c) THEN php_pcov_frames_detach_cache(frames, {Home[c]})
                              ELSE frames
             R == php_pcov_reached_get(c)
             f == [pos |-> Cardinality(DOMAIN D) + 1, cache |-> R[Home[c]].code,
                   seq |-> <<>>, last |-> NONE]
             G == [h \in DOMAIN D \union {k} |-> IF h = k THEN f ELSE D[h]]
  <2>1. RecordOpcode(G, R, k, pc)
    BY <1>1, <1>3 DEF php_pcov_path_trace
  <2>2. /\ Sound(D, reached)
        /\ Stale(c) => \A h \in DOMAIN D : h[2] # Home[c]
        /\ \A h \in DOMAIN D : SameRecord(D[h], frames[h])
    BY DetachSound DEF FInv, SameRecord
  <2>3. /\ R = [b \in DOMAIN R |-> R[b]]
        /\ DOMAIN R = DOMAIN reached \union {Home[c]}
        /\ \A b \in DOMAIN R : IsEntry(R[b])
        /\ \A b \in DOMAIN reached : b # Home[c] \/ ~Stale(c) => R[b] = reached[b]
    BY <2>2 DEF php_pcov_reached_get, EmptyEntry, IsEntry, Sound
  <2>4. Sound(D, R)
    BY <2>2, <2>3 DEF Sound
  <2>5. IsFrame(f) /\ f.cache = R[Home[c]].code
    BY DEF IsFrame
  <2>6. /\ G = [h \in DOMAIN G |-> G[h]]
        /\ DOMAIN G = DOMAIN D \union {k}
        /\ G[k] = f /\ k[2] = Home[c]
        /\ \A h \in DOMAIN G : h = k \/ (h \in DOMAIN D /\ G[h] = D[h])
    BY DEF TopKey
  <2>7. DOMAIN D \subseteq DOMAIN frames /\ (~Stale(c) => D = frames)
    BY DEF php_pcov_frames_detach_cache, Compact
  <2>8. Sound(G, R)
    <3>1. \A h \in DOMAIN G : IsFrame(G[h])
      BY <2>6, <2>4, <2>5 DEF Sound
    <3>2. \A h \in DOMAIN G : h[2] \in DOMAIN R /\ G[h].cache = R[h[2]].code
      BY <2>6, <2>3, <2>4, <2>5 DEF Sound
    <3> QED
      BY <2>6, <3>1, <3>2, <2>3 DEF Sound
  <2>9. DOMAIN G \ {k} = DOMAIN D
    BY <1>3, <2>6, <2>7
  <2>10. PushedOn(G, R)
    <3> HIDE DEF D, G, k
    <3> QED
      BY <1>3, <2>2, <2>6, <2>7, <2>9 DEF PushedOn, k
  <2> HIDE DEF G, R
  <2> QED
    BY <2>1, <2>6, <2>8, <2>10
<1> QED
  BY <1>2, <1>3

(* The hook keeps every pointer good, whichever frame it finds or pushes.  *)
LEMMA TraceSound ==
  ASSUME FInv, NEW pc, php_pcov_trace(pc)
  PROVE  FInv'
<1>1. CASE ~(enabled /\ Top.code \in Traced)
  BY <1>1 DEF php_pcov_trace, FInv
<1>2. CASE enabled /\ Top.code \in Traced
  <2>1. PICK F, R : Sound(F, R) /\ TopKey \in DOMAIN F /\ RecordOpcode(F, R, TopKey, pc)
    BY <1>2, TraceSplit
  <2> QED
    BY <2>1, RecordSound
<1> QED
  BY <1>1, <1>2

(* The frames of returned activations go, the others stay as they are.     *)
LEMMA ReturnedSound ==
  ASSUME FInv, php_pcov_frames_finalize_returned
  PROVE  FInv'
<1> DEFINE kept == {k \in DOMAIN frames : php_pcov_frame_is_live(k)}
<1>1. Sound(Compact(frames, kept), reached)
  BY CompactSound DEF FInv
<1> QED
  BY <1>1, FinalizeSound DEF php_pcov_frames_finalize_returned, FInv

(* What collect builds is built where no frame is left.                    *)
LEMMA CollectSound ==
  ASSUME FInv, php_pcov_collect
  PROVE  FInv'
<1> DEFINE kept  == {k \in DOMAIN frames : php_pcov_frame_is_live(k)}
           R     == php_pcov_frame_finalize(frames, reached, DOMAIN frames \ kept)
           built == {c \in loaded \intersect Traced :
                       Home[c] \notin DOMAIN reached \/ Stale(c)}
           new   == {Home[c] : c \in built}
           F     == php_pcov_frames_detach_cache(Compact(frames, kept),
                                                 new \intersect DOMAIN reached)
<1>1. Sound(F, reached) /\ \A k \in DOMAIN F : k[2] \notin new \intersect DOMAIN reached
  BY CompactSound, DetachSound DEF FInv
<1>2. /\ Sound(F, R)
      /\ DOMAIN R = DOMAIN reached
  BY <1>1, FinalizeSound
<1>3. \A k \in DOMAIN F : k[2] \in DOMAIN R \ new
  BY <1>1, <1>2 DEF Sound
<1>4. /\ frames' = F
      /\ reached' = [a \in DOMAIN R \union new |->
                       IF \E c \in built : Home[c] = a
                       THEN EmptyEntry(CHOOSE c \in built : Home[c] = a)
                       ELSE R[a]]
  BY DEF php_pcov_collect
<1>5. \A a \in DOMAIN reached' : IsEntry(reached'[a])
  <2>1. \A c : IsEntry(EmptyEntry(c))
    BY DEF EmptyEntry, IsEntry
  <2>2. \A a \in DOMAIN R : IsEntry(R[a])
    BY <1>2 DEF Sound
  <2> HIDE DEF R, new, built
  <2>3. ASSUME NEW a \in DOMAIN reached'
        PROVE  IsEntry(reached'[a])
    <3>1. a \in DOMAIN R \union new
      BY <1>4
    <3>2. CASE \E c \in built : Home[c] = a
      BY <1>4, <2>1, <3>1, <3>2
    <3>3. CASE ~\E c \in built : Home[c] = a
      <4>1. a \in DOMAIN R
        BY <3>1, <3>3 DEF new
      <4> QED BY <1>4, <2>2, <3>1, <3>3, <4>1
    <3> QED BY <3>2, <3>3
  <2> QED BY <2>3
<1>6. \A a \in DOMAIN R \ new : reached'[a] = R[a]
  BY <1>4
<1>7. DOMAIN reached' = DOMAIN R \union new
      /\ reached' = [a \in DOMAIN reached' |-> reached'[a]]
  BY <1>4
<1>8. \A k \in DOMAIN F : k[2] \in DOMAIN reached'
                           /\ F[k].cache = reached'[k[2]].code
  BY <1>2, <1>3, <1>6, <1>7 DEF Sound
<1>9. F = [k \in DOMAIN F |-> F[k]] /\ \A k \in DOMAIN F : IsFrame(F[k])
  BY <1>1 DEF Sound
<1>10. Sound(F, reached')
  <2> HIDE DEF F
  <2> QED
    BY <1>5, <1>7, <1>8, <1>9 DEF Sound
<1> QED
  BY <1>4, <1>10 DEF FInv

LEMMA FInit == Init => FInv
  BY DEF Init, FInv, Sound

LEMMA FStep == FInv /\ [Next]_vars => FInv'
<1> SUFFICES ASSUME FInv, [Next]_vars
             PROVE  FInv'
  OBVIOUS
<1>1. CASE Run
  BY <1>1, TraceSound DEF Run
<1>2. ASSUME NEW c \in Codes, Call(c)
      PROVE  FInv'
  BY <1>2 DEF Call, pcovVars, FInv
<1>3. ASSUME NEW n, Advance(n)
      PROVE  FInv'
  BY <1>3 DEF Advance, pcovVars, FInv
<1>4. CASE Leave
  BY <1>4 DEF Leave, pcovVars, FInv
<1>5. CASE Throw
  BY <1>5 DEF Throw, pcovVars, FInv
<1>6. CASE Unwind
  BY <1>6, TraceSound DEF Unwind
<1>7. CASE php_pcov_start
  BY <1>7 DEF php_pcov_start, FInv
<1>8. CASE php_pcov_stop
  BY <1>8, ReturnedSound DEF php_pcov_stop
<1>9. CASE php_pcov_clear
  BY <1>9 DEF php_pcov_clear, FInv, Sound
<1>10. CASE php_pcov_collect
  BY <1>10, CollectSound
<1>11. CASE UNCHANGED vars
  BY <1>11 DEF vars, pcovVars, FInv
<1> QED
  BY <1>1, <1>2, <1>3, <1>4, <1>5, <1>6, <1>7, <1>8, <1>9, <1>10, <1>11
     DEF Next, Engine, Script

(* However the script calls, returns, throws, starts, stops, clears and    *)
(* collects, and whatever op_arrays come to share an address, a frame's    *)
(* cache is the entry that PCG(reached) holds: php_pcov_frame_finalize     *)
(* never follows a pointer to a freed analysis.                            *)
THEOREM FramesAttached == Spec => []NoDanglingCache
<1>1. FInv => NoDanglingCache
  BY DEF FInv, Sound, NoDanglingCache
<1> QED
  BY <1>1, FInit, FStep, PTL DEF Spec

-----------------------------------------------------------------------------
(* The shape of the stack.                                                 *)

(* The frames F have the places 1 to n, each one of its own.               *)
Ordered(F) ==
  /\ IsFiniteSet(DOMAIN F)
  /\ \A k \in DOMAIN F : IsFrame(F[k]) /\ F[k].pos \in Nat
  /\ \A h, k \in DOMAIN F : F[h].pos = F[k].pos => h = k
  /\ {F[k].pos : k \in DOMAIN F} = 1 .. Cardinality(DOMAIN F)

(* G has the frames K, in the order they have in F.                        *)
SameOrder(F, G, K) ==
  \A h, k \in K : G[h].pos <= G[k].pos <=> F[h].pos <= F[k].pos

(* What compaction gives a frame for a place is how many are not above it: *)
(* n different numbers from 1 to n, in the order of the places before.     *)
LEMMA CompactOrdered ==
  ASSUME NEW F, NEW K \in SUBSET DOMAIN F, Ordered(F)
  PROVE  Ordered(Compact(F, K)) /\ SameOrder(F, Compact(F, K), K)
<1> DEFINE G == Compact(F, K)
           B(k) == {h \in K : F[h].pos <= F[k].pos}
           n == Cardinality(K)
<1>1. IsFiniteSet(K) /\ n \in Nat
  BY FS_Subset, FS_CardinalityType DEF Ordered
<1>2. DOMAIN G = K
  BY DEF Compact
<1>3. \A k \in K : IsFrame(G[k]) /\ G[k].pos = Cardinality(B(k))
  <2> SUFFICES ASSUME NEW k \in K
               PROVE  IsFrame(G[k]) /\ G[k].pos = Cardinality(B(k))
    OBVIOUS
  <2>1. IsFrame(F[k])
    BY DEF Ordered
  <2>2. G[k] = [F[k] EXCEPT !.pos = Cardinality(B(k))]
    BY DEF Compact
  <2> HIDE DEF G, B
  <2> QED
    BY <2>1, <2>2 DEF IsFrame
<1>4. \A k \in K : /\ IsFiniteSet(B(k)) /\ Cardinality(B(k)) \in 1 .. n
                    /\ k \in B(k) /\ Cardinality(B(k)) \in Nat
  <2> SUFFICES ASSUME NEW k \in K
               PROVE  /\ IsFiniteSet(B(k)) /\ Cardinality(B(k)) \in 1 .. n
                      /\ k \in B(k) /\ Cardinality(B(k)) \in Nat
    OBVIOUS
  <2>1. B(k) \in SUBSET K /\ k \in B(k)
    BY DEF Ordered
  <2>2. IsFiniteSet(B(k)) /\ Cardinality(B(k)) <= n
    BY <1>1, <2>1, FS_Subset
  <2>3. Cardinality(B(k)) \in Nat /\ Cardinality(B(k)) # 0
    BY <2>1, <2>2, FS_CardinalityType, FS_EmptySet
  <2> QED
    BY <1>1, <2>1, <2>2, <2>3
<1>5. \A h, k \in K : F[h].pos <= F[k].pos => Cardinality(B(h)) <= Cardinality(B(k))
  <2> SUFFICES ASSUME NEW h \in K, NEW k \in K, F[h].pos <= F[k].pos
               PROVE  Cardinality(B(h)) <= Cardinality(B(k))
    OBVIOUS
  <2>1. B(h) \in SUBSET B(k)
    BY DEF Ordered
  <2> QED
    BY <1>4, <2>1, FS_Subset
<1>6. \A h, k \in K : F[h].pos < F[k].pos => Cardinality(B(h)) < Cardinality(B(k))
  <2> SUFFICES ASSUME NEW h \in K, NEW k \in K, F[h].pos < F[k].pos
               PROVE  Cardinality(B(h)) < Cardinality(B(k))
    OBVIOUS
  <2>1. B(h) \in SUBSET B(k) /\ k \notin B(h)
    BY DEF Ordered
  <2>2. Cardinality(B(h)) # Cardinality(B(k))
    BY <1>4, <2>1, FS_Subset
  <2>3. Cardinality(B(h)) <= Cardinality(B(k))
    BY <1>4, <2>1, FS_Subset
  <2>4. Cardinality(B(h)) \in Nat /\ Cardinality(B(k)) \in Nat
    BY <1>4
  <2> HIDE DEF B
  <2> QED
    BY <2>2, <2>3, <2>4
<1>7. SameOrder(F, G, K)
  <2> SUFFICES ASSUME NEW h \in K, NEW k \in K
               PROVE  G[h].pos <= G[k].pos <=> F[h].pos <= F[k].pos
    BY DEF SameOrder
  <2>1. F[h].pos \in Nat /\ F[k].pos \in Nat
    BY DEF Ordered
  <2>2. G[h].pos = Cardinality(B(h)) /\ G[k].pos = Cardinality(B(k))
    BY <1>3
  <2>3. Cardinality(B(h)) \in Nat /\ Cardinality(B(k)) \in Nat
    BY <1>4
  <2> HIDE DEF B, G
  <2> QED
    BY <1>5, <1>6, <2>1, <2>2, <2>3
<1>8. \A k \in K : G[k].pos \in 1 .. n
  BY <1>3, <1>4
<1>9. \A h, k \in K : G[h].pos = G[k].pos => h = k
  <2> SUFFICES ASSUME NEW h \in K, NEW k \in K, G[h].pos = G[k].pos
               PROVE  h = k
    OBVIOUS
  <2>1. F[h].pos \in Nat /\ F[k].pos \in Nat /\ G[h].pos \in Nat
    BY <1>8 DEF Ordered
  <2>2. F[h].pos = F[k].pos
    <3> HIDE DEF G
    <3> QED
      BY <1>7, <2>1 DEF SameOrder
  <2> QED
    BY <2>2 DEF Ordered
<1>10. {G[k].pos : k \in K} = 1 .. n
  <2> DEFINE g == [k \in K |-> G[k].pos]
  <2>1. g \in Injection(K, 1 .. n)
    <3>1. g \in [K -> 1 .. n]
      BY <1>8
    <3>2. \A h, k \in K : g[h] = g[k] => h = k
      BY <1>9
    <3> HIDE DEF g
    <3> QED
      BY <3>1, <3>2, Fun_IsInj
  <2>2. IsFiniteSet(1 .. n) /\ Cardinality(1 .. n) = n
    BY <1>1, FS_Interval
  <2>3. g \in Surjection(K, 1 .. n)
    BY <1>1, <2>1, <2>2, FS_Injection
  <2>4. \A i \in 1 .. n : \E k \in K : g[k] = i
    <3> HIDE DEF g, n
    <3> QED
      BY <2>3, Fun_SurjectionProperties
  <2>5. \A k \in K : g[k] = G[k].pos
    OBVIOUS
  <2> HIDE DEF g, G
  <2> QED
    BY <1>8, <2>4, <2>5
<1> QED
  <2>1. G = Compact(F, K)
    OBVIOUS
  <2> HIDE DEF G, B
  <2>2. \A k \in DOMAIN G : IsFrame(G[k]) /\ G[k].pos \in Nat
    BY <1>1, <1>2, <1>3, <1>8
  <2>3. {G[k].pos : k \in DOMAIN G} = 1 .. Cardinality(DOMAIN G)
    BY <1>2, <1>10
  <2> QED
    BY <2>1, <1>1, <1>2, <2>2, <1>7, <1>9, <2>3 DEF Ordered

(* G has one frame more than F, on top.                                    *)
LEMMA PushOrdered ==
  ASSUME NEW F, NEW G, NEW k, k \notin DOMAIN F, Ordered(F),
         DOMAIN G = DOMAIN F \union {k}, \A h \in DOMAIN F : G[h] = F[h],
         IsFrame(G[k]), G[k].pos = Cardinality(DOMAIN F) + 1
  PROVE  Ordered(G)
<1> DEFINE n == Cardinality(DOMAIN F)
<1>1. n \in Nat
  BY FS_CardinalityType DEF Ordered
<1>2. G[k].pos = n + 1
  OBVIOUS
<1>3. IsFiniteSet(DOMAIN G) /\ Cardinality(DOMAIN G) = n + 1
  BY <1>2, FS_AddElement DEF Ordered
<1>4. \A h \in DOMAIN F : F[h].pos \in 1 .. n
  BY DEF Ordered
<1> HIDE DEF n
<1>5. \A h \in DOMAIN G : IsFrame(G[h]) /\ G[h].pos \in 1 .. n + 1 /\ G[h].pos \in Nat
  BY <1>1, <1>2, <1>4 DEF Ordered, n
<1>6. \A h, j \in DOMAIN G : G[h].pos = G[j].pos => h = j
  BY <1>1, <1>2, <1>4 DEF Ordered, n
<1>7. {G[h].pos : h \in DOMAIN G} = 1 .. n + 1
  <2>1. \A i \in 1 .. n : \E h \in DOMAIN F : F[h].pos = i
    BY DEF Ordered, n
  <2>2. \A i \in 1 .. n + 1 : \E h \in DOMAIN G : G[h].pos = i
    <3> SUFFICES ASSUME NEW i \in 1 .. n + 1
                 PROVE  \E h \in DOMAIN G : G[h].pos = i
      OBVIOUS
    <3>1. CASE i = n + 1
      BY <3>1, <1>2 DEF n
    <3>2. CASE i # n + 1
      <4>1. i \in 1 .. n
        BY <3>2, <1>1
      <4> QED
        BY <4>1, <2>1, <1>2
    <3> QED
      BY <3>1, <3>2
  <2> QED
    BY <1>5, <2>2
<1> QED
  BY <1>3, <1>5, <1>6, <1>7 DEF Ordered

(* The frames G are F with their places kept.                              *)
LEMMA SamePlaces ==
  ASSUME NEW F, NEW G, Ordered(F), DOMAIN G = DOMAIN F,
         \A k \in DOMAIN F : IsFrame(G[k]) /\ G[k].pos = F[k].pos
  PROVE  Ordered(G)
<1>1. {G[k].pos : k \in DOMAIN G} = {F[k].pos : k \in DOMAIN F}
  OBVIOUS
<1> QED
  BY <1>1 DEF Ordered

(* What recording an opcode in frame k leaves alone.                       *)
LEMMA RecordFrames ==
  ASSUME NEW F, NEW R, NEW k \in DOMAIN F, NEW pc, IsFrame(F[k]),
         RecordOpcode(F, R, k, pc)
  PROVE  /\ DOMAIN frames' = DOMAIN F
         /\ \A h \in DOMAIN F \ {k} : frames'[h] = F[h]
         /\ IsFrame(frames'[k]) /\ frames'[k].pos = F[k].pos
         /\ frames'[k].cache = F[k].cache
<1> DEFINE f == IF Reentered(F[k], pc) THEN [F[k] EXCEPT !.seq = <<>>, !.last = NONE]
                                       ELSE F[k]
           g == php_pcov_frame_append(f, pc)
<1>1. IsFrame(f) /\ f.pos = F[k].pos /\ f.cache = F[k].cache
  BY DEF IsFrame
<1>2. frames' = [F EXCEPT ![k] = g] \/ frames' = F
  BY DEF RecordOpcode
<1>3. IsFrame(g) /\ g.pos = F[k].pos /\ g.cache = F[k].cache
  <2> HIDE DEF f
  <2> QED
    BY <1>1 DEF php_pcov_frame_append, IsFrame
<1> HIDE DEF g
<1> QED
  BY <1>2, <1>3

(* The hook pops what is above, or pushes, or lets the stack be.           *)
LEMMA TraceOrdered ==
  ASSUME Ordered(frames), NEW pc, php_pcov_trace(pc)
  PROVE  Ordered(frames')
<1> DEFINE c == Top.code
           k == <<Top.slot, Home[c]>>
<1>1. CASE ~(enabled /\ c \in Traced)
  BY <1>1 DEF php_pcov_trace
<1>2. CASE enabled /\ c \in Traced
  <2>1. php_pcov_path_trace(k, c, pc)
    BY <1>2 DEF php_pcov_trace
  <2>2. ASSUME NEW F, NEW R, Ordered(F), k \in DOMAIN F, RecordOpcode(F, R, k, pc)
        PROVE  Ordered(frames')
    <3>1. \A h \in DOMAIN F : IsFrame(F[h])
      BY <2>2 DEF Ordered
    <3>2. /\ DOMAIN frames' = DOMAIN F
          /\ \A h \in DOMAIN F \ {k} : frames'[h] = F[h]
          /\ IsFrame(frames'[k]) /\ frames'[k].pos = F[k].pos
      BY <2>2, <3>1, RecordFrames
    <3> QED
      BY <2>2, <3>1, <3>2, SamePlaces
  <2>3. CASE k \in DOMAIN frames
    <3> DEFINE kept == {h \in DOMAIN frames : h = k \/ frames[h].pos < frames[k].pos}
               R == php_pcov_frame_finalize(frames, reached, DOMAIN frames \ kept)
    <3>1. RecordOpcode(Compact(frames, kept), R, k, pc)
      BY <2>1, <2>3 DEF php_pcov_path_trace
    <3>2. kept \in SUBSET DOMAIN frames /\ k \in kept
      BY <2>3
    <3>3. Ordered(Compact(frames, kept)) /\ DOMAIN Compact(frames, kept) = kept
      BY <3>2, CompactOrdered DEF Compact
    <3> HIDE DEF kept, R
    <3> QED
      BY <3>1, <3>2, <3>3, <2>2
  <2>4. CASE k \notin DOMAIN frames
    <3> DEFINE F == IF Stale(c) THEN php_pcov_frames_detach_cache(frames, {Home[c]})
                                ELSE frames
               R == php_pcov_reached_get(c)
               f == [pos |-> Cardinality(DOMAIN F) + 1, cache |-> R[Home[c]].code,
                     seq |-> <<>>, last |-> NONE]
               G == [h \in DOMAIN F \union {k} |-> IF h = k THEN f ELSE F[h]]
    <3>1. RecordOpcode(G, R, k, pc)
      BY <2>1, <2>4 DEF php_pcov_path_trace
    <3>2. Ordered(F) /\ k \notin DOMAIN F
      <4> DEFINE K == {h \in DOMAIN frames : ~(h[2] \in {Home[c]} /\
                                               frames[h].cache = reached[h[2]].code)}
      <4>1. F = frames \/ F = Compact(frames, K)
        BY DEF php_pcov_frames_detach_cache
      <4>3. K \in SUBSET DOMAIN frames
        OBVIOUS
      <4> HIDE DEF F, K
      <4>2. Ordered(Compact(frames, K)) /\ DOMAIN Compact(frames, K) = K
        BY <4>3, CompactOrdered DEF Compact
      <4> QED
        BY <2>4, <4>1, <4>2, <4>3
    <3>3. IsFrame(f) /\ f.pos = Cardinality(DOMAIN F) + 1
      BY DEF IsFrame
    <3>4. /\ DOMAIN G = DOMAIN F \union {k} /\ G[k] = f
          /\ \A h \in DOMAIN F : h # k => G[h] = F[h]
      OBVIOUS
    <3>5. Ordered(G) /\ k \in DOMAIN G
      <4> HIDE DEF F, f, G, k
      <4> QED
        BY <3>2, <3>3, <3>4, PushOrdered
    <3> HIDE DEF G, R
    <3> QED
      BY <3>1, <3>5, <2>2
  <2> QED
    BY <2>3, <2>4
<1> QED
  BY <1>1, <1>2

OInv == Ordered(frames)

(* Every other operation only drops frames.                                *)
LEMMA OrderedStep == OInv /\ [Next]_vars => OInv'
<1> SUFFICES ASSUME Ordered(frames), [Next]_vars
             PROVE  Ordered(frames')
  BY DEF OInv
<1>1. \A K \in SUBSET DOMAIN frames :
        Ordered(Compact(frames, K)) /\ DOMAIN Compact(frames, K) = K
  BY CompactOrdered DEF Compact
<1>2. CASE Run
  BY <1>2, TraceOrdered DEF Run
<1>3. ASSUME NEW c \in Codes, Call(c)
      PROVE  Ordered(frames')
  BY <1>3 DEF Call, pcovVars
<1>4. ASSUME NEW n, Advance(n)
      PROVE  Ordered(frames')
  BY <1>4 DEF Advance, pcovVars
<1>5. CASE Leave
  BY <1>5 DEF Leave, pcovVars
<1>6. CASE Throw
  BY <1>6 DEF Throw, pcovVars
<1>7. CASE Unwind
  BY <1>7, TraceOrdered DEF Unwind
<1>8. CASE php_pcov_start
  BY <1>8 DEF php_pcov_start
<1>9. CASE php_pcov_stop
  BY <1>9, <1>1 DEF php_pcov_stop, php_pcov_frames_finalize_returned
<1>10. CASE php_pcov_clear
  <2>1. frames' = [k \in {} |-> {}]
    BY <1>10 DEF php_pcov_clear
  <2> QED
    BY <2>1, FS_EmptySet DEF Ordered
<1>11. CASE php_pcov_collect
  <2> DEFINE F == Compact(frames, {k \in DOMAIN frames : php_pcov_frame_is_live(k)})
  <2>1. Ordered(F)
    BY <1>1
  <2>2. PICK A : frames' = php_pcov_frames_detach_cache(F, A)
    BY <1>11 DEF php_pcov_collect
  <2> HIDE DEF F
  <2> DEFINE K == {k \in DOMAIN F : ~(k[2] \in A /\ F[k].cache = reached[k[2]].code)}
  <2>3. frames' = Compact(F, K) /\ K \in SUBSET DOMAIN F
    BY <2>2 DEF php_pcov_frames_detach_cache
  <2> HIDE DEF K
  <2> QED
    BY <2>1, <2>3, CompactOrdered
<1>12. CASE UNCHANGED vars
  BY <1>12 DEF vars, pcovVars
<1>13. CASE Engine
  BY <1>13, <1>2, <1>3, <1>4, <1>5, <1>6, <1>7 DEF Engine
<1>14. CASE Script
  BY <1>14, <1>8, <1>9, <1>10, <1>11 DEF Script
<1> QED
  BY <1>12, <1>13, <1>14 DEF Next

(* Whatever is popped, evicted or found to have returned, and in whatever  *)
(* order, the places of the frames stay 1 to count: php_pcov_path_trace    *)
(* and the compactions of php_pcov_frames_finalize_returned and            *)
(* php_pcov_frames_detach_cache leave no hole and no double.               *)
THEOREM StackWithoutHoles == Spec => []StackShape
<1>1. Init => OInv
  BY FS_EmptySet DEF Init, OInv, Ordered
<1>2. OInv => StackShape
  BY DEF OInv, Ordered, StackShape
<1> QED
  BY <1>1, <1>2, OrderedStep, PTL DEF Spec

-----------------------------------------------------------------------------
(* What is in the entries.                                                 *)

(* Edges of c's flow graph.                                                *)
EdgesOf(c, E) == \A e \in E : e[1] \in Starts[c] /\ e[2] \in Outs[c][e[1]]

(* The entries of R are of traced codes, each at its code's address, with  *)
(* hits among its branch starts, and paths and edges among its own.        *)
EntriesOK(R) ==
  \A a \in DOMAIN R :
    /\ R[a].code \in Traced
    /\ Home[R[a].code] = a
    /\ R[a].hits \subseteq Starts[R[a].code]
    /\ R[a].paths \subseteq Paths[R[a].code]
    /\ EdgesOf(R[a].code, R[a].edges)

(* Frame f holds branches of the code it is of, the last of them in last.  *)
FrameOK(f) ==
  /\ f.cache \in Codes /\ f.seq \in Seq(Starts[f.cache])
  /\ f.last = IF f.seq = <<>> THEN NONE ELSE LastOf(f.seq)

FramesOK(F) == \A k \in DOMAIN F : FrameOK(F[k])

LEMMA LastOfSeq ==
  ASSUME NEW S, NEW s \in Seq(S), s # <<>>
  PROVE  LastOf(s) \in S
BY DEF LastOf

LEMMA LastAppended ==
  ASSUME NEW S, NEW s \in Seq(S), NEW e \in S
  PROVE  Append(s, e) \in Seq(S) /\ Append(s, e) # <<>> /\ LastOf(Append(s, e)) = e
BY DEF LastOf

LEMMA FramesSame ==
  ASSUME NEW F, NEW G, FramesOK(F), DOMAIN G \subseteq DOMAIN F,
         \A k \in DOMAIN G : SameRecord(G[k], F[k])
  PROVE  FramesOK(G)
BY DEF FramesOK, FrameOK, SameRecord

(* The sequences that finalizing the frames K matches with the entry at a. *)
Finished(F, R, K, a) == {f.seq : f \in Attached(F, R, K, a)}

(* What finalizing does to an entry.                                       *)
LEMMA FinalizeFields ==
  ASSUME NEW F, NEW R, NEW K, NEW a \in DOMAIN R, IsEntry(R[a])
  PROVE  LET r == php_pcov_frame_finalize(F, R, K)[a]
             s == Finished(F, R, K, a)
         IN  /\ IsEntry(r)
             /\ r.code = R[a].code /\ r.hits = R[a].hits
             /\ r.paths = R[a].paths \union (s \intersect Paths[R[a].code])
             /\ r.edges = R[a].edges \union
                  {<<LastOf(q), EXIT>> : q \in {t \in s : EXIT \in Outs[R[a].code][LastOf(t)]}}
<1> DEFINE c == R[a].code
           s == Finished(F, R, K, a)
           E == {<<LastOf(q), EXIT>> : q \in {t \in s : EXIT \in Outs[c][LastOf(t)]}}
           P == s \intersect Paths[c]
<1>1. php_pcov_frame_finalize(F, R, K)[a] =
        [R[a] EXCEPT !.paths = @ \union P, !.edges = @ \union E]
  BY DEF php_pcov_frame_finalize, Finished
<1> HIDE DEF E, P
<1>2. php_pcov_frame_finalize(F, R, K)[a] =
        [code |-> c, hits |-> R[a].hits, edges |-> R[a].edges \union E,
         paths |-> R[a].paths \union P]
  BY <1>1 DEF IsEntry
<1> QED
  BY <1>2 DEF IsEntry, E, P

LEMMA FinalizeEntries ==
  ASSUME NEW F, NEW R, NEW K \in SUBSET DOMAIN F, \A a \in DOMAIN R : IsEntry(R[a]),
         EntriesOK(R), FramesOK(F)
  PROVE  EntriesOK(php_pcov_frame_finalize(F, R, K))
<1> DEFINE Q == php_pcov_frame_finalize(F, R, K)
<1>1. DOMAIN Q = DOMAIN R
  BY DEF php_pcov_frame_finalize
<1>2. \A a \in DOMAIN R :
        /\ Q[a].code = R[a].code /\ Q[a].hits = R[a].hits
        /\ Q[a].paths \subseteq R[a].paths \union Paths[R[a].code]
  BY FinalizeFields
<1>3. ASSUME NEW a \in DOMAIN R
      PROVE  EdgesOf(R[a].code, Q[a].edges)
  <2> DEFINE c == R[a].code
             s == Finished(F, R, K, a)
  <2>1. \A q \in s : q \in Seq(Starts[c]) /\ q # <<>>
    BY DEF Finished, Attached, FramesOK, FrameOK
  <2>2. \A q \in s : LastOf(q) \in Starts[c]
    BY <2>1, LastOfSeq
  <2>3. Q[a].edges = R[a].edges \union
          {<<LastOf(q), EXIT>> : q \in {t \in s : EXIT \in Outs[c][LastOf(t)]}}
    BY <1>3, FinalizeFields
  <2>4. EdgesOf(c, R[a].edges)
    BY DEF EntriesOK
  <2> HIDE DEF Q, s, c
  <2>5. EdgesOf(c, Q[a].edges)
    BY <2>2, <2>3, <2>4 DEF EdgesOf
  <2> QED
    BY <2>5 DEF c
<1> HIDE DEF Q
<1>4. EntriesOK(Q)
  BY <1>1, <1>2, <1>3 DEF EntriesOK
<1> QED
  BY <1>4 DEF Q

(* The frame that RecordOpcode finds, after the end of an invocation that  *)
(* its opcode is the sign of, and the cache at that moment.                *)
Renewed(f, pc) ==
  IF Reentered(f, pc) THEN [f EXCEPT !.seq = <<>>, !.last = NONE] ELSE f

Closed(F, R, k, pc) ==
  IF Reentered(F[k], pc) THEN php_pcov_frame_finalize(F, R, {k}) ELSE R

LEMMA RenewedFrame ==
  ASSUME NEW f, NEW pc, IsFrame(f)
  PROVE  /\ IsFrame(Renewed(f, pc))
         /\ Renewed(f, pc).cache = f.cache /\ Renewed(f, pc).pos = f.pos
         /\ Renewed(f, pc).seq = (IF Reentered(f, pc) THEN <<>> ELSE f.seq)
         /\ Renewed(f, pc).last = (IF Reentered(f, pc) THEN NONE ELSE f.last)
BY DEF Renewed, IsFrame

LEMMA AppendedFrame ==
  ASSUME NEW f, NEW pc, IsFrame(f)
  PROVE  LET g == php_pcov_frame_append(f, pc)
         IN  /\ IsFrame(g) /\ g.pos = f.pos /\ g.cache = f.cache
             /\ g.last = pc
             /\ g.seq = (IF f.last = pc THEN f.seq ELSE Append(f.seq, pc))
BY DEF php_pcov_frame_append, IsFrame

(* What RecordOpcode does at a branch start, and that it does nothing at   *)
(* any other opcode.                                                       *)
Recorded(F, R, k, pc, f, R1) ==
  /\ Sound(F, R1) /\ DOMAIN R1 = DOMAIN R /\ k[2] \in DOMAIN R
  /\ frames' = [F EXCEPT ![k] = php_pcov_frame_append(f, pc)]
  /\ DOMAIN reached' = DOMAIN R
  /\ \A b \in DOMAIN R : b # k[2] => reached'[b] = R1[b]
  /\ reached'[k[2]] =
       [code  |-> R1[k[2]].code,
        hits  |-> R1[k[2]].hits \union {pc},
        edges |-> R1[k[2]].edges \union TraversedEdges(f, R1[k[2]].hits, pc),
        paths |-> R1[k[2]].paths]

LEMMA RecordStart ==
  ASSUME NEW F, NEW R, NEW k \in DOMAIN F, NEW pc, Sound(F, R),
         RecordOpcode(F, R, k, pc), pc \in Starts[F[k].cache]
  PROVE  Recorded(F, R, k, pc, Renewed(F[k], pc), Closed(F, R, k, pc))
<1> DEFINE a  == k[2]
           f  == Renewed(F[k], pc)
           R1 == Closed(F, R, k, pc)
<1>1. Sound(F, R1) /\ DOMAIN R1 = DOMAIN R
  BY FinalizeSound DEF Closed
<1>2. a \in DOMAIN R /\ IsEntry(R1[a]) /\ IsFrame(F[k])
  BY <1>1 DEF Sound
<1>3. f.cache = F[k].cache
  BY <1>2, RenewedFrame
<1>4. /\ frames' = [F EXCEPT ![k] = php_pcov_frame_append(f, pc)]
      /\ reached' = [R1 EXCEPT ![a].hits  = @ \union {pc},
                               ![a].edges = @ \union TraversedEdges(f, R1[a].hits, pc)]
  BY <1>3 DEF RecordOpcode, pcov_branch_is_start, Renewed, Closed
<1> HIDE DEF f, R1
<1>5. /\ DOMAIN reached' = DOMAIN R
      /\ \A b \in DOMAIN R : b # a => reached'[b] = R1[b]
      /\ reached'[a] = [code  |-> R1[a].code,
                        hits  |-> R1[a].hits \union {pc},
                        edges |-> R1[a].edges \union TraversedEdges(f, R1[a].hits, pc),
                        paths |-> R1[a].paths]
  BY <1>1, <1>2, <1>4 DEF IsEntry
<1> QED
  BY <1>1, <1>2, <1>4, <1>5 DEF Recorded, f, R1

LEMMA RecordElsewhere ==
  ASSUME NEW F, NEW R, NEW k \in DOMAIN F, NEW pc, IsFrame(F[k]),
         RecordOpcode(F, R, k, pc), pc \notin Starts[F[k].cache]
  PROVE  frames' = F /\ reached' = R
<1>1. Renewed(F[k], pc).cache = F[k].cache
  BY RenewedFrame
<1> QED
  BY <1>1 DEF RecordOpcode, pcov_branch_is_start, Renewed

-----------------------------------------------------------------------------
(* The call stack.                                                         *)

Activations ==
  [slot : Nat, code : Codes, pc : Nat, at : {"new", "ready", "run", "done"}, walk : Seq(Nat),
   whole : BOOLEAN]

(* Control has come to an entry point and the hook has not seen it yet.    *)
AtEntry(act) ==
  act.code \in Traced /\ act.at = "ready" /\ act.pc \in Entries[act.code]

ActOK(act) ==
  /\ act.pc \in Opcodes(act.code)
  /\ act.walk # <<>>
  /\ act.at = "new" => act.pc = First[act.code] /\ act.walk = <<0>>
  /\ AtEntry(act) => act.walk = <<act.pc>>

(* Slots grow along the stack: no two live activations share one.          *)
Ascending(S) == \A i, j \in 1 .. Len(S) : i < j => S[i].slot < S[j].slot

(* Callers wait at the call; only an opcode that has run throws.           *)
StackInv ==
  /\ stack \in Seq(Activations) /\ Len(stack) \in 1 .. MaxDepth
  /\ \A i \in 1 .. Len(stack) : ActOK(stack[i])
  /\ \A i \in 1 .. Len(stack) - 1 : stack[i].at = "done"
  /\ Ascending(stack)
  /\ throwing \in BOOLEAN /\ (throwing => Top.at \in {"run", "done"})
  /\ enabled \in BOOLEAN

LEMMA ActivationFields ==
  ASSUME NEW act
  PROVE  act \in Activations <=>
           /\ act = [slot |-> act.slot, code |-> act.code, pc |-> act.pc, at |-> act.at,
                     walk |-> act.walk, whole |-> act.whole]
           /\ act.slot \in Nat /\ act.code \in Codes /\ act.pc \in Nat
           /\ act.at \in {"new", "ready", "run", "done"}
           /\ act.walk \in Seq(Nat) /\ act.whole \in BOOLEAN
BY DEF Activations

Moved(act, n, w) == [act EXCEPT !.pc = n, !.at = "ready", !.walk = w]

LEMMA MovedActivation ==
  ASSUME NEW act \in Activations, NEW n \in Nat, NEW w \in Seq(Nat)
  PROVE  /\ Moved(act, n, w) \in Activations
         /\ Moved(act, n, w).slot = act.slot
         /\ Moved(act, n, w).code = act.code /\ Moved(act, n, w).pc = n
         /\ Moved(act, n, w).at = "ready" /\ Moved(act, n, w).walk = w
         /\ Moved(act, n, w).whole = act.whole
BY DEF Moved, Activations

(* What happens to the stack: its top changes, or grows, or goes.          *)
LEMMA TopTyped ==
  ASSUME StackInv
  PROVE  /\ Len(stack) \in Nat \ {0} /\ Len(stack) \in 1 .. Len(stack)
         /\ Top \in Activations /\ ActOK(Top)
         /\ \A i \in 1 .. Len(stack) : stack[i] \in Activations
BY DEF StackInv, Top

LEMMA BecomesStack ==
  ASSUME StackInv, NEW act \in Activations, Becomes(act)
  PROVE  /\ stack' \in Seq(Activations) /\ Len(stack') = Len(stack)
         /\ stack'[Len(stack)] = act /\ Top' = act
         /\ \A i \in 1 .. Len(stack) - 1 : stack'[i] = stack[i]
<1>1. stack \in Seq(Activations) /\ Len(stack) \in 1 .. Len(stack)
  BY TopTyped DEF StackInv
<1>2. stack' = [stack EXCEPT ![Len(stack)] = act]
  BY DEF Becomes
<1>3. /\ stack' \in Seq(Activations) /\ Len(stack') = Len(stack)
      /\ \A i \in 1 .. Len(stack) : stack'[i] = IF i = Len(stack) THEN act ELSE stack[i]
  BY <1>1, <1>2, ExceptSeq
<1> QED
  BY <1>1, <1>3 DEF Top

LEMMA PushStack ==
  ASSUME StackInv, NEW act \in Activations,
         stack' = Append([stack EXCEPT ![Len(stack)].at = "done"], act)
  PROVE  /\ stack' \in Seq(Activations) /\ Len(stack') = Len(stack) + 1
         /\ Top' = act
         /\ stack'[Len(stack)] = [Top EXCEPT !.at = "done"]
         /\ \A i \in 1 .. Len(stack) - 1 : stack'[i] = stack[i]
<1> DEFINE t == [Top EXCEPT !.at = "done"]
           s == [stack EXCEPT ![Len(stack)] = t]
<1>1. stack \in Seq(Activations) /\ Len(stack) \in 1 .. Len(stack) /\ t \in Activations
  BY TopTyped DEF StackInv, Activations
<1> HIDE DEF t
<1>2. /\ s \in Seq(Activations) /\ Len(s) = Len(stack)
      /\ \A i \in 1 .. Len(stack) : s[i] = IF i = Len(stack) THEN t ELSE stack[i]
  BY <1>1, ExceptSeq
<1>3. stack' = Append(s, act)
  BY DEF Top, t
<1> HIDE DEF s
<1>4. /\ stack' \in Seq(Activations) /\ Len(stack') = Len(stack) + 1
      /\ stack'[Len(stack')] = act
      /\ \A i \in 1 .. Len(stack) : stack'[i] = s[i]
  <2>1. /\ Append(s, act) \in Seq(Activations) /\ Len(Append(s, act)) = Len(s) + 1
        /\ Append(s, act)[Len(s) + 1] = act
        /\ \A i \in 1 .. Len(s) : Append(s, act)[i] = s[i]
    BY <1>2, AppendProperties
  <2> QED
    BY <1>2, <1>3, <2>1
<1>5. stack'[Len(stack)] = t /\ \A i \in 1 .. Len(stack) - 1 : stack'[i] = stack[i]
  BY <1>1, <1>2, <1>4
<1> QED
  BY <1>4, <1>5 DEF Top, t

LEMMA PopStack ==
  ASSUME StackInv, Len(stack) > 1, stack' = SubSeq(stack, 1, Len(stack) - 1)
  PROVE  /\ stack' \in Seq(Activations) /\ Len(stack') = Len(stack) - 1
         /\ Top' = stack[Len(stack) - 1]
         /\ \A i \in 1 .. Len(stack) - 1 : stack'[i] = stack[i]
<1>1. Len(stack) \in Nat /\ \A i \in 1 .. Len(stack) : stack[i] \in Activations
  BY TopTyped
<1>2. /\ stack' \in Seq(Activations) /\ Len(stack') = Len(stack) - 1
      /\ \A i \in 1 .. Len(stack) - 1 : stack'[i] = stack[i]
  BY <1>1, SubSeqProperties
<1> QED
  BY <1>1, <1>2 DEF Top

(* Control goes on in the innermost activation.                            *)
LEMMA GoToStack ==
  ASSUME StackInv, NEW n \in Flow[Top.code][Top.pc] \union Catch[Top.code][Top.pc],
         GoTo(n)
  PROVE  \E w \in Seq(Nat) :
           /\ Becomes(Moved(Top, n, w))
           /\ Moved(Top, n, w) \in Activations /\ ActOK(Moved(Top, n, w))
<1> DEFINE c == Top.code
           to(w) == Moved(Top, n, w)
<1>1. /\ Top \in Activations /\ ActOK(Top)
      /\ c \in Codes /\ Top.walk \in Seq(Nat)
  BY TopTyped DEF Activations
<1>2. n \in Opcodes(c) /\ n \in Nat /\ Top.walk # <<>>
  BY <1>1, ProgramAssumption DEF ActOK
<1>3. ASSUME NEW w \in Seq(Nat), w # <<>>, Becomes(to(w)),
             c \in Traced /\ n \in Entries[c] => w = <<n>>
      PROVE  Becomes(to(w)) /\ to(w) \in Activations /\ ActOK(to(w))
  <2>1. /\ to(w) \in Activations
        /\ to(w).code = c /\ to(w).pc = n /\ to(w).at = "ready" /\ to(w).walk = w
    <3>1. Top \in Activations /\ n \in Nat /\ w \in Seq(Nat)
      BY <1>1, <1>2
    <3> QED
      BY <3>1, MovedActivation
  <2> QED
    BY <1>2, <1>3, <2>1 DEF ActOK, AtEntry
<1> HIDE DEF to
<1>4. CASE c \in Traced /\ n \in Entries[c]
  <2>1. Becomes(to(<<n>>)) /\ <<n>> \in Seq(Nat) /\ <<n>> # <<>>
    BY <1>2, <1>4 DEF GoTo, Moved, to
  <2> QED
    BY <1>3, <2>1 DEF to
<1>5. CASE c \in Traced /\ n \in Starts[c] \ Entries[c]
  <2> DEFINE w == IF LastOf(Top.walk) = n THEN Top.walk ELSE Append(Top.walk, n)
  <2>1. Becomes(to(w))
    BY <1>5 DEF GoTo, Moved, to
  <2>2. w \in Seq(Nat) /\ w # <<>>
    BY <1>1, <1>2
  <2> HIDE DEF w
  <2> QED
    BY <1>3, <1>5, <2>1, <2>2 DEF to
<1>6. CASE ~(c \in Traced /\ n \in Entries[c]) /\ ~(c \in Traced /\ n \in Starts[c] \ Entries[c])
  <2>1. Becomes(to(Top.walk))
    BY <1>6 DEF GoTo, Moved, to
  <2> QED
    BY <1>1, <1>2, <1>3, <1>6, <2>1 DEF to
<1> QED
  BY <1>4, <1>5, <1>6

(* An opcode of an activation has run, or its call has returned.           *)
Turned(act, at) == [act EXCEPT !.at = at]
Broken(act)     == [act EXCEPT !.whole = FALSE]

LEMMA TurnedActivation ==
  ASSUME NEW act \in Activations, ActOK(act), NEW at \in {"run", "done"}
  PROVE  /\ Turned(act, at) \in Activations /\ ActOK(Turned(act, at))
         /\ Turned(act, at).slot = act.slot
         /\ Turned(act, at).code = act.code /\ Turned(act, at).pc = act.pc
         /\ Turned(act, at).at = at /\ Turned(act, at).walk = act.walk
         /\ Turned(act, at).whole = act.whole
BY DEF Turned, Activations, ActOK, AtEntry

LEMMA BrokenActivation ==
  ASSUME NEW act \in Activations, ActOK(act)
  PROVE  /\ Broken(act) \in Activations /\ ActOK(Broken(act))
         /\ Broken(act).slot = act.slot
         /\ Broken(act).code = act.code /\ Broken(act).pc = act.pc
         /\ Broken(act).at = act.at /\ Broken(act).walk = act.walk
         /\ Broken(act).whole = FALSE
BY DEF Broken, Activations, ActOK, AtEntry

LEMMA NewActivation ==
  ASSUME NEW slot \in Nat, NEW c \in Codes, NEW traced \in BOOLEAN
  PROVE  LET act == Activation(slot, c, traced)
         IN  /\ act \in Activations /\ ActOK(act)
             /\ act.slot = slot /\ act.code = c /\ act.at = "new"
             /\ act.whole = traced
<1>1. First[c] \in Opcodes(c) /\ First[c] \in Nat
  BY ProgramAssumption
<1>2. <<0>> \in Seq(Nat) /\ <<0>> # <<>>
  OBVIOUS
<1> QED
  BY <1>1, <1>2 DEF Activation, Activations, ActOK, AtEntry

LEMMA InterruptStack ==
  ASSUME StackInv, NEW act \in Activations, ActOK(act), Interrupt(act)
  PROVE  /\ stack' \in Seq(Activations) /\ Len(stack') = Len(stack)
         /\ Top' = Broken(act)
         /\ \A i \in 1 .. Len(stack) - 1 : stack'[i] = Broken(stack[i])
<1> DEFINE b(i) == Broken(IF i = Len(stack) THEN act ELSE stack[i])
<1>1. Len(stack) \in Nat \ {0} /\ \A i \in 1 .. Len(stack) : stack[i] \in Activations /\ ActOK(stack[i])
  BY TopTyped DEF StackInv
<1>2. stack' = [i \in 1 .. Len(stack) |-> b(i)]
  BY DEF Interrupt, Broken
<1>3. \A i \in 1 .. Len(stack) : b(i) \in Activations
  BY <1>1, BrokenActivation
<1> HIDE DEF b
<1>4. stack' \in Seq(Activations) /\ Len(stack') = Len(stack)
      /\ \A i \in 1 .. Len(stack) : stack'[i] = b(i)
  BY <1>1, <1>2, <1>3
<1> QED
  BY <1>1, <1>4 DEF Top, b

(* The slots of a stack that keeps its activations' slots, or loses its    *)
(* top, or grows by one at a higher slot, ascend as they did.              *)
LEMMA SameSlots ==
  ASSUME StackInv, Len(stack') \in 1 .. Len(stack),
         \A i \in 1 .. Len(stack') : stack'[i].slot = stack[i].slot
  PROVE  Ascending(stack)'
<1>1. \A i \in 1 .. Len(stack') : i \in 1 .. Len(stack)
  BY TopTyped
<1> QED
  BY <1>1 DEF StackInv, Ascending

LEMMA GrownSlots ==
  ASSUME StackInv, Len(stack') = Len(stack) + 1,
         \A i \in 1 .. Len(stack) : stack'[i].slot = stack[i].slot,
         stack'[Len(stack')].slot \in Nat, Top.slot < stack'[Len(stack')].slot
  PROVE  Ascending(stack)'
<1> DEFINE n == Len(stack)
<1>1. n \in Nat \ {0} /\ Top = stack[n] /\ \A i \in 1 .. n : stack[i].slot \in Nat
  BY TopTyped DEF Top, Activations
<1>2. \A i, j \in 1 .. n : i < j => stack[i].slot < stack[j].slot
  BY DEF StackInv, Ascending
<1> HIDE DEF n
<1>3. \A i \in 1 .. n : stack[i].slot <= stack[n].slot
  <2> SUFFICES ASSUME NEW i \in 1 .. n
               PROVE  stack[i].slot <= stack[n].slot
    OBVIOUS
  <2>1. CASE i = n
    BY <1>1, <2>1
  <2>2. CASE i # n
    BY <1>1, <1>2, <2>2
  <2> QED
    BY <2>1, <2>2
<1>4. \A i \in 1 .. n : stack'[i].slot = stack[i].slot
  BY DEF n
<1>5. Len(stack') = n + 1
  BY DEF n
<1>6. \A i \in 1 .. n : stack'[i].slot < stack'[n + 1].slot
  BY <1>1, <1>3, <1>4, <1>5
<1>7. \A i, j \in 1 .. n + 1 : i < j => stack'[i].slot < stack'[j].slot
  <2> SUFFICES ASSUME NEW i \in 1 .. n + 1, NEW j \in 1 .. n + 1, i < j
               PROVE  stack'[i].slot < stack'[j].slot
    OBVIOUS
  <2>1. i \in 1 .. n
    BY <1>1
  <2>2. CASE j = n + 1
    BY <1>6, <2>1, <2>2
  <2>3. CASE j # n + 1
    <3>1. j \in 1 .. n
      BY <1>1, <2>3
    <3> QED
      BY <1>2, <1>4, <2>1, <3>1
  <2> QED
    BY <2>2, <2>3
<1> QED
  BY <1>5, <1>7 DEF Ascending

(* Two live activations have different frames.                             *)
Key(S, i) == <<S[i].slot, Home[S[i].code]>>

LEMMA KeysDiffer ==
  ASSUME StackInv
  PROVE  \A i, j \in 1 .. Len(stack) : Key(stack, i) = Key(stack, j) => i = j
<1> SUFFICES ASSUME NEW i \in 1 .. Len(stack), NEW j \in 1 .. Len(stack), i # j
             PROVE  stack[i].slot # stack[j].slot
  BY DEF Key
<1>1. stack[i].slot \in Nat /\ stack[j].slot \in Nat /\ Len(stack) \in Nat
  BY TopTyped DEF Activations
<1>2. i < j \/ j < i
  BY <1>1
<1>3. \A m, n \in 1 .. Len(stack) : m < n => stack[m].slot < stack[n].slot
  BY DEF StackInv, Ascending
<1>4. stack[i].slot < stack[j].slot \/ stack[j].slot < stack[i].slot
  BY <1>2, <1>3
<1> QED
  BY <1>1, <1>4

(* The stack is a stack of activations after every step.                   *)
LEMMA StackStep == StackInv /\ [Next]_vars => StackInv'
<1> SUFFICES ASSUME StackInv, [Next]_vars
             PROVE  StackInv'
  OBVIOUS
<1> DEFINE n == Len(stack)
<1>1. /\ n \in Nat \ {0} /\ n \in 1 .. MaxDepth /\ MaxDepth \in Nat
      /\ Top \in Activations /\ ActOK(Top)
      /\ \A i \in 1 .. n : ActOK(stack[i]) /\ stack[i] \in Activations
      /\ \A i \in 1 .. n - 1 : stack[i].at = "done"
      /\ enabled \in BOOLEAN /\ throwing \in BOOLEAN
  BY TopTyped, ProgramAssumption DEF StackInv
<1>2. ASSUME NEW act \in Activations, ActOK(act), Becomes(act), enabled' \in BOOLEAN,
             throwing' \in BOOLEAN, throwing' => act.at \in {"run", "done"},
             act.slot = Top.slot
      PROVE  StackInv'
  <2>1. /\ stack' \in Seq(Activations) /\ Len(stack') = n
        /\ stack'[n] = act /\ Top' = act
        /\ \A i \in 1 .. n - 1 : stack'[i] = stack[i]
    BY <1>2, BecomesStack
  <2>2. \A i \in 1 .. n : stack'[i].slot = stack[i].slot
    BY <1>1, <1>2, <2>1 DEF Top
  <2>3. Ascending(stack)'
    BY <1>1, <2>1, <2>2, SameSlots
  <2> QED
    BY <1>1, <1>2, <2>1, <2>3 DEF StackInv
<1>3. ASSUME Len(stack) > 1, stack' = SubSeq(stack, 1, Len(stack) - 1),
             enabled' = enabled, throwing' = throwing
      PROVE  StackInv'
  <2>1. /\ stack' \in Seq(Activations) /\ Len(stack') = n - 1
        /\ Top' = stack[n - 1]
        /\ \A i \in 1 .. n - 1 : stack'[i] = stack[i]
    BY <1>3, PopStack
  <2>2. Top'.at = "done" /\ n - 1 \in 1 .. MaxDepth
    BY <1>1, <1>3, <2>1
  <2>3. Ascending(stack)'
    BY <1>1, <1>3, <2>1, SameSlots
  <2> QED
    BY <1>1, <1>3, <2>1, <2>2, <2>3 DEF StackInv
<1>4. ASSUME NEW k, k \in Flow[Top.code][Top.pc] \union Catch[Top.code][Top.pc], GoTo(k),
             enabled' = enabled, throwing' = FALSE
      PROVE  StackInv'
  <2>1. PICK w \in Seq(Nat) : /\ Becomes(Moved(Top, k, w))
                              /\ Moved(Top, k, w) \in Activations
                              /\ ActOK(Moved(Top, k, w))
    BY <1>4, GoToStack
  <2>2. Moved(Top, k, w).slot = Top.slot
    BY <1>1 DEF Moved, Activations
  <2> QED
    BY <1>1, <1>2, <1>4, <2>1, <2>2
<1>5. ASSUME Interrupt(Returned), enabled' \in BOOLEAN, throwing' = throwing
      PROVE  StackInv'
  <2>1. /\ Returned = Turned(Top, "done")
        /\ Turned(Top, "done") \in Activations /\ ActOK(Turned(Top, "done"))
        /\ Turned(Top, "done").at = "done"
        /\ Turned(Top, "done").slot = Top.slot
    BY <1>1, TurnedActivation DEF Returned, Turned
  <2>2. /\ stack' \in Seq(Activations) /\ Len(stack') = n
        /\ Top' = Broken(Returned)
        /\ \A i \in 1 .. n - 1 : stack'[i] = Broken(stack[i])
    BY <1>5, <2>1, InterruptStack
  <2>3. ASSUME NEW i \in 1 .. n - 1
        PROVE  ActOK(stack'[i]) /\ stack'[i].at = "done" /\ stack'[i].slot = stack[i].slot
    <3>1. stack[i] \in Activations /\ ActOK(stack[i]) /\ stack[i].at = "done"
      BY <1>1
    <3>2. ActOK(Broken(stack[i])) /\ Broken(stack[i]).at = "done"
          /\ Broken(stack[i]).slot = stack[i].slot
      BY <3>1, BrokenActivation
    <3> QED
      BY <2>2, <3>2
  <2>4. ActOK(Top') /\ Top'.at = "done" /\ Top' = stack'[n] /\ Top'.slot = stack[n].slot
    <3>1. /\ ActOK(Broken(Returned)) /\ Broken(Returned).at = "done"
          /\ Broken(Returned).slot = Top.slot
      BY <2>1, BrokenActivation
    <3>2. Top' = stack'[n] /\ Top = stack[n]
      BY <2>2 DEF Top
    <3> QED
      BY <2>2, <3>1, <3>2
  <2>5. Ascending(stack)'
    BY <1>1, <2>2, <2>3, <2>4, SameSlots
  <2> QED
    BY <1>1, <1>5, <2>2, <2>3, <2>4, <2>5 DEF StackInv
<1>6. ASSUME Becomes(Returned), enabled' \in BOOLEAN, throwing' = throwing
      PROVE  StackInv'
  <2>1. /\ Returned = Turned(Top, "done")
        /\ Turned(Top, "done") \in Activations /\ ActOK(Turned(Top, "done"))
        /\ Turned(Top, "done").at = "done"
        /\ Turned(Top, "done").slot = Top.slot
    BY <1>1, TurnedActivation DEF Returned, Turned
  <2> QED
    BY <1>1, <1>2, <1>6, <2>1
<1>7. CASE Run
  <2>1. /\ Becomes(Turned(Top, "run")) /\ enabled' = enabled /\ throwing' = throwing
    BY <1>7 DEF Run, Turned
  <2>2. /\ Turned(Top, "run") \in Activations /\ ActOK(Turned(Top, "run"))
        /\ Turned(Top, "run").at = "run" /\ Turned(Top, "run").slot = Top.slot
    BY <1>1, TurnedActivation
  <2> QED
    BY <1>1, <1>2, <2>1, <2>2
<1>8. ASSUME NEW c \in Codes, Call(c)
      PROVE  StackInv'
  <2>0. /\ Len(stack) < MaxDepth /\ ~throwing
        /\ enabled' = enabled /\ throwing' = throwing
        /\ \E ahead \in Ahead[Top.code] :
             stack' = Append([stack EXCEPT ![Len(stack)].at = "done"],
                             Activation(Top.slot + ahead, c, enabled))
    BY <1>8 DEF Call, InCall, pcovVars
  <2> PICK ahead \in Ahead[Top.code] :
             stack' = Append([stack EXCEPT ![Len(stack)].at = "done"],
                             Activation(Top.slot + ahead, c, enabled))
    BY <2>0
  <2>10. Top.slot \in Nat /\ Top.slot + ahead \in Nat /\ Top.slot < Top.slot + ahead
    BY <1>1, ProgramAssumption DEF Activations
  <2> DEFINE act == Activation(Top.slot + ahead, c, enabled)
  <2>1. act \in Activations /\ ActOK(act) /\ act.at = "new" /\ act.slot = Top.slot + ahead
    BY <1>1, <2>10, NewActivation
  <2>2. /\ stack' = Append([stack EXCEPT ![Len(stack)].at = "done"], act)
        /\ Len(stack) < MaxDepth /\ ~throwing
        /\ enabled' = enabled /\ throwing' = throwing
    BY <2>0
  <2> HIDE DEF act
  <2>3. /\ stack' \in Seq(Activations) /\ Len(stack') = n + 1 /\ Top' = act
        /\ stack'[n] = Turned(Top, "done")
        /\ \A i \in 1 .. n - 1 : stack'[i] = stack[i]
    BY <2>1, <2>2, PushStack DEF Turned
  <2>4. /\ ActOK(Turned(Top, "done")) /\ Turned(Top, "done").at = "done"
        /\ Turned(Top, "done").slot = Top.slot
    BY <1>1, TurnedActivation
  <2>5. \A i \in 1 .. n : ActOK(stack'[i]) /\ stack'[i].at = "done"
    BY <1>1, <2>3, <2>4
  <2>6. stack'[n + 1] = act
    BY <2>3 DEF Top
  <2>7. Len(stack') \in 1 .. MaxDepth
    BY <1>1, <2>2, <2>3
  <2>8. \A i \in 1 .. n + 1 : ActOK(stack'[i])
    BY <1>1, <2>1, <2>5, <2>6
  <2>9. \A i \in 1 .. Len(stack') - 1 : stack'[i].at = "done"
    BY <1>1, <2>3, <2>5
  <2>11. Ascending(stack)'
    <3>1. \A i \in 1 .. n : stack'[i].slot = stack[i].slot
      BY <1>1, <2>3, <2>4 DEF Top
    <3>2. stack'[Len(stack')].slot \in Nat /\ Top.slot < stack'[Len(stack')].slot
      BY <2>1, <2>3, <2>6, <2>10
    <3> QED
      BY <2>3, <3>1, <3>2, GrownSlots
  <2> QED
    BY <1>1, <2>2, <2>3, <2>7, <2>8, <2>9, <2>11 DEF StackInv
<1>9. ASSUME NEW k \in Flow[Top.code][Top.pc], Advance(k)
      PROVE  StackInv'
  BY <1>4, <1>9 DEF Advance, pcovVars, StackInv
<1>10. CASE Leave
  BY <1>3, <1>10 DEF Leave, pcovVars
<1>11. CASE Throw
  <2>1. stack' = stack /\ enabled' = enabled /\ throwing' = TRUE /\ Top.at \in {"run", "done"}
    BY <1>11 DEF Throw, pcovVars
  <2> QED
    BY <2>1 DEF StackInv, Top
<1>12. CASE Unwind
  <2>1. \/ \E k \in Catch[Top.code][Top.pc] : GoTo(k) /\ throwing' = FALSE
        \/ /\ Len(stack) > 1 /\ stack' = SubSeq(stack, 1, Len(stack) - 1)
           /\ throwing' = throwing
    BY <1>12 DEF Unwind
  <2>2. enabled' = enabled
    BY <1>12 DEF Unwind
  <2> QED
    BY <1>3, <1>4, <2>1, <2>2
<1>13. CASE php_pcov_start
  BY <1>1, <1>6, <1>13 DEF php_pcov_start
<1>14. CASE php_pcov_stop
  BY <1>1, <1>5, <1>14 DEF php_pcov_stop
<1>15. CASE php_pcov_clear
  BY <1>1, <1>5, <1>15 DEF php_pcov_clear
<1>16. CASE php_pcov_collect
  BY <1>1, <1>6, <1>16 DEF php_pcov_collect
<1>17. CASE UNCHANGED vars
  BY <1>17 DEF vars, pcovVars, engineVars, StackInv, Ascending, Top
<1>18. CASE Engine
  BY <1>18, <1>7, <1>8, <1>9, <1>10, <1>11, <1>12 DEF Engine
<1>19. CASE Script
  BY <1>19, <1>13, <1>14, <1>15, <1>16 DEF Script
<1> QED
  BY <1>17, <1>18, <1>19 DEF Next

-----------------------------------------------------------------------------
(* The types.                                                              *)

(* The frame RecordOpcode writes, at a branch start of its code.           *)
LEMMA RecordFrameOK ==
  ASSUME NEW f, IsFrame(f), FrameOK(f), NEW pc \in Starts[f.cache], pc # NONE
  PROVE  /\ FrameOK(Renewed(f, pc)) /\ Renewed(f, pc).cache = f.cache
         /\ FrameOK(php_pcov_frame_append(Renewed(f, pc), pc))
<1> DEFINE g == Renewed(f, pc)
           h == php_pcov_frame_append(g, pc)
           S == Starts[f.cache]
<1>1. /\ IsFrame(g) /\ g.cache = f.cache
      /\ g.seq = (IF Reentered(f, pc) THEN <<>> ELSE f.seq)
      /\ g.last = (IF Reentered(f, pc) THEN NONE ELSE f.last)
  BY RenewedFrame
<1>2. FrameOK(g)
  <2> HIDE DEF g
  <2>1. <<>> \in Seq(S)
    OBVIOUS
  <2> QED
    BY <1>1, <2>1 DEF FrameOK
<1>3. /\ h.cache = f.cache /\ h.last = pc
      /\ h.seq = (IF g.last = pc THEN g.seq ELSE Append(g.seq, pc))
  BY <1>1, AppendedFrame
<1> HIDE DEF g, h
<1>4. CASE g.last = pc
  BY <1>1, <1>2, <1>3, <1>4 DEF FrameOK, g, h
<1>5. CASE g.last # pc
  <2>1. g.seq \in Seq(S)
    BY <1>1, <1>2 DEF FrameOK
  <2>2. /\ Append(g.seq, pc) \in Seq(S) /\ Append(g.seq, pc) # <<>>
        /\ LastOf(Append(g.seq, pc)) = pc
    BY <2>1, LastAppended
  <2>3. FrameOK(h)
    BY <1>1, <1>2, <1>3, <1>5, <2>2 DEF FrameOK
  <2> QED
    BY <1>1, <1>2, <2>3 DEF g, h
<1> QED
  BY <1>4, <1>5

(* The edge it records starts at a branch of the code.                     *)
LEMMA TraversedTyped ==
  ASSUME NEW f, FrameOK(f), NEW hits, NEW pc
  PROVE  EdgesOf(f.cache, TraversedEdges(f, hits, pc))
<1>1. f.last # NONE => f.last \in Starts[f.cache]
  BY LastOfSeq DEF FrameOK
<1> QED
  BY <1>1 DEF EdgesOf, TraversedEdges

(* The hook keeps what it records with the code it is about.               *)
LEMMA TraceEntries ==
  ASSUME FInv, EntriesOK(reached), FramesOK(frames), NEW pc, php_pcov_trace(pc)
  PROVE  /\ EntriesOK(reached') /\ FramesOK(frames')
         /\ DOMAIN frames' \subseteq DOMAIN frames \union {TopKey}
<1>1. CASE ~(enabled /\ Top.code \in Traced)
  BY <1>1 DEF php_pcov_trace
<1>2. CASE enabled /\ Top.code \in Traced
  <2>1. PICK F, R : /\ Sound(F, R) /\ TopKey \in DOMAIN F
                    /\ RecordOpcode(F, R, TopKey, pc)
                    /\ FoundIn(F, R) \/ PushedOn(F, R)
    BY <1>2, TraceSplit
  <2>2. /\ EntriesOK(R) /\ FramesOK(F)
        /\ DOMAIN F \subseteq DOMAIN frames \union {TopKey}
    <3>1. CASE FoundIn(F, R)
      <4>0. Below(TopKey) \in SUBSET DOMAIN frames /\ F = Compact(frames, Below(TopKey))
        BY <3>1 DEF FoundIn, Below
      <4>1. DOMAIN F \subseteq DOMAIN frames
        BY <4>0 DEF Compact
      <4>4. FramesOK(F)
        BY <4>0, CompactSound, FramesSame DEF FInv
      <4>2. \A b \in DOMAIN reached : IsEntry(reached[b])
        BY DEF FInv, Sound
      <4>3. EntriesOK(R)
        BY <3>1, <4>2, FinalizeEntries DEF FoundIn
      <4> QED
        BY <4>1, <4>3, <4>4
    <3>2. CASE PushedOn(F, R)
      <4>1. R = php_pcov_reached_get(Top.code)
        BY <3>2 DEF PushedOn
      <4>2. \A b \in DOMAIN R :
              \/ b \in DOMAIN reached /\ R[b] = reached[b]
              \/ b = Home[Top.code] /\ R[b] = EmptyEntry(Top.code)
        BY <4>1 DEF php_pcov_reached_get
      <4>3. EntriesOK(R)
        BY <4>2, <1>2 DEF EntriesOK, EmptyEntry, EdgesOf
      <4>4. FrameOK(F[TopKey])
        <5>1. /\ F[TopKey].cache = R[Home[Top.code]].code
              /\ F[TopKey].seq = <<>> /\ F[TopKey].last = NONE
          BY <3>2 DEF PushedOn
        <5>2. R[Home[Top.code]].code \in Codes
          BY <4>1, <4>3, ProgramAssumption DEF EntriesOK, php_pcov_reached_get
        <5> QED
          BY <5>1, <5>2 DEF FrameOK
      <4>5. \A h \in DOMAIN F \ {TopKey} : h \in DOMAIN frames /\ SameRecord(F[h], frames[h])
        BY <3>2 DEF PushedOn
      <4>6. FramesOK(F)
        BY <4>4, <4>5 DEF FramesOK, FrameOK, SameRecord
      <4> QED
        BY <3>2, <4>3, <4>6 DEF PushedOn
    <3> QED
      BY <2>1, <3>1, <3>2
  <2> DEFINE k == TopKey
             a == k[2]
             R1 == Closed(F, R, k, pc)
  <2>3. /\ IsFrame(F[k]) /\ a \in DOMAIN R /\ F[k].cache = R[a].code
        /\ FrameOK(F[k])
    BY <2>1, <2>2 DEF Sound, FramesOK
  <2>4. DOMAIN frames' = DOMAIN F
    BY <2>1, <2>3, RecordFrames
  <2>5. CASE pc \in Starts[F[k].cache]
    <3>1. EntriesOK(R1) /\ \A b \in DOMAIN R : R1[b].code = R[b].code
      <4>1. {k} \in SUBSET DOMAIN F /\ \A b \in DOMAIN R : IsEntry(R[b])
        BY <2>1 DEF Sound
      <4> HIDE DEF k, R1
      <4>2. EntriesOK(php_pcov_frame_finalize(F, R, {k}))
        BY <2>2, <4>1, FinalizeEntries
      <4>3. \A b \in DOMAIN R : php_pcov_frame_finalize(F, R, {k})[b].code = R[b].code
        BY <4>1, FinalizeFields
      <4> QED
        BY <2>2, <4>2, <4>3 DEF Closed, R1
    <3>2. /\ DOMAIN R1 = DOMAIN R /\ DOMAIN reached' = DOMAIN R
          /\ \A b \in DOMAIN R : b # a => reached'[b] = R1[b]
          /\ reached'[a].code = R1[a].code
          /\ reached'[a].hits = R1[a].hits \union {pc}
          /\ reached'[a].paths = R1[a].paths
          /\ reached'[a].edges = R1[a].edges \union
               TraversedEdges(Renewed(F[k], pc), R1[a].hits, pc)
          /\ frames' = [F EXCEPT ![k] = php_pcov_frame_append(Renewed(F[k], pc), pc)]
      <4>1. /\ k \in DOMAIN F /\ Sound(F, R) /\ RecordOpcode(F, R, k, pc)
            /\ pc \in Starts[F[k].cache]
        BY <2>1, <2>5
      <4>2. Recorded(F, R, k, pc, Renewed(F[k], pc), R1)
        BY <4>1, RecordStart
      <4> HIDE DEF k, R1
      <4> QED
        BY <4>2 DEF Recorded
    <3>5. pc # NONE
      BY <2>3, <2>5, ProgramAssumption DEF FrameOK, NONE
    <3>6. /\ FrameOK(Renewed(F[k], pc)) /\ Renewed(F[k], pc).cache = F[k].cache
          /\ FrameOK(php_pcov_frame_append(Renewed(F[k], pc), pc))
      BY <2>3, <2>5, <3>5, RecordFrameOK
    <3>7. EdgesOf(R[a].code, TraversedEdges(Renewed(F[k], pc), R1[a].hits, pc))
      BY <2>3, <3>6, TraversedTyped
    <3>8. FramesOK(frames')
      <4> HIDE DEF k
      <4> QED
        BY <2>2, <3>2, <3>6 DEF FramesOK
    <3>3. EntriesOK(reached')
      <4> DEFINE T == TraversedEdges(Renewed(F[k], pc), R1[a].hits, pc)
      <4>3. /\ reached'[a].edges = R1[a].edges \union T /\ EdgesOf(R[a].code, T)
        BY <3>2, <3>7
      <4> HIDE DEF R1, k, a, T
      <4>1. \A b \in DOMAIN R : b # a => reached'[b] = R1[b]
        BY <3>2
      <4>2. R1[a].hits \union {pc} \subseteq Starts[R1[a].code]
        BY <2>3, <2>5, <3>1, <3>2 DEF EntriesOK
      <4>4. EdgesOf(R1[a].code, reached'[a].edges)
        BY <2>3, <3>1, <3>2, <4>3 DEF EntriesOK, EdgesOf
      <4>5. \A b \in DOMAIN R : reached'[b].code = R1[b].code /\ reached'[b].paths = R1[b].paths
        BY <3>2, <4>1
      <4>6. \A b \in DOMAIN R : b # a => reached'[b].hits = R1[b].hits
                                       /\ reached'[b].edges = R1[b].edges
        BY <4>1
      <4>7. \A b \in DOMAIN R : reached'[b].hits \subseteq Starts[R1[b].code]
        BY <3>1, <3>2, <4>2, <4>6 DEF EntriesOK
      <4>8. \A b \in DOMAIN R : EdgesOf(R1[b].code, reached'[b].edges)
        BY <3>1, <3>2, <4>4, <4>6 DEF EntriesOK
      <4> QED
        BY <3>1, <3>2, <4>5, <4>7, <4>8 DEF EntriesOK
    <3> QED
      BY <2>2, <2>4, <3>3, <3>8
  <2>6. CASE pc \notin Starts[F[k].cache]
    <3>1. reached' = R /\ frames' = F
      BY <2>1, <2>3, <2>6, RecordElsewhere
    <3> QED
      BY <2>2, <2>4, <3>1
  <2> QED
    BY <2>5, <2>6
<1> QED
  BY <1>1, <1>2

(* So do the API functions that write or drop entries.                     *)
LEMMA CollectEntries ==
  ASSUME FInv, EntriesOK(reached), FramesOK(frames), php_pcov_collect
  PROVE  EntriesOK(reached') /\ FramesOK(frames')
<1> DEFINE kept  == {k \in DOMAIN frames : php_pcov_frame_is_live(k)}
           R     == php_pcov_frame_finalize(frames, reached, DOMAIN frames \ kept)
           built == {c \in loaded \intersect Traced :
                       Home[c] \notin DOMAIN reached \/ Stale(c)}
<1>1. EntriesOK(R)
  BY FinalizeEntries DEF FInv, Sound
<1>2. reached' = [a \in DOMAIN R \union {Home[c] : c \in built} |->
                    IF \E c \in built : Home[c] = a
                    THEN EmptyEntry(CHOOSE c \in built : Home[c] = a)
                    ELSE R[a]]
  BY DEF php_pcov_collect
<1>3. ASSUME NEW a \in DOMAIN reached'
      PROVE  \/ a \in DOMAIN R /\ reached'[a] = R[a]
             \/ \E c \in Traced : Home[c] = a /\ reached'[a] = EmptyEntry(c)
  <2> HIDE DEF R
  <2>1. CASE \E c \in built : Home[c] = a
    <3>1. (CHOOSE c \in built : Home[c] = a) \in Traced
          /\ Home[CHOOSE c \in built : Home[c] = a] = a
      BY <2>1
    <3> QED
      BY <1>2, <2>1, <3>1
  <2>2. CASE ~\E c \in built : Home[c] = a
    BY <1>2, <1>3, <2>2
  <2> QED
    BY <2>1, <2>2
<1>4. FramesOK(frames')
  <2> DEFINE F == Compact(frames, kept)
             A == {Home[c] : c \in built} \intersect DOMAIN reached
  <2>1. frames' = php_pcov_frames_detach_cache(F, A)
    BY DEF php_pcov_collect
  <2>2. Sound(F, reached) /\ DOMAIN F = kept /\ \A k \in kept : SameRecord(F[k], frames[k])
    BY CompactSound DEF FInv
  <2>3. FramesOK(F)
    <3> HIDE DEF F
    <3> QED
      BY <2>2, FramesSame
  <2> HIDE DEF F, A
  <2>4. \A k \in DOMAIN frames' : k \in DOMAIN F /\ SameRecord(frames'[k], F[k])
    BY <2>1, <2>2, DetachSound
  <2> QED
    BY <2>3, <2>4, FramesSame
<1>5. EntriesOK(reached')
  <2> HIDE DEF R
  <2> QED
    BY <1>1, <1>3 DEF EntriesOK, EmptyEntry, EdgesOf
<1> QED
  BY <1>4, <1>5

TInv ==
  /\ StackInv /\ FInv /\ EntriesOK(reached) /\ FramesOK(frames)
  /\ loaded \subseteq Kept
  /\ DOMAIN frames \subseteq Nat \X Addrs

LEMMA TypesStep == TInv /\ [Next]_vars => TInv'
<1> SUFFICES ASSUME TInv, [Next]_vars
             PROVE  TInv'
  OBVIOUS
<1>1. StackInv' /\ FInv'
  BY StackStep, FStep DEF TInv
<1>2. Top.slot \in Nat /\ Top.code \in Codes
  BY TopTyped DEF TInv, Activations
<1>3. TopKey \in Nat \X Addrs
  BY <1>2 DEF TopKey, Addrs
<1> DEFINE Rest == /\ EntriesOK(reached') /\ FramesOK(frames')
                   /\ loaded' \subseteq Kept
                   /\ DOMAIN frames' \subseteq Nat \X Addrs
<1> SUFFICES Rest
  BY <1>1 DEF TInv
<1>4. ASSUME NEW pc, php_pcov_trace(pc), loaded' = loaded
      PROVE  Rest
  BY <1>3, <1>4, TraceEntries DEF TInv
<1>5. ASSUME reached' = reached, frames' = frames, loaded' \subseteq Kept
      PROVE  Rest
  BY <1>5 DEF TInv
<1>6. CASE Run
  BY <1>4, <1>6 DEF Run
<1>7. ASSUME NEW c \in Codes, Call(c)
      PROVE  Rest
  BY <1>5, <1>7 DEF Call, pcovVars, TInv
<1>8. ASSUME NEW n, Advance(n)
      PROVE  Rest
  BY <1>5, <1>8 DEF Advance, pcovVars, TInv
<1>9. CASE Leave
  BY <1>5, <1>9 DEF Leave, pcovVars, TInv
<1>10. CASE Throw
  BY <1>5, <1>10 DEF Throw, pcovVars, TInv
<1>11. CASE Unwind
  BY <1>4, <1>11 DEF Unwind
<1>12. CASE php_pcov_start
  BY <1>5, <1>12 DEF php_pcov_start, TInv
<1>13. CASE php_pcov_stop
  <2> DEFINE kept == {k \in DOMAIN frames : php_pcov_frame_is_live(k)}
  <2>0. /\ frames' = Compact(frames, kept) /\ kept \in SUBSET DOMAIN frames
        /\ reached' = php_pcov_frame_finalize(frames, reached, DOMAIN frames \ kept)
    BY <1>13 DEF php_pcov_stop, php_pcov_frames_finalize_returned
  <2>1. EntriesOK(reached')
    BY <2>0, FinalizeEntries DEF TInv, FInv, Sound
  <2>3. FramesOK(frames')
    BY <2>0, CompactSound, FramesSame DEF TInv, FInv
  <2>2. DOMAIN frames' \subseteq DOMAIN frames /\ loaded' = loaded
    BY <1>13 DEF php_pcov_stop, php_pcov_frames_finalize_returned, Compact
  <2> QED
    BY <2>1, <2>2, <2>3 DEF TInv
<1>14. CASE php_pcov_clear
  BY <1>14 DEF php_pcov_clear, TInv, EntriesOK, FramesOK
<1>15. CASE php_pcov_collect
  <2>1. EntriesOK(reached') /\ FramesOK(frames')
    BY <1>15, CollectEntries DEF TInv
  <2>2. DOMAIN frames' \subseteq DOMAIN frames /\ loaded' = loaded
    BY <1>15 DEF php_pcov_collect, php_pcov_frames_detach_cache, Compact
  <2> QED
    BY <2>1, <2>2 DEF TInv
<1>16. CASE UNCHANGED vars
  BY <1>5, <1>16 DEF vars, pcovVars, engineVars, TInv
<1> HIDE DEF Rest
<1>17. CASE Engine
  BY <1>17, <1>6, <1>7, <1>8, <1>9, <1>10, <1>11 DEF Engine
<1>18. CASE Script
  BY <1>18, <1>12, <1>13, <1>14, <1>15 DEF Script
<1> QED
  BY <1>16, <1>17, <1>18 DEF Next

LEMMA TypesInit == Init => TInv
<1> SUFFICES ASSUME Init
             PROVE  TInv
  OBVIOUS
<1> DEFINE act == Activation(1, Main, FALSE)
<1>1. act \in Activations /\ ActOK(act)
  BY NewActivation, ProgramAssumption
<1>2. stack = <<act>> /\ throwing = FALSE /\ enabled = FALSE
  BY DEF Init
<1> HIDE DEF act
<1>3. StackInv
  <2>1. stack \in Seq(Activations) /\ Len(stack) = 1 /\ stack[1] = act
    BY <1>1, <1>2
  <2>2. 1 \in 1 .. MaxDepth
    BY ProgramAssumption
  <2>3. /\ \A i \in 1 .. Len(stack) : ActOK(stack[i])
        /\ \A i \in 1 .. Len(stack) - 1 : stack[i].at = "done"
        /\ Ascending(stack)
    BY <1>1, <2>1 DEF Ascending
  <2> QED
    BY <1>2, <2>1, <2>2, <2>3 DEF StackInv
<1>4. /\ EntriesOK(reached) /\ FramesOK(frames) /\ DOMAIN frames = {}
      /\ loaded \subseteq Kept
  BY DEF Init, EntriesOK, FramesOK
<1> QED
  BY <1>3, <1>4, FInit DEF TInv

(* Hits are branch starts, paths enumerated paths and edges out-edges of   *)
(* the very code whose entry they are recorded in, and a frame holds       *)
(* branches of the code its cache is of: no eviction, no reuse of an       *)
(* address and no frame left behind mixes the records of two op_arrays.    *)
THEOREM TypesCorrect == Spec => []TypeOK
<1>1. TInv => TypeOK
  <2> SUFFICES ASSUME TInv
               PROVE  TypeOK
    OBVIOUS
  <2>1. /\ DOMAIN reached \subseteq Addrs
        /\ \A a \in DOMAIN reached :
             /\ reached[a].code \in Codes
             /\ reached[a].hits \subseteq Starts[reached[a].code]
             /\ reached[a].paths \subseteq Paths[reached[a].code]
             /\ \A e \in reached[a].edges :
                  e[1] \in Starts[reached[a].code] /\ e[2] \in Outs[reached[a].code][e[1]]
    BY ProgramAssumption DEF TInv, EntriesOK, EdgesOf, Addrs
  <2>2. \A k \in DOMAIN frames :
          /\ frames[k].cache \in Codes
          /\ frames[k].seq \in Seq(Starts[frames[k].cache])
          /\ frames[k].last = IF frames[k].seq = <<>> THEN NONE ELSE LastOf(frames[k].seq)
    BY DEF TInv, FramesOK, FrameOK
  <2> QED
    BY <2>1, <2>2 DEF TInv, StackInv, TypeOK
<1> QED
  BY <1>1, TypesInit, TypesStep, PTL DEF Spec

================================================================================
