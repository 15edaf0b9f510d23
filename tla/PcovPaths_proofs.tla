---------------------------- MODULE PcovPaths_proofs ----------------------------
(***************************************************************************)
(* Under which conditions on the program the exits and the paths that      *)
(* PcovFrames records are those of whole invocations.                      *)
(*                                                                         *)
(* The argument has two halves.  First, PCG(frames) mirrors the call       *)
(* stack: every live activation that has begun has its frame, in the order *)
(* of the call stack, and in it the branches it entered.  Second, a frame  *)
(* of no live invocation is one that has ended: what finishing it records  *)
(* was walked, and nothing else is lost when it goes.                      *)
(***************************************************************************)
EXTENDS PcovExact_proofs

Live(S, i) == i \in 2 .. Len(S) /\ S[i].code \in Traced

(* Who is traced is called by the script or by one who is traced.          *)
Contiguous(S) ==
  \A i, j \in 2 .. Len(S) : i < j /\ S[j].code \in Traced => S[i].code \in Traced

(* What an activation entered and what its frame holds of it: the hook has *)
(* not seen the branch start that control has just come to.                *)
Follows(act, f) ==
  CASE AtEntry(act) -> act.walk = <<act.pc>>
    [] act.at = "ready" /\ act.pc \in Starts[act.code] \ Entries[act.code] ->
         act.walk = IF f.last = act.pc THEN f.seq ELSE Append(f.seq, act.pc)
    [] OTHER -> act.walk = f.seq

(* Frame k of F is above those of the slots up to d, and of no other.      *)
Above(F, k, d) == \A h \in DOMAIN F : h[1] <= d <=> F[h].pos <= F[k].pos

Founded(S, F) ==
  \A i \in 2 .. Len(S) :
    S[i].code \in Traced /\ S[i].at # "new" =>
      /\ Key(S, i) \in DOMAIN F
      /\ Follows(S[i], F[Key(S, i)]) /\ Above(F, Key(S, i), S[i].slot)

(* The same when the hook has seen all.                                    *)
Standing(S, F) ==
  \A i \in 2 .. Len(S) :
    S[i].code \in Traced =>
      /\ Key(S, i) \in DOMAIN F
      /\ S[i].walk = F[Key(S, i)].seq /\ Above(F, Key(S, i), S[i].slot)

(* The slot of what the script calls: always the same where the script     *)
(* has never a call pending when it makes another.                         *)
Base == 1 + (CHOOSE a \in Ahead[Main] \union {1} : Ahead[Main] \subseteq {a})

Rooted(S) == S[1].slot = 1 /\ (2 \in 1 .. Len(S) => S[2].slot = Base)

(* A frame is of that slot, unless the script has called traced code.      *)
Near(S, F) == \A h \in DOMAIN F : h[1] > Base => Live(S, 2)

(* The hook has cut the stack down to the slot of the activation it saw.   *)
Cut(S, F) ==
  LET n == Len(S)
  IN  Live(S, n) =>
        /\ S[n].at = "run" => \A h \in DOMAIN F : h[1] <= S[n].slot
        /\ S[n].at = "new" =>
             \A h \in DOMAIN F : h[1] <= (IF n > 2 THEN S[n - 1].slot ELSE Base)

Entered(F) == \A h \in DOMAIN F : F[h].seq # <<>> /\ F[h].last = LastOf(F[h].seq)

PlaceInv ==
  /\ EdgeInv /\ Rooted(stack)
  /\ Contiguous(stack) /\ Near(stack, frames) /\ Cut(stack, frames) /\ Entered(frames)
  /\ enabled => Founded(stack, frames)

-----------------------------------------------------------------------------
(* Slots.                                                                  *)

LEMMA BaseTyped ==
  ASSUME NoArgumentCalls
  PROVE  Base \in Nat /\ \A a \in Ahead[Main] : 1 + a = Base
<1>1. Ahead[Main] \subseteq Nat \ {0}
  BY ProgramAssumption
<1>2. \E a \in Ahead[Main] \union {1} : Ahead[Main] \subseteq {a}
  BY DEF NoArgumentCalls
<1> DEFINE b == CHOOSE a \in Ahead[Main] \union {1} : Ahead[Main] \subseteq {a}
<1>3. b \in Ahead[Main] \union {1} /\ Ahead[Main] \subseteq {b}
  BY <1>2
<1>4. Base = 1 + b
  BY DEF Base
<1> HIDE DEF b
<1>5. b \in Nat /\ \A a \in Ahead[Main] : a = b
  BY <1>1, <1>3
<1> QED
  BY <1>4, <1>5

(* The slots of the stack: the base first, and then further and further.   *)
LEMMA SlotsOf ==
  ASSUME StackInv, Rooted(stack)
  PROVE  /\ \A i \in 1 .. Len(stack) : stack[i].slot \in Nat
         /\ \A i, j \in 1 .. Len(stack) : i < j => stack[i].slot < stack[j].slot
         /\ \A i \in 2 .. Len(stack) : i = 2 \/ stack[2].slot < stack[i].slot
         /\ Len(stack) >= 2 => stack[2].slot = Base
         /\ Top.slot = stack[Len(stack)].slot /\ Top.slot \in Nat
<1> DEFINE n == Len(stack)
<1>1. n \in Nat \ {0} /\ \A i \in 1 .. n : stack[i].slot \in Nat
  BY TopTyped DEF Activations
<1>2. \A i, j \in 1 .. n : i < j => stack[i].slot < stack[j].slot
  BY DEF StackInv, Ascending
<1>3. n >= 2 => stack[2].slot = Base
  BY <1>1 DEF Rooted
<1>4. Top.slot = stack[n].slot
  BY DEF Top
<1> HIDE DEF n
<1>5. \A i \in 2 .. n : i = 2 \/ stack[2].slot < stack[i].slot
  <2> SUFFICES ASSUME NEW i \in 2 .. n, i # 2
               PROVE  stack[2].slot < stack[i].slot
    OBVIOUS
  <2>1. 2 \in 1 .. n /\ i \in 1 .. n /\ 2 < i
    BY <1>1
  <2> QED
    BY <1>2, <2>1
<1> QED
  BY <1>1, <1>2, <1>3, <1>4, <1>5 DEF n

LEMMA RootedStep ==
  ASSUME NoArgumentCalls, StackInv, DriverInv, Rooted(stack), [Next]_vars
  PROVE  Rooted(stack')
<1>1. Len(stack) \in Nat \ {0}
  BY TopTyped
<1>2. CASE SameCodes(Len(stack))
  BY <1>1, <1>2 DEF SameCodes, Rooted
<1>3. CASE Len(stack) > 1 /\ SameCodes(Len(stack) - 1)
  BY <1>1, <1>3 DEF SameCodes, Rooted
<1>4. ASSUME NEW c \in Codes, Call(c)
      PROVE  Rooted(stack')
  <2> DEFINE n == Len(stack)
  <2>1. PICK ahead \in Ahead[Top.code] : Top'.slot = Top.slot + ahead
    BY <1>4, CallMoves
  <2>2. /\ Len(stack') = n + 1 /\ Top' = stack'[n + 1]
        /\ \A i \in 1 .. n - 1 : stack'[i] = stack[i]
        /\ stack'[n].slot = stack[n].slot
    BY <1>4, CallMoves DEF Top
  <2>3. n = 1 => stack'[2].slot = Base
    <3>1. n = 1 => Top.code = Main /\ Top.slot = 1
      BY DEF DriverInv, Rooted, Top
    <3> QED
      BY <2>1, <2>2, <3>1, BaseTyped
  <2>4. \A i \in 1 .. n : stack'[i].slot = stack[i].slot
    <3>1. \A i \in 1 .. n : i \in 1 .. n - 1 \/ i = n
      BY <1>1
    <3> QED
      BY <2>2, <3>1
  <2>5. stack[1].slot = 1 /\ (2 \in 1 .. n => stack[2].slot = Base)
    BY DEF Rooted
  <2>6. n \in Nat \ {0}
    BY <1>1
  <2> HIDE DEF n
  <2>7. 1 \in 1 .. n /\ (2 \in 1 .. n + 1 => 2 \in 1 .. n \/ n = 1)
    BY <2>6
  <2> QED
    BY <2>2, <2>3, <2>4, <2>5, <2>7 DEF Rooted
<1> QED
  BY <1>2, <1>3, <1>4, StepCodes

-----------------------------------------------------------------------------
(* The hook.                                                               *)

(* What a traced activation needs of the invariants.                       *)
LEMMA TracedTop ==
  ASSUME AllReceived, Driven, EdgeInv, Top.code \in Traced
  PROVE  /\ Len(stack) \in Nat /\ Len(stack) >= 2 /\ Live(stack, Len(stack))
         /\ ActOK(Top) /\ First[Top.code] = 0
         /\ 0 \in Entries[Top.code] /\ Entries[Top.code] \subseteq Starts[Top.code]
         /\ Starts[Top.code] \subseteq Nat
         /\ \A i \in 1 .. Len(stack) - 1 : stack[i].at = "done"
<1>1. /\ Len(stack) \in Nat \ {0} /\ Top.code \in Codes /\ ActOK(Top)
      /\ \A i \in 1 .. Len(stack) - 1 : stack[i].at = "done"
  BY TopTyped DEF EdgeInv, TInv, StackInv, Activations
<1>2. Len(stack) # 1
  BY DEF EdgeInv, DriverInv, Driven, StoppedOutside, Top
<1>3. Len(stack) \in Nat /\ Len(stack) >= 2
  <2> DEFINE n == Len(stack)
  <2>1. n \in Nat \ {0} /\ n # 1
    BY <1>1, <1>2
  <2> HIDE DEF n
  <2>2. n \in Nat /\ n >= 2
    BY <2>1
  <2> QED
    BY <2>2 DEF n
<1>4. Live(stack, Len(stack))
  BY <1>3 DEF Live, Top
<1> QED
  BY <1>1, <1>3, <1>4, ProgramAssumption DEF AllReceived

(* The frame the hook has written holds the walk of its activation.        *)
LEMMA HookSequence ==
  ASSUME OwnAddresses, AllReceived, Driven, PlaceInv, enabled, Top.code \in Traced,
         NEW pc, php_pcov_trace(pc),
         \/ Top.at \in {"new", "ready"} /\ pc = Top.pc
         \/ Top.at \in {"run", "done"} /\ pc = NONE
  PROVE  /\ frames'[TopKey].seq = Top.walk /\ frames'[TopKey].seq # <<>>
         /\ frames'[TopKey].last = LastOf(frames'[TopKey].seq)
         /\ TopKey \in DOMAIN frames /\ pc \in Entries[Top.code] =>
              Reentered(Placed[TopKey], pc)
<1> DEFINE c == Top.code
           k == TopKey
           w == Top.walk
           old == Placed[k]
           f == Renewed(old, pc)
           new == frames'[k]
<1>1. EdgeInv /\ TInv /\ OInv
  BY DEF PlaceInv, EdgeInv
<1>2. /\ ActOK(Top) /\ First[c] = 0 /\ Len(stack) \in 2 .. Len(stack)
      /\ 0 \in Entries[c] /\ Entries[c] \subseteq Starts[c] /\ Starts[c] \subseteq Nat
  BY <1>1, TracedTop
<1>3. HookFrames(pc, f)
  BY <1>1, HookEffect
<1>4. /\ IsFrame(old) /\ old.cache = c /\ k = Key(stack, Len(stack))
      /\ k \notin DOMAIN frames => old = Fresh
      /\ k \in DOMAIN frames => old = frames[k]
  BY <1>1, PlacedFrame
<1>5. /\ f.seq = (IF Reentered(old, pc) THEN <<>> ELSE old.seq)
      /\ f.last = (IF Reentered(old, pc) THEN NONE ELSE old.last)
  BY <1>4, RenewedFrame
<1>6. IF pc \in Starts[c]
      THEN new.last = pc /\ new.seq = IF f.last = pc THEN f.seq ELSE Append(f.seq, pc)
      ELSE new.last = old.last /\ new.seq = old.seq
  BY <1>3 DEF HookFrames
<1>7. k \in DOMAIN frames =>
        /\ old.seq \in Seq(Nat) /\ old.seq # <<>> /\ old.last = LastOf(old.seq)
  BY <1>1, <1>4 DEF PlaceInv, EdgeInv, Sequenced, Entered
<1>8. k \notin DOMAIN frames => old.seq = <<>> /\ old.last = NONE
  BY <1>4 DEF Fresh
<1> HIDE DEF old, f, new, k
<1>9. CASE pc \in Entries[c]
  <2>1. f.seq = <<>> /\ f.last = NONE /\ (k \in DOMAIN frames => Reentered(old, pc))
    BY <1>4, <1>5, <1>7, <1>8, <1>9 DEF Reentered
  <2>2. pc \in Nat /\ pc # NONE /\ pc \in Starts[c]
    BY <1>2, <1>9 DEF NONE
  <2>3. new.last = pc /\ new.seq = <<pc>>
    BY <1>6, <2>1, <2>2
  <2>4. w = <<pc>>
    BY <1>2, <1>9, <2>2 DEF ActOK, AtEntry
  <2> QED
    BY <2>1, <2>3, <2>4 DEF LastOf, new, old, k
<1>10. CASE pc \notin Entries[c]
  <2>1. Top.at # "new" /\ ~AtEntry(Top)
    BY <1>2, <1>10 DEF ActOK, AtEntry
  <2>2. k \in DOMAIN frames /\ Follows(Top, frames[k])
    BY <1>2, <1>4, <2>1 DEF PlaceInv, Founded, Top
  <2>3. ~Reentered(old, pc) /\ f.seq = old.seq /\ f.last = old.last /\ old = frames[k]
    BY <1>4, <1>5, <1>10, <2>2 DEF Reentered
  <2>4. CASE pc \in Starts[c]
    <3>1. Top.at = "ready" /\ pc = Top.pc /\ pc \in Nat
      BY <1>2, <2>1, <2>4 DEF NONE
    <3>2. w = IF old.last = pc THEN old.seq ELSE Append(old.seq, pc)
      BY <1>10, <2>1, <2>2, <2>3, <2>4, <3>1 DEF Follows
    <3>3. new.seq = w /\ new.last = pc
      BY <1>6, <2>3, <2>4, <3>2
    <3>4. w # <<>> /\ pc = LastOf(w)
      BY <1>7, <2>2, <3>1, <3>2 DEF LastOf
    <3> QED
      BY <1>10, <3>3, <3>4 DEF new, k
  <2>5. CASE pc \notin Starts[c]
    <3>1. ~(Top.at = "ready" /\ Top.pc \in Starts[c] \ Entries[c])
      BY <2>5
    <3>2. w = frames[k].seq
      BY <2>1, <2>2, <3>1 DEF Follows
    <3> QED
      BY <1>6, <1>7, <1>10, <2>2, <2>3, <2>5, <3>2 DEF new, k
  <2> QED
    BY <2>4, <2>5
<1> QED
  BY <1>9, <1>10

(* Which frames the hook leaves, and where its own is among them.          *)
LEMMA HookCuts ==
  ASSUME OwnAddresses, AllReceived, Driven, PlaceInv, enabled, Top.code \in Traced,
         NEW pc, php_pcov_trace(pc)
  PROVE  /\ TopKey \in DOMAIN frames'
         /\ \A h \in DOMAIN frames' :
              /\ h \in DOMAIN frames \union {TopKey}
              /\ h[1] <= Top.slot /\ frames'[h].pos <= frames'[TopKey].pos
         /\ \A h, j \in DOMAIN frames' :
              h # TopKey /\ j # TopKey =>
                (frames'[h].pos <= frames'[j].pos <=> frames[h].pos <= frames[j].pos)
         /\ \A i \in 2 .. Len(stack) - 1 :
              stack[i].code \in Traced =>
                /\ Key(stack, i) \in DOMAIN frames'
                /\ ~(frames'[TopKey].pos <= frames'[Key(stack, i)].pos)
<1> DEFINE k == TopKey
           n == Len(stack)
           d == Top.slot
           f == Renewed(Placed[k], pc)
<1>1. EdgeInv /\ TInv /\ OInv /\ Ordered(frames) /\ StackInv /\ Rooted(stack)
      /\ DOMAIN frames \subseteq Nat \X Addrs
  BY DEF PlaceInv, EdgeInv, TInv, OInv
<1>2. /\ n \in Nat /\ n >= 2 /\ Live(stack, n) /\ d \in Nat /\ stack[n].slot = d
      /\ \A i \in 1 .. n - 1 : stack[i].at = "done"
      /\ \A i \in 1 .. n - 1 : stack[i].slot \in Nat /\ stack[i].slot < d
  <2>1. /\ n \in Nat /\ n >= 2 /\ Live(stack, n)
        /\ \A i \in 1 .. n - 1 : stack[i].at = "done"
    BY <1>1, TracedTop
  <2>2. /\ d \in Nat /\ stack[n].slot = d /\ \A i \in 1 .. n : stack[i].slot \in Nat
        /\ \A i, j \in 1 .. n : i < j => stack[i].slot < stack[j].slot
    BY <1>1, SlotsOf
  <2> HIDE DEF n, d
  <2>3. \A i \in 1 .. n - 1 : i \in 1 .. n /\ n \in 1 .. n /\ i < n
    BY <2>1
  <2> QED
    BY <2>1, <2>2, <2>3
<1>3. HookFrames(pc, f)
  BY <1>1, HookEffect
<1>4. /\ DOMAIN Placed = DOMAIN frames \union {k}
      /\ \A h \in DOMAIN frames : Placed[h] = frames[h]
      /\ k \notin DOMAIN frames => Placed[k] = Fresh
      /\ k = Key(stack, n) /\ k[1] = d
  BY <1>1, PlacedFrame DEF TopKey
<1>5. /\ \A h \in DOMAIN frames : frames[h].pos \in Nat /\ h[1] \in Nat
      /\ Placed[k].pos \in Nat
  <2>1. Cardinality(DOMAIN frames) + 1 \in Nat
    BY <1>1, FS_CardinalityType DEF Ordered
  <2> QED
    BY <1>1, <1>4, <2>1 DEF Ordered, Fresh
<1>6. k \notin DOMAIN frames =>
        Gone = {} /\ \A h \in DOMAIN frames : frames[h].pos < Placed[k].pos
  <2> SUFFICES ASSUME k \notin DOMAIN frames
               PROVE  Gone = {} /\ \A h \in DOMAIN frames : frames[h].pos < Placed[k].pos
    OBVIOUS
  <2>1. Gone = {} /\ Placed[k].pos = Cardinality(DOMAIN frames) + 1
    BY <1>4 DEF Gone, Fresh
  <2>2. Cardinality(DOMAIN frames) \in Nat
    BY <1>1, FS_CardinalityType DEF Ordered
  <2>3. \A h \in DOMAIN frames : frames[h].pos \in 1 .. Cardinality(DOMAIN frames)
    BY <1>1 DEF Ordered
  <2> QED
    BY <2>1, <2>2, <2>3
<1>7. k \in DOMAIN frames =>
        \A h \in DOMAIN frames : h \notin Gone <=> frames[h].pos <= frames[k].pos
  <2> SUFFICES ASSUME k \in DOMAIN frames, NEW h \in DOMAIN frames
               PROVE  h \notin Gone <=> frames[h].pos <= frames[k].pos
    OBVIOUS
  <2>1. h \notin Gone <=> h = k \/ frames[h].pos < frames[k].pos
    BY DEF Gone, Below
  <2>2. frames[h].pos = frames[k].pos => h = k
    BY <1>1 DEF Ordered
  <2> HIDE DEF k
  <2> QED
    BY <1>5, <2>1, <2>2
<1>8. \A h \in DOMAIN frames : h \notin Gone => h[1] <= d
  <2>1. CASE Top.at = "new"
    <3>1. \A h \in DOMAIN frames : h[1] <= (IF n > 2 THEN stack[n - 1].slot ELSE Base)
      BY <1>2, <2>1 DEF PlaceInv, Cut, Top
    <3>2. n = 2 => d = Base
      BY <1>1, <1>2, SlotsOf
    <3>3. n > 2 => stack[n - 1].slot \in Nat /\ stack[n - 1].slot < d
      BY <1>2
    <3> HIDE DEF n, d
    <3> QED
      BY <1>2, <1>5, <3>1, <3>2, <3>3
  <2>2. CASE Top.at # "new"
    <3>1. k \in DOMAIN frames /\ Above(frames, k, d)
      BY <1>2, <1>4, <2>2 DEF PlaceInv, Founded, Live, Top
    <3> QED
      BY <1>7, <3>1 DEF Above
  <2> QED
    BY <2>1, <2>2
<1>9. ASSUME NEW i \in 2 .. n - 1, stack[i].code \in Traced
      PROVE  /\ Key(stack, i) \in DOMAIN frames /\ Key(stack, i) \notin Gone
             /\ Key(stack, i) # k
             /\ k \in DOMAIN frames => ~(frames[k].pos <= frames[Key(stack, i)].pos)
  <2> DEFINE j == Key(stack, i)
  <2>1. /\ i \in 2 .. n /\ stack[i].at = "done"
        /\ stack[i].slot \in Nat /\ stack[i].slot < d
    <3>1. i \in 2 .. n /\ i \in 1 .. n - 1
      BY <1>2, <1>9
    <3> QED
      BY <1>2, <3>1
  <2>2. j \in DOMAIN frames /\ Above(frames, j, stack[i].slot) /\ j[1] = stack[i].slot
    BY <1>9, <2>1 DEF PlaceInv, Founded, Key
  <2> HIDE DEF n, j, k, d
  <2>3. j # k
    BY <1>2, <1>4, <2>1, <2>2
  <2>4. k \in DOMAIN frames => ~(frames[k].pos <= frames[j].pos)
    BY <1>2, <1>4, <2>1, <2>2 DEF Above
  <2>5. j \notin Gone
    <3>1. CASE k \in DOMAIN frames
      BY <1>5, <1>7, <2>2, <2>4, <3>1 DEF k
    <3>2. CASE k \notin DOMAIN frames
      BY <1>6, <3>2 DEF k
    <3> QED
      BY <3>1, <3>2
  <2> QED
    BY <2>2, <2>3, <2>4, <2>5 DEF j
<1>10. /\ DOMAIN frames' = (DOMAIN frames \union {k}) \ Gone /\ k \in DOMAIN frames'
       /\ \A h, j \in DOMAIN frames' :
            frames'[h].pos <= frames'[j].pos <=> Placed[h].pos <= Placed[j].pos
  BY <1>3, <1>4 DEF HookFrames, SameOrder
<1> HIDE DEF k, n, d, f
<1>11. ASSUME NEW h \in DOMAIN frames'
       PROVE  /\ h \in DOMAIN frames \union {k}
              /\ h[1] <= d /\ frames'[h].pos <= frames'[k].pos
  <2>1. h[1] <= d
    BY <1>2, <1>4, <1>8, <1>10
  <2>2. Placed[h].pos <= Placed[k].pos
    <3>1. CASE h = k
      BY <1>5, <3>1 DEF k
    <3>2. CASE h # k /\ k \in DOMAIN frames
      BY <1>4, <1>7, <1>10, <3>2 DEF k
    <3>3. CASE h # k /\ k \notin DOMAIN frames
      <4>1. h \in DOMAIN frames /\ Placed[h] = frames[h]
        BY <1>4, <1>10, <3>3
      <4>2. frames[h].pos < Placed[k].pos
        BY <1>6, <3>3, <4>1 DEF k
      <4> QED
        BY <1>5, <4>1, <4>2 DEF k
    <3> QED
      BY <3>1, <3>2, <3>3
  <2> QED
    BY <1>10, <2>1, <2>2
<1>12. \A h, j \in DOMAIN frames' :
         h # k /\ j # k =>
           (frames'[h].pos <= frames'[j].pos <=> frames[h].pos <= frames[j].pos)
  BY <1>4, <1>10
<1>13. ASSUME NEW i \in 2 .. n - 1, stack[i].code \in Traced
       PROVE  /\ Key(stack, i) \in DOMAIN frames'
              /\ ~(frames'[k].pos <= frames'[Key(stack, i)].pos)
  <2> DEFINE j == Key(stack, i)
  <2>1. /\ j \in DOMAIN frames /\ j \notin Gone /\ j # k
        /\ k \in DOMAIN frames => ~(frames[k].pos <= frames[j].pos)
    BY <1>9, <1>13
  <2> HIDE DEF j
  <2>2. j \in DOMAIN frames' /\ Placed[j] = frames[j]
    BY <1>4, <1>10, <2>1
  <2>3. ~(Placed[k].pos <= Placed[j].pos)
    <3>1. CASE k \in DOMAIN frames
      BY <1>4, <2>1, <2>2, <3>1
    <3>2. CASE k \notin DOMAIN frames
      <4>1. frames[j].pos < Placed[k].pos /\ frames[j].pos \in Nat
        BY <1>5, <1>6, <2>1, <3>2 DEF k
      <4> QED
        BY <1>5, <2>2, <4>1 DEF k
    <3> QED
      BY <3>1, <3>2
  <2> QED
    BY <1>10, <2>2, <2>3 DEF j
<1> QED
  BY <1>10, <1>11, <1>12, <1>13 DEF k, n, d

(* After the hook the frames stand as the call stack does.                 *)
LEMMA HookPlaces ==
  ASSUME OwnAddresses, AllReceived, Driven, PlaceInv, NEW pc, php_pcov_trace(pc),
         \/ Top.at \in {"new", "ready"} /\ pc = Top.pc
         \/ Top.at \in {"run", "done"} /\ pc = NONE
  PROVE  /\ enabled => Standing(stack, frames')
         /\ Near(stack, frames') /\ Entered(frames')
         /\ Live(stack, Len(stack)) => \A h \in DOMAIN frames' : h[1] <= Top.slot
<1> DEFINE k == TopKey
           n == Len(stack)
           d == Top.slot
<1>1. /\ EdgeInv /\ TInv /\ StackInv /\ Rooted(stack) /\ Near(stack, frames) /\ Entered(frames) /\ Contiguous(stack)
      /\ ~enabled => DOMAIN frames = {}
      /\ n \in Nat \ {0} /\ \A i \in 1 .. n - 1 : stack[i].at = "done"
  BY TopTyped DEF PlaceInv, EdgeInv, TInv, StackInv
<1>2. \A i \in 2 .. n - 1 : stack[i].code \in Traced /\ enabled =>
        /\ Key(stack, i) \in DOMAIN frames
        /\ stack[i].walk = frames[Key(stack, i)].seq
        /\ Above(frames, Key(stack, i), stack[i].slot)
  <2> SUFFICES ASSUME NEW i \in 2 .. n - 1, stack[i].code \in Traced, enabled
               PROVE  /\ Key(stack, i) \in DOMAIN frames
                      /\ stack[i].walk = frames[Key(stack, i)].seq
                      /\ Above(frames, Key(stack, i), stack[i].slot)
    OBVIOUS
  <2>1. i \in 2 .. n /\ i \in 1 .. n - 1
    BY <1>1
  <2> QED
    BY <1>1, <2>1 DEF PlaceInv, Founded, Follows, AtEntry
<1>3. CASE ~(enabled /\ Top.code \in Traced)
  <2>1. frames' = frames
    BY <1>3 DEF php_pcov_trace
  <2>2. CASE ~enabled
    BY <1>1, <2>1, <2>2
  <2>3. CASE Top.code \notin Traced
    <3>1. ~Live(stack, n)
      BY <2>3 DEF Live, Top
    <3>2. enabled => Standing(stack, frames)
      BY <1>1, <1>2, <2>3 DEF Standing, Top
    <3> QED
      BY <1>1, <2>1, <3>1, <3>2
  <2> QED
    BY <1>3, <2>2, <2>3
<1>4. CASE enabled /\ Top.code \in Traced
  <2>1. /\ k \in DOMAIN frames'
        /\ \A h \in DOMAIN frames' :
             /\ h \in DOMAIN frames \union {k}
             /\ h[1] <= d /\ frames'[h].pos <= frames'[k].pos
        /\ \A h, j \in DOMAIN frames' :
             h # k /\ j # k =>
               (frames'[h].pos <= frames'[j].pos <=> frames[h].pos <= frames[j].pos)
        /\ \A i \in 2 .. n - 1 :
             stack[i].code \in Traced =>
               /\ Key(stack, i) \in DOMAIN frames'
               /\ ~(frames'[k].pos <= frames'[Key(stack, i)].pos)
    BY <1>4, HookCuts
  <2>2. /\ frames'[k].seq = Top.walk /\ frames'[k].seq # <<>>
        /\ frames'[k].last = LastOf(frames'[k].seq)
    BY <1>4, HookSequence
  <2>3. \A h \in DOMAIN frames' : h # k =>
          frames'[h].seq = frames[h].seq /\ frames'[h].last = frames[h].last
    BY <1>1, <1>4, HookEffect DEF EdgeInv, HookFrames
  <2>4. /\ n \in Nat /\ n >= 2 /\ Live(stack, n) /\ d \in Nat /\ stack[n].slot = d
        /\ n = 2 => d = Base
    BY <1>1, <1>4, TracedTop, SlotsOf
  <2>5. k = Key(stack, n) /\ k[1] = d
    BY DEF TopKey, Key, Top
  <2> HIDE DEF k
  <2>6. Entered(frames')
    BY <1>1, <2>1, <2>2, <2>3 DEF Entered
  <2>7. Near(stack, frames')
    <3>1. n > 2 => Live(stack, 2)
      BY <1>1, <2>4 DEF Contiguous, Live
    <3> HIDE DEF n, d
    <3>2. d > Base => Live(stack, 2)
      BY <2>4, <3>1
    <3> QED
      BY <1>1, <2>1, <2>5, <3>2 DEF Near
  <2>8. Standing(stack, frames')
    <3> SUFFICES ASSUME NEW i \in 2 .. n, stack[i].code \in Traced
                 PROVE  /\ Key(stack, i) \in DOMAIN frames'
                        /\ stack[i].walk = frames'[Key(stack, i)].seq
                        /\ Above(frames', Key(stack, i), stack[i].slot)
      BY DEF Standing
    <3>1. CASE i = n
      <4>1. stack[i].walk = frames'[k].seq
        BY <2>2, <3>1 DEF Top
      <4>2. Above(frames', k, d)
        BY <2>1 DEF Above
      <4> QED
        BY <2>1, <2>4, <2>5, <3>1, <4>1, <4>2
    <3>2. CASE i # n
      <4> DEFINE j == Key(stack, i)
      <4> DEFINE e == stack[i].slot
      <4>1. i \in 2 .. n - 1 /\ e \in Nat /\ e < d
        <5>1. i \in 1 .. n /\ n \in 1 .. n /\ i < n /\ i \in 2 .. n - 1
          BY <2>4, <3>2
        <5> QED
          BY <1>1, <2>4, <5>1, SlotsOf
      <4>2. /\ j \in DOMAIN frames /\ stack[i].walk = frames[j].seq /\ Above(frames, j, e)
            /\ j \in DOMAIN frames' /\ ~(frames'[k].pos <= frames'[j].pos)
        BY <1>2, <1>4, <2>1, <4>1
      <4>3. j # k
        BY <2>4, <2>5, <4>1 DEF Key
      <4> HIDE DEF j, n, d, e
      <4>4. ASSUME NEW h \in DOMAIN frames'
            PROVE  h[1] <= e <=> frames'[h].pos <= frames'[j].pos
        <5>1. CASE h = k
          BY <2>4, <2>5, <4>1, <4>2, <5>1
        <5>2. CASE h # k
          <6>1. h \in DOMAIN frames /\ (h[1] <= e <=> frames[h].pos <= frames[j].pos)
            BY <2>1, <4>2, <5>2 DEF Above
          <6> QED
            BY <2>1, <4>2, <4>3, <5>2, <6>1
        <5> QED
          BY <5>1, <5>2
      <4> QED
        BY <2>3, <4>2, <4>3, <4>4 DEF Above, j, e
    <3> QED
      BY <3>1, <3>2
  <2> QED
    BY <2>1, <2>6, <2>7, <2>8
<1> QED
  BY <1>3, <1>4

-----------------------------------------------------------------------------
(* The other steps.                                                        *)

LEMMA FoundedStands ==
  ASSUME StackInv, NEW F, Founded(stack, F), Top.at \in {"run", "done"}
  PROVE  Standing(stack, F)
<1>1. \A i \in 1 .. Len(stack) : stack[i].at \in {"run", "done"}
  <2>1. Len(stack) \in Nat \ {0} /\ \A i \in 1 .. Len(stack) - 1 : stack[i].at = "done"
    BY TopTyped DEF StackInv
  <2> QED
    BY <2>1 DEF Top
<1>2. \A i \in 2 .. Len(stack) : i \in 1 .. Len(stack)
  BY TopTyped
<1> QED
  BY <1>1, <1>2 DEF Founded, Standing, Follows, AtEntry

(* The activations S are those of the stack, some of them gone, and none   *)
(* of them is about to run an opcode.                                      *)
LEMMA StandsFounded ==
  ASSUME NEW S, NEW F, Standing(stack, F),
         \A i \in 2 .. Len(S) : /\ i \in 2 .. Len(stack) /\ S[i].at \in {"run", "done"}
                                /\ S[i].slot = stack[i].slot
                                /\ S[i].code = stack[i].code /\ S[i].walk = stack[i].walk
  PROVE  Founded(S, F)
BY DEF Founded, Standing, Follows, AtEntry, Key

LEMMA StandsTop ==
  ASSUME StackInv, NEW F, Standing(stack, F),
         TopGone \/ \E at \in {"run", "done"} : TopAt(at)
  PROVE  Founded(stack', F)
<1>1. Len(stack) \in Nat \ {0} /\ \A i \in 1 .. Len(stack) - 1 : stack[i].at = "done"
  BY TopTyped DEF StackInv
<1>2. CASE TopGone
  <2>1. \A i \in 2 .. Len(stack') : /\ i \in 2 .. Len(stack)
                                    /\ stack'[i].at \in {"run", "done"}
                                    /\ stack'[i].slot = stack[i].slot
                                    /\ stack'[i].code = stack[i].code
                                    /\ stack'[i].walk = stack[i].walk
    BY <1>1, <1>2 DEF TopGone
  <2> QED
    BY <2>1, StandsFounded
<1>3. ASSUME NEW at \in {"run", "done"}, TopAt(at)
      PROVE  Founded(stack', F)
  <2>1. \A i \in 1 .. Len(stack) - 1 : /\ stack'[i].at \in {"run", "done"}
                                       /\ stack'[i].slot = stack[i].slot
                                       /\ stack'[i].code = stack[i].code
                                       /\ stack'[i].walk = stack[i].walk
    BY <1>1, <1>3 DEF TopAt, Alike
  <2>2. /\ Len(stack') = Len(stack) /\ stack'[Len(stack)].at \in {"run", "done"}
        /\ stack'[Len(stack)].slot = stack[Len(stack)].slot
        /\ stack'[Len(stack)].code = stack[Len(stack)].code
        /\ stack'[Len(stack)].walk = stack[Len(stack)].walk
    BY <1>3 DEF TopAt, Top
  <2>3. \A i \in 2 .. Len(stack') : /\ i \in 2 .. Len(stack)
                                    /\ stack'[i].at \in {"run", "done"}
                                    /\ stack'[i].slot = stack[i].slot
                                    /\ stack'[i].code = stack[i].code
                                    /\ stack'[i].walk = stack[i].walk
    BY <1>1, <2>1, <2>2
  <2> QED
    BY <2>3, StandsFounded
<1> QED
  BY <1>2, <1>3

LEMMA GoToFounded ==
  ASSUME StackInv, NEW n \in Flow[Top.code][Top.pc] \union Catch[Top.code][Top.pc],
         GoTo(n), NEW F, Standing(stack, F), Entered(F)
  PROVE  Founded(stack', F)
<1> DEFINE c == Top.code
           w == Top.walk
           v == IF LastOf(w) = n THEN w ELSE Append(w, n)
<1>1. /\ Len(stack) \in Nat \ {0} /\ \A i \in 1 .. Len(stack) - 1 : stack[i].at = "done"
      /\ w \in Seq(Nat) /\ w # <<>> /\ n \in Nat /\ c \in Codes
  BY TopTyped, GoToMoves DEF StackInv
<1>2. PICK u :
        /\ TopMoved(n, u)
        /\ \/ c \in Traced /\ n \in Entries[c] /\ u = <<n>>
           \/ c \in Traced /\ n \in Starts[c] \ Entries[c] /\ u = v
           \/ (c \in Traced => n \notin Starts[c]) /\ u = w
  BY GoToMoves
<1>3. /\ Len(stack') = Len(stack)
      /\ \A i \in 1 .. Len(stack) - 1 : stack'[i] = stack[i]
      /\ stack'[Len(stack)].slot = Top.slot
      /\ stack'[Len(stack)].code = c /\ stack'[Len(stack)].pc = n
      /\ stack'[Len(stack)].at = "ready" /\ stack'[Len(stack)].walk = u
  BY <1>2 DEF TopMoved, Top
<1>4. Entries[c] \subseteq Starts[c]
  BY <1>1, ProgramAssumption
<1> SUFFICES ASSUME NEW i \in 2 .. Len(stack), stack'[i].code \in Traced
             PROVE  /\ Key(stack', i) \in DOMAIN F
                    /\ Follows(stack'[i], F[Key(stack', i)])
                    /\ Above(F, Key(stack', i), stack'[i].slot)
  BY <1>3 DEF Founded
<1>5. i \in 1 .. Len(stack) /\ stack'[i].code = stack[i].code
      /\ stack'[i].slot = stack[i].slot /\ Key(stack', i) = Key(stack, i)
  BY <1>1, <1>3 DEF Top, Key
<1> DEFINE f == F[Key(stack', i)]
           t == stack'[i]
<1>6. /\ Key(stack, i) \in DOMAIN F /\ stack[i].walk = f.seq
      /\ Above(F, Key(stack, i), stack[i].slot)
      /\ f.last = LastOf(f.seq)
  BY <1>5 DEF Standing, Entered
<1>7. CASE i # Len(stack)
  <2>1. t = stack[i] /\ t.at = "done"
    BY <1>1, <1>3, <1>7
  <2> HIDE DEF f, t
  <2>2. Follows(t, f)
    BY <1>6, <2>1 DEF Follows, AtEntry
  <2> QED
    BY <1>5, <1>6, <2>2 DEF t, f
<1>8. CASE i = Len(stack)
  <2>1. /\ t.code = c /\ t.pc = n /\ t.at = "ready" /\ t.walk = u /\ c \in Traced
        /\ f.seq = w
    BY <1>3, <1>6, <1>8 DEF Top
  <2> HIDE DEF f, t
  <2>2. Follows(t, f)
    <3>1. CASE n \in Entries[c]
      BY <1>2, <1>4, <2>1, <3>1 DEF Follows, AtEntry
    <3>2. CASE n \in Starts[c] \ Entries[c]
      BY <1>2, <1>6, <2>1, <3>2 DEF Follows, AtEntry
    <3>3. CASE n \notin Starts[c]
      BY <1>2, <1>4, <2>1, <3>3 DEF Follows, AtEntry
    <3> QED
      BY <1>4, <3>1, <3>2, <3>3
  <2> QED
    BY <1>5, <1>6, <2>2 DEF t, f
<1> QED
  BY <1>7, <1>8

(* Frames of the same codes, or of one activation less, stay near.         *)
LEMMA NearSame ==
  ASSUME SameCodes(Len(stack)), NEW F, Near(stack, F)
  PROVE  Near(stack', F)
BY DEF SameCodes, Near, Live

LEMMA NearGone ==
  ASSUME NoArgumentCalls, StackInv, Rooted(stack), TopGone,
         NEW F, \A h \in DOMAIN F : h[1] \in Nat, Near(stack, F),
         Live(stack, Len(stack)) => \A h \in DOMAIN F : h[1] <= Top.slot
  PROVE  Near(stack', F) /\ Cut(stack', F)
<1> DEFINE n == Len(stack)
<1>1. /\ n \in Nat \ {0} /\ n > 1 /\ Len(stack') = n - 1
      /\ \A i \in 1 .. n - 1 : stack'[i] = stack[i] /\ stack[i].at = "done"
  BY TopTyped DEF TopGone, StackInv
<1>2. Cut(stack', F)
  BY <1>1 DEF Cut
<1>3. ASSUME NEW h \in DOMAIN F, h[1] > Base
      PROVE  Live(stack', 2)
  <2>1. Live(stack, 2)
    BY <1>3 DEF Near
  <2>2. n # 2
    <3> SUFFICES ASSUME n = 2
                 PROVE  FALSE
      OBVIOUS
    <3>1. h[1] <= Top.slot /\ Top.slot = Base
      BY <1>1, <2>1, SlotsOf
    <3> QED
      BY <1>3, <3>1, BaseTyped
  <2> QED
    BY <1>1, <2>1, <2>2 DEF Live
<1> QED
  BY <1>2, <1>3 DEF Near

LEMMA CutTop ==
  ASSUME StackInv, NEW F, NEW n, NEW w, TopAt("done") \/ TopMoved(n, w)
  PROVE  Cut(stack', F)
BY DEF Cut, TopAt, TopMoved, Top

(* Code of unwanted files other than the script calls nobody traced.       *)
LEMMA CallerTraced ==
  ASSUME NoCallbacks, StackInv, DriverInv, NEW c \in Codes, Call(c), c \in Traced,
         Len(stack) >= 2
  PROVE  Top.code \in Traced
<1>1. Top.code \in Codes /\ c \in Callees[Top.code] /\ Len(stack) \in Nat
  BY TopTyped DEF Activations, Call
<1>2. Top.code # Main
  BY <1>1 DEF DriverInv, Top
<1> QED
  BY <1>1, <1>2 DEF NoCallbacks

LEMMA ContiguousStep ==
  ASSUME NoCallbacks, StackInv, DriverInv, Contiguous(stack), [Next]_vars
  PROVE  Contiguous(stack')
<1>1. Len(stack) \in Nat \ {0}
  BY TopTyped
<1>2. CASE SameCodes(Len(stack))
  BY <1>2 DEF SameCodes, Contiguous
<1>3. CASE Len(stack) > 1 /\ SameCodes(Len(stack) - 1)
  BY <1>1, <1>3 DEF SameCodes, Contiguous
<1>4. ASSUME NEW c \in Codes, Call(c)
      PROVE  Contiguous(stack')
  <2> DEFINE n == Len(stack)
  <2>1. /\ Len(stack') = n + 1 /\ stack'[n + 1].code = c
        /\ \A i \in 1 .. n - 1 : stack'[i] = stack[i]
        /\ stack'[n].code = stack[n].code
    BY <1>4, CallMoves DEF Top
  <2>2. \A i \in 2 .. n : stack'[i].code = stack[i].code
    BY <1>1, <2>1
  <2> SUFFICES ASSUME NEW i \in 2 .. n + 1, NEW j \in 2 .. n + 1, i < j,
                      stack'[j].code \in Traced
               PROVE  stack'[i].code \in Traced
    BY <2>1 DEF Contiguous
  <2>3. i \in 2 .. n /\ n >= 2
    BY <1>1
  <2>4. CASE j # n + 1
    <3>1. j \in 2 .. n
      BY <1>1, <2>4
    <3> QED
      BY <2>2, <2>3, <3>1 DEF Contiguous
  <2>5. CASE j = n + 1
    <3>1. stack[n].code \in Traced
      BY <1>4, <2>1, <2>3, <2>5, CallerTraced DEF Top
    <3>2. CASE i = n
      BY <2>2, <2>3, <3>1, <3>2
    <3>3. CASE i # n
      <4>1. i < n /\ n \in 2 .. n
        BY <1>1, <2>3, <3>3
      <4> QED
        BY <2>2, <2>3, <3>1, <4>1 DEF Contiguous
    <3> QED
      BY <3>2, <3>3
  <2> QED
    BY <2>4, <2>5
<1> QED
  BY <1>2, <1>3, <1>4, StepCodes

(* A call: the caller's frame is the highest, unless it is the script.     *)
LEMMA CallPlaces ==
  ASSUME NoArgumentCalls, NoCallbacks, PlaceInv, NEW c \in Codes, Call(c)
  PROVE  /\ Near(stack', frames) /\ Cut(stack', frames)
         /\ enabled => Founded(stack', frames)
<1> DEFINE n == Len(stack)
<1>1. /\ EdgeInv /\ StackInv /\ DriverInv /\ Near(stack, frames) /\ Cut(stack, frames)
      /\ Rooted(stack)
      /\ n \in Nat \ {0} /\ \A i \in 1 .. n - 1 : stack[i].at = "done"
      /\ \A h \in DOMAIN frames : h[1] \in Nat
  BY TopTyped DEF PlaceInv, EdgeInv, TInv, StackInv
<1>2. /\ Len(stack') = n + 1 /\ stack'[n + 1].code = c /\ stack'[n + 1].at = "new"
      /\ Top.at = "run"
      /\ \A i \in 1 .. n : /\ stack'[i].slot = stack[i].slot
                           /\ stack'[i].code = stack[i].code
                           /\ stack'[i].walk = stack[i].walk /\ stack'[i].at = "done"
  <2>1. /\ Len(stack') = n + 1 /\ stack'[n + 1].code = c /\ stack'[n + 1].at = "new"
        /\ \A i \in 1 .. n - 1 : stack'[i] = stack[i]
        /\ stack'[n].slot = Top.slot /\ stack'[n].code = Top.code
        /\ stack'[n].at = "done" /\ stack'[n].walk = Top.walk
    BY <1>1, CallMoves
  <2>2. Top.at = "run"
    BY DEF Call, InCall
  <2> QED
    BY <1>1, <2>1, <2>2 DEF Top
<1>3. Near(stack', frames)
  <2>1. \A i : Live(stack, i) => Live(stack', i)
    BY <1>1, <1>2 DEF Live
  <2> QED
    BY <1>1, <2>1 DEF Near
<1>4. Cut(stack', frames)
  <2> SUFFICES ASSUME Live(stack', n + 1), NEW h \in DOMAIN frames
               PROVE  h[1] <= (IF n + 1 > 2 THEN stack'[n].slot ELSE Base)
    <3>1. n + 1 - 1 = n
      BY <1>1
    <3> QED
      BY <1>2, <3>1 DEF Cut
  <2>1. CASE n >= 2
    <3>1. Live(stack, n) /\ stack[n].at = "run"
      BY <1>1, <1>2, <2>1, CallerTraced DEF Live, Top
    <3>2. h[1] <= stack[n].slot /\ stack'[n].slot = stack[n].slot
      BY <1>1, <1>2, <3>1 DEF Cut
    <3> HIDE DEF n
    <3> QED
      BY <1>1, <2>1, <3>2
  <2>2. CASE ~(n >= 2)
    <3>1. ~(h[1] > Base)
      BY <1>1, <2>2 DEF Near, Live
    <3> HIDE DEF n
    <3> QED
      BY <1>1, <2>2, <3>1, BaseTyped
  <2> QED
    BY <2>1, <2>2
<1>5. enabled => Founded(stack', frames)
  <2> SUFFICES ASSUME enabled, NEW i \in 2 .. n + 1, stack'[i].code \in Traced,
                      stack'[i].at # "new"
               PROVE  /\ Key(stack', i) \in DOMAIN frames
                      /\ Follows(stack'[i], frames[Key(stack', i)])
                      /\ Above(frames, Key(stack', i), stack'[i].slot)
    BY <1>2 DEF Founded
  <2>1. Standing(stack, frames)
    BY <1>1, <1>2, FoundedStands DEF PlaceInv
  <2>2. i \in 2 .. n /\ i \in 1 .. n
    BY <1>1, <1>2
  <2>3. Key(stack', i) = Key(stack, i)
    BY <1>2, <2>2 DEF Key
  <2> QED
    BY <1>2, <2>1, <2>2, <2>3 DEF Standing, Follows, AtEntry
<1> QED
  BY <1>3, <1>4, <1>5

(* Returning frames leave the others where they stand.                     *)
LEMMA ReturnedPlaces ==
  ASSUME OwnAddresses, PlaceInv,
         php_pcov_frames_finalize_returned \/ php_pcov_collect
  PROVE  /\ Near(stack, frames') /\ Entered(frames')
         /\ Standing(stack, frames) => Standing(stack, frames')
<1>1. Stay(LiveFrames) /\ LiveFrames \subseteq DOMAIN frames
  BY ReturnedEffect DEF PlaceInv, EdgeInv, LiveFrames
<1>2. Near(stack, frames')
  BY <1>1 DEF Stay, PlaceInv, Near
<1>3. Entered(frames')
  BY <1>1 DEF Stay, PlaceInv, Entered
<1>4. ASSUME Standing(stack, frames), NEW i \in 2 .. Len(stack), stack[i].code \in Traced
      PROVE  /\ Key(stack, i) \in DOMAIN frames'
             /\ stack[i].walk = frames'[Key(stack, i)].seq
             /\ Above(frames', Key(stack, i), stack[i].slot)
  <2> DEFINE k == Key(stack, i)
  <2>1. /\ k \in DOMAIN frames /\ stack[i].walk = frames[k].seq
        /\ Above(frames, k, stack[i].slot)
    BY <1>4 DEF Standing
  <2>2. php_pcov_frame_is_live(k)
    <3>1. i \in 1 .. Len(stack)
      BY <1>4, TopTyped DEF PlaceInv, EdgeInv, TInv
    <3> QED
      BY <3>1 DEF php_pcov_frame_is_live, Key
  <2>3. k \in LiveFrames
    BY <2>1, <2>2 DEF LiveFrames
  <2> HIDE DEF k
  <2> QED
    BY <1>1, <2>1, <2>3 DEF Stay, SameOrder, Above, k
<1> QED
  BY <1>2, <1>3, <1>4 DEF Standing

(* Only the script starts, stops and clears, and when it does it is alone. *)
LEMMA ScriptAlone ==
  ASSUME Driven, StackInv, DriverInv, InCall,
         Api[Top.code] \intersect {"start", "stop", "clear"} # {}
  PROVE  Top.code = Main /\ Len(stack) = 1
<1> DEFINE n == Len(stack)
<1>1. Top.code = Main /\ n \in Nat \ {0}
  BY TopTyped DEF Driven, StoppedOutside, Activations
<1>2. ~(n >= 2)
  BY <1>1 DEF DriverInv, Top
<1> HIDE DEF n
<1>3. n = 1
  BY <1>1, <1>2
<1> QED
  BY <1>1, <1>3 DEF n

LEMMA PlaceStep ==
  ASSUME OwnAddresses, AllReceived, Driven, NoCallbacks, NoArgumentCalls
  PROVE  PlaceInv /\ [Next]_vars => PlaceInv'
<1> SUFFICES ASSUME PlaceInv, [Next]_vars
             PROVE  PlaceInv'
  OBVIOUS
<1>1. /\ EdgeInv /\ TInv /\ OInv /\ StackInv /\ DriverInv /\ StoppedOutside
      /\ Rooted(stack)
      /\ Contiguous(stack) /\ Near(stack, frames) /\ Cut(stack, frames) /\ Entered(frames)
      /\ enabled => Founded(stack, frames)
      /\ \A h \in DOMAIN frames : h[1] \in Nat
  BY DEF PlaceInv, EdgeInv, TInv, Driven
<1>2. /\ EdgeInv' /\ Contiguous(stack') /\ Rooted(stack')
      /\ \A h \in DOMAIN frames' : h[1] \in Nat
  <2>1. EdgeInv' /\ Contiguous(stack') /\ Rooted(stack')
    BY <1>1, EdgeStep, ContiguousStep, RootedStep
  <2> QED
    BY <2>1 DEF EdgeInv, TInv
<1>3. ASSUME Near(stack', frames'), Cut(stack', frames'), Entered(frames'),
             enabled' => Founded(stack', frames')
      PROVE  PlaceInv'
  BY <1>2, <1>3 DEF PlaceInv
<1>4. ASSUME Top.at \in {"run", "done"}
      PROVE  enabled => Standing(stack, frames)
  BY <1>1, <1>4, FoundedStands
<1>5. throwing => Top.at \in {"run", "done"}
  BY <1>1 DEF StackInv
<1>6. CASE Run
  <2>1. /\ Top.at \in {"new", "ready"} /\ php_pcov_trace(Top.pc) /\ enabled' = enabled
        /\ TopAt("run") /\ SameCodes(Len(stack))
    BY <1>1, <1>6, RunMoves, CodesKept DEF Run
  <2>2. /\ enabled => Standing(stack, frames')
        /\ Near(stack, frames') /\ Entered(frames')
        /\ Live(stack, Len(stack)) => \A h \in DOMAIN frames' : h[1] <= Top.slot
    BY <2>1, HookPlaces
  <2>3. Near(stack', frames') /\ (enabled => Founded(stack', frames'))
    BY <1>1, <2>1, <2>2, NearSame, StandsTop
  <2>4. Cut(stack', frames')
    <3>1. /\ Len(stack') = Len(stack) /\ stack'[Len(stack')].at = "run"
          /\ stack'[Len(stack')].slot = Top.slot
          /\ Live(stack', Len(stack)) => Live(stack, Len(stack))
      BY <2>1 DEF TopAt, SameCodes, Live, Top
    <3> QED
      BY <2>2, <3>1 DEF Cut
  <2> QED
    BY <1>3, <2>1, <2>2, <2>3, <2>4
<1>7. ASSUME NEW c \in Codes, Call(c)
      PROVE  PlaceInv'
  <2>1. frames' = frames /\ enabled' = enabled
    BY <1>7 DEF Call, pcovVars
  <2> QED
    BY <1>1, <1>3, <1>7, <2>1, CallPlaces
<1>8. ASSUME NEW n \in Flow[Top.code][Top.pc] \union Catch[Top.code][Top.pc], GoTo(n),
             enabled' = enabled, enabled => Standing(stack, frames'),
             Near(stack, frames'), Entered(frames')
      PROVE  PlaceInv'
  <2>1. PICK u : TopMoved(n, u)
    BY <1>1, <1>8, GoToMoves
  <2>2. Near(stack', frames') /\ Cut(stack', frames')
    BY <1>1, <1>8, <2>1, CodesKept, NearSame, CutTop
  <2>3. enabled => Founded(stack', frames')
    BY <1>1, <1>8, GoToFounded
  <2> QED
    BY <1>3, <1>8, <2>2, <2>3
<1>9. ASSUME Len(stack) > 1, stack' = SubSeq(stack, 1, Len(stack) - 1),
             enabled' = enabled, enabled => Standing(stack, frames'),
             Near(stack, frames'), Entered(frames'),
             Live(stack, Len(stack)) => \A h \in DOMAIN frames' : h[1] <= Top.slot
      PROVE  PlaceInv'
  <2>1. TopGone
    BY <1>1, <1>9, PopMoves
  <2>2. Near(stack', frames') /\ Cut(stack', frames')
    BY <1>1, <1>2, <1>9, <2>1, NearGone
  <2>3. enabled => Founded(stack', frames')
    BY <1>1, <1>9, <2>1, StandsTop
  <2> QED
    BY <1>3, <1>9, <2>2, <2>3
<1>10. ASSUME NEW n \in Flow[Top.code][Top.pc], Advance(n)
       PROVE  PlaceInv'
  <2>1. Top.at \in {"run", "done"} /\ GoTo(n) /\ enabled' = enabled /\ frames' = frames
    BY <1>10 DEF Advance, pcovVars
  <2> QED
    BY <1>1, <1>4, <1>8, <2>1
<1>11. CASE Leave
  <2>1. /\ Top.at = "run" /\ Len(stack) > 1 /\ stack' = SubSeq(stack, 1, Len(stack) - 1)
        /\ enabled' = enabled /\ frames' = frames
    BY <1>11 DEF Leave, pcovVars
  <2>2. Live(stack, Len(stack)) => \A h \in DOMAIN frames : h[1] <= Top.slot
    BY <1>1, <2>1 DEF Cut, Top
  <2> QED
    BY <1>1, <1>4, <1>9, <2>1, <2>2
<1>12. CASE Throw
  <2>1. stack' = stack /\ enabled' = enabled /\ frames' = frames
    BY <1>12 DEF Throw, pcovVars
  <2> QED
    BY <1>1, <1>3, <2>1
<1>13. CASE Unwind
  <2>1. /\ throwing /\ php_pcov_trace(NONE) /\ enabled' = enabled
        /\ \/ \E n \in Catch[Top.code][Top.pc] : GoTo(n)
           \/ Len(stack) > 1 /\ stack' = SubSeq(stack, 1, Len(stack) - 1)
    BY <1>13 DEF Unwind
  <2>2. /\ enabled => Standing(stack, frames')
        /\ Near(stack, frames') /\ Entered(frames')
        /\ Live(stack, Len(stack)) => \A h \in DOMAIN frames' : h[1] <= Top.slot
    BY <1>5, <2>1, HookPlaces
  <2> QED
    BY <1>8, <1>9, <2>1, <2>2
<1>14. ASSUME TopAt("done"), Len(stack) = 1, Near(stack, frames'), Entered(frames')
       PROVE  PlaceInv'
  <2>1. Near(stack', frames') /\ Cut(stack', frames')
    BY <1>1, <1>14, CodesKept, NearSame, CutTop
  <2>2. Founded(stack', frames')
    BY <1>14 DEF TopAt, Founded
  <2> QED
    BY <1>3, <1>14, <2>1, <2>2
<1>15. CASE php_pcov_start
  <2>1. /\ InCall /\ "start" \in Api[Top.code] /\ Becomes(Returned) /\ frames' = frames
    BY <1>15 DEF php_pcov_start
  <2> QED
    BY <1>1, <1>14, <2>1, ApiMoves, ScriptAlone
<1>16. CASE php_pcov_stop
  <2>1. /\ InCall /\ "stop" \in Api[Top.code] /\ Interrupt(Returned)
        /\ php_pcov_frames_finalize_returned
    BY <1>16 DEF php_pcov_stop
  <2>2. Near(stack, frames') /\ Entered(frames')
    BY <2>1, ReturnedPlaces
  <2> QED
    BY <1>1, <1>14, <2>1, <2>2, ApiMoves, ScriptAlone
<1>17. CASE php_pcov_clear
  <2>1. /\ InCall /\ "clear" \in Api[Top.code] /\ Interrupt(Returned)
        /\ frames' = [k \in {} |-> {}]
    BY <1>17 DEF php_pcov_clear
  <2>2. Near(stack, frames') /\ Entered(frames')
    BY <2>1 DEF Near, Entered
  <2> QED
    BY <1>1, <1>14, <2>1, <2>2, ApiMoves, ScriptAlone
<1>18. CASE php_pcov_collect
  <2>1. Top.at = "run" /\ TopAt("done") /\ SameCodes(Len(stack)) /\ enabled' = enabled
    BY <1>1, <1>18, ApiMoves, CodesKept DEF php_pcov_collect, InCall
  <2>2. /\ Near(stack, frames') /\ Entered(frames')
        /\ enabled => Standing(stack, frames')
    BY <1>4, <1>18, <2>1, ReturnedPlaces
  <2>3. Near(stack', frames') /\ Cut(stack', frames')
    BY <1>1, <2>1, <2>2, NearSame, CutTop
  <2>4. enabled => Founded(stack', frames')
    BY <1>1, <2>1, <2>2, StandsTop
  <2> QED
    BY <1>3, <2>1, <2>2, <2>3, <2>4
<1>19. CASE UNCHANGED vars
  <2>1. stack' = stack /\ enabled' = enabled /\ frames' = frames
    BY <1>19 DEF vars, pcovVars, engineVars
  <2> QED
    BY <1>1, <1>3, <2>1
<1>20. CASE Engine
  BY <1>20, <1>6, <1>7, <1>10, <1>11, <1>12, <1>13 DEF Engine
<1>21. CASE Script
  BY <1>21, <1>15, <1>16, <1>17, <1>18 DEF Script
<1> QED
  BY <1>19, <1>20, <1>21 DEF Next

LEMMA PlaceInit == Init => PlaceInv
<1> SUFFICES ASSUME Init
             PROVE  PlaceInv
  OBVIOUS
<1>1. EdgeInv /\ DOMAIN frames = {} /\ Len(stack) = 1
  BY EdgeInit DEF Init
<1>2. Contiguous(stack) /\ Near(stack, frames) /\ Cut(stack, frames) /\ Entered(frames)
  BY <1>1 DEF Contiguous, Near, Cut, Live, Entered
<1>4. Rooted(stack)
  BY <1>1 DEF Init, Rooted, Activation
<1>3. Founded(stack, frames)
  BY <1>1 DEF Founded
<1> QED
  BY <1>1, <1>2, <1>3, <1>4 DEF PlaceInv

-----------------------------------------------------------------------------
(* What is recorded.                                                       *)

(* The frames that live activations write: one that has not run yet, or    *)
(* has come back to an entry point, leaves its slot's frame to an          *)
(* invocation that has ended.                                              *)
Writes(act) == act.code \in Traced /\ act.at # "new" /\ ~AtEntry(act)

Written(S) == {Key(S, i) : i \in {j \in 2 .. Len(S) : Writes(S[j])}}

(* With the one that the hook works on.                                    *)
Held ==
  Written(stack) \union (IF Live(stack, Len(stack)) THEN {TopKey} ELSE {})

(* What finishing frame f records has happened.                            *)
Fulfilled(f, W, T) ==
  /\ \E w \in W : w[1] = f.cache /\ w[2] = f.seq
  /\ ExitsLeave /\ EXIT \in Outs[f.cache][LastOf(f.seq)] =>
       <<f.cache, LastOf(f.seq), EXIT>> \in T

PathsIn(R, W) ==
  \A a \in DOMAIN R : \A p \in R[a].paths : \E w \in W : w[1] = R[a].code /\ w[2] = p

ExitsIn(R, T) ==
  \A a \in DOMAIN R : \A e \in R[a].edges :
    e[2] = EXIT => <<R[a].code, e[1], EXIT>> \in T

(* An ended walk that has to be recorded is so, or waits in a frame that   *)
(* nobody writes any more.                                                 *)
Claimed(w) == w[3] /\ w[2] \in Paths[w[1]]

Hit(R, w) == Home[w[1]] \in DOMAIN R /\ w[2] \in R[Home[w[1]]].paths

Waits(F, K, w) == \E k \in DOMAIN F \ K : k[2] = Home[w[1]] /\ F[k].seq = w[2]

NoneLost(F, R, K, W) ==
  \A w \in W : w[1] \in Traced /\ (Claimed(w) => Hit(R, w) \/ Waits(F, K, w))

(* The records R and the frames F, of which K are being written, agree     *)
(* with the walks W and the edges T.                                       *)
Faithful(F, R, K, W, T) ==
  /\ \A k \in DOMAIN F \ K : Fulfilled(F[k], W, T)
  /\ PathsIn(R, W) /\ (ExitsLeave => ExitsIn(R, T))
  /\ NoneLost(F, R, K, W)

(* A traced activation is in the last branch of its walk.                  *)
Located(S) ==
  \A i \in 2 .. Len(S) : S[i].code \in Traced => LastOf(S[i].walk) = BranchOf(S[i].code, S[i].pc)

(* Who claims to be recorded as a whole is being traced.                   *)
Watched(S, e) == \A i \in 2 .. Len(S) : S[i].code \in Traced /\ S[i].whole => e

RecordInv ==
  /\ PlaceInv
  /\ Faithful(frames, reached, Written(stack), walked, took)
  /\ ExitsLeave => Located(stack)
  /\ Watched(stack, enabled)

LEMMA BranchOfStart ==
  ASSUME NEW c \in Codes, NEW n \in Starts[c]
  PROVE  BranchOf(c, n) = n
<1>1. Starts[c] \subseteq Nat
  BY ProgramAssumption
<1>2. n \in Starts[c] /\ n <= n /\ \A d \in Starts[c] : d <= n => d <= n
  BY <1>1
<1>3. \A b \in Starts[c] :
        b <= n /\ (\A d \in Starts[c] : d <= n => d <= b) => b = n
  BY <1>1
<1> QED
  BY <1>2, <1>3 DEF BranchOf

(* A frame of a code's address is that code's.                             *)
LEMMA OwnFrame ==
  ASSUME OwnAddresses, TInv, NEW c \in Codes, NEW k \in DOMAIN frames, k[2] = Home[c]
  PROVE  k[2] \in DOMAIN reached /\ frames[k].cache = c
BY OwnEntry DEF TInv, FInv, Sound

(* Finishing frames whose invocations have ended.                          *)
LEMMA FinishFaithful ==
  ASSUME NEW F, NEW R, NEW Q, NEW K, NEW W, NEW T, Finish(F, R, Q, K),
         \A h \in K : h[2] \in DOMAIN R => F[h].cache = R[h[2]].code,
         \A h \in K : Fulfilled(F[h], W, T),
         PathsIn(R, W), ExitsLeave => ExitsIn(R, T)
  PROVE  PathsIn(Q, W) /\ (ExitsLeave => ExitsIn(Q, T))
<1>1. DOMAIN Q = DOMAIN R /\ \A a \in DOMAIN R : Q[a].code = R[a].code
  BY DEF Finish
<1>2. ASSUME NEW a \in DOMAIN R, NEW p \in Q[a].paths
      PROVE  \E w \in W : w[1] = R[a].code /\ w[2] = p
  <2>1. p \in R[a].paths \/ \E h \in K : h[2] = a /\ F[h].seq = p
    BY <1>2 DEF Finish
  <2>2. ASSUME NEW h \in K, h[2] = a, F[h].seq = p
        PROVE  \E w \in W : w[1] = R[a].code /\ w[2] = p
    <3>1. F[h].cache = R[a].code
      BY <2>2
    <3>2. \E w \in W : w[1] = F[h].cache /\ w[2] = F[h].seq
      BY DEF Fulfilled
    <3> QED
      BY <2>2, <3>1, <3>2
  <2> QED
    BY <2>1, <2>2 DEF PathsIn
<1>3. ASSUME ExitsLeave, NEW a \in DOMAIN R, NEW e \in Q[a].edges, e[2] = EXIT
      PROVE  <<R[a].code, e[1], EXIT>> \in T
  <2>1. CASE e \in R[a].edges
    BY <1>3, <2>1 DEF ExitsIn
  <2>2. CASE e \notin R[a].edges
    <3>1. PICK h \in K : /\ h[2] = a /\ EXIT \in Outs[R[a].code][LastOf(F[h].seq)]
                         /\ e = <<LastOf(F[h].seq), EXIT>>
      BY <2>2 DEF Finish
    <3>2. F[h].cache = R[a].code /\ e[1] = LastOf(F[h].seq)
      BY <3>1
    <3> QED
      BY <1>3, <3>1, <3>2 DEF Fulfilled
  <2> QED
    BY <2>1, <2>2
<1> QED
  BY <1>1, <1>2, <1>3 DEF PathsIn, ExitsIn

(* A walk stays recorded, and one that waits in a finished frame is.       *)
LEMMA FinishHits ==
  ASSUME OwnAddresses, NEW F, NEW R, NEW Q, NEW K, Finish(F, R, Q, K), EntriesOK(R),
         NEW w, w[1] \in Traced, Claimed(w),
         \/ Hit(R, w)
         \/ \E h \in K : /\ h[2] = Home[w[1]] /\ h[2] \in DOMAIN R
                         /\ F[h].seq = w[2] /\ F[h].seq # <<>>
  PROVE  Hit(Q, w)
<1> DEFINE a == Home[w[1]]
<1>1. a \in DOMAIN R /\ a \in DOMAIN Q
  BY DEF Hit, Finish
<1>2. R[a].code = w[1]
  BY <1>1, ProgramAssumption DEF EntriesOK, OwnAddresses
<1>3. w[2] \in Q[a].paths
  BY <1>1, <1>2 DEF Hit, Finish, Claimed
<1> QED
  BY <1>1, <1>3 DEF Hit

LEMMA WrittenTop ==
  ASSUME StackInv, Len(stack) \in 2 .. Len(stack)
  PROVE  TopKey \in Written(stack) <=> Writes(Top)
<1>1. TopKey = Key(stack, Len(stack)) /\ Top = stack[Len(stack)]
  BY DEF TopKey, Key, Top
<1>2. \A i \in 2 .. Len(stack) : Key(stack, i) = TopKey => i = Len(stack)
  BY <1>1, KeysDiffer
<1> QED
  BY <1>1, <1>2 DEF Written

(* The hook finishes frames that nobody writes, and all but those that     *)
(* stay and are not its own.                                               *)
LEMMA HookFinished ==
  ASSUME OwnAddresses, AllReceived, Driven, PlaceInv, enabled, Top.code \in Traced,
         NEW pc, php_pcov_trace(pc),
         \/ Top.at \in {"new", "ready"} /\ pc = Top.pc
         \/ Top.at \in {"run", "done"} /\ pc = NONE
  PROVE  /\ FinishedBy(pc) \subseteq DOMAIN frames \ Written(stack)
         /\ \A h \in DOMAIN frames \ Written(stack) :
              h \in FinishedBy(pc) \/ (h \in DOMAIN frames' /\ h # TopKey)
         /\ \A h \in DOMAIN frames' :
              h # TopKey => /\ h \in DOMAIN frames
                            /\ frames'[h].seq = frames[h].seq
                            /\ frames'[h].cache = frames[h].cache
<1> DEFINE k == TopKey
           n == Len(stack)
           c == Top.code
<1>1. /\ EdgeInv /\ TInv /\ OInv /\ StackInv
  BY DEF PlaceInv, EdgeInv, TInv
<1>2. /\ n \in Nat /\ n >= 2 /\ Live(stack, n) /\ First[c] = 0 /\ ActOK(Top)
      /\ 0 \in Entries[c] /\ Entries[c] \subseteq Starts[c] /\ Starts[c] \subseteq Nat
  BY <1>1, TracedTop
<1>3. /\ DOMAIN Placed = DOMAIN frames \union {k} /\ Placed[k].cache = c
      /\ \A h \in DOMAIN frames : Placed[h] = frames[h]
      /\ k \notin DOMAIN frames => Placed[k] = Fresh
      /\ k = Key(stack, n)
  BY <1>1, PlacedFrame
<1>4. /\ DOMAIN frames' = DOMAIN Placed \ Gone /\ k \in DOMAIN frames'
      /\ \A h \in DOMAIN frames' : frames'[h].cache = Placed[h].cache
      /\ \A h \in DOMAIN frames' : h # k => frames'[h].seq = frames[h].seq
  BY <1>1, HookEffect DEF HookFrames
<1>5. Gone \subseteq DOMAIN frames
  BY DEF Gone
<1>6. k \in Written(stack) <=> Writes(Top)
  <2>1. n \in 2 .. n
    BY <1>2
  <2> QED
    BY <1>1, <2>1, WrittenTop
<1>7. Written(stack) \intersect Gone = {}
  <2> SUFFICES ASSUME NEW i \in 2 .. n, Writes(stack[i])
               PROVE  Key(stack, i) \in DOMAIN frames'
    BY <1>4 DEF Written
  <2>1. CASE i = n
    BY <1>3, <1>4, <2>1
  <2>2. CASE i # n
    <3>1. i \in 2 .. n - 1 /\ stack[i].code \in Traced
      BY <1>2, <2>2 DEF Writes
    <3> QED
      BY <3>1, HookCuts
  <2> QED
    BY <2>1, <2>2
<1>8. Reentered(Placed[k], pc) => k \in DOMAIN frames /\ ~Writes(Top)
  <2> SUFFICES ASSUME Reentered(Placed[k], pc)
               PROVE  k \in DOMAIN frames /\ ~Writes(Top)
    OBVIOUS
  <2>1. Placed[k].seq # <<>> /\ pc \in Entries[c]
    BY <1>3 DEF Reentered
  <2>2. Top.at \in {"new", "ready"} /\ pc = Top.pc
    BY <1>2, <2>1 DEF NONE
  <2>3. ~Writes(Top)
    BY <2>1, <2>2 DEF Writes, AtEntry
  <2> QED
    BY <1>3, <2>1, <2>3 DEF Fresh
<1>9. k \in DOMAIN frames /\ ~Writes(Top) => Reentered(Placed[k], pc)
  <2> SUFFICES ASSUME k \in DOMAIN frames, ~Writes(Top)
               PROVE  Reentered(Placed[k], pc)
    OBVIOUS
  <2>1. Top.at = "new" \/ AtEntry(Top)
    BY DEF Writes
  <2>2. pc \in Entries[c]
    BY <1>2, <2>1 DEF ActOK, AtEntry
  <2> QED
    BY <2>2, HookSequence
<1> HIDE DEF k, n, c
<1>10. FinishedBy(pc) \subseteq DOMAIN frames \ Written(stack)
  BY <1>5, <1>6, <1>7, <1>8 DEF FinishedBy, k
<1>11. \A h \in DOMAIN frames \ Written(stack) :
         h \in FinishedBy(pc) \/ (h \in DOMAIN frames' /\ h # k)
  BY <1>3, <1>4, <1>6, <1>9 DEF FinishedBy, k
<1> QED
  BY <1>3, <1>4, <1>10, <1>11 DEF k

(* After the hook all is recorded that has ended, and nothing else.        *)
LEMMA HookFaithful ==
  ASSUME OwnAddresses, AllReceived, Driven, RecordInv, NEW pc, php_pcov_trace(pc),
         \/ Top.at \in {"new", "ready"} /\ pc = Top.pc
         \/ Top.at \in {"run", "done"} /\ pc = NONE
  PROVE  Faithful(frames', reached', Held, walked, took)
<1> DEFINE k == TopKey
           n == Len(stack)
           c == Top.code
           f == Renewed(Placed[k], pc)
           G == php_pcov_reached_get(c)
<1>1. /\ PlaceInv /\ EdgeInv /\ TInv /\ OInv /\ EntriesOK(reached)
      /\ Faithful(frames, reached, Written(stack), walked, took)
  BY DEF RecordInv, PlaceInv, EdgeInv, TInv
<1>2. CASE ~(enabled /\ c \in Traced)
  <2>1. frames' = frames /\ reached' = reached
    BY <1>2 DEF php_pcov_trace
  <2>2. CASE ~enabled
    <3>1. DOMAIN frames = {}
      BY <1>1, <2>2 DEF EdgeInv
    <3> QED
      BY <1>1, <2>1, <3>1 DEF Faithful, NoneLost, Waits
  <2>3. CASE c \notin Traced
    <3>1. Held = Written(stack)
      BY <2>3 DEF Held, Live, Top
    <3> QED
      BY <1>1, <2>1, <3>1
  <2> QED
    BY <1>2, <2>2, <2>3
<1>3. CASE enabled /\ c \in Traced
  <2>1. /\ FinishedBy(pc) \subseteq DOMAIN frames \ Written(stack)
        /\ \A h \in DOMAIN frames \ Written(stack) :
             h \in FinishedBy(pc) \/ (h \in DOMAIN frames' /\ h # k)
        /\ \A h \in DOMAIN frames' :
             h # k => /\ h \in DOMAIN frames
                      /\ frames'[h].seq = frames[h].seq
                      /\ frames'[h].cache = frames[h].cache
    BY <1>1, <1>3, HookFinished
  <2>2. PICK Q : Finish(frames, G, Q, FinishedBy(pc)) /\ HookEntries(pc, f, Q)
    BY <1>1, <1>3, HookEffect
  <2>3. /\ Held = Written(stack) \union {k} /\ c \in Codes /\ Starts[c] \subseteq Nat
    <3>1. Live(stack, n) /\ c \in Codes /\ Starts[c] \subseteq Nat
      BY <1>1, <1>3, TracedTop, ProgramAssumption
    <3> QED
      BY <3>1 DEF Held
  <2>4. /\ \A a \in DOMAIN reached : a \in DOMAIN G /\ G[a] = reached[a]
        /\ EntriesOK(G) /\ PathsIn(G, walked) /\ (ExitsLeave => ExitsIn(G, took))
    <3>1. ~Stale(c)
      BY <1>1, <2>3, OwnEntry
    <3>2. /\ DOMAIN G = DOMAIN reached \union {Home[c]}
          /\ \A a \in DOMAIN reached : G[a] = reached[a]
          /\ \A a \in DOMAIN G \ DOMAIN reached : a = Home[c] /\ G[a] = EmptyEntry(c)
      BY <3>1 DEF php_pcov_reached_get
    <3>3. /\ EmptyEntry(c).code = c /\ EmptyEntry(c).hits = {}
          /\ EmptyEntry(c).paths = {} /\ EmptyEntry(c).edges = {}
      BY DEF EmptyEntry
    <3> HIDE DEF G, c
    <3>4. EntriesOK(G)
      BY <1>1, <1>3, <3>2, <3>3 DEF EntriesOK, EdgesOf
    <3>5. PathsIn(G, walked)
      BY <1>1, <3>2, <3>3 DEF Faithful, PathsIn
    <3>6. ExitsLeave => ExitsIn(G, took)
      BY <1>1, <3>2, <3>3 DEF Faithful, ExitsIn
    <3> QED
      BY <3>2, <3>4, <3>5, <3>6
  <2>5. \A h \in FinishedBy(pc) : /\ Fulfilled(frames[h], walked, took)
                                  /\ h[2] \in DOMAIN reached
                                  /\ frames[h].cache = G[h[2]].code
                                  /\ frames[h].seq # <<>>
    <3>1. \A h \in DOMAIN frames : h[2] \in DOMAIN reached /\ frames[h].cache = reached[h[2]].code
      BY <1>1 DEF TInv, FInv, Sound
    <3> QED
      BY <1>1, <2>1, <2>4, <3>1 DEF Faithful, PlaceInv, Entered
  <2> HIDE DEF G, c, k, f
  <2>6. PathsIn(Q, walked) /\ (ExitsLeave => ExitsIn(Q, took))
    <3> DEFINE K == FinishedBy(pc)
    <3>1. Finish(frames, G, Q, K) /\ PathsIn(G, walked) /\ (ExitsLeave => ExitsIn(G, took))
      BY <2>2, <2>4
    <3>2. \A h \in K : h[2] \in DOMAIN G => frames[h].cache = G[h[2]].code
      BY <2>5
    <3>3. \A h \in K : Fulfilled(frames[h], walked, took)
      BY <2>5
    <3> HIDE DEF K
    <3> QED
      BY <3>1, <3>2, <3>3, FinishFaithful
  <2>7. PathsIn(reached', walked)
    BY <2>2, <2>6 DEF HookEntries, PathsIn
  <2>8. ExitsLeave => ExitsIn(reached', took)
    <3> SUFFICES ASSUME ExitsLeave, NEW a \in DOMAIN reached', NEW e \in reached'[a].edges,
                        e[2] = EXIT
                 PROVE  <<reached'[a].code, e[1], EXIT>> \in took
      BY DEF ExitsIn
    <3>1. a \in DOMAIN Q /\ reached'[a].code = Q[a].code
      BY <2>2 DEF HookEntries
    <3>2. e \in Q[a].edges
      <4>1. e \in Q[a].edges \/ (pc \in Starts[c] /\ e = <<f.last, pc>>)
        BY <2>2, <3>1 DEF HookEntries, c
      <4>2. pc \in Starts[c] => e # <<f.last, pc>>
        BY <2>3 DEF EXIT
      <4> QED
        BY <4>1, <4>2
    <3> QED
      BY <2>6, <3>1, <3>2 DEF ExitsIn
  <2>9. \A h \in DOMAIN frames' \ Held : Fulfilled(frames'[h], walked, took)
    <3> SUFFICES ASSUME NEW h \in DOMAIN frames' \ Held
                 PROVE  Fulfilled(frames'[h], walked, took)
      OBVIOUS
    <3>1. /\ h \in DOMAIN frames \ Written(stack)
          /\ frames'[h].seq = frames[h].seq /\ frames'[h].cache = frames[h].cache
      BY <2>1, <2>3
    <3>2. Fulfilled(frames[h], walked, took)
      BY <1>1, <3>1 DEF Faithful
    <3> QED
      BY <3>1, <3>2 DEF Fulfilled
  <2>10. NoneLost(frames', reached', Held, walked)
    <3> SUFFICES ASSUME NEW w \in walked, Claimed(w)
                 PROVE  Hit(reached', w) \/ Waits(frames', Held, w)
      BY <1>1 DEF Faithful, NoneLost
    <3>1. w[1] \in Traced /\ (Hit(reached, w) \/ Waits(frames, Written(stack), w))
      BY <1>1 DEF Faithful, NoneLost
    <3>2. Hit(Q, w) => Hit(reached', w)
      BY <2>2 DEF HookEntries, Hit
    <3>3. CASE Hit(reached, w)
      <4>1. Hit(G, w)
        BY <2>4, <3>3 DEF Hit
      <4> QED
        BY <2>2, <2>4, <3>1, <3>2, <4>1, FinishHits
    <3>4. CASE Waits(frames, Written(stack), w)
      <4>1. PICK h \in DOMAIN frames \ Written(stack) :
                   h[2] = Home[w[1]] /\ frames[h].seq = w[2]
        BY <3>4 DEF Waits
      <4>2. CASE h \in FinishedBy(pc)
        BY <2>2, <2>4, <2>5, <3>1, <3>2, <4>1, <4>2, FinishHits
      <4>3. CASE h \in DOMAIN frames' /\ h # k
        <5>1. h \in DOMAIN frames' \ Held /\ frames'[h].seq = w[2]
          BY <2>1, <2>3, <4>1, <4>3
        <5> QED
          BY <4>1, <5>1 DEF Waits
      <4> QED
        BY <2>1, <4>1, <4>2, <4>3
    <3> QED
      BY <3>1, <3>3, <3>4
  <2> QED
    BY <2>7, <2>8, <2>9, <2>10 DEF Faithful
<1> QED
  BY <1>2, <1>3

(* Stop and collect finish frames that nobody writes.                      *)
LEMMA ReturnedFaithful ==
  ASSUME OwnAddresses, RecordInv, php_pcov_frames_finalize_returned \/ php_pcov_collect
  PROVE  Faithful(frames', reached', Written(stack), walked, took)
<1> DEFINE K == DOMAIN frames \ LiveFrames
<1>1. /\ PlaceInv /\ TInv /\ OInv /\ EntriesOK(reached) /\ StackInv
      /\ Faithful(frames, reached, Written(stack), walked, took)
  BY DEF RecordInv, PlaceInv, EdgeInv, TInv
<1>2. Stay(LiveFrames)
  BY <1>1, ReturnedEffect
<1>3. PICK Q : Finish(frames, reached, Q, K) /\ Extends(Q)
  BY <1>1, ReturnedEffect
<1>4. \A h \in DOMAIN frames : h \in Written(stack) => h \in LiveFrames
  <2>1. \A i \in 2 .. Len(stack) : php_pcov_frame_is_live(Key(stack, i))
    <3>1. \A i \in 2 .. Len(stack) : i \in 1 .. Len(stack)
      BY <1>1, TopTyped
    <3> QED
      BY <3>1 DEF php_pcov_frame_is_live, Key
  <2> QED
    BY <2>1 DEF Written, LiveFrames
<1>5. \A h \in K : /\ Fulfilled(frames[h], walked, took) /\ h[2] \in DOMAIN reached
                   /\ frames[h].cache = reached[h[2]].code /\ frames[h].seq # <<>>
  BY <1>1, <1>4 DEF Faithful, TInv, FInv, Sound, PlaceInv, Entered
<1>6. LiveFrames \subseteq DOMAIN frames
  BY DEF LiveFrames
<1>7. PathsIn(Q, walked) /\ (ExitsLeave => ExitsIn(Q, took))
  <2>1. /\ PathsIn(reached, walked) /\ (ExitsLeave => ExitsIn(reached, took))
        /\ Finish(frames, reached, Q, K)
    BY <1>1, <1>3 DEF Faithful
  <2>2. \A h \in K : h[2] \in DOMAIN reached => frames[h].cache = reached[h[2]].code
    BY <1>5
  <2>3. \A h \in K : Fulfilled(frames[h], walked, took)
    BY <1>5
  <2> HIDE DEF K
  <2> QED
    BY <2>1, <2>2, <2>3, FinishFaithful
<1>8. \A a \in DOMAIN reached' :
        \/ a \in DOMAIN Q /\ reached'[a] = Q[a]
        \/ reached'[a].paths = {} /\ reached'[a].edges = {}
  BY <1>3 DEF Extends, EmptyEntry
<1>9. PathsIn(reached', walked) /\ (ExitsLeave => ExitsIn(reached', took))
  BY <1>7, <1>8 DEF PathsIn, ExitsIn
<1>10. \A h \in DOMAIN frames' \ Written(stack) : Fulfilled(frames'[h], walked, took)
  <2> SUFFICES ASSUME NEW h \in DOMAIN frames' \ Written(stack)
               PROVE  Fulfilled(frames'[h], walked, took)
    OBVIOUS
  <2>1. /\ h \in DOMAIN frames \ Written(stack)
        /\ frames'[h].seq = frames[h].seq /\ frames'[h].cache = frames[h].cache
    BY <1>2, <1>6 DEF Stay
  <2>2. Fulfilled(frames[h], walked, took)
    BY <1>1, <2>1 DEF Faithful
  <2> QED
    BY <2>1, <2>2 DEF Fulfilled
<1>11. NoneLost(frames', reached', Written(stack), walked)
  <2> SUFFICES ASSUME NEW w \in walked, Claimed(w)
               PROVE  Hit(reached', w) \/ Waits(frames', Written(stack), w)
    BY <1>1 DEF Faithful, NoneLost
  <2>1. w[1] \in Traced /\ (Hit(reached, w) \/ Waits(frames, Written(stack), w))
    BY <1>1 DEF Faithful, NoneLost
  <2>2. Hit(Q, w) => Hit(reached', w)
    BY <1>3 DEF Extends, Hit
  <2>3. CASE Hit(reached, w)
    BY <1>1, <1>3, <2>1, <2>2, <2>3, FinishHits
  <2>4. CASE Waits(frames, Written(stack), w)
    <3>1. PICK h \in DOMAIN frames \ Written(stack) :
                 h[2] = Home[w[1]] /\ frames[h].seq = w[2]
      BY <2>4 DEF Waits
    <3>2. CASE h \in K
      BY <1>1, <1>3, <1>5, <2>1, <2>2, <3>1, <3>2, FinishHits
    <3>3. CASE h \in LiveFrames
      BY <1>2, <3>1, <3>3 DEF Stay, Waits
    <3> QED
      BY <3>2, <3>3
  <2> QED
    BY <2>1, <2>3, <2>4
<1> QED
  BY <1>9, <1>10, <1>11 DEF Faithful

(* Who writes after a step.  The activations S that write are those of the *)
(* stack, or those of the stack but the innermost one.                     *)
LEMMA WritersKept ==
  ASSUME NEW S, NEW m \in Nat, m <= Len(S), m <= Len(stack),
         \A i \in 2 .. m : /\ S[i].slot = stack[i].slot /\ S[i].code = stack[i].code
                           /\ Writes(S[i]) <=> Writes(stack[i]),
         \A i \in 2 .. Len(S) : i \in 2 .. m \/ ~Writes(S[i]),
         \A i \in 2 .. Len(stack) : i \in 2 .. m \/ ~Writes(stack[i]),
         Len(S) \in Nat, Len(stack) \in Nat
  PROVE  Written(S) = Written(stack)
<1>1. \A i \in 2 .. m : i \in 2 .. Len(S) /\ i \in 2 .. Len(stack)
  OBVIOUS
<1>2. \A i \in 2 .. m : Key(S, i) = Key(stack, i)
  BY DEF Key
<1> QED
  BY <1>1, <1>2 DEF Written

LEMMA WritersLess ==
  ASSUME StackInv, NEW S, Len(S) \in Nat, Len(S) \in {Len(stack) - 1, Len(stack)},
         \A i \in 2 .. Len(stack) - 1 :
           /\ S[i].slot = stack[i].slot /\ S[i].code = stack[i].code
           /\ Writes(S[i]) <=> Writes(stack[i]),
         Len(S) = Len(stack) => ~Writes(S[Len(stack)])
  PROVE  Written(S) = Written(stack) \ {TopKey}
<1> DEFINE n == Len(stack)
<1>1. n \in Nat \ {0} /\ TopKey = Key(stack, n)
  BY TopTyped DEF TopKey, Key, Top
<1>2. \A i \in 2 .. n - 1 : /\ i \in 2 .. n /\ i \in 2 .. Len(S) /\ i # n
                            /\ Key(S, i) = Key(stack, i)
  BY <1>1 DEF Key
<1>3. \A i \in 2 .. n : i \in 2 .. n - 1 \/ i = n
  BY <1>1
<1>4. \A i \in 2 .. Len(S) : i \in 2 .. n - 1 \/ ~Writes(S[i])
  BY <1>1
<1>5. \A i \in 2 .. n - 1 : Key(stack, i) # TopKey
  <2>1. \A i \in 2 .. n - 1 : i \in 1 .. n /\ n \in 1 .. n
    BY <1>1
  <2> QED
    BY <1>1, <1>2, <2>1, KeysDiffer
<1> HIDE DEF n
<1>6. \A k : k \in Written(S) <=> \E i \in 2 .. n - 1 : Writes(S[i]) /\ Key(S, i) = k
  BY <1>2, <1>4 DEF Written
<1>7. \A k : k \in Written(stack) \ {TopKey} <=>
               \E i \in 2 .. n - 1 : Writes(stack[i]) /\ Key(stack, i) = k
  BY <1>1, <1>2, <1>3, <1>5 DEF Written, n
<1> QED
  BY <1>2, <1>6, <1>7 DEF n

LEMMA WritesAt ==
  ASSUME NEW t
  PROVE  /\ t.at \in {"run", "done"} => (Writes(t) <=> t.code \in Traced)
         /\ t.at = "new" => ~Writes(t)
         /\ t.at = "ready" =>
              (Writes(t) <=> t.code \in Traced /\ t.pc \notin Entries[t.code])
         /\ Writes(t) => t.code \in Traced
BY DEF Writes, AtEntry

LEMMA WrittenMoves ==
  ASSUME StackInv
  PROVE  /\ TopAt("run") => Written(stack') = Held
         /\ Top.at = "run" /\ TopAt("done") => Written(stack') = Written(stack)
         /\ \A c \in Codes : Call(c) => Written(stack') = Written(stack)
         /\ Top.at \in {"run", "done"} => Held = Written(stack)
         /\ TopGone => Written(stack') = Written(stack) \ {TopKey}
         /\ \A n, w : Top.at \in {"run", "done"} /\ TopMoved(n, w) =>
              Written(stack') = IF Top.code \in Traced /\ n \in Entries[Top.code]
                                THEN Written(stack) \ {TopKey} ELSE Written(stack)
<1> DEFINE m == Len(stack)
<1>1. m \in Nat \ {0} /\ m <= m /\ Top = stack[m] /\ TopKey = Key(stack, m)
  BY TopTyped DEF Top, TopKey, Key
<1>2. \A i \in 2 .. m : i \in 1 .. m - 1 \/ i = m
  BY <1>1
<1>3. \A a, b : Alike(b, a) => /\ b.slot = a.slot /\ b.code = a.code
                               /\ Writes(b) <=> Writes(a)
  BY DEF Alike, Writes, AtEntry
<1>4. ASSUME TopAt("run")
      PROVE  Written(stack') = Held
  <2>1. /\ Len(stack') = m
        /\ \A i \in 1 .. m - 1 : Alike(stack'[i], stack[i])
        /\ stack'[m].slot = Top.slot /\ stack'[m].code = Top.code /\ stack'[m].at = "run"
    BY <1>1, <1>4 DEF TopAt, Top
  <2>2. \A i \in 2 .. m : i # m =>
          Key(stack', i) = Key(stack, i) /\ (Writes(stack'[i]) <=> Writes(stack[i]))
    <3>1. ASSUME NEW i \in 1 .. m - 1
          PROVE  /\ stack'[i].slot = stack[i].slot /\ stack'[i].code = stack[i].code
                 /\ Writes(stack'[i]) <=> Writes(stack[i])
      <4>1. Alike(stack'[i], stack[i])
        BY <2>1
      <4> QED
        BY <1>3, <4>1
    <3> QED
      BY <1>2, <3>1 DEF Key
  <2>3. /\ Key(stack', m) = TopKey
        /\ Writes(stack'[m]) <=> Top.code \in Traced
        /\ Writes(stack[m]) => Top.code \in Traced
    <3>1. Writes(stack'[m]) <=> Top.code \in Traced
      BY <2>1, WritesAt
    <3>2. Writes(stack[m]) => Top.code \in Traced
      BY <1>1, WritesAt
    <3> QED
      BY <1>1, <2>1, <3>1, <3>2 DEF Key, TopKey
  <2>4. Live(stack, m) <=> m \in 2 .. m /\ Top.code \in Traced
    BY <1>1 DEF Live
  <2> HIDE DEF m
  <2>5. \A k : k \in Written(stack') <=> \E i \in 2 .. m : Writes(stack'[i]) /\ Key(stack', i) = k
    BY <2>1 DEF Written
  <2>6. \A k : k \in Held <=> \/ \E i \in 2 .. m : Writes(stack[i]) /\ Key(stack, i) = k
                              \/ m \in 2 .. m /\ Top.code \in Traced /\ k = TopKey
    BY <2>4 DEF Written, Held, m
  <2>7. \A k : k \in Written(stack') <=> k \in Held
    BY <1>1, <2>2, <2>3, <2>5, <2>6
  <2> QED
    BY <2>7
<1>5. ASSUME Top.at = "run", TopAt("done")
      PROVE  Written(stack') = Written(stack)
  <2>1. /\ Len(stack') = m
        /\ \A i \in 1 .. m - 1 : Alike(stack'[i], stack[i])
        /\ stack'[m].slot = stack[m].slot /\ stack'[m].code = stack[m].code
        /\ stack'[m].at = "done" /\ stack[m].at = "run"
    BY <1>1, <1>5 DEF TopAt, Top
  <2>2. \A i \in 2 .. m : /\ stack'[i].slot = stack[i].slot /\ stack'[i].code = stack[i].code
                          /\ Writes(stack'[i]) <=> Writes(stack[i])
    <3>1. ASSUME NEW i \in 1 .. m - 1
          PROVE  /\ stack'[i].slot = stack[i].slot /\ stack'[i].code = stack[i].code
                 /\ Writes(stack'[i]) <=> Writes(stack[i])
      <4>1. Alike(stack'[i], stack[i])
        BY <2>1
      <4> QED
        BY <1>3, <4>1
    <3>2. Writes(stack'[m]) <=> Writes(stack[m])
      BY <2>1 DEF Writes, AtEntry
    <3> HIDE DEF m
    <3> QED
      BY <1>2, <2>1, <3>1, <3>2
  <2> HIDE DEF m
  <2> QED
    BY <1>1, <2>1, <2>2, WritersKept DEF m
<1>6. ASSUME NEW c \in Codes, Call(c)
      PROVE  Written(stack') = Written(stack)
  <2>1. /\ Len(stack') = m + 1
        /\ \A i \in 1 .. m - 1 : stack'[i] = stack[i]
        /\ stack'[m].slot = stack[m].slot /\ stack'[m].code = stack[m].code
        /\ stack'[m].at = "done" /\ stack'[m + 1].at = "new"
    BY <1>1, <1>6, CallMoves
  <2>2. stack[m].at = "run"
    BY <1>1, <1>6 DEF Call, InCall
  <2>3. \A i \in 2 .. m : /\ stack'[i].slot = stack[i].slot /\ stack'[i].code = stack[i].code
                          /\ Writes(stack'[i]) <=> Writes(stack[i])
    BY <1>2, <2>1, <2>2 DEF Writes, AtEntry
  <2>4. \A i \in 2 .. m + 1 : i \in 2 .. m \/ ~Writes(stack'[i])
    <3>1. ~Writes(stack'[m + 1])
      BY <2>1, WritesAt
    <3> HIDE DEF m
    <3>2. \A i \in 2 .. m + 1 : i \in 2 .. m \/ i = m + 1
      BY <1>1
    <3> QED
      BY <3>1, <3>2
  <2>5. m + 1 \in Nat /\ m <= m + 1
    BY <1>1
  <2> HIDE DEF m
  <2> QED
    BY <1>1, <2>1, <2>3, <2>4, <2>5, WritersKept DEF m
<1>7. ASSUME Top.at \in {"run", "done"}
      PROVE  Held = Written(stack)
  <2>1. Live(stack, m) => m \in 2 .. m /\ Writes(Top)
    BY <1>1, <1>7 DEF Live, Writes, AtEntry
  <2> QED
    BY <1>1, <2>1 DEF Held, Written
<1>8. ASSUME TopGone
      PROVE  Written(stack') = Written(stack) \ {TopKey}
  <2>1. /\ Len(stack') = m - 1 /\ m - 1 # m /\ m - 1 \in Nat
        /\ \A i \in 2 .. m - 1 : stack'[i] = stack[i]
    BY <1>1, <1>8 DEF TopGone
  <2> HIDE DEF m
  <2> QED
    BY <2>1, WritersLess DEF m
<1>9. ASSUME NEW n, NEW w, Top.at \in {"run", "done"}, TopMoved(n, w)
      PROVE  Written(stack') = IF Top.code \in Traced /\ n \in Entries[Top.code]
                               THEN Written(stack) \ {TopKey} ELSE Written(stack)
  <2>1. /\ Len(stack') = m
        /\ \A i \in 1 .. m - 1 : stack'[i] = stack[i]
        /\ stack'[m].slot = stack[m].slot /\ stack'[m].code = stack[m].code
        /\ stack'[m].at = "ready" /\ stack'[m].pc = n
    BY <1>1, <1>9 DEF TopMoved, Top
  <2>2. CASE Top.code \in Traced /\ n \in Entries[Top.code]
    <3>1. ~Writes(stack'[m])
      BY <1>1, <2>1, <2>2, WritesAt
    <3>2. \A i \in 2 .. m - 1 : stack'[i] = stack[i]
      BY <1>1, <2>1
    <3> HIDE DEF m
    <3>3. Written(stack') = Written(stack) \ {TopKey}
      BY <1>1, <2>1, <3>1, <3>2, WritersLess DEF m
    <3> QED
      BY <2>2, <3>3
  <2>3. CASE ~(Top.code \in Traced /\ n \in Entries[Top.code])
    <3>1. Writes(stack'[m]) <=> Writes(stack[m])
      <4>1. Writes(stack'[m]) <=> Top.code \in Traced
        BY <1>1, <2>1, <2>3, WritesAt
      <4>2. Writes(stack[m]) <=> Top.code \in Traced
        BY <1>1, <1>9, WritesAt
      <4> QED
        BY <4>1, <4>2
    <3>2. \A i \in 2 .. m : /\ stack'[i].slot = stack[i].slot /\ stack'[i].code = stack[i].code
                            /\ Writes(stack'[i]) <=> Writes(stack[i])
      BY <1>2, <2>1, <3>1
    <3> HIDE DEF m
    <3>3. Written(stack') = Written(stack)
      BY <1>1, <2>1, <3>2, WritersKept DEF m
    <3> QED
      BY <2>3, <3>3
  <2> QED
    BY <2>2, <2>3
<1> QED
  BY <1>4, <1>5, <1>6, <1>7, <1>8, <1>9

(* Walks that end.                                                         *)

LEMMA FaithfulMore ==
  ASSUME NEW F, NEW R, NEW K, NEW W, NEW T, NEW U, T \subseteq U, Faithful(F, R, K, W, T)
  PROVE  Faithful(F, R, K, W, U)
<1>1. \A k \in DOMAIN F \ K : Fulfilled(F[k], W, U)
  BY DEF Faithful, Fulfilled
<1>2. ExitsLeave => ExitsIn(R, U)
  BY DEF Faithful, ExitsIn
<1> QED
  BY <1>1, <1>2 DEF Faithful

(* The frame of the innermost activation goes over to those nobody writes: *)
(* the activation's walk has ended, and so has its exit been taken.        *)
LEMMA CloseFaithful ==
  ASSUME StackInv, Watched(stack, enabled), Len(stack) \in 2 .. Len(stack),
         Top.code \in Traced,
         NEW F, NEW R, Faithful(F, R, Written(stack), walked, took),
         enabled => Standing(stack, F), ~enabled => DOMAIN F = {},
         \A k \in DOMAIN F : k[2] = Home[Top.code] => F[k].cache = Top.code,
         NEW T, took \subseteq T,
         ExitsLeave /\ EXIT \in Outs[Top.code][LastOf(Top.walk)] =>
           <<Top.code, LastOf(Top.walk), EXIT>> \in T
  PROVE  Faithful(F, R, Written(stack) \ {TopKey},
                  walked \union {<<Top.code, Top.walk, Top.whole>>}, T)
<1> DEFINE c == Top.code
           w == Top.walk
           new == <<c, w, Top.whole>>
           W == walked \union {new}
           k == TopKey
<1>1. /\ k[2] = Home[c] /\ k = Key(stack, Len(stack)) /\ Top = stack[Len(stack)]
      /\ new[1] = c /\ new[2] = w /\ new[3] = Top.whole
  BY DEF TopKey, Key, Top
<1>2. enabled => k \in DOMAIN F /\ F[k].seq = w
  BY <1>1 DEF Standing
<1>3. ASSUME NEW h \in DOMAIN F \ (Written(stack) \ {k})
      PROVE  Fulfilled(F[h], W, T)
  <2>1. CASE h \notin Written(stack)
    <3>1. Fulfilled(F[h], walked, took)
      BY <2>1 DEF Faithful
    <3> HIDE DEF new
    <3> QED
      BY <3>1 DEF Fulfilled
  <2>2. CASE h = k
    <3>1. F[h].cache = c /\ F[h].seq = w
      BY <1>1, <1>2, <2>2
    <3> HIDE DEF new, c, w
    <3>2. new \in W /\ new[1] = F[h].cache /\ new[2] = F[h].seq
      BY <1>1, <3>1
    <3>3. ExitsLeave /\ EXIT \in Outs[F[h].cache][LastOf(F[h].seq)] =>
            <<F[h].cache, LastOf(F[h].seq), EXIT>> \in T
      BY <3>1 DEF c, w
    <3> HIDE DEF W
    <3> QED
      BY <3>2, <3>3 DEF Fulfilled
  <2> QED
    BY <1>3, <2>1, <2>2
<1>4. PathsIn(R, W)
  BY DEF Faithful, PathsIn
<1>5. ExitsLeave => ExitsIn(R, T)
  BY DEF Faithful, ExitsIn
<1>6. ASSUME NEW u \in W
      PROVE  u[1] \in Traced /\ (Claimed(u) => Hit(R, u) \/ Waits(F, Written(stack) \ {k}, u))
  <2>1. CASE u \in walked
    BY <2>1 DEF Faithful, NoneLost, Waits
  <2>2. CASE u = new
    <3>1. Top.whole => enabled
      BY <1>1 DEF Watched
    <3>2. u[1] = c /\ u[2] = w /\ u[3] = Top.whole
      BY <1>1, <2>2
    <3> HIDE DEF k, new, W, w
    <3>3. Claimed(u) => Waits(F, Written(stack) \ {k}, u)
      BY <1>1, <1>2, <3>1, <3>2 DEF Claimed, Waits
    <3> QED
      BY <3>2, <3>3
  <2> QED
    BY <2>1, <2>2
<1> QED
  BY <1>3, <1>4, <1>5, <1>6 DEF Faithful, NoneLost

(* By leaving or by an exception.                                          *)
LEMMA EndedFaithful ==
  ASSUME StackInv, Watched(stack, enabled), TopGone, Ended, Top.at \in {"run", "done"},
         NEW F, NEW R, Faithful(F, R, Written(stack), walked, took),
         enabled => Standing(stack, F), ~enabled => DOMAIN F = {},
         \A k \in DOMAIN F : k[2] = Home[Top.code] => F[k].cache = Top.code
  PROVE  Faithful(F, R, Written(stack'), walked', took')
<1>1. Len(stack) \in 2 .. Len(stack)
  BY TopTyped DEF TopGone
<1>2. Written(stack') = Written(stack) \ {TopKey}
  BY WrittenMoves
<1>3. CASE Top.code \in Traced
  <2>1. /\ took' = took \union {<<Top.code, LastOf(Top.walk), EXIT>>}
        /\ walked' = walked \union {<<Top.code, Top.walk, Top.whole>>}
    BY <1>3 DEF Ended
  <2>2. /\ took \subseteq took' /\ <<Top.code, LastOf(Top.walk), EXIT>> \in took'
    BY <2>1
  <2>3. Faithful(F, R, Written(stack) \ {TopKey},
                 walked \union {<<Top.code, Top.walk, Top.whole>>}, took')
    BY <1>1, <1>3, <2>2, CloseFaithful
  <2> QED
    BY <1>2, <2>1, <2>3
<1>4. CASE Top.code \notin Traced
  <2>1. took' = took /\ walked' = walked
    BY <1>4 DEF Ended
  <2>2. TopKey \notin Written(stack)
    BY <1>1, <1>4, WrittenTop DEF Writes
  <2>3. Written(stack') = Written(stack)
    BY <1>2, <2>2
  <2> QED
    BY <2>1, <2>3
<1> QED
  BY <1>3, <1>4

(* Or by coming back to an entry point.                                    *)
LEMMA GoToFaithful ==
  ASSUME StackInv, DriverInv, Driven, Watched(stack, enabled), ExitsLeave => Located(stack),
         Top.at \in {"run", "done"},
         NEW n \in Flow[Top.code][Top.pc] \union Catch[Top.code][Top.pc], GoTo(n),
         NEW F, NEW R, Faithful(F, R, Written(stack), walked, took),
         enabled => Standing(stack, F), ~enabled => DOMAIN F = {},
         \A k \in DOMAIN F : k[2] = Home[Top.code] => F[k].cache = Top.code
  PROVE  Faithful(F, R, Written(stack'), walked', took')
<1> DEFINE c == Top.code
           w == Top.walk
           v == IF LastOf(w) = n THEN w ELSE Append(w, n)
<1>1. c \in Codes /\ Top.pc \in Opcodes(c) /\ Entries[c] \subseteq Starts[c]
  BY TopTyped, ProgramAssumption DEF Activations, ActOK
<1>2. CASE c \in Traced /\ n \in Entries[c]
  <2>1. /\ took' = took /\ walked' = walked \union {<<c, w, Top.whole>>}
        /\ TopMoved(n, <<n>>)
    BY <1>1, <1>2, GoToMoves
  <2>2. Written(stack') = Written(stack) \ {TopKey}
    BY <1>2, <2>1, WrittenMoves
  <2>3. Len(stack) \in 2 .. Len(stack)
    <3> DEFINE m == Len(stack)
    <3>1. m \in Nat \ {0} /\ m # 1
      BY <1>2, TopTyped DEF DriverInv, Driven, StoppedOutside, Top
    <3> HIDE DEF m
    <3>2. m \in 2 .. m
      BY <3>1
    <3> QED
      BY <3>2 DEF m
  <2>4. ExitsLeave => EXIT \notin Outs[c][LastOf(w)]
    <3>1. ExitsLeave => LastOf(w) = BranchOf(c, Top.pc)
      BY <1>2, <2>3 DEF Located, Top
    <3>2. ExitsLeave => EXIT \notin Outs[c][BranchOf(c, Top.pc)]
      BY <1>1, <1>2 DEF ExitsLeave
    <3> QED
      BY <3>1, <3>2
  <2>5. /\ took \subseteq took'
        /\ ExitsLeave /\ EXIT \in Outs[c][LastOf(w)] => <<c, LastOf(w), EXIT>> \in took'
    BY <2>1, <2>4
  <2>6. Faithful(F, R, Written(stack) \ {TopKey}, walked \union {<<c, w, Top.whole>>}, took')
    BY <1>2, <2>3, <2>5, CloseFaithful
  <2> QED
    BY <2>1, <2>2, <2>6
<1>3. CASE ~(c \in Traced /\ n \in Entries[c])
  <2>1. took \subseteq took' /\ walked' = walked /\ \E u : TopMoved(n, u)
    <3>1. CASE c \in Traced /\ n \in Starts[c] \ Entries[c]
      BY <1>1, <1>3, <3>1, GoToMoves
    <3>2. CASE c \in Traced => n \notin Starts[c]
      BY <1>1, <1>3, <3>2, GoToMoves
    <3> QED
      BY <1>3, <3>1, <3>2
  <2>2. Written(stack') = Written(stack)
    BY <1>3, <2>1, WrittenMoves
  <2> QED
    BY <2>1, <2>2, FaithfulMore
<1> QED
  BY <1>2, <1>3

(* Where the activations are after a step, and what they claim.            *)
LEMMA TrackedTop ==
  ASSUME StackInv, ExitsLeave => Located(stack), Watched(stack, enabled),
         TopGone \/ \E at \in {"run", "done"} : TopAt(at)
  PROVE  (ExitsLeave => Located(stack')) /\ Watched(stack', enabled)
<1>1. Len(stack) \in Nat \ {0}
  BY TopTyped
<1>2. \A i \in 2 .. Len(stack') :
        /\ i \in 2 .. Len(stack)
        /\ stack'[i].code = stack[i].code /\ stack'[i].pc = stack[i].pc
        /\ stack'[i].walk = stack[i].walk /\ (stack'[i].whole => stack[i].whole)
  <2>1. CASE TopGone
    BY <1>1, <2>1 DEF TopGone
  <2>2. ASSUME NEW at \in {"run", "done"}, TopAt(at)
        PROVE  \A i \in 2 .. Len(stack') :
                 /\ i \in 2 .. Len(stack)
                 /\ stack'[i].code = stack[i].code /\ stack'[i].pc = stack[i].pc
                 /\ stack'[i].walk = stack[i].walk /\ (stack'[i].whole => stack[i].whole)
    <3>1. /\ Len(stack') = Len(stack)
          /\ \A i \in 1 .. Len(stack) - 1 : Alike(stack'[i], stack[i])
      BY <2>2 DEF TopAt
    <3>2. LET t == stack'[Len(stack)]
              b == stack[Len(stack)]
          IN  t.code = b.code /\ t.pc = b.pc /\ t.walk = b.walk /\ (t.whole => b.whole)
      BY <2>2 DEF TopAt, Top
    <3>3. \A i \in 2 .. Len(stack) : i \in 1 .. Len(stack) - 1 \/ i = Len(stack)
      BY <1>1
    <3> QED
      BY <3>1, <3>2, <3>3 DEF Alike
  <2> QED
    BY <2>1, <2>2
<1> QED
  BY <1>2 DEF Located, Watched

LEMMA TrackedGoTo ==
  ASSUME StackInv, ExitsLeave => Located(stack), Watched(stack, enabled),
         NEW n \in Flow[Top.code][Top.pc] \union Catch[Top.code][Top.pc], GoTo(n)
  PROVE  (ExitsLeave => Located(stack')) /\ Watched(stack', enabled)
<1> DEFINE c == Top.code
           w == Top.walk
           m == Len(stack)
           v == IF LastOf(w) = n THEN w ELSE Append(w, n)
<1>1. /\ m \in Nat \ {0} /\ c \in Codes /\ Top.pc \in Opcodes(c) /\ Top = stack[m]
      /\ Entries[c] \subseteq Starts[c] /\ w \in Seq(Nat) /\ w # <<>> /\ n \in Nat
  BY TopTyped, GoToMoves, ProgramAssumption DEF Activations, ActOK, Top
<1>2. PICK u :
        /\ TopMoved(n, u)
        /\ \/ c \in Traced /\ n \in Entries[c] /\ u = <<n>>
           \/ c \in Traced /\ n \in Starts[c] \ Entries[c] /\ u = v
           \/ (c \in Traced => n \notin Starts[c]) /\ u = w
  BY GoToMoves
<1>3. /\ Len(stack') = m
      /\ \A i \in 1 .. m - 1 : stack'[i] = stack[i]
      /\ stack'[m].code = c /\ stack'[m].pc = n /\ stack'[m].walk = u
      /\ stack'[m].whole = Top.whole
  BY <1>2 DEF TopMoved, Top
<1>4. LastOf(<<n>>) = n /\ LastOf(v) = n
  BY <1>1 DEF LastOf
<1> HIDE DEF v
<1>5. ASSUME ExitsLeave, 2 <= m, c \in Traced
      PROVE  LastOf(u) = BranchOf(c, n)
  <2>1. CASE n \in Starts[c]
    <3>1. LastOf(u) = n
      BY <1>1, <1>2, <1>4, <1>5, <2>1
    <3> QED
      BY <1>1, <2>1, <3>1, BranchOfStart
  <2>2. CASE n \notin Starts[c]
    <3>1. u = w
      BY <1>1, <1>2, <2>2
    <3>2. LastOf(w) = BranchOf(c, Top.pc)
      <4>1. m \in 2 .. m
        BY <1>1, <1>5
      <4> QED
        BY <1>1, <1>5, <4>1 DEF Located
    <3>3. BranchOf(c, n) = BranchOf(c, Top.pc)
      BY <1>1, <1>5, <2>2 DEF ExitsLeave
    <3> QED
      BY <3>1, <3>2, <3>3
  <2> QED
    BY <2>1, <2>2
<1>6. \A i \in 2 .. m : i \in 1 .. m - 1 \/ (i = m /\ 2 <= m)
  BY <1>1
<1> HIDE DEF m
<1>7. ExitsLeave => Located(stack')
  BY <1>3, <1>5, <1>6 DEF Located, m
<1>8. Watched(stack', enabled)
  BY <1>1, <1>3, <1>6 DEF Watched, m
<1> QED
  BY <1>7, <1>8

LEMMA TrackedCall ==
  ASSUME AllReceived, StackInv, ExitsLeave => Located(stack), Watched(stack, enabled),
         NEW c \in Codes, Call(c)
  PROVE  (ExitsLeave => Located(stack')) /\ Watched(stack', enabled)
<1> DEFINE m == Len(stack)
<1>1. m \in Nat \ {0} /\ Top = stack[m]
  BY TopTyped DEF Top
<1>2. /\ Len(stack') = m + 1
      /\ \A i \in 1 .. m - 1 : stack'[i] = stack[i]
      /\ stack'[m].code = Top.code /\ stack'[m].pc = Top.pc /\ stack'[m].walk = Top.walk
      /\ stack'[m].whole = Top.whole
      /\ stack'[m + 1].code = c /\ stack'[m + 1].whole = enabled
      /\ stack'[m + 1].walk = <<0>> /\ stack'[m + 1].pc = First[c]
  BY CallMoves
<1>3. c \in Traced => LastOf(<<0>>) = BranchOf(c, First[c])
  <2>1. c \in Traced => First[c] = 0 /\ 0 \in Starts[c]
    BY ProgramAssumption DEF AllReceived
  <2> QED
    BY <2>1, BranchOfStart DEF LastOf
<1>4. \A i \in 2 .. m + 1 : \/ i \in 1 .. m - 1 /\ i \in 2 .. m
                            \/ i = m /\ m \in 2 .. m
                            \/ i = m + 1
  BY <1>1
<1> HIDE DEF m
<1>5. ExitsLeave => Located(stack')
  BY <1>1, <1>2, <1>3, <1>4 DEF Located, m
<1>6. Watched(stack', enabled)
  BY <1>1, <1>2, <1>4 DEF Watched, m
<1> QED
  BY <1>5, <1>6

LEMMA RecordStep ==
  ASSUME OwnAddresses, AllReceived, Driven, NoCallbacks, NoArgumentCalls
  PROVE  RecordInv /\ [Next]_vars => RecordInv'
<1> SUFFICES ASSUME RecordInv, [Next]_vars
             PROVE  RecordInv'
  OBVIOUS
<1>1. /\ PlaceInv /\ TInv /\ StackInv /\ DriverInv
      /\ Faithful(frames, reached, Written(stack), walked, took)
      /\ ExitsLeave => Located(stack)
      /\ Watched(stack, enabled)
      /\ enabled => Founded(stack, frames)
      /\ ~enabled => DOMAIN frames = {}
  BY DEF RecordInv, PlaceInv, EdgeInv, TInv
<1>2. PlaceInv'
  BY <1>1, PlaceStep
<1>3. ASSUME Faithful(frames', reached', Written(stack'), walked', took'),
             (ExitsLeave => Located(stack')) /\ Watched(stack', enabled')
      PROVE  RecordInv'
  BY <1>2, <1>3 DEF RecordInv
<1>4. Top.code \in Codes /\ (throwing => Top.at \in {"run", "done"})
  BY <1>1, TopTyped DEF StackInv, Activations
<1>5. \A k \in DOMAIN frames' : k[2] = Home[Top.code] => frames'[k].cache = Top.code
  <2>1. TInv'
    BY <1>2 DEF PlaceInv, EdgeInv
  <2>2. \A k \in DOMAIN frames' :
          /\ k[2] \in DOMAIN reached' /\ frames'[k].cache = reached'[k[2]].code
          /\ reached'[k[2]].code \in Traced /\ Home[reached'[k[2]].code] = k[2]
    BY <2>1 DEF TInv, FInv, Sound, EntriesOK
  <2> QED
    BY <1>4, <2>2, ProgramAssumption DEF OwnAddresses
<1>6. ASSUME Top.at \in {"run", "done"}
      PROVE  enabled => Standing(stack, frames)
  BY <1>1, <1>6, FoundedStands
<1>7. CASE Run
  <2>1. /\ Top.at \in {"new", "ready"} /\ php_pcov_trace(Top.pc) /\ TopAt("run")
        /\ enabled' = enabled /\ walked' = walked /\ took' = took
    BY <1>1, <1>7, RunMoves DEF Run
  <2>2. Faithful(frames', reached', Written(stack'), walked, took)
    <3>1. Faithful(frames', reached', Held, walked, took)
      BY <2>1, HookFaithful
    <3>2. Written(stack') = Held
      BY <1>1, <2>1, WrittenMoves
    <3> QED
      BY <3>1, <3>2
  <2> QED
    BY <1>1, <1>3, <2>1, <2>2, TrackedTop
<1>8. ASSUME NEW c \in Codes, Call(c)
      PROVE  RecordInv'
  <2>1. frames' = frames /\ reached' = reached /\ enabled' = enabled
        /\ walked' = walked /\ took' = took
    BY <1>8 DEF Call, pcovVars, historyVars
  <2>2. Written(stack') = Written(stack)
    BY <1>1, <1>8, WrittenMoves
  <2> QED
    BY <1>1, <1>3, <1>8, <2>1, <2>2, TrackedCall
<1>9. ASSUME NEW n \in Flow[Top.code][Top.pc] \union Catch[Top.code][Top.pc], GoTo(n),
             Top.at \in {"run", "done"}, enabled' = enabled,
             enabled => Standing(stack, frames'), ~enabled => DOMAIN frames' = {},
             Faithful(frames', reached', Written(stack), walked, took)
      PROVE  RecordInv'
  <2>1. Faithful(frames', reached', Written(stack'), walked', took')
    BY <1>1, <1>5, <1>9, GoToFaithful
  <2>2. (ExitsLeave => Located(stack')) /\ Watched(stack', enabled)
    BY <1>1, <1>9, TrackedGoTo
  <2> QED
    BY <1>3, <1>9, <2>1, <2>2
<1>10. ASSUME Len(stack) > 1, Ended, stack' = SubSeq(stack, 1, Len(stack) - 1),
              Top.at \in {"run", "done"}, enabled' = enabled,
              enabled => Standing(stack, frames'), ~enabled => DOMAIN frames' = {},
              Faithful(frames', reached', Written(stack), walked, took)
       PROVE  RecordInv'
  <2>1. TopGone
    BY <1>1, <1>10, PopMoves
  <2>2. Faithful(frames', reached', Written(stack'), walked', took')
    BY <1>1, <1>5, <1>10, <2>1, EndedFaithful
  <2> QED
    BY <1>1, <1>3, <1>10, <2>1, <2>2, TrackedTop
<1>11. ASSUME NEW n \in Flow[Top.code][Top.pc], Advance(n)
       PROVE  RecordInv'
  <2>1. /\ Top.at \in {"run", "done"} /\ GoTo(n) /\ enabled' = enabled
        /\ frames' = frames /\ reached' = reached
    BY <1>11 DEF Advance, pcovVars
  <2> QED
    BY <1>1, <1>6, <1>9, <2>1
<1>12. CASE Leave
  <2>1. /\ Top.at = "run" /\ Len(stack) > 1 /\ Ended
        /\ stack' = SubSeq(stack, 1, Len(stack) - 1)
        /\ enabled' = enabled /\ frames' = frames /\ reached' = reached
    BY <1>12 DEF Leave, pcovVars
  <2> QED
    BY <1>1, <1>6, <1>10, <2>1
<1>13. CASE Throw
  <2>1. /\ stack' = stack /\ enabled' = enabled /\ frames' = frames /\ reached' = reached
        /\ walked' = walked /\ took' = took
    BY <1>13 DEF Throw, pcovVars, historyVars
  <2> QED
    BY <1>1, <1>3, <2>1
<1>14. CASE Unwind
  <2>1. /\ throwing /\ php_pcov_trace(NONE) /\ enabled' = enabled
        /\ \/ \E n \in Catch[Top.code][Top.pc] : GoTo(n)
           \/ Len(stack) > 1 /\ Ended /\ stack' = SubSeq(stack, 1, Len(stack) - 1)
    BY <1>14 DEF Unwind
  <2>2. Top.at \in {"run", "done"}
    BY <1>4, <2>1
  <2>3. enabled => Standing(stack, frames')
    BY <1>1, <2>1, <2>2, HookPlaces
  <2>4. ~enabled => DOMAIN frames' = {}
    BY <1>1, <2>1 DEF php_pcov_trace
  <2>5. Faithful(frames', reached', Written(stack), walked, took)
    <3>1. Faithful(frames', reached', Held, walked, took)
      BY <2>1, <2>2, HookFaithful
    <3>2. Held = Written(stack)
      BY <1>1, <2>2, WrittenMoves
    <3> QED
      BY <3>1, <3>2
  <2> QED
    BY <1>9, <1>10, <2>1, <2>2, <2>3, <2>4, <2>5
<1>15. ASSUME Top.at = "run", TopAt("done"),
              Faithful(frames', reached', Written(stack), walked', took'),
              enabled' = enabled \/ Len(stack) = 1
       PROVE  RecordInv'
  <2>1. Written(stack') = Written(stack)
    BY <1>1, <1>15, WrittenMoves
  <2>2. (ExitsLeave => Located(stack')) /\ Watched(stack', enabled)
    BY <1>1, <1>15, TrackedTop
  <2>3. Len(stack) = 1 => Watched(stack', enabled')
    BY <1>15 DEF TopAt, Watched
  <2> QED
    BY <1>3, <1>15, <2>1, <2>2, <2>3
<1>16. CASE php_pcov_start
  <2>1. /\ InCall /\ "start" \in Api[Top.code] /\ Becomes(Returned)
        /\ frames' = frames /\ reached' = reached /\ walked' = walked /\ took' = took
    BY <1>16 DEF php_pcov_start, historyVars
  <2>2. Top.at = "run" /\ TopAt("done") /\ Len(stack) = 1
    BY <1>1, <2>1, ApiMoves, ScriptAlone DEF InCall
  <2> QED
    BY <1>1, <1>15, <2>1, <2>2
<1>17. CASE php_pcov_stop
  <2>1. /\ InCall /\ "stop" \in Api[Top.code] /\ Interrupt(Returned)
        /\ php_pcov_frames_finalize_returned /\ walked' = walked /\ took' = took
    BY <1>17 DEF php_pcov_stop, historyVars
  <2>2. Top.at = "run" /\ TopAt("done") /\ Len(stack) = 1
    BY <1>1, <2>1, ApiMoves, ScriptAlone DEF InCall
  <2>3. Faithful(frames', reached', Written(stack), walked, took)
    BY <2>1, ReturnedFaithful
  <2> QED
    BY <1>15, <2>1, <2>2, <2>3
<1>18. CASE php_pcov_clear
  <2>1. /\ InCall /\ "clear" \in Api[Top.code] /\ Interrupt(Returned)
        /\ DOMAIN frames' = {} /\ DOMAIN reached' = {} /\ walked' = {}
        /\ enabled' = enabled
    BY <1>18 DEF php_pcov_clear
  <2>2. Top.at = "run" /\ TopAt("done")
    BY <1>1, <2>1, ApiMoves DEF InCall
  <2>3. Faithful(frames', reached', Written(stack), walked', took')
    BY <2>1 DEF Faithful, PathsIn, ExitsIn, NoneLost
  <2> QED
    BY <1>15, <2>1, <2>2, <2>3
<1>19. CASE php_pcov_collect
  <2>1. /\ InCall /\ Becomes(Returned) /\ walked' = walked /\ took' = took
        /\ enabled' = enabled
    BY <1>19 DEF php_pcov_collect, historyVars
  <2>2. Top.at = "run" /\ TopAt("done")
    BY <1>1, <2>1, ApiMoves DEF InCall
  <2>3. Faithful(frames', reached', Written(stack), walked, took)
    BY <1>19, ReturnedFaithful
  <2> QED
    BY <1>15, <2>1, <2>2, <2>3
<1>20. CASE UNCHANGED vars
  <2>1. /\ stack' = stack /\ enabled' = enabled /\ frames' = frames /\ reached' = reached
        /\ walked' = walked /\ took' = took
    BY <1>20 DEF vars, pcovVars, engineVars, historyVars
  <2> QED
    BY <1>1, <1>3, <2>1
<1>21. CASE Engine
  BY <1>21, <1>7, <1>8, <1>11, <1>12, <1>13, <1>14 DEF Engine
<1>22. CASE Script
  BY <1>22, <1>16, <1>17, <1>18, <1>19 DEF Script
<1> QED
  BY <1>20, <1>21, <1>22 DEF Next

LEMMA RecordInit == Init => RecordInv
<1> SUFFICES ASSUME Init
             PROVE  RecordInv
  OBVIOUS
<1>1. /\ PlaceInv /\ DOMAIN frames = {} /\ DOMAIN reached = {} /\ walked = {}
      /\ Len(stack) = 1
  BY PlaceInit DEF Init
<1>2. Faithful(frames, reached, Written(stack), walked, took)
  BY <1>1 DEF Faithful, PathsIn, ExitsIn, NoneLost
<1>3. Located(stack) /\ Watched(stack, enabled)
  BY <1>1 DEF Located, Watched
<1> QED
  BY <1>1, <1>2, <1>3 DEF RecordInv

-----------------------------------------------------------------------------
(* Where no address is used again, no RECV opcode is skipped, only the     *)
(* script switches and clears and it makes no call in the arguments of     *)
(* another, and unwanted code calls nothing wanted back,                   *)
(* php_pcov_frame_finalize hits a path only when one activation walked all *)
(* of it: recursion, exceptions and slots used again, by the arguments'    *)
(* calls of traced code too, never run two invocations together.           *)
THEOREM PathsWereWalked ==
  ASSUME OwnAddresses, AllReceived, Driven, NoCallbacks, NoArgumentCalls
  PROVE  Spec => []PathHitsWalked
<1>1. RecordInv => PathHitsWalked
  BY DEF RecordInv, Faithful, PathsIn, PathHitsWalked, Reported
<1>2. RecordInv /\ [Next]_vars => RecordInv'
  BY RecordStep
<1> QED
  BY <1>1, <1>2, RecordInit, PTL DEF Spec

(* And no such walk goes unrecorded: until php_pcov_path_trace, stop or    *)
(* collect finishes it, its frame keeps it.                                *)
THEOREM PathsAreKept ==
  ASSUME OwnAddresses, AllReceived, Driven, NoCallbacks, NoArgumentCalls
  PROVE  Spec => []NoLostPath
<1>1. RecordInv => NoLostPath
  <2> SUFFICES ASSUME RecordInv, NEW w \in walked, w[3], w[2] \in Paths[w[1]]
               PROVE  \/ Home[w[1]] \in DOMAIN reached /\ w[2] \in reached[Home[w[1]]].paths
                      \/ \E k \in DOMAIN frames : k[2] = Home[w[1]] /\ frames[k].seq = w[2]
    BY DEF NoLostPath
  <2> QED
    BY DEF RecordInv, Faithful, NoneLost, Claimed, Hit, Waits
<1>2. RecordInv /\ [Next]_vars => RecordInv'
  BY RecordStep
<1> QED
  BY <1>1, <1>2, RecordInit, PTL DEF Spec

(* Where moreover control leaves the branches that have an exit only       *)
(* through it, the exit edges that php_pcov_frame_finalize records are     *)
(* those by which activations ended.                                       *)
THEOREM ExitsWereTaken ==
  ASSUME OwnAddresses, AllReceived, Driven, NoCallbacks, NoArgumentCalls, ExitsLeave
  PROVE  Spec => []ExitEdgesTaken
<1>1. RecordInv => ExitEdgesTaken
  BY DEF RecordInv, Faithful, ExitsIn, ExitEdgesTaken, Reported
<1>2. RecordInv /\ [Next]_vars => RecordInv'
  BY RecordStep
<1> QED
  BY <1>1, <1>2, RecordInit, PTL DEF Spec

================================================================================
