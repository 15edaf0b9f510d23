------------------------ MODULE PcovBranchPaths_proofs ------------------------
(***************************************************************************)
(* The paths of pcov_branch_info are the maximal walks that use no edge    *)
(* twice, each once, up to the cap.                                        *)
(*                                                                         *)
(* The state of the enumeration is the stack of invocations.  Each walks   *)
(* one branch further than its caller, along the out-edge the caller       *)
(* looked at last (Nested, Linked), so the invocations are the prefixes of *)
(* one walk and divide the others in two.  What comes before it in the     *)
(* order of the out-edges has its paths (Rooted, Branched, Covered), and   *)
(* nothing that comes after it has one yet (Later, Unseen, Scanned).       *)
(***************************************************************************)
EXTENDS PcovBranchInfo_proofs

Depth == Len(calls)

(* Invocation k is as it was.                                              *)
Kept(k) == calls'[k] = calls[k]

(* Invocation k has looked at one more out-edge.                           *)
Looked(k, found) ==
  /\ calls'[k].walk = calls[k].walk /\ calls'[k].i = calls[k].i + 1
  /\ calls'[k].found = found

LEMMA Edited ==
  ASSUME NEW S, NEW s \in Seq(S), s # <<>>, NEW x \in S
  PROVE  /\ Len([s EXCEPT ![Len(s)] = x]) = Len(s)
         /\ [s EXCEPT ![Len(s)] = x] \in Seq(S)
         /\ [s EXCEPT ![Len(s)] = x][Len(s)] = x
         /\ \A k \in 1 .. Len(s) - 1 : [s EXCEPT ![Len(s)] = x][k] = s[k]
<1>1. Len(s) \in Nat \ {0}
  BY EmptySeq
<1> QED BY <1>1, ExceptSeq

LEMMA Grown ==
  ASSUME NEW S, NEW s \in Seq(S), NEW x \in S
  PROVE  /\ Len(Append(s, x)) = Len(s) + 1 /\ Append(s, x) \in Seq(S)
         /\ Append(s, x)[Len(s) + 1] = x
         /\ \A k \in 1 .. Len(s) : Append(s, x)[k] = s[k]
OBVIOUS

(* The steps of the enumeration, invocation by invocation.                 *)
LEMMA AfterLook ==
  ASSUME TInv, calls # <<>>, Declines \/ IsCapped
  PROVE  /\ Depth' = Depth /\ UNCHANGED paths
         /\ \A k \in 1 .. Depth - 1 : Kept(k)
         /\ \/ IsCapped /\ Looked(Depth, TRUE)
            \/ Declines /\ Looked(Depth, Top.found)
<1> DEFINE moved == [Top EXCEPT !.i = @ + 1]
           going == [Top EXCEPT !.i = @ + 1, !.found = TRUE]
<1>1. /\ calls \in Seq(Invocations) /\ Top \in [walk : Walks, i : Nat \ {0}, found : BOOLEAN]
      /\ Top = calls[Len(calls)] /\ Len(calls) \in Nat \ {0}
  BY TopTyped DEF TInv, Invocations, Top
<1>2. /\ moved \in [walk : Walks, i : Nat \ {0}, found : BOOLEAN]
      /\ going \in [walk : Walks, i : Nat \ {0}, found : BOOLEAN]
      /\ moved.walk = Top.walk /\ moved.i = Top.i + 1 /\ moved.found = Top.found
      /\ going.walk = Top.walk /\ going.i = Top.i + 1 /\ going.found = TRUE
  <2>1. Top.i + 1 \in Nat \ {0}
    BY <1>1
  <2> QED BY <1>1, <2>1
<1>3. moved \in Invocations /\ going \in Invocations
  BY <1>2 DEF Invocations
<1> HIDE DEF moved, going
<1>4. CASE IsCapped
  <2>1. calls' = [calls EXCEPT ![Len(calls)] = going] /\ UNCHANGED paths
    BY <1>4 DEF IsCapped, going
  <2>2. /\ Len(calls') = Len(calls) /\ calls'[Len(calls)] = going
        /\ \A k \in 1 .. Len(calls) - 1 : calls'[k] = calls[k]
    BY <1>1, <1>3, <2>1, Edited
  <2> QED BY <1>1, <1>2, <1>4, <2>1, <2>2 DEF Depth, Kept, Looked
<1>5. CASE Declines
  <2>1. calls' = [calls EXCEPT ![Len(calls)] = moved] /\ UNCHANGED paths
    BY <1>5 DEF Declines, moved
  <2>2. /\ Len(calls') = Len(calls) /\ calls'[Len(calls)] = moved
        /\ \A k \in 1 .. Len(calls) - 1 : calls'[k] = calls[k]
    BY <1>1, <1>3, <2>1, Edited
  <2> QED BY <1>1, <1>2, <1>5, <2>1, <2>2 DEF Depth, Kept, Looked
<1> QED BY <1>4, <1>5

LEMMA AfterEnter ==
  ASSUME TInv, calls # <<>>, Enters
  PROVE  /\ Depth' = Depth + 1 /\ UNCHANGED paths
         /\ Tos[Top.i] \in Ops(opa) /\ Tos[Top.i] \in Int /\ Top.i \in 1 .. Len(Tos)
         /\ \A k \in 1 .. Depth - 1 : Kept(k)
         /\ Looked(Depth, TRUE)
         /\ calls'[Depth + 1] = [walk |-> Append(Top.walk, Tos[Top.i]), i |-> 1, found |-> FALSE]
<1> DEFINE going == [Top EXCEPT !.i = @ + 1, !.found = TRUE]
           o == Tos[Top.i]
           child == [walk |-> Append(Top.walk, o), i |-> 1, found |-> FALSE]
           edited == [calls EXCEPT ![Len(calls)] = going]
<1>1. /\ calls \in Seq(Invocations) /\ Top \in [walk : Walks, i : Nat \ {0}, found : BOOLEAN]
      /\ Top = calls[Len(calls)] /\ Len(calls) \in Nat \ {0} /\ Tos \in Seq(Int)
      /\ Top.walk \in Seq(Int) /\ Top.i \in Nat \ {0}
  BY TopTyped DEF TInv, Invocations, Top
<1>2. /\ going \in [walk : Walks, i : Nat \ {0}, found : BOOLEAN]
      /\ going.walk = Top.walk /\ going.i = Top.i + 1 /\ going.found = TRUE
  <2>1. Top.i + 1 \in Nat \ {0}
    BY <1>1
  <2> QED BY <1>1, <2>1
<1>3. going \in Invocations
  BY <1>2 DEF Invocations
<1>4. Top.i \in 1 .. Len(Tos) /\ o \in Int /\ o \in Ops(opa)
  <2>1. Top.i \in 1 .. Len(Tos)
    BY <1>1, LenProperties DEF Enters
  <2> QED BY <1>1, <2>1, ElementOfSeq DEF Enters, Follows
<1>5. child \in Invocations
  <2> HIDE DEF o
  <2>1. Append(Top.walk, o) \in Walks
    BY <1>1, <1>4, Prolonged DEF Walks
  <2> QED BY <2>1 DEF Invocations
<1>6. calls' = Append(edited, child) /\ UNCHANGED paths
  BY DEF Enters
<1> HIDE DEF going, child
<1>7. /\ Len(edited) = Len(calls) /\ edited \in Seq(Invocations) /\ edited[Len(calls)] = going
      /\ \A k \in 1 .. Len(calls) - 1 : edited[k] = calls[k]
  BY <1>1, <1>3, Edited
<1> HIDE DEF edited
<1>8. /\ Len(calls') = Len(calls) + 1 /\ calls'[Len(calls) + 1] = child
      /\ \A k \in 1 .. Len(calls) : calls'[k] = edited[k]
  BY <1>5, <1>6, <1>7, Grown
<1>9. calls'[Len(calls)] = going /\ \A k \in 1 .. Len(calls) - 1 : calls'[k] = calls[k]
  <2>1. Len(calls) \in 1 .. Len(calls) /\ \A k \in 1 .. Len(calls) - 1 : k \in 1 .. Len(calls)
    BY <1>1
  <2> QED BY <1>7, <1>8, <2>1, Zenon
<1> QED BY <1>1, <1>2, <1>4, <1>6, <1>8, <1>9 DEF Depth, Kept, Looked, child

LEMMA AfterReturn ==
  ASSUME TInv, calls # <<>>, Returns
  PROVE  /\ Depth' = Depth - 1
         /\ \A k \in 1 .. Depth - 1 : Kept(k)
         /\ paths' = IF Top.found THEN paths ELSE Append(paths, Top.walk)
BY FrontTyped DEF TInv, Returns, Depth, Kept

(* An entry point is the one branch of the first walk.                     *)
LEMMA AfterEntry ==
  ASSUME TInv, pcov_branch_find_paths
  PROVE  /\ phase = "paths" /\ calls = <<>> /\ Depth = 0 /\ UNCHANGED paths
         /\ UNCHANGED <<opa, analysisVars, ends, entry_points, outs, processVars>>
         /\ \/ /\ position < opa.last /\ position' = position + 1 /\ phase' = phase
               /\ position \in entry_points /\ Len(paths) < MaxPaths
               /\ Depth' = 1
               /\ calls'[1] = [walk |-> <<position>>, i |-> 1, found |-> FALSE]
            \/ /\ position < opa.last /\ position' = position + 1 /\ phase' = phase
               /\ position \notin entry_points \/ Len(paths) >= MaxPaths
               /\ calls' = <<>> /\ Depth' = 0
            \/ /\ position = opa.last /\ position' = position /\ phase' = "done"
               /\ calls' = <<>> /\ Depth' = 0
<1>1. /\ phase = "paths" /\ calls = <<>> /\ UNCHANGED paths
      /\ UNCHANGED <<opa, analysisVars, ends, entry_points, outs, processVars>>
  BY DEF pcov_branch_find_paths
<1>2. /\ position \in 0 .. opa.last /\ opa.last \in Nat /\ Len(<<>>) = 0
      /\ Len(paths) \in Nat /\ MaxPaths \in Nat
  BY ProgramsAssumption, LenProperties DEF TInv
<1>3. CASE position < opa.last
  <2>1. /\ position' = position + 1 /\ phase' = phase
        /\ calls' = IF position \in entry_points THEN Invoke(calls, <<position>>) ELSE calls
    BY <1>3 DEF pcov_branch_find_paths
  <2>2. CASE position \in entry_points /\ Len(paths) < MaxPaths
    <3> DEFINE first == [walk |-> <<position>>, i |-> 1, found |-> FALSE]
    <3>1. ~(Len(paths) >= MaxPaths)
      BY <1>2, <2>2
    <3>2. calls' = Append(<<>>, first)
      BY <1>1, <2>1, <2>2, <3>1 DEF Invoke
    <3>3. Len(Append(<<>>, first)) = 1 /\ Append(<<>>, first)[1] = first
      <4> HIDE DEF first
      <4> QED OBVIOUS
    <3> QED BY <1>1, <1>2, <1>3, <2>1, <2>2, <3>2, <3>3 DEF Depth
  <2>3. CASE ~(position \in entry_points /\ Len(paths) < MaxPaths)
    <3>1. calls' = <<>>
      BY <1>1, <1>2, <2>1, <2>3 DEF Invoke
    <3> QED BY <1>1, <1>2, <1>3, <2>1, <2>3, <3>1 DEF Depth
  <2> QED BY <2>2, <2>3
<1>4. CASE ~(position < opa.last)
  <2>1. calls' = <<>> /\ position' = position /\ phase' = "done" /\ position = opa.last
    BY <1>1, <1>2, <1>4 DEF pcov_branch_find_paths
  <2> QED BY <1>1, <1>2, <2>1 DEF Depth
<1> QED BY <1>3, <1>4


-----------------------------------------------------------------------------
(* The stack, invocation by invocation: its branch, the out-edges of it,   *)
(* and whether its walk can go on to o.                                    *)
At(k) == calls[k].walk[k]

Out(k) == outs[At(k)]

May(k, o) ==
  /\ o > 0 /\ o \in Ops(opa)
  /\ \A i \in 1 .. k - 1 : ~(At(i) = At(k) /\ At(i + 1) = o)

(* The walk of invocation k is the branches of the first k.                *)
Nested ==
  \A k \in 1 .. Depth :
    /\ Len(calls[k].walk) = k /\ At(k) \in Ops(opa)
    /\ \A j \in 1 .. k : calls[k].walk[j] = At(j)

(* Each follows the out-edge that the one below it looked at last.         *)
Linked ==
  /\ Depth > 0 => At(1) = position - 1 /\ At(1) \in entry_points
  /\ \A k \in 1 .. Depth - 1 :
       /\ calls[k].i > 1 /\ At(k + 1) = Out(k)[calls[k].i - 1] /\ May(k, At(k + 1))

(* One has found a way on exactly when it looked at an out-edge its walk   *)
(* can go on by.                                                           *)
Finding ==
  \A k \in 1 .. Depth :
    /\ calls[k].i <= Len(Out(k)) + 1
    /\ calls[k].found => \E j \in 1 .. calls[k].i - 1 : May(k, Out(k)[j])
    /\ ~calls[k].found => \A j \in 1 .. calls[k].i - 1 : ~May(k, Out(k)[j])

(* Only a call below the cap is an invocation, and only one that found no  *)
(* way on adds a path: while it runs there is room for it.                 *)
Capping ==
  /\ Len(paths) <= MaxPaths
  /\ Depth > 0 => calls[Depth].found \/ Len(paths) < MaxPaths

Phases ==
  /\ phase # "paths" => calls = <<>>
  /\ phase \notin {"paths", "done"} => paths = <<>>
  /\ phase = "done" => position = opa.last

NInv == Nested /\ Linked /\ Finding /\ Capping /\ Phases

LEMMA CallTyped ==
  ASSUME TInv
  PROVE  /\ Depth \in Nat /\ (calls = <<>> <=> Depth = 0) /\ Len(paths) \in Nat
         /\ \A k \in 1 .. Depth :
              /\ calls[k] \in Invocations /\ calls[k].walk \in Seq(Int)
              /\ Len(calls[k].walk) \in Nat \ {0} /\ LastOf(calls[k].walk) \in Ops(opa)
              /\ calls[k].i \in Nat \ {0} /\ calls[k].found \in BOOLEAN
<1>1. calls \in Seq(Invocations) /\ paths \in Seq(Seq(Int))
  BY DEF TInv
<1>2. Depth \in Nat /\ Len(paths) \in Nat /\ (calls = <<>> <=> Depth = 0)
  BY <1>1, LenProperties, EmptySeq DEF Depth
<1>3. ASSUME NEW k \in 1 .. Depth
      PROVE  /\ calls[k] \in Invocations /\ calls[k].walk \in Seq(Int)
             /\ Len(calls[k].walk) \in Nat \ {0} /\ LastOf(calls[k].walk) \in Ops(opa)
             /\ calls[k].i \in Nat \ {0} /\ calls[k].found \in BOOLEAN
  <2>1. calls[k] \in Invocations
    BY <1>1, <1>3, ElementOfSeq DEF Depth
  <2>2. calls[k].walk \in Walks
    BY <2>1 DEF Invocations
  <2>3. Len(calls[k].walk) \in Nat \ {0}
    BY <2>2, EmptySeq, LenProperties DEF Walks
  <2> QED BY <2>1, <2>2, <2>3 DEF Invocations, Walks
<1> QED BY <1>2, <1>3

(* While no walk of the first n invocations changes, neither does what is  *)
(* said of them.                                                           *)
LEMMA SameStack ==
  ASSUME NEW n \in Nat, UNCHANGED <<opa, outs>>,
         \A k \in 1 .. n : calls'[k].walk = calls[k].walk
  PROVE  \A k \in 1 .. n :
           /\ At(k)' = At(k) /\ Out(k)' = Out(k)
           /\ \A o : May(k, o)' <=> May(k, o)
           /\ \A j : May(k, Out(k)[j])' <=> May(k, Out(k)[j])
           /\ k + 1 \in 1 .. n => (May(k, At(k + 1))' <=> May(k, At(k + 1)))
<1>1. \A k \in 1 .. n : At(k)' = At(k)
  BY DEF At
<1>2. ASSUME NEW k \in 1 .. n, NEW o
      PROVE  May(k, o)' <=> May(k, o)
  <2>1. \A i \in 1 .. k - 1 : i \in 1 .. n /\ i + 1 \in 1 .. n
    OBVIOUS
  <2>2. Ops(opa)' = Ops(opa)
    BY DEF Ops
  <2> QED BY <1>1, <2>1, <2>2 DEF May
<1>3. \A k \in 1 .. n : Out(k)' = Out(k)
  BY <1>1 DEF Out
<1>4. ASSUME NEW k \in 1 .. n, NEW j
      PROVE  May(k, Out(k)[j])' <=> May(k, Out(k)[j])
  <2>1. \A i \in 1 .. k - 1 : i \in 1 .. n /\ i + 1 \in 1 .. n
    OBVIOUS
  <2> QED BY <1>1, <1>3, <2>1 DEF May, Ops
<1>5. ASSUME NEW k \in 1 .. n, k + 1 \in 1 .. n
      PROVE  May(k, At(k + 1))' <=> May(k, At(k + 1))
  <2>1. \A i \in 1 .. k - 1 : i \in 1 .. n /\ i + 1 \in 1 .. n
    OBVIOUS
  <2> QED BY <1>1, <1>5, <2>1 DEF May, Ops
<1> QED BY <1>1, <1>2, <1>3, <1>4, <1>5

(* The innermost invocation goes on where the stack says it may.           *)
LEMMA FollowsIsMay ==
  ASSUME TInv, Nested, calls # <<>>, NEW o
  PROVE  /\ LastOf(Top.walk) = At(Depth) /\ Tos = Out(Depth)
         /\ Follows(Top.walk, o) <=> May(Depth, o)
<1>1. /\ Depth \in Nat \ {0} /\ Top = calls[Depth] /\ Len(Top.walk) = Depth
      /\ \A j \in 1 .. Depth : Top.walk[j] = At(j)
  BY CallTyped DEF Nested, Top, Depth
<1>2. LastOf(Top.walk) = At(Depth)
  BY <1>1 DEF LastOf
<1>3. pcov_path_edge_exists(Top.walk, LastOf(Top.walk), o)
      <=> \E i \in 1 .. Depth - 1 : At(i) = At(Depth) /\ At(i + 1) = o
  <2>1. \A i \in 1 .. Depth - 1 : i \in 1 .. Depth /\ i + 1 \in 1 .. Depth
    BY <1>1
  <2>2. \A i \in 1 .. Depth - 1 : Top.walk[i] = At(i) /\ Top.walk[i + 1] = At(i + 1)
    BY <1>1, <2>1
  <2> HIDE DEF At
  <2> QED BY <1>1, <1>2, <2>2 DEF pcov_path_edge_exists
<1> QED BY <1>2, <1>3 DEF Follows, May, Tos, Out

-----------------------------------------------------------------------------
(* The steps of the enumeration in these terms.                            *)

Still == UNCHANGED <<opa, phase, position, entry_points, outs>>

Looks(found) ==
  /\ Still /\ UNCHANGED paths /\ phase = "paths" /\ Depth > 0 /\ Depth' = Depth
  /\ calls[Depth].i <= Len(Out(Depth))
  /\ \A k \in 1 .. Depth - 1 : Kept(k)
  /\ Looked(Depth, found)

(* Its next out-edge is none to go on by.                                  *)
Passes == Looks(Top.found) /\ ~May(Depth, Out(Depth)[Top.i])

(* It is, and the call returns at once.                                    *)
Refused == Looks(TRUE) /\ May(Depth, Out(Depth)[Top.i]) /\ Len(paths) >= MaxPaths

(* It is, and there is a new invocation.                                   *)
Descends ==
  /\ Still /\ UNCHANGED paths /\ phase = "paths" /\ Depth > 0 /\ Depth' = Depth + 1
  /\ Top.i <= Len(Out(Depth)) /\ May(Depth, Out(Depth)[Top.i]) /\ Len(paths) < MaxPaths
  /\ \A k \in 1 .. Depth - 1 : Kept(k)
  /\ Looked(Depth, TRUE)
  /\ Len(calls'[Depth + 1].walk) = Depth + 1
  /\ \A j \in 1 .. Depth : calls'[Depth + 1].walk[j] = At(j)
  /\ calls'[Depth + 1].walk[Depth + 1] = Out(Depth)[Top.i]
  /\ calls'[Depth + 1].i = 1 /\ calls'[Depth + 1].found = FALSE

(* It has looked at all of them.                                           *)
Ascends ==
  /\ Still /\ phase = "paths" /\ Depth > 0 /\ Depth' = Depth - 1
  /\ Top.i > Len(Out(Depth))
  /\ \A k \in 1 .. Depth - 1 : Kept(k)
  /\ paths' = IF Top.found THEN paths ELSE Append(paths, Top.walk)

(* An entry point is invoked, is none or comes too late; all were there.   *)
Begins ==
  /\ UNCHANGED <<opa, phase, entry_points, outs, paths>> /\ phase = "paths"
  /\ Depth = 0 /\ Depth' = 1 /\ Len(paths) < MaxPaths
  /\ position < opa.last /\ position' = position + 1 /\ position \in entry_points
  /\ Len(calls'[1].walk) = 1 /\ calls'[1].walk[1] = position
  /\ calls'[1].i = 1 /\ calls'[1].found = FALSE

Continues ==
  /\ UNCHANGED <<opa, phase, entry_points, outs, paths>> /\ phase = "paths"
  /\ Depth = 0 /\ Depth' = 0
  /\ position < opa.last /\ position' = position + 1
  /\ position \notin entry_points \/ Len(paths) >= MaxPaths

Finishes ==
  /\ UNCHANGED <<opa, entry_points, outs, paths>> /\ phase = "paths" /\ phase' = "done"
  /\ Depth = 0 /\ Depth' = 0 /\ position = opa.last /\ position' = position

(* The steps before it, the last of which leads to its first.              *)
Precedes ==
  /\ phase \in {"analysis", "process"} /\ phase' \in {"analysis", "process", "paths"}
  /\ phase' = "paths" => position' = 0
  /\ UNCHANGED <<opa, calls, paths>> /\ Depth = 0 /\ Depth' = 0

Idles == Still /\ UNCHANGED pathVars /\ Depth' = Depth

LEMMA EnumerationSteps ==
  ASSUME TInv, NInv, [Next]_vars
  PROVE  \/ Passes \/ Refused \/ Descends \/ Ascends
         \/ Begins \/ Continues \/ Finishes \/ Precedes \/ Idles
<1>1. CASE pcov_branch_find_path
  <2>1. /\ phase = "paths" /\ calls # <<>> /\ Still
        /\ Declines \/ IsCapped \/ Enters \/ Returns
    BY <1>1, PathSteps DEF Still
  <2>2. /\ Depth \in Nat \ {0} /\ Depth > 0 /\ Top = calls[Depth] /\ Top.walk = calls[Depth].walk
        /\ Top.found \in BOOLEAN
    BY <2>1, CallTyped DEF Top, Depth
  <2>3. /\ Tos = Out(Depth) /\ \A o : Follows(Top.walk, o) <=> May(Depth, o)
        /\ Nested
    BY <2>1, FollowsIsMay DEF NInv
  <2>4. CASE Declines
    <3>1. /\ Depth' = Depth /\ UNCHANGED paths
          /\ \A k \in 1 .. Depth - 1 : Kept(k)
          /\ \/ IsCapped /\ Looked(Depth, TRUE)
             \/ Declines /\ Looked(Depth, Top.found)
      BY <2>1, <2>4, AfterLook
    <3>2. /\ calls[Depth].i <= Len(Out(Depth)) /\ ~May(Depth, Out(Depth)[Top.i])
          /\ ~IsCapped
      BY <2>2, <2>3, <2>4 DEF Declines, IsCapped
    <3>3. Looks(Top.found)
      BY <2>1, <2>2, <3>1, <3>2 DEF Looks
    <3> QED BY <3>2, <3>3 DEF Passes
  <2>5. CASE IsCapped
    <3>1. /\ Depth' = Depth /\ UNCHANGED paths
          /\ \A k \in 1 .. Depth - 1 : Kept(k)
          /\ \/ IsCapped /\ Looked(Depth, TRUE)
             \/ Declines /\ Looked(Depth, Top.found)
      BY <2>1, <2>5, AfterLook
    <3>2. /\ calls[Depth].i <= Len(Out(Depth)) /\ May(Depth, Out(Depth)[Top.i])
          /\ ~Declines /\ Len(paths) >= MaxPaths
      BY <2>2, <2>3, <2>5 DEF Declines, IsCapped
    <3>3. Looks(TRUE)
      BY <2>1, <2>2, <3>1, <3>2 DEF Looks
    <3> QED BY <3>2, <3>3 DEF Refused
  <2>6. CASE Enters
    <3> DEFINE o == Tos[Top.i]
    <3>1. /\ Depth' = Depth + 1 /\ UNCHANGED paths /\ o \in Int
          /\ \A k \in 1 .. Depth - 1 : Kept(k)
          /\ Looked(Depth, TRUE)
          /\ calls'[Depth + 1] = [walk |-> Append(Top.walk, o), i |-> 1, found |-> FALSE]
      BY <2>1, <2>6, AfterEnter
    <3>2. /\ Top.walk \in Seq(Int) /\ Len(Top.walk) = Depth
          /\ \A j \in 1 .. Depth : Top.walk[j] = At(j)
      BY <2>2, <2>3, CallTyped DEF Nested
    <3> HIDE DEF o
    <3>3. /\ Len(Append(Top.walk, o)) = Depth + 1 /\ Append(Top.walk, o)[Depth + 1] = o
          /\ \A j \in 1 .. Depth : Append(Top.walk, o)[j] = At(j)
      BY <3>1, <3>2, Grown
    <3>4. /\ calls'[Depth + 1].walk = Append(Top.walk, o)
          /\ calls'[Depth + 1].i = 1 /\ calls'[Depth + 1].found = FALSE
      BY <3>1
    <3>5. o = Out(Depth)[Top.i] /\ Top.i <= Len(Out(Depth)) /\ May(Depth, o)
          /\ Len(paths) < MaxPaths
      BY <2>3, <2>6 DEF o, Enters
    <3>6. Descends
      BY <2>1, <2>2, <3>1, <3>3, <3>4, <3>5 DEF Descends
    <3> QED BY <3>6
  <2>7. CASE Returns
    BY <2>1, <2>2, <2>3, <2>7, AfterReturn DEF Returns, Ascends
  <2> QED BY <2>1, <2>4, <2>5, <2>6, <2>7
<1>2. CASE pcov_branch_find_paths
  <2>1. /\ phase = "paths" /\ Depth = 0 /\ UNCHANGED <<opa, entry_points, outs, paths>>
        /\ \/ /\ position < opa.last /\ position' = position + 1 /\ phase' = phase
              /\ position \in entry_points /\ Len(paths) < MaxPaths
              /\ Depth' = 1
              /\ calls'[1] = [walk |-> <<position>>, i |-> 1, found |-> FALSE]
           \/ /\ position < opa.last /\ position' = position + 1 /\ phase' = phase
              /\ position \notin entry_points \/ Len(paths) >= MaxPaths
              /\ Depth' = 0
           \/ /\ position = opa.last /\ position' = position /\ phase' = "done"
              /\ Depth' = 0
    BY <1>2, AfterEntry
  <2>2. Len(<<position>>) = 1 /\ <<position>>[1] = position
    OBVIOUS
  <2>3. CASE Depth' = 1
    BY <2>1, <2>2, <2>3 DEF Begins
  <2>4. CASE Depth' # 1
    BY <2>1, <2>4 DEF Continues, Finishes
  <2> QED BY <2>3, <2>4
<1>3. CASE pcov_analysis_branch \/ pcov_analysis_oparray \/ pcov_branch_post_process
  <2>1. phase \in {"analysis", "process"} /\ UNCHANGED <<opa, calls, paths>>
    BY <1>3 DEF pcov_analysis_branch, pcov_analysis_oparray, pcov_branch_post_process,
                pathVars
  <2>2. /\ phase' \in {"analysis", "process", "paths"}
        /\ phase' = "paths" => position' = 0
    BY <1>3 DEF pcov_analysis_branch, pcov_analysis_oparray, pcov_branch_post_process
  <2>3. Depth = 0 /\ Depth' = 0
    BY <2>1, CallTyped DEF NInv, Phases, Depth
  <2> QED BY <2>1, <2>2, <2>3 DEF Precedes
<1>4. CASE UNCHANGED vars
  BY <1>4 DEF vars, pathVars, Idles, Still, Depth
<1> QED BY <1>1, <1>2, <1>3, <1>4 DEF Next

LEMMA NestedInit == Init => NInv
<1>1. Init => calls = <<>> /\ paths = <<>> /\ phase = "analysis"
  BY DEF Init
<1>2. Len(<<>>) = 0 /\ MaxPaths \in Nat
  BY ProgramsAssumption
<1> QED BY <1>1, <1>2 DEF NInv, Nested, Linked, Finding, Capping, Phases, Depth

(* An invocation that looks at one more out-edge.                          *)
LEMMA LookNested ==
  ASSUME TInv, NInv, NEW f \in BOOLEAN, Looks(f),
         Top.found \/ May(Depth, Out(Depth)[Top.i]) => f,
         f => Top.found \/ May(Depth, Out(Depth)[Top.i]),
         f \/ Len(paths) < MaxPaths
  PROVE  NInv'
<1>1. /\ Depth \in Nat \ {0} /\ Depth' = Depth /\ Top = calls[Depth]
      /\ \A k \in 1 .. Depth : calls[k].i \in Nat \ {0} /\ calls[k].found \in BOOLEAN
      /\ UNCHANGED <<opa, phase, position, entry_points, outs, paths>> /\ phase = "paths"
  BY CallTyped DEF Looks, Still, Top, Depth
<1>2. /\ \A k \in 1 .. Depth : calls'[k].walk = calls[k].walk
      /\ \A k \in 1 .. Depth - 1 : calls'[k].i = calls[k].i /\ calls'[k].found = calls[k].found
      /\ calls'[Depth].i = calls[Depth].i + 1 /\ calls'[Depth].found = f
  BY <1>1 DEF Looks, Looked, Kept
<1>3. \A k \in 1 .. Depth :
        /\ At(k)' = At(k) /\ Out(k)' = Out(k)
        /\ \A o : May(k, o)' <=> May(k, o)
  <2>1. Depth \in Nat /\ UNCHANGED <<opa, outs>>
    BY <1>1
  <2> QED BY <1>2, <2>1, SameStack
<1>4. Nested'
  <2>1. \A k \in 1 .. Depth :
          /\ Len(calls'[k].walk) = k /\ At(k)' \in Ops(opa)
          /\ \A j \in 1 .. k : calls'[k].walk[j] = At(j)'
    BY <1>1, <1>2, <1>3 DEF NInv, Nested
  <2> QED BY <1>1, <2>1 DEF Nested, Ops
<1>5. Linked'
  <2>1. At(1)' = position - 1 /\ At(1)' \in entry_points
    BY <1>1, <1>3 DEF NInv, Linked
  <2>2. ASSUME NEW k \in 1 .. Depth - 1
        PROVE  /\ calls'[k].i > 1 /\ At(k + 1)' = Out(k)'[calls'[k].i - 1]
               /\ May(k, At(k + 1))'
    <3>1. k \in 1 .. Depth /\ k + 1 \in 1 .. Depth
      BY <1>1
    <3>2. calls[k].i > 1 /\ At(k + 1) = Out(k)[calls[k].i - 1] /\ May(k, At(k + 1))
      BY DEF NInv, Linked
    <3>3. At(k + 1)' = At(k + 1) /\ (\A o : May(k, o)' <=> May(k, o))
      BY <1>3, <3>1
    <3>4. May(k, At(k + 1))' <=> May(k, At(k + 1))
      BY <3>3, <1>1, <1>3, <3>1 DEF May, Ops
    <3> QED BY <1>2, <1>3, <3>1, <3>2, <3>3, <3>4
  <2> QED BY <1>1, <2>1, <2>2 DEF Linked
<1>6. Finding'
  <2>1. ASSUME NEW k \in 1 .. Depth
        PROVE  /\ calls'[k].i <= Len(Out(k)') + 1
               /\ calls'[k].found => \E j \in 1 .. calls'[k].i - 1 : May(k, Out(k)[j])
               /\ ~calls'[k].found => \A j \in 1 .. calls'[k].i - 1 : ~May(k, Out(k)[j])
    <3>1. /\ calls[k].i <= Len(Out(k)) + 1 /\ calls[k].i \in Nat \ {0}
          /\ calls[k].found => \E j \in 1 .. calls[k].i - 1 : May(k, Out(k)[j])
          /\ ~calls[k].found => \A j \in 1 .. calls[k].i - 1 : ~May(k, Out(k)[j])
      BY <1>1 DEF NInv, Finding
    <3>2. CASE k # Depth
      BY <1>1, <1>2, <1>3, <3>1, <3>2
    <3>3. CASE k = Depth
      <4>1. /\ calls'[k].i = calls[k].i + 1 /\ calls'[k].found = f
            /\ calls[k].i <= Len(Out(k)) /\ Out(k)' = Out(k)
            /\ Len(Out(k)) \in Nat
        BY <1>1, <1>2, <1>3, <3>3, TopTyped, FollowsIsMay, CallTyped, LenProperties
           DEF Looks, NInv
      <4>2. 1 .. calls'[k].i - 1 = (1 .. calls[k].i - 1) \union {calls[k].i}
        BY <3>1, <4>1
      <4>3. ASSUME f
            PROVE  \E j \in 1 .. calls'[k].i - 1 : May(k, Out(k)[j])
        <5>1. Top.found \/ May(Depth, Out(Depth)[Top.i])
          BY <4>3
        <5> QED BY <1>1, <3>1, <3>3, <4>2, <5>1
      <4>4. ASSUME ~f
            PROVE  \A j \in 1 .. calls'[k].i - 1 : ~May(k, Out(k)[j])
        <5>1. ~Top.found /\ ~May(Depth, Out(Depth)[Top.i])
          BY <4>4
        <5> QED BY <1>1, <3>1, <3>3, <4>2, <5>1
      <4> QED BY <3>1, <4>1, <4>3, <4>4
    <3> QED BY <3>2, <3>3
  <2>2. \A k \in 1 .. Depth : \A j : May(k, Out(k)[j]) <=> May(k, Out(k)[j])'
    BY <1>1, <1>3 DEF May, Ops
  <2> QED BY <1>1, <2>1, <2>2 DEF Finding
<1>7. Capping'
  BY <1>1, <1>2 DEF NInv, Capping
<1>8. Phases'
  BY <1>1 DEF NInv, Phases
<1> QED BY <1>4, <1>5, <1>6, <1>7, <1>8 DEF NInv

(* One more invocation, along an out-edge its caller may take.             *)
LEMMA DescendNested ==
  ASSUME TInv, TInv', NInv, Descends, NEW d \in Nat, d = Depth
  PROVE  NInv' /\ At(d + 1)' = Out(d)[calls[d].i]
<1>1. /\ d \in Nat \ {0} /\ Depth' = d + 1 /\ Top = calls[d]
      /\ \A k \in 1 .. d : calls[k].i \in Nat \ {0} /\ calls[k].found \in BOOLEAN
      /\ UNCHANGED <<opa, phase, position, entry_points, outs, paths>> /\ phase = "paths"
  <2>1. /\ d \in Nat \ {0} /\ Depth' = d + 1 /\ Top = calls[d]
        /\ UNCHANGED <<opa, phase, position, entry_points, outs, paths>> /\ phase = "paths"
    BY CallTyped DEF Descends, Still, Top, Depth
  <2>2. \A k \in 1 .. d : calls[k].i \in Nat \ {0} /\ calls[k].found \in BOOLEAN
    BY CallTyped
  <2> QED BY <2>1, <2>2
<1>2. /\ \A k \in 1 .. d : calls'[k].walk = calls[k].walk
      /\ \A k \in 1 .. d - 1 : calls'[k].i = calls[k].i /\ calls'[k].found = calls[k].found
      /\ calls'[d].i = calls[d].i + 1 /\ calls'[d].found = TRUE
      /\ calls'[d + 1].i = 1 /\ calls'[d + 1].found = FALSE
  <2>1. \A k \in 1 .. d - 1 : calls'[k] = calls[k]
    BY DEF Descends, Kept
  <2>2. /\ calls'[d].walk = calls[d].walk /\ calls'[d].i = calls[d].i + 1
        /\ calls'[d].found = TRUE
        /\ calls'[d + 1].i = 1 /\ calls'[d + 1].found = FALSE
    BY DEF Descends, Looked
  <2>3. \A k \in 1 .. d : k \in 1 .. d - 1 \/ k = d
    BY <1>1
  <2> QED BY <2>1, <2>2, <2>3
<1>3. \A k \in 1 .. d :
        /\ At(k)' = At(k) /\ Out(k)' = Out(k)
        /\ \A o : May(k, o)' <=> May(k, o)
        /\ \A j : May(k, Out(k)[j])' <=> May(k, Out(k)[j])
        /\ k + 1 \in 1 .. d => (May(k, At(k + 1))' <=> May(k, At(k + 1)))
  <2>1. d \in Nat /\ UNCHANGED <<opa, outs>>
    BY <1>1
  <2> QED BY <1>2, <2>1, SameStack
<1>4. /\ May(d, Out(d)[calls[d].i]) /\ calls[d].i <= Len(Out(d))
      /\ Out(d)[calls[d].i] \in Ops(opa) /\ Len(paths) < MaxPaths
      /\ Len(calls'[d + 1].walk) = d + 1
      /\ \A j \in 1 .. d : calls'[d + 1].walk[j] = At(j)
      /\ calls'[d + 1].walk[d + 1] = Out(d)[calls[d].i]
  BY <1>1 DEF Descends, May
<1>5. At(d + 1)' = Out(d)[calls[d].i]
  BY <1>4 DEF At
<1>6. Ops(opa)' = Ops(opa) /\ 1 .. d + 1 = (1 .. d) \union {d + 1}
      /\ 1 .. d = (1 .. d - 1) \union {d} /\ Top' = calls'[d + 1]
  BY <1>1 DEF Ops, Top, Depth
<1>7. Nested'
  <2>1. \A k \in 1 .. d :
          /\ Len(calls'[k].walk) = k /\ At(k)' \in Ops(opa)
          /\ \A j \in 1 .. k : calls'[k].walk[j] = At(j)'
    <3>1. \A k \in 1 .. d :
            /\ Len(calls[k].walk) = k /\ At(k) \in Ops(opa)
            /\ \A j \in 1 .. k : calls[k].walk[j] = At(j)
      BY DEF NInv, Nested
    <3>2. \A k \in 1 .. d : \A j \in 1 .. k : j \in 1 .. d
      OBVIOUS
    <3> QED BY <1>2, <1>3, <3>1, <3>2
  <2>2. /\ Len(calls'[d + 1].walk) = d + 1 /\ At(d + 1)' \in Ops(opa)
        /\ \A j \in 1 .. d + 1 : calls'[d + 1].walk[j] = At(j)'
    BY <1>1, <1>3, <1>4, <1>5, <1>6
  <2> QED BY <1>1, <1>6, <2>1, <2>2 DEF Nested
<1>8. Linked'
  <2>1. At(1)' = position - 1 /\ At(1)' \in entry_points
    BY <1>1, <1>3 DEF NInv, Linked
  <2>2. ASSUME NEW k \in 1 .. d
        PROVE  /\ calls'[k].i > 1 /\ At(k + 1)' = Out(k)'[calls'[k].i - 1]
               /\ May(k, At(k + 1))'
    <3>1. CASE k = d
      <4>1. calls'[k].i > 1 /\ calls'[k].i - 1 = calls[k].i
        BY <1>1, <1>2, <3>1
      <4>2. k \in 1 .. d /\ At(k + 1)' = Out(k)'[calls'[k].i - 1]
        BY <1>1, <1>3, <1>5, <3>1, <4>1
      <4>3. May(k, At(k + 1))'
        <5>1. \A i \in 1 .. k - 1 : i \in 1 .. d /\ i + 1 \in 1 .. d
          BY <1>1, <3>1
        <5> QED BY <1>3, <1>4, <1>5, <1>6, <3>1, <4>2, <5>1 DEF May
      <4> QED BY <4>1, <4>2, <4>3
    <3>2. CASE k \in 1 .. d - 1
      <4>1. k \in 1 .. d /\ k + 1 \in 1 .. d
        BY <1>1, <3>2
      <4>2. calls[k].i > 1 /\ At(k + 1) = Out(k)[calls[k].i - 1] /\ May(k, At(k + 1))
        BY <3>2 DEF NInv, Linked
      <4> QED BY <1>2, <1>3, <3>2, <4>1, <4>2
    <3> QED BY <1>1, <3>1, <3>2
  <2> QED BY <1>1, <2>1, <2>2 DEF Linked
<1>9. Finding'
  <2>1. ASSUME NEW k \in 1 .. d
        PROVE  /\ calls'[k].i <= Len(Out(k)') + 1
               /\ calls'[k].found => \E j \in 1 .. calls'[k].i - 1 : May(k, Out(k)[j])
               /\ ~calls'[k].found => \A j \in 1 .. calls'[k].i - 1 : ~May(k, Out(k)[j])
    <3>1. /\ calls[k].i <= Len(Out(k)) + 1 /\ calls[k].i \in Nat \ {0}
          /\ calls[k].found => \E j \in 1 .. calls[k].i - 1 : May(k, Out(k)[j])
          /\ ~calls[k].found => \A j \in 1 .. calls[k].i - 1 : ~May(k, Out(k)[j])
      BY <1>1 DEF NInv, Finding
    <3>2. CASE k # d
      <4>1. calls'[k].i = calls[k].i /\ calls'[k].found = calls[k].found
        BY <1>1, <1>2, <3>2
      <4>2. Out(k)' = Out(k)
        BY <1>3
      <4> QED BY <3>1, <4>1, <4>2
    <3>3. CASE k = d
      <4>1. /\ calls'[k].i = calls[k].i + 1 /\ calls'[k].found = TRUE
            /\ calls[k].i <= Len(Out(k)) /\ Out(k)' = Out(k) /\ Len(Out(k)) \in Nat
        <5>1. Len(Out(d)) \in Nat
          BY <1>1, TopTyped, FollowsIsMay, CallTyped, LenProperties DEF NInv
        <5>2. calls'[d].i = calls[d].i + 1 /\ calls'[d].found = TRUE
          BY <1>2
        <5>3. calls[d].i <= Len(Out(d))
          BY <1>4
        <5>4. Out(d)' = Out(d)
          BY <1>1, <1>3
        <5> QED BY <3>3, <5>1, <5>2, <5>3, <5>4
      <4>2. May(k, Out(k)[calls[k].i]) /\ calls[k].i \in 1 .. calls'[k].i - 1
        BY <1>4, <3>1, <3>3, <4>1, SMTT(20)
      <4> QED BY <4>1, <4>2
    <3> QED BY <3>2, <3>3
  <2>3. /\ calls'[d + 1].i <= Len(Out(d + 1)') + 1
        /\ ~calls'[d + 1].found /\ 1 .. calls'[d + 1].i - 1 = {}
    <3>1. Len(Out(d + 1)') \in Nat
      <4>1. At(d + 1)' \in Ops(opa)'
        BY <1>4, <1>5, <1>6
      <4> QED BY <4>1, LenProperties DEF Out, TInv, OutLists
    <3> QED BY <1>2, <3>1
  <2> QED BY <1>1, <1>6, <1>3, <2>1, <2>3 DEF Finding
<1>10. Capping'
  BY <1>1, <1>4 DEF NInv, Capping
<1>11. Phases'
  BY <1>1 DEF NInv, Phases
<1> QED BY <1>1, <1>5, <1>6, <1>7, <1>8, <1>9, <1>10, <1>11 DEF NInv

(* A caller has found a way on: the one it called for.                     *)
LEMMA CallersFind ==
  ASSUME TInv, NInv
  PROVE  \A k \in 1 .. Depth - 1 : calls[k].found
<1>1. Depth \in Nat /\ \A k \in 1 .. Depth : calls[k].i \in Nat \ {0}
  BY CallTyped
<1>2. ASSUME NEW k \in 1 .. Depth - 1
      PROVE  calls[k].found
  <2>1. k \in 1 .. Depth
    BY <1>1
  <2>2. calls[k].i - 1 \in 1 .. calls[k].i - 1 /\ May(k, Out(k)[calls[k].i - 1])
    BY <1>1, <2>1 DEF NInv, Linked
  <2> QED BY <2>1, <2>2 DEF NInv, Finding
<1> QED BY <1>2

(* One invocation less.                                                    *)
LEMMA AscendNested ==
  ASSUME TInv, NInv, Ascends, NEW d \in Nat, d = Depth
  PROVE  /\ NInv' /\ calls[d].walk \in Seq(Int) /\ Top = calls[d]
         /\ calls[d].found => paths' = paths
         /\ ~calls[d].found => paths' = Append(paths, calls[d].walk) /\ Len(paths) < MaxPaths
<1>1. /\ d \in Nat \ {0} /\ Depth' = d - 1 /\ Top = calls[d]
      /\ calls[d].found \in BOOLEAN /\ calls[d].walk \in Seq(Int)
      /\ UNCHANGED <<opa, phase, position, entry_points, outs>> /\ phase = "paths"
  BY CallTyped DEF Ascends, Still, Top, Depth
<1>2. \A k \in 1 .. d - 1 : calls'[k] = calls[k]
  BY DEF Ascends, Kept
<1>3. \A k \in 1 .. d - 1 :
        /\ At(k)' = At(k) /\ Out(k)' = Out(k)
        /\ \A o : May(k, o)' <=> May(k, o)
        /\ \A j : May(k, Out(k)[j])' <=> May(k, Out(k)[j])
        /\ k + 1 \in 1 .. d - 1 => (May(k, At(k + 1))' <=> May(k, At(k + 1)))
  <2>1. d - 1 \in Nat /\ UNCHANGED <<opa, outs>>
    BY <1>1
  <2>2. \A k \in 1 .. d - 1 : calls'[k].walk = calls[k].walk
    BY <1>2
  <2> QED BY <2>1, <2>2, SameStack
<1>4. /\ calls[d].found => paths' = paths
      /\ ~calls[d].found => paths' = Append(paths, calls[d].walk) /\ Len(paths) < MaxPaths
  BY <1>1 DEF Ascends, NInv, Capping
<1>5. Nested'
  <2>1. \A k \in 1 .. d - 1 :
          /\ Len(calls[k].walk) = k /\ At(k) \in Ops(opa)
          /\ \A j \in 1 .. k : calls[k].walk[j] = At(j)
    BY <1>1 DEF NInv, Nested
  <2>2. \A k \in 1 .. d - 1 : \A j \in 1 .. k : j \in 1 .. d - 1
    BY <1>1
  <2>3. Ops(opa)' = Ops(opa)
    BY <1>1 DEF Ops
  <2> QED BY <1>1, <1>2, <1>3, <2>1, <2>2, <2>3, SMTT(20) DEF Nested
<1>6. Linked'
  <2>1. Depth' > 0 => At(1)' = position' - 1 /\ At(1)' \in entry_points'
    BY <1>1, <1>3 DEF NInv, Linked
  <2>2. ASSUME NEW k \in 1 .. Depth' - 1
        PROVE  /\ calls'[k].i > 1 /\ At(k + 1)' = Out(k)'[calls'[k].i - 1]
               /\ May(k, At(k + 1))'
    <3>1. k \in 1 .. d - 1 /\ k + 1 \in 1 .. d - 1
      BY <1>1
    <3>2. calls[k].i > 1 /\ At(k + 1) = Out(k)[calls[k].i - 1] /\ May(k, At(k + 1))
      BY <1>1, <3>1 DEF NInv, Linked
    <3> QED BY <1>2, <1>3, <3>1, <3>2
  <2> QED BY <2>1, <2>2 DEF Linked
<1>7. Finding'
  <2>1. \A k \in 1 .. d - 1 :
          /\ calls[k].i <= Len(Out(k)) + 1
          /\ calls[k].found => \E j \in 1 .. calls[k].i - 1 : May(k, Out(k)[j])
          /\ ~calls[k].found => \A j \in 1 .. calls[k].i - 1 : ~May(k, Out(k)[j])
    <3>1. \A k \in 1 .. d - 1 : k \in 1 .. Depth
      BY <1>1
    <3> QED BY <3>1 DEF NInv, Finding
  <2> QED BY <1>1, <1>2, <1>3, <2>1 DEF Finding
<1>8. Capping'
  <2>1. Depth' > 0 => calls'[Depth'].found
    BY <1>1, <1>2, CallersFind
  <2>2. Len(paths') <= MaxPaths
    <3>1. Len(paths) \in Nat /\ MaxPaths \in Nat /\ Len(paths) <= MaxPaths
          /\ Len(Append(paths, calls[d].walk)) = Len(paths) + 1
      BY CallTyped, ProgramsAssumption, <1>1 DEF TInv, NInv, Capping
    <3> QED BY <1>1, <1>4, <3>1
  <2> QED BY <2>1, <2>2 DEF Capping
<1>9. Phases'
  BY <1>1 DEF NInv, Phases
<1> QED BY <1>1, <1>4, <1>5, <1>6, <1>7, <1>8, <1>9 DEF NInv

LEMMA BeginNested ==
  ASSUME TInv, TInv', NInv, Begins
  PROVE  NInv' /\ At(1)' = position
<1>1. /\ Depth = 0 /\ Depth' = 1 /\ phase' = "paths" /\ position' = position + 1
      /\ position \in entry_points /\ entry_points' = entry_points
      /\ position \in Ops(opa) /\ Ops(opa)' = Ops(opa) /\ position \in Nat
      /\ UNCHANGED <<outs, paths>>
  BY ProgramsAssumption DEF Begins, TInv, Ops
<1>2. /\ Len(calls'[1].walk) = 1 /\ calls'[1].walk[1] = position /\ calls'[1].i = 1
      /\ ~calls'[1].found /\ At(1)' = position
  BY DEF Begins, At
<1>3. Nested' /\ Linked'
  BY <1>1, <1>2 DEF Nested, Linked
<1>4. Finding'
  <2>1. Len(Out(1)') \in Nat
    <3>1. At(1)' \in Ops(opa)' /\ outs' \in [Ops(opa)' -> OutLists]
      BY <1>1, <1>2 DEF TInv
    <3> QED BY <3>1, LenProperties DEF Out, OutLists
  <2> QED BY <1>1, <1>2, <2>1 DEF Finding
<1>5. Capping' /\ Phases'
  BY <1>1, <1>2 DEF Capping, Phases, Begins, NInv
<1> QED BY <1>2, <1>3, <1>4, <1>5 DEF NInv

(* Steps that leave no invocation.                                         *)
LEMMA RestNested ==
  ASSUME TInv, TInv', NInv, Continues \/ Finishes \/ Precedes
  PROVE  NInv'
<1>1. Depth' = 0 /\ UNCHANGED paths /\ calls' = <<>>
  <2>1. Depth' = 0 => calls' = <<>>
    BY EmptySeq DEF TInv, Depth
  <2> QED BY <2>1 DEF Continues, Finishes, Precedes
<1>2. Nested' /\ Linked' /\ Finding' /\ Capping'
  BY <1>1 DEF Nested, Linked, Finding, Capping, NInv
<1>3. Phases'
  <2>1. phase \in {"analysis", "process"} => paths = <<>>
    BY DEF NInv, Phases
  <2> QED BY <1>1, <2>1 DEF Phases, Continues, Finishes, Precedes
<1> QED BY <1>2, <1>3 DEF NInv

LEMMA IdleNested ==
  ASSUME NInv, Idles
  PROVE  NInv'
<1>1. UNCHANGED <<opa, phase, position, entry_points, outs, calls, paths>>
  BY DEF Idles, Still, pathVars
<1>2. Nested' /\ Linked'
  BY <1>1 DEF NInv, Nested, Linked, Depth, At, Out, May, Ops
<1>3. Finding' /\ Capping' /\ Phases'
  BY <1>1 DEF NInv, Finding, Capping, Phases, Depth, At, Out, May, Ops
<1> QED BY <1>2, <1>3 DEF NInv

LEMMA NestedStep ==
  ASSUME TInv, TInv', NInv, [Next]_vars
  PROVE  NInv'
<1>1. Depth \in Nat /\ (Depth > 0 => Top = calls[Depth] /\ calls[Depth].found \in BOOLEAN)
  BY CallTyped DEF Top, Depth
<1>2. CASE Passes
  <2>1. /\ Looks(Top.found) /\ ~May(Depth, Out(Depth)[Top.i]) /\ Depth > 0
        /\ Top.found \in BOOLEAN /\ (Top.found \/ Len(paths) < MaxPaths)
    BY <1>1, <1>2 DEF Passes, Looks, NInv, Capping
  <2> QED BY <2>1, LookNested
<1>3. CASE Refused
  <2>1. Looks(TRUE) /\ May(Depth, Out(Depth)[Top.i]) /\ TRUE \in BOOLEAN
    BY <1>3 DEF Refused
  <2> QED BY <2>1, LookNested
<1>4. CASE Descends
  BY <1>1, <1>4, DescendNested
<1>5. CASE Ascends
  BY <1>1, <1>5, AscendNested
<1> QED
  BY <1>2, <1>3, <1>4, <1>5, EnumerationSteps, BeginNested, RestNested, IdleNested

(* The enumeration stops at the cap, however deep it is: an invocation     *)
(* that adds a path found no way on, so nothing was enumerated since it    *)
(* was below the cap.                                                      *)
THEOREM PathsAreCapped == Spec => []PathsCapped
<1> DEFINE I == TInv /\ NInv
<1>1. Init => I
  BY TypesInit, NestedInit
<1>2. I /\ [Next]_vars => I'
  BY TypesStep, NestedStep
<1>3. I => PathsCapped
  BY DEF NInv, Capping, PathsCapped
<1> QED BY <1>1, <1>2, <1>3, PTL DEF Spec


-----------------------------------------------------------------------------
(* Paths are walks.                                                        *)

(* Prolongs, branch by branch.                                             *)
GoesOn(p, n, o) ==
  /\ o \in Elements(outs[p[n]]) /\ o > 0 /\ o \in Ops(opa)
  /\ \A i \in 1 .. n - 1 : ~(p[i] = p[n] /\ p[i + 1] = o)

Maximal(p) ==
  /\ Len(p) > 0 /\ p[1] \in entry_points
  /\ \A n \in 1 .. Len(p) - 1 : GoesOn(p, n, p[n + 1])
  /\ \A o : ~GoesOn(p, Len(p), o)

AllMaximal == \A m \in 1 .. Len(paths) : Maximal(paths[m])

LEMMA Prefix ==
  ASSUME NEW p \in Seq(Int), NEW n \in 1 .. Len(p)
  PROVE  /\ SubSeq(p, 1, n) \in Seq(Int) /\ Len(SubSeq(p, 1, n)) = n
         /\ \A i \in 1 .. n : SubSeq(p, 1, n)[i] = p[i]
<1>1. n \in Nat /\ n <= Len(p) /\ Len(p) \in Nat
  BY LenProperties
<1>2. \A i \in 1 .. n : p[i] \in Int
  BY <1>1, ElementOfSeq
<1> QED BY <1>1, <1>2, SubSeqProperties

LEMMA ProlongsIsGoesOn ==
  ASSUME NEW p \in Seq(Int), NEW n \in 1 .. Len(p), NEW o
  PROVE  Prolongs(p, n, o) <=> GoesOn(p, n, o)
<1> DEFINE s == SubSeq(p, 1, n)
<1>1. Len(s) = n /\ n \in Nat /\ \A i \in 1 .. n : s[i] = p[i]
  BY Prefix, LenProperties
<1> HIDE DEF s
<1>2. pcov_path_edge_exists(s, p[n], o) <=> \E i \in 1 .. n - 1 : p[i] = p[n] /\ p[i + 1] = o
  BY <1>1 DEF pcov_path_edge_exists
<1> QED BY <1>2 DEF Prolongs, GoesOn, s

(* The walk of the innermost invocation goes on where the stack may.       *)
LEMMA TopGoesOn ==
  ASSUME TInv, NInv, NEW d \in Nat \ {0}, d = Depth, NEW n \in 1 .. d
  PROVE  /\ Len(calls[d].walk) = d /\ calls[d].walk[n] = At(n)
         /\ \A o : GoesOn(calls[d].walk, n, o) <=> o \in Elements(Out(n)) /\ May(n, o)
         /\ n < d => GoesOn(calls[d].walk, n, calls[d].walk[n + 1])
<1> DEFINE w == calls[d].walk
<1>1. Len(w) = d /\ \A j \in 1 .. d : w[j] = At(j)
  BY DEF NInv, Nested
<1> HIDE DEF w
<1>2. \A i \in 1 .. n - 1 : i \in 1 .. d /\ i + 1 \in 1 .. d
  OBVIOUS
<1>3. \A o : GoesOn(w, n, o) <=> o \in Elements(Out(n)) /\ May(n, o)
  BY <1>1, <1>2 DEF GoesOn, May, Out
<1>4. ASSUME n < d
      PROVE  GoesOn(w, n, w[n + 1])
  <2>1. n \in 1 .. Depth - 1 /\ n \in 1 .. Depth /\ n + 1 \in 1 .. d
    BY <1>4
  <2>2. calls[n].i \in Nat /\ calls[n].i > 1 /\ calls[n].i <= Len(Out(n)) + 1
        /\ At(n + 1) = Out(n)[calls[n].i - 1] /\ May(n, At(n + 1))
    BY <2>1, CallTyped DEF NInv, Linked, Finding
  <2>3. Len(Out(n)) \in Nat
    BY <2>1, LenProperties DEF TInv, NInv, Nested, Out, OutLists
  <2>4. At(n + 1) \in Elements(Out(n))
    BY <2>2, <2>3 DEF Elements
  <2> QED BY <1>1, <1>3, <2>1, <2>2, <2>4
<1> QED BY <1>1, <1>3, <1>4 DEF w

(* One that has found no way on among its out-edges is at an end.          *)
LEMMA TopMaximal ==
  ASSUME TInv, NInv, NEW d \in Nat \ {0}, d = Depth,
         calls[d].i > Len(Out(d)), ~calls[d].found
  PROVE  Maximal(calls[d].walk)
<1> DEFINE w == calls[d].walk
<1>1. Len(w) = d /\ w[1] = At(1) /\ At(1) \in entry_points
  <2>1. 1 \in 1 .. d
    OBVIOUS
  <2> QED BY <2>1, TopGoesOn DEF NInv, Linked
<1>2. \A n \in 1 .. d - 1 : GoesOn(w, n, w[n + 1])
  <2>1. \A n \in 1 .. d - 1 : n \in 1 .. d /\ n < d
    OBVIOUS
  <2> QED BY <2>1, TopGoesOn
<1>3. ASSUME NEW o, GoesOn(w, d, o)
      PROVE  FALSE
  <2>1. o \in Elements(Out(d)) /\ May(d, o) /\ d \in 1 .. Depth
    BY <1>3, TopGoesOn
  <2>2. PICK j \in 1 .. Len(Out(d)) : o = Out(d)[j]
    BY <2>1 DEF Elements
  <2>3. calls[d].i \in Nat /\ Len(Out(d)) \in Nat
    BY <2>1, CallTyped, LenProperties DEF TInv, NInv, Nested, Out, OutLists
  <2>4. j \in 1 .. calls[d].i - 1
    BY <2>2, <2>3
  <2> QED BY <2>1, <2>2, <2>4 DEF NInv, Finding
<1> HIDE DEF w
<1>4. Maximal(w)
  BY <1>1, <1>2, <1>3 DEF Maximal
<1> QED BY <1>4 DEF w

(* A sequence that grows has what it had and one more.                     *)
LEMMA PathsGrow ==
  ASSUME TInv, NEW w \in Seq(Int), paths' = Append(paths, w)
  PROVE  /\ Len(paths') = Len(paths) + 1 /\ paths'[Len(paths) + 1] = w
         /\ \A m \in 1 .. Len(paths) : paths'[m] = paths[m]
         /\ 1 .. Len(paths') = (1 .. Len(paths)) \union {Len(paths) + 1}
<1>1. paths \in Seq(Seq(Int)) /\ Len(paths) \in Nat
  BY CallTyped DEF TInv
<1>2. /\ Len(paths') = Len(paths) + 1 /\ paths'[Len(paths) + 1] = w
      /\ \A m \in 1 .. Len(paths) : paths'[m] = paths[m]
  BY <1>1, Grown
<1> QED BY <1>1, <1>2

LEMMA GoesOnSame ==
  ASSUME UNCHANGED <<opa, outs>>
  PROVE  \A p, n, o : GoesOn(p, n, o)' <=> GoesOn(p, n, o)
BY DEF GoesOn, Ops

LEMMA MaximalSame ==
  ASSUME UNCHANGED <<opa, outs, entry_points>>
  PROVE  \A p : Maximal(p)' <=> Maximal(p)
BY GoesOnSame DEF Maximal

LEMMA MaximalStep ==
  ASSUME TInv, TInv', NInv, AllMaximal, [Next]_vars
  PROVE  AllMaximal'
<1>1. CASE Ascends
  <2> DEFINE d == Depth
  <2>1. /\ d \in Nat \ {0} /\ Top = calls[d] /\ calls[d].i > Len(Out(d))
        /\ calls[d].walk \in Seq(Int)
        /\ UNCHANGED <<opa, outs, entry_points>>
    BY <1>1, CallTyped, AscendNested DEF Ascends, Still
  <2>2. /\ calls[d].found => paths' = paths
        /\ ~calls[d].found => paths' = Append(paths, calls[d].walk)
    BY <1>1, <2>1, AscendNested
  <2>3. CASE calls[d].found
    BY <2>1, <2>2, <2>3, MaximalSame DEF AllMaximal
  <2>4. CASE ~calls[d].found
    <3>1. Maximal(calls[d].walk)
      BY <2>1, <2>4, TopMaximal
    <3>2. \A m \in 1 .. Len(paths') : Maximal(paths'[m])
      BY <2>1, <2>2, <2>4, <3>1, PathsGrow DEF AllMaximal
    <3> QED BY <2>1, <3>2, MaximalSame DEF AllMaximal
  <2> QED BY <2>3, <2>4
<1>2. CASE Precedes
  <2>1. paths' = <<>>
    BY <1>2 DEF Precedes, NInv, Phases
  <2> QED BY <2>1 DEF AllMaximal
<1>3. CASE Passes \/ Refused \/ Descends \/ Begins \/ Continues \/ Finishes \/ Idles
  <2>1. UNCHANGED <<opa, outs, entry_points, paths>>
    BY <1>3 DEF Passes, Refused, Looks, Descends, Begins, Continues, Finishes, Idles,
                Still, pathVars
  <2> QED BY <2>1, MaximalSame DEF AllMaximal
<1> QED BY <1>1, <1>2, <1>3, EnumerationSteps

(* An enumerated path leads from an entry point along out-edges, uses none *)
(* of them twice, and ends only where it cannot go on: at the cap no walk  *)
(* is cut short and taken for a path.                                      *)
THEOREM PathsWalkOnce == Spec => []PathsAreWalks
<1> DEFINE I == TInv /\ NInv /\ AllMaximal
<1>1. Init => I
  <2>1. Init => Len(paths) = 0
    BY DEF Init
  <2> QED BY <2>1, TypesInit, NestedInit DEF AllMaximal
<1>2. I /\ [Next]_vars => I'
  BY TypesStep, NestedStep, MaximalStep
<1>3. I => PathsAreWalks
  <2> SUFFICES ASSUME I, NEW k \in 1 .. Len(paths)
               PROVE  LET walk == paths[k]
                      IN  /\ walk[1] \in entry_points
                          /\ \A n \in 1 .. Len(walk) - 1 : Prolongs(walk, n, walk[n + 1])
                          /\ ~\E o \in Ops(opa) : Prolongs(walk, Len(walk), o)
    BY DEF PathsAreWalks
  <2>1. paths[k] \in Seq(Int) /\ Len(paths[k]) \in Nat
    BY ElementOfSeq, LenProperties DEF TInv
  <2>2. Maximal(paths[k])
    BY DEF AllMaximal
  <2>3. \A n \in 1 .. Len(paths[k]) : \A o :
          Prolongs(paths[k], n, o) <=> GoesOn(paths[k], n, o)
    BY <2>1, ProlongsIsGoesOn
  <2> DEFINE p == paths[k]
  <2> HIDE DEF p
  <2>4. /\ Len(p) > 0 /\ Len(p) \in Nat /\ p[1] \in entry_points
        /\ \A n \in 1 .. Len(p) - 1 : GoesOn(p, n, p[n + 1])
        /\ \A o : ~GoesOn(p, Len(p), o)
    BY <2>1, <2>2 DEF Maximal, p
  <2>5. Len(p) \in 1 .. Len(p) /\ \A n \in 1 .. Len(p) - 1 : n \in 1 .. Len(p)
    BY <2>4
  <2>6. \A n \in 1 .. Len(p) - 1 : Prolongs(p, n, p[n + 1])
    BY <2>3, <2>4, <2>5 DEF p
  <2>7. \A o : ~Prolongs(p, Len(p), o)
    BY <2>3, <2>4, <2>5 DEF p
  <2> QED BY <2>4, <2>6, <2>7 DEF p
<1> QED BY <1>1, <1>2, <1>3, PTL DEF Spec


-----------------------------------------------------------------------------
(* Nothing is missing.                                                     *)

(* Path p begins with the branches of the first k invocations, and goes on *)
(* to o from there.                                                        *)
Along(p, k) == k <= Len(p) /\ \A j \in 1 .. k : p[j] = At(j)

Past(p, k, o) == k < Len(p) /\ Along(p, k) /\ p[k + 1] = o

PathSet == Elements(paths)

Taken(k, o) == \E p \in PathSet : Past(p, k, o)

(* Some path is p for n branches, and goes on to o from there.             *)
Forked(p, n, o) ==
  \E q \in PathSet : n < Len(q) /\ q[n + 1] = o /\ \A j \in 1 .. n : q[j] = p[j]

(* Every entry point that was scanned, every out-edge that was looked at   *)
(* and every one a path leaves aside has its path, or an invocation that   *)
(* is still to give it one.                                                *)
Rooted ==
  \A e \in entry_points : e < position => Taken(0, e) \/ (Depth > 0 /\ At(1) = e)

Branched ==
  \A k \in 1 .. Depth : \A j \in 1 .. calls[k].i - 1 : \A o :
    o = Out(k)[j] /\ May(k, o) => Taken(k, o) \/ (k < Depth /\ At(k + 1) = o)

Covered ==
  \A p \in PathSet : \A n \in 1 .. Len(p) : \A o :
    GoesOn(p, n, o) => Forked(p, n, o) \/ (n <= Depth /\ Along(p, n))

CInv == Processed /\ Len(paths) < MaxPaths => Rooted /\ Branched /\ Covered

LEMMA TakenKept ==
  ASSUME NEW d \in Nat, \A k \in 1 .. d : At(k)' = At(k), PathSet \subseteq PathSet'
  PROVE  /\ \A k \in 0 .. d : \A o : Taken(k, o) => Taken(k, o)'
         /\ \A p, n, o : Forked(p, n, o) => Forked(p, n, o)'
         /\ \A p : \A k \in 0 .. d : Along(p, k)' <=> Along(p, k)
<1>1. \A p : \A k \in 0 .. d : Along(p, k)' <=> Along(p, k)
  BY DEF Along
<1>2. ASSUME NEW k \in 0 .. d, NEW o, Taken(k, o)
      PROVE  Taken(k, o)'
  <2>1. PICK p \in PathSet : Past(p, k, o)
    BY <1>2 DEF Taken
  <2>2. Past(p, k, o)' <=> Past(p, k, o)
    BY <1>1 DEF Past
  <2> QED BY <2>1, <2>2 DEF Taken
<1>3. ASSUME NEW p, NEW n, NEW o, Forked(p, n, o)
      PROVE  Forked(p, n, o)'
  BY <1>3 DEF Forked
<1> QED BY <1>1, <1>2, <1>3

(* An out-edge that is none to go on by needs no path.                     *)
LEMMA LookComplete ==
  ASSUME TInv, NInv, CInv, Passes, NEW d \in Nat, d = Depth
  PROVE  CInv'
<1> SUFFICES ASSUME Processed', Len(paths') < MaxPaths
             PROVE  Rooted' /\ Branched' /\ Covered'
  BY DEF CInv
<1>1. /\ d \in Nat \ {0} /\ Depth' = d /\ Top = calls[d] /\ calls[d].i \in Nat \ {0}
      /\ UNCHANGED <<opa, phase, position, entry_points, outs, paths>>
      /\ ~May(d, Out(d)[calls[d].i])
  BY CallTyped DEF Passes, Looks, Still, Top, Depth
<1>2. /\ \A k \in 1 .. d : calls'[k].walk = calls[k].walk
      /\ \A k \in 1 .. d - 1 : calls'[k].i = calls[k].i
      /\ calls'[d].i = calls[d].i + 1
  BY <1>1 DEF Passes, Looks, Looked, Kept
<1>3. Rooted /\ Branched /\ Covered
  BY <1>1 DEF CInv, Processed
<1>4. \A k \in 1 .. d :
        /\ At(k)' = At(k) /\ Out(k)' = Out(k)
        /\ \A o : May(k, o)' <=> May(k, o)
  BY <1>1, <1>2, SameStack
<1>5. /\ \A k \in 0 .. d : \A o : Taken(k, o) => Taken(k, o)'
      /\ \A p, n, o : Forked(p, n, o) => Forked(p, n, o)'
      /\ \A p : \A k \in 0 .. d : Along(p, k)' <=> Along(p, k)
  <2>1. PathSet' = PathSet
    BY <1>1 DEF PathSet, Elements
  <2> QED BY <1>1, <1>4, <2>1, TakenKept
<1>6. Rooted'
  BY <1>1, <1>3, <1>4, <1>5 DEF Rooted
<1>7. Branched'
  <2>1. ASSUME NEW k \in 1 .. d, NEW j \in 1 .. calls'[k].i - 1, NEW o,
               o = Out(k)[j], May(k, o)
        PROVE  Taken(k, o)' \/ (k < d /\ At(k + 1)' = o)
    <3>1. j \in 1 .. calls[k].i - 1
      BY <1>1, <1>2, <2>1
    <3>2. Taken(k, o) \/ (k < d /\ At(k + 1) = o)
      BY <1>1, <1>3, <2>1, <3>1 DEF Branched
    <3>3. k \in 0 .. d /\ (k < d => k + 1 \in 1 .. d)
      OBVIOUS
    <3>4. Taken(k, o) => Taken(k, o)'
      BY <1>5, <3>3
    <3>5. k < d => At(k + 1)' = At(k + 1)
      BY <1>4, <3>3
    <3> QED BY <3>2, <3>4, <3>5
  <2> QED BY <1>1, <1>4, <2>1 DEF Branched
<1>8. Covered'
  <2>1. \A p, n, o : GoesOn(p, n, o)' <=> GoesOn(p, n, o)
    BY <1>1, GoesOnSame
  <2>2. PathSet' = PathSet
    BY <1>1 DEF PathSet, Elements
  <2>3. ASSUME NEW p \in PathSet, NEW n \in 1 .. Len(p), NEW o, GoesOn(p, n, o)
        PROVE  Forked(p, n, o)' \/ (n <= d /\ Along(p, n)')
    <3>1. Forked(p, n, o) \/ (n <= d /\ Along(p, n))
      BY <1>3, <2>3 DEF Covered
    <3>2. n <= d => n \in 0 .. d
      BY <1>1
    <3> QED BY <1>5, <3>1, <3>2
  <2> QED BY <1>1, <2>1, <2>2, <2>3 DEF Covered
<1> QED BY <1>6, <1>7, <1>8

(* What the caller looked at last is what the new invocation is for.       *)
LEMMA DescendComplete ==
  ASSUME TInv, TInv', NInv, CInv, Descends, NEW d \in Nat, d = Depth
  PROVE  CInv'
<1> SUFFICES ASSUME Processed', Len(paths') < MaxPaths
             PROVE  Rooted' /\ Branched' /\ Covered'
  BY DEF CInv
<1>1. /\ d \in Nat \ {0} /\ Depth' = d + 1 /\ calls[d].i \in Nat \ {0}
      /\ UNCHANGED <<opa, phase, position, entry_points, outs, paths>>
      /\ At(d + 1)' = Out(d)[calls[d].i]
  <2>1. Depth > 0 /\ Depth' = Depth + 1 /\ UNCHANGED paths /\ Still
    BY DEF Descends
  <2>2. At(d + 1)' = Out(d)[calls[d].i]
    BY DescendNested
  <2>3. d \in 1 .. Depth
    BY <2>1
  <2>4. calls[d].i \in Nat \ {0}
    BY <2>3, CallTyped
  <2> QED BY <2>1, <2>2, <2>4 DEF Still
<1>2. /\ \A k \in 1 .. d : calls'[k].walk = calls[k].walk
      /\ \A k \in 1 .. d - 1 : calls'[k].i = calls[k].i
      /\ calls'[d].i = calls[d].i + 1 /\ calls'[d + 1].i = 1
  <2>1. /\ \A k \in 1 .. d - 1 : calls'[k] = calls[k]
        /\ calls'[d].walk = calls[d].walk /\ calls'[d].i = calls[d].i + 1
        /\ calls'[d + 1].i = 1
    BY DEF Descends, Looked, Kept
  <2>2. 1 .. d = (1 .. d - 1) \union {d}
    BY <1>1
  <2> QED BY <2>1, <2>2
<1>3. Rooted /\ Branched /\ Covered
  BY <1>1 DEF CInv, Processed
<1>4. \A k \in 1 .. d :
        /\ At(k)' = At(k) /\ Out(k)' = Out(k)
        /\ \A o : May(k, o)' <=> May(k, o)
  BY <1>1, <1>2, SameStack
<1>5. PathSet' = PathSet
  BY <1>1 DEF PathSet, Elements
<1>6. /\ \A k \in 0 .. d : \A o : Taken(k, o) => Taken(k, o)'
      /\ \A p, n, o : Forked(p, n, o) => Forked(p, n, o)'
      /\ \A p : \A k \in 0 .. d : Along(p, k)' <=> Along(p, k)
  BY <1>1, <1>4, <1>5, TakenKept
<1>7. Rooted'
  BY <1>1, <1>3, <1>4, <1>6 DEF Rooted
<1>8. Branched'
  <2>1. ASSUME NEW k \in 1 .. d, NEW j \in 1 .. calls'[k].i - 1, NEW o,
               o = Out(k)[j], May(k, o)
        PROVE  Taken(k, o)' \/ At(k + 1)' = o
    <3>1. CASE j \in 1 .. calls[k].i - 1
      <4>1. Taken(k, o) \/ (k < d /\ At(k + 1) = o)
        BY <1>1, <1>3, <2>1, <3>1 DEF Branched
      <4>2. k < d => k + 1 \in 1 .. d
        OBVIOUS
      <4> QED BY <1>4, <1>6, <4>1, <4>2
    <3>2. CASE ~(j \in 1 .. calls[k].i - 1)
      <4>1. k = d /\ j = calls[d].i
        BY <1>1, <1>2, <2>1, <3>2
      <4> QED BY <1>1, <2>1, <4>1
    <3> QED BY <3>1, <3>2
  <2>2. 1 .. calls'[d + 1].i - 1 = {} /\ 1 .. d + 1 = (1 .. d) \union {d + 1}
    BY <1>1, <1>2
  <2>3. \A k \in 1 .. d : k < d + 1
    OBVIOUS
  <2> QED BY <1>1, <1>4, <2>1, <2>2, <2>3 DEF Branched
<1>9. Covered'
  <2>1. \A p, n, o : GoesOn(p, n, o)' <=> GoesOn(p, n, o)
    BY <1>1, GoesOnSame
  <2>2. ASSUME NEW p \in PathSet, NEW n \in 1 .. Len(p), NEW o, GoesOn(p, n, o)
        PROVE  Forked(p, n, o)' \/ (n <= d + 1 /\ Along(p, n)')
    <3>1. Forked(p, n, o) \/ (n <= d /\ Along(p, n))
      BY <1>1, <1>3, <2>2 DEF Covered
    <3>2. n <= d => n \in 0 .. d /\ n <= d + 1
      BY <1>1
    <3> QED BY <1>6, <3>1, <3>2
  <2> QED BY <1>1, <1>5, <2>1, <2>2 DEF Covered
<1> QED BY <1>7, <1>8, <1>9

(* All that the innermost invocation was for is there when it returns.     *)
LEMMA AscendComplete ==
  ASSUME TInv, TInv', NInv, CInv, Ascends, NEW d \in Nat, d = Depth, NEW w, w = calls[d].walk
  PROVE  CInv'
<1> SUFFICES ASSUME Processed', Len(paths') < MaxPaths
             PROVE  Rooted' /\ Branched' /\ Covered'
  BY DEF CInv
<1>1. /\ d \in Nat \ {0} /\ d - 1 \in Nat /\ Depth' = d - 1 /\ Top = calls[d]
      /\ calls[d].i \in Nat \ {0} /\ calls[d].i > Len(Out(d)) /\ w \in Seq(Int)
      /\ calls[d].found \in BOOLEAN
      /\ UNCHANGED <<opa, phase, position, entry_points, outs>>
      /\ calls[d].found => paths' = paths
      /\ ~calls[d].found => paths' = Append(paths, w)
  BY CallTyped, AscendNested DEF Ascends, Still, Depth
<1>2. \A k \in 1 .. d - 1 : calls'[k] = calls[k]
  BY DEF Ascends, Kept
<1>3. \A k \in 1 .. d - 1 :
        /\ At(k)' = At(k) /\ Out(k)' = Out(k)
        /\ \A o : May(k, o)' <=> May(k, o)
  <2>1. \A k \in 1 .. d - 1 : calls'[k].walk = calls[k].walk
    BY <1>2
  <2> QED BY <1>1, <2>1, SameStack
<1>4. /\ calls[d].found => PathSet' = PathSet
      /\ ~calls[d].found => PathSet' = PathSet \union {w}
      /\ Len(paths) < MaxPaths
  <2>1. CASE calls[d].found
    BY <1>1, <2>1 DEF PathSet, Elements
  <2>2. CASE ~calls[d].found
    <3>1. /\ Len(paths') = Len(paths) + 1 /\ paths'[Len(paths) + 1] = w
          /\ \A m \in 1 .. Len(paths) : paths'[m] = paths[m]
          /\ 1 .. Len(paths') = (1 .. Len(paths)) \union {Len(paths) + 1}
      BY <1>1, <2>2, PathsGrow
    <3>2. Len(paths) \in Nat /\ MaxPaths \in Nat
      BY CallTyped, ProgramsAssumption
    <3>3. PathSet' = PathSet \union {w}
      BY <3>1 DEF PathSet, Elements
    <3> QED BY <2>2, <3>1, <3>2, <3>3
  <2> QED BY <1>1, <2>1, <2>2
<1>5. Rooted /\ Branched /\ Covered
  BY <1>1, <1>4 DEF CInv, Processed
<1>6. /\ \A k \in 0 .. d - 1 : \A o : Taken(k, o) => Taken(k, o)'
      /\ \A p, n, o : Forked(p, n, o) => Forked(p, n, o)'
      /\ \A p : \A k \in 0 .. d - 1 : Along(p, k)' <=> Along(p, k)
  <2>1. PathSet \subseteq PathSet'
    BY <1>1, <1>4
  <2> QED BY <1>1, <1>3, <2>1, TakenKept
<1>7. /\ Len(w) = d /\ Along(w, d) /\ w[d] = At(d)
      /\ \A n \in 1 .. d : \A o : GoesOn(w, n, o) <=> o \in Elements(Out(n)) /\ May(n, o)
  BY <1>1, TopGoesOn DEF Along, NInv, Nested
(* There is a path for every way on from its walk.                         *)
<1>8. ASSUME NEW o \in Elements(Out(d)), May(d, o)
      PROVE  Taken(d, o) /\ calls[d].found
  <2>1. PICK j \in 1 .. Len(Out(d)) : o = Out(d)[j]
    BY DEF Elements
  <2>2. Len(Out(d)) \in Nat /\ d \in 1 .. Depth
    BY <1>1, LenProperties DEF TInv, NInv, Nested, Out, OutLists
  <2>3. j \in 1 .. calls[d].i - 1
    BY <1>1, <2>1, <2>2
  <2>4. Taken(d, o)
    BY <1>5, <1>8, <2>1, <2>2, <2>3 DEF Branched
  <2>5. calls[d].found
    BY <1>1, <1>8, <2>1, <2>2, <2>3 DEF NInv, Finding
  <2> QED BY <2>4, <2>5
(* And so there is one for the out-edge it was called for.                 *)
<1>9. Taken(d - 1, w[d])'
  <2>1. \E p \in PathSet' : Len(p) >= d /\ \A j \in 1 .. d : p[j] = At(j)
    <3>1. CASE calls[d].found
      <4>1. d \in 1 .. Depth
        BY <1>1
      <4>2. PICK j \in 1 .. calls[d].i - 1 : May(d, Out(d)[j])
        BY <3>1, <4>1 DEF NInv, Finding
      <4>3. Taken(d, Out(d)[j])
        BY <1>5, <4>1, <4>2 DEF Branched
      <4>4. PICK p \in PathSet : Past(p, d, Out(d)[j])
        BY <4>3 DEF Taken
      <4> QED BY <1>4, <3>1, <4>4 DEF Past, Along
    <3>2. CASE ~calls[d].found
      BY <1>1, <1>4, <1>7, <3>2 DEF Along
    <3> QED BY <1>1, <3>1, <3>2
  <2>2. PICK p \in PathSet' : Len(p) >= d /\ \A j \in 1 .. d : p[j] = At(j)
    BY <2>1
  <2>3. Len(p) \in Nat
    <3>1. p \in Seq(Int)
      BY <2>2, ElementOfSeq DEF TInv, PathSet, Elements
    <3> QED BY <3>1, LenProperties
  <2>4. p[d] = w[d] /\ d - 1 < Len(p) /\ \A j \in 1 .. d - 1 : p[j] = At(j)
    BY <1>1, <1>7, <2>2, <2>3
  <2>5. Along(p, d - 1)' /\ d - 1 + 1 = d
    BY <1>1, <1>3, <2>3, <2>4 DEF Along
  <2>6. Past(p, d - 1, w[d])'
    BY <2>4, <2>5 DEF Past
  <2> QED BY <2>2, <2>6 DEF Taken
<1>10. Rooted'
  <2>1. ASSUME NEW e \in entry_points, e < position
        PROVE  Taken(0, e)' \/ (Depth' > 0 /\ At(1)' = e)
    <3>1. Taken(0, e) \/ At(1) = e
      BY <1>5, <2>1 DEF Rooted
    <3>2. CASE Taken(0, e)
      BY <1>1, <1>6, <3>2
    <3>3. CASE At(1) = e /\ d = 1
      BY <1>7, <1>9, <3>3
    <3>4. CASE At(1) = e /\ d # 1
      BY <1>1, <1>3, <3>4
    <3> QED BY <3>1, <3>2, <3>3, <3>4
  <2> QED BY <1>1, <2>1 DEF Rooted
<1>11. Branched'
  <2>1. ASSUME NEW k \in 1 .. d - 1, NEW j \in 1 .. calls[k].i - 1, NEW o,
               o = Out(k)[j], May(k, o)
        PROVE  Taken(k, o)' \/ (k < d - 1 /\ At(k + 1)' = o)
    <3>1. k \in 1 .. Depth /\ (k = d - 1 \/ (k < d - 1 /\ k + 1 \in 1 .. d - 1))
      BY <1>1
    <3>2. Taken(k, o) \/ At(k + 1) = o
      BY <1>5, <2>1, <3>1 DEF Branched
    <3>3. CASE Taken(k, o)
      BY <1>6, <3>1, <3>3
    <3>4. CASE At(k + 1) = o /\ k = d - 1
      <4>1. k + 1 = d
        BY <1>1, <3>4
      <4>2. w[d] = o
        BY <1>7, <3>4, <4>1
      <4> QED BY <1>9, <3>4, <4>2
    <3>5. CASE At(k + 1) = o /\ k < d - 1
      BY <1>3, <3>1, <3>5
    <3> QED BY <3>1, <3>2, <3>3, <3>4, <3>5
  <2>2. ASSUME NEW k \in 1 .. d - 1, NEW j \in 1 .. calls'[k].i - 1, NEW o,
               o = Out(k)'[j], May(k, o)'
        PROVE  Taken(k, o)' \/ (k < d - 1 /\ At(k + 1)' = o)
    <3>1. calls'[k].i = calls[k].i /\ Out(k)' = Out(k) /\ May(k, o)
      BY <1>2, <1>3, <2>2
    <3> QED BY <2>1, <2>2, <3>1
  <2> QED BY <1>1, <2>2 DEF Branched
<1>12. Covered'
  <2>1. \A p, n, o : GoesOn(p, n, o)' <=> GoesOn(p, n, o)
    BY <1>1, GoesOnSame
  <2>2. ASSUME NEW p \in PathSet, NEW n \in 1 .. Len(p), NEW o, GoesOn(p, n, o)
        PROVE  Forked(p, n, o)' \/ (n <= d - 1 /\ Along(p, n)')
    <3>1. Forked(p, n, o) \/ (n <= d /\ Along(p, n))
      BY <1>1, <1>5, <2>2 DEF Covered
    <3>2. CASE Forked(p, n, o)
      BY <1>6, <3>2
    <3>3. CASE n <= d - 1 /\ Along(p, n)
      <4>1. n \in 0 .. d - 1
        BY <1>1, <3>3
      <4> QED BY <1>6, <3>3, <4>1
    <3>4. CASE n = d /\ Along(p, n)
      <4>1. o \in Elements(Out(d)) /\ May(d, o)
        BY <1>1, <2>2, <3>4 DEF GoesOn, May, Along, Out
      <4>2. PICK q \in PathSet : Past(q, d, o)
        BY <1>8, <4>1 DEF Taken
      <4>3. Forked(p, n, o)
        BY <3>4, <4>2 DEF Past, Along, Forked
      <4> QED BY <1>6, <4>3
    <3> QED BY <1>1, <3>1, <3>2, <3>3, <3>4
  <2>3. ASSUME NEW n \in 1 .. Len(w), NEW o, GoesOn(w, n, o), ~calls[d].found
        PROVE  n <= d - 1 /\ Along(w, n)'
    <3>1. n \in 1 .. d /\ n # d
      BY <1>1, <1>7, <1>8, <2>3
    <3>2. n \in 0 .. d - 1 /\ Along(w, n)
      BY <1>1, <1>7, <3>1 DEF Along
    <3> QED BY <1>6, <3>2
  <2>4. PathSet' \subseteq PathSet \union {w} /\ (w \in PathSet' => w \in PathSet \/ ~calls[d].found)
    BY <1>1, <1>4
  <2> QED BY <1>1, <2>1, <2>2, <2>3, <2>4 DEF Covered
<1> QED BY <1>10, <1>11, <1>12

(* The entry point that was scanned last is the branch of the first        *)
(* invocation, and what was covered stays so.                              *)
LEMMA BeginComplete ==
  ASSUME TInv, TInv', NInv, CInv, Begins \/ Continues \/ Finishes
  PROVE  CInv'
<1> SUFFICES ASSUME Processed', Len(paths') < MaxPaths
             PROVE  Rooted' /\ Branched' /\ Covered'
  BY DEF CInv
<1>1. /\ Depth = 0 /\ UNCHANGED <<opa, entry_points, outs, paths>> /\ phase = "paths"
      /\ PathSet' = PathSet
  <2>1. UNCHANGED paths
    BY DEF Begins, Continues, Finishes
  <2> QED BY <2>1 DEF Begins, Continues, Finishes, PathSet, Elements
<1>2. Rooted /\ Covered
  BY <1>1 DEF CInv, Processed
<1>3. /\ \A o : Taken(0, o) => Taken(0, o)'
      /\ \A p, n, o : Forked(p, n, o) => Forked(p, n, o)'
  <2>1. /\ \A k \in 0 .. 0 : \A o : Taken(k, o) => Taken(k, o)'
        /\ \A p, n, o : Forked(p, n, o) => Forked(p, n, o)'
    <3>1. 0 \in Nat /\ \A k \in 1 .. 0 : At(k)' = At(k)
      OBVIOUS
    <3> QED BY <1>1, <3>1, TakenKept
  <2> QED BY <2>1
<1>4. /\ position \in Nat /\ position' \in Nat
      /\ \A e \in entry_points : e \in Nat
      /\ opa.last \in Nat
  BY ProgramsAssumption DEF TInv, Ops
<1>5. Rooted'
  <2>1. \A e \in entry_points : e < position => Taken(0, e)
    BY <1>1, <1>2 DEF Rooted
  <2>2. CASE Begins
    <3>1. position' = position + 1 /\ Depth' > 0 /\ At(1)' = position
      <4>1. At(1)' = position
        BY <2>2, BeginNested
      <4>2. position' = position + 1 /\ Depth' = 1
        BY <2>2 DEF Begins
      <4> QED BY <4>1, <4>2
    <3> QED BY <1>1, <1>3, <1>4, <2>1, <3>1 DEF Rooted
  <2>3. CASE Continues
    <3>1. /\ position' = position + 1 /\ position \notin entry_points
      <4>1. Len(paths) \in Nat /\ MaxPaths \in Nat /\ ~(Len(paths) >= MaxPaths)
        BY <1>1, CallTyped, ProgramsAssumption
      <4> QED BY <2>3, <4>1 DEF Continues
    <3> QED BY <1>1, <1>3, <1>4, <2>1, <3>1 DEF Rooted
  <2>4. CASE Finishes
    <3>1. position' = position
      BY <2>4 DEF Finishes
    <3> QED BY <1>1, <1>3, <2>1, <3>1 DEF Rooted
  <2> QED BY <2>2, <2>3, <2>4
<1>6. Branched'
  BY DEF Begins, Continues, Finishes, Branched
<1>7. Covered'
  <2>1. \A p, n, o : GoesOn(p, n, o)' <=> GoesOn(p, n, o)
    BY <1>1, GoesOnSame
  <2>2. ASSUME NEW p \in PathSet, NEW n \in 1 .. Len(p), NEW o, GoesOn(p, n, o)
        PROVE  Forked(p, n, o)'
    <3>1. Forked(p, n, o)
      BY <1>1, <1>2, <2>2 DEF Covered
    <3> QED BY <1>3, <3>1
  <2> QED BY <1>1, <2>1, <2>2 DEF Covered
<1> QED BY <1>5, <1>6, <1>7

LEMMA CompleteStep ==
  ASSUME TInv, TInv', NInv, CInv, [Next]_vars
  PROVE  CInv'
<1>1. Depth \in Nat
  BY CallTyped
<1>2. CASE Refused
  BY <1>2, CallTyped, ProgramsAssumption DEF Refused, Looks, CInv
<1>3. CASE Precedes
  <2>1. PathSet' = {} /\ Depth' = 0
    BY <1>3 DEF Precedes, NInv, Phases, PathSet, Elements
  <2>2. Processed' => position' = 0 /\ \A e \in entry_points' : e \in Nat
    BY <1>3 DEF Precedes, Processed, TInv, Ops
  <2> QED BY <2>1, <2>2 DEF CInv, Rooted, Branched, Covered
<1>4. CASE Idles
  <2>1. UNCHANGED <<opa, phase, position, entry_points, outs, calls, paths>> /\ Depth' = Depth
    BY <1>4 DEF Idles, Still, pathVars
  <2>2. PathSet' = PathSet /\ \A k : At(k)' = At(k)
    BY <2>1 DEF PathSet, Elements, At
  <2>3. /\ \A k, o : Taken(k, o)' <=> Taken(k, o)
        /\ \A p, n, o : Forked(p, n, o)' <=> Forked(p, n, o)
        /\ \A p, n : Along(p, n)' <=> Along(p, n)
        /\ \A p, n, o : GoesOn(p, n, o)' <=> GoesOn(p, n, o)
        /\ \A k, o : May(k, o)' <=> May(k, o)
        /\ \A k : Out(k)' = Out(k)
    <3>1. \A p, n : Along(p, n)' <=> Along(p, n)
      BY <2>2 DEF Along
    <3>2. \A p, n, o : GoesOn(p, n, o)' <=> GoesOn(p, n, o)
      BY <2>1, GoesOnSame
    <3>3. \A k, o : Taken(k, o)' <=> Taken(k, o)
      BY <2>2, <3>1 DEF Taken, Past
    <3>4. \A k, o : May(k, o)' <=> May(k, o)
      BY <2>1, <2>2 DEF May, Ops
    <3> QED BY <2>1, <2>2, <3>1, <3>2, <3>3, <3>4 DEF Forked, Out
  <2>4. Rooted => Rooted'
    BY <2>1, <2>2, <2>3 DEF Rooted
  <2>5. Branched => Branched'
    BY <2>1, <2>2, <2>3 DEF Branched
  <2>6. Covered => Covered'
    BY <2>1, <2>2, <2>3 DEF Covered
  <2> QED BY <2>1, <2>4, <2>5, <2>6 DEF CInv, Processed
<1>5. CASE Ascends
  <2>1. PICK w : w = calls[Depth].walk
    OBVIOUS
  <2> QED BY <1>1, <1>5, <2>1, AscendComplete
<1> QED BY <1>1, <1>2, <1>3, <1>4, <1>5, EnumerationSteps, LookComplete, DescendComplete,
           BeginComplete

LEMMA EnumeratedIs ==
  ASSUME TInv, NEW w \in Seq(Int), w # <<>>,
         \E p \in PathSet : Len(p) >= Len(w) /\ \A j \in 1 .. Len(w) : p[j] = w[j]
  PROVE  Enumerated(w)
<1>1. PICK m \in 1 .. Len(paths) :
        Len(paths[m]) >= Len(w) /\ \A j \in 1 .. Len(w) : paths[m][j] = w[j]
  BY DEF PathSet, Elements
<1> DEFINE p == paths[m]
           n == Len(w)
           s == SubSeq(p, 1, n)
<1>2. p \in Seq(Int) /\ n \in Nat \ {0} /\ n \in 1 .. Len(p)
  <2>1. p \in Seq(Int)
    BY ElementOfSeq DEF TInv
  <2>2. n \in Nat \ {0} /\ Len(p) \in Nat
    BY <2>1, EmptySeq, LenProperties
  <2> QED BY <1>1, <2>1, <2>2
<1> HIDE DEF p
<1>3. s \in Seq(Int) /\ Len(s) = n /\ \A j \in 1 .. n : s[j] = p[j]
  BY <1>2, Prefix
<1>4. \A j \in 1 .. n : s[j] = w[j]
  BY <1>1, <1>3 DEF p
<1> HIDE DEF s
<1>5. s = w
  BY <1>2, <1>3, <1>4, SeqEqual
<1> QED BY <1>1, <1>2, <1>5 DEF Enumerated, p, s

(* Below the cap nothing is missing: there is a path from every entry      *)
(* point, and wherever a path could have taken another edge one does.      *)
THEOREM PathsAreComplete == Spec => []PathsComplete
<1> DEFINE I == TInv /\ NInv /\ CInv
<1>1. Init => I
  <2>1. Init => ~Processed
    BY DEF Init, Processed
  <2> QED BY <2>1, TypesInit, NestedInit DEF CInv
<1>2. I /\ [Next]_vars => I'
  BY TypesStep, NestedStep, CompleteStep
<1>3. I => PathsComplete
  <2> SUFFICES ASSUME TInv, NInv, CInv, phase = "done", Len(paths) < MaxPaths
               PROVE  /\ \A e \in entry_points : Enumerated(<<e>>)
                      /\ \A k \in 1 .. Len(paths) : \A n \in 1 .. Len(paths[k]) :
                           \A o \in Ops(opa) :
                             Prolongs(paths[k], n, o) =>
                               Enumerated(Append(SubSeq(paths[k], 1, n), o))
    BY DEF PathsComplete
  <2>1. /\ Rooted /\ Covered /\ Depth = 0 /\ position = opa.last
        /\ \A e \in Ops(opa) : e \in Int /\ e < opa.last
    BY CallTyped, ProgramsAssumption DEF CInv, Processed, NInv, Phases, TInv, Ops
  <2>2. ASSUME NEW e \in entry_points
        PROVE  Enumerated(<<e>>)
    <3>1. e \in Int /\ Taken(0, e)
      BY <2>1 DEF Rooted, TInv
    <3>2. PICK p \in PathSet : 0 < Len(p) /\ p[1] = e
      BY <3>1 DEF Taken, Past
    <3>3. p \in Seq(Int) /\ Len(p) \in Nat
      BY <3>2, ElementOfSeq, LenProperties DEF TInv, PathSet, Elements
    <3> DEFINE w == <<e>>
    <3>4. w \in Seq(Int) /\ w # <<>> /\ Len(w) = 1 /\ w[1] = e
      BY <3>1
    <3> HIDE DEF w
    <3>5. Len(p) >= Len(w) /\ \A j \in 1 .. Len(w) : p[j] = w[j]
      BY <3>2, <3>3, <3>4
    <3>6. Enumerated(w)
      BY <3>2, <3>4, <3>5, EnumeratedIs
    <3> QED BY <3>6 DEF w
  <2>3. ASSUME NEW k \in 1 .. Len(paths), NEW n \in 1 .. Len(paths[k]), NEW o \in Ops(opa),
               Prolongs(paths[k], n, o)
        PROVE  Enumerated(Append(SubSeq(paths[k], 1, n), o))
    <3> DEFINE p == paths[k]
               s == SubSeq(p, 1, n)
               w == Append(s, o)
    <3>1. p \in Seq(Int) /\ Len(p) \in Nat /\ p \in PathSet /\ o \in Int /\ n \in Nat
      BY <2>1, ElementOfSeq, LenProperties DEF TInv, PathSet, Elements
    <3>2. s \in Seq(Int) /\ Len(s) = n /\ \A i \in 1 .. n : s[i] = p[i]
      BY <3>1, Prefix
    <3>3. GoesOn(p, n, o)
      BY <2>3, <3>1, ProlongsIsGoesOn
    <3> HIDE DEF p
    <3>4. PICK q \in PathSet : n < Len(q) /\ q[n + 1] = o /\ \A j \in 1 .. n : q[j] = p[j]
      <4>1. n \in 1 .. Len(p)
        BY DEF p
      <4>2. Forked(p, n, o)
        BY <2>1, <3>1, <3>3, <4>1 DEF Covered
      <4> QED BY <4>2 DEF Forked
    <3> HIDE DEF s
    <3>5. /\ w \in Seq(Int) /\ w # <<>> /\ Len(w) = n + 1 /\ w[n + 1] = o
          /\ \A j \in 1 .. n : w[j] = s[j]
      BY <3>1, <3>2, Grown, Prolonged
    <3> HIDE DEF w
    <3>6. Len(q) \in Nat
      BY <3>4, ElementOfSeq, LenProperties DEF TInv, PathSet, Elements
    <3>7. Len(q) >= Len(w) /\ \A j \in 1 .. Len(w) : q[j] = w[j]
      <4>1. Len(q) >= n + 1 /\ 1 .. n + 1 = (1 .. n) \union {n + 1}
        BY <3>1, <3>4, <3>6
      <4>2. \A j \in 1 .. n : q[j] = w[j]
        BY <3>2, <3>4, <3>5
      <4> QED BY <3>4, <3>5, <4>1, <4>2
    <3>8. Enumerated(w)
      BY <3>4, <3>5, <3>7, EnumeratedIs
    <3> QED BY <3>8 DEF w, s, p
  <2> QED BY <2>2, <2>3
<1> QED BY <1>1, <1>2, <1>3, PTL DEF Spec


-----------------------------------------------------------------------------
(* Nothing is there twice.                                                 *)

NoTwins == \A i \in Stops(opa) : ~HasTwins(opa, i)

OneEach(s) == \A m, n \in 1 .. Len(s) : s[m] = s[n] => m = n

Apart == \A b \in Ops(opa) : OneEach(outs[b])

(* No path lies ahead: none goes on by an out-edge that an invocation has  *)
(* not looked at, is on its way before the innermost one has found one, or *)
(* begins at an entry point that was not scanned.                          *)
Later ==
  \A k \in 1 .. Depth : \A j \in 1 .. Len(Out(k)) : \A o :
    o = Out(k)[j] /\ Taken(k, o) => j < calls[k].i

Unseen ==
  Depth > 0 /\ ~calls[Depth].found => \A p \in PathSet : ~Along(p, Depth)

Scanned ==
  \A e : Taken(0, e) => e \in Int /\ e < position

DInv == Apart /\ Later /\ Unseen /\ Scanned /\ OneEach(paths)

LEMMA FewApart ==
  /\ OneEach(<<>>)
  /\ \A a \in Int : OneEach(<<a>>)
<1>1. OneEach(<<>>)
  BY DEF OneEach
<1>2. ASSUME NEW a \in Int
      PROVE  OneEach(<<a>>)
  <2> DEFINE s == <<a>>
  <2>1. Len(s) = 1
    BY Singleton
  <2> HIDE DEF s
  <2>2. \A m, n \in 1 .. 1 : m = n
    OBVIOUS
  <2>3. OneEach(s)
    BY <2>1, <2>2 DEF OneEach
  <2> QED BY <2>3 DEF s
<1> QED BY <1>1, <1>2

LEMMA JumpsApart ==
  ASSUME TInv, NoTwins, NEW i \in Stops(opa)
  PROVE  OneEach(pcov_find_jumps(opa, i))
<1> DEFINE jumps == pcov_find_jumps(opa, i)
<1>1. Len(jumps) \in Nat
  BY JumpsTyped, LenProperties DEF TInv, Stops, OutLists
<1>2. ~\E m, n \in 1 .. Len(jumps) : m < n /\ jumps[m] = jumps[n]
  BY DEF NoTwins, HasTwins
<1> HIDE DEF jumps
<1>3. ASSUME NEW m \in 1 .. Len(jumps), NEW n \in 1 .. Len(jumps), jumps[m] = jumps[n]
      PROVE  m = n
  <2>1. m < n \/ m = n \/ n < m
    BY <1>1
  <2> QED BY <1>2, <1>3, <2>1
<1>4. OneEach(jumps)
  BY <1>3 DEF OneEach
<1> QED BY <1>4 DEF jumps

(* Before the enumeration the out-edges are moved, never mixed.            *)
LEMMA ApartStep ==
  ASSUME TInv, NoTwins, Apart, [Next]_vars
  PROVE  Apart'
<1>1. CASE pcov_analysis_branch
  <2>1. /\ UNCHANGED opa
        /\ outs' = outs \/ \E e \in Stops(opa) : outs' = [outs EXCEPT ![e] = pcov_find_jumps(opa, e)]
    BY <1>1, BranchSteps DEF Skip, WalkOff, WalkTo
  <2>2. CASE outs' = outs
    BY <2>1, <2>2 DEF Apart, Ops
  <2>3. CASE \E e \in Stops(opa) : outs' = [outs EXCEPT ![e] = pcov_find_jumps(opa, e)]
    <3>1. PICK e \in Stops(opa) : outs' = [outs EXCEPT ![e] = pcov_find_jumps(opa, e)]
      BY <2>3
    <3> DEFINE jumps == pcov_find_jumps(opa, e)
    <3>2. OneEach(jumps)
      BY JumpsApart
    <3> HIDE DEF jumps
    <3>3. \A b \in Ops(opa) : outs'[b] = outs[b] \/ outs'[b] = jumps
      BY <3>1 DEF TInv, jumps
    <3>4. \A b \in Ops(opa) : OneEach(outs'[b])
      BY <3>2, <3>3 DEF Apart
    <3> QED BY <2>1, <3>4 DEF Apart, Ops, OneEach
  <2> QED BY <2>1, <2>2, <2>3
<1>2. CASE pcov_branch_post_process
  <2>1. UNCHANGED opa
    BY <1>2 DEF pcov_branch_post_process
  <2>2. CASE outs' = outs
    BY <2>1, <2>2 DEF Apart, Ops
  <2>3. CASE outs' # outs
    <3> DEFINE i == position
               one == <<i>>
               fell == IF i \in starts /\ in_branch
                       THEN [outs EXCEPT ![last_start] = one] ELSE outs
               here == IF i \in starts THEN i ELSE last_start
    <3>1. PostProcess(position) /\ position < opa.last
      BY <1>2, <2>3 DEF pcov_branch_post_process
    <3>2. outs' = IF i \in ends THEN [fell EXCEPT ![here] = fell[i]] ELSE fell
      BY <3>1 DEF PostProcess
    <3>3. OneEach(one) /\ i \in Ops(opa)
      BY <3>1, FewApart, ProgramsAssumption DEF TInv, Ops
    <3> HIDE DEF one
    <3>4. \A b \in Ops(opa) : fell[b] = outs[b] \/ fell[b] = one
      BY DEF TInv
    <3>5. DOMAIN fell = Ops(opa)
      BY DEF TInv
    <3> HIDE DEF fell, here
    <3>6. \A b \in Ops(opa) : outs'[b] = fell[b] \/ outs'[b] = fell[i]
      BY <3>2, <3>5
    <3>7. \A b \in Ops(opa) : OneEach(fell[b])
      BY <3>3, <3>4 DEF Apart
    <3>8. \A b \in Ops(opa) : OneEach(outs'[b])
      BY <3>3, <3>6, <3>7
    <3> QED BY <2>1, <3>8 DEF Apart, Ops, OneEach
  <2> QED BY <2>2, <2>3
<1>3. CASE pcov_analysis_oparray \/ pcov_branch_find_path \/ pcov_branch_find_paths
           \/ UNCHANGED vars
  <2>1. UNCHANGED <<opa, outs>>
    BY <1>3 DEF pcov_analysis_oparray, pcov_branch_find_path, pcov_branch_find_paths, vars
  <2> QED BY <2>1 DEF Apart, Ops
<1> QED BY <1>1, <1>2, <1>3 DEF Next

LEMMA LookApart ==
  ASSUME TInv, NInv, DInv, NEW f \in BOOLEAN, Looks(f), Top.found => f,
         NEW d \in Nat, d = Depth
  PROVE  Later' /\ Unseen' /\ Scanned' /\ OneEach(paths')
<1>1. /\ d \in Nat \ {0} /\ Depth' = d /\ Top = calls[d]
      /\ \A k \in 1 .. d : calls[k].i \in Nat \ {0}
      /\ UNCHANGED <<opa, position, outs, paths>>
  BY CallTyped DEF Looks, Still, Top, Depth
<1>2. /\ \A k \in 1 .. d : calls'[k].walk = calls[k].walk
      /\ \A k \in 1 .. d - 1 : calls'[k].i = calls[k].i
      /\ calls'[d].i = calls[d].i + 1 /\ calls'[d].found = f
  BY <1>1 DEF Looks, Looked, Kept
<1>3. \A k \in 1 .. d : At(k)' = At(k) /\ Out(k)' = Out(k)
  BY <1>1, <1>2, SameStack
<1>4. PathSet' = PathSet
  BY <1>1 DEF PathSet, Elements
<1>5. /\ \A p : \A k \in 0 .. d : Along(p, k)' <=> Along(p, k)
      /\ \A k \in 0 .. d : \A o : Taken(k, o)' <=> Taken(k, o)
  <2>1. \A p : \A k \in 0 .. d : Along(p, k)' <=> Along(p, k)
    BY <1>1, <1>3, <1>4, TakenKept
  <2> QED BY <1>4, <2>1 DEF Taken, Past
<1>6. Later'
  <2>1. \A k \in 1 .. d : \A j \in 1 .. Len(Out(k)) : \A o :
          o = Out(k)[j] /\ Taken(k, o) => j < calls[k].i /\ j \in Nat
    <3>1. \A k \in 1 .. d : \A j \in 1 .. Len(Out(k)) : j \in Nat
      OBVIOUS
    <3> QED BY <3>1 DEF DInv, Later
  <2>2. \A k \in 1 .. d : k \in 0 .. d /\ calls[k].i <= calls'[k].i /\ calls'[k].i \in Nat
    BY <1>1, <1>2
  <2>3. ASSUME NEW k \in 1 .. d, NEW j \in 1 .. Len(Out(k)), NEW o, o = Out(k)[j],
               Taken(k, o)'
        PROVE  j < calls'[k].i
    <3>1. k \in 0 .. d /\ calls[k].i \in Nat /\ calls'[k].i \in Nat /\ calls[k].i <= calls'[k].i
      BY <1>1, <2>2
    <3>2. Taken(k, o)
      BY <1>5, <2>3, <3>1
    <3>3. j < calls[k].i /\ j \in Nat
      BY <2>1, <2>3, <3>2
    <3> QED BY <3>1, <3>3
  <2> QED BY <1>1, <1>3, <2>3 DEF Later
<1>7. Unseen'
  <2>1. ~f => \A p \in PathSet : ~Along(p, d)
    BY <1>1 DEF DInv, Unseen
  <2>2. d \in 0 .. d
    BY <1>1
  <2> QED BY <1>1, <1>2, <1>4, <1>5, <2>1, <2>2 DEF Unseen
<1>8. Scanned' /\ OneEach(paths')
  BY <1>1, <1>5 DEF DInv, Scanned
<1> QED BY <1>6, <1>7, <1>8

LEMMA DescendApart ==
  ASSUME TInv, TInv', NInv, DInv, Descends, NEW d \in Nat, d = Depth
  PROVE  Later' /\ Unseen' /\ Scanned' /\ OneEach(paths')
<1>1. /\ d \in Nat \ {0} /\ Depth' = d + 1
      /\ \A k \in 1 .. d : calls[k].i \in Nat \ {0}
      /\ UNCHANGED <<opa, position, outs, paths>>
  BY CallTyped DEF Descends, Still
<1>2. At(d + 1)' = Out(d)[calls[d].i] /\ calls[d].i <= Len(Out(d))
  <2>1. Top = calls[d]
    BY DEF Top, Depth
  <2> QED BY <2>1, DescendNested DEF Descends
<1>3. /\ \A k \in 1 .. d : calls'[k].walk = calls[k].walk
      /\ \A k \in 1 .. d - 1 : calls'[k].i = calls[k].i
      /\ calls'[d].i = calls[d].i + 1
  <2>1. /\ \A k \in 1 .. d - 1 : calls'[k] = calls[k]
        /\ calls'[d].walk = calls[d].walk /\ calls'[d].i = calls[d].i + 1
    BY DEF Descends, Looked, Kept
  <2>2. 1 .. d = (1 .. d - 1) \union {d}
    BY <1>1
  <2> QED BY <2>1, <2>2
<1>4. \A k \in 1 .. d : At(k)' = At(k) /\ Out(k)' = Out(k)
  BY <1>1, <1>3, SameStack
<1>5. PathSet' = PathSet
  BY <1>1 DEF PathSet, Elements
<1>6. /\ \A p : \A k \in 0 .. d : Along(p, k)' <=> Along(p, k)
      /\ \A k \in 0 .. d : \A o : Taken(k, o)' <=> Taken(k, o)
  <2>1. \A p : \A k \in 0 .. d : Along(p, k)' <=> Along(p, k)
    BY <1>1, <1>4, <1>5, TakenKept
  <2> QED BY <1>5, <2>1 DEF Taken, Past
(* No path goes on by the out-edge looked at.                              *)
<1>7. \A p \in PathSet : ~Along(p, d + 1)'
  <2>1. SUFFICES ASSUME NEW p \in PathSet, Along(p, d + 1)'
                 PROVE  FALSE
    OBVIOUS
  <2>2. d + 1 <= Len(p) /\ p[d + 1] = At(d + 1)' /\ \A j \in 1 .. d : p[j] = At(j)'
    BY <1>1, <2>1 DEF Along
  <2>3. Len(p) \in Nat
    BY ElementOfSeq, LenProperties DEF TInv, PathSet, Elements
  <2>4. Past(p, d, p[d + 1])
    BY <1>1, <1>4, <2>2, <2>3 DEF Past, Along
  <2>5. Taken(d, p[d + 1]) /\ p[d + 1] = Out(d)[calls[d].i]
    BY <1>2, <2>2, <2>4 DEF Taken
  <2>6. d \in 1 .. Depth /\ calls[d].i \in 1 .. Len(Out(d))
    BY <1>1, <1>2, LenProperties DEF TInv, NInv, Nested, Out, OutLists
  <2>7. calls[d].i < calls[d].i
    BY <2>5, <2>6 DEF DInv, Later
  <2> QED BY <1>1, <2>7
<1>8. Later'
  <2>1. ASSUME NEW k \in 1 .. d, NEW j \in 1 .. Len(Out(k)), NEW o, o = Out(k)[j],
               Taken(k, o)'
        PROVE  j < calls'[k].i
    <3>1. k \in 0 .. d /\ calls[k].i \in Nat /\ calls'[k].i \in Nat /\ calls[k].i <= calls'[k].i
      BY <1>1, <1>3, SMTT(20)
    <3>2. Taken(k, o)
      BY <1>6, <2>1, <3>1
    <3>3. j < calls[k].i /\ j \in Nat
      BY <2>1, <3>2 DEF DInv, Later
    <3> QED BY <3>1, <3>3
  <2>2. \A o : ~Taken(d + 1, o)'
    BY <1>5, <1>7 DEF Taken, Past
  <2>3. 1 .. d + 1 = (1 .. d) \union {d + 1}
    BY <1>1
  <2> QED BY <1>1, <1>4, <2>1, <2>2, <2>3 DEF Later
<1>9. Unseen'
  BY <1>1, <1>5, <1>7 DEF Unseen
<1>10. Scanned' /\ OneEach(paths')
  BY <1>1, <1>6 DEF DInv, Scanned
<1> QED BY <1>8, <1>9, <1>10

LEMMA AscendApart ==
  ASSUME TInv, TInv', NInv, DInv, Ascends, NEW d \in Nat, d = Depth,
         NEW w, w = calls[d].walk
  PROVE  Later' /\ Unseen' /\ Scanned' /\ OneEach(paths')
<1>1. /\ d \in Nat \ {0} /\ d - 1 \in Nat /\ Depth' = d - 1
      /\ w \in Seq(Int) /\ calls[d].found \in BOOLEAN
      /\ UNCHANGED <<opa, position, outs>>
      /\ calls[d].found => paths' = paths
      /\ ~calls[d].found => paths' = Append(paths, w)
  BY CallTyped, AscendNested DEF Ascends, Still, Depth
<1>2. \A k \in 1 .. d - 1 : calls'[k] = calls[k] /\ calls'[k].found
  BY CallersFind DEF Ascends, Kept
<1>3. \A k \in 1 .. d - 1 : At(k)' = At(k) /\ Out(k)' = Out(k)
  <2>1. \A k \in 1 .. d - 1 : calls'[k].walk = calls[k].walk
    BY <1>2
  <2> QED BY <1>1, <2>1, SameStack
<1>4. \A p : \A k \in 0 .. d - 1 : Along(p, k)' <=> Along(p, k)
  BY <1>3 DEF Along
<1>5. Unseen'
  BY <1>1, <1>2 DEF Unseen
<1>6. CASE calls[d].found
  <2>1. PathSet' = PathSet /\ paths' = paths
    BY <1>1, <1>6 DEF PathSet, Elements
  <2>2. \A k \in 0 .. d - 1 : \A o : Taken(k, o)' <=> Taken(k, o)
    BY <1>4, <2>1 DEF Taken, Past
  <2>3. Later'
    <3>1. \A k \in 1 .. d - 1 : k \in 0 .. d - 1 /\ k \in 1 .. Depth
      BY <1>1
    <3> QED BY <1>1, <1>2, <1>3, <2>2, <3>1 DEF DInv, Later
  <2>4. Scanned' /\ OneEach(paths')
    <3>1. 0 \in 0 .. d - 1
      BY <1>1
    <3> QED BY <1>1, <2>1, <2>2, <3>1 DEF DInv, Scanned
  <2> QED BY <1>5, <2>3, <2>4
<1>7. CASE ~calls[d].found
  <2>1. /\ Len(paths') = Len(paths) + 1 /\ paths'[Len(paths) + 1] = w
        /\ \A m \in 1 .. Len(paths) : paths'[m] = paths[m]
        /\ 1 .. Len(paths') = (1 .. Len(paths)) \union {Len(paths) + 1}
        /\ PathSet' = PathSet \union {w}
    <3>1. /\ Len(paths') = Len(paths) + 1 /\ paths'[Len(paths) + 1] = w
          /\ \A m \in 1 .. Len(paths) : paths'[m] = paths[m]
          /\ 1 .. Len(paths') = (1 .. Len(paths)) \union {Len(paths) + 1}
      BY <1>1, <1>7, PathsGrow
    <3> QED BY <3>1 DEF PathSet, Elements
  <2>2. Len(w) = d /\ \A j \in 1 .. d : w[j] = At(j)
    BY <1>1 DEF NInv, Nested
  <2>3. /\ \A k \in 0 .. d - 1 : \A o :
             Taken(k, o)' => Taken(k, o) \/ o = At(k + 1)
    <3>1. ASSUME NEW k \in 0 .. d - 1, NEW o, Taken(k, o)'
          PROVE  Taken(k, o) \/ o = At(k + 1)
      <4>1. PICK p \in PathSet' : Past(p, k, o)'
        BY <3>1 DEF Taken
      <4>2. Past(p, k, o)
        BY <1>4, <4>1 DEF Past
      <4>3. k + 1 \in 1 .. d
        BY <1>1
      <4> QED BY <2>1, <2>2, <4>1, <4>2, <4>3 DEF Taken, Past
    <3> QED BY <3>1
  <2>4. Later'
    <3>1. ASSUME NEW k \in 1 .. d - 1, NEW j \in 1 .. Len(Out(k)), NEW o, o = Out(k)[j],
                 Taken(k, o)'
          PROVE  j < calls[k].i
      <4>1. k \in 0 .. d - 1 /\ k \in 1 .. Depth /\ k \in 1 .. Depth - 1
        BY <1>1
      <4>2. CASE Taken(k, o)
        BY <3>1, <4>1, <4>2 DEF DInv, Later
      <4>3. CASE o = At(k + 1)
        <5>1. /\ At(k + 1) = Out(k)[calls[k].i - 1] /\ calls[k].i > 1
              /\ calls[k].i <= Len(Out(k)) + 1 /\ calls[k].i \in Nat
          BY <4>1, CallTyped DEF NInv, Linked, Finding
        <5>2. Len(Out(k)) \in Nat /\ OneEach(Out(k))
          BY <4>1, LenProperties DEF TInv, NInv, Nested, Out, OutLists, DInv, Apart
        <5>3. calls[k].i - 1 \in 1 .. Len(Out(k))
          BY <5>1, <5>2
        <5>4. j = calls[k].i - 1
          BY <3>1, <4>3, <5>1, <5>2, <5>3 DEF OneEach
        <5> QED BY <5>1, <5>4
      <4> QED BY <2>3, <3>1, <4>1, <4>2, <4>3
    <3> QED BY <1>1, <1>2, <1>3, <3>1 DEF Later
  <2>5. Scanned'
    <3>1. 0 \in 0 .. d - 1 /\ At(1) = position - 1 /\ position \in Int
      BY <1>1 DEF NInv, Linked, TInv
    <3> QED BY <1>1, <2>3, <3>1 DEF DInv, Scanned
  <2>6. OneEach(paths')
    <3>1. Along(w, d)
      BY <1>1, <2>2 DEF Along
    <3>2. \A p \in PathSet : p # w
      BY <1>1, <1>7, <3>1 DEF DInv, Unseen
    <3>3. \A m \in 1 .. Len(paths) : paths[m] # w
      BY <3>2 DEF PathSet, Elements
    <3>4. \A m, n \in 1 .. Len(paths) : paths[m] = paths[n] => m = n
      BY DEF DInv, OneEach
    <3> QED BY <2>1, <3>3, <3>4 DEF OneEach
  <2> QED BY <1>5, <2>4, <2>5, <2>6
<1> QED BY <1>1, <1>6, <1>7

LEMMA BeginApart ==
  ASSUME TInv, TInv', NInv, DInv, Begins
  PROVE  Later' /\ Unseen' /\ Scanned' /\ OneEach(paths')
<1>1. /\ Depth' = 1 /\ At(1)' = position /\ position' = position + 1 /\ position \in Int
      /\ UNCHANGED paths /\ PathSet' = PathSet
  <2>1. UNCHANGED paths /\ At(1)' = position
    BY BeginNested DEF Begins
  <2> QED BY <2>1 DEF Begins, TInv, PathSet, Elements
<1>2. \A o : Taken(0, o)' <=> Taken(0, o)
  BY <1>1 DEF Taken, Past, Along
<1>3. \A p \in PathSet : ~Along(p, 1)'
  <2>1. SUFFICES ASSUME NEW p \in PathSet, Along(p, 1)'
                 PROVE  FALSE
    OBVIOUS
  <2>2. 1 <= Len(p) /\ p[1] = position
    BY <1>1, <2>1 DEF Along
  <2>3. Len(p) \in Nat
    BY ElementOfSeq, LenProperties DEF TInv, PathSet, Elements
  <2>4. Taken(0, p[1])
    BY <2>2, <2>3 DEF Taken, Past, Along
  <2> QED BY <1>1, <2>2, <2>4 DEF DInv, Scanned
<1>4. \A o : ~Taken(1, o)'
  BY <1>1, <1>3 DEF Taken, Past
<1>5. Later'
  BY <1>1, <1>4 DEF Later
<1>6. Unseen'
  BY <1>1, <1>3 DEF Unseen
<1>7. Scanned'
  BY <1>1, <1>2 DEF DInv, Scanned
<1>8. OneEach(paths')
  BY <1>1 DEF DInv
<1> QED BY <1>5, <1>6, <1>7, <1>8

LEMMA ApartKept ==
  ASSUME TInv, TInv', NInv, NoTwins, DInv, [Next]_vars
  PROVE  DInv'
<1>1. Apart'
  BY ApartStep DEF DInv
<1>2. Depth \in Nat /\ (Depth > 0 => Top.found \in BOOLEAN)
  BY CallTyped DEF Top, Depth
<1> SUFFICES Later' /\ Unseen' /\ Scanned' /\ OneEach(paths')
  BY <1>1 DEF DInv
<1>3. CASE Passes
  BY <1>2, <1>3, LookApart DEF Passes, Looks
<1>4. CASE Refused
  BY <1>2, <1>4, LookApart DEF Refused
<1>5. CASE Descends
  BY <1>2, <1>5, DescendApart
<1>6. CASE Ascends
  <2>1. PICK w : w = calls[Depth].walk
    OBVIOUS
  <2> QED BY <1>2, <1>6, <2>1, AscendApart
<1>7. CASE Continues \/ Finishes
  <2>1. /\ Depth' = 0 /\ UNCHANGED paths /\ position \in Int
        /\ position' \in Int /\ position' >= position
    BY <1>7 DEF Continues, Finishes, TInv
  <2>2. \A o : Taken(0, o)' <=> Taken(0, o)
    BY <2>1 DEF Taken, Past, Along, PathSet, Elements
  <2> QED BY <2>1, <2>2 DEF DInv, Later, Unseen, Scanned
<1>8. CASE Precedes
  <2>1. Depth' = 0 /\ PathSet' = {} /\ Len(paths') = 0
    BY <1>8 DEF Precedes, NInv, Phases, PathSet, Elements
  <2> QED BY <2>1 DEF Later, Unseen, Scanned, Taken, OneEach
<1>9. CASE Idles
  <2>1. UNCHANGED <<opa, position, outs, calls, paths>> /\ Depth' = Depth
    BY <1>9 DEF Idles, Still, pathVars
  <2>2. PathSet' = PathSet /\ (\A k : At(k)' = At(k)) /\ (\A k : Out(k)' = Out(k))
    BY <2>1 DEF PathSet, Elements, At, Out
  <2>3. /\ \A p, n : Along(p, n)' <=> Along(p, n)
        /\ \A k, o : Taken(k, o)' <=> Taken(k, o)
    BY <2>2 DEF Along, Taken, Past
  <2>4. Later'
    BY <2>1, <2>2, <2>3 DEF DInv, Later
  <2> QED BY <2>1, <2>2, <2>3, <2>4 DEF DInv, Unseen, Scanned
<1> QED BY <1>3, <1>4, <1>5, <1>6, <1>7, <1>8, <1>9, BeginApart, EnumerationSteps

(* The invariant of PathsAreDistinct.                                      *)
TwinsApart == NoTwins => DInv

(* No path is enumerated twice, unless two targets of an opcode coincide:  *)
(* then an invocation goes on by the same out-edge twice.                  *)
THEOREM PathsAreDistinct == Spec => []PathsDistinct
<1> DEFINE I == TInv /\ NInv /\ TwinsApart
<1>1. Init => I
  <2> SUFFICES ASSUME Init
               PROVE  DInv
    BY TypesInit, NestedInit DEF TwinsApart
  <2>1. calls = <<>> /\ paths = <<>> /\ outs = [i \in Ops(opa) |-> <<>>]
    BY DEF Init
  <2>2. Apart
    BY <2>1, FewApart DEF Apart
  <2>3. Depth = 0 /\ PathSet = {} /\ OneEach(paths)
    BY <2>1, FewApart DEF Depth, PathSet, Elements
  <2> QED BY <2>2, <2>3 DEF DInv, Later, Unseen, Scanned, Taken
<1>2. I /\ [Next]_vars => I'
  <2> SUFFICES ASSUME I, [Next]_vars
               PROVE  TwinsApart'
    BY TypesStep, NestedStep
  <2>1. UNCHANGED opa
    BY DEF Next, vars, pcov_analysis_branch, pcov_analysis_oparray, pcov_branch_post_process,
           pcov_branch_find_path, pcov_branch_find_paths
  <2>2. NoTwins' => NoTwins
    BY <2>1 DEF NoTwins
  <2> QED BY <2>2, TypesStep, ApartKept DEF TwinsApart
<1>3. I => PathsDistinct
  <2> SUFFICES ASSUME I, NoTwins
               PROVE  \A m, n \in 1 .. Len(paths) : m < n => paths[m] # paths[n]
    BY DEF PathsDistinct, NoTwins
  <2>1. OneEach(paths)
    BY DEF TwinsApart, DInv
  <2>2. \A m, n \in 1 .. Len(paths) : m < n => m # n
    OBVIOUS
  <2> QED BY <2>1, <2>2 DEF OneEach
<1> QED BY <1>1, <1>2, <1>3, PTL DEF Spec

================================================================================
