----------------------------- MODULE PcovBranchInfo -----------------------------
(***************************************************************************)
(* The static analysis of pcov_branch.c: from the opcodes of one op_array  *)
(* to its branch starts, entry points, out-edges and enumerated paths.     *)
(*                                                                         *)
(* The two recursions of the code are loops over an explicit stack here:   *)
(* pending holds the positions pcov_analysis_branch has still to be called *)
(* on, in the order of the calls, and calls the invocations of             *)
(* pcov_branch_find_path.  An opcode is its kind and the opcodes its       *)
(* operands point at; kinds that pcov_find_jumps treats alike are one.     *)
(***************************************************************************)
EXTENDS Integers, Sequences, FiniteSets

CONSTANTS
  Programs,   \* op_arrays [last, ops], ops a function on 0 .. last - 1
  MaxPaths,   \* PCOV_MAX_PATHS
  MaxOuts,    \* PCOV_BRANCH_MAX_OUTS
  WordBits    \* bits in a word of a zend_bitset

EXIT == -1    \* PCOV_JMP_EXIT

Kinds == {"plain", "jmp", "cond", "fast_call", "return", "return_by_ref",
          "catch", "last_catch", "switch", "match"}

(* Those whose operands point at opcodes.                                  *)
WithTargets == {"jmp", "cond", "fast_call", "catch", "switch", "match"}

ASSUME ProgramsAssumption ==
  /\ MaxPaths \in Nat /\ MaxOuts \in Nat \ {0, 1} /\ WordBits \in Nat \ {0}
  /\ \A p \in Programs :
       /\ p.last \in Nat \ {0}
       /\ p.ops \in [0 .. p.last - 1 -> [kind : Kinds, to : Seq(Nat)]]
       /\ \A i \in 0 .. p.last - 1 :
            p.ops[i].kind \in WithTargets => p.ops[i].to # <<>>

VARIABLES
  opa,         \* the op_array
  phase,       \* "analysis", "process", "paths" or "done"
  position,    \* the scan of the running phase
  pending,     \* calls of pcov_analysis_branch not made yet
  set,         \* the bits of the opcodes that have been walked
  starts, ends, entry_points,   \* of pcov_branch_info
  outs,        \* out-edges of each opcode, in order
  last_start,  \* the branch being processed, -1 before the first
  in_branch,   \* it has not ended
  calls,       \* invocations of pcov_branch_find_path, innermost last
  paths        \* the enumerated paths

analysisVars == <<pending, set, starts>>
processVars  == <<last_start, in_branch>>
pathVars     == <<calls, paths>>
vars == <<opa, phase, position, analysisVars, ends, entry_points, outs,
          processVars, pathVars>>

Ops(p) == 0 .. p.last - 1

-----------------------------------------------------------------------------
(* Mutant: the jumps array takes every case of a switch.                   *)
AllCases(cases) == cases

(* The cases of a switch that leave room for its default and what follows. *)
FirstCases(cases) ==
  [n \in {m \in 1 .. Len(cases) : m <= MaxOuts - 2} |-> cases[n]]

(* pcov_find_jumps: the jumps array, empty when the opcode is no jump.     *)
pcov_find_jumps(p, i) ==
  LET op      == p.ops[i]
      some    == FirstCases(SubSeq(op.to, 1, Len(op.to) - 1))
      default == <<op.to[Len(op.to)]>>
  IN  CASE op.kind = "jmp"        -> <<op.to[1]>>
        [] op.kind = "cond"       -> <<i + 1, op.to[1]>>
        [] op.kind = "fast_call"  -> <<op.to[1], i + 1>>
        [] op.kind = "return"     -> <<EXIT>>
        [] op.kind = "catch"      -> IF op.to[1] = i + 1 THEN <<i + 1>>
                                                         ELSE <<i + 1, op.to[1]>>
        [] op.kind = "last_catch" -> <<i + 1, EXIT>>
        [] op.kind = "switch"     -> some \o default \o <<i + 1>>
        [] op.kind = "match"      -> some \o default
        [] OTHER                  -> <<>>

(* The opcodes at which pcov_analysis_branch stops walking.                *)
Stops(p) == {i \in Ops(p) : pcov_find_jumps(p, i) # <<>>
                            \/ p.ops[i].kind = "return_by_ref"}

(* Mutant: the walk goes on to the opcode after the one it stops at.       *)
WalkedPast(p, pos) ==
  {i \in 0 .. p.last : i >= pos /\ \A j \in Stops(p) : j >= pos => i <= j + 1}

(* Mutant: the walk ends before the opcode it stops at.                    *)
WalkedShort(p, pos) ==
  {i \in 0 .. p.last : i >= pos /\ \A j \in Stops(p) : j >= pos => i < j}

(* The bits set by the walk from pos: up to the first stop.  The loop      *)
(* increments position and sets its bit before it tests position, so a     *)
(* walk that nothing stops also sets bit last, which is no opcode's.       *)
Walked(p, pos) ==
  {i \in 0 .. p.last : i >= pos /\ \A j \in Stops(p) : j >= pos => i <= j}

(* The bits set has room for: zend_bitset_len(last) words.                 *)
Allocated(p) == 0 .. WordBits * ((p.last + WordBits - 1) \div WordBits) - 1

Catches(p) == {i \in Ops(p) : p.ops[i].kind \in {"catch", "last_catch"}}

(* Mutant: walks a branch again each time it is jumped to.                 *)
NeverSeen(pos) == FALSE

Seen(pos) == pos \in set

(* pcov_analysis_branch on the first pending position: it is a start, and  *)
(* unless its opcode was walked, the walk from it ends in a jump whose     *)
(* targets are analysed next.                                              *)
pcov_analysis_branch ==
  LET pos   == Head(pending)
      walk  == Walked(opa, pos)
      stop  == walk \intersect Stops(opa)
      jumps == [i \in stop |-> pcov_find_jumps(opa, i)]
  IN  /\ phase = "analysis" /\ pending # <<>>
      /\ IF pos \notin Ops(opa) \/ Seen(pos)
         THEN /\ starts' = starts \union ({pos} \intersect Ops(opa))
              /\ pending' = Tail(pending)
              /\ UNCHANGED <<set, ends, outs>>
         ELSE /\ starts' = starts \union {pos}
              /\ set'    = set \union walk
              /\ ends'   = ends \union stop
              /\ outs'   = [i \in Ops(opa) |-> IF i \in stop THEN jumps[i] ELSE outs[i]]
              /\ \/ \E i \in stop : pending' = jumps[i] \o Tail(pending)
                 \/ stop = {} /\ pending' = Tail(pending)
      /\ UNCHANGED <<opa, phase, position, entry_points, processVars, pathVars>>

(* The catches that are entered from another catch only: each chain is     *)
(* followed from its first one, which alone stays an entry point, and as   *)
(* far as it leads to catches.  ZEND_FETCH_CLASS, which the code skips in  *)
(* front of a catch and the compiler does not emit there, is left out.     *)
pcov_only_leave_first_catch ==
  Catches(opa) \intersect
    {opa.ops[i].to[1] : i \in {j \in Catches(opa) : opa.ops[j].kind = "catch"}}

(* pcov_analysis_oparray: opcode 0 and the catches are analysed, and the   *)
(* last opcode is an end.  What post-processing begins with comes with the *)
(* last step: the entry points are reduced.                                *)
pcov_analysis_oparray ==
  /\ phase = "analysis" /\ pending = <<>>
  /\ IF position < opa.last
     THEN /\ position' = position + 1
          /\ IF position \in {0} \union Catches(opa)
             THEN /\ pending' = <<position>>
                  /\ entry_points' = entry_points \union {position}
             ELSE UNCHANGED <<pending, entry_points>>
          /\ UNCHANGED <<phase, ends>>
     ELSE /\ position' = 0
          /\ phase' = "process"
          /\ ends' = ends \union {opa.last - 1}
          /\ entry_points' = entry_points \ pcov_only_leave_first_catch
          /\ UNCHANGED pending
  /\ UNCHANGED <<opa, set, starts, outs, processVars, pathVars>>

-----------------------------------------------------------------------------
(* pcov_branch_post_process on one opcode: a start ends the branch before  *)
(* it by falling through, an end gives its outs to the branch.             *)

(* Mutant: falling into the next branch makes no edge.                     *)
ProcessNoFallThrough(i) ==
  LET here == IF i \in starts THEN i ELSE last_start
  IN  /\ outs' = IF i \in ends THEN [outs EXCEPT ![here] = outs[i]] ELSE outs
      /\ last_start' = here
      /\ in_branch'  = (i \notin ends /\ (in_branch \/ i \in starts))

PostProcess(i) ==
  LET fell == IF i \in starts /\ in_branch
              THEN [outs EXCEPT ![last_start] = <<i>>] ELSE outs
      here == IF i \in starts THEN i ELSE last_start
  IN  /\ outs' = IF i \in ends THEN [fell EXCEPT ![here] = fell[i]] ELSE fell
      /\ last_start' = here
      /\ in_branch'  = (i \notin ends /\ (in_branch \/ i \in starts))

pcov_branch_post_process ==
  /\ phase = "process"
  /\ IF position < opa.last
     THEN /\ PostProcess(position)
          /\ position' = position + 1
          /\ UNCHANGED phase
     ELSE /\ position' = 0
          /\ phase' = "paths"
          /\ UNCHANGED <<outs, processVars>>
  /\ UNCHANGED <<opa, analysisVars, ends, entry_points, pathVars>>

-----------------------------------------------------------------------------
(* Path enumeration.                                                       *)

LastOf(s) == s[Len(s)]

pcov_path_edge_exists(walk, from, to) ==
  \E i \in 1 .. Len(walk) - 1 : walk[i] = from /\ walk[i + 1] = to

(* Mutant: a branch is never entered twice.                                *)
FollowsNewBranch(walk, o) == o > 0 /\ o \in Ops(opa) /\ \A i \in 1 .. Len(walk) : walk[i] # o

(* Mutant: only the first out-edge of a branch is followed.                *)
FollowsFirst(walk, o) ==
  /\ o > 0 /\ o \in Ops(opa) /\ ~pcov_path_edge_exists(walk, LastOf(walk), o)
  /\ o = outs[LastOf(walk)][1]

(* The out-edges a walk is prolonged by: to a real opcode other than 0,    *)
(* along an edge it has not used.                                          *)
Follows(walk, o) ==
  o > 0 /\ o \in Ops(opa) /\ ~pcov_path_edge_exists(walk, LastOf(walk), o)

(* Mutant: the cap stops the entry points only.                            *)
InvokeUncapped(stack, walk) ==
  Append(stack, [walk |-> walk, i |-> 1, found |-> FALSE])

(* A call of pcov_branch_find_path, which returns at once at the cap.      *)
Invoke(stack, walk) ==
  IF Len(paths) >= MaxPaths
  THEN stack
  ELSE Append(stack, [walk |-> walk, i |-> 1, found |-> FALSE])

(* Mutant: the new path begins where it branches off.                      *)
PathAfresh(prev, nr) == <<nr>>

(* pcov_path_new copies the path it prolongs.                              *)
pcov_path_new(prev, nr) == Append(prev, nr)

(* The innermost invocation looks at its next out-edge, or is through with *)
(* them and has a path if it followed none.                                *)
pcov_branch_find_path ==
  LET call == LastOf(calls)
      tos  == outs[LastOf(call.walk)]
      rest == SubSeq(calls, 1, Len(calls) - 1)
  IN  /\ phase = "paths" /\ calls # <<>>
      /\ IF call.i <= Len(tos)
         THEN /\ calls' =
                   IF Follows(call.walk, tos[call.i])
                   THEN Invoke(Append(rest, [call EXCEPT !.i = @ + 1, !.found = TRUE]),
                               pcov_path_new(call.walk, tos[call.i]))
                   ELSE Append(rest, [call EXCEPT !.i = @ + 1])
              /\ UNCHANGED paths
         ELSE /\ calls' = rest
              /\ paths' = IF call.found THEN paths ELSE Append(paths, call.walk)
      /\ UNCHANGED <<opa, phase, position, analysisVars, ends, entry_points,
                     outs, processVars>>

pcov_branch_find_paths ==
  /\ phase = "paths" /\ calls = <<>>
  /\ IF position < opa.last
     THEN /\ position' = position + 1
          /\ calls' = IF position \in entry_points
                      THEN Invoke(calls, <<position>>) ELSE calls
          /\ UNCHANGED phase
     ELSE phase' = "done" /\ UNCHANGED <<position, calls>>
  /\ UNCHANGED <<opa, analysisVars, ends, entry_points, outs, processVars, paths>>

-----------------------------------------------------------------------------

(* pcov_branch_info_create_from_oparray has allocated an empty analysis.   *)
Init ==
  /\ opa \in Programs
  /\ phase = "analysis"
  /\ position = 0
  /\ pending = <<>>
  /\ set = {} /\ starts = {} /\ ends = {} /\ entry_points = {}
  /\ outs = [i \in Ops(opa) |-> <<>>]
  /\ last_start = -1
  /\ in_branch = FALSE
  /\ calls = <<>>
  /\ paths = <<>>

Next ==
  \/ pcov_analysis_branch
  \/ pcov_analysis_oparray
  \/ pcov_branch_post_process
  \/ pcov_branch_find_path
  \/ pcov_branch_find_paths

(* The code is a function that runs to its end, so a step that can be      *)
(* taken is taken.                                                         *)
Spec == Init /\ [][Next]_vars /\ WF_vars(Next)

-----------------------------------------------------------------------------
(* What the opcodes say, independently of the analysis.                    *)

Elements(s) == {s[i] : i \in 1 .. Len(s)}

(* The opcodes that have been walked.                                      *)
Done == set \intersect Ops(opa)

(* Where control can go from opcode i, handlers aside.                     *)
Flows(p, i) ==
  IF i \in Stops(p) THEN Elements(pcov_find_jumps(p, i)) ELSE {i + 1}

Roots(p) == {0} \union Catches(p)

(* Control that is in S stays in S while it stays in the op_array.         *)
Closed(p, S) ==
  /\ Roots(p) \subseteq S
  /\ \A i \in S : Flows(p, i) \intersect Ops(p) \subseteq S

(* The opcodes control can come to: the least closed set.                  *)
Live(p) ==
  {i \in Ops(p) : \A S \in SUBSET Ops(p) : i \in S \/ ~Closed(p, S)}

(* Where the stops in S lead to.                                           *)
Targets(p, S) ==
  {o \in Ops(p) : \E i \in S \intersect Stops(p) : o \in Elements(pcov_find_jumps(p, i))}

(* The last opcode of the branch that starts at b: the first from b on     *)
(* that stops, comes before another start or is the last one.              *)
EndOf(b) ==
  LET Ending(i) == i \in Stops(opa) \/ i + 1 \in starts \union {opa.last}
  IN  CHOOSE e \in b .. opa.last - 1 :
        Ending(e) /\ \A i \in b .. e - 1 : ~Ending(i)

Processed == phase \in {"paths", "done"}

-----------------------------------------------------------------------------
(* Properties.                                                             *)

(* The starts, ends, entry points and outs are those of opcodes, set goes  *)
(* at most one bit further, and a switch with more cases than fit leaves   *)
(* room for its other two jumps.                                           *)
TypeOK ==
  /\ phase \in {"analysis", "process", "paths", "done"}
  /\ position \in 0 .. opa.last
  /\ pending \in Seq(Int)
  /\ set \subseteq 0 .. opa.last
  /\ starts \subseteq Ops(opa) /\ ends \subseteq Ops(opa)
  /\ entry_points \subseteq Ops(opa)
  /\ outs \in [Ops(opa) -> Seq(Int)] /\ \A i \in Ops(opa) : Len(outs[i]) <= MaxOuts
  /\ last_start \in Ops(opa) \union {-1}
  /\ in_branch \in BOOLEAN
  /\ paths \in Seq(Seq(Int))

(* The walk that skips what it has seen still reaches every opcode control *)
(* can come to, and every target of a live jump starts a branch, no dead   *)
(* code does.                                                              *)
StartsExact ==
  phase # "analysis" =>
    /\ Done = Live(opa)
    /\ starts = Roots(opa) \union Targets(opa, Done)

(* The writes of the analysis do not exceed the allocations made for the   *)
(* op_array's last, also where its opcodes fill the words of set, if the   *)
(* walk stops at its last opcode.  A function of return type never ends in *)
(* one that stops nothing; without the condition TLC finds its bit last    *)
(* behind the last word.                                                   *)
SetInBounds == opa.last - 1 \in Stops(opa) => set \subseteq Allocated(opa)

(* The outs that are moved from the opcode that ends a branch to the one   *)
(* that starts it, or made when it falls into the next, are those of the   *)
(* opcodes: the terminator of a branch is its own.                         *)
OutsExact ==
  Processed =>
    \A b \in starts :
      outs[b] = IF EndOf(b) \in Stops(opa)      THEN pcov_find_jumps(opa, EndOf(b))
                ELSE IF EndOf(b) + 1 \in starts THEN <<EndOf(b) + 1>>
                                                ELSE <<>>

(* Whether o prolongs the first n branches of walk.                        *)
Prolongs(walk, n, o) ==
  /\ o \in Elements(outs[walk[n]]) /\ o > 0 /\ o \in Ops(opa)
  /\ ~pcov_path_edge_exists(SubSeq(walk, 1, n), walk[n], o)

(* docs/01-contract.md maps the opcodes that leave a function to EXIT, so  *)
(* a branch that ends in one has that edge and no other.                   *)
ReturnsExit ==
  Processed => \A b \in starts : opa.ops[EndOf(b)].kind = "return" => outs[b] = <<EXIT>>

(* An enumerated path leads from an entry point along out-edges, uses none *)
(* of them twice, and ends only where it cannot go on.                     *)
PathsAreWalks ==
  \A k \in 1 .. Len(paths) :
    LET walk == paths[k]
    IN  /\ walk[1] \in entry_points
        /\ \A n \in 1 .. Len(walk) - 1 : Prolongs(walk, n, walk[n + 1])
        /\ ~\E o \in Ops(opa) : Prolongs(walk, Len(walk), o)

(* Some path begins like this.                                             *)
Enumerated(prefix) ==
  \E k \in 1 .. Len(paths) :
    Len(paths[k]) >= Len(prefix) /\ SubSeq(paths[k], 1, Len(prefix)) = prefix

(* Below the cap nothing is missing: there is a path from every entry      *)
(* point, and wherever a path could have taken another edge one does.      *)
PathsComplete ==
  phase = "done" /\ Len(paths) < MaxPaths =>
    /\ \A e \in entry_points : Enumerated(<<e>>)
    /\ \A k \in 1 .. Len(paths) : \A n \in 1 .. Len(paths[k]) : \A o \in Ops(opa) :
         Prolongs(paths[k], n, o) => Enumerated(Append(SubSeq(paths[k], 1, n), o))

(* An opcode has two targets that are the same: an empty if, two cases of  *)
(* a switch with one body.                                                 *)
HasTwins(p, i) ==
  LET jumps == pcov_find_jumps(p, i)
  IN  \E m, n \in 1 .. Len(jumps) : m < n /\ jumps[m] = jumps[n]

(* No path is enumerated twice - a second copy could never be hit, as only *)
(* the first match of a finished walk is marked - unless some opcode's     *)
(* targets coincide.                                                       *)
PathsDistinct ==
  phase = "done" =>
    \/ \A m, n \in 1 .. Len(paths) : m < n => paths[m] # paths[n]
    \/ \E i \in Stops(opa) : HasTwins(opa, i)

(* The enumeration stops at the cap, however deep it is.                   *)
PathsCapped == Len(paths) <= MaxPaths

(* The analysis comes to an end on every op_array, loops included.         *)
Terminates == <>(phase = "done")

================================================================================
