------------------------------- MODULE PcovFrames -------------------------------
(***************************************************************************)
(* Branch coverage at run time, as pcov.c keeps it: the analysis cache     *)
(* PCG(reached), keyed by the address of an op_array's opcodes, and the    *)
(* stack PCG(frames), which pcov has to reconcile with PHP's call stack    *)
(* because it sees opcodes and never calls or returns.                     *)
(*                                                                         *)
(* The engine is the environment: a stack of activations that run opcodes, *)
(* call, return, throw and catch.  An activation's execute_data is the     *)
(* slot of the VM stack it occupies.  Slots grow along the call stack, and *)
(* a slot is used again when its activation is gone.  How far a callee's   *)
(* slot is from its caller's depends on what the caller has pending:       *)
(* INIT_FCALL reserves the frame of a call before the calls in its         *)
(* arguments run, so in x(b()) the slot of b is further ahead than that of *)
(* x, and x can call something at the very slot b had.  (The VM stack is   *)
(* one area here; generators, whose frames are elsewhere, are left out.)   *)
(* The hook runs before every opcode; the API is called from a call        *)
(* opcode.                                                                 *)
(*                                                                         *)
(* The op_array of a code is reduced to what the hook can tell apart: its  *)
(* branch starts, entry points, out-edges and enumerated paths (what       *)
(* pcov_branch_info_create_from_oparray computes), and, for the engine,    *)
(* where control can go.                                                   *)
(***************************************************************************)
EXTENDS Integers, Sequences, FiniteSets

CONSTANTS
  Codes,        \* user op_arrays of the program
  Traced,       \* those of a wanted file
  Starts,       \* Starts[c]: opcode indexes that start a branch
  Entries,      \* Entries[c]: entry points, opcode 0 and catch blocks
  Outs,         \* Outs[c][b]: targets of branch b, EXIT among them
  Paths,        \* Paths[c]: the enumerated paths
  Home,         \* Home[c]: the address of c's opcodes
  Ident,        \* Ident[c]: filename, first line and size of c
  Kept,         \* codes alive to the end of the request once compiled
  First,        \* First[c]: the opcode an activation starts at
  Flow,         \* Flow[c][i]: opcodes that can follow opcode i
  Leaves,       \* Leaves[c]: opcodes that leave the activation
  Calls,        \* Calls[c]: opcodes that make a call
  Callees,      \* Callees[c]: the codes c calls
  Ahead,        \* Ahead[c]: how far from c's slot those of its callees can be
  Throws,       \* Throws[c]: opcodes that can throw, by themselves or a callee
  Catch,        \* Catch[c][i]: where an exception thrown at opcode i is caught
  Main,         \* the script
  Api,          \* Api[c]: the API functions c calls
  MaxDepth,     \* bound on the call stack
  MaxWalk       \* bound on the branches one activation enters

EXIT == -1   \* PCOV_JMP_EXIT
NONE == -2   \* no branch yet; no opcode of the op_array (HANDLE_EXCEPTION)

Addrs == {Home[c] : c \in Codes}

Opcodes(c) == DOMAIN Flow[c]

ASSUME ProgramAssumption ==
  /\ Traced \subseteq Codes /\ Kept \subseteq Codes /\ Main \in Codes
  /\ \A c \in Codes :
       /\ Opcodes(c) \subseteq Nat /\ First[c] \in Opcodes(c)
       /\ \A i \in Opcodes(c) : Flow[c][i] \union Catch[c][i] \subseteq Opcodes(c)
       /\ 0 \in Entries[c] /\ Entries[c] \subseteq Starts[c] /\ Starts[c] \subseteq Nat
       /\ Ahead[c] \subseteq Nat \ {0}
  /\ \A c, d \in Codes : Home[c] = Home[d] /\ c # d => c \notin Kept \/ d \notin Kept
  /\ MaxDepth \in Nat \ {0} /\ MaxWalk \in Nat

VARIABLES
  enabled,   \* PCG(enabled)
  reached,   \* PCG(reached): address -> [code, hits, edges, paths]
  frames,    \* PCG(frames): <<slot, address>> -> [pos, cache, seq, last]
  stack,     \* engine: activations [slot, code, pc, at, walk, whole], deepest last
  throwing,  \* engine: an exception is looking for its handler
  loaded,    \* engine: the kept codes that occupy their address
  entered,   \* history: <<code, branch>> entered while traced, since the clear
  took,      \* history: <<code, branch, target>> edges taken since the clear
  walked     \* history: <<code, walk, whole>> of ended activations since then

pcovVars    == <<enabled, reached, frames>>
engineVars  == <<stack, throwing, loaded>>
historyVars == <<entered, took, walked>>
vars == <<pcovVars, engineVars, historyVars>>

Top   == stack[Len(stack)]
LastOf(s) == s[Len(s)]

(* An entry of PCG(reached) when it is built: c's analysis, nothing hit.   *)
EmptyEntry(c) == [code |-> c, hits |-> {}, edges |-> {}, paths |-> {}]

-----------------------------------------------------------------------------
(* The frame stack.  A frame is identified by its execute_data and its     *)
(* opcodes address; pos is its place on the stack.  A frame's cache points *)
(* at the entry of its address that was built for code cache.              *)

(* The frames of K that are still attached to the entry of address a.      *)
Attached(F, R, K, a) ==
  {F[k] : k \in {h \in K : h[2] = a /\ F[h].cache = R[a].code /\ F[h].seq # <<>>}}

(* Mutant: the exit of every branch the invocation went through is taken.  *)
FinalizeAllExits(F, R, K) ==
  [a \in DOMAIN R |->
     LET c    == R[a].code
         seqs == {f.seq : f \in Attached(F, R, K, a)}
     IN  [R[a] EXCEPT
            !.paths = @ \union (seqs \intersect Paths[c]),
            !.edges = @ \union {<<b, EXIT>> : b \in
                        {d \in Starts[c] : EXIT \in Outs[c][d] /\
                           \E q \in seqs : d \in {q[i] : i \in 1 .. Len(q)}}}]]

(* php_pcov_frame_finalize on every frame of K: an exactly matching path   *)
(* is hit, and the exit of the last branch, if it has one, is taken.       *)
php_pcov_frame_finalize(F, R, K) ==
  [a \in DOMAIN R |->
     LET c    == R[a].code
         seqs == {f.seq : f \in Attached(F, R, K, a)}
     IN  [R[a] EXCEPT
            !.paths = @ \union (seqs \intersect Paths[c]),
            !.edges = @ \union {<<LastOf(s), EXIT>> :
                        s \in {t \in seqs : EXIT \in Outs[c][LastOf(t)]}}]]

(* Mutant: frames are removed and the others keep their places.            *)
CompactInPlace(F, K) == [k \in K |-> F[k]]

(* The frames of K moved to the front, their order preserved.              *)
Compact(F, K) ==
  [k \in K |-> [F[k] EXCEPT !.pos = Cardinality({h \in K : F[h].pos <= F[k].pos})]]

(* Mutant: collect and stop finish every frame.                            *)
NothingLive(k) == FALSE

php_pcov_frame_is_live(k) ==
  \E i \in 1 .. Len(stack) : stack[i].slot = k[1] /\ Home[stack[i].code] = k[2]

php_pcov_frames_finalize_returned ==
  LET kept == {k \in DOMAIN frames : php_pcov_frame_is_live(k)}
  IN  /\ frames'  = Compact(frames, kept)
      /\ reached' = php_pcov_frame_finalize(frames, reached, DOMAIN frames \ kept)

(* Mutant: an evicted entry's frames stay on the stack.                    *)
DetachNothing(F, A) == F

(* Frames that php_pcov_frames_detach_cache leaves when the entries at the *)
(* addresses A go.  What it finalizes it records in those entries.         *)
php_pcov_frames_detach_cache(F, A) ==
  Compact(F, {k \in DOMAIN F :
                ~(k[2] \in A /\ F[k].cache = reached[k[2]].code)})

(* The entry at c's address was built for another op_array.                *)
Stale(c) ==
  Home[c] \in DOMAIN reached /\ Ident[reached[Home[c]].code] # Ident[c]

(* Mutant: a new frame always gets a new entry.                            *)
AnalyseAgain(c) ==
  [a \in DOMAIN reached \union {Home[c]} |->
     IF a = Home[c] THEN EmptyEntry(c) ELSE reached[a]]

(* php_pcov_reached_get: the entry at c's address is kept, or replaced     *)
(* when stale, or built.                                                   *)
php_pcov_reached_get(c) ==
  [a \in DOMAIN reached \union {Home[c]} |->
     IF a = Home[c] /\ (a \notin DOMAIN reached \/ Stale(c))
     THEN EmptyEntry(c)
     ELSE reached[a]]

-----------------------------------------------------------------------------
(* php_pcov_path_trace.                                                    *)

(* Mutant: every opcode of the op_array is taken for a branch start.       *)
IsOpcode(c, pc) == pc \in Opcodes(c)

pcov_branch_is_start(c, pc) == pc \in Starts[c]

(* Mutant: a slot used again goes on with the old sequence.                *)
NeverReentered(f, pc) == FALSE

(* A new invocation is told from the old one by its entry point.           *)
Reentered(f, pc) == f.seq # <<>> /\ pc \in Entries[f.cache]

(* Mutant: edges are inferred from the branches entered so far.            *)
InferredEdges(f, hits, pc) ==
  {<<b, pc>> : b \in {d \in hits : pc \in Outs[f.cache][d]}}

(* The edge by which frame f comes to branch pc.                           *)
TraversedEdges(f, hits, pc) ==
  {<<b, pc>> : b \in {d \in {f.last} \ {NONE} : pc \in Outs[f.cache][d]}}

(* php_pcov_frame_append: one entry for a branch repeated at once.         *)
php_pcov_frame_append(f, pc) ==
  IF f.last = pc THEN f ELSE [f EXCEPT !.seq = Append(@, pc), !.last = pc]

(* Frame k of F, with its entry in R, sees opcode pc.                      *)
RecordOpcode(F, R, k, pc) ==
  LET again == Reentered(F[k], pc)
      R1 == IF again THEN php_pcov_frame_finalize(F, R, {k}) ELSE R
      f  == IF again THEN [F[k] EXCEPT !.seq = <<>>, !.last = NONE] ELSE F[k]
      a  == k[2]
  IN  IF pcov_branch_is_start(f.cache, pc)
      THEN /\ frames'  = [F EXCEPT ![k] = php_pcov_frame_append(f, pc)]
           /\ reached' = [R1 EXCEPT
                            ![a].hits  = @ \union {pc},
                            ![a].edges = @ \union TraversedEdges(f, R1[a].hits, pc)]
      ELSE frames' = F /\ reached' = R

(* A frame that is found loses the frames above it, taken to have          *)
(* returned; otherwise the analysis is fetched and a frame pushed.         *)
php_pcov_path_trace(k, c, pc) ==
  IF k \in DOMAIN frames
  THEN LET kept == {h \in DOMAIN frames : h = k \/ frames[h].pos < frames[k].pos}
       IN  RecordOpcode(Compact(frames, kept),
                        php_pcov_frame_finalize(frames, reached,
                                                DOMAIN frames \ kept),
                        k, pc)
  ELSE LET F == IF Stale(c) THEN php_pcov_frames_detach_cache(frames, {Home[c]})
                            ELSE frames
           R == php_pcov_reached_get(c)
           f == [pos |-> Cardinality(DOMAIN F) + 1, cache |-> R[Home[c]].code,
                 seq |-> <<>>, last |-> NONE]
       IN  RecordOpcode([h \in DOMAIN F \union {k} |-> IF h = k THEN f ELSE F[h]],
                        R, k, pc)

(* The hook, on opcode pc of the innermost activation.                     *)
php_pcov_trace(pc) ==
  IF enabled /\ Top.code \in Traced
  THEN php_pcov_path_trace(<<Top.slot, Home[Top.code]>>, Top.code, pc)
  ELSE UNCHANGED <<reached, frames>>

-----------------------------------------------------------------------------
(* The engine.                                                             *)

(* An activation has entered the branch at opcode 0 when it starts, also   *)
(* when its first opcode is a later one of that branch.  Its walk is the   *)
(* branches it enters, not repeating one entered again at once.            *)
Activation(slot, c, traced) ==
  [slot |-> slot, code |-> c, pc |-> First[c], at |-> "new", walk |-> <<0>>,
   whole |-> traced]

(* The innermost activation has ended, by leaving or by an exception.      *)
Ended ==
  IF Top.code \in Traced
  THEN /\ took'   = took \union {<<Top.code, LastOf(Top.walk), EXIT>>}
       /\ walked' = walked \union {<<Top.code, Top.walk, Top.whole>>}
  ELSE UNCHANGED <<took, walked>>

Becomes(act) == stack' = [stack EXCEPT ![Len(stack)] = act]

(* The next opcode runs: the hook, then its handler.                       *)
Run ==
  LET c      == Top.code
      starts == IF Top.at = "new" THEN {0} ELSE {Top.pc} \intersect Starts[c]
  IN  /\ ~throwing
      /\ Top.at \in {"new", "ready"}
      /\ php_pcov_trace(Top.pc)
      /\ entered' = IF enabled /\ c \in Traced
                    THEN entered \union {<<c, b>> : b \in starts} ELSE entered
      /\ Becomes([Top EXCEPT !.at = "run"])
      /\ UNCHANGED <<enabled, throwing, loaded, took, walked>>

InCall == ~throwing /\ Top.at = "run" /\ Top.pc \in Calls[Top.code]

(* A call of user code.  Its opcodes are where they can be: an address is  *)
(* free unless a kept code has it or a running activation does.            *)
Call(c) ==
  /\ InCall
  /\ c \in Callees[Top.code]
  /\ Len(stack) < MaxDepth
  /\ \A d \in loaded \union {stack[i].code : i \in 1 .. Len(stack)} :
       Home[d] = Home[c] => d = c
  /\ loaded' = loaded \union ({c} \intersect Kept)
  /\ \E ahead \in Ahead[Top.code] :
       stack' = Append([stack EXCEPT ![Len(stack)].at = "done"],
                       Activation(Top.slot + ahead, c, enabled))
  /\ UNCHANGED <<pcovVars, throwing, historyVars>>

(* Control goes on to opcode n of the same activation.  An entry point is  *)
(* the end of one walk and the beginning of another.                       *)
GoTo(n) ==
  LET c == Top.code
      w == Top.walk
      to(walk) == [Top EXCEPT !.pc = n, !.at = "ready", !.walk = walk]
  IN  CASE c \in Traced /\ n \in Entries[c] ->
             /\ walked' = walked \union {<<c, w, Top.whole>>}
             /\ Becomes(to(<<n>>))
             /\ UNCHANGED took
        [] c \in Traced /\ n \in Starts[c] \ Entries[c] ->
             /\ LastOf(w) = n \/ Len(w) < MaxWalk
             /\ took' = took \union {<<c, LastOf(w), n>>}
             /\ Becomes(to(IF LastOf(w) = n THEN w ELSE Append(w, n)))
             /\ UNCHANGED walked
        [] OTHER ->
             /\ Becomes(to(w))
             /\ UNCHANGED <<took, walked>>

Advance(n) ==
  /\ ~throwing
  /\ Top.at \in {"run", "done"}
  /\ GoTo(n)
  /\ UNCHANGED <<pcovVars, throwing, loaded, entered>>

Leave ==
  /\ ~throwing
  /\ Top.at = "run"
  /\ Top.pc \in Leaves[Top.code]
  /\ Len(stack) > 1
  /\ Ended
  /\ stack' = SubSeq(stack, 1, Len(stack) - 1)
  /\ UNCHANGED <<pcovVars, throwing, loaded, entered>>

Throw ==
  /\ ~throwing
  /\ Top.at \in {"run", "done"}
  /\ Top.pc \in Throws[Top.code]
  /\ throwing' = TRUE
  /\ UNCHANGED <<pcovVars, stack, loaded, historyVars>>

(* HANDLE_EXCEPTION runs in the innermost activation, hook included: it    *)
(* goes on at the handler it has, or ends.                                 *)
Unwind ==
  LET c == Top.code
  IN  /\ throwing
      /\ php_pcov_trace(NONE)
      /\ \/ /\ \E n \in Catch[c][Top.pc] : GoTo(n)
            /\ throwing' = FALSE
         \/ /\ Catch[c][Top.pc] = {}
            /\ Len(stack) > 1
            /\ Ended
            /\ stack' = SubSeq(stack, 1, Len(stack) - 1)
            /\ UNCHANGED throwing
      /\ UNCHANGED <<enabled, loaded, entered>>

-----------------------------------------------------------------------------
(* The API, called by the innermost activation.                            *)

Returned == [Top EXCEPT !.at = "done"]

(* Every live activation loses its claim to be recorded as a whole.        *)
Interrupt(act) ==
  stack' = [i \in 1 .. Len(stack) |->
              [(IF i = Len(stack) THEN act ELSE stack[i]) EXCEPT !.whole = FALSE]]

php_pcov_start ==
  /\ InCall /\ "start" \in Api[Top.code]
  /\ enabled' = TRUE
  /\ Becomes(Returned)
  /\ UNCHANGED <<reached, frames, throwing, loaded, historyVars>>

php_pcov_stop ==
  /\ InCall /\ "stop" \in Api[Top.code]
  /\ enabled' = FALSE
  /\ php_pcov_frames_finalize_returned
  /\ Interrupt(Returned)
  /\ UNCHANGED <<throwing, loaded, historyVars>>

php_pcov_clear ==
  /\ InCall /\ "clear" \in Api[Top.code]
  /\ reached' = [a \in {} |-> {}]
  /\ frames'  = [k \in {} |-> {}]
  /\ Interrupt(Returned)
  /\ entered' = {} /\ took' = {} /\ walked' = {}
  /\ UNCHANGED <<enabled, throwing, loaded>>

(* Collect finishes the returned frames and then asks for the analysis of  *)
(* every code of the retained files, run or not.                           *)
php_pcov_collect ==
  LET kept  == {k \in DOMAIN frames : php_pcov_frame_is_live(k)}
      R     == php_pcov_frame_finalize(frames, reached, DOMAIN frames \ kept)
      built == {c \in loaded \intersect Traced :
                  Home[c] \notin DOMAIN reached \/ Stale(c)}
  IN  /\ InCall /\ "collect" \in Api[Top.code]
      /\ reached' = [a \in DOMAIN R \union {Home[c] : c \in built} |->
                       IF \E c \in built : Home[c] = a
                       THEN EmptyEntry(CHOOSE c \in built : Home[c] = a)
                       ELSE R[a]]
      /\ frames'  = php_pcov_frames_detach_cache(
                      Compact(frames, kept),
                      {Home[c] : c \in built} \intersect DOMAIN reached)
      /\ Becomes(Returned)
      /\ UNCHANGED <<enabled, throwing, loaded, historyVars>>

-----------------------------------------------------------------------------

(* The script and the functions of its files have been compiled, and it is *)
(* about to run its first opcode.                                          *)
Init ==
  /\ enabled = FALSE
  /\ reached = [a \in {} |-> {}]
  /\ frames  = [k \in {} |-> {}]
  /\ stack   = <<Activation(1, Main, FALSE)>>
  /\ throwing = FALSE
  /\ loaded  = {c \in Kept : \A d \in Codes : Home[d] = Home[c] => d = c}
  /\ entered = {} /\ took = {} /\ walked = {}

Engine ==
  \/ Run
  \/ \E c \in Codes : Call(c)
  \/ \E n \in Flow[Top.code][Top.pc] : Advance(n)
  \/ Leave
  \/ Throw
  \/ Unwind

Script == php_pcov_start \/ php_pcov_stop \/ php_pcov_clear \/ php_pcov_collect

Next == Engine \/ Script

Spec == Init /\ [][Next]_vars

-----------------------------------------------------------------------------
(* Properties.                                                             *)

TypeOK ==
  /\ enabled \in BOOLEAN /\ throwing \in BOOLEAN
  /\ DOMAIN reached \subseteq Addrs
  /\ \A a \in DOMAIN reached :
       /\ reached[a].code \in Codes
       /\ reached[a].hits \subseteq Starts[reached[a].code]
       /\ reached[a].paths \subseteq Paths[reached[a].code]
       /\ \A e \in reached[a].edges :
            e[1] \in Starts[reached[a].code] /\ e[2] \in Outs[reached[a].code][e[1]]
  /\ DOMAIN frames \subseteq Nat \X Addrs
  /\ \A k \in DOMAIN frames :
       /\ frames[k].cache \in Codes
       /\ frames[k].seq \in Seq(Starts[frames[k].cache])
       /\ frames[k].last = IF frames[k].seq = <<>> THEN NONE ELSE LastOf(frames[k].seq)
  /\ Len(stack) \in 1 .. MaxDepth
  /\ loaded \subseteq Kept

(* Every frame's cache pointer is the entry PCG(reached) holds for its     *)
(* address: no eviction leaves a frame that a later finalize would follow  *)
(* into freed memory.                                                      *)
NoDanglingCache ==
  \A k \in DOMAIN frames :
    k[2] \in DOMAIN reached /\ frames[k].cache = reached[k[2]].code

(* Pops, evictions and the compaction of returned frames leave a stack     *)
(* without holes or doubles.                                               *)
StackShape ==
  {frames[k].pos : k \in DOMAIN frames} = 1 .. Cardinality(DOMAIN frames)

(* The entries that are reported, each with its code.                      *)
Reported == {a \in DOMAIN reached : reached[a].code \in Kept}

(* A branch of a retained code is recorded as hit exactly when it was      *)
(* entered while tracing was on.                                           *)
BranchHitsExact ==
  \A c \in loaded \intersect Traced :
    {b \in Starts[c] : <<c, b>> \in entered} =
      IF Home[c] \in DOMAIN reached /\ reached[Home[c]].code = c
      THEN reached[Home[c]].hits
      ELSE {}

(* An edge between two branches is recorded only when some activation went *)
(* from the one to the other, whatever ran in between elsewhere.           *)
EdgesTraversed ==
  \A a \in Reported : \A e \in reached[a].edges :
    e[2] # EXIT => <<reached[a].code, e[1], e[2]>> \in took

(* The exit of a branch is recorded only when an activation ended there.   *)
ExitEdgesTaken ==
  \A a \in Reported : \A e \in reached[a].edges :
    e[2] = EXIT => <<reached[a].code, e[1], EXIT>> \in took

(* A path counts as hit only when one activation walked all of it and      *)
(* nothing else: no two activations of a function are run together.        *)
PathHitsWalked ==
  \A a \in Reported : \A p \in reached[a].paths :
    \E w \in walked : w[1] = reached[a].code /\ w[2] = p

(* An activation that was traced from its first opcode to its last and     *)
(* walked an enumerated path has that path hit, or waiting in its frame    *)
(* for the next pop, stop or collect.                                      *)
NoLostPath ==
  \A w \in walked :
    w[1] \in Kept /\ w[3] /\ w[2] \in Paths[w[1]] =>
      LET a == Home[w[1]]
      IN  \/ a \in DOMAIN reached /\ w[2] \in reached[a].paths
          \/ \E k \in DOMAIN frames : k[2] = a /\ frames[k].seq = w[2]

-----------------------------------------------------------------------------
(* What the properties need to know of the program and of the script.  The *)
(* violated runs are programs that lack one of these.                      *)

(* No opcodes array takes the address of another.                          *)
OwnAddresses == \A c, d \in Codes : Home[c] = Home[d] => c = d

(* The engine skips no RECV opcode.                                        *)
AllReceived == \A c \in Traced : First[c] = 0

(* The script, which is of no wanted file and calls itself through nobody, *)
(* is the only one that stops tracing.                                     *)
StoppedOutside ==
  /\ Main \notin Traced
  /\ \A c \in Codes : Main \notin Callees[c] /\ (c # Main => "stop" \notin Api[c])

(* Nor does anybody else switch tracing on or clear what was recorded.     *)
Driven ==
  StoppedOutside /\ \A c \in Codes \ {Main} : Api[c] \intersect {"start", "clear"} = {}

(* Code of unwanted files calls no code of wanted ones back.               *)
NoCallbacks ==
  \A c \in Codes \ (Traced \union {Main}) : Callees[c] \intersect Traced = {}

(* Whenever the script calls, it has the same things on the VM stack: it   *)
(* makes no call in the arguments of another, nor through an internal      *)
(* function.                                                               *)
NoArgumentCalls == \A m, n \in Ahead[Main] : m = n

(* The branch opcode i belongs to: branches are runs of opcodes.           *)
BranchOf(c, i) ==
  CHOOSE b \in Starts[c] : b <= i /\ \A d \in Starts[c] : d <= i => d <= b

(* Control comes to another branch at its start only, and to an entry      *)
(* point of the same activation never from a branch that has an exit.      *)
ExitsLeave ==
  \A c \in Traced : \A i \in Opcodes(c) : \A n \in Flow[c][i] \union Catch[c][i] :
    /\ n \notin Starts[c] => BranchOf(c, n) = BranchOf(c, i)
    /\ n \in Entries[c] => EXIT \notin Outs[c][BranchOf(c, i)]

================================================================================
