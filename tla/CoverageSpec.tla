------------------------------ MODULE CoverageSpec ------------------------------
(***************************************************************************)
(* What pcov's line coverage promises its caller, with none of the tables  *)
(* the extension keeps to answer quickly: a set of hits, the set of files  *)
(* whose code is known, and the filter.  A run of a line counts when       *)
(* recording is on and the file is in scope at that moment; collecting     *)
(* reports, for every chosen file, all its executable lines, each of them  *)
(* covered exactly when it was hit since the last clear.                   *)
(*                                                                         *)
(* PcovCoverage is shown to implement this specification.                  *)
(***************************************************************************)
EXTENDS Integers

CONSTANTS
  Files,        \* names of source files
  OpLines,      \* OpLines[f]: the lines of f on which something can run
  Executable,   \* Executable[f]: the lines of f that hold reachable code
  Prefixes,     \* path prefixes a caller may filter by
  HasPrefix,    \* HasPrefix[p]: the files whose name starts with p
  Scope,        \* files under pcov.directory that pcov.exclude does not match
  Mode          \* "line" or "branch"

VARIABLES
  recording,    \* between start() and stop()
  filter,       \* [mode, paths] of the last xdebug_set_filter()
  compiled,     \* files whose code is known
  hits,         \* <<file, line>> pairs run since the last clear
  fresh,        \* a hit was added since the last collect
  report        \* what the last collect() returned

vars == <<recording, filter, compiled, hits, fresh, report>>

Admits(f) ==
  LET matched == \E p \in filter.paths : f \in HasPrefix[p]
  IN  \/ filter.mode = "none"
      \/ filter.mode = "include" /\ matched
      \/ filter.mode = "exclude" /\ ~matched

Wanted(f) == f \in Scope /\ Admits(f)

Init ==
  /\ recording = FALSE
  /\ filter = [mode |-> "none", paths |-> {}]
  /\ compiled = {}
  /\ hits = {}
  /\ fresh = FALSE
  /\ report = <<>>

Record(on) ==
  /\ recording' = on
  /\ UNCHANGED <<filter, compiled, hits, fresh, report>>

Compile(f) ==
  /\ compiled' = IF Wanted(f) THEN compiled \union {f} ELSE compiled
  /\ UNCHANGED <<recording, filter, hits, fresh, report>>

Run(f, l) ==
  /\ recording
  /\ Wanted(f)
  /\ <<f, l>> \notin hits
  /\ hits' = hits \union {<<f, l>>}
  /\ fresh' = TRUE
  /\ UNCHANGED <<recording, filter, compiled, report>>

SetFilter(mode, paths) ==
  /\ filter' = [mode |-> mode, paths |-> paths]
  /\ UNCHANGED <<recording, compiled, hits, fresh, report>>

Forget(all) ==
  /\ hits' = {}
  /\ fresh' = FALSE
  /\ compiled' = IF all THEN {} ELSE compiled
  /\ recording' \in {recording, FALSE}
  /\ UNCHANGED <<filter, report>>

Status(f, l) == IF <<f, l>> \in hits THEN 1 ELSE -1

Chosen(type, listed) ==
  {f \in compiled : \/ type = "all"
                    \/ type = "inclusive" /\ f \in listed
                    \/ type = "exclusive" /\ f \notin listed}

Collect(type, listed) ==
  /\ report' =
       IF Mode = "line" /\ ~fresh
       THEN <<>>
       ELSE [f \in {g \in Chosen(type, listed) : Admits(g)} |->
               [l \in Executable[f] |-> Status(f, l)]]
  /\ fresh' = FALSE
  /\ UNCHANGED <<recording, filter, compiled, hits>>

Next ==
  \/ \E on \in BOOLEAN : Record(on)
  \/ \E f \in Files : Compile(f) \/ \E l \in OpLines[f] : Run(f, l)
  \/ \E m \in {"none", "include", "exclude"}, P \in SUBSET Prefixes :
        SetFilter(m, P)
  \/ \E all \in BOOLEAN : Forget(all)
  \/ \E t \in {"all", "inclusive", "exclusive"}, S \in SUBSET Files :
        Collect(t, S)

Spec == Init /\ [][Next]_vars

================================================================================
