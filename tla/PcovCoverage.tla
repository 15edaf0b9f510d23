------------------------------ MODULE PcovCoverage ------------------------------
(***************************************************************************)
(* Line coverage as pcov.c keeps it during one request: the compile hook,  *)
(* the per-opcode trace, the admission caches in front of them, the path   *)
(* filter of the xdebug surface, and start / stop / clear / collect.       *)
(*                                                                         *)
(* PHP runs one request on one thread, so a step is one call of the hook   *)
(* or of the API and is atomic.  The engine (which file it compiles, which *)
(* line it runs next) is the environment and is free.  The list of hits    *)
(* from PCG(start) to PCG(next) is the sequence log; PCG(last) is the      *)
(* length the list had when it was saved, 0 standing for NULL.             *)
(***************************************************************************)
EXTENDS Integers, Sequences, FiniteSets

CONSTANTS
  Files,        \* names of the files the engine may compile
  OpLines,      \* OpLines[f]: the lines on which f has opcodes
  Executable,   \* Executable[f]: the lines php_pcov_discover_code finds in f
  Prefixes,     \* path prefixes given to xdebug_set_filter
  HasPrefix,    \* HasPrefix[p]: files whose name starts with p, case ignored
  Under,        \* files whose name starts with PCG(directory)
  Short,        \* files whose name is shorter than PCG(directory)
  Excluded,     \* files that match PCG(exclude)
  Mode          \* PCG(mode): "line" or "branch"

ASSUME ConfigAssumption ==
  /\ DOMAIN OpLines = Files /\ DOMAIN Executable = Files
  /\ \A f \in Files : Executable[f] \subseteq OpLines[f]
  /\ HasPrefix \in [Prefixes -> SUBSET Files]
  /\ Under \subseteq Files /\ Short \subseteq Files /\ Excluded \subseteq Files
  /\ Under \intersect Short = {}
  /\ Mode \in {"line", "branch"}

VARIABLES
  enabled,       \* PCG(enabled)
  filter_mode,   \* PCG(filter_mode)
  filter_paths,  \* PCG(filter_paths)
  wants,         \* PCG(wants): files found wanted
  ignores,       \* PCG(ignores): files found unwanted
  files,         \* PCG(files): files whose op_array is retained
  log,           \* the list from PCG(start) to PCG(next)
  last,          \* PCG(last): the list's length at the last collect
  waiting,       \* PCG(waiting): files of the list
  covered,       \* PCG(covered): the (file, line) pairs of the list
  discovered,    \* PCG(discovered): file -> its executable lines, uncovered
  report,        \* what the last collect() returned
  loaded,        \* engine: files compiled through the hook in the request
  forgotten      \* history: files dropped by clear(true), not compiled since

vars == <<enabled, filter_mode, filter_paths, wants, ignores, files, log, last,
          waiting, covered, discovered, report, loaded, forgotten>>

filterVars == <<filter_mode, filter_paths, wants, ignores>>
recordVars == <<log, last, waiting, covered>>
engineVars == <<loaded, forgotten>>

PHP_PCOV_UNCOVERED == -1
PHP_PCOV_COVERED   == 1
Statuses           == {PHP_PCOV_UNCOVERED, PHP_PCOV_COVERED}
FilterModes        == {"none", "include", "exclude"}
CollectTypes       == {"all", "inclusive", "exclusive"}

Places == UNION {{f} \X OpLines[f] : f \in Files}
Logged == {log[i] : i \in 1 .. Len(log)}

-----------------------------------------------------------------------------
(* Admission: which files are traced, compiled and reported.               *)

php_pcov_filter_admits(f) ==
  LET matched == \E p \in filter_paths : f \in HasPrefix[p]
  IN  \/ filter_mode = "none"
      \/ filter_mode = "include" /\ matched
      \/ filter_mode = "exclude" /\ ~matched

(* What an uncached decision on f returns.                                 *)
Admissible(f) == php_pcov_filter_admits(f) /\ f \in Under /\ f \notin Excluded

(* Answers from the caches first, and fills them when it has to decide.    *)
php_pcov_wants(f, answer) ==
  \/ /\ f \in Short
     /\ answer = FALSE
     /\ UNCHANGED <<wants, ignores>>
  \/ /\ f \in wants \ Short
     /\ answer = TRUE
     /\ UNCHANGED <<wants, ignores>>
  \/ /\ f \in ignores \ (wants \union Short)
     /\ answer = FALSE
     /\ UNCHANGED <<wants, ignores>>
  \/ /\ f \notin Short \union wants \union ignores
     /\ answer = Admissible(f)
     /\ wants'   = IF answer THEN wants \union {f} ELSE wants
     /\ ignores' = IF answer THEN ignores ELSE ignores \union {f}

(* Mutant: the admission caches survive a change of filter.                *)
SetFilterKeepsCaches(mode, paths) ==
  /\ Mode = "branch"
  /\ filter_mode'  = mode
  /\ filter_paths' = IF mode = "none" THEN {} ELSE paths
  /\ UNCHANGED <<wants, ignores, enabled, files, recordVars, discovered, report,
                 engineVars>>

(* xdebug_set_filter exists only on the branch-mode surface.               *)
php_pcov_compat_set_filter(mode, paths) ==
  /\ Mode = "branch"
  /\ filter_mode'  = mode
  /\ filter_paths' = IF mode = "none" THEN {} ELSE paths
  /\ wants'   = {}
  /\ ignores' = {}
  /\ UNCHANGED <<enabled, files, recordVars, discovered, report, engineVars>>

-----------------------------------------------------------------------------
(* The two hooks.                                                          *)

(* Mutant: a file compiled while tracing is off is not retained.           *)
RetainedIfEnabled(f, wanted) ==
  IF wanted /\ enabled THEN files \union {f} ELSE files

Retained(f, wanted) == IF wanted THEN files \union {f} ELSE files

php_pcov_compile_file(f) ==
  /\ loaded' = loaded \union {f}
  /\ \E wanted \in BOOLEAN :
       /\ php_pcov_wants(f, wanted)
       /\ files'     = Retained(f, wanted)
       /\ forgotten' = IF wanted THEN forgotten \ {f} ELSE forgotten
  /\ UNCHANGED <<enabled, filter_mode, filter_paths, recordVars, discovered,
                 report>>

(* Mutant: a hit is recorded again, without asking php_pcov_has.           *)
RecordAgain(f, l) ==
  /\ covered' = covered \union {<<f, l>>}
  /\ log'     = Append(log, <<f, l>>)
  /\ waiting' = waiting \union {f}
  /\ UNCHANGED last

(* php_pcov_has adds the pair to covered; php_pcov_create adds the record. *)
RecordLine(f, l) ==
  IF <<f, l>> \in covered
  THEN UNCHANGED recordVars
  ELSE /\ covered' = covered \union {<<f, l>>}
       /\ log'     = Append(log, <<f, l>>)
       /\ waiting' = waiting \union {f}
       /\ UNCHANGED last

(* The engine is about to run an opcode of f on line l.  While tracing is  *)
(* off the hook does nothing, which is a stuttering step.  f need not have *)
(* come through php_pcov_compile_file: code from eval(), whose file name   *)
(* is one of its own, and preloaded code did not.                          *)
php_pcov_trace(f, l, ignored_opcode) ==
  /\ enabled
  /\ \E wanted \in BOOLEAN :
       /\ php_pcov_wants(f, wanted)
       /\ IF wanted /\ ~ignored_opcode
          THEN RecordLine(f, l)
          ELSE UNCHANGED recordVars
  /\ UNCHANGED <<enabled, filter_mode, filter_paths, files, discovered, report,
                 engineVars>>

-----------------------------------------------------------------------------
(* The API.                                                                *)

php_pcov_start ==
  /\ enabled' = TRUE
  /\ UNCHANGED <<filterVars, files, recordVars, discovered, report, engineVars>>

php_pcov_stop ==
  /\ enabled' = FALSE
  /\ UNCHANGED <<filterVars, files, recordVars, discovered, report, engineVars>>

EmptyTable == [f \in {} |-> {}]

(* Mutant: clear empties the list and leaves the covered set.              *)
ClearKeepsCovered(drop_files) ==
  /\ files'      = IF drop_files THEN {} ELSE files
  /\ discovered' = IF drop_files THEN EmptyTable ELSE discovered
  /\ forgotten'  = IF drop_files THEN forgotten \union files ELSE forgotten
  /\ log' = <<>>
  /\ last' = 0
  /\ waiting' = {}
  /\ UNCHANGED covered

php_pcov_clear_internal(drop_files) ==
  /\ files'      = IF drop_files THEN {} ELSE files
  /\ discovered' = IF drop_files THEN EmptyTable ELSE discovered
  /\ forgotten'  = IF drop_files THEN forgotten \union files ELSE forgotten
  /\ log' = <<>>
  /\ last' = 0
  /\ waiting' = {}
  /\ covered' = {}

php_pcov_clear(drop_files) ==
  /\ php_pcov_clear_internal(drop_files)
  /\ UNCHANGED <<enabled, filterVars, report, loaded>>

(* xdebug_stop_code_coverage(cleanup): with cleanup it also clears.        *)
php_pcov_stop_internal(cleanup) ==
  /\ Mode = "branch"
  /\ enabled' = FALSE
  /\ IF cleanup
     THEN php_pcov_clear_internal(FALSE)
     ELSE UNCHANGED <<files, discovered, forgotten, recordVars>>
  /\ UNCHANGED <<filterVars, report, loaded>>

(* The files a collect of this type looks at.                              *)
Chosen(type, listed) ==
  {f \in Files : \/ type = "all" /\ f \in files
                 \/ type = "inclusive" /\ f \in listed
                 \/ type = "exclusive" /\ f \in files \ listed}

(* Mutant: the filter is not asked again when a retained file is reported. *)
DiscoverUnfiltered(chosen) ==
  LET analysed == IF Mode = "line" THEN DOMAIN discovered ELSE {}
  IN  chosen \intersect (analysed \union files)

(* Files of the argument that get an entry in the result, once analysed.   *)
php_pcov_discover_file(chosen) ==
  LET analysed == IF Mode = "line" THEN DOMAIN discovered ELSE {}
  IN  {f \in chosen \intersect (analysed \union files) :
         php_pcov_filter_admits(f)}

php_pcov_discover_code(f) == [l \in Executable[f] |-> PHP_PCOV_UNCOVERED]

(* Mutant: a hit on a line the table lacks is added to the table.          *)
ReportAddsLines(tables) ==
  [f \in DOMAIN tables |->
     [l \in DOMAIN tables[f] \union {k \in OpLines[f] : <<f, k>> \in Logged} |->
        IF <<f, l>> \in Logged THEN PHP_PCOV_COVERED ELSE tables[f][l]]]

(* Flips the lines of the list to covered in a copy of the cached tables.  *)
php_pcov_report(tables) ==
  [f \in DOMAIN tables |->
     [l \in DOMAIN tables[f] |->
        IF <<f, l>> \in Logged THEN PHP_PCOV_COVERED ELSE tables[f][l]]]

(* Mutant: the report flips the cached tables and not a copy of them.      *)
WithSharedAnalysis(found) ==
  php_pcov_report([f \in found \union DOMAIN discovered |->
                     IF f \in DOMAIN discovered
                     THEN discovered[f]
                     ELSE php_pcov_discover_code(f)])

(* The cached tables once those of found are among them.                   *)
WithAnalysis(found) ==
  [f \in found \union DOMAIN discovered |->
     IF f \in DOMAIN discovered
     THEN discovered[f]
     ELSE php_pcov_discover_code(f)]

(* pcov\collect() and its xdebug twin.  A type that is none of the three   *)
(* throws an error and leaves everything as it is, a stuttering step.      *)
php_pcov_collect(type, listed) ==
  /\ last' = Len(log)
  /\ IF Mode = "line" /\ last = Len(log)
     THEN report' = <<>> /\ UNCHANGED discovered
     ELSE LET found == php_pcov_discover_file(Chosen(type, listed))
          IN  /\ discovered' = WithAnalysis(found)
              /\ report' = php_pcov_report([f \in found |-> discovered'[f]])
  /\ UNCHANGED <<enabled, filterVars, files, log, waiting, covered, engineVars>>

-----------------------------------------------------------------------------

(* State after PHP_RINIT_FUNCTION.                                         *)
Init ==
  /\ enabled = FALSE
  /\ filter_mode = "none"
  /\ filter_paths = {}
  /\ wants = {}
  /\ ignores = {}
  /\ files = {}
  /\ log = <<>>
  /\ last = 0
  /\ waiting = {}
  /\ covered = {}
  /\ discovered = EmptyTable
  /\ report = <<>>
  /\ loaded = {}
  /\ forgotten = {}

Engine ==
  \E f \in Files :
    \/ php_pcov_compile_file(f)
    \/ \E l \in OpLines[f], ignored \in BOOLEAN : php_pcov_trace(f, l, ignored)

Script ==
  \/ php_pcov_start
  \/ php_pcov_stop
  \/ \E b \in BOOLEAN : php_pcov_clear(b)
  \/ \E b \in BOOLEAN : php_pcov_stop_internal(b)
  \/ \E m \in FilterModes, P \in SUBSET Prefixes :
        php_pcov_compat_set_filter(m, P)
  \/ \E t \in CollectTypes, S \in SUBSET Files :
        (t = "all" => S = {}) /\ php_pcov_collect(t, S)

Next == Engine \/ Script

Spec == Init /\ [][Next]_vars

-----------------------------------------------------------------------------
(* Properties.                                                             *)

(* Every table holds what its declaration in php_pcov.h says it holds, and *)
(* a report has an entry for each executable line of a file and no other,  *)
(* though opcodes run on further lines.                                    *)
TypeOK ==
  /\ enabled \in BOOLEAN
  /\ filter_mode \in FilterModes
  /\ filter_paths \subseteq Prefixes
  /\ wants \subseteq Files
  /\ ignores \subseteq Files
  /\ files \subseteq Files
  /\ log \in Seq(Places)
  /\ last \in Nat
  /\ waiting \subseteq Files
  /\ covered \subseteq Places
  /\ DOMAIN discovered \subseteq Files
  /\ DOMAIN report \subseteq Files
  /\ \A f \in DOMAIN report : report[f] \in [Executable[f] -> Statuses]
  /\ loaded \subseteq Files
  /\ forgotten \subseteq Files

(* php_pcov_wants answers from wants and ignores before it looks at the    *)
(* filter, so a cached answer must be the one it would compute afresh,     *)
(* whatever xdebug_set_filter() calls came after it was cached.            *)
AdmissionCachesCoherent ==
  /\ \A f \in wants : Admissible(f)
  /\ \A f \in ignores : ~Admissible(f)

(* The list, the covered set in front of it and the waiting set are three  *)
(* copies of one fact that clear and trace update apart: a pair the        *)
(* covered set knows and the list lacks would never be reported, and a     *)
(* saved last beyond the list would silence the next collect().            *)
LogMirrorsTables ==
  /\ covered = Logged
  /\ waiting = {hit[1] : hit \in Logged}
  /\ \A i, j \in 1 .. Len(log) : log[i] = log[j] => i = j
  /\ last <= Len(log)

(* The cached tables are shared by every later collect(), also after a     *)
(* clear(): the report must never flip a line of the cache itself.         *)
DiscoveredPristine ==
  /\ DOMAIN discovered \subseteq files
  /\ \A f \in DOMAIN discovered : discovered[f] = php_pcov_discover_code(f)

(* The hits of a file that went through php_pcov_compile_file can be       *)
(* reported: the compile hook, which asked php_pcov_wants earlier than the *)
(* trace did, has retained the file, also when it was off, when the hits   *)
(* came first or the file is compiled again - unless the script asked for  *)
(* the file tables to be dropped.                                          *)
HitsReportable ==
  \A f \in waiting \intersect loaded : f \in files \union forgotten

(* Turning the filter, the caches, the saved position and the cached       *)
(* tables into the plain filter and hit set of CoverageSpec, every step is *)
(* one the promise allows: what is recorded is what is in scope when it    *)
(* runs, and what is reported is what was recorded since the last clear.   *)
Abstract == INSTANCE CoverageSpec WITH
  Scope     <- Under \ Excluded,
  recording <- enabled,
  filter    <- [mode |-> filter_mode, paths |-> filter_paths],
  compiled  <- files,
  hits      <- Logged,
  fresh     <- last # Len(log),
  report    <- report

Refines == Abstract!Spec

================================================================================
