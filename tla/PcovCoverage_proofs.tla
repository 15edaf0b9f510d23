-------------------------- MODULE PcovCoverage_proofs --------------------------
(***************************************************************************)
(* Proofs about PcovCoverage, for every set of files, lines and prefixes   *)
(* and for both modes: the invariants its runs check, and that it          *)
(* implements CoverageSpec.                                                *)
(***************************************************************************)
EXTENDS PcovCoverage, TLAPS

-----------------------------------------------------------------------------
(* The list of hits as a set.                                              *)

LEMMA LoggedEmpty == ASSUME log = <<>> PROVE Logged = {}
  BY DEF Logged

(* The records created at the end of the list add one pair to its set.     *)
LEMMA LoggedAppend ==
  ASSUME log \in Seq(Places), NEW hit, log' = Append(log, hit)
  PROVE  Logged' = Logged \union {hit}
<1>1. /\ Len(log) \in Nat
      /\ Len(log') = Len(log) + 1
      /\ log'[Len(log) + 1] = hit
      /\ \A i \in 1 .. Len(log) : log'[i] = log[i]
  BY DEF Places
<1>2. ASSUME NEW e PROVE e \in Logged' <=> e \in Logged \union {hit}
  <2>1. e \in Logged' <=> \E i \in 1 .. Len(log) + 1 : e = log'[i]
    BY <1>1 DEF Logged
  <2>2. e \in Logged <=> \E i \in 1 .. Len(log) : e = log[i]
    BY DEF Logged
  <2>3. \A i : i \in 1 .. Len(log) + 1 <=> i \in 1 .. Len(log) \/ i = Len(log) + 1
    BY <1>1
  <2>4. QED BY <1>1, <2>1, <2>2, <2>3
<1>3. QED BY <1>2

(* An entry of the list is a member of its set.                            *)
LEMMA LoggedIsPlaces == ASSUME log \in Seq(Places) PROVE Logged \subseteq Places
  BY DEF Logged

-----------------------------------------------------------------------------
(* Admission.                                                              *)

(* The filter decision is the filter decision of CoverageSpec.             *)
LEMMA AdmitsSame ==
  ASSUME NEW f, filter_mode \in FilterModes
  PROVE  Abstract!Admits(f) <=> php_pcov_filter_admits(f)
  BY DEF Abstract!Admits, php_pcov_filter_admits, FilterModes

(* Whatever the caches hold, php_pcov_wants answers what an uncached       *)
(* decision would, and keeps the caches coherent.                          *)
LEMMA WantsCorrect ==
  ASSUME TypeOK, AdmissionCachesCoherent,
         NEW f \in Files, NEW answer \in BOOLEAN, php_pcov_wants(f, answer),
         UNCHANGED <<filter_mode, filter_paths>>
  PROVE  /\ answer <=> Admissible(f)
         /\ AdmissionCachesCoherent'
         /\ wants' \subseteq Files
         /\ ignores' \subseteq Files
<1>1. f \in Short => ~Admissible(f)
  BY ConfigAssumption DEF Admissible
<1>2. \A g : Admissible(g)' = Admissible(g)
  BY DEF Admissible, php_pcov_filter_admits
<1>3. CASE f \in Short
  BY <1>1, <1>2, <1>3 DEF php_pcov_wants, AdmissionCachesCoherent, TypeOK
<1>4. CASE f \in wants \ Short
  BY <1>2, <1>4 DEF php_pcov_wants, AdmissionCachesCoherent, TypeOK
<1>5. CASE f \in ignores \ (wants \union Short)
  BY <1>2, <1>5 DEF php_pcov_wants, AdmissionCachesCoherent, TypeOK
<1>6. CASE f \notin Short \union wants \union ignores
  BY <1>2, <1>6 DEF php_pcov_wants, AdmissionCachesCoherent, TypeOK
<1>7. QED BY <1>3, <1>4, <1>5, <1>6

-----------------------------------------------------------------------------
(* The inductive invariant.                                                *)

Inv ==
  /\ TypeOK
  /\ AdmissionCachesCoherent
  /\ LogMirrorsTables
  /\ DiscoveredPristine

(* Recording a line, or finding it recorded, keeps the list and its        *)
(* mirrors in step.                                                        *)
LEMMA RecordLineCorrect ==
  ASSUME log \in Seq(Places), last \in Nat, waiting \subseteq Files,
         covered \subseteq Places, LogMirrorsTables,
         NEW f \in Files, NEW l \in OpLines[f], RecordLine(f, l)
  PROVE  /\ log' \in Seq(Places) /\ last' \in Nat
         /\ waiting' \subseteq Files /\ covered' \subseteq Places
         /\ LogMirrorsTables'
         /\ Logged' = Logged \union {<<f, l>>}
         /\ last' = last
         /\ <<f, l>> \notin Logged => last' # Len(log')
         /\ <<f, l>> \in Logged => log' = log
<1>1. <<f, l>> \in Places
  BY DEF Places
<1>2. CASE <<f, l>> \in covered
  <2>1. UNCHANGED recordVars /\ <<f, l>> \in Logged
    BY <1>2 DEF RecordLine, LogMirrorsTables
  <2>2. UNCHANGED <<log, last, waiting, covered>> /\ Logged' = Logged
    BY <2>1 DEF recordVars, Logged
  <2>3. LogMirrorsTables'
    BY <2>2 DEF LogMirrorsTables
  <2>4. QED BY <2>1, <2>2, <2>3
<1>3. CASE <<f, l>> \notin covered
  <2>1. /\ covered' = covered \union {<<f, l>>}
        /\ log' = Append(log, <<f, l>>)
        /\ waiting' = waiting \union {f}
        /\ last' = last
    BY <1>3 DEF RecordLine
  <2>2. Logged' = Logged \union {<<f, l>>} /\ <<f, l>> \notin Logged
    BY <1>3, <2>1, LoggedAppend DEF LogMirrorsTables
  <2>3. /\ log' \in Seq(Places)
        /\ Len(log) \in Nat
        /\ Len(log') = Len(log) + 1
        /\ log'[Len(log) + 1] = <<f, l>>
        /\ \A i \in 1 .. Len(log) : log'[i] = log[i] /\ log[i] \in Logged
    BY <1>1, <2>1, SMTT(20) DEF Logged
  <2>4. last' <= Len(log') /\ last' # Len(log')
    BY <2>1, <2>3 DEF LogMirrorsTables
  <2>5. covered' = Logged'
    BY <2>1, <2>2 DEF LogMirrorsTables
  <2>6. waiting' = {hit[1] : hit \in Logged'}
    BY <2>1, <2>2 DEF LogMirrorsTables
  <2>7. ASSUME NEW i \in 1 .. Len(log'), NEW j \in 1 .. Len(log'),
               log'[i] = log'[j]
        PROVE  i = j
    <3>1. i \in 1 .. Len(log) \/ i = Len(log) + 1
      BY <2>3
    <3>2. j \in 1 .. Len(log) \/ j = Len(log) + 1
      BY <2>3
    <3>3. CASE i \in 1 .. Len(log) /\ j \in 1 .. Len(log)
      BY <2>3, <2>7, <3>3 DEF LogMirrorsTables
    <3>4. CASE i = Len(log) + 1 \/ j = Len(log) + 1
      BY <2>2, <2>3, <2>7, <3>1, <3>2, <3>4
    <3>5. QED BY <3>1, <3>2, <3>3, <3>4
  <2>8. LogMirrorsTables'
    BY <2>4, <2>5, <2>6, <2>7 DEF LogMirrorsTables
  <2>9. QED BY <1>1, <1>3, <2>1, <2>2, <2>3, <2>4, <2>8
<1>4. QED BY <1>2, <1>3

(* Clearing leaves an empty list that its mirrors agree with.              *)
LEMMA ClearCorrect ==
  ASSUME TypeOK, DiscoveredPristine,
         NEW drop_files \in BOOLEAN, php_pcov_clear_internal(drop_files)
  PROVE  /\ files' \subseteq Files /\ forgotten' \subseteq Files
         /\ DOMAIN discovered' \subseteq Files
         /\ log' \in Seq(Places) /\ last' \in Nat
         /\ waiting' \subseteq Files /\ covered' \subseteq Places
         /\ LogMirrorsTables' /\ DiscoveredPristine'
         /\ Logged' = {} /\ last' = Len(log')
<1>1. /\ log' = <<>> /\ last' = 0 /\ waiting' = {} /\ covered' = {}
      /\ Logged' = {}
  BY DEF php_pcov_clear_internal, Logged
<1>2. /\ log' \in Seq(Places) /\ Len(log') = 0
  BY <1>1
<1>3. LogMirrorsTables'
  BY <1>1, <1>2 DEF LogMirrorsTables
<1>4. DOMAIN EmptyTable = {}
  BY DEF EmptyTable
<1>5. DiscoveredPristine'
  <2>1. CASE drop_files
    BY <1>4, <2>1 DEF php_pcov_clear_internal, DiscoveredPristine
  <2>2. CASE ~drop_files
    BY <2>2 DEF php_pcov_clear_internal, DiscoveredPristine, php_pcov_discover_code
  <2>3. QED BY <2>1, <2>2
<1>6. QED
  BY <1>1, <1>2, <1>3, <1>4, <1>5 DEF php_pcov_clear_internal, TypeOK

(* A collect adds to the cached tables, and only uncovered lines.          *)
LEMMA CollectCorrect ==
  ASSUME TypeOK, DiscoveredPristine,
         NEW type \in CollectTypes, NEW listed \in SUBSET Files
  PROVE  LET found == php_pcov_discover_file(Chosen(type, listed))
         IN  /\ found = {f \in Abstract!Chosen(type, listed) :
                          php_pcov_filter_admits(f)}
             /\ DOMAIN WithAnalysis(found) \subseteq files
             /\ found \subseteq DOMAIN WithAnalysis(found)
             /\ \A f \in DOMAIN WithAnalysis(found) :
                  WithAnalysis(found)[f] = php_pcov_discover_code(f)
<1> DEFINE found == php_pcov_discover_file(Chosen(type, listed))
<1>1. found = {f \in Abstract!Chosen(type, listed) : php_pcov_filter_admits(f)}
  BY DEF php_pcov_discover_file, Chosen, Abstract!Chosen, CollectTypes, TypeOK,
         DiscoveredPristine
<1>2. DOMAIN WithAnalysis(found) = found \union DOMAIN discovered
  BY DEF WithAnalysis
<1>3. found \subseteq files
  BY <1>1 DEF Abstract!Chosen
<1>4. ASSUME NEW f \in found \union DOMAIN discovered
      PROVE  WithAnalysis(found)[f] = php_pcov_discover_code(f)
  BY <1>4 DEF WithAnalysis, DiscoveredPristine
<1>5. QED BY <1>1, <1>2, <1>3, <1>4 DEF DiscoveredPristine

(* The invariant says of enabled and of the engine only that they are      *)
(* typed.                                                                  *)
LEMMA InvFrame ==
  ASSUME Inv,
         UNCHANGED <<filterVars, files, recordVars, discovered, report>>,
         enabled' \in BOOLEAN, loaded' \subseteq Files, forgotten' \subseteq Files
  PROVE  Inv' /\ Logged' = Logged
<1>1. UNCHANGED <<filter_mode, filter_paths, wants, ignores, files, log, last,
                  waiting, covered, discovered>>
  BY DEF filterVars, recordVars
<1>2. Logged' = Logged
  BY <1>1 DEF Logged
<1>3. TypeOK'
  BY <1>1 DEF Inv, TypeOK
<1>4. AdmissionCachesCoherent'
  BY <1>1 DEF Inv, AdmissionCachesCoherent, Admissible, php_pcov_filter_admits
<1>5. LogMirrorsTables'
  BY <1>1, <1>2 DEF Inv, LogMirrorsTables
<1>6. DiscoveredPristine'
  BY <1>1 DEF Inv, DiscoveredPristine, php_pcov_discover_code
<1>7. QED BY <1>2, <1>3, <1>4, <1>5, <1>6 DEF Inv

LEMMA InitInv == ASSUME Init PROVE Inv /\ Logged = {}
<1>1. Logged = {} /\ Len(log) = 0 /\ DOMAIN discovered = {}
  BY DEF Init, Logged, EmptyTable
<1>2. TypeOK
  <2>1. log \in Seq(Places) /\ last \in Nat
    BY DEF Init
  <2>2. filter_mode \in FilterModes
    BY DEF Init, FilterModes
  <2>3. /\ wants \subseteq Files /\ ignores \subseteq Files
        /\ files \subseteq Files /\ waiting \subseteq Files
        /\ covered \subseteq Places /\ filter_paths \subseteq Prefixes
        /\ loaded \subseteq Files /\ forgotten \subseteq Files
    BY DEF Init
  <2>4. DOMAIN report = {}
    <3>1. report = <<>> /\ DOMAIN <<>> = {}
      BY DEF Init
    <3> QED BY <3>1
  <2>5. QED BY <1>1, <2>1, <2>2, <2>3, <2>4 DEF Init, TypeOK
<1>3. AdmissionCachesCoherent
  BY DEF Init, AdmissionCachesCoherent
<1>4. LogMirrorsTables
  BY <1>1 DEF Init, LogMirrorsTables
<1>5. DiscoveredPristine
  BY <1>1 DEF Init, DiscoveredPristine
<1>6. QED BY <1>1, <1>2, <1>3, <1>4, <1>5 DEF Inv

LEMMA CompileInv ==
  ASSUME Inv, NEW f \in Files, php_pcov_compile_file(f)
  PROVE  Inv' /\ Logged' = Logged
<1>1. /\ loaded' = loaded \union {f}
      /\ UNCHANGED <<enabled, filter_mode, filter_paths, recordVars, discovered,
                     report>>
  BY DEF php_pcov_compile_file
<1>2. UNCHANGED <<log, last, waiting, covered>> /\ Logged' = Logged
  BY <1>1 DEF recordVars, Logged
<1>3. PICK wanted \in BOOLEAN :
        /\ php_pcov_wants(f, wanted)
        /\ files' = Retained(f, wanted)
        /\ forgotten' = IF wanted THEN forgotten \ {f} ELSE forgotten
  BY DEF php_pcov_compile_file
<1>4. /\ AdmissionCachesCoherent'
      /\ wants' \subseteq Files /\ ignores' \subseteq Files
  BY <1>1, <1>3, WantsCorrect DEF Inv
<1>5. TypeOK'
  BY <1>1, <1>2, <1>3, <1>4 DEF Inv, TypeOK, Retained
<1>6. LogMirrorsTables'
  BY <1>2 DEF Inv, LogMirrorsTables
<1>7. DiscoveredPristine'
  BY <1>1, <1>3 DEF Inv, DiscoveredPristine, Retained, php_pcov_discover_code
<1>8. QED BY <1>2, <1>4, <1>5, <1>6, <1>7 DEF Inv

LEMMA TraceInv ==
  ASSUME Inv, NEW f \in Files, NEW l \in OpLines[f], NEW ignored \in BOOLEAN,
         php_pcov_trace(f, l, ignored)
  PROVE  /\ Inv'
         /\ \/ UNCHANGED recordVars /\ Logged' = Logged
            \/ /\ Admissible(f)
               /\ Logged' = Logged \union {<<f, l>>}
               /\ last' = last
               /\ <<f, l>> \notin Logged => last' # Len(log')
               /\ <<f, l>> \in Logged => log' = log
<1>1. UNCHANGED <<enabled, filter_mode, filter_paths, files, discovered, report,
                  loaded, forgotten>>
  BY DEF php_pcov_trace, engineVars
<1>2. PICK wanted \in BOOLEAN :
        /\ php_pcov_wants(f, wanted)
        /\ IF wanted /\ ~ignored THEN RecordLine(f, l) ELSE UNCHANGED recordVars
  BY DEF php_pcov_trace
<1>3. /\ wanted <=> Admissible(f)
      /\ AdmissionCachesCoherent'
      /\ wants' \subseteq Files /\ ignores' \subseteq Files
  BY <1>1, <1>2, WantsCorrect DEF Inv
<1>4. DiscoveredPristine'
  BY <1>1 DEF Inv, DiscoveredPristine, php_pcov_discover_code
<1>5. CASE wanted /\ ~ignored
  <2>1. RecordLine(f, l)
    BY <1>2, <1>5
  <2>2. /\ log \in Seq(Places) /\ last \in Nat /\ waiting \subseteq Files
        /\ covered \subseteq Places /\ LogMirrorsTables
    BY DEF Inv, TypeOK
  <2>3. /\ log' \in Seq(Places) /\ last' \in Nat
        /\ waiting' \subseteq Files /\ covered' \subseteq Places
        /\ LogMirrorsTables'
        /\ Logged' = Logged \union {<<f, l>>}
        /\ last' = last
        /\ <<f, l>> \notin Logged => last' # Len(log')
        /\ <<f, l>> \in Logged => log' = log
    BY <2>1, <2>2, RecordLineCorrect
  <2>4. TypeOK'
    BY <1>1, <1>3, <2>3 DEF Inv, TypeOK
  <2>5. QED BY <1>3, <1>4, <1>5, <2>3, <2>4 DEF Inv
<1>6. CASE ~(wanted /\ ~ignored)
  <2>1. UNCHANGED <<log, last, waiting, covered>> /\ Logged' = Logged
    BY <1>2, <1>6 DEF recordVars, Logged
  <2>2. TypeOK'
    BY <1>1, <1>3, <2>1 DEF Inv, TypeOK
  <2>3. LogMirrorsTables'
    BY <2>1 DEF Inv, LogMirrorsTables
  <2>4. QED BY <1>3, <1>4, <2>1, <2>2, <2>3 DEF Inv, recordVars
<1>7. QED BY <1>5, <1>6

LEMMA ClearInv ==
  ASSUME Inv, NEW drop_files \in BOOLEAN, php_pcov_clear_internal(drop_files),
         UNCHANGED <<filterVars, loaded, report>>, enabled' \in BOOLEAN
  PROVE  Inv' /\ Logged' = {} /\ last' = Len(log')
<1>1. UNCHANGED <<filter_mode, filter_paths, wants, ignores, loaded, report>>
  BY DEF filterVars
<1>2. /\ files' \subseteq Files /\ forgotten' \subseteq Files
      /\ DOMAIN discovered' \subseteq Files
      /\ log' \in Seq(Places) /\ last' \in Nat
      /\ waiting' \subseteq Files /\ covered' \subseteq Places
      /\ LogMirrorsTables' /\ DiscoveredPristine'
      /\ Logged' = {} /\ last' = Len(log')
  BY ClearCorrect DEF Inv
<1>3. TypeOK'
  BY <1>1, <1>2 DEF Inv, TypeOK
<1>4. AdmissionCachesCoherent'
  BY <1>1 DEF Inv, AdmissionCachesCoherent, Admissible, php_pcov_filter_admits
<1>5. QED BY <1>2, <1>3, <1>4 DEF Inv

LEMMA SetFilterInv ==
  ASSUME Inv, NEW mode \in FilterModes, NEW paths \in SUBSET Prefixes,
         php_pcov_compat_set_filter(mode, paths)
  PROVE  Inv' /\ Logged' = Logged
<1>1. /\ filter_mode' = mode
      /\ filter_paths' \subseteq Prefixes
      /\ wants' = {} /\ ignores' = {}
      /\ UNCHANGED <<enabled, files, log, last, waiting, covered, discovered,
                     report, loaded, forgotten>>
  BY DEF php_pcov_compat_set_filter, recordVars, engineVars
<1>2. Logged' = Logged
  BY <1>1 DEF Logged
<1>3. TypeOK'
  BY <1>1 DEF Inv, TypeOK
<1>4. AdmissionCachesCoherent'
  BY <1>1 DEF AdmissionCachesCoherent
<1>5. LogMirrorsTables'
  BY <1>1, <1>2 DEF Inv, LogMirrorsTables
<1>6. DiscoveredPristine'
  BY <1>1 DEF Inv, DiscoveredPristine, php_pcov_discover_code
<1>7. QED BY <1>2, <1>3, <1>4, <1>5, <1>6 DEF Inv

LEMMA CollectInv ==
  ASSUME Inv, NEW type \in CollectTypes, NEW listed \in SUBSET Files,
         php_pcov_collect(type, listed)
  PROVE  Inv' /\ Logged' = Logged
<1> DEFINE found == php_pcov_discover_file(Chosen(type, listed))
<1>1. /\ last' = Len(log)
      /\ discovered' = discovered \/ discovered' = WithAnalysis(found)
      /\ UNCHANGED <<enabled, filter_mode, filter_paths, wants, ignores, files,
                     log, waiting, covered, loaded, forgotten>>
  BY DEF php_pcov_collect, filterVars, engineVars
<1>2. Logged' = Logged /\ Len(log) \in Nat
  BY <1>1 DEF Logged, Inv, TypeOK
<1>3. /\ DOMAIN WithAnalysis(found) \subseteq files
      /\ \A f \in DOMAIN WithAnalysis(found) :
           WithAnalysis(found)[f] = php_pcov_discover_code(f)
  BY CollectCorrect DEF Inv
<1>4. DiscoveredPristine'
  BY <1>1, <1>3 DEF Inv, DiscoveredPristine, php_pcov_discover_code
<1>5. /\ DOMAIN report' \subseteq Files
      /\ \A f \in DOMAIN report' : report'[f] \in [Executable[f] -> Statuses]
  <2>1. CASE Mode = "line" /\ last = Len(log)
    <3>1. report' = <<>> /\ DOMAIN <<>> = {}
      BY <2>1 DEF php_pcov_collect
    <3> QED BY <3>1
  <2>2. CASE ~(Mode = "line" /\ last = Len(log))
    <3>1. /\ discovered' = WithAnalysis(found)
          /\ report' = php_pcov_report([f \in found |-> discovered'[f]])
      BY <2>2 DEF php_pcov_collect
    <3>2. /\ found \subseteq files
          /\ \A f \in found : discovered'[f] = [l \in Executable[f] |-> PHP_PCOV_UNCOVERED]
      BY <1>3, <3>1, CollectCorrect DEF Inv, php_pcov_discover_code
    <3>3. report' = [f \in found |->
                       [l \in DOMAIN discovered'[f] |->
                          IF <<f, l>> \in Logged THEN PHP_PCOV_COVERED
                          ELSE discovered'[f][l]]]
      BY <3>1 DEF php_pcov_report
    <3>4. ASSUME NEW f \in found
          PROVE  report'[f] \in [Executable[f] -> Statuses]
      BY <3>2, <3>3, ZenonT(30) DEF Statuses
    <3> QED BY <3>2, <3>3, <3>4 DEF Inv, TypeOK
  <2> QED BY <2>1, <2>2
<1>9. TypeOK'
  BY <1>1, <1>2, <1>3, <1>5 DEF Inv, TypeOK
<1>6. LogMirrorsTables'
  BY <1>1, <1>2 DEF Inv, LogMirrorsTables
<1>7. AdmissionCachesCoherent'
  BY <1>1 DEF Inv, AdmissionCachesCoherent, Admissible, php_pcov_filter_admits
<1>8. QED BY <1>2, <1>4, <1>9, <1>6, <1>7 DEF Inv

LEMMA NextInv == ASSUME Inv, [Next]_vars PROVE Inv'
<1>1. CASE UNCHANGED vars
  BY <1>1, InvFrame DEF vars, filterVars, recordVars, Inv, TypeOK
<1>2. ASSUME NEW f \in Files, php_pcov_compile_file(f) PROVE Inv'
  BY <1>2, CompileInv
<1>3. ASSUME NEW f \in Files, NEW l \in OpLines[f], NEW ignored \in BOOLEAN,
             php_pcov_trace(f, l, ignored)
      PROVE  Inv'
  BY <1>3, TraceInv
<1>4. CASE php_pcov_start
  BY <1>4, InvFrame DEF php_pcov_start, engineVars, Inv, TypeOK
<1>5. CASE php_pcov_stop
  BY <1>5, InvFrame DEF php_pcov_stop, engineVars, Inv, TypeOK
<1>6. ASSUME NEW b \in BOOLEAN, php_pcov_clear(b) PROVE Inv'
  BY <1>6, ClearInv DEF php_pcov_clear, Inv, TypeOK
<1>7. ASSUME NEW b \in BOOLEAN, php_pcov_stop_internal(b) PROVE Inv'
  <2>1. enabled' \in BOOLEAN /\ UNCHANGED <<filterVars, loaded, report>>
    BY <1>7 DEF php_pcov_stop_internal
  <2>2. CASE b
    <3>1. php_pcov_clear_internal(FALSE)
      BY <1>7, <2>2 DEF php_pcov_stop_internal
    <3>2. QED BY <2>1, <3>1, ClearInv
  <2>3. CASE ~b
    BY <1>7, <2>1, <2>3, InvFrame DEF php_pcov_stop_internal, Inv, TypeOK
  <2>4. QED BY <2>2, <2>3
<1>8. ASSUME NEW m \in FilterModes, NEW P \in SUBSET Prefixes,
             php_pcov_compat_set_filter(m, P)
      PROVE  Inv'
  BY <1>8, SetFilterInv
<1>9. ASSUME NEW t \in CollectTypes, NEW S \in SUBSET Files, php_pcov_collect(t, S)
      PROVE  Inv'
  BY <1>9, CollectInv
<1>10. QED
  BY <1>1, <1>2, <1>3, <1>4, <1>5, <1>6, <1>7, <1>8, <1>9
  DEF Next, Engine, Script

-----------------------------------------------------------------------------
(* The invariants.                                                         *)

THEOREM Invariance == Spec => []Inv
<1>1. Init => Inv
  BY InitInv
<1>2. Inv /\ [Next]_vars => Inv'
  BY NextInv
<1>3. QED BY <1>1, <1>2, PTL DEF Spec

(* Every table of pcov.c keeps its type, whatever the script and the       *)
(* engine call.                                                            *)
THEOREM TypeCorrect == Spec => []TypeOK
  BY Invariance, PTL DEF Inv

(* wants and ignores never hold an answer php_pcov_wants would not give    *)
(* afresh, across every change of the xdebug filter.                       *)
THEOREM CachesCoherent == Spec => []AdmissionCachesCoherent
  BY Invariance, PTL DEF Inv

(* The list of hits, the covered set, the waiting set and the saved        *)
(* position agree after every trace, clear, stop and collect.              *)
THEOREM LogMirrored == Spec => []LogMirrorsTables
  BY Invariance, PTL DEF Inv

(* No collect ever leaves a hit in the cached tables.                      *)
THEOREM CacheStaysPristine == Spec => []DiscoveredPristine
  BY Invariance, PTL DEF Inv

-----------------------------------------------------------------------------
(* Refinement.                                                             *)

LEMMA WantedSame ==
  ASSUME NEW f, filter_mode \in FilterModes
  PROVE  Abstract!Wanted(f) <=> Admissible(f)
  BY AdmitsSame DEF Abstract!Wanted, Admissible

LEMMA InitRefines == ASSUME Init PROVE Abstract!Init
<1>1. Logged = {} /\ last = Len(log)
  BY InitInv DEF Init
<1>2. QED BY <1>1 DEF Init, Abstract!Init

(* A compile adds the file exactly when the abstract filter wants it.      *)
LEMMA CompileRefines ==
  ASSUME Inv, NEW f \in Files, php_pcov_compile_file(f)
  PROVE  Abstract!Compile(f)
<1>1. UNCHANGED <<enabled, filter_mode, filter_paths, log, last, report>>
  BY DEF php_pcov_compile_file, recordVars
<1>2. Logged' = Logged
  BY <1>1 DEF Logged
<1>3. PICK wanted \in BOOLEAN :
        php_pcov_wants(f, wanted) /\ files' = Retained(f, wanted)
  BY DEF php_pcov_compile_file
<1>4. wanted <=> Abstract!Wanted(f)
  BY <1>1, <1>3, WantsCorrect, WantedSame DEF Inv, TypeOK
<1>5. files' = IF Abstract!Wanted(f) THEN files \union {f} ELSE files
  BY <1>3, <1>4 DEF Retained
<1>6. QED BY <1>1, <1>2, <1>5 DEF Abstract!Compile

(* A traced opcode is a new hit in scope, or changes nothing abstract.     *)
LEMMA TraceRefines ==
  ASSUME Inv, NEW f \in Files, NEW l \in OpLines[f], NEW ignored \in BOOLEAN,
         php_pcov_trace(f, l, ignored)
  PROVE  Abstract!Run(f, l) \/ UNCHANGED Abstract!vars
<1>1. /\ enabled
      /\ UNCHANGED <<enabled, filter_mode, filter_paths, files, report>>
  BY DEF php_pcov_trace
<1>2. CASE UNCHANGED recordVars
  <2>1. UNCHANGED <<log, last>> /\ Logged' = Logged
    BY <1>2 DEF recordVars, Logged
  <2>2. QED BY <1>1, <2>1 DEF Abstract!vars
<1>3. CASE /\ Admissible(f)
           /\ Logged' = Logged \union {<<f, l>>}
           /\ last' = last
           /\ <<f, l>> \notin Logged => last' # Len(log')
           /\ <<f, l>> \in Logged => log' = log
  <2>1. CASE <<f, l>> \in Logged
    <3>1. UNCHANGED <<log, last>> /\ Logged' = Logged
      BY <1>3, <2>1
    <3>2. QED BY <1>1, <3>1 DEF Abstract!vars
  <2>2. CASE <<f, l>> \notin Logged
    <3>1. Abstract!Wanted(f)
      BY <1>3, WantedSame DEF Inv, TypeOK
    <3>2. (last # Len(log))' = TRUE
      BY <1>3, <2>2
    <3>3. QED BY <1>1, <1>3, <2>2, <3>1, <3>2 DEF Abstract!Run
  <2>3. QED BY <2>1, <2>2
<1>4. QED BY <1>2, <1>3, TraceInv

(* start and stop only switch recording.                                   *)
LEMMA SwitchRefines ==
  ASSUME NEW on \in BOOLEAN, enabled' = on,
         UNCHANGED <<filterVars, files, recordVars, report>>
  PROVE  Abstract!Record(on)
<1>1. UNCHANGED <<filter_mode, filter_paths, log, last, files, report>>
  BY DEF filterVars, recordVars
<1>2. Logged' = Logged
  BY <1>1 DEF Logged
<1>3. QED BY <1>1, <1>2 DEF Abstract!Record

LEMMA ClearRefines ==
  ASSUME Inv, NEW drop_files \in BOOLEAN, php_pcov_clear_internal(drop_files),
         UNCHANGED <<filterVars, loaded, report>>, enabled' \in {enabled, FALSE},
         enabled' \in BOOLEAN
  PROVE  Abstract!Forget(drop_files)
<1>1. Logged' = {} /\ (last # Len(log))' = FALSE
  BY ClearInv
<1>2. files' = IF drop_files THEN {} ELSE files
  BY DEF php_pcov_clear_internal
<1>3. UNCHANGED <<filter_mode, filter_paths>>
  BY DEF filterVars
<1>4. QED BY <1>1, <1>2, <1>3 DEF Abstract!Forget

LEMMA SetFilterRefines ==
  ASSUME Inv, NEW mode \in FilterModes, NEW paths \in SUBSET Prefixes,
         php_pcov_compat_set_filter(mode, paths)
  PROVE  \E P \in SUBSET Prefixes : Abstract!SetFilter(mode, P)
<1> DEFINE P == IF mode = "none" THEN {} ELSE paths
<1>1. /\ filter_mode' = mode /\ filter_paths' = P
      /\ UNCHANGED <<enabled, files, log, last, report>>
  BY DEF php_pcov_compat_set_filter, recordVars
<1>2. Logged' = Logged
  BY <1>1 DEF Logged
<1>3. Abstract!SetFilter(mode, P)
  BY <1>1, <1>2 DEF Abstract!SetFilter
<1>4. QED BY <1>3

(* Every reported file has exactly its executable lines, each covered when *)
(* it is among the hits.                                                   *)
LEMMA CollectRefines ==
  ASSUME Inv, NEW type \in CollectTypes, NEW listed \in SUBSET Files,
         php_pcov_collect(type, listed)
  PROVE  Abstract!Collect(type, listed)
<1> DEFINE found    == php_pcov_discover_file(Chosen(type, listed))
           chosen   == {g \in Abstract!Chosen(type, listed) : Abstract!Admits(g)}
           promised == [f \in chosen |->
                          [l \in Executable[f] |-> Abstract!Status(f, l)]]
<1>1. /\ last' = Len(log)
      /\ UNCHANGED <<enabled, filter_mode, filter_paths, files, log>>
  BY DEF php_pcov_collect, filterVars
<1>2. Logged' = Logged /\ (last # Len(log))' = FALSE
  BY <1>1 DEF Logged
<1>3. CASE Mode = "line" /\ last = Len(log)
  <2>1. report' = <<>>
    BY <1>3 DEF php_pcov_collect
  <2>2. QED BY <1>1, <1>2, <1>3, <2>1 DEF Abstract!Collect
<1>4. CASE ~(Mode = "line" /\ last = Len(log))
  <2>1. /\ discovered' = WithAnalysis(found)
        /\ report' = php_pcov_report([f \in found |-> discovered'[f]])
    BY <1>4 DEF php_pcov_collect
  <2>2. found = chosen
    BY CollectCorrect, AdmitsSame DEF Inv, TypeOK
  <2>3. \A f \in found : discovered'[f] = [l \in Executable[f] |-> PHP_PCOV_UNCOVERED]
    BY <2>1, CollectCorrect DEF Inv, php_pcov_discover_code
  <2>4. report' = [f \in found |->
                     [l \in DOMAIN discovered'[f] |->
                        IF <<f, l>> \in Logged THEN PHP_PCOV_COVERED
                        ELSE discovered'[f][l]]]
    BY <2>1 DEF php_pcov_report
  <2>5. ASSUME NEW f \in found
        PROVE  [l \in DOMAIN discovered'[f] |->
                  IF <<f, l>> \in Logged THEN PHP_PCOV_COVERED
                  ELSE discovered'[f][l]]
                 = [l \in Executable[f] |-> Abstract!Status(f, l)]
    BY <2>3, ZenonT(30) DEF Abstract!Status, PHP_PCOV_COVERED, PHP_PCOV_UNCOVERED
  <2>6. report' = promised
    BY <2>2, <2>4, <2>5
  <2>7. QED BY <1>1, <1>2, <1>4, <2>6 DEF Abstract!Collect
<1>5. QED BY <1>3, <1>4

LEMMA NextRefines ==
  ASSUME Inv, [Next]_vars
  PROVE  [Abstract!Next]_Abstract!vars
<1>1. CASE UNCHANGED vars
  BY <1>1, InvFrame DEF vars, filterVars, recordVars, Inv, TypeOK, Abstract!vars
<1>2. ASSUME NEW f \in Files, php_pcov_compile_file(f)
      PROVE  Abstract!Next
  BY <1>2, CompileRefines DEF Abstract!Next
<1>3. ASSUME NEW f \in Files, NEW l \in OpLines[f], NEW ignored \in BOOLEAN,
             php_pcov_trace(f, l, ignored)
      PROVE  Abstract!Next \/ UNCHANGED Abstract!vars
  BY <1>3, TraceRefines DEF Abstract!Next
<1>4. CASE php_pcov_start
  <2>1. Abstract!Record(TRUE)
    BY <1>4, SwitchRefines DEF php_pcov_start
  <2>2. QED BY <2>1 DEF Abstract!Next
<1>5. CASE php_pcov_stop
  <2>1. Abstract!Record(FALSE)
    BY <1>5, SwitchRefines DEF php_pcov_stop
  <2>2. QED BY <2>1 DEF Abstract!Next
<1>6. ASSUME NEW b \in BOOLEAN, php_pcov_clear(b) PROVE Abstract!Next
  <2>1. Abstract!Forget(b)
    BY <1>6, ClearRefines DEF php_pcov_clear, Inv, TypeOK
  <2>2. QED BY <2>1 DEF Abstract!Next
<1>7. ASSUME NEW b \in BOOLEAN, php_pcov_stop_internal(b) PROVE Abstract!Next
  <2>1. enabled' = FALSE /\ UNCHANGED <<filterVars, report, loaded>>
    BY <1>7 DEF php_pcov_stop_internal
  <2>2. CASE b
    <3>1. php_pcov_clear_internal(FALSE)
      BY <1>7, <2>2 DEF php_pcov_stop_internal
    <3>2. Abstract!Forget(FALSE)
      BY <2>1, <3>1, ClearRefines
    <3>3. QED BY <3>2 DEF Abstract!Next
  <2>3. CASE ~b
    <3>1. Abstract!Record(FALSE)
      BY <1>7, <2>1, <2>3, SwitchRefines DEF php_pcov_stop_internal
    <3>2. QED BY <3>1 DEF Abstract!Next
  <2>4. QED BY <2>2, <2>3
<1>8. ASSUME NEW m \in FilterModes, NEW P \in SUBSET Prefixes,
             php_pcov_compat_set_filter(m, P)
      PROVE  Abstract!Next
  BY <1>8, SetFilterRefines DEF Abstract!Next, FilterModes
<1>9. ASSUME NEW t \in CollectTypes, NEW S \in SUBSET Files, php_pcov_collect(t, S)
      PROVE  Abstract!Next
  BY <1>9, CollectRefines DEF Abstract!Next, CollectTypes
<1>10. QED
  BY <1>1, <1>2, <1>3, <1>4, <1>5, <1>6, <1>7, <1>8, <1>9
  DEF Next, Engine, Script

(* The hooks, the caches and the API of pcov.c implement CoverageSpec:     *)
(* exactly what is in scope when it runs is recorded, and a collect        *)
(* reports exactly what was recorded since the last clear.                 *)
THEOREM Refinement == Spec => Refines
<1>1. Init => Abstract!Init
  BY InitRefines
<1>2. Inv /\ [Next]_vars => [Abstract!Next]_Abstract!vars
  BY NextRefines
<1>3. QED
  BY <1>1, <1>2, Invariance, PTL DEF Spec, Refines, Abstract!Spec

-----------------------------------------------------------------------------
(* In line mode the filter never changes, so what was wanted when a file   *)
(* was compiled is still wanted when it runs.                              *)

LineInv ==
  /\ filter_mode = "none"
  /\ \A f \in loaded : Admissible(f) => f \in files \union forgotten
  /\ \A f \in waiting : Admissible(f)

LEMMA FirstsOfUnion ==
  ASSUME NEW S, NEW f, NEW l
  PROVE  {h[1] : h \in S \union {<<f, l>>}} = {h[1] : h \in S} \union {f}
<1>1. <<f, l>>[1] = f
  OBVIOUS
<1>2. QED BY <1>1

LEMMA WaitingGrows ==
  ASSUME Inv, Inv', NEW f, NEW l, Logged' = Logged \union {<<f, l>>}
  PROVE  waiting' = waiting \union {f}
<1>1. waiting = {hit[1] : hit \in Logged}
  BY DEF Inv, LogMirrorsTables
<1>2. waiting' = {hit[1] : hit \in Logged'}
  BY DEF Inv, LogMirrorsTables
<1>3. waiting' = {hit[1] : hit \in Logged \union {<<f, l>>}}
  BY <1>2
<1>4. QED BY <1>1, <1>3, FirstsOfUnion

LEMMA NextLineInv ==
  ASSUME Mode = "line", Inv, Inv', LineInv, [Next]_vars
  PROVE  LineInv'
<1>1. ASSUME UNCHANGED <<filter_mode, filter_paths, files, waiting, loaded, forgotten>>
      PROVE  LineInv'
  BY <1>1 DEF LineInv, Admissible, php_pcov_filter_admits
<1>2. CASE UNCHANGED vars
  BY <1>1, <1>2 DEF vars
<1>3. ASSUME NEW f \in Files, php_pcov_compile_file(f) PROVE LineInv'
  <2>1. PICK wanted \in BOOLEAN :
          /\ php_pcov_wants(f, wanted)
          /\ files' = IF wanted THEN files \union {f} ELSE files
          /\ forgotten' = IF wanted THEN forgotten \ {f} ELSE forgotten
    BY <1>3 DEF php_pcov_compile_file, Retained
  <2>2. /\ loaded' = loaded \union {f}
        /\ UNCHANGED <<filter_mode, filter_paths, waiting>>
    BY <1>3 DEF php_pcov_compile_file, recordVars
  <2>3. wanted <=> Admissible(f)
    BY <2>1, <2>2, WantsCorrect DEF Inv
  <2>4. \A g : Admissible(g)' = Admissible(g)
    BY <2>2 DEF Admissible, php_pcov_filter_admits
  <2>5. QED BY <2>1, <2>2, <2>3, <2>4 DEF LineInv
<1>4. ASSUME NEW f \in Files, NEW l \in OpLines[f], NEW ignored \in BOOLEAN,
             php_pcov_trace(f, l, ignored)
      PROVE  LineInv'
  <2>1. UNCHANGED <<filter_mode, filter_paths, files, loaded, forgotten>>
    BY <1>4 DEF php_pcov_trace, engineVars
  <2>2. CASE UNCHANGED recordVars
    BY <1>1, <2>1, <2>2 DEF recordVars
  <2>3. CASE Admissible(f) /\ Logged' = Logged \union {<<f, l>>}
    <3>1. waiting' = waiting \union {f}
      BY <2>3, WaitingGrows
    <3>3. \A g : Admissible(g)' = Admissible(g)
      BY <2>1 DEF Admissible, php_pcov_filter_admits
    <3>4. QED BY <2>1, <2>3, <3>1, <3>3 DEF LineInv
  <2>4. QED BY <1>4, <2>2, <2>3, TraceInv
<1>5. CASE php_pcov_start \/ php_pcov_stop
  BY <1>1, <1>5 DEF php_pcov_start, php_pcov_stop, filterVars, recordVars, engineVars
<1>6. ASSUME NEW b \in BOOLEAN, php_pcov_clear(b) PROVE LineInv'
  <2>1. /\ files' \union forgotten' = files \union forgotten
        /\ waiting' = {}
        /\ UNCHANGED <<filter_mode, filter_paths, loaded>>
    BY <1>6 DEF php_pcov_clear, php_pcov_clear_internal, filterVars
  <2>2. \A g : Admissible(g)' = Admissible(g)
    BY <2>1 DEF Admissible, php_pcov_filter_admits
  <2>3. QED BY <2>1, <2>2 DEF LineInv
<1>7. ASSUME NEW t \in CollectTypes, NEW S \in SUBSET Files, php_pcov_collect(t, S)
      PROVE  LineInv'
  BY <1>1, <1>7 DEF php_pcov_collect, filterVars, engineVars
<1>8. QED
  BY <1>2, <1>3, <1>4, <1>5, <1>6, <1>7
  DEF Next, Engine, Script, php_pcov_stop_internal, php_pcov_compat_set_filter

(* In line mode every file that was compiled through the hook and has a    *)
(* recorded hit is one collect can report, whichever of the two came       *)
(* first, unless the script itself dropped the file tables with            *)
(* clear(true).                                                            *)
THEOREM LineHitsReportable ==
  ASSUME Mode = "line"
  PROVE  Spec => []HitsReportable
<1>1. Init => LineInv
  BY DEF Init, LineInv, HitsReportable
<1>2. Inv /\ Inv' /\ LineInv /\ [Next]_vars => LineInv'
  BY NextLineInv
<1>3. LineInv => HitsReportable
  BY DEF LineInv, HitsReportable
<1>4. QED BY <1>1, <1>2, <1>3, Invariance, PTL DEF Spec

================================================================================
