--------------------------- MODULE PcovRequest_proofs ---------------------------
(***************************************************************************)
(* Theorems about PcovRequest, for any number of threads, any patterns and *)
(* any configuration.                                                      *)
(*                                                                         *)
(* Each rests on an invariant of its own: what startup has decided once it *)
(* is over, what a thread in the middle of a request has, what a process   *)
(* whose pcov is disabled never does, which combinations of hook and saved *)
(* hooks one thread can leave.  The proof that a step preserves one of     *)
(* them has a case for each action that writes what it reads, and one for  *)
(* all the others.                                                         *)
(***************************************************************************)
EXTENDS PcovRequest, TLAPS

(* The plain types.                                                        *)
Shape ==
  /\ config \in Configs /\ threads \subseteq Threads
  /\ phase \in {"startup", "extensions", "serving", "down"}
  /\ registry \in {"none", "real", "fake"} /\ compat_active \in BOOLEAN
  /\ execute_ex \in {"engine", "pcov"}
  /\ {compile_file, saved_compile, other_saved} \subseteq
       {"null", "engine", "pcov", "other"}
  /\ pc \in [Threads -> Stages]
  /\ enabled \in [Threads -> BOOLEAN]
  /\ mode \in [Threads -> {"line", "branch"}]
  /\ tables \in [Threads -> {"zeroed", "live", "gone"}]
  /\ hits \in [Threads -> SUBSET {"own", "old"}]
  /\ asked \in [Threads -> BOOLEAN]
  /\ begun \in [Threads -> BOOLEAN]
  /\ leftOn \in [Threads -> BOOLEAN]
  /\ fault \in {"none", "tables", "hook"}

(* What MINIT and the Zend extensions decide between them.                 *)
Registered ==
  /\ phase = "startup" =>
       /\ ~compat_active
       /\ registry = IF config.xdebug = "module" THEN "real" ELSE "none"
  /\ phase # "startup" =>
       (compat_active <=>
          BranchAsked /\ php_pcov_api_enabled /\ config.xdebug = "absent")
  /\ phase = "extensions" =>
       registry = IF compat_active THEN "fake"
                  ELSE IF config.xdebug = "module" THEN "real" ELSE "none"
  /\ phase \in {"serving", "down"} =>
       registry = IF compat_active THEN "fake"
                  ELSE IF config.xdebug = "absent" THEN "none" ELSE "real"

(* A thread has not begun a request before the process serves them, and    *)
(* has the mode of the surface from RINIT on.                              *)
Modes ==
  \A t \in Threads :
    /\ phase \in {"startup", "extensions"} => pc[t] = "idle" /\ mode[t] = "line"
    /\ Running(t) => (mode[t] = "branch" <=> compat_active)
    /\ config.xdebug # "absent" => mode[t] = "line"

ModeInv == Shape /\ Registered /\ Modes

(* A pcov that is disabled hooks nothing.                                  *)
Dormant ==
  ~php_pcov_api_enabled =>
    /\ execute_ex = "engine"
    /\ "pcov" \notin {compile_file, saved_compile, other_saved}
    /\ \A t \in Threads : pc[t] \in {"idle", "script", "flushing"}

(* Tables are there from RINIT to RSHUTDOWN.                               *)
Live == \A t \in Threads : Running(t) => tables[t] = "live"

TablesInv == Shape /\ Dormant /\ Live /\ TablesReady

(* Tracing is on only after a start, and what it has recorded goes when    *)
(* the next request begins.                                                *)
Recorded ==
  \A t \in Threads :
    /\ Running(t) => "old" \notin hits[t]
    /\ enabled[t] => php_pcov_api_enabled /\ asked[t]
    /\ asked[t] => begun[t] \/ leftOn[t]
    /\ "own" \in hits[t] => begun[t] \/ leftOn[t]

RecordsInv == Shape /\ Recorded

(* The hook, what pcov has saved and what another extension has saved, in  *)
(* every combination that one thread leaves: nobody on the engine, one of  *)
(* them, the other on top of pcov, pcov on top of the other.               *)
NoPcov ==
  \/ compile_file = "engine" /\ other_saved = "null"
  \/ compile_file = "other" /\ other_saved = "engine"

PcovOnTop ==
  /\ compile_file = "pcov"
  /\ \/ saved_compile = "engine" /\ other_saved = "null"
     \/ saved_compile = "other" /\ other_saved = "engine"

Hooked ==
  \/ PcovOnTop
  \/ compile_file = "other" /\ other_saved = "pcov" /\ saved_compile = "engine"

Hooks ==
  OneThread =>
    \A t \in threads :
      /\ pc[t] \in {"idle", "flushing"} =>
           Hooked \/ (NoPcov /\ saved_compile = "null")
      /\ pc[t] = "save" => NoPcov /\ saved_compile = "null"
      /\ pc[t] = "hook" => NoPcov /\ saved_compile = compile_file
      /\ pc[t] = "script" /\ php_pcov_api_enabled => Hooked
      /\ pc[t] = "script" /\ ~php_pcov_api_enabled => NoPcov /\ saved_compile = "null"
      /\ pc[t] = "restore" => PcovOnTop
      /\ pc[t] = "forget" => NoPcov /\ saved_compile = compile_file

ChainInv == Shape /\ Dormant /\ Hooks /\ (OneThread => fault # "hook")

(* All requests of a process set pcov.exclude, or none does.               *)
Uniform == \A S \in ExcludeChoices : Unset \in S => S = {Unset}

(* The pattern of a request that runs is its own and is counted.           *)
Excludes ==
  /\ pattern \in [Threads -> Regexes \union {Unset, Invalid}]
  /\ exclude \in [Threads -> Regexes \union {NULL}]
  /\ cached \in [Threads -> SUBSET Regexes]
  /\ refs \in [Threads -> [Regexes -> 0 .. MaxRefs]]
  /\ \A t \in Threads :
       /\ \A r \in Regexes \ cached[t] : refs[t][r] = 0
       /\ config.excludes = {Unset} => exclude[t] = NULL
       /\ Running(t) =>
            /\ exclude[t] = IF pattern[t] \in Regexes THEN pattern[t] ELSE NULL
            /\ exclude[t] # NULL => refs[t][exclude[t]] > 0

ExcludeInv == Shape /\ Excludes

-----------------------------------------------------------------------------
(* The shape of the state.                                                 *)

(* The types hold at first.                                                *)
LEMMA ShapeInit == Init => Shape
<1> SUFFICES ASSUME Init
             PROVE  Shape
  OBVIOUS
<1>1. [t \in Threads |-> {}] \in [Threads -> SUBSET {"own", "old"}]
  OBVIOUS
<1>2. hits \in [Threads -> SUBSET {"own", "old"}]
  BY <1>1 DEF Init
<1>3. threads \subseteq Threads /\ config \in Configs
  BY DEF Init
<1>4. /\ enabled \in [Threads -> BOOLEAN] /\ asked \in [Threads -> BOOLEAN]
      /\ begun \in [Threads -> BOOLEAN] /\ leftOn \in [Threads -> BOOLEAN]
  BY DEF Init
<1>5. /\ pc \in [Threads -> Stages] /\ mode \in [Threads -> {"line", "branch"}]
      /\ tables \in [Threads -> {"zeroed", "live", "gone"}]
  BY DEF Init, Stages
<1> QED
  BY <1>2, <1>3, <1>4, <1>5 DEF Init, Shape

(* Every step keeps the types.                                             *)
LEMMA ShapeStep ==
  ASSUME Shape, [Next]_vars
  PROVE  Shape'
<1>1. ASSUME UNCHANGED <<config, threads, phase, registry, compat_active,
                          execute_ex, compile_file, saved_compile, other_saved,
                          pc, enabled, mode, tables, hits, asked, begun,
                          leftOn, fault>>
      PROVE  Shape'
  BY <1>1 DEF Shape, Stages, Configs
<1>2. CASE UNCHANGED vars
  BY <1>1, <1>2 DEF vars, startupVars, hookVars, historyVars
<1>3. CASE PHP_MINIT_FUNCTION
  BY <1>3
    DEF Shape, Stages, PHP_MINIT_FUNCTION, RegistersShim, startupVars,
        hookVars, historyVars
<1>4. CASE zend_startup_extensions
  BY <1>4
    DEF Shape, Stages, zend_startup_extensions, startupVars, hookVars,
        historyVars
<1>5. CASE PHP_MSHUTDOWN_FUNCTION
  BY <1>5
    DEF Shape, Stages, PHP_MSHUTDOWN_FUNCTION, startupVars, hookVars,
        historyVars
<1>6. CASE OtherHooks
  BY <1>6 DEF Shape, Stages, OtherHooks, startupVars, hookVars, historyVars
<1>7. CASE OtherUnhooks
  BY <1>7 DEF Shape, Stages, OtherUnhooks, startupVars, hookVars, historyVars
<1>8. ASSUME NEW t \in threads,
             PHP_RINIT_FUNCTION(t)
      PROVE  Shape'
  BY <1>8
    DEF Shape, Stages, PHP_RINIT_FUNCTION, InitTables, ForgetRecords,
        php_pcov_resolve_mode, startupVars, hookVars, historyVars
<1>9. ASSUME NEW t \in threads,
             SaveCompiler(t)
      PROVE  Shape'
  BY <1>9 DEF Shape, Stages, SaveCompiler, startupVars, hookVars, historyVars
<1>10. ASSUME NEW t \in threads,
             HookCompiler(t)
      PROVE  Shape'
  BY <1>10 DEF Shape, Stages, HookCompiler, startupVars, hookVars, historyVars
<1>11. ASSUME NEW t \in threads,
             php_pcov_compile_file(t)
      PROVE  Shape'
  BY <1>11
    DEF Shape, Stages, php_pcov_compile_file, UseTables, startupVars, hookVars,
        historyVars
<1>12. ASSUME NEW t \in threads,
             php_pcov_trace(t)
      PROVE  Shape'
  BY <1>12
    DEF Shape, Stages, php_pcov_trace, UseTables, startupVars, hookVars,
        historyVars
<1>13. ASSUME NEW t \in threads,
             php_pcov_start_internal(t)
      PROVE  Shape'
  BY <1>13
    DEF Shape, Stages, php_pcov_start_internal, startupVars, hookVars,
        historyVars
<1>14. ASSUME NEW t \in threads, NEW cleanup \in BOOLEAN,
             php_pcov_stop_internal(t, cleanup)
      PROVE  Shape'
  BY <1>14
    DEF Shape, Stages, php_pcov_stop_internal, php_pcov_clear_internal,
        UseTables, Disabled, startupVars, hookVars, historyVars
<1>15. ASSUME NEW t \in threads,
             php_pcov_clear(t)
      PROVE  Shape'
  BY <1>15
    DEF Shape, Stages, php_pcov_clear, php_pcov_clear_internal, UseTables,
        startupVars, hookVars, historyVars
<1>16. ASSUME NEW t \in threads, NEW unclean_shutdown \in BOOLEAN,
             PHP_RSHUTDOWN_FUNCTION(t, unclean_shutdown)
      PROVE  Shape'
  BY <1>16
    DEF Shape, Stages, PHP_RSHUTDOWN_FUNCTION, Unhooking, startupVars,
        hookVars, historyVars
<1>17. ASSUME NEW t \in threads,
             RestoreCompiler(t)
      PROVE  Shape'
  BY <1>17
    DEF Shape, Stages, RestoreCompiler, startupVars, hookVars, historyVars
<1>18. ASSUME NEW t \in threads,
             ForgetCompiler(t)
      PROVE  Shape'
  BY <1>18
    DEF Shape, Stages, ForgetCompiler, startupVars, hookVars, historyVars
<1>19. ASSUME NEW t \in threads,
             php_request_shutdown(t)
      PROVE  Shape'
  BY <1>19
    DEF Shape, Stages, php_request_shutdown, startupVars, hookVars, historyVars
<1>20. ASSUME NEW t \in threads,
             \/ pcre_clean_cache(t)
      PROVE  Shape'
  BY <1>1, <1>20 DEF pcre_clean_cache, startupVars, hookVars, historyVars
<1> QED
  BY <1>1, <1>2, <1>3, <1>4, <1>5, <1>6, <1>7, <1>8, <1>9, <1>10, <1>11, <1>12,
     <1>13, <1>14, <1>15, <1>16, <1>17, <1>18, <1>19, <1>20
    DEF Next, Startup, Begin, Script, End

-----------------------------------------------------------------------------
(* Startup and modes.                                                      *)

(* Who is registered under the name xdebug is settled by the two startup   *)
(* steps, and nothing later changes it.                                    *)
LEMMA RegisteredStep ==
  ASSUME Shape, Registered, [Next]_vars
  PROVE  Registered'
<1>1. ASSUME UNCHANGED <<config, phase, registry, compat_active>>
      PROVE  Registered'
  BY <1>1 DEF Registered, BranchAsked, php_pcov_api_enabled
<1>2. CASE UNCHANGED vars
  BY <1>1, <1>2 DEF vars, startupVars
<1>3. CASE PHP_MINIT_FUNCTION
  BY <1>3
    DEF Registered, BranchAsked, php_pcov_api_enabled, Shape, Configs,
        PHP_MINIT_FUNCTION, RegistersShim, php_pcov_resolve_mode, startupVars
<1>4. CASE zend_startup_extensions
  BY <1>4
    DEF Registered, BranchAsked, php_pcov_api_enabled, Shape, Configs,
        zend_startup_extensions, startupVars
<1>5. CASE PHP_MSHUTDOWN_FUNCTION
  BY <1>5
    DEF Registered, BranchAsked, php_pcov_api_enabled, Shape, Configs,
        PHP_MSHUTDOWN_FUNCTION, startupVars
<1>6. CASE \/ OtherHooks
         \/ OtherUnhooks
  BY <1>1, <1>6 DEF OtherHooks, OtherUnhooks, startupVars
<1>7. ASSUME NEW t \in threads,
             \/ PHP_RINIT_FUNCTION(t)
             \/ SaveCompiler(t)
             \/ HookCompiler(t)
             \/ php_pcov_compile_file(t)
             \/ php_pcov_trace(t)
             \/ php_pcov_start_internal(t)
             \/ (\E cleanup \in BOOLEAN : php_pcov_stop_internal(t, cleanup))
             \/ php_pcov_clear(t)
             \/ pcre_clean_cache(t)
             \/ (\E unclean_shutdown \in BOOLEAN : PHP_RSHUTDOWN_FUNCTION(t, unclean_shutdown))
             \/ RestoreCompiler(t)
             \/ ForgetCompiler(t)
             \/ php_request_shutdown(t)
      PROVE  Registered'
  BY <1>1, <1>7
    DEF OtherHooks, OtherUnhooks, PHP_RINIT_FUNCTION, SaveCompiler,
        HookCompiler, php_pcov_compile_file, php_pcov_trace,
        php_pcov_start_internal, php_pcov_stop_internal, php_pcov_clear,
        pcre_clean_cache, PHP_RSHUTDOWN_FUNCTION, RestoreCompiler,
        ForgetCompiler, php_request_shutdown, startupVars
<1> QED
  BY <1>1, <1>2, <1>3, <1>4, <1>5, <1>6, <1>7
    DEF Next, Startup, Begin, Script, End

(* RINIT resolves the mode to what the registry was settled to.            *)
LEMMA ModesStep ==
  ASSUME Shape, Registered, Modes, [Next]_vars
  PROVE  Modes'
<1>1. ASSUME UNCHANGED <<config, phase, compat_active, pc, mode>>
      PROVE  Modes'
  BY <1>1 DEF Modes, Running, php_pcov_api_enabled
<1>2. CASE UNCHANGED vars
  BY <1>1, <1>2 DEF vars, startupVars
<1>3. CASE PHP_MINIT_FUNCTION
  BY <1>3
    DEF Modes, Running, Shape, php_pcov_api_enabled, PHP_MINIT_FUNCTION,
        startupVars
<1>4. CASE zend_startup_extensions
  BY <1>4
    DEF Modes, Running, Shape, php_pcov_api_enabled, zend_startup_extensions,
        startupVars
<1>5. CASE PHP_MSHUTDOWN_FUNCTION
  BY <1>5
    DEF Modes, Running, Shape, php_pcov_api_enabled, PHP_MSHUTDOWN_FUNCTION,
        startupVars
<1>6. ASSUME NEW t \in threads,
             PHP_RINIT_FUNCTION(t)
      PROVE  Modes'
  BY <1>6
    DEF Modes, Running, Shape, php_pcov_api_enabled, PHP_RINIT_FUNCTION,
        php_pcov_resolve_mode, BranchAsked, Registered, Stages, startupVars
<1>7. ASSUME NEW t \in threads,
             SaveCompiler(t)
      PROVE  Modes'
  BY <1>7
    DEF Modes, Running, Shape, php_pcov_api_enabled, SaveCompiler, startupVars
<1>8. ASSUME NEW t \in threads,
             HookCompiler(t)
      PROVE  Modes'
  BY <1>8
    DEF Modes, Running, Shape, php_pcov_api_enabled, HookCompiler, startupVars
<1>9. ASSUME NEW t \in threads, NEW unclean_shutdown \in BOOLEAN,
             PHP_RSHUTDOWN_FUNCTION(t, unclean_shutdown)
      PROVE  Modes'
  BY <1>9
    DEF Modes, Running, Shape, php_pcov_api_enabled, PHP_RSHUTDOWN_FUNCTION,
        Unhooking, startupVars
<1>10. ASSUME NEW t \in threads,
             RestoreCompiler(t)
      PROVE  Modes'
  BY <1>10
    DEF Modes, Running, Shape, php_pcov_api_enabled, RestoreCompiler,
        startupVars
<1>11. ASSUME NEW t \in threads,
             ForgetCompiler(t)
      PROVE  Modes'
  BY <1>11
    DEF Modes, Running, Shape, php_pcov_api_enabled, ForgetCompiler,
        startupVars
<1>12. ASSUME NEW t \in threads,
             php_request_shutdown(t)
      PROVE  Modes'
  BY <1>12
    DEF Modes, Running, Shape, php_pcov_api_enabled, php_request_shutdown,
        startupVars
<1>13. CASE \/ OtherHooks
         \/ OtherUnhooks
  BY <1>1, <1>13 DEF OtherHooks, OtherUnhooks, startupVars
<1>14. ASSUME NEW t \in threads,
             \/ php_pcov_compile_file(t)
             \/ php_pcov_trace(t)
             \/ php_pcov_start_internal(t)
             \/ (\E cleanup \in BOOLEAN : php_pcov_stop_internal(t, cleanup))
             \/ php_pcov_clear(t)
             \/ pcre_clean_cache(t)
      PROVE  Modes'
  BY <1>1, <1>14
    DEF OtherHooks, OtherUnhooks, php_pcov_compile_file, php_pcov_trace,
        php_pcov_start_internal, php_pcov_stop_internal, php_pcov_clear,
        pcre_clean_cache, startupVars
<1> QED
  BY <1>1, <1>2, <1>3, <1>4, <1>5, <1>6, <1>7, <1>8, <1>9, <1>10, <1>11, <1>12,
     <1>13, <1>14 DEF Next, Startup, Begin, Script, End

(* What startup decides, and the modes of the requests.                    *)
LEMMA ModeInduction == Spec => []ModeInv
<1>1. Init => ModeInv
  BY ShapeInit DEF Init, ModeInv, Registered, Modes, Running
<1>2. ModeInv /\ [Next]_vars => ModeInv'
  BY ShapeStep, RegisteredStep, ModesStep DEF ModeInv
<1> QED
  BY <1>1, <1>2, PTL DEF Spec

(* However ini, environment and Xdebug are combined, MINIT and RINIT never *)
(* disagree: there is a surface exactly when requests track branches.      *)
THEOREM SurfaceAgrees == Spec => []ModeAgreesWithSurface
<1>1. ModeInv => ModeAgreesWithSurface
  BY DEF ModeInv, Shape, Modes, ModeAgreesWithSurface
<1> QED
  BY <1>1, ModeInduction, PTL

(* The real Xdebug, whenever it registers, keeps its name and its coverage *)
(* to itself.                                                              *)
THEOREM XdebugOwns == Spec => []RealXdebugOwns
<1>1. ModeInv => RealXdebugOwns
  BY DEF ModeInv, Shape, Registered, Modes, RealXdebugOwns
<1> QED
  BY <1>1, ModeInduction, PTL

-----------------------------------------------------------------------------
(* Tables.                                                                 *)

(* Only RINIT of an enabled pcov begins to hook.                           *)
LEMMA DormantStep ==
  ASSUME Shape, Dormant, [Next]_vars
  PROVE  Dormant'
<1>1. ASSUME UNCHANGED <<config, execute_ex, compile_file, saved_compile,
                          other_saved, pc>>
      PROVE  Dormant'
  BY <1>1 DEF Dormant, php_pcov_api_enabled
<1>2. CASE UNCHANGED vars
  BY <1>1, <1>2 DEF vars, startupVars, hookVars
<1>3. CASE PHP_MINIT_FUNCTION
  BY <1>3
    DEF Dormant, Shape, php_pcov_api_enabled, PHP_MINIT_FUNCTION, startupVars,
        hookVars
<1>4. CASE PHP_MSHUTDOWN_FUNCTION
  BY <1>4
    DEF Dormant, Shape, php_pcov_api_enabled, PHP_MSHUTDOWN_FUNCTION,
        startupVars, hookVars
<1>5. CASE OtherHooks
  BY <1>5
    DEF Dormant, Shape, php_pcov_api_enabled, OtherHooks, startupVars, hookVars
<1>6. CASE OtherUnhooks
  BY <1>6
    DEF Dormant, Shape, php_pcov_api_enabled, OtherUnhooks, startupVars,
        hookVars
<1>7. ASSUME NEW t \in threads,
             PHP_RINIT_FUNCTION(t)
      PROVE  Dormant'
  BY <1>7
    DEF Dormant, Shape, php_pcov_api_enabled, PHP_RINIT_FUNCTION, startupVars,
        hookVars
<1>8. ASSUME NEW t \in threads,
             SaveCompiler(t)
      PROVE  Dormant'
  BY <1>8
    DEF Dormant, Shape, php_pcov_api_enabled, SaveCompiler, startupVars,
        hookVars
<1>9. ASSUME NEW t \in threads,
             HookCompiler(t)
      PROVE  Dormant'
  BY <1>9
    DEF Dormant, Shape, php_pcov_api_enabled, HookCompiler, startupVars,
        hookVars
<1>10. ASSUME NEW t \in threads, NEW unclean_shutdown \in BOOLEAN,
             PHP_RSHUTDOWN_FUNCTION(t, unclean_shutdown)
      PROVE  Dormant'
  BY <1>10
    DEF Dormant, Shape, php_pcov_api_enabled, PHP_RSHUTDOWN_FUNCTION,
        Unhooking, startupVars, hookVars
<1>11. ASSUME NEW t \in threads,
             RestoreCompiler(t)
      PROVE  Dormant'
  BY <1>11
    DEF Dormant, Shape, php_pcov_api_enabled, RestoreCompiler, startupVars,
        hookVars
<1>12. ASSUME NEW t \in threads,
             ForgetCompiler(t)
      PROVE  Dormant'
  BY <1>12
    DEF Dormant, Shape, php_pcov_api_enabled, ForgetCompiler, startupVars,
        hookVars
<1>13. ASSUME NEW t \in threads,
             php_request_shutdown(t)
      PROVE  Dormant'
  BY <1>13
    DEF Dormant, Shape, php_pcov_api_enabled, php_request_shutdown,
        startupVars, hookVars
<1>14. CASE \/ zend_startup_extensions
  BY <1>1, <1>14 DEF zend_startup_extensions, startupVars, hookVars
<1>15. ASSUME NEW t \in threads,
             \/ php_pcov_compile_file(t)
             \/ php_pcov_trace(t)
             \/ php_pcov_start_internal(t)
             \/ (\E cleanup \in BOOLEAN : php_pcov_stop_internal(t, cleanup))
             \/ php_pcov_clear(t)
             \/ pcre_clean_cache(t)
      PROVE  Dormant'
  BY <1>1, <1>15
    DEF zend_startup_extensions, php_pcov_compile_file, php_pcov_trace,
        php_pcov_start_internal, php_pcov_stop_internal, php_pcov_clear,
        pcre_clean_cache, startupVars, hookVars
<1> QED
  BY <1>1, <1>2, <1>3, <1>4, <1>5, <1>6, <1>7, <1>8, <1>9, <1>10, <1>11, <1>12,
     <1>13, <1>14, <1>15 DEF Next, Startup, Begin, Script, End

(* What takes the tables away leaves the request.                          *)
LEMMA LiveStep ==
  ASSUME Shape, Live, [Next]_vars
  PROVE  Live'
<1>1. ASSUME UNCHANGED <<config, pc, tables>>
      PROVE  Live'
  BY <1>1 DEF Live, Running, php_pcov_api_enabled
<1>2. CASE UNCHANGED vars
  BY <1>1, <1>2 DEF vars, startupVars
<1>3. ASSUME NEW t \in threads,
             PHP_RINIT_FUNCTION(t)
      PROVE  Live'
  BY <1>3
    DEF Live, Running, Shape, php_pcov_api_enabled, PHP_RINIT_FUNCTION,
        InitTables, startupVars
<1>4. ASSUME NEW t \in threads,
             SaveCompiler(t)
      PROVE  Live'
  BY <1>4
    DEF Live, Running, Shape, php_pcov_api_enabled, SaveCompiler, startupVars
<1>5. ASSUME NEW t \in threads,
             HookCompiler(t)
      PROVE  Live'
  BY <1>5
    DEF Live, Running, Shape, php_pcov_api_enabled, HookCompiler, startupVars
<1>6. ASSUME NEW t \in threads, NEW unclean_shutdown \in BOOLEAN,
             PHP_RSHUTDOWN_FUNCTION(t, unclean_shutdown)
      PROVE  Live'
  BY <1>6
    DEF Live, Running, Shape, php_pcov_api_enabled, PHP_RSHUTDOWN_FUNCTION,
        Unhooking, startupVars
<1>7. ASSUME NEW t \in threads,
             RestoreCompiler(t)
      PROVE  Live'
  BY <1>7
    DEF Live, Running, Shape, php_pcov_api_enabled, RestoreCompiler,
        startupVars
<1>8. ASSUME NEW t \in threads,
             ForgetCompiler(t)
      PROVE  Live'
  BY <1>8
    DEF Live, Running, Shape, php_pcov_api_enabled, ForgetCompiler, startupVars
<1>9. ASSUME NEW t \in threads,
             php_request_shutdown(t)
      PROVE  Live'
  BY <1>9
    DEF Live, Running, Shape, php_pcov_api_enabled, php_request_shutdown,
        startupVars
<1>10. CASE \/ PHP_MINIT_FUNCTION
         \/ zend_startup_extensions
         \/ PHP_MSHUTDOWN_FUNCTION
         \/ OtherHooks
         \/ OtherUnhooks
  BY <1>1, <1>10
    DEF PHP_MINIT_FUNCTION, zend_startup_extensions, PHP_MSHUTDOWN_FUNCTION,
        OtherHooks, OtherUnhooks, startupVars
<1>11. ASSUME NEW t \in threads,
             \/ php_pcov_compile_file(t)
             \/ php_pcov_trace(t)
             \/ php_pcov_start_internal(t)
             \/ (\E cleanup \in BOOLEAN : php_pcov_stop_internal(t, cleanup))
             \/ php_pcov_clear(t)
             \/ pcre_clean_cache(t)
      PROVE  Live'
  BY <1>1, <1>11
    DEF PHP_MINIT_FUNCTION, zend_startup_extensions, PHP_MSHUTDOWN_FUNCTION,
        OtherHooks, OtherUnhooks, php_pcov_compile_file, php_pcov_trace,
        php_pcov_start_internal, php_pcov_stop_internal, php_pcov_clear,
        pcre_clean_cache, startupVars
<1> QED
  BY <1>1, <1>2, <1>3, <1>4, <1>5, <1>6, <1>7, <1>8, <1>9, <1>10, <1>11
    DEF Next, Startup, Begin, Script, End

(* User code gets to the tables of a request that runs, if none runs late. *)
LEMMA ReadyStep ==
  ASSUME ~LateCode, Shape, Dormant, Live, TablesReady, [Next]_vars
  PROVE  TablesReady'
<1>1. ASSUME UNCHANGED <<fault>>
      PROVE  TablesReady'
  BY <1>1 DEF TablesReady
<1>2. CASE UNCHANGED vars
  BY <1>1, <1>2 DEF vars
<1>3. ASSUME NEW t \in threads,
             php_pcov_compile_file(t)
      PROVE  TablesReady'
  BY <1>3
    DEF TablesReady, Shape, UserCode, Live, Running, php_pcov_compile_file,
        UseTables, Dormant, Chain, Callee
<1>4. ASSUME NEW t \in threads,
             php_pcov_trace(t)
      PROVE  TablesReady'
  BY <1>4
    DEF TablesReady, Shape, UserCode, Live, Running, php_pcov_trace, UseTables,
        Dormant
<1>5. ASSUME NEW t \in threads, NEW cleanup \in BOOLEAN,
             php_pcov_stop_internal(t, cleanup)
      PROVE  TablesReady'
  BY <1>5
    DEF TablesReady, Shape, UserCode, Live, Running, php_pcov_stop_internal,
        php_pcov_clear_internal, UseTables
<1>6. ASSUME NEW t \in threads,
             php_pcov_clear(t)
      PROVE  TablesReady'
  BY <1>6
    DEF TablesReady, Shape, UserCode, Live, Running, php_pcov_clear,
        php_pcov_clear_internal, UseTables
<1>7. CASE \/ PHP_MINIT_FUNCTION
         \/ zend_startup_extensions
         \/ PHP_MSHUTDOWN_FUNCTION
         \/ OtherHooks
         \/ OtherUnhooks
  BY <1>1, <1>7
    DEF PHP_MINIT_FUNCTION, zend_startup_extensions, PHP_MSHUTDOWN_FUNCTION,
        OtherHooks, OtherUnhooks
<1>8. ASSUME NEW t \in threads,
             \/ PHP_RINIT_FUNCTION(t)
             \/ SaveCompiler(t)
             \/ HookCompiler(t)
             \/ php_pcov_start_internal(t)
             \/ pcre_clean_cache(t)
             \/ (\E unclean_shutdown \in BOOLEAN : PHP_RSHUTDOWN_FUNCTION(t, unclean_shutdown))
             \/ RestoreCompiler(t)
             \/ ForgetCompiler(t)
             \/ php_request_shutdown(t)
      PROVE  TablesReady'
  BY <1>1, <1>8
    DEF PHP_MINIT_FUNCTION, zend_startup_extensions, PHP_MSHUTDOWN_FUNCTION,
        OtherHooks, OtherUnhooks, PHP_RINIT_FUNCTION, SaveCompiler,
        HookCompiler, php_pcov_start_internal, pcre_clean_cache,
        PHP_RSHUTDOWN_FUNCTION, RestoreCompiler, ForgetCompiler,
        php_request_shutdown
<1> QED
  BY <1>1, <1>2, <1>3, <1>4, <1>5, <1>6, <1>7, <1>8
    DEF Next, Startup, Begin, Script, End

(* Without user code after RSHUTDOWN, nothing ever uses tables that are    *)
(* not there, on any number of threads and whatever ends the requests.     *)
THEOREM TablesAlwaysReady == ~LateCode => (Spec => []TablesReady)
<1> SUFFICES ASSUME ~LateCode
             PROVE  Spec => []TablesReady
  OBVIOUS
<1>1. Init => TablesInv
  BY ShapeInit DEF Init, TablesInv, Dormant, Live, TablesReady, Running
<1>2. TablesInv /\ [Next]_vars => TablesInv'
  BY ShapeStep, DormantStep, LiveStep, ReadyStep DEF TablesInv
<1>3. TablesInv => TablesReady
  BY DEF TablesInv
<1> QED
  BY <1>1, <1>2, <1>3, PTL DEF Spec

-----------------------------------------------------------------------------
(* Records.                                                                *)

(* Records are made while tracing is on, which only start switches on, and *)
(* are forgotten when the next request begins.                             *)
LEMMA RecordedStep ==
  ASSUME Shape, Recorded, [Next]_vars
  PROVE  Recorded'
<1>1. ASSUME UNCHANGED <<config, pc, enabled, hits, asked, begun, leftOn>>
      PROVE  Recorded'
  BY <1>1 DEF Recorded, Running, php_pcov_api_enabled
<1>2. CASE UNCHANGED vars
  BY <1>1, <1>2 DEF vars, startupVars, historyVars
<1>3. ASSUME NEW t \in threads,
             PHP_RINIT_FUNCTION(t)
      PROVE  Recorded'
  BY <1>3
    DEF Recorded, Running, Shape, php_pcov_api_enabled, PHP_RINIT_FUNCTION,
        ForgetRecords, startupVars, historyVars
<1>4. ASSUME NEW t \in threads,
             SaveCompiler(t)
      PROVE  Recorded'
  BY <1>4
    DEF Recorded, Running, Shape, php_pcov_api_enabled, SaveCompiler,
        startupVars, historyVars
<1>5. ASSUME NEW t \in threads,
             HookCompiler(t)
      PROVE  Recorded'
  BY <1>5
    DEF Recorded, Running, Shape, php_pcov_api_enabled, HookCompiler,
        startupVars, historyVars
<1>6. ASSUME NEW t \in threads,
             php_pcov_trace(t)
      PROVE  Recorded'
  BY <1>6
    DEF Recorded, Running, Shape, php_pcov_api_enabled, php_pcov_trace,
        startupVars, historyVars
<1>7. ASSUME NEW t \in threads,
             php_pcov_start_internal(t)
      PROVE  Recorded'
  BY <1>7
    DEF Recorded, Running, Shape, php_pcov_api_enabled,
        php_pcov_start_internal, startupVars, historyVars
<1>8. ASSUME NEW t \in threads, NEW cleanup \in BOOLEAN,
             php_pcov_stop_internal(t, cleanup)
      PROVE  Recorded'
  <2>1. ~enabled'[t] /\ ~asked'[t]
    BY <1>8 DEF php_pcov_stop_internal, Disabled, Recorded, Shape
  <2>2. \A u \in Threads : hits'[u] \subseteq hits[u]
    BY <1>8 DEF php_pcov_stop_internal, php_pcov_clear_internal, Shape
  <2>3. \A u \in Threads \ {t} : /\ enabled'[u] <=> enabled[u]
                                 /\ asked'[u] <=> asked[u]
    BY <1>8 DEF php_pcov_stop_internal, Disabled, Shape
  <2>4. UNCHANGED <<config, pc, begun, leftOn>>
    BY <1>8 DEF php_pcov_stop_internal, startupVars
  <2> QED
    BY <1>8, <2>1, <2>2, <2>3, <2>4 DEF Recorded, Running, php_pcov_api_enabled
<1>9. ASSUME NEW t \in threads,
             php_pcov_clear(t)
      PROVE  Recorded'
  BY <1>9
    DEF Recorded, Running, Shape, php_pcov_api_enabled, php_pcov_clear,
        php_pcov_clear_internal, startupVars, historyVars
<1>10. ASSUME NEW t \in threads, NEW unclean_shutdown \in BOOLEAN,
             PHP_RSHUTDOWN_FUNCTION(t, unclean_shutdown)
      PROVE  Recorded'
  BY <1>10
    DEF Recorded, Running, Shape, php_pcov_api_enabled, PHP_RSHUTDOWN_FUNCTION,
        Unhooking, startupVars, historyVars
<1>11. ASSUME NEW t \in threads,
             RestoreCompiler(t)
      PROVE  Recorded'
  BY <1>11
    DEF Recorded, Running, Shape, php_pcov_api_enabled, RestoreCompiler,
        startupVars, historyVars
<1>12. ASSUME NEW t \in threads,
             ForgetCompiler(t)
      PROVE  Recorded'
  BY <1>12
    DEF Recorded, Running, Shape, php_pcov_api_enabled, ForgetCompiler,
        startupVars, historyVars
<1>13. ASSUME NEW t \in threads,
             php_request_shutdown(t)
      PROVE  Recorded'
  BY <1>13
    DEF Recorded, Running, Shape, php_pcov_api_enabled, php_request_shutdown,
        startupVars, historyVars
<1>14. CASE \/ PHP_MINIT_FUNCTION
         \/ zend_startup_extensions
         \/ PHP_MSHUTDOWN_FUNCTION
         \/ OtherHooks
         \/ OtherUnhooks
  BY <1>1, <1>14
    DEF PHP_MINIT_FUNCTION, zend_startup_extensions, PHP_MSHUTDOWN_FUNCTION,
        OtherHooks, OtherUnhooks, startupVars, historyVars
<1>15. ASSUME NEW t \in threads,
             \/ php_pcov_compile_file(t)
             \/ pcre_clean_cache(t)
      PROVE  Recorded'
  BY <1>1, <1>15
    DEF PHP_MINIT_FUNCTION, zend_startup_extensions, PHP_MSHUTDOWN_FUNCTION,
        OtherHooks, OtherUnhooks, php_pcov_compile_file, pcre_clean_cache,
        startupVars, historyVars
<1> QED
  BY <1>1, <1>2, <1>3, <1>4, <1>5, <1>6, <1>7, <1>8, <1>9, <1>10, <1>11, <1>12,
     <1>13, <1>14, <1>15 DEF Next, Startup, Begin, Script, End

(* Tracing and what it has recorded.                                       *)
LEMMA RecordsInduction == Spec => []RecordsInv
<1>1. Init => RecordsInv
  BY ShapeInit DEF Init, RecordsInv, Recorded, Running
<1>2. RecordsInv /\ [Next]_vars => RecordsInv'
  BY ShapeStep, RecordedStep DEF RecordsInv
<1> QED
  BY <1>1, <1>2, PTL DEF Spec

(* A request never reads a record that an earlier one has left, whose      *)
(* memory the engine has taken back.                                       *)
THEOREM HitsAreOwn == Spec => []HitsOwn
<1>1. RecordsInv => HitsOwn
  BY DEF RecordsInv, Recorded, Shape, HitsOwn
<1> QED
  BY <1>1, RecordsInduction, PTL

(* No record without a start: the request's own, or one that an earlier    *)
(* request of the thread never took back.                                  *)
THEOREM RecordsAreAsked == Spec => []RecordsAsked
<1>1. RecordsInv => RecordsAsked
  BY DEF RecordsInv, Recorded, Shape, RecordsAsked
<1> QED
  BY <1>1, RecordsInduction, PTL

-----------------------------------------------------------------------------
(* The compile hook.                                                       *)

(* One thread goes from one of the combinations to the next, whoever else  *)
(* hooks the compiler between its steps.                                   *)
LEMMA HooksStep ==
  ASSUME Shape, Dormant, Hooks, [Next]_vars
  PROVE  Hooks'
<1>1. ASSUME UNCHANGED <<config, threads, compile_file, saved_compile,
                          other_saved, pc>>
      PROVE  Hooks'
  BY <1>1 DEF Hooks, OneThread, Hooked, PcovOnTop, NoPcov, php_pcov_api_enabled
<1>2. CASE UNCHANGED vars
  BY <1>1, <1>2 DEF vars, startupVars, hookVars
<1>3. CASE OtherHooks
  BY <1>3
    DEF Hooks, OneThread, Hooked, PcovOnTop, NoPcov, php_pcov_api_enabled,
        Shape, OtherHooks, Settled, startupVars, hookVars
<1>4. CASE OtherUnhooks
  BY <1>4
    DEF Hooks, OneThread, Hooked, PcovOnTop, NoPcov, php_pcov_api_enabled,
        Shape, OtherUnhooks, Settled, startupVars, hookVars
<1>5. ASSUME NEW t \in threads,
             PHP_RINIT_FUNCTION(t)
      PROVE  Hooks'
  BY <1>5
    DEF Hooks, OneThread, Hooked, PcovOnTop, NoPcov, php_pcov_api_enabled,
        Shape, PHP_RINIT_FUNCTION, Dormant, startupVars, hookVars
<1>6. ASSUME NEW t \in threads,
             SaveCompiler(t)
      PROVE  Hooks'
  BY <1>6
    DEF Hooks, OneThread, Hooked, PcovOnTop, NoPcov, php_pcov_api_enabled,
        Shape, SaveCompiler, Dormant, startupVars, hookVars
<1>7. ASSUME NEW t \in threads,
             HookCompiler(t)
      PROVE  Hooks'
  BY <1>7
    DEF Hooks, OneThread, Hooked, PcovOnTop, NoPcov, php_pcov_api_enabled,
        Shape, HookCompiler, Dormant, startupVars, hookVars
<1>8. ASSUME NEW t \in threads, NEW unclean_shutdown \in BOOLEAN,
             PHP_RSHUTDOWN_FUNCTION(t, unclean_shutdown)
      PROVE  Hooks'
  BY <1>8
    DEF Hooks, OneThread, Hooked, PcovOnTop, NoPcov, php_pcov_api_enabled,
        Shape, PHP_RSHUTDOWN_FUNCTION, Unhooking, Dormant, startupVars,
        hookVars
<1>9. ASSUME NEW t \in threads,
             RestoreCompiler(t)
      PROVE  Hooks'
  BY <1>9
    DEF Hooks, OneThread, Hooked, PcovOnTop, NoPcov, php_pcov_api_enabled,
        Shape, RestoreCompiler, Dormant, startupVars, hookVars
<1>10. ASSUME NEW t \in threads,
             ForgetCompiler(t)
      PROVE  Hooks'
  BY <1>10
    DEF Hooks, OneThread, Hooked, PcovOnTop, NoPcov, php_pcov_api_enabled,
        Shape, ForgetCompiler, Dormant, startupVars, hookVars
<1>11. ASSUME NEW t \in threads,
             php_request_shutdown(t)
      PROVE  Hooks'
  BY <1>11
    DEF Hooks, OneThread, Hooked, PcovOnTop, NoPcov, php_pcov_api_enabled,
        Shape, php_request_shutdown, startupVars, hookVars
<1>12. CASE \/ PHP_MINIT_FUNCTION
         \/ zend_startup_extensions
         \/ PHP_MSHUTDOWN_FUNCTION
  BY <1>1, <1>12
    DEF PHP_MINIT_FUNCTION, zend_startup_extensions, PHP_MSHUTDOWN_FUNCTION,
        startupVars, hookVars
<1>13. ASSUME NEW t \in threads,
             \/ php_pcov_compile_file(t)
             \/ php_pcov_trace(t)
             \/ php_pcov_start_internal(t)
             \/ (\E cleanup \in BOOLEAN : php_pcov_stop_internal(t, cleanup))
             \/ php_pcov_clear(t)
             \/ pcre_clean_cache(t)
      PROVE  Hooks'
  BY <1>1, <1>13
    DEF PHP_MINIT_FUNCTION, zend_startup_extensions, PHP_MSHUTDOWN_FUNCTION,
        php_pcov_compile_file, php_pcov_trace, php_pcov_start_internal,
        php_pcov_stop_internal, php_pcov_clear, pcre_clean_cache, startupVars,
        hookVars
<1> QED
  BY <1>1, <1>2, <1>3, <1>4, <1>5, <1>6, <1>7, <1>8, <1>9, <1>10, <1>11, <1>12,
     <1>13 DEF Next, Startup, Begin, Script, End

(* In none of the combinations does a chain end in NULL or go round.       *)
LEMMA FaultStep ==
  ASSUME Shape, Hooks, OneThread => fault # "hook", [Next]_vars
  PROVE  (OneThread => fault # "hook")'
<1>1. ASSUME UNCHANGED <<threads, fault>>
      PROVE  (OneThread => fault # "hook")'
  BY <1>1 DEF OneThread
<1>2. CASE UNCHANGED vars
  BY <1>1, <1>2 DEF vars, startupVars
<1>3. ASSUME NEW t \in threads,
             php_pcov_compile_file(t)
      PROVE  (OneThread => fault # "hook")'
  BY <1>3
    DEF OneThread, UserCode, php_pcov_compile_file, UseTables, Hooks, Hooked,
        PcovOnTop, NoPcov, Callee, Shape, startupVars
<1>4. ASSUME NEW t \in threads,
             php_pcov_trace(t)
      PROVE  (OneThread => fault # "hook")'
  BY <1>4 DEF OneThread, UserCode, php_pcov_trace, UseTables, startupVars
<1>5. ASSUME NEW t \in threads, NEW cleanup \in BOOLEAN,
             php_pcov_stop_internal(t, cleanup)
      PROVE  (OneThread => fault # "hook")'
  BY <1>5
    DEF OneThread, UserCode, php_pcov_stop_internal, php_pcov_clear_internal,
        UseTables, startupVars
<1>6. ASSUME NEW t \in threads,
             php_pcov_clear(t)
      PROVE  (OneThread => fault # "hook")'
  BY <1>6
    DEF OneThread, UserCode, php_pcov_clear, php_pcov_clear_internal,
        UseTables, startupVars
<1>7. CASE \/ PHP_MINIT_FUNCTION
         \/ zend_startup_extensions
         \/ PHP_MSHUTDOWN_FUNCTION
         \/ OtherHooks
         \/ OtherUnhooks
  BY <1>1, <1>7
    DEF PHP_MINIT_FUNCTION, zend_startup_extensions, PHP_MSHUTDOWN_FUNCTION,
        OtherHooks, OtherUnhooks, startupVars
<1>8. ASSUME NEW t \in threads,
             \/ PHP_RINIT_FUNCTION(t)
             \/ SaveCompiler(t)
             \/ HookCompiler(t)
             \/ php_pcov_start_internal(t)
             \/ pcre_clean_cache(t)
             \/ (\E unclean_shutdown \in BOOLEAN : PHP_RSHUTDOWN_FUNCTION(t, unclean_shutdown))
             \/ RestoreCompiler(t)
             \/ ForgetCompiler(t)
             \/ php_request_shutdown(t)
      PROVE  (OneThread => fault # "hook")'
  BY <1>1, <1>8
    DEF PHP_MINIT_FUNCTION, zend_startup_extensions, PHP_MSHUTDOWN_FUNCTION,
        OtherHooks, OtherUnhooks, PHP_RINIT_FUNCTION, SaveCompiler,
        HookCompiler, php_pcov_start_internal, pcre_clean_cache,
        PHP_RSHUTDOWN_FUNCTION, RestoreCompiler, ForgetCompiler,
        php_request_shutdown, startupVars
<1> QED
  BY <1>1, <1>2, <1>3, <1>4, <1>5, <1>6, <1>7, <1>8
    DEF Next, Startup, Begin, Script, End

(* Whatever ended the earlier requests of a single thread and wherever     *)
(* another extension hooks, files are compiled through pcov, by the engine.*)
THEOREM HookChainHolds == Spec => []HookChain
<1>1. Init => ChainInv
  BY ShapeInit DEF Init, ChainInv, Dormant, Hooks, NoPcov
<1>2. ChainInv /\ [Next]_vars => ChainInv'
  BY ShapeStep, DormantStep, HooksStep, FaultStep DEF ChainInv
<1>3. ChainInv => HookChain
  BY DEF ChainInv, Hooks, Hooked, PcovOnTop, HookChain, Running, Chain, Callee
<1> QED
  BY <1>1, <1>2, <1>3, PTL DEF Spec

-----------------------------------------------------------------------------
(* The exclude pattern.                                                    *)

(* A request counts its pattern once and takes that count back, so that    *)
(* what the cache drops is nobody's.                                       *)
LEMMA ExcludesStep ==
  ASSUME Uniform, Shape, Excludes, [Next]_vars
  PROVE  Excludes'
<1>1. ASSUME UNCHANGED <<config, pc, exclude, pattern, cached, refs>>
      PROVE  Excludes'
  BY <1>1 DEF Excludes, Running, php_pcov_api_enabled
<1>2. CASE UNCHANGED vars
  BY <1>1, <1>2 DEF vars, startupVars, excludeVars
<1>3. ASSUME NEW t \in threads,
             PHP_RINIT_FUNCTION(t)
      PROVE  Excludes'
  <2> PICK p \in config.excludes :
        /\ pattern' = [pattern EXCEPT ![t] = p]
        /\ IF php_pcov_api_enabled THEN php_pcov_setup_exclude(t, p)
           ELSE UNCHANGED <<exclude, cached, refs>>
    BY <1>3 DEF PHP_RINIT_FUNCTION
  <2>1. UNCHANGED config /\ \A u \in Threads \ {t} : Running(u)' => Running(u)
    BY <1>3 DEF PHP_RINIT_FUNCTION, Running, php_pcov_api_enabled, startupVars, Shape
  <2>2. p \in Regexes \union {Unset, Invalid} /\ (p = Unset => config.excludes = {Unset})
    BY RequestAssumption DEF Shape, Configs, Uniform
  <2>3. /\ pattern' \in [Threads -> Regexes \union {Unset, Invalid}] /\ pattern'[t] = p
        /\ \A u \in Threads \ {t} : pattern'[u] = pattern[u]
    BY <2>2 DEF Excludes, Shape
  <2>4. CASE ~php_pcov_api_enabled
    <3>1. ~Running(t)'
      BY <2>1, <2>4 DEF Running, php_pcov_api_enabled
    <3> QED
      BY <2>1, <2>3, <2>4, <3>1 DEF Excludes
  <2>5. CASE php_pcov_api_enabled /\ p = Unset
    <3>1. UNCHANGED <<exclude, cached, refs>>
      BY <2>5, RequestAssumption DEF php_pcov_setup_exclude
    <3> QED
      BY <2>1, <2>2, <2>3, <2>5, <3>1, RequestAssumption DEF Excludes, Shape
  <2>6. CASE php_pcov_api_enabled /\ p = Invalid
    <3>1. exclude' = [exclude EXCEPT ![t] = NULL] /\ UNCHANGED <<cached, refs>>
      BY <2>6, RequestAssumption DEF php_pcov_setup_exclude
    <3> QED
      BY <2>1, <2>3, <2>6, <3>1, RequestAssumption DEF Excludes, Shape
  <2>7. CASE php_pcov_api_enabled /\ p \in Regexes
    <3>1. /\ refs[t][p] < MaxRefs
          /\ exclude' = [exclude EXCEPT ![t] = p]
          /\ cached'  = [cached EXCEPT ![t] = @ \union {p}]
          /\ refs'    = [refs EXCEPT ![t][p] = @ + 1]
      BY <2>7, RequestAssumption DEF php_pcov_setup_exclude
    <3>2. /\ refs'[t][p] > 0
          /\ refs' \in [Threads -> [Regexes -> 0 .. MaxRefs]]
          /\ \A u \in Threads : \A r \in Regexes :
               u # t \/ r # p => refs'[u][r] = refs[u][r]
      BY <2>7, <3>1, RequestAssumption DEF Excludes, Shape
    <3>3. /\ cached' \in [Threads -> SUBSET Regexes]
          /\ cached'[t] = cached[t] \union {p}
          /\ \A u \in Threads \ {t} : cached'[u] = cached[u]
      BY <2>7, <3>1 DEF Excludes, Shape
    <3>4. /\ exclude' \in [Threads -> Regexes \union {NULL}]
          /\ exclude'[t] = p
          /\ \A u \in Threads \ {t} : exclude'[u] = exclude[u]
      BY <2>7, <3>1 DEF Excludes, Shape
    <3>5. \A u \in Threads : \A r \in Regexes \ cached'[u] : refs'[u][r] = 0
      <4> SUFFICES ASSUME NEW u \in Threads, NEW r \in Regexes \ cached'[u]
                   PROVE  refs'[u][r] = 0
        OBVIOUS
      <4>1. r \in Regexes \ cached[u] /\ (u # t \/ r # p)
        BY <3>3
      <4> QED
        BY <4>1, <3>2 DEF Excludes
    <3>6. config.excludes # {Unset}
      BY <2>7, RequestAssumption
    <3>7. \A u \in Threads \ {t} : Running(u)' =>
            /\ exclude'[u] = IF pattern'[u] \in Regexes THEN pattern'[u] ELSE NULL
            /\ exclude'[u] # NULL => refs'[u][exclude'[u]] > 0
      BY <2>1, <2>3, <3>2, <3>4 DEF Excludes
    <3> QED
      BY <2>1, <2>3, <2>7, <3>2, <3>3, <3>4, <3>5, <3>6, <3>7 DEF Excludes
  <2> QED
    BY <2>2, <2>4, <2>5, <2>6, <2>7
<1>4. ASSUME NEW t \in threads,
             SaveCompiler(t)
      PROVE  Excludes'
  BY <1>4
    DEF Excludes, Running, php_pcov_api_enabled, Shape, SaveCompiler,
        startupVars, excludeVars
<1>5. ASSUME NEW t \in threads,
             HookCompiler(t)
      PROVE  Excludes'
  BY <1>5
    DEF Excludes, Running, php_pcov_api_enabled, Shape, HookCompiler,
        startupVars, excludeVars
<1>6. ASSUME NEW t \in threads,
             pcre_clean_cache(t)
      PROVE  Excludes'
  <2> SUFFICES ASSUME NEW r \in cached[t], refs[t][r] = 0,
                      cached' = [cached EXCEPT ![t] = @ \ {r}]
               PROVE  Excludes'
    BY <1>6 DEF pcre_clean_cache
  <2>1. UNCHANGED <<config, pc, exclude, pattern, refs>>
    BY <1>6 DEF pcre_clean_cache, startupVars
  <2>2. /\ cached' \in [Threads -> SUBSET Regexes]
        /\ \A u \in Threads : \A q \in Regexes \ cached'[u] : refs[u][q] = 0
    BY DEF Excludes, Shape
  <2> QED
    BY <2>1, <2>2 DEF Excludes, Running, php_pcov_api_enabled
<1>7. ASSUME NEW t \in threads, NEW unclean_shutdown \in BOOLEAN,
             PHP_RSHUTDOWN_FUNCTION(t, unclean_shutdown)
      PROVE  Excludes'
  <2>1. UNCHANGED <<config, exclude, pattern, cached>> /\ pc \in [Threads -> Stages]
    BY <1>7 DEF PHP_RSHUTDOWN_FUNCTION, startupVars, Shape
  <2>2. \A u \in Threads : Running(u)' => Running(u) /\ u # t
    BY <1>7 DEF PHP_RSHUTDOWN_FUNCTION, Unhooking, Running, php_pcov_api_enabled,
                startupVars, Shape
  <2>3. CASE UNCHANGED refs
    BY <2>1, <2>2, <2>3 DEF Excludes
  <2>4. CASE /\ Running(t) /\ exclude[t] # NULL
             /\ refs' = [refs EXCEPT ![t][exclude[t]] = @ - 1]
    <3>1. exclude[t] \in Regexes /\ refs[t][exclude[t]] \in 1 .. MaxRefs
      BY <2>4, RequestAssumption DEF Excludes, Shape
    <3>2. /\ refs' \in [Threads -> [Regexes -> 0 .. MaxRefs]]
          /\ \A u \in Threads : \A r \in Regexes :
               /\ u # t => refs'[u][r] = refs[u][r]
               /\ refs[u][r] = 0 => refs'[u][r] = 0
      BY <2>4, <3>1, RequestAssumption DEF Excludes, Shape
    <3> QED
      BY <2>1, <2>2, <3>2 DEF Excludes
  <2> QED
    BY <1>7, <2>3, <2>4 DEF PHP_RSHUTDOWN_FUNCTION, Running
<1>8. ASSUME NEW t \in threads,
             RestoreCompiler(t)
      PROVE  Excludes'
  BY <1>8
    DEF Excludes, Running, php_pcov_api_enabled, Shape, RestoreCompiler,
        startupVars, excludeVars
<1>9. ASSUME NEW t \in threads,
             ForgetCompiler(t)
      PROVE  Excludes'
  BY <1>9
    DEF Excludes, Running, php_pcov_api_enabled, Shape, ForgetCompiler,
        startupVars, excludeVars
<1>10. ASSUME NEW t \in threads,
             php_request_shutdown(t)
      PROVE  Excludes'
  BY <1>10
    DEF Excludes, Running, php_pcov_api_enabled, Shape, php_request_shutdown,
        startupVars, excludeVars
<1>11. CASE \/ PHP_MINIT_FUNCTION
         \/ zend_startup_extensions
         \/ PHP_MSHUTDOWN_FUNCTION
         \/ OtherHooks
         \/ OtherUnhooks
  BY <1>1, <1>11
    DEF PHP_MINIT_FUNCTION, zend_startup_extensions, PHP_MSHUTDOWN_FUNCTION,
        OtherHooks, OtherUnhooks, startupVars, excludeVars
<1>12. ASSUME NEW t \in threads,
             \/ php_pcov_compile_file(t)
             \/ php_pcov_trace(t)
             \/ php_pcov_start_internal(t)
             \/ (\E cleanup \in BOOLEAN : php_pcov_stop_internal(t, cleanup))
             \/ php_pcov_clear(t)
      PROVE  Excludes'
  BY <1>1, <1>12
    DEF PHP_MINIT_FUNCTION, zend_startup_extensions, PHP_MSHUTDOWN_FUNCTION,
        OtherHooks, OtherUnhooks, php_pcov_compile_file, php_pcov_trace,
        php_pcov_start_internal, php_pcov_stop_internal, php_pcov_clear,
        startupVars, excludeVars
<1> QED
  BY <1>1, <1>2, <1>3, <1>4, <1>5, <1>6, <1>7, <1>8, <1>9, <1>10, <1>11, <1>12
    DEF Next, Startup, Begin, Script, End

(* Types, and the counts of the pattern of a request that runs.            *)
LEMMA ExcludeInduction == Uniform => (Spec => []ExcludeInv)
<1> SUFFICES ASSUME Uniform
             PROVE  Spec => []ExcludeInv
  OBVIOUS
<1>1. Init => ExcludeInv
  <2> SUFFICES ASSUME Init
               PROVE  Excludes
    BY ShapeInit DEF ExcludeInv
  <2>1. [r \in Regexes |-> 0] \in [Regexes -> 0 .. MaxRefs]
    BY RequestAssumption
  <2>2. refs \in [Threads -> [Regexes -> 0 .. MaxRefs]]
    BY <2>1 DEF Init
  <2>3. \A t \in Threads : \A r \in Regexes : refs[t][r] = 0
    BY DEF Init
  <2>4. cached \in [Threads -> SUBSET Regexes]
    BY DEF Init
  <2>5. pattern \in [Threads -> Regexes \union {Unset, Invalid}]
    BY DEF Init
  <2>6. /\ exclude \in [Threads -> Regexes \union {NULL}]
        /\ \A t \in Threads : exclude[t] = NULL /\ ~Running(t)
    BY DEF Init, Running
  <2> QED
    BY <2>2, <2>3, <2>4, <2>5, <2>6 DEF Excludes
<1>2. ExcludeInv /\ [Next]_vars => ExcludeInv'
  BY ShapeStep, ExcludesStep DEF ExcludeInv
<1> QED
  BY <1>1, <1>2, PTL DEF Spec

(* If the requests of a process all set pcov.exclude or all leave it, each *)
(* filters by its own pattern, and never by one the cache has freed.       *)
THEOREM ExcludeIsOwn == Uniform => (Spec => []ExcludeOwn)
<1>1. ExcludeInv => ExcludeOwn
  BY DEF ExcludeInv, Excludes, Shape, ExcludeOwn
<1> QED
  BY <1>1, ExcludeInduction, PTL

(* Under the same condition no reference count runs below zero or counts   *)
(* what the cache has dropped, and every variable has its type.            *)
THEOREM TypeCorrect == Uniform => (Spec => []TypeOK)
<1>1. ExcludeInv => TypeOK
  BY DEF ExcludeInv, Excludes, Shape, TypeOK
<1> QED
  BY <1>1, ExcludeInduction, PTL

================================================================================
