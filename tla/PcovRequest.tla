------------------------------ MODULE PcovRequest ------------------------------
(***************************************************************************)
(* The life of pcov in one PHP process: startup next to Xdebug, requests   *)
(* one after another on every thread, and what each of them finds of the   *)
(* one before.  PCG(x) is a function of the thread; what the threads of a  *)
(* ZTS build share is the engine's two function pointers, pcov's two saved *)
(* copies and the module registry.                                         *)
(*                                                                         *)
(* RINIT and RSHUTDOWN are one step each but for the lines that read and   *)
(* write the shared compile hook, which are a step each.  The tables are   *)
(* one value: zeroed by GINIT, live from RINIT on, gone once destroyed or  *)
(* once the engine has dropped the request's heap.                         *)
(***************************************************************************)
EXTENDS Integers

CONSTANTS
  Threads,         \* threads a ZTS build may serve requests on
  Regexes,         \* valid values of pcov.exclude
  Unset, Invalid,  \* pcov.exclude: empty, or no regular expression
  NULL,            \* PCG(exclude) without a pattern
  ExcludeChoices,  \* sets of values of pcov.exclude the requests may come with
  LateCode,        \* user code may run after RSHUTDOWN (a session handler)
  MaxRefs          \* bound: references leaked to one pattern

ASSUME RequestAssumption ==
  /\ Threads # {}
  /\ {Unset, Invalid, NULL} \intersect Regexes = {}
  /\ Unset # Invalid
  /\ ExcludeChoices \subseteq SUBSET (Regexes \union {Unset, Invalid})
  /\ LateCode \in BOOLEAN
  /\ MaxRefs \in Nat

VARIABLES
  config,         \* ini, environment and Xdebug, fixed for the process
  threads,        \* threads of the process, one when it is not a ZTS build
  phase,          \* "startup", "extensions", "serving", "down"
  registry,       \* module_registry["xdebug"]: "none", "real" or pcov's "fake"
  compat_active,  \* pcov_xdebug_compat_is_active
  execute_ex,     \* zend_execute_ex: "engine" or "pcov"
  compile_file,   \* zend_compile_file: "engine", "pcov", "other" or "null"
  saved_compile,  \* zend_compile_file_function, "null" when NULL
  other_saved,    \* the hook that another extension saved, "null" without one
  pc,             \* where each thread is in its request
  enabled, mode, exclude,   \* PCG(enabled), PCG(mode), PCG(exclude)
  tables,         \* PCG(files) .. PCG(mem): "zeroed", "live" or "gone"
  hits,           \* whose records are on the list PCG(start): "own", "old"
  pattern,        \* pcov.exclude of the request
  cached, refs,   \* the thread's pcre cache and its reference counts
  asked,          \* history: the last call of start or stop was start
  begun,          \* history: this request has called start
  leftOn,         \* history: asked when the last request ended
  fault           \* how the process died: "none", "tables", "hook"

startupVars == <<config, threads, phase, registry, compat_active, execute_ex>>
hookVars    == <<compile_file, saved_compile, other_saved>>
excludeVars == <<exclude, pattern, cached, refs>>
historyVars == <<asked, begun, leftOn>>
vars == <<startupVars, hookVars, pc, enabled, mode, tables, hits, excludeVars,
          historyVars, fault>>

Configs ==
  [enabled : BOOLEAN, PCOV_ENABLED : {"unset", "yes", "no"},
   mode : {"line", "branch"}, PCOV_MODE : {"unset", "line", "branch"},
   xdebug : {"absent", "module", "zend_extension"}, excludes : ExcludeChoices]

-----------------------------------------------------------------------------
(* Configuration.                                                          *)

(* The environment decides, and only when it is silent the ini file.       *)
php_pcov_api_enabled ==
  config.PCOV_ENABLED = "yes" \/ (config.PCOV_ENABLED = "unset" /\ config.enabled)

BranchAsked ==
  config.PCOV_MODE = "branch" \/ (config.PCOV_MODE = "unset" /\ config.mode = "branch")

(* Mutant: whatever is asked for is done, Xdebug or not.                   *)
ModeAsAsked == IF BranchAsked THEN "branch" ELSE "line"

(* A module named xdebug that is not the fake one has branch coverage.     *)
php_pcov_resolve_mode ==
  IF BranchAsked /\ (registry = "none" \/ compat_active) THEN "branch" ELSE "line"

(* Mutant: only the modules are asked whether Xdebug is there.             *)
ShimUnlessModule ==
  php_pcov_resolve_mode = "branch" /\ php_pcov_api_enabled /\ registry = "none"

(* Whether php_pcov_xdebug_compat_minit registers the fake module.         *)
RegistersShim ==
  /\ php_pcov_resolve_mode = "branch" /\ php_pcov_api_enabled
  /\ registry = "none"
  /\ config.xdebug # "zend_extension"

PHP_MINIT_FUNCTION ==
  /\ phase = "startup"
  /\ phase' = "extensions"
  /\ registry'      = IF RegistersShim THEN "fake" ELSE registry
  /\ compat_active' = RegistersShim
  /\ execute_ex'    = IF php_pcov_api_enabled THEN "pcov" ELSE execute_ex
  /\ UNCHANGED <<config, threads, hookVars, pc, enabled, mode, tables, hits,
                 excludeVars, historyVars, fault>>

(* A Zend extension registers its module when all MINITs have run, and is  *)
(* refused if the name is taken.                                           *)
zend_startup_extensions ==
  /\ phase = "extensions"
  /\ phase' = "serving"
  /\ registry' = IF config.xdebug = "zend_extension" /\ registry = "none"
                 THEN "real" ELSE registry
  /\ UNCHANGED <<config, threads, compat_active, execute_ex, hookVars, pc, enabled,
                 mode, tables, hits, excludeVars, historyVars, fault>>

PHP_MSHUTDOWN_FUNCTION ==
  /\ phase = "serving" /\ \A t \in threads : pc[t] = "idle"
  /\ phase' = "down"
  /\ execute_ex' = IF php_pcov_api_enabled THEN "engine" ELSE execute_ex
  /\ UNCHANGED <<config, threads, registry, compat_active, hookVars, pc, enabled,
                 mode, tables, hits, excludeVars, historyVars, fault>>

-----------------------------------------------------------------------------
(* A request begins.                                                       *)

(* Mutant: a pattern that does not compile leaves the old one in place.    *)
ExcludeKept(t, p) ==
  \/ p \in {Unset, Invalid} /\ UNCHANGED <<exclude, cached, refs>>
  \/ /\ p \in Regexes /\ refs[t][p] < MaxRefs
     /\ exclude' = [exclude EXCEPT ![t] = p]
     /\ cached'  = [cached EXCEPT ![t] = @ \union {p}]
     /\ refs'    = [refs EXCEPT ![t][p] = @ + 1]

(* Mutant: the compiled pattern is used without holding a reference.       *)
ExcludeBorrowed(t, p) ==
  \/ p = Unset /\ UNCHANGED <<exclude, cached, refs>>
  \/ /\ p = Invalid
     /\ exclude' = [exclude EXCEPT ![t] = NULL]
     /\ UNCHANGED <<cached, refs>>
  \/ /\ p \in Regexes
     /\ exclude' = [exclude EXCEPT ![t] = p]
     /\ cached'  = [cached EXCEPT ![t] = @ \union {p}]
     /\ UNCHANGED refs

(* Without a pattern PCG(exclude) keeps what it had.                       *)
php_pcov_setup_exclude(t, p) ==
  \/ p = Unset /\ UNCHANGED <<exclude, cached, refs>>
  \/ /\ p = Invalid
     /\ exclude' = [exclude EXCEPT ![t] = NULL]
     /\ UNCHANGED <<cached, refs>>
  \/ /\ p \in Regexes /\ refs[t][p] < MaxRefs
     /\ exclude' = [exclude EXCEPT ![t] = p]
     /\ cached'  = [cached EXCEPT ![t] = @ \union {p}]
     /\ refs'    = [refs EXCEPT ![t][p] = @ + 1]

(* Mutant: a request that finds the hook installed, as after an unclean    *)
(* end, takes its tables for initialized.                                  *)
TablesIfUnhooked(t) ==
  tables' = IF saved_compile = "null" THEN [tables EXCEPT ![t] = "live"] ELSE tables

InitTables(t) == tables' = [tables EXCEPT ![t] = "live"]

(* Mutant: the list still begins at the last record of the request before. *)
KeepRecords(t) == UNCHANGED hits

ForgetRecords(t) == hits' = [hits EXCEPT ![t] = {}]

PHP_RINIT_FUNCTION(t) ==
  /\ phase = "serving" /\ pc[t] = "idle"
  /\ \E p \in config.excludes :
       /\ pattern' = [pattern EXCEPT ![t] = p]
       /\ IF php_pcov_api_enabled
          THEN /\ php_pcov_setup_exclude(t, p)
               /\ InitTables(t)
               /\ ForgetRecords(t)
               /\ mode' = [mode EXCEPT ![t] = php_pcov_resolve_mode]
               /\ pc'   = [pc EXCEPT ![t] = IF saved_compile = "null" THEN "save" ELSE "script"]
          ELSE /\ pc' = [pc EXCEPT ![t] = "script"]
               /\ UNCHANGED <<tables, hits, mode, exclude, cached, refs>>
  /\ UNCHANGED <<startupVars, hookVars, enabled, historyVars, fault>>

(* The two lines behind "if (!zend_compile_file_function)".                *)
SaveCompiler(t) ==
  /\ pc[t] = "save"
  /\ saved_compile' = compile_file
  /\ pc' = [pc EXCEPT ![t] = "hook"]
  /\ UNCHANGED <<startupVars, compile_file, other_saved, enabled, mode, tables,
                 hits, excludeVars, historyVars, fault>>

HookCompiler(t) ==
  /\ pc[t] = "hook"
  /\ compile_file' = "pcov"
  /\ pc' = [pc EXCEPT ![t] = "script"]
  /\ UNCHANGED <<startupVars, saved_compile, other_saved, enabled, mode, tables,
                 hits, excludeVars, historyVars, fault>>

-----------------------------------------------------------------------------
(* User code runs.                                                         *)

UserCode(t) == pc[t] = "script" \/ (LateCode /\ pc[t] = "flushing")

Callee(hook) ==
  CASE hook = "pcov"  -> saved_compile
    [] hook = "other" -> other_saved
    [] OTHER          -> hook

(* zend_compile_file calls these, one out of the other.                    *)
Chain == {compile_file, Callee(compile_file), Callee(Callee(compile_file))}

(* What a use of the thread's tables comes to.                             *)
UseTables(t) == fault' = IF tables[t] = "live" THEN fault ELSE "tables"

(* The engine compiles a file: a chain that ends in NULL, or never ends,   *)
(* kills the process.                                                      *)
php_pcov_compile_file(t) ==
  /\ UserCode(t)
  /\ IF Callee(Callee(compile_file)) # "engine"
     THEN fault' = "hook"
     ELSE "pcov" \in Chain /\ UseTables(t)
  /\ UNCHANGED <<startupVars, hookVars, pc, enabled, mode, tables, hits,
                 excludeVars, historyVars>>

php_pcov_trace(t) ==
  /\ UserCode(t) /\ execute_ex = "pcov" /\ enabled[t]
  /\ UseTables(t)
  /\ hits' = [hits EXCEPT ![t] = @ \union {"own"}]
  /\ UNCHANGED <<startupVars, hookVars, pc, enabled, mode, tables, excludeVars,
                 historyVars>>

php_pcov_start_internal(t) ==
  /\ UserCode(t)
  /\ enabled' = [enabled EXCEPT ![t] = @ \/ php_pcov_api_enabled]
  /\ asked'   = [asked EXCEPT ![t] = TRUE]
  /\ begun'   = [begun EXCEPT ![t] = TRUE]
  /\ UNCHANGED <<startupVars, hookVars, pc, mode, tables, hits, excludeVars, leftOn,
                 fault>>

php_pcov_clear_internal(t) ==
  /\ UseTables(t)
  /\ hits' = [hits EXCEPT ![t] = {}]

php_pcov_clear(t) ==
  /\ UserCode(t) /\ php_pcov_api_enabled
  /\ php_pcov_clear_internal(t)
  /\ UNCHANGED <<startupVars, hookVars, pc, enabled, mode, tables, excludeVars,
                 historyVars>>

(* Mutant: stop returns at once when nothing has been recorded.            *)
DisabledIfHits(t) ==
  enabled' = [enabled EXCEPT ![t] = @ /\ (~php_pcov_api_enabled \/ hits[t] = {})]

Disabled(t) == enabled' = [enabled EXCEPT ![t] = @ /\ ~php_pcov_api_enabled]

(* xdebug_stop_code_coverage can clear as well, where it is registered.    *)
php_pcov_stop_internal(t, cleanup) ==
  /\ UserCode(t) /\ (cleanup => compat_active)
  /\ Disabled(t)
  /\ IF cleanup /\ php_pcov_api_enabled THEN php_pcov_clear_internal(t) ELSE UNCHANGED <<hits, fault>>
  /\ asked' = [asked EXCEPT ![t] = FALSE]
  /\ UNCHANGED <<startupVars, hookVars, pc, mode, tables, excludeVars, begun, leftOn>>

(* The engine's pcre cache is full and drops an entry nobody holds.        *)
pcre_clean_cache(t) ==
  /\ UserCode(t)
  /\ \E r \in cached[t] : refs[t][r] = 0 /\ cached' = [cached EXCEPT ![t] = @ \ {r}]
  /\ UNCHANGED <<startupVars, hookVars, pc, enabled, mode, tables, hits, exclude,
                 pattern, refs, historyVars, fault>>

-----------------------------------------------------------------------------
(* A request ends.                                                         *)

(* Mutant: the hook is forgotten even when another one is on top of it.    *)
ForgetAlways(t) ==
  IF compile_file = "pcov" THEN "restore" ELSE "forget"

Unhooking(t) == IF compile_file = "pcov" THEN "restore" ELSE "flushing"

PHP_RSHUTDOWN_FUNCTION(t, unclean_shutdown) ==
  /\ pc[t] = "script"
  /\ IF php_pcov_api_enabled /\ ~unclean_shutdown
     THEN /\ tables' = [tables EXCEPT ![t] = "gone"]
          /\ refs'   = IF exclude[t] = NULL THEN refs
                       ELSE [refs EXCEPT ![t][exclude[t]] = @ - 1]
          /\ pc' = [pc EXCEPT ![t] = Unhooking(t)]
     ELSE /\ pc' = [pc EXCEPT ![t] = "flushing"]
          /\ UNCHANGED <<tables, refs>>
  /\ UNCHANGED <<startupVars, hookVars, enabled, mode, hits, exclude, pattern,
                 cached, historyVars, fault>>

RestoreCompiler(t) ==
  /\ pc[t] = "restore"
  /\ compile_file' = saved_compile
  /\ pc' = [pc EXCEPT ![t] = "forget"]
  /\ UNCHANGED <<startupVars, saved_compile, other_saved, enabled, mode, tables,
                 hits, excludeVars, historyVars, fault>>

ForgetCompiler(t) ==
  /\ pc[t] = "forget"
  /\ saved_compile' = "null"
  /\ pc' = [pc EXCEPT ![t] = "flushing"]
  /\ UNCHANGED <<startupVars, compile_file, other_saved, enabled, mode, tables,
                 hits, excludeVars, historyVars, fault>>

(* The engine drops the request's heap.                                    *)
php_request_shutdown(t) ==
  /\ pc[t] = "flushing"
  /\ pc'     = [pc EXCEPT ![t] = "idle"]
  /\ tables' = [tables EXCEPT ![t] = IF @ = "live" THEN "gone" ELSE @]
  /\ hits'   = [hits EXCEPT ![t] = IF @ = {} THEN {} ELSE {"old"}]
  /\ leftOn' = [leftOn EXCEPT ![t] = asked[t]]
  /\ begun'  = [begun EXCEPT ![t] = FALSE]
  /\ UNCHANGED <<startupVars, hookVars, enabled, mode, excludeVars, asked, fault>>

-----------------------------------------------------------------------------
(* Another extension hooks the compiler as well, whenever its code runs,   *)
(* and takes its hook out again while it is on top.                        *)

Settled == \A t \in threads : pc[t] \in {"idle", "script", "flushing"}

OtherHooks ==
  /\ phase = "serving" /\ Settled /\ other_saved = "null"
  /\ other_saved'  = compile_file
  /\ compile_file' = "other"
  /\ UNCHANGED <<startupVars, saved_compile, pc, enabled, mode, tables, hits,
                 excludeVars, historyVars, fault>>

OtherUnhooks ==
  /\ phase = "serving" /\ Settled /\ compile_file = "other"
  /\ compile_file' = other_saved
  /\ other_saved'  = "null"
  /\ UNCHANGED <<startupVars, saved_compile, pc, enabled, mode, tables, hits,
                 excludeVars, historyVars, fault>>

-----------------------------------------------------------------------------

(* The extensions are registered, GINIT has zeroed the globals, no module  *)
(* has been started.                                                       *)
Init ==
  /\ config \in Configs
  /\ threads \in SUBSET Threads \ {{}}
  /\ phase = "startup"
  /\ registry = IF config.xdebug = "module" THEN "real" ELSE "none"
  /\ compat_active = FALSE
  /\ execute_ex = "engine"
  /\ compile_file = "engine" /\ saved_compile = "null" /\ other_saved = "null"
  /\ pc      = [t \in Threads |-> "idle"]
  /\ enabled = [t \in Threads |-> FALSE]
  /\ mode    = [t \in Threads |-> "line"]
  /\ tables  = [t \in Threads |-> "zeroed"]
  /\ hits    = [t \in Threads |-> {}]
  /\ exclude = [t \in Threads |-> NULL]
  /\ pattern = [t \in Threads |-> Unset]
  /\ cached  = [t \in Threads |-> {}]
  /\ refs    = [t \in Threads |-> [r \in Regexes |-> 0]]
  /\ asked   = [t \in Threads |-> FALSE]
  /\ begun   = [t \in Threads |-> FALSE]
  /\ leftOn  = [t \in Threads |-> FALSE]
  /\ fault = "none"

Startup == PHP_MINIT_FUNCTION \/ zend_startup_extensions \/ PHP_MSHUTDOWN_FUNCTION

Begin(t) == PHP_RINIT_FUNCTION(t) \/ SaveCompiler(t) \/ HookCompiler(t)

Script(t) ==
  \/ php_pcov_compile_file(t)
  \/ php_pcov_trace(t)
  \/ php_pcov_start_internal(t)
  \/ \E cleanup \in BOOLEAN : php_pcov_stop_internal(t, cleanup)
  \/ php_pcov_clear(t)
  \/ pcre_clean_cache(t)

End(t) ==
  \/ \E unclean_shutdown \in BOOLEAN : PHP_RSHUTDOWN_FUNCTION(t, unclean_shutdown)
  \/ RestoreCompiler(t)
  \/ ForgetCompiler(t)
  \/ php_request_shutdown(t)

Next ==
  /\ fault = "none"
  /\ \/ Startup
     \/ \E t \in threads : Begin(t) \/ Script(t) \/ End(t)
     \/ OtherHooks
     \/ OtherUnhooks

Spec == Init /\ [][Next]_vars

-----------------------------------------------------------------------------
(* Properties.                                                             *)

Stages == {"idle", "save", "hook", "script", "restore", "forget", "flushing"}

(* The reference counts of patterns in particular neither run below zero   *)
(* nor count an entry the cache has dropped.                               *)
TypeOK ==
  /\ config \in Configs /\ threads \subseteq Threads
  /\ phase \in {"startup", "extensions", "serving", "down"}
  /\ registry \in {"none", "real", "fake"} /\ compat_active \in BOOLEAN
  /\ execute_ex \in {"engine", "pcov"}
  /\ {compile_file, saved_compile, other_saved} \subseteq
       {"null", "engine", "pcov", "other"}
  /\ pc \in [Threads -> Stages]
  /\ enabled \in [Threads -> BOOLEAN]
  /\ mode \in [Threads -> {"line", "branch"}]
  /\ tables \in [Threads -> {"zeroed", "live", "gone"}]
  /\ hits \in [Threads -> SUBSET {"own", "old"}]
  /\ pattern \in [Threads -> Regexes \union {Unset, Invalid}]
  /\ exclude \in [Threads -> Regexes \union {NULL}]
  /\ cached \in [Threads -> SUBSET Regexes]
  /\ refs \in [Threads -> [Regexes -> 0 .. MaxRefs]]
  /\ \A t \in Threads : \A r \in Regexes \ cached[t] : refs[t][r] = 0
  /\ {asked, begun, leftOn} \subseteq [Threads -> BOOLEAN]
  /\ fault \in {"none", "tables", "hook"}

(* From RINIT to RSHUTDOWN, on a request of an enabled pcov.               *)
Running(t) == php_pcov_api_enabled /\ pc[t] \in {"save", "hook", "script"}

(* Whatever ended the request before, cleanly or not, user code never gets *)
(* to tables that are not there.                                           *)
TablesReady == fault # "tables"

(* A request never has the records of an earlier one on its list, whose    *)
(* memory is gone.                                                         *)
HitsOwn == \A t \in threads : Running(t) => "old" \notin hits[t]

(* What is recorded in a request was asked for: it has called start, or an *)
(* earlier request of the thread had and never called stop, since nothing  *)
(* but stop resets PCG(enabled).                                           *)
RecordsAsked == \A t \in threads : "own" \in hits[t] => begun[t] \/ leftOn[t]

(* A request is in branch mode exactly when the xdebug surface through     *)
(* which PHPUnit asks for branches is there, although the two are decided  *)
(* at different times, on different module registries.                     *)
ModeAgreesWithSurface ==
  \A t \in threads : Running(t) => (mode[t] = "branch" <=> compat_active)

(* Where the real Xdebug is, as a module or as a Zend extension that comes *)
(* later, it has its name to itself and pcov does not track branches.      *)
RealXdebugOwns ==
  config.xdebug # "absent" /\ phase \in {"serving", "down"} =>
    /\ registry = "real"
    /\ \A t \in threads : mode[t] = "line"

OneThread == \A s, t \in threads : s = t

(* With one thread, whatever ended the requests before and wherever        *)
(* another extension has put its hook, compilation goes through pcov and   *)
(* comes to the engine.                                                    *)
HookChain ==
  OneThread =>
    /\ fault # "hook"
    /\ \A t \in threads :
         Running(t) /\ pc[t] = "script" =>
           "pcov" \in Chain /\ Callee(Callee(compile_file)) = "engine"

(* A request filters by its own pattern, which the pcre cache still has.   *)
ExcludeOwn ==
  \A t \in threads :
    Running(t) =>
      /\ exclude[t] = IF pattern[t] \in Regexes THEN pattern[t] ELSE NULL
      /\ exclude[t] \in cached[t] \union {NULL}

================================================================================
