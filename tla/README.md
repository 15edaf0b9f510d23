# pcov-enhanced in TLA+

This directory models the pcov extension of this repository: a coverage driver
for PHP that records which lines run and, in branch mode, which branches, edges
and paths of the control-flow graph of each function. The models are checked
with TLC on small instances; the properties that matter most are also proved
with TLAPS for every value of the constants.

## 1. The system

| part | state it keeps | operations | what makes it correct |
|---|---|---|---|
| Line trace and compile hook (`pcov.c`) | `PCG(files)`, the list `PCG(start)`..`PCG(next)`, `PCG(covered)`, `PCG(waiting)` | compile hook, opcode hook | each wanted (file, line) is recorded once; what is recorded can be reported |
| Admission caches and path filter (`pcov.c`) | `PCG(wants)`, `PCG(ignores)`, `PCG(filter_mode)`, `PCG(filter_paths)` | `php_pcov_wants`, `xdebug_set_filter` | a cached answer is never one for an older filter |
| Collect, report, clear (`pcov.c`) | `PCG(last)`, `PCG(discovered)` | `\pcov\start`, `stop`, `clear`, `collect`, `waiting`, `memory` | a report is the executable lines of the chosen files, covered exactly when hit since the last clear |
| Branch frames and analysis cache (`pcov.c`) | `PCG(frames)`, `PCG(reached)` | path trace, finalize, detach, reset | branch, edge and path hits are those of real invocations; no pointer to a freed analysis |
| Branch analysis (`pcov_branch.c`) | one `pcov_branch_info` per op_array | jumps, branches, post-processing, path enumeration | starts, out-edges and paths are those of the opcodes |
| Xdebug surface (`pcov_xdebug_compat.c`) | whether the fake module is registered | start, stop, get, set_filter, info | there exactly when requests track branches, and never beside the real Xdebug |
| Module and request life (`pcov.c`) | ini, environment, `PCG(mode)`, `PCG(enabled)`, `PCG(exclude)` | MINIT, RINIT, RSHUTDOWN, MSHUTDOWN | a request finds nothing of the one before, however that one ended |
| Arena (`pcov.c`) | `PCG(mem)` | allocation, `\pcov\memory` | it lives as long as the tables that point into it |
| Compile hook | the process-wide `zend_compile_file` and pcov's saved copy of it | taken by RINIT, given back by RSHUTDOWN | files are compiled through pcov and by the engine, other extensions or not |
| `cfg/701`..`704` and line discovery | one `zend_cfg` per op_array | block building, reachability | the lines reported are those control can come to |
| `ci/`, `tests/`, `docs/`, build files | | | not part of the extension's state |

A process serves requests one after another, in a ZTS build on several threads;
what it is asked for comes from the ini file and the environment, and Xdebug may
be there and register before or after pcov. A request ends cleanly or by a fatal
error, after which RSHUTDOWN leaves everything as it is.

One request runs on one thread. The engine calls the compile hook once per
included file and the opcode hook before every opcode; the script calls the API
whenever it likes, also from inside functions that are being traced. pcov keeps
several tables about the same facts, so the hard part is not parallelism but
*order*: which filter was in force when a file was compiled, when it ran and
when it was collected; a clear between two collects; and, in branch mode, an
extension that sees opcodes and never calls or returns, and has to infer the
call stack from which frame each opcode runs in, with frames' addresses and
op_arrays' addresses reused by the engine.

## 2. Modules

| module | models |
|---|---|
| `CoverageSpec` | what line coverage promises: a filter, a hit set, a report |
| `PcovCoverage` | `pcov.c` in line terms: hooks, admission caches, filter, API |
| `PcovCoverage_proofs` | its theorems |
| `MCPcovCoverage` | files and lines for TLC |
| `PcovFrames` | `pcov.c` in branch terms: frame stack and analysis cache, against an engine with calls, recursion, exceptions and reuse of addresses |
| `PcovFrames_proofs` | its theorems for every program |
| `PcovExact_proofs`, `PcovPaths_proofs` | its theorems on hit branches and edges, and on exits and paths, for programs that behave |
| `MCPcovFrames` | small programs for TLC, and the path enumeration |
| `MCPcovCalls` | those that behave: the hypotheses of the theorems, for TLC to evaluate |
| `PcovBranchInfo` | `pcov_branch.c`: from opcodes to branches, edges and paths |
| `PcovBranchInfo_proofs`, `PcovBranchPaths_proofs` | its theorems on starts and out-edges, and on paths |
| `MCPcovBranchInfo` | op_arrays for TLC |
| `PcovRequest` | the life of pcov in a process: startup, Xdebug, requests, threads, the compile hook |
| `PcovRequest_proofs` | its theorems |
| `MCPcovRequest` | configurations for TLC |
| `ZendCfg` | `cfg/704/zend_cfg.c` and line discovery on it |
| `ZendCfg_proofs` | its theorems |
| `MCZendCfg` | op_arrays with tries for TLC |

### PcovCoverage

One action per hook and API function, each atomic because the code is one
synchronous call. Names are the source's. The list of hits is the sequence
`log`; `PCG(last)`, a pointer into the list, is its length when it was saved.
`php_pcov_wants(f, answer)` is the whole function: too short a name, the two
caches in the order the code asks them, then the decision and the cache it
fills. File names and prefixes are model values; what a prefix, the directory
and the exclude pattern match are constants (`HasPrefix`, `Under`, `Short`,
`Excluded`), so every outcome of a string comparison is covered by choosing
them. `Mode` is a constant because `RINIT` fixes it for the request.
`php_pcov_discover_code`'s result is the constant `Executable[f]`: what the CFG
says of reachable lines is computed in `ZendCfg`.

`report` is a variable only so that what collect returned can be compared with
the promise; `loaded` and `forgotten` are the engine's and the history's. The
opcode hook asks nothing of the compile hook: any file may be traced, also one
that was never compiled through it, as the code of `eval()` is, whose hits stay
on the list and are never reported. `HitsReportable` is therefore about files in
`loaded`, those that went through the hook.

Left out: `collect` with a type that is none of the three raises an error and
changes no state.

`CoverageSpec` has none of the tables. The refinement mapping turns the filter
and its caches into a filter, `log` into a hit set, `last # Len(log)` into
"something is new", and `PCG(files)` into the compiled files.

### PcovFrames

The engine is modelled as the environment: `stack` is PHP's call stack, and each
activation has a `slot`, its place on the VM stack, which is its `execute_data`.
Slots grow along the call stack, and one is used again as soon as its activation
is gone. A callee's slot is not always the next one: `INIT_FCALL` reserves the
frame of a call before the calls in its arguments run, so in `x(b())` the slot of
`b` lies beyond that of `x`, which then may call something at the slot `b` had.
`Ahead[c]` is the set of distances at which `c`'s callees can be, 1 for a plain
call and more for one in the arguments of others (or through an internal
function, which has a frame too). `Run` is one dispatch of `php_pcov_execute_ex`: hook, then opcode.
`Throw` and `Unwind` are exceptions; the hook also runs for the engine's
HANDLE_EXCEPTION opcode, which is in no op_array (`NONE`). An op_array is what
the hook can tell apart: branch starts, entry points, out-edges, enumerated
paths, address (`Home`) and identity (`Ident`: file, first line, size).

The array `PCG(frames)->frames` is a function from `<<slot, address>>`, which
identifies a frame, to its place, its cache pointer and its sequence. A cache
pointer is the code its entry was built for, so "the pointer is good" is an
equation between two tables and not a consequence of the representation.
`reached` is `PCG(reached)`.

The history variables `entered`, `took` and `walked` record what activations
really did, from the engine's side only, at the granularity of branches. An
entry point (a catch block) ends one walk and begins another, as it does for
pcov. An activation is `whole` when tracing was on when it began and neither
stop nor clear came in between. Branches, edges and paths recorded by pcov are
compared with them.

Left out: generators and fibers (their frames are not on the VM stack), the VM
stack's pages (a frame that does not fit is put on the next page; slots are only
compared for equality by the code, and the model's order of slots is that within
a page), opcode 0 as the target of a jump (it would be taken for a new
invocation), `fn_flags` checks.

### PcovBranchInfo

One op_array is analysed. `phase` follows `pcov_branch_info_create_from_oparray`:
analysis, post-processing, path enumeration. The two recursions of the code are
explicit stacks: `pending` holds the calls of `pcov_analysis_branch` still to be
made, in the order the code makes them, and `calls` the invocations of
`pcov_branch_find_path`, each with its path so far, the out-edge it is at and
whether it has followed one; a step is one turn of the loop. An opcode is its
kind and its targets; opcodes `pcov_find_jumps` treats alike are one kind, and
catches point at the next catch of their chain, as the compiler makes them.
`starts`, `ends`, `entry_points`, `outs` and `paths` are the fields of
`pcov_branch_info`; `set` is the bitset of what has been walked. A walk that
nothing stops also sets bit `last`, as the code does, which increments `position`
and sets its bit before it tests it; `Allocated` is what `set` has room for.

The reference the result is compared with does not walk: `Live` is the least set
of opcodes that holds opcode 0 and the catches and that control does not leave by
`Flows`, `EndOf` is where a branch ends by looking at the opcodes, and `Prolongs`
is the rule by which a path goes on. `ProgramsAssumption` says what the compiler
makes certain: operands are opcode numbers, and a kind that jumps has the operands
that `pcov_find_jumps` reads.

The out-edges, entry points and paths of the programs of `MCPcovFrames` are
given as constants there, so the two branch modules are checked apart.

Left out: line numbers, `end_op`, a call of `exit()` found by scanning the
arguments (its effect is that of a return), building the arrays that collect
returns, and `FETCH_CLASS` before a catch, which current engines do not emit.

### PcovRequest

`PCG(x)` is a function of the thread. Shared by the threads are the engine's
`zend_execute_ex` and `zend_compile_file`, pcov's `zend_compile_file_function`
(`saved_compile`) and the module registry. RINIT and RSHUTDOWN are one action
each, but for the lines on the shared hook, which are actions of their own
(`SaveCompiler`, `HookCompiler`, `RestoreCompiler`, `ForgetCompiler`): `pc` says
where a thread is. The hash tables and the arena are one value, `tables`:
zeroed by GINIT, live from RINIT on, gone when they are destroyed or when the
engine drops the heap of a request that ended by a fatal error
(`php_request_shutdown`). `hits` says whose records the list can reach, and
`refs` counts references to compiled patterns in the thread's pcre cache.

The environment is the engine, user code at any point of a request, the eviction
of an uncounted pattern, and another extension that puts its hook on
`zend_compile_file` and takes it off while it is on top. `Callee` is what each
hook calls: a chain that ends in NULL or goes round sets `fault`, as a use of
tables that are not there does. Files, lines and branches are not in this
module: they are `PcovCoverage` and `PcovFrames`, whose initial state is that
which this module's RINIT leaves.

Fixed for the process: ini values and environment (`config`); the pattern of
`pcov.exclude` alone is chosen anew for each request. The values of
`PCOV_ENABLED` and `PCOV_MODE` are what the code makes of them: unset, one that
means yes (branch), anything else.

### ZendCfg

One op_array is taken through `zend_build_cfg` and `php_pcov_discover_code`. The
blocks and their successors are one step; marking is a step for each turn of a
loop, with the recursion of `zend_mark_reachable`, last call taken in place as in
the code, on an explicit stack, and each half of the body of the loop over tries
(does somebody jump into this try? are its handlers reachable?) a step of its own.
`try_op` is a variable, since the code moves the beginning of a try that is
jumped into. The reference knows no blocks: `Live` is the least set of opcodes that
holds opcode 0 and that control cannot leave, by itself or through an exception to a
handler of anything in the set. `CfgAssumption` is what the compiler's layout
gives: the last opcode returns, a try is in front of its catch and that in front of
its finally block, nothing jumps between a NEW and the constructor call that goes
with it.

Functions here have a body: `php_pcov_discover_code` returns at once for an
abstract method. The closures and functions that one declares
(`dynamic_func_defs`), into which it recurses, are op_arrays of their own, and
their lines are added to the same table.

The copies are compiled in for PHP before 8.1, and pcov asks for no optional flag
that they test, so entry splitting, stackless entries and RECV blocks are left
out, as are the block flags other than REACHABLE, which pcov does not read. The
701 to 703 copies build the same blocks for these opcodes; they differ in how
CATCH and SWITCH encode their operands and in live ranges. Whether an optimizer
removes a dead block is no matter here, as the comment in
`php_pcov_discover_code` says.

## 3. Runs

| run | what it shows | result |
|---|---|---|
| `line` | line mode: consistency of list, indexes, saved position and cached tables; hits of compiled files are reportable; the promise is kept | pass |
| `branch` | `xdebug_set_filter` at any point: cached admissions stay right; the promise is kept | pass |
| `requests` | a request finds its own tables, records, mode, pattern and hook, after any other | pass |
| `lines` | lines reported are those control can come to; dead tries; the end | pass |
| `filter` | hits of a file compiled under a filter that is lifted later | violated |
| `calls` | branches, edges, exits and paths are those of real activations | pass |
| `frames` | pointers, types and stack shape, with stop and start anywhere, untraced callers, calls in arguments and address reuse | pass |
| `lost_path` | a whole traced activation keeps its path, when the untraced script calls in the arguments of a call | violated |
| `untyped` | branches entered are recorded, in a function with an untyped parameter | violated |
| `try_exit` | exits recorded were taken, in a function that catches its own exception | violated |
| `analysis` | starts, out-edges and paths are those of the opcodes, no path twice; the room of the walk's set; the cap; the end | pass |
| `dead_return` | a branch that ends in a return has the EXIT edge | violated |

Bounds. `line` has a file with two lines, one whose second line has opcodes that
line discovery does not count, one that `pcov.exclude` matches and one whose
name is shorter than the directory; `branch` has two prefixes, nested, and
three modes. The list never repeats a pair, so no other bound is needed. `calls`
has a call stack three deep, so that a function is called at two depths and a
slot is used again by itself and by another function; `MaxWalk` lets a loop body
be entered twice, through its head and through its catch block; its traced
functions also call in the arguments of calls (`CodeAhead`). Its script starts,
stops, clears and collects at any point, and its program meets the hypotheses of
the theorems of section 5, which `MCPcovCalls` assumes and TLC therefore evaluates, but for `NoArgumentCalls`,
which its `ScriptAhead = {1}` makes true and which is what `lost_path`, a run of the
same module, lacks. `frames` adds calls in the arguments of the script's calls, an op_array that is freed and another that takes its address, an untraced
function in between, and calls of stop, start, clear and collect at any depth;
its view leaves out the history, which no action reads.

`analysis` takes every op_array of five opcodes made of plain ones, jumps,
conditional jumps and returns that ends in a return control can come to (6154 of
them: nested loops, jumps to opcode 0, equal targets, dead code in the middle),
and six more with catches, switches larger than `MaxOuts`, a finally block, a
return by reference and a function that ends without one. `MaxPaths` is 6, so
many of them reach the cap and many do not. `WordBits`
is 5 where the code's is 64, so that the op_arrays of five opcodes fill a word of the
walk's set exactly.

`requests` has one thread under all 216 configurations - ini and environment for
enabled and mode, Xdebug absent, a module or a Zend extension, excludes set by no
request or by all - and two threads under the one in which everything they share
is used (`SharedConfig`). With two patterns, one that does not compile and
`MaxRefs` 2, a pattern can stay counted by a request that died while the next
one counts it again or uses the other; RINIT with a third count is cut off. The
number of requests is not bounded: the state they leave repeats. `LateCode` is
FALSE and `ExcludeChoices` is `ExcludeUniform`; what the other choices show is
in section 4.

`lines` has layouts of up to nine opcodes: all straight functions of five with
jumps and conditional jumps, then a try with a catch, with a finally block (and
the jumps the compiler makes around it), with both, two tries that lead into
each other, and constructor calls, each with every jump target that can make
the loop over tries go round again. 9477 op_arrays.

Deadlock is not checked for the `PcovFrames` runs: a walk at its bound, or a
call stack at its depth, stops; nor for `PcovBranchInfo` and `ZendCfg`, whose functions
end, nor for `PcovRequest`, which stops at MSHUTDOWN, at a fault, and at `MaxRefs`.
Only `PcovBranchInfo` and `ZendCfg` have fairness, `WF_vars(Next)`: each is a
function that runs to its end. Elsewhere nothing in the extension waits, retries or runs by itself, and
no liveness is stated.

Each property is tied to a mutant in `PROJECT.json`: an operator beside the
original, with a plausible mistake in it (a table left out of clear, caches kept
across a filter, edges inferred from reachability, frames not compacted), under
which TLC finds the property violated.

## 4. What the violated runs say

* **filter.** `php_pcov_compile_file` asks `php_pcov_wants`, which asks the
  filter, so a file compiled while it is filtered out is not retained in
  `PCG(files)`. Lift the filter and its lines are traced and never reported,
  while `CHANGELOG.md` says the filter applies at trace and collection time.
* **lost_path.** The frame that an opcode belongs to is searched from the top of
  the stack, and everything above it is popped as returned. But the frame of a
  returned function can lie *below* those of live ones. In the run, the script,
  which is of no wanted file, executes `x(b())`: `b` runs in a frame beyond that
  reserved for `x` and returns, and nothing that is traced runs before `x` does, so
  `b`'s frame stays and `x`'s is pushed on top of it. When `x` calls `b`, the second
  `b` has the `execute_data` of the first; its old frame is found, the live `x` is
  popped, and its path comes out in two halves that match nothing. (Both are the
  function `f` there, which calls itself. A traced
  script would have popped the old frame itself, at the SEND opcode after the
  inner call.) The same happens when tracing is switched on inside a nested call,
  or a traced function is called by one that is not traced.
* **untyped.** The engine skips the RECV opcodes of parameters without types.
  Opcode 0, which starts the first branch and is the function's entry point, is
  then never seen: the branch counts as not hit, and one invocation is not told
  from the next.
* **try_exit.** `try { return f(); } catch ...`: when `f` throws, the catch block
  is an entry point, so the sequence is finished at the branch of the `return`,
  whose exit is marked as taken.
* **dead_return.** The compiler ends every function with an implicit return, which
  nobody reaches in one whose last statement is a `return`. The last opcode is
  made a branch end all the same, and its list of jumps, empty because it was
  never walked, replaces that of the last live branch: `out` is empty where the
  contract has EXIT, and no exit of that branch can be reported as hit.

More behaviours were met with the same modules and have no run of their own.
With stop and start called inside one traced function, the frame keeps the last
branch it saw, and the next one is recorded as its successor (`EdgesTraversed`
fails). With an op_array at the address of a freed one and called in the same
slot, the frame that is found is used with the old analysis, since only a new
frame asks whether the entry is stale (`BranchHitsExact` fails). And in
`PcovBranchInfo`, a conditional jump to the next opcode (an empty `if`) has two
equal out-edges that are both followed: the paths behind it are enumerated
twice, and since the first match is marked, the second copies are never hit. A
return by reference ends a branch without an EXIT edge, since `pcov_find_jumps`
does not know it, and a jump to opcode 0 is never followed by a path.
The loop of `pcov_analysis_branch` increments `position` and sets its bit in `set`
before it tests `position < last`. A function of return type `never` ends in
VERIFY_NEVER_TYPE and not in a return, so a walk that reaches its end sets bit
`last`, and when `last` is a multiple of 64 that is a bit behind the last word
(`SetInBounds` fails without its condition on the last opcode), although the comment
in front of the loop says that the writes cannot exceed the allocations.
`pcov_find_jumps` does not list COALESCE, JMP_SET and JMP_NULL either, so the
analysis walks past them as past any other opcode; their targets begin no branch.

`PcovRequest` with other values of its constants, or a weaker condition in the
property, shows what its properties depend on:

* Two threads (`HookChain` without `OneThread`). Both see
  `zend_compile_file_function` empty, and the second saves pcov's own hook as the
  one to call: the hook calls itself. Or one request ends and empties the saved
  hook while the other compiles through it.
* Requests with and without `pcov.exclude` in one process (`ExcludeMixed`). RINIT
  leaves `PCG(exclude)` as it was when the setting is empty, so the request filters
  by the pattern of an earlier one; at its end the count of that pattern is taken
  back a second time.
* User code after RSHUTDOWN (`LateCode`), such as a session handler: the hooks are
  in place, `PCG(enabled)` is set, and the tables are destroyed.
* A request that never stops (`RecordsAsked` without `leftOn`): `PCG(enabled)` is
  reset by `stop` only, so the next request of the thread records from its first
  opcode.

The environment is a constant of the process there. The code reads
`PCOV_ENABLED` at each call, so a script that changes it with `putenv` makes RINIT
and RSHUTDOWN disagree: tables that were made are not destroyed, or tables that
were not are.

## 5. Proofs

`PcovCoverage_proofs`, from `ConfigAssumption` only:

* `TypeCorrect`, `CachesCoherent`, `LogMirrored`, `CacheStaysPristine`: the
  invariants of the runs, as consequences of one inductive invariant. `TypeOK`
  alone is not inductive for the others: that a trace appends a new pair needs
  `covered` to be what is in the list, and that a report agrees with the promise
  needs the cached tables to be pristine.
* `LineHitsReportable`: in line mode there is no filter, so what is admitted when
  it runs was admitted when it was compiled, if it was compiled through the hook:
  the statement is about those files.
* `Refinement`: `Spec => Abstract!Spec`, step by step, each action mapped to an
  action of `CoverageSpec` or to a stutter.

`PcovFrames_proofs`, for any program, any sharing of addresses and any order of
calls:

* `FramesAttached`: every frame's cache pointer is the
  entry `PCG(reached)` holds for its address. Hits are recorded in entries that
  keep their code; entries are added where there is none, so where no frame can
  be; and they are replaced after every frame of their address was detached -
  every one, because by the invariant every one points at the entry that goes.
* `StackWithoutHoles`, by `Compact`: what is left of an enumeration of the frames,
  moved down by the number of those dropped below, is one again.
* `TypesCorrect`: what is recorded for an analysis are branches, out-edges and paths
  of its own code, and a frame's sequence is one of its analysis's branches, ending
  in its last. It needs the pointers (`FInv`), since a hit is recorded through one.

What is recorded is what happened only for programs that behave, and what that
means is named in `PcovFrames`: no two op_arrays at one address (`OwnAddresses`),
no RECV skipped (`AllReceived`), tracing stopped by the outermost script only
(`StoppedOutside`), started and cleared there too (`Driven`), no wanted code called
back from unwanted code (`NoCallbacks`), no call in the arguments of another
in the script (`NoArgumentCalls`; wanted code may have them), branches with an EXIT
left through it (`ExitsLeave`). Each is a condition on a program and a theorem has
only those its proof uses:

| theorem | hypotheses |
|---|---|
| `BranchesExact` | `OwnAddresses`, `AllReceived` |
| `EdgesWereTraversed` | these and `StoppedOutside` |
| `PathsWereWalked`, `PathsAreKept` | `OwnAddresses`, `AllReceived`, `Driven`, `NoCallbacks`, `NoArgumentCalls` |
| `ExitsWereTaken` | these and `ExitsLeave` |

The runs of section 4 are programs without one of them: `untyped` lacks
`AllReceived`, `lost_path` lacks `NoArgumentCalls` and nothing else, `try_exit`
lacks `ExitsLeave`.

* `PcovExact_proofs`. `HookEffect` says once what the hook does to frames and cache,
  whichever way it takes through `php_pcov_path_trace`. `BranchesExact` follows with
  `OwnAddresses` and `AllReceived` alone. `EdgesWereTraversed` needs `StoppedOutside`
  and `EdgeInv`: a frame's sequence has been walked step by step by one activation,
  the one in its slot if that is still the one it was made for.
* `PcovPaths_proofs`. `PlaceInv`: the frames mirror the call stack, every traced
  activation that has begun has one, in the order of the stack, and in it the
  branches it entered (`Near`, `Founded`); what lies above belongs to nobody
  (`Cut`). Slots grow along the stack, so a frame's slot tells whether it can be
  that of a live activation or one further up; and what the script calls is always
  at one slot, `Base` (`Rooted`), so a frame beyond it is there only while the script
  is in a call of traced code: that is what `NoArgumentCalls` is for. Then what is popped has ended, and `RecordInv` says that what was recorded
  was a whole walk and no whole walk is lost: `PathsWereWalked`, `PathsAreKept` and,
  with `ExitsLeave`, `ExitsWereTaken`.

`PcovBranchInfo_proofs`, for every op_array that satisfies `ProgramsAssumption`:

* `TypesCorrect`: starts, ends, entry points and outs are those of opcodes, and
  the set of the walk goes at most one bit further.
* `SetStaysInBounds`: if the last opcode stops the walk, it goes no further at all
  (`Stopped`), and the words that `zend_bitset_len` counts have room for every
  opcode (`EnoughWords`), whatever the size of a word.
* `StartsAreExact`. The walk skips what it has seen, so the opcodes walked are
  closed under control only but for targets still pending (`Walking`); what is
  walked is live and follows a start with no stop between (`Reached`); every target
  of a stop walked is a start or pending (`Starting`). When nothing is pending the
  walked opcodes are the least closed set.
* `OutsAreExact`, if the last opcode of every op_array is live (`EndsLive`, which the
  program of `dead_return` lacks; the definition is in the proof module). `Processing` divides the branches at `position`:
  those behind have the out-edges of their ends, those ahead are as the walk left
  them.

`PcovBranchPaths_proofs`, under the same assumption only. The invocations on the
stack are the prefixes of one walk (`Nested`, `Linked`), and that walk divides all
others in those before it and those after it in the order of the out-edges:

* `PathsAreCapped`: only a call below the cap becomes an invocation, and only one
  that found no way on adds a path, so while it runs there is room (`Capping`).
* `PathsWalkOnce`: an invocation has found a way on exactly when it looked at an
  edge its walk can take (`Finding`); one that adds its walk has looked at all.
* `PathsAreComplete`: what is before the stack's walk has been enumerated (`Rooted`,
  `Branched`, `Covered`); at the end that is everything.
* `PathsAreDistinct`: no path lies ahead of the stack's walk (`Later`, `Unseen`,
  `Scanned`), if no branch has an out-edge twice (`Apart`).

`PcovRequest_proofs`, each theorem for any number of threads, any patterns and any
configuration, and each with an invariant of its own, because they need different
things and none of them needs the others:

* `SurfaceAgrees`, `XdebugOwns`, from `ModeInv`: what the registry holds in each
  phase of startup as a function of the configuration (`Registered`), and that no
  request begins before startup is over. The mode at RINIT is then resolved on the
  registry that MINIT and the Zend extensions have settled between them.
* `TablesAlwaysReady`, if no user code runs late, from `TablesInv`: tables are live
  in a running request, and a process whose pcov is disabled has neither the
  compile hook nor the opcode hook in place.
* `HitsAreOwn`, `RecordsAreAsked`, from `RecordsInv`: tracing is on only after a
  start, so what the list holds is from this request, which started it or found
  it left on.
* `HookChainHolds`, from `ChainInv`: the five combinations of the hook, pcov's saved
  one and the other extension's saved one that a single thread can leave between
  requests, and what they are at each line of RINIT and RSHUTDOWN.
* `ExcludeIsOwn`, `TypeCorrect`, under `Uniform` (all requests of a process set
  `pcov.exclude` or none does), from `ExcludeInv`: the pattern of a running
  request is counted at least once, so neither RSHUTDOWN takes a count that is
  not there nor the cache drops it.

`RequestAssumption` and the hypotheses named are all they rest on.

`ZendCfg_proofs`, for every op_array that satisfies `CfgAssumption`:

* `LinesAreExact`. With `Live` stated as the least closed set, no recursion has to be
  unfolded: the marked blocks are in every closed set (`Sound`), and at the end
  they are one (`CoveredClosed`). For the first, every mark follows control or
  comes from a try whose beginning the marked code has got to; as the code moves
  `try_op`, `Sound` says of each try that it still begins where it guards, or that
  its handlers are live anyhow. For the second, `Closing` says that a successor
  not marked yet is ahead of some invocation on the stack, and `Round` that a
  round which has changed nothing has nothing left to do for the tries behind it,
  for the reachable set of now. `TryMovedTyped` is the case that needs the layout:
  the first reachable block in front of the catch is one that the try guards.
* `DeadTriesStayDead`, the assertion in `zend_mark_reachable_blocks`, under
  `HandlersApart`: nothing enters the handlers of a try but what it guards and they
  themselves (`goto` into a finally block does not compile). `MCZendCfg` assumes it,
  so every op_array of the run `lines` is laid out like that. The first opcode of
  a handler in a block is then the block's own first, entered from what is marked,
  or follows one that is guarded (`LedIntoBlock`): where a handler is marked,
  something it handles is.
* `TypeCorrect`, with the depth of the recursion: an invocation is of a block that
  was not marked, so the stack's blocks differ.

The minimal and maximal elements these proofs need come from the library's
`WFMin` on the order of the naturals.

Model-checked only: that marking and the branch analysis end (`Ends`,
`Terminates`), which is liveness and out of the prover's reach. What bounds them is
proved: the depth of the recursion of `zend_mark_reachable`, and the cap on paths.

## 6. What is left

Every safety property that a passing run checks is a theorem of section 5.

Not modelled, and why:

* the arena's bump allocation and `\pcov\memory`, a sum over the engine's arenas
  (the code adds what is left of each and not what is used);
* generators and fibers in `PcovFrames`, whose frames are not on the VM stack: the
  `found_at` search would need the engine's switching between stacks;
* the layout of the arrays that collect returns, line numbers of branches, MINFO,
  the search for a default directory: formatting and file system;
* `cfg/701` to `703`, copies of `704` for older engines with the same blocks;
* `ci/`, tests, docs and build files, which hold no state of the extension.
