# A TLA+ verification of TurboScript

TurboScript is an embeddable script language in C: an expression parser and
tree evaluator (`exprtk`), a lowering to MIR with a JIT, a context with a
coroutine executor, tasks and timers, a versioned host ABI through which an
application compiles modules and calls their exports under quotas, and a set of
native modules (finance, network, database and others).

This directory models the parts that keep state across calls, threads, bars and
failures, and the parts that must agree with each other: the execution of a host
call under its budget, the lifetimes of the host ABI's objects, the task and the
timer registry, the order manager with the runner of a back test, the three
engines that execute a script, and the import of scripts and plugins. TLC checks
them on small instances; TLAPS proves the safety properties of the host ABI, the task
and timer registries, the import of scripts, and the order manager with its runner, for
every instance. Paths below are relative to the repository's root.

## Inventory

| Component | State | Operations | Hard behaviour | What makes it correct |
|---|---|---|---|---|
| Host call (`turbo_script_host_limits.c`, `_instance.c`, `_registry.c`; safe points in `exprtk_runtime.c`, `mir/turbo_script_mir_value_runtime.c`) | call budget, script frames, abort flags, diagnostic, instance state | begin a call, step, loop tick, enter/leave a frame, throw, catch, callback, store the result, finish | arbitrary scripts against quotas; an interrupt flag raised from another thread; try/catch around a spent quota | quotas are never negative and exact, interrupts are noticed within the interval, a failed budget cannot be caught, a call ends and reports what ended it |
| Host ABI objects (`turbo_script_host_*.c`, `ts_context_retain/release`) | reference counts of context and modules, registry of host functions, instance states and generations, results, active instance and callback depth | register, unregister, compile, destroy, create, resolve, call, callback, result create/destroy, free | the host re-enters the ABI from a callback of a call or of an initializer and destroys what is in use | nothing is freed under its users or leaked, bound entries do not move, handles name their issuer, nested calls leave the outer one consistent |
| Task registry (`turbo_script_task.c`) | job slots, `active_count`, ids, the thread-local current job | spawn, yield, sleep, join, cancel, release, run, finish, resize, shutdown | host thread and worker; coroutines interleaved on the worker; work after unlocks; a full queue; shutdown against waiting tasks | no lost wakeup, terminal states final, exact count, slots belong to their task until it ends, `turbo_script_free` returns |
| Timer registry (`turbo_script_timer.c`) | job slots, callback references, `active_count`, ids | after, every, cron, cancel, run, done, resize, shutdown | slots are recycled as soon as they are terminal, while a coroutine may still hold them | a callback is released once, a one-shot fires at most once and ends, exact count |
| Coroutine executor (Salts library, not in the repository) | queue, coroutine pool, await handles | try_submit_to, suspend, resume, complete, shutdown | full queue, stale handles | part of the task and timer models |
| Engines: tree evaluator (`exprtk_eval.c`), value evaluator (`mir/turbo_script_mir_value_runtime.c`), lowering to MIR (`turbo_script_mir.c`, `mir/turbo_script_mir_data.c`) | chain of scopes, flow flags, counters; registers, dirty marks | evaluate, compile, run, store to and reload from the environment | the same program is executed in three ways, in one run partly by one and partly by another; jumps and exceptions through nested loops and helper calls | each engine does what the program means, limits are reported |
| Script import and export (`turbo_script.c`), closures (`exprtk_runtime.c`), plugin loader (`host/ts_plugin_loader.c`) | environments by address, list of imports, exports in progress, loaded plugins | import, import_module, export, define, close over, load, end of a run with its sweep | the contents of environments are exchanged while pointers to them stay in use; nested, failing, repeated and cyclic imports | structs come back to their place, every scope is seen by the sweep, exports run in their own scope, nothing reachable is freed or unloaded |
| Finance: order manager (`order_manager.c`), market rules, strategy runner (`strategy.c`), bar window | cash, positions, pending orders, trade log, equity; windows | submit, fill, cancel, link, stops, bar, date, run, reset | orders, stops, expiries and refusals on one bar; a host with an exchange that fills late and refuses | cash reconciles with positions and log, expired and linked orders do not fill, the equity is exact, every trade is reported once |
| Finance: portfolio, optimizer, risk, factors | arrays | numeric | floating point | not modelled |
| Value validation, AST limits, export table of the host ABI | none | pure walks | depth and size limits | agreement with a reference definition (planned) |
| Parser, classes, built-ins | tree; classes | parse, dispatch | language semantics | classes planned |
| JIT cache | cache entries | look up, evict | eviction of code in use | planned |
| CFlow graph runtime | graphs and runs | build, run, cancel | external runtime | planned |
| Network, database | connections, statements | open, use, close | handles used after close | planned |
| Other modules, miniblas, command line | none shared | pure functions, I/O | none | not modelled |

Interactions: the host ABI calls the MIR runtime, which calls back through the
registry adapter into the host, which may call the ABI again (one thread, one
call stack). Tasks and timers share the context's executor with one worker
thread; the host thread and the worker share the registries under one mutex
each. `turbo_script_free` closes both registries, shuts the executor down and
then gives up the owner's reference to the context. A script runs as lowered
code, which calls the value evaluator for what it cannot lower and shares
variables with it through the environment; the tree evaluator runs the same
programs without MIR. The strategy runner calls the order manager and the script once per bar;
a host may also call the manager directly and put an exchange behind it.

## Modules

| Module | Models | Notes |
|---|---|---|
| `HostCall` | one instance executing calls | proofs in `HostCallProofs` |
| `HostAbi` | the objects of the host ABI and their lifetimes | proofs in `HostAbiProofs` |
| `HostOwnership` | the promise `HostAbi` implements, without counters | abstract specification |
| `TaskScheduler` | `turbo_script_task.c` with host thread and worker | proofs in `TaskSchedulerProofs` (who holds a slot) and `TaskCancelProofs` (waits and terminal states) |
| `TimerScheduler` | `turbo_script_timer.c` with host thread and worker | proofs in `TimerSchedulerProofs` (the count) and `TimerOwnerProofs` (a timer alone in its slot) |
| `MarketRules`, `OrderManager` | `market_rules.c`, `order_manager.c` as operators from manager to manager | proofs in `StrategyProofs` |
| `Strategy` | `strategy.c`, `bar_window.c`, and a host that drives the manager itself | composes the two above; proofs in `StrategyProofs` |
| `Script` | the tree of the language fragment, the chain of scopes, and `Meaning` | reference definition |
| `TreeEval`, `ValueEval`, `Lowering` | the three engines | |
| `Engines` | runs one program in all of them | composes the four above |
| `Imports` | import, export, closures, plugins | proofs in `ImportsProofs` |
| `MC*` | constants for TLC | |

### HostCall

`budget` is `ts_host_call_budget_t`; `StepPoint`, `LoopPoint`, `EnterPoint`,
`LeavePoint`, `CallbackBeforePoint`, `CallbackAfterPoint` and `RetainedPoint`
are the cases of `ts_host_safe_point`. `frames` are the frames of
`eval_script_function` and of the export entry; a frame is evaluating, at a call,
throwing or unwinding. `BeginCall`, `EnterExport`, `StoreResult` and `Finish` are
the stages of `turbo_script_instance_call`; `CallbackBefore`, `CallbackValue`,
`CallbackError` and `CallbackRejected` those of the registry adapter. A script is
any sequence of these steps. `Catch` includes the copy of the abort flag from the
catch environment over the environment of the try block. The host's interrupt
flag goes up and down at any moment. Values and conversions are abstracted to
success or failure; a diagnostic recorded by a callback always has the status
HOST_ERROR, as `record_callback_error` gives it. `sinceFlag` is history.

### HostAbi and HostOwnership

One action per ABI function. Creation and call are split into beginning and end,
because callbacks run between them: `stack` is the C call stack, and the host
acts when it is empty or its top frame is in a callback. Refused ABI calls change
nothing and are no steps; WRONG_THREAD refusals are left out for the same reason.
A handle is its generation (the export slot in its other half never tells two
instances apart). The model assumes that a callback does not destroy the result
object its enclosing call will write to. `bound` are the registry entries an
instance's runtime holds addresses of; `Unregister` moves the ones behind it,
as `vec_erase` does. `HostOwnership` keeps sets of owners and says that
code and context are in memory exactly while they have one.

### TaskScheduler and TimerScheduler

A section under the mutex is one step; what a function does after the unlock is
another one (`op` holds it). The worker executes at most one coroutine, `exec`;
others are suspended in a yield, a wait or a join. `current` is the thread-local
`ts_task_current_job`, set when a task starts and not when it resumes, as in
the code. The executor is external: a queue of bounded length, a pool of
coroutines, await handles that become stale when the wait ends, and, once shut
down, cancellation of what it still queues. Time is abstracted: a wait may end
by timeout at any moment, and a cron timer may or may not have a next occurrence.
`requested` (the id that the accepted `task.cancel` named), `blame`, `fired` and `refs`
are history or count the references of a callback. A sleep of 0 ms is a
yield that looks at no cancellation (`ResumePause`). A spawn that fails for want of
memory is left out; it takes no slot. When a timer registry is resized the old array is freed; `epoch` tells
the submissions that still point into it. The model does not follow what
such a coroutine reads there, so it only says whether one exists. Timer callbacks
run in the context's root environment; its data races with the main script
are not modelled. A timer that shared its slot with the coroutine of another one
is in `disturbed`: what is claimed of timers is claimed of the others.

### MarketRules, OrderManager and Strategy

A manager is a record, and each function of `order_manager.c` an operator on it,
early returns included: a fill without a free slot, or one the market rules refuse,
books nothing; the size of a market order is clamped to between nothing and everything,
a buy is cut to the cash, and a sell closes at most the position. The
pending orders are a set: the array keeps them by id, as ids are given in ascending
order and removals keep the order, so its passes are walks by id. An asset is its
number in the universe, an empty slot has the asset 0. Money is exact: integers, and
fractions for average prices, where the code has doubles. No position is
ever short: a sell without a position logs a trade of quantity zero and pays
its commission. `client` says who drives the manager. The *runner* is
`strategy_run_single` or `strategy_run_universe`, bar by bar (`OnBar` is
`strategy_on_bar` as a whole: window, matching, stops, script, orders, `on_fill`) and
date by date, with the final close; the script is a choice of
signal. `prevTrades` is the runner's counter `prev_num_trades`, behind which the trades of
a bar are reported; `notified` is the sequence of trades `on_fill` was called for. The
*host* calls the functions itself in any order. The *exchange* is a
host with an executor: submissions and cancellations may be refused, and an
accepted order may be filled at any later moment, also after a cancellation that
came too late. `filled`, `live`, `entryCost`, `sold`, `held`, `notified` and `seen`
are history.

### Script, TreeEval, ValueEval, Lowering and Engines

`Script` has one constructor per kind of node of the modelled fragment:
numbers, variables, constants, assignment, arithmetic, comparison and
logic, `if`, `while`, `do`, `for`, `for in`, `switch`, jumps, `throw` and `try`.
`Meaning` is written from the language guide: it returns the
environment and how the program ended. `TreeEval` and `ValueEval` thread the
state of their evaluator (scopes, flow flag, abort, counters) through the tree
as the code does; once the node limit has stopped a run the model stops, where the
evaluators still set the variable of a `for in` that is being left. `Lowering` is a compiler and a machine: `Compile` emits
instructions on registers and keeps the dirty marks in the order of the text, as
`ts_compile_stmt` does; `NativeRun` executes them, the helper instructions calling
`ValueEval`. What each engine is compared on is named in `Engines`:

- `PureOperands`: no assignment inside an operand, for all three.
- `TreeFragment`: no `continue` in a `for`, no `throw` in a `for` or `for in`.
- `Straight`: no helper call under a branch or a loop, no `return` in a loop;
  `HelpersComplete`: control leaves a helper only at its end; `CatchScoped`: a
  catch block assigns existing names only. For the lowered code.

Each exclusion is a difference between the engines that the list of outcomes
below describes, or, for `Straight`, the run `engine_sync`.

### Imports

`mem` maps addresses to environment structs; `id` says which scope a struct is.
`import_module` runs a file in a snapshot by exchanging the contents of the two
structs (`Exchange`), so while a module runs the address of the context is the
module's scope. Function values name their scope by address. `Visited` is the walk along the
parents, `Root` where it arrives and `Closures` the walk along the list. `Snapshot` links a
new scope into the list of the root of the running chain, `Sweep` is the end of a
run, `InitPlugin` the binding of a plugin with failure before and after the mount;
`natives` are the plugins whose functions are registered in a scope, `modules` those whose
module object is mounted there. `ref` is the code's count, with what the code
does not do: `exprtk_value_release_storage` clears the ownership of a value before it is
tested (`exprtk_value.c:115` and `:342`, `exprtk_runtime.c:972` and `:999`), so replacing or
destroying an entry of a map and freeing the variables of a scope release no closure,
while cloning an entry takes two references (`Clone`). Only an assignment to a variable
(`Assign`) and the named functions of a swept scope (`Sweep`) give references back.
`strayed` (scopes once named by a function of another scope) and `cyclic`
(imports made while the same import was running) are history and name the cases
in which the code gives no guarantee.

## Runs

Passing runs:

| Run | Shows | Bounds |
|---|---|---|
| `host_call` | `TypeOK`, `FrameAccounting`, `InterruptLatency`, `FailureIsFinal`, `CallTerminates` | hard limits 6 steps, 2 loop ticks, 1 callback; up to 2 frames (the instance's recursion limit) with costs 1 or 3 against a stack of 4; interval 3 with step costs 1 and 2, so that the accumulator both hits and jumps over the interval; each of the three sources of a limit (options, instance, hard) is the smallest for some quota |
| `host_abi` | `TypeOK`, `RefCountsExact`, `BoundEntriesStable`, `CallsConsistent`, `HandleNamesIssuer`, `ImplementsOwnership` | 2 modules, 3 instances, 1 result, 2 host functions, nesting depth 3: two initializers inside a call or inside each other; 3 generations, one per instance. Modules, instances and names are symmetric, all properties are safety properties |
| `task_single` | `TypeOK`, `NoLostWakeup`, `FreeReturns` | 1 coroutine, queue of 1 (so that submissions are rejected), capacities 1 and 2, 3 ids (slots are reused), 2 calls per task; the main script spawns and releases, both threads cancel |
| `task_pool` | `SubmissionBorrowsSlot`, `ActiveExact`, `TerminalUnlessRejoined` | 2 interleaved coroutines, 2 slots, 3 ids; tasks spawn tasks; the queue is never full |
| `timer` | `ActiveExact`, `CallbackReleasedOnce`, `AfterFiresOnce`, `NoLostWakeup`, `CancelIsFinal`, `AfterEnds` | 2 timers in 2 slots, queue of 1 (rejections), 2 coroutines, one-shot and cron timers (a cron timer does what an interval timer does, and may also find no next occurrence); the host starts, cancels and resizes, callbacks start timers |
| `backtest` | `CashReconciles`, `FillsAllowed`, `ExchangeKnowsPending`, `FillsNotified`, `EquityExact`, `WindowChronological` | 2 assets, 2 slots, cash 9, a rising and a falling bar that hit stops and limits from both sides, 5 signals, orders of every type with validity 0, 1 and unlimited; window of 2 with 3 dates (it wraps), warm-up of 1, 4 ids, 2 trades for a host |
| `engines` | `ValueAgrees`, `TreeAgrees`, `NativeAgrees`, `LimitsReported` | every pair of 7 loop statements (plain, break, continue, return, throw, try, inner loop) in each of the 4 loops, bare and inside a block, a try and a switch; every triple of 11 top-level statements; variables undefined, 1 or 2; 16 loop iterations, 500 nodes, 100 instructions (what ends, ends within 80) |
| `imports` | `ScopesInPlace`, `ChainComplete`, `ExportsAtHome`, `NoDangling`, `ImportedOnce` | 2 files, 1 plugin, 2 snapshots, 2 imports (nested, or one after the other), 2 runs of the host, a script takes no further reference to a scope once its count is 3 (the list and two names); files are symmetric |

The properties, in words:

- `FrameAccounting`: until the budget fails, recursion and stack quotas left
  are what no live frame holds, whatever throws, catches and refused entries came
  before.
- `InterruptLatency`: fewer than `Interval` steps are charged after the flag is up.
- `FailureIsFinal`: a spent quota or an interrupt cannot be caught away: the
  first failure stays and the instance ends FAULTED.
- `CallTerminates`: every call returns to the host.
- `RefCountsExact`, `ImplementsOwnership`: the counters count the owners, also
  for instances still in their initializer.
- `BoundEntriesStable`: no registry entry moves or disappears under an instance.
- `CallsConsistent`: depth, active instance and instance state match the stack.
- `HandleNamesIssuer`: a handle works on the instance that issued it and on no
  other.
- `NoLostWakeup`: a cancelled wait has been woken or is about to be.
- `TerminalUnlessRejoined`: nothing takes a task out of a terminal state but a join that waits
  on the job of another task.
- `SubmissionBorrowsSlot`, `ActiveExact`, `FreeReturns`,
  `CallbackReleasedOnce`, `AfterFiresOnce`, `AfterEnds`: as named, each stated
  above its definition.
- `CancelIsFinal`: a cancelled timer stays terminal and inactive and never fires again.
- `CashReconciles`: cash plus the cost of the open positions is the initial cash plus the
  logged profit minus the commissions on buys, after any sequence of fills, refusals
  and partial closes.
- `FillsAllowed`: no order is filled after its last valid bar, and at most one
  of a linked pair.
- `ExchangeKnowsPending`: what the manager takes for pending is at the exchange.
- `FillsNotified`: `on_fill` has been called for every logged trade once and in order, with the
  runner's counter between bars and the returned trades of the final closes.
- `EquityExact`: after a date of a universe run, equity is cash plus every position
  at its last close.
- `WindowChronological`: the vectors the script sees are its asset's last bars, oldest
  first.
- `ValueAgrees`, `TreeAgrees`, `NativeAgrees`: an engine ends a program as `Meaning`
  does and leaves the same variables, on its fragment.
- `LimitsReported`: a run of the lowered code or of the value evaluator that a
  limit stopped is never a success, whatever catches it.
- `ScopesInPlace`: at every moment the structs are where the nesting of modules
  puts them.
- `ChainComplete`: the parents of the scopes never form a circle, so the lookup of a name
  ends, and between runs the list of the context holds every live scope once.
- `ExportsAtHome`: exports are recorded for the file that made them and run in its scope.
- `NoDangling`: no function value that can be called names a freed scope, as far as
  the scope never strayed.
- `ImportedOnce`: a file runs once per kind of import, unless it imports itself.

Each property has a mutant in `PROJECT.json`: a changed definition of the code
under which TLC finds the property violated.

Runs that find a disagreement between the code and the repository's documents:

| Run | What happens |
|---|---|
| `task_isolation` | two tasks interleave on the worker: the second start sets the current job, the first resumes and its error is recorded in the second task, or in the root environment once the second has finished |
| `timer_slot_reuse` | a waiting timer is cancelled, which is terminal at once; a new timer takes its slot while the old coroutine is still suspended in it |
| `backtest_t_plus` | in a T+1 market shares are bought and sold in one session: `execute_fill` validates a sell as if nothing had been bought today |
| `engine_sync` | a loop calls a helper (an inner `for in`) and assigns `x` behind it: where the call is generated `x` carries no mark, so on the second iteration it is not stored, the helper adds to the old value, and the reload overwrites the new one |

The same models show further outcomes of this kind, which have no run of their own. Seven
of them are stated as properties in `TaskScheduler` and `Imports`, each of them violated on
the instance of a configuration that is kept beside the runs:

| Configuration | Property, and what it quotes | What happens |
|---|---|---|
| `TaskCancelReuse.cfg` | `CancelledByName`: "A cancel request wins only from a nonterminal state" (`docs/architecture/turboscript-executor-runtime.md:19`), and cancelling an ended task returns false (`docs/advanced/tasks.md:18`) | task 1 has ended and the host is in `task.release(1)`, past its check; a task calls `task.cancel(1)` and finds the slot (`turbo_script_task.c:57`); the host clears it and spawns task 3 into it; the request marks the slot, and task 3 ends cancelled |
| `TaskTerminal.cfg` | `TerminalIsFinal`: "Terminal results remain in the slot until `release` or registry shutdown" (`turboscript-executor-runtime.md:16`) | tasks 1 and 2 yield, task 1 resumes while the current job is task 2's, and joins; task 2 completes; the next wait of the join sets it from COMPLETED to WAITING (`turbo_script_task.c:50`) |
| `ImportsDangling.cfg` | `NamedScopesLive`: "Either way no function value or method references" a swept scope (`exprtk_runtime.c:876`) | the host script defines a function and imports a module, which imports a file that exports the host's function: the function is found at the address of the module, where the host's struct is meanwhile, so the module's count does not grow; the sweep (`:888`) frees the module, and the record of the file's exports dangles |
| `ImportsLeak.cfg` | `Reclaimed`: "every release path drops one reference per clone" (`exprtk_runtime.c:417`) | a closure captures another one and is dropped: the sweep frees it and releases nothing its variables name, because the ownership is cleared (`exprtk_value.c:115`) before it is tested (`exprtk_runtime.c:999`); the other keeps a count that nothing accounts for and is never reclaimed |
| `ImportsCycle.cfg` | `ExecutedOnce`: "`import("./file.tbs")` executes the script once" (`docs/language-guide.md:934`) | a file imports itself and is executed again, because the list of imports is looked up before the run (`turbo_script.c:996`) and extended after it |
| `ImportsLease.cfg` | `PluginsLeased`: the lease is retained while callbacks "remain reachable" (`docs/PLUGIN_SYSTEM.md:252`) | the functions of a plugin cannot be bound: it is unloaded (`ts_plugin_loader.c:1029`), and its module object stays mounted in the environment |
| `ImportsReach.cfg` | `ImportedReached`: "After `import("my_math")`, the script-visible name comes from `export_id`" (`docs/PLUGIN_SYSTEM.md:155`) | an isolated module imports a plugin, which is mounted in the module's scope; the host script, which does not reach it, imports it later, is told that it is loaded (`turbo_script.c:660`) and gets nothing |

The others, in words:

Host ABI
- A script catches a host error and then runs out of a quota: the recorded
  diagnostic wins (`turbo_script_host_instance.c:200`) and the host sees HOST_ERROR,
  where the failure matrix of the host module ABI design (line 259) says quota error.
- Instances created by callbacks of an initializer may pass the last generation
  after it was checked (`:455` and `:486`), and the outer instance gets generation 0.

Tasks and timers
- `task.join` keeps the job it took from `ts_task_current_job` across its waits, and with
  two coroutines that may be the job of another task. Its waits then write
  WAITING and RUNNING over a slot that has ended (a terminal state is rewritten),
  was released (an empty slot is left RUNNING and never used again) or was given to a
  new task (which skips its start and is reported cancelled). The first of these is
  `TaskTerminal.cfg`. `NoLostWakeup` is therefore checked with one coroutine, and
  proved for as long as every coroutine waits on its own job; the code, which runs 128
  of them, does not guarantee that.
- `finish` reads "not cancelled", a cancel is accepted and answers true, and `finish`
  then commits COMPLETED (`turbo_script_task.c:46`).
- A spawn that the executor rejects marks its slot empty, unlocks, and clears it
  afterwards (`:49`); a spawn in between loses its record. `task_pool`
  therefore keeps the queue large enough to accept every submission.
- `timer.cancel` unlocks between lookup and request as `task.cancel` does
  (`TaskCancelReuse.cfg`).
- After `timer_slot_reuse`, the old coroutine and the new one may both fire the new
  one-shot timer; such timers are in `disturbed`.
- `done` publishes the terminal state before it drops the callback
  (`turbo_script_timer.c:22`), so a timer started in between loses its callback.
- A timer cancelled while its callback runs is reported cancelled, then
  completed or failed, when `done` overwrites the state.

Finance
- `order_manager_report_fill` does not cancel the linked order: with an exchange both
  of a pair can fill. `FillsAllowed` is about the fills of `check_triggers`.
- An order that `execute_fill` refuses is marked FILLED nevertheless, and its
  sibling cancelled.
- A full close keeps the trailing distance and its peak, which govern the next
  position in the slot.
- With an executor an order that expires is dropped by the manager and stays at the
  exchange.
- `strategy_run_single` marks to market with one price, so a position in a later
  slot, its own or one a former run left, is not counted. `EquityExact` is about
  universe runs.
- `strategy_reset` restarts the order ids at 1, whatever an exchange still knows.

Engines
- In the tree evaluator the step and the condition of a `for` are evaluated with the
  `continue` still pending, and a `throw` does not end the bodies of `for` and
  `for in` (`exprtk_eval.c:539`).
- Both evaluators evaluate both operands of `&&` and `||`; the lowered code skips the
  second.
- A constant may be assigned again in lowered code; the language guide calls it an error.
- The marks of `engine_sync` also go wrong without a loop: a helper call under a branch
  stores what was assigned before it and clears the marks for the code after
  the branch, also on the path that does not take it.
- Lowered loops count no iterations: a loop without a helper call is not bounded
  by `max_loop_iterations`, which `docs/grammar.md:1056` gives for all loops.
- A limit reached inside the expression of a `throw` is replaced by the throw, which
  can be caught.

Imports
- A shared import made inside an isolated module defines its names there, and the
  list then answers later imports elsewhere, where they do not exist.
- Timer callbacks on the worker use the address of the context, which is another scope
  while a module runs on the host thread.

### Bounds

`MaxId`, `MaxCalls`, `MaxDepth`, `MaxEpoch` (one resize), `MaxFired` (two
firings are counted, which is enough to see the second one), `MaxDates`, `MaxIds`,
`MaxTrades`, `MaxRuns`, `MaxSteps`, `MaxScopes`, `MaxImports` and `MaxRef` bound
the models and appear in guards. Every mapped action fires in a passing run.
Deadlock is checked in the host call run: there a call can always begin. The
others set CHECK_DEADLOCK FALSE, because a host may stop using the system, a bound
is reached, or everything ends once the context is freed.

### Fairness

- `HostCall`: `WF(Call)`: the owner thread keeps executing a call it has begun.
  Host callbacks return; nothing is assumed about the flag.
- `TaskScheduler`: weak fairness of the steps a thread takes without choosing
  (teardown, the rest of a call after an unlock, finish); strong fairness of
  starting a queued submission, of resuming a suspended coroutine and of the end of
  a callback: a callback makes finitely many calls, and the worker serves one
  coroutine at a time and passes over none for ever, as its FIFO queue does.
- `TimerScheduler`: the same. A wait ends because its timeout passes.
- `HostAbi`, `Strategy`, `Engines`, `Imports`: none; only safety is claimed.

## Proofs

`HostCallProofs`, for all limits, costs, options, intervals and scripts, from
`HardAssumption`, `IntervalAssumption`, `OptionsAssumption`, `LimitsAssumption`
(options and limits are positive, as the code rejects zeros),
`CostAssumption` (a frame and a step cost something) and `RetainedAssumption`:

- `TypeCorrect`: `Spec => []TypeOK`; the quotas never wrap.
- `AccountingCorrect`: `FrameAccounting`, and `NeverInconsistent`: the branch of
  FUNCTION_LEAVE that reports inconsistent accounting is never taken.
- `LatencyBounded`: `InterruptLatency`.
- `FailureKept`: `FailureIsFinal`.

They follow from the inductive invariant `IInv`. `FrameAccounting` alone is not
inductive: leaving the innermost frame must restore the level of the frame below,
which is why frames carry their base and `BasesBounded` bounds it, and
frames must exist exactly while the script runs (`FramesWhenRunning`).
`InterruptLatency` needs `AccumulatorBounds`: the steps since the flag was raised
never exceed the accumulator, which stays below the interval. One lemma per safe
point says what it does to a budget; `KeepAccounting`, `PushAccounting` and
`PopAccounting` lift them to the frames; one lemma per action completes the step.

`HostAbiProofs`, for any finite sets of objects, any registry capacity, generation
limit and nesting depth (`HostAbiAssumption`):

- `CountersExact`: `TypeOK` and `RefCountsExact`.
- `EntriesStable`: `BoundEntriesStable`.
- `Refinement`: `Spec => ImplementsOwnership`, every step of the counters being
  a step or a stutter of `HostOwnership`.
- `CallsNest`: `CallsConsistent`.
- `HandlesNamed`: `HandleNamesIssuer`, as long as no generation was cut to fit its
  half of the handle (`NoWrap`). The code tests the generation before the initializer
  runs and takes it afterwards, so creations nested in initializers can pass the limit
  together; `HandlesNamedForever` drops the condition for a context that creates at
  most `GenMax` instances.

The counters are not inductive alone. A failed creation and the end of a call act
on the instance of the top frame, and their effect on the counts is right only if
that instance still exists and no other frame works on it: `FramesOK`. The freeze
of the registry protects bound entries only because the number of active modules
is the number of loaded ones (`CountsOK`) and an existing instance keeps its module
loaded. `CallsNest` adds `EnteredOK`, what a callback recorded on entry.

`TaskSchedulerProofs`, for any capacities, queue, pool and number of tasks, from
`Discipline`: at most one thread releases tasks, and either one thread spawns them or
the queue has room for every slot (the defaults: 64 tasks and 64 timers, 256
submissions). The code needs it: `reset_job` runs after the unlock, so a
second release, or a spawn that takes the slot of a rejected one in between, is wiped
out. Both task runs satisfy it.

- `TypeCorrect`: `TypeOK`. `Borrows`: `SubmissionBorrowsSlot`. `CountExact`: `ActiveExact`.

The invariant says who holds a slot: queued submissions, coroutines and spawns that
have not submitted yet hold slots that are active and carry their id (`HoldersOK`,
`OpsOK`), no two hold the same one (`Apart`), and every active slot has a holder
(`ActiveHeld`), without which the resize, which checks `active_count` only, could pull
the jobs from under a coroutine.

`TaskCancelProofs`, from the same invariant and `Discipline`, and for the wakeup
`WaitInv` (a waiting job names the await that ends its wait, and if it is cancelled somebody
ends it):

- `TerminalRejoined`: `TerminalUnlessRejoined`, for any number of coroutines and any waits. A
  coroutine that is in its callback or suspended there has a slot that is not terminal
  (it is active, and what ends a job deactivates it in the same section), so that only
  a wait on a foreign job can meet a terminal state, and of those only the one that a
  join begins writes over it.
- `WakeupOwn`: `NoLostWakeup` under `[]OwnJobs`: every coroutine waits on its own job. The
  condition holds with one coroutine, as in the run `task_single`; with the 128 of the
  code it is a condition on what the tasks do, namely that none waits after it was
  resumed under another current job.

`TimerSchedulerProofs` and `TimerOwnerProofs`, for any capacity, queue, pool and number of
timers, without further assumptions:

- `TimerCountExact`: `ActiveExact`. A coroutine that finds another timer in its slot
  ends that one, so ownership is no help here. The count is exact because ended
  and cancelled jobs are inactive (`Flags`) and an active one has somebody left to
  end it (`ActiveHeld`).
- `ReleasedOnce`, `FiresOnce`, `WakeupKept`, `CancelFinal`: `CallbackReleasedOnce`,
  `AfterFiresOnce`, `NoLostWakeup`, `CancelIsFinal`. They rest on what a timer
  outside `disturbed` has to itself: it is in one place (`OnePlace`), its slot carries
  its id and nobody else uses it (`Owners`, `Alone`), its references are those its
  place accounts for (`Counted`, `Kept`), and before its callback it has not fired (`Unfired`).

`ImportsProofs`, for any files, plugins and numbers of scopes, imports and runs
(`BoundsAssumption`):

- `StructsInPlace`: `ScopesInPlace`. Modules that run have addresses of their own which
  no later snapshot gets (`OwnAddrs`); `EnterPlaces` and `LeavePlaces` say what a push
  and a pop of the stack do to the chain of exchanged structs. Every operation on the
  memory has a lemma that says which scopes it moves.
- `ExportsHome`: `ExportsAtHome`. The exports in progress, of the running file and
  of all that wait for it, were made by their file, and its own functions are at the
  address of the context until they are bound again (`ExportsMine`).
- `RunOnce`: `ImportedOnce`. A file on the stack twice, or on the stack and in the list,
  is in `cyclic` (`Circles`).
- `ChainsWhole`: `ChainComplete`. The invariant `LInv` says how the structs are linked
  (`Linked`): each scope is in one struct, and the struct of a waiting module holds
  an older scope (`IdsOK`); parents lead from a module to its importer (`ParentsOK`);
  and the list continues behind every scope that is not freed, in whichever struct it
  is, with the youngest one that is older than it (`NextsOK`). The numbers of scopes then
  fall strictly along the parents and along the list, so both walks end (`WalkDown`,
  `ChainIs`, by well-founded induction on the numbers); a snapshot goes to the front of
  the list of the root, which is the host's scope wherever it lies; and a sweep takes
  scopes out and keeps the order of the rest.
- `NamedAlive`: `NoDangling`. The property says nothing of the counts, so the invariant
  `DInv` does. The count of a live scope that no foreign value has named is at least one
  for the list plus the variables, functions, exports in progress and records that
  refer to it (`Counted`); inside a module that runs or waits, the address of the context
  counts as a reference to the module's own scope, which is what makes the bound survive
  the exchange of structs. It is a lower bound: references that the code takes and never
  gives back only raise a count (`Raised`), which keeps a scope longer and frees none
  that is named. Every value held names a scope that was made and lives,
  and the address of the context or of a module only where the exchange puts one
  (`Kept`, `Sound`). One lemma per operation says how it moves references
  (`AssignCounts`, `ExportCounts`, `DefineCounts`, `SnapshotCounts`, `EnterCounts`,
  `LeaveCounts`, `SweepCounts`); a scope that the sweep frees has a count of at most one,
  so nothing refers to it (`FreedUnreferred`).

`StrategyProofs`, for any numbers of assets and slots, any cash, slippage and spread, any
bars, signals and orders, and any window capacity and warm-up (`ManagerAssumption`,
`WindowAssumption`, `HostAssetsAssumption`, `BarsAssumption`, `SignalsAssumption`,
`OrdersAssumption`: prices are positive, the rest has its type):

- `WindowOrdered`: `WindowChronological`. The ring holds the last bars from the oldest
  slot on, modulo its capacity, and until it is full it has never wrapped (`Holds`).
- `BooksBalance`: `CashReconciles`. An average price is a quotient, so the books are
  balanced over a common denominator (`Balanced`); one lemma says what a fill moves
  between cash, cost and logged profit, and the sum over the slots changes in one term.
- `FillsInTimeAndOnce`: `FillsAllowed`; `PendingAtExchange`: `ExchangeKnowsPending`. `Book`
  says that ids are given once, that `barsValid` is what is left of an order's validity
  (`Counted`), and that no pending order is linked with a filled one (`Linked`), which
  neither property says of an order before it is filled.
- `EveryTradeNotified`: `FillsNotified`. Between the steps of a run the counter of the
  runner is the length of the log and the trades reported are the log; the log only
  grows, and a final close adds one trade at most, the one it returns.
- `EquityCountsAll`: `EquityExact`. Each asset
  has one slot and slots are taken in order (`Seats`), so that the sum over the slots counts
  every asset once, at the mark of its last bar.

`Good`, the four parts together, is kept by each function of `order_manager.c`, one
lemma per function; the walks over the pending orders are recursive functions on sets,
whose invariants are proved by well-founded induction on their size. `MInv` adds
where the runner is in its loop.

Recursive functions are shown to exist and to satisfy their equation one by one, and
facts about them are proved by taking the least number at which they fail; the
induction theorems with a predicate as their parameter are not needed for it.

Only model-checked:

- liveness (`CallTerminates`, `FreeReturns`, `AfterEnds`), which is out of the
  prover's reach;
- the engines, whose evaluators are recursive operators and therefore outside the
  prover;
- the disagreements with the documents, which are traces of small instances.

## Not modelled

See the components of `PROJECT.json` for reasons. In short: the parser (generated),
numeric modules (floating point), bindings of external libraries, and, within the
modelled parts: the conversion of values, the initializer's own execution (it runs without
a budget), the byte quotas of tasks, `spawn_managed` and `cancel_managed` (nothing in
the repository calls them), read-only queries; percentage trailing stops, fractional
lots, corporate actions and rounding of doubles; functions, classes,
strings and containers in the engines, dynamically typed variables of the lowering;
path resolution and out-of-memory paths of imports.

The mapped lines are a small part of the repository, most of which is library code
without state of its own: built-in functions, numeric kernels, bindings, the parser
generator and its output.

## Plan

Done: `HostCall`, `HostAbi` with `HostOwnership`, `TaskScheduler`,
`TimerScheduler`, `OrderManager` and `Strategy`, `Engines`, `Imports`; the proofs above.

Next modules, in this order:

1. `Connections`: the handles of the database and network modules, without
   generations and owned by task slots.
2. `Classes`: dispatch, private members and super calls against a reference definition.
3. `JitCache`: keyed cache with eviction against a reference map.
4. `HostValues`: validation of value trees and AST limits as recursive operators
   against a reference definition, for TLC only.
5. `CFlowRuntime`: start, completion and cancellation of a graph run.

Next theorems: an abstract specification of the task registry that
`TaskScheduler` implements; an abstract account that the order manager implements.
