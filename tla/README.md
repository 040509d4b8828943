# TLA+ verification of the thaw runtime

Thaw compiles TypeScript ahead of time to native code. What makes its programs
behave like Node programs is a runtime of Rust crates: promises and an event
loop, timers, an arena for generated values, the loop of a Lambda process, a
host for Node-API addons, and an interpreter for JavaScript dependencies.
That runtime is where the hard states are: callbacks that poll again, token
counts, raw addresses that are handed out again, threads that race the owner of
a queue. This directory holds TLA+ models of those parts, the TLC runs that
check them and TLAPS proofs of the properties that matter most.

Paths below are relative to `src/crates/`.

## 1. Inventory

| Component | State | Operations | Hard behaviour | Module |
|---|---|---|---|---|
| Threadsafe functions (`thaw-napi/src/lib.rs`, `napi/async_runtime.rs`) | bounded queue, `thread_count`, `closing`, `scheduled`, `callbacks_in_flight`, `finalized`, ready events, condition variable | create, call (blocking or not), acquire, release, abort, ref, unref, poll, finalize, retire | producer threads against the Host thread, nested polls, lost wakeups, finalization under a running callback | `ThreadsafeFunction`, `BoundedChannel` |
| Addon host (`thaw-napi`) | `HOST` with its Envs, works and shutdown errors, the pool's queue and threads, ready events, cleanup hooks and handles, posted finalizers | load, call an export, create/queue/cancel/delete work, add and remove hooks, poll, retire, begin and finish shutdown | cancel against worker, address reuse, foreign threads finishing hooks, callbacks re-entering retirement | `AddonHost` |
| Promises (`thaw-runtime/src/runtime/promises.rs`) | boxes with two token counters and subscribers, boxed frames of chains, adoptions and combinators, arena cells, reports | new, settle, retain, destroy, subscribe, chain, adopt, finally, detach, all/race/any/allSettled, purge, report | lifetime of a box against everything that points to it, combinators half way through a purge, callbacks that poll | `Promises` |
| Event loop (`thaw-runtime/src/lib.rs`) | `READY_CONTINUATIONS`, `TIMERS`, `FD_WAITS`, invocation deadline, failure flag, `PARKED_CONTINUATIONS` | `thaw_runtime_poll_one`, sleep, wait for a descriptor, run until resolved, drain, purge, park, adopt | order of phases, starvation, waits against the deadline, continuations on a thread nobody polls | `Promises`, `NativeTimers`, `LambdaLoop`, `Coroutines` |
| Native timers (`thaw-runtime/src/runtime/timers.rs`) | `NATIVE_TIMERS`, `TIMER_PHASE`, ids that are also sequence numbers | set, clear, ref, unref, refresh, run one | callbacks that clear or refresh the timer being run, stale snapshot of the clock, immediates against timers | `NativeTimers` |
| Arena (`thaw-arena`) | bump generations, allocation records, roots, pins, side references, reclaimed ranges, hooks | allocate, register and unregister roots, pin, replace references, reset | marking from mixed roots, renumbered generations, recycled addresses in side tables, hooks that allocate | `Arena` |
| Lambda loop (`thaw-runtime/src/runtime/lambda.rs`) | request, trace, deadline, error slot, consecutive failures | next, run the handler, respond or report an error, drain, purge, back off, give up | refused, broken and lost replies, what one invocation leaves to the next, handlers that await something that never comes | `LambdaLoop` |
| JavaScript fallback (`thaw-js`) | coroutines, `cur_co`, channels, generators and their request queues, job queue, workers | call an async function, next/throw/return, await, yield, yield*, run jobs | hand-over between threads, requests for a body that awaits, nested callers | `Coroutines`; workers, timers and evaluation not modelled |
| N-API handles and references (`thaw-napi`) | handle scopes, reference counts | open/close scope, escape, ref/unref/delete | finalizers against references | not modelled |
| HTTP, JSON, inspection (`thaw-std`), fetch (`thaw-runtime`) | connections, parsed data | parse, serve, convert | mostly data conversion and I/O | not modelled |
| Compiler, CLI, registry, ICU data, bridges | syntax trees, files | sequential translation | unbounded programs, no shared state | not modelled |

How they interact. Compiled code calls every component on the thread it runs on.
`thaw_runtime_poll_one` is the centre: it resumes one ready continuation, and
only when there is none runs due sleeps, descriptors, reports of rejections and
one native timer. A resumed callback is compiled code again and may poll. The
addon host has a poll of its own, which the generated `main` calls in the same
loop; worker threads and foreign threads reach it through ready events. At the
boundary of an invocation the pending state is purged and the arena is reset,
and the reset calls hooks in the crates that key tables by arena address; the
promises' arena cells are released there (`ArenaReset` in `Promises`).

What makes each part correct, in one line: a threadsafe function takes every
accepted call off its queue once and in order and finalizes only when nothing can use it; an
Env is retired only when nothing can call into it; a Lambda process answers each
request once with its own result and lets nothing of it reach the next one; one
side of a coroutine hand-over runs at a time and requests are answered in order; a promise box is freed
exactly when its last token goes and is settled once; timers run in Node's
order and never after a clear; a reset keeps exactly what is reachable.

The hazards of the code (what a test would hardly reach) are listed at their
lines in `PROJECT.json`, each with the property that would catch it.

## 2. Modules and the code

In every module one action is one call, handler or critical section; between
two actions every other actor may step. Definitions whose name ends in a word
for a bug (`ReleaseOneCounter`, `FlipStale`, ...) are planted mistakes that the
mutation runs substitute for the definition after them; no specification uses
them.

### ThreadsafeFunction

One function, as `napi/async_runtime.rs` and the state in `lib.rs` of thaw-napi implement it.
An element of `Owners` is one acquisition used by one thread; `HostOwners` are
used on the creating thread. One action per region under the mutex:
`Call`/`Resume` (with the branches `Closing`, `Accept`, `Wait`), `Release`,
`Acquire`, and the two regions of `run_one_threadsafe_callback`
(`BeginCallback`, `EndCallback`). The callback itself is the time between them,
in which the Host may call back and poll again, so the Host is a stack of
frames. A call is `begun` when it is popped; a function without `call_js` that is
aborting pops calls without calling anything (`else if !aborting`), and the region
between `BeginCallback` and `EndCallback` is then empty. `RefBegin` and `RefSwap` are separate because the code tests `closing`
under the mutex and swaps `referenced` after releasing it. An owner calls only
while it holds its acquisition, as Node-API requires.

`BoundedChannel` is what the users of a threadsafe function may rely on, with no
threads, locks, events or frames in it: `Send`, `Close`, `Begin`, `End` and
`Finalize` of a bounded channel. `ImplementsChannel` is its specification under
the mapping `Channel` (sent calls are the accepted ones, the buffer is the queue,
`busy` counts the frames that run a call, and the status is read off `closing`
and `finalized`). Calls that wait, events, wakeups, refs and retirement are
stuttering steps of the channel.

### AddonHost

The owner thread is a stack of frames (poll, callback, init, retirement and its
two halves), each with its program point. Pool threads take, finish and post
work in three steps, because the status is stored before the event is posted.
Foreign threads finish asynchronous cleanup hooks and retire threadsafe
functions (here only "live or not"; `ThreadsafeFunction` has the rest). Work
items are addresses, so deletion and reuse are visible. `Retire`, `RetireCheck`,
`RetireBegin`, `RetireNext` and the `Begin*`/`Finish*` steps are
`retire_owned_envs` with `begin_async_cleanup` and `finish_cleanup` expanded.

### Promises

`heap`, `frame` and `join` are the three kinds of boxes; frames are the states
of `await`, detached statements, chains, adoptions, finally and the children of
combinators. `Settle`, `Destroy`, `Release`, `RetainInternal` are functions of
the heap, used by the actions. A chain callback is on `stack` from `ResumeChain`
to `ReturnChain`; everything compiled code may do can happen in between. A report
phase with a listener is a frame of its own (`batches`): `ReportFirst` takes the
snapshot of `collect_unhandled_rejections` and marks all of it as reported, each
`ReportNext` is the return of the listener and its call for the next record, and
`EndReports` ends the phase. Between them the listener settles, handles, detaches
and drops promises, those still in the snapshot too, and polls, which may start
another phase. `PollIdle` is the phase without a listener, in which no user code
runs. Values are abstracted to the settlement. `Operations` names the entry points an
instance uses, so that each run spends its bounds on one group.

### NativeTimers

`RunOne(n)` is one call of `run_one_native_timer` that finds something after n
changes of phase, `RunNothing` the call that finds nothing, `Return` the end of
a callback, where an interval that is still registered starts again. `ioReady`
says whether the next poll finds a descriptor ready, which is chosen anew for each
poll (`NextPoll`); a poll that dispatched I/O runs no native timer (`LoopFree`,
`PollIo`). Time is a count of milliseconds, `Tick` the process clock.

### Arena

Memory is a row of words; a value is whatever address a word holds. The reset
is split: `ResetBegin`, `MarkStep` per pointer taken from the work list, `Sweep`
(one step: no foreign code runs in it), then per release hook `HookBegin`,
`HookDrop`, callbacks and `HookEnd`. `lengths` stands for tables cleaned before
foreign code can run (string lengths and the metadata hooks), `side` for tables
cleaned by release hooks. Simplifications: the work list is a set and is taken
in any order, null pointers are skipped; allocations are whole words; the
threshold of `thaw_arena_reset_if_grown` is a reset at any time; tracing is
enabled before anything is allocated, as the generated start-up does; without
tracing only allocation and the bulk reset are modelled; a reset inside a reset
is ignored by the code and is no step. Callers of the side tables name an
allocation by its base; words, globals and pins may hold interior pointers.

### LambdaLoop

The process of `thaw_runtime_run`, by program point: `next`, `handler`, `await`
(`thaw_runtime_run_until_resolved`), `post`, `drop` (the guard
`InvocationArenaReset`, which drains, purges and resets), `backoff`, `exited`.
The Runtime API is external and unreliable: a GET or POST may be refused, may be
answered with something malformed, or may take effect while its reply is lost
(`PostLost`). What the event loop holds is a set of work items, each with the
invocation that made it, the queue it sits in and its role: to settle the
handler's promise, to be an input of a combinator that `drain_detached` waits
for, or neither; `Promises` and `NativeTimers` have the queues themselves. The
handler is a compiled program, so it may do any of this in any order, reject
promises nobody handles, return, throw or await for ever. `asleep` is the wait in
poll or sleep: the clock, the descriptors and the deadline move meanwhile, and
`Wake` says which of them end it.

### Coroutines

Async functions, generators and async generators of thaw-js. A body is a thread;
`inbox` and `outbox` are its two channels, `waiting` says which thread blocks in
`recv` for it, and `curCo` is the stack `rt.cur_co` that `await` and `yield` use
to find their channel. `Drive` is `agen_drive` with its loop unrolled, `Receive*`
what `co_wait` and `gen_resume` do with each message, `Settle` and `RunJob` the
reactions that resume a body. `Spawn` and `Mark` are separate because the code
spawns the thread before it stores the status: in between, both threads run.
`EarlyCalls` says whether a body may call a generator in that window. The run
`coroutines` excludes it and shows that the protocol is exact without it; the run
`coroutine_start` includes it (section 6). Native promises that a body settles
are numbered in order; `park` and `adopt` move their continuations to the host.

`MCThreadsafeFunction`, `MCAddonHost`, `MCPromises`, `MCNativeTimers`,
`MCArena`, `MCLambdaLoop` and `MCCoroutines` hold the constants of the instances.

## 3. Runs

Times are for two TLC workers.

| Run | Instance | Shows |
|---|---|---|
| `threadsafe_function` | 3 owners (one on the Host), queue of 2, 6 calls, 4 nested polls; 29 k states | `FinalizedIsSafe`, `WorkIsScheduled`, `DeliveredInOrder`, the refinement `ImplementsChannel`, and under fairness `ClosingLeadsToFinalized`, `BlockedCallReturns` |
| `addon_host` | 2 Envs, 2 works, 2 pool threads, 1 asynchronous and 1 plain hook, 3 frames, 4 operations | `WorkIsAccounted`, `NothingRunsClosed`, `HooksStartOnce`, and under fairness `WorkCompletes`, `ShutdownEnds`; 169 k states. Which unused address a new Env or work gets is immaterial: one stands for all (`Unused`) |
| `promise_joins` | 3 promises, 2 combinators of up to 2 inputs, timers, fd waits, refused inputs, a chain, the deadline, 1 purge; 691 k | `CountsAreExact`, `CombinatorsAreRight`, `CancelledIsInert`, `SettledForGood` |
| `promise_owners` | 3 promises, 2 frames of chains, adoptions and finally, an arena cell, callbacks nested twice, 1 purge; 1.2 M | `ContinuationsAreSafe` |
| `promise_reports` | 2 promises with 2 tokens each, detached, awaited, chained, listeners called one at a time, callbacks and listeners nested twice; 150 k | `ReportsAreOwed`, and under fairness `ReadyIsResumed`, `RejectionIsReported` |
| `timers` | 3 timers of any kind, 2 at a time, callbacks nested twice, a job, descriptors ready at any poll; 603 k | `ClearedIsGone`, `RunsInOrder`, `IdleIsIdle`, and under fairness `EveryTimerEnds` |
| `arena` | 2 words, a global, a box, sizes 1 and 2, 3 allocations, 3 operations, 1 release hook; 779 k | `TablesAreExact`, `PointersStayValid`, `ResetIsExact` |
| `arena_hooks` | 2 release hooks | violation, see section 6 |
| `lambda_loop` | 2 requests, 2 work items each, from every source, 2 failures in a row; 1.6 M | `InvocationsAreIsolated`, `AnswersAreOwn`, and under fairness `HandlerEnds` |
| `lambda_latch` | the same with native timers only | violation, see section 6 |
| `coroutines` | one body of each kind, 3 requests, 4 steps of the bodies, 2 native promises; 241 k | `HandOffIsExact`, `AnswersInOrder`, `ContinuationsReachHost`, and under fairness `RequestsAnswered` |
| `coroutine_start` | the same with calls in the window of a start | violation, see section 6 |

Several properties are conjunctions of named parts: `CountsAreExact` of
`TokensAccounted` and `JoinsCounted`; `ContinuationsAreSafe` of `NothingDangles`,
`TokensAccounted`, `OnePlacePerContinuation` and `SubscribersInOrder`; `ReportsAreOwed` of
`NoticesAreOwed` and `OnlyUnhandledCollected`; `RunsInOrder` of `TimersInOrder` and
`NoStarvation`; `TablesAreExact` of `GenerationsBackRecords` and
`SideTablesExact`; `WorkIsAccounted` of `OnePlacePerWork` and `StatusIsTrue`;
`NothingRunsClosed` of `ClosedIsQuiet` and `FramesAreOpen`; `HandOffIsExact` of
`OneRuns` and `OneResumptionEach`.

Why the bounds are enough for the interesting cases. Two places in a queue and
two producers make woken producers and a third caller compete; four nested polls
let a finalization be found two frames inside a callback. Two inputs per
combinator already give every order of settlement, shared and repeated inputs,
and the output of the first combinator can feed the second. Three timers, two of
them registered at a time, give an old and a new one of any two kinds and a third
one set by a callback. Two promises let the listener for one handle, detach or drop the
other while it waits in the snapshot, and the bound on nesting lets it start a
second phase. Two invocations are one that leaves something behind and
one that could meet it; two work items are one the handler awaits and one it
does not. Three requests put two behind a running body, and four steps let it
await, call another body, and yield. Two words
of memory force addresses to be handed out again, and three allocations put a
record of an old generation next to a reclaimed and a new one.

Every property has a mutant in `PROJECT.json`, a plausible mistake in the code's
own terms that makes the run fail. Deadlock is checked for `addon_host` and
`arena`; in the other runs a program may simply be done, or has used up its bound.
`EveryTimerEnds` says that again and again no one-shot timer is left: as the bound
gives out finitely many ids, each once, that is the same as every one of them
ending, and it is checked as one formula.

### Fairness

- `ThreadsafeFunction`: the Host's loop (`thaw_napi_run_async_work`) goes on
  until it leaves, and a notified thread is scheduled. Callbacks and finalizers
  return, however often they call back in between: strong fairness, because each
  nested call disables the return for a while. Owners owe nothing.
  `BlockedCallReturns` rests on the bound on calls (`MaxCalls`) too: with unbounded
  competitors a non-blocking call could take every freed place before the woken
  thread does, which the code does not rule out.
- `Promises`: the loop polls, and callbacks and listeners return (weak fairness). Nobody has to
  settle, await or destroy anything.
- `NativeTimers`: the loop polls and the clock advances. Nothing makes descriptors
  run dry: poll_one runs a native timer only in a poll that dispatched no I/O
  (`thaw-runtime/src/lib.rs:742`), so one that is ready at every poll starves the
  timers. `EveryTimerEnds` therefore has the premise `[]<>~ioReady`, that again and
  again a poll finds nothing ready; without it TLC finds the starvation. Jobs are bounded
  (`MaxJobs`): poll_one prefers ready continuations, and a program whose
  continuations queue continuations for ever does starve its timers, in Node too.
- `AddonHost`: pool threads, callbacks and retirement steps go on; the thread
  that owns a started hook or a threadsafe function ends it; and the program
  keeps polling, reporting and trying to close. The last is what the generated
  main does after a shutdown was begun (`thaw-llvm/src/hir_codegen/entrypoints.rs`,
  the shutdown loop). Strong fairness, because callbacks interrupt the loop.
- `LambdaLoop`: the process takes its steps, a call of the handler returns or
  awaits, and time passes (timers become due, the deadline expires). A GET may
  wait for ever, a descriptor need never become ready, and no POST has to succeed.
- `Coroutines`: the threads are scheduled, a body that runs reaches an await, a
  yield or its end, the host runs its jobs, and what a body awaits settles.
  Nobody has to ask a generator for anything.

## 4. Proofs

Each `*Proofs` module extends the module it is about and proves, with TLAPS,
that its safety properties hold for every value of the constants that satisfies
the module's `ASSUME`. `PromisesLemmas` holds what the proofs about promises need
to know of boxes, tokens and lists; `PromisesProofs` extends it. The assumptions are those of the code and of the bounds,
and TLC evaluates each on every run.

| Module | Theorem | Says |
|---|---|---|
| `ThreadsafeFunctionProofs` | `TypeCorrect` | `TypeOK`; the unsigned counters never go below zero |
| | `ClosingIsSafe` | `FinalizedIsSafe`: a finalized function has no queued or running call in any frame, does not keep the loop alive, and is retired exactly when its finalizer has returned and nobody holds it |
| | `WorkStaysScheduled` | `WorkIsScheduled`: one event for whatever is pending, and no lost wakeup |
| | `CallsDeliveredInOrder` | `DeliveredInOrder`: each accepted call is popped once, in order |
| | `FinalizerRunsOnce` | `FinalizesOnce` |
| | `RefinesChannel` | `ImplementsChannel`: with its threads, locks, wakeups and nested polls it is the closable bounded channel of `BoundedChannel` |
| `AddonHostProofs` | `HostTypes` | `TypeOK`, with the depth of the stack below its bound |
| | `WorkAccounted` | `WorkIsAccounted`: a work is in one place and its status is true |
| | `ClosedEnvsStayQuiet` | `NothingRunsClosed`: nothing of a finalizing or finalized Env is active, and no frame of one is in the middle of the stack |
| | `HooksStartedOnce` | `HooksStartOnce` |
| `NativeTimersProofs` | `TimerTyping` | `TypeOK` |
| | `ClearedStaysGone` | `ClearedIsGone`: also for a timer cleared by its own callback |
| | `CallbacksInOrder` | `RunsInOrder`: Node's order of timers, and immediates set in a check phase wait for the next |
| | `IdleLosesNothing` | `IdleIsIdle` |
| `ArenaProofs` | `ArenaTypes` | `TypeOK` |
| | `TablesStayExact` | `TablesAreExact`: generations and records agree, and tables keyed by address have no entry of a dead allocation |
| | `NothingDangles` | `PointersStayValid` |
| | `ResetKeepsReached` | `ResetIsExact`: a reset keeps what the roots reach and nothing else |
| `LambdaLoopProofs` | `LambdaTypes` | `TypeOK` |
| | `InvocationsIsolated` | `InvocationsAreIsolated`: nothing of an invocation reaches the next |
| | `AnswersOwned` | `AnswersAreOwn`: a request gets one answer, its own |
| `PromisesProofs` | `Invariant` | the inductive invariant `Inv` of the rest |
| | `TypeSafety` | `TypeOK`; no counter goes below zero |
| | `ExactCounts` | `CountsAreExact`: each box's two token counters are what is held on it, and children and active combinators are counted right |
| | `SafeContinuations` | `ContinuationsAreSafe`: a continuation waits in one place, is resumed in the order of subscription after its input settled, and touches no freed box |
| | `SettlementsAreFinal` | `SettledForGood` |
| | `CancelledStaysInert` | `CancelledIsInert` |
| | `ReportsStayOwed` | `ReportsAreOwed`: in any nesting of report phases and whatever their listeners do, only what was unobserved is collected, what was collected is reported once, and a late handler is announced once and only for a rejection that was collected |
| | `CombinatorsStayRight` | `CombinatorsAreRight`: the output is settled as and when ECMAScript says |
| `CoroutinesProofs` | `CoroutineTypes` | `TypeOK` |
| | `HandOffStaysExact` | `HandOffIsExact`: one side runs, one resumption per await |
| | `StartStateStaysThere` | the `expect("generator start state")` does not panic |
| | `AnswersStayInOrder` | `AnswersInOrder` |
| | `ContinuationsArrive` | `ContinuationsReachHost`: once each and in the order of settlement |

Assumptions worth a word. `OwnersAssumption`: owners are finite, the Host's and
the initial ones are among them, and there is an initial one. `HostAssumption`:
the bound on frames is at least two, because a retirement needs its own frame
under the one of a cleanup. `CoroutinesAssumption`: the bodies of the three
kinds are disjoint, finite in number, and none is the host. `ArenaAssumption`:
roots and boxes lie outside of the arena's memory. The others say that bounds
are naturals. The theorems of `CoroutinesProofs` have the hypothesis
`~EarlyCalls`: no body calls a generator that another thread is just starting.
Without it the protocol is broken, and run `coroutine_start` has the trace; with it
`coroutines` and the proofs cover everything else.

No property is inductive as it stands. What each proof adds:

- **ThreadsafeFunction.** A tower. `StackInv`: types, the shape of the Host's
  stack (below its top the Host is in a user's callback or finalizer,
  `FrameShape`), `callbacks_in_flight` is the number of frames that run a call,
  `live` follows `live_released`, and no thread both sleeps and is woken; without
  the count of frames "in flight is zero" would say nothing of the outer
  callbacks. `FinalInv`: a finalized function is closing, empty and not being
  run, no ref is half done once it is finalized, and at most one frame finalizes.
  `SchedInv`: one event per function, and one for whatever must happen; it needs
  `FinalInv` where a frame is popped. `NoLostWakeup`, `RetiredMeansUnowned` and
  `DeliveredInOrder` are then inductive together with the first. For the
  refinement every action is mapped to a step of the channel or to a stutter,
  using `StackInv` and `FinalInv` (the channel closes before it is empty, and
  a call is delivered from its head).
- **AddonHost.** `PoolInv`: the pool's queue and the ready events list each
  work once, a worker's program point tells the state of the work it holds, and
  what was executed is what the state says. It does not mention Envs, and is proved by
  itself. `StackInv` gives the shape of the stack: what a frame at each depth
  can be, and where begin and finish of a retirement stand. `OpenInv`: every frame
  is of an Env in a state that allows it, an Env is initialized by one
  frame, an Env that is dispatching or finalizing has its frame second on the
  stack, and an Env lists handles of its own. Most actions are then "calm" (`Calm`): they neither
  open anything in a closed Env nor move the stack, and one lemma serves them.
- **NativeTimers.** `KnownInv`: ids and sequence numbers in use are below the
  next one, no two registered timers share a sequence number, and a frame's
  interval is still an interval. `PhaseInv`: what is due under the phase's
  snapshot of the clock comes after the timer that was run last, and the late
  immediates are beyond the phase's limit. The least of a set of keys is found by well-founded
  induction, and lemma `Phases` shows what the loop's changes of phase can do.
- **Arena.** `TableInv` = `MemInv` (records only while tracing, generations
  backed by records), `GraphInv`, `PhaseInv` (where a reset is among its hooks) and
  `SideInv`: an entry of a side table is exact or doomed, that is, of the
  reclaimed ranges and in a table whose hook is still to come. `PointerInv` is
  `PointersStayValid` with `MarkInv`, the loop invariant of marking: roots, the
  children of visited owners and the words of live allocations are visited or
  pending, an allocation is live just when a visited owner lies within it, and
  what is seen is in every closed set that holds the roots. When nothing is
  pending the seen set is closed itself, hence the least one; so the
  sweep keeps what is reached (`ResetKeepsReached`) without an induction.
- **Promises.** `Inv` has five parts, each an operator of the values it talks
  about, so that one lemma per helper of the heap (`PromisesLemmas`) serves all the
  actions that compose it. `Tokens`: the internal counter of a box is the number
  of frames and combinators that will settle it and of arena cells that store
  it, the external one what compiled code owns and the frames that consume it; a
  box with neither is not live. Four cardinalities move at once, and the lemmas on "tokens by
  their holders" say how each changes when one frame, state or cell does.
  `Places`: a frame is in one subscriber list, in the ready queue, on the stack
  or dropped by a purge, once; lists and queue are in the order of
  subscription. `Structure`: what a frame of each kind refers to, and that a
  combinator's state lives until its last child was resumed, with `remaining` the
  number of children left; without it the last child could release the output
  twice. `Lives`: timers and descriptor waits hold live boxes only, though no token.
  Reports need `Owes` on top: every notice given, due or still possible has a
  promise of its own that was reported or waits in a snapshot (`Known`), every frame's
  input is handled, an unhandled promise was seen by nobody and no statement left a
  rejection of it behind (`Orphans`), and a promise waits in one phase at most
  (`BatchesApart`). A phase moves a promise from
  unmarked to waiting (`Marked`) and from waiting to reported; each of the three
  report steps has a lemma for what it tells (`ReportFirstTells`, `ReportNextTells`, `EndReportsTells`).
  Combinators need `Rights`: the output is created by its combinator and nothing
  else can settle it (`Apart`: no resolver, timer, descriptor or other frame), no two share
  one, and the state's `done` flag says whether what was seen already decided.
  Most actions only change who observes or settles what (`Reacts`) or leave
  the outputs alone (`Leaves`); the combinators, `ResumeChild`, `Purge` and the reports are proved apart.
- **LambdaLoop.** `LoopInv`: the ids of work items are apart, `joins` counts
  the combinator inputs among them, all items belong to the request being served
  (`WorkInv`); what each program point says of request, trace, deadline and
  error slot (`PhaseInv`); and that only requests handed out were answered, not
  yet the one being served (`AnswersInv`).
- **Coroutines.** `ControlInv`: `cur_co` is the chain of calls. A thread
  blocks in `recv` just when it calls the coroutine above it, the top one is
  running, about to be resumed or has handed back, those below it run, and
  nothing is on its way to the others; status and thread of a generator agree.
  `PassInv`, on top: a caller's continuations were settled before those
  of its callees, and those before what is parked; so passing them down the chain
  keeps their order. `AnsInv`: the requests a generator has queued come
  after those it answered and before the next one, a body that runs or is being
  started does so for one of them, and answers that say done are those of a
  generator whose status is Done. Every action is one of seven
  moves of the chain (`Moves`), and the two later layers speak of moves only.

In each proof a step that preserves an invariant has one lemma per group of
actions; lemmas on sequences (push, pop, replace, remove at a place), on
cardinalities and on least elements come first.

Every invariant and action property of the passing runs is a theorem.
Only model-checked, on the instances of section 3: liveness (`ReadyIsResumed` and
`RejectionIsReported` of `Promises`, and the liveness properties of the other
modules) and everything under fairness, which are out of the prover's reach, as
is `ENABLED`; and the violations of section 6, which are traces.

## 5. Not modelled

- Promises: values and their conversion, the latch of a synchronous exception,
  fd watchers that keep a callback registered. `thaw_runtime_report_unhandled`, by
  which `main` starts a report phase outside of a poll, is no action of its own. What
  the listeners of rejectionHandled do counts as done after the poll: no record waits
  for them.
- Event loop: fd watchers, the JavaScript job hooks, native HTTP servers polled
  by `run_until_resolved`, `run_one_event` and `run_until_idle` (loops of the same
  polls without a deadline).
- Lambda loop: text of errors, HTTP parsing, the length of the back-off. An
  arena reset between invocations is `Arena`.
- Coroutines: values, the evaluator's depth and stack limits that `snapshot` and
  `restore` carry, async frames, the interpreter's own timers and loop, worker
  threads. One host: the parked queue is one per process
  (`thaw-runtime/src/lib.rs:535`), and with a worker that runs an interpreter of
  its own next to compiled code, its host could adopt what another host's
  coroutine parked. A thread limit that is hit when an async generator starts
  leaves its request queued until another comes (`Drive` has it). A panic in a
  body leaves its caller in `recv` for ever, because the coroutine keeps a
  `Sender` of the channel. A body that ends with neither a value nor an exception
  (`Ctl::Unsupported`, `Ctl::Exit`: the interpreter gives up or the process exits)
  makes `agen_done` return before it drives the queue
  (`thaw-js/src/generators.rs:305`): `AgenDone` has values and exceptions only, and
  `RequestsAnswered` is about programs that go on.
- Timers: the descriptor and poll timeout computed for the foreign loop.
  `thaw_timer_has_ref` is read-only; it answers 1 for a one-shot that is gone,
  while a comment in `run_one_native_timer` says that it is false inside the
  callback.
- Addon host: uv loops, native graph pins, failure to spawn pool threads, and
  the finalizer lists of `finish_cleanup` other than posted ones.
  `retire_owned_envs` also retires `pending_call_envs` whose shutdown nobody asked
  for (`thaw-napi/src/lib.rs:2319`), but only tests put anything in that list.
  `thaw_napi_finish_shutdown` is one step: destructors that run in `dlclose` may call
  back, and the `ForeignCallbackGuard` it holds turns those calls away.
- Arena: the read-only walks (`snapshot_native_graph`, `mark_native_graph`),
  string encoding, array capacities, exhausted serial numbers, zero-size
  allocations (recorded with size one; no caller found asks for one). References
  of an allocation that is reached only through an interior pointer are kept but
  not followed (`thaw-arena/src/lib.rs:788`): the model has it so, and its callers
  name allocations by their base. `was_reclaimed` is also asked outside of hooks, for the address in
  the text of an Error (`thaw-std/src/json.rs`); that identity table is not modelled.
- Compiler, command line, registry, ICU data, JSON, HTTP parsing: sequential
  data conversion over unbounded inputs, which is by far the largest part of the
  repository; no finite instance would represent it.

## 6. Where the code and its comments disagree

Shown by runs that expect a violation:

- `lambda_latch`: `thaw_runtime_run_until_resolved` is documented to drive "ready
  continuations and timers until `promise` settles". `thaw_runtime_poll_one` runs
  no native timer while `UNHANDLED_FAILURE` is set, and in a Lambda process nothing
  clears it: the purge leaves it alone, and the function that takes it is called
  by the generated `main` of programs without a handler. In the trace request 1
  leaves a rejection behind, is answered and purged; request 2 rejects nothing,
  awaits a `setTimeout`, and waits for ever with the timer due. `latch` holds the
  request that set it, and the property speaks of a latch set in an earlier one;
  with a purge that clears the latch TLC finds no violation. The comment on
  `thaw_runtime_abort_pending_work` (`thaw-runtime/src/lib.rs:833`) says that pending
  timers must not fire after a fatal rejection, because it ends the process; a
  Lambda process is not ended, asks for the next request, and goes on to run
  continuations, sleeps and descriptors, with only the native timers dead.
- `coroutine_start`: the documentation of `eventloop.rs` says that "exactly one of
  {host, coroutine} runs at any time". `new_co` starts the body's thread before
  `gen_resume` and `agen_drive` set the status, so a body that asks its own
  generator for a value at once may pass the test for `Running` and panic at
  `expect("generator start state")`. Reference counts are touched by both threads
  in the same window.
- `arena_hooks`: `register_reset_hook` says that a hook "may use `was_reclaimed`
  to discard only dead identities". When an earlier hook's callback allocates,
  it may be handed an address of the reclaimed ranges, and a later hook then
  discards the entry of the live allocation. With one hook, or with hooks that
  do not allocate, the tables are exact (`SideTablesExact` in run `arena`).

Met while modelling, without a run of their own:

- `thaw_promise_detach_unhandled` is documented to report "a rejection nobody
  handled"; the code reports the rejection of every promise a statement detaches,
  also when another consumer awaits it. `OnlyUnhandledCollected` therefore leaves
  out promises that have an orphaned rejection.
- `thaw_promise_drain_unhandled_result` is documented to report rejected promises
  "which never gained a subscriber" (`thaw-runtime/src/runtime/promises.rs:2231`). A
  promise that a listener handles while it waits in the snapshot has one when it is
  reported, and a listener that polls may see rejectionHandled for it before the report. `ReportsAreOwed`
  says what does hold: it was unhandled when it was collected, is reported once,
  and has one rejectionHandled event.
- `thaw_runtime_drain_detached` tests the deadline before each poll but does not
  cap its wait by it, while its comment says that an invocation past its deadline
  is abandoned: a detached input that waits for a silent descriptor keeps the
  process from asking for the next invocation (`Sleep` and `Wake` have it so).
- Rejections that are unhandled and not yet reported survive the purge, and an
  idle poll of a later invocation reports them.

## 7. Plan

Modelled: threadsafe functions with the channel they implement, promises, timers,
the addon host, the arena, the Lambda loop, coroutines. Proved: every safety
property of all of them, and the refinement of the channel. What is left, in
this order:

1. An abstract worker pool implemented by `AddonHost`, with the refinement
   proved as for the channel.
2. An abstract promise, without tokens and boxes, implemented by `Promises`; `Inv`
   has what its refinement needs.
3. Worker messages and the timers of `thaw-js`; handle scopes and references of
   N-API; identity tables keyed by arena address.
