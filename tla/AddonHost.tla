------------------------------ MODULE AddonHost ------------------------------
(***************************************************************************)
(* The N-API host of one thread: addon environments, their asynchronous    *)
(* work on the worker pool, their cleanup hooks and the phased shutdown    *)
(* (thaw-napi).  The owner thread is a stack of frames: polls, callbacks   *)
(* of addon code, and the retirement of environments.  Pool workers, and   *)
(* the foreign threads that finish asynchronous cleanup hooks, interleave  *)
(* with it.  Threadsafe functions appear only as "live" or not.            *)
(***************************************************************************)
EXTENDS Naturals, Sequences, FiniteSets, SequencesExt

CONSTANTS Envs,      \* addresses of Env boxes
          Works,     \* addresses of AsyncWork items
          Workers,   \* the pool's threads
          Handles,   \* asynchronous cleanup handles; they are never freed
          Hooks,     \* (function, data) pairs given to napi_add_env_cleanup_hook
          None,      \* no work, no Env
          MaxDepth,  \* bound: frames of the owner thread below an innermost callback
          MaxOps     \* bound: calls that give the host something new to do

ASSUME HostAssumption ==
    /\ None \notin Works \cup Envs
    /\ MaxDepth \in Nat \ {0, 1} /\ MaxOps \in Nat

VARIABLES
    env,        \* the Env boxes, in HOST once published
    work,       \* the AsyncWork items
    queue,      \* AsyncPool.queue
    worker,     \* what each pool thread holds
    events,     \* READY_EVENTS: completions to deliver
    handle,     \* ASYNC_CLEANUP_HANDLES
    stack,      \* the owner thread, innermost frame last
    unloading,  \* HOST.unloading
    errors,     \* HOST.shutdown_errors is not empty
    budget,     \* what remains of MaxOps
    executed    \* ghost: the works whose execute callback was run

pool == <<work, queue, worker, events, executed>>
host == <<env, handle, unloading, errors>>
vars == <<pool, host, stack, budget>>

EnvBox == [life : {"none", "init", "live", "finalizing", "finalized"},
          shutdown : BOOLEAN, dispatching : BOOLEAN, tsfn : BOOLEAN, posted : BOOLEAN,
          hooks : Seq(Hooks), handles : Seq(Handles)]

NewEnv(life) == [life |-> life, shutdown |-> FALSE, dispatching |-> FALSE, tsfn |-> FALSE,
                 posted |-> FALSE, hooks |-> <<>>, handles |-> <<>>]

AsyncWork == [env : Envs, status : {"ok", "cancelled"},
              state : {"created", "queued", "executing", "pending", "completed", "deleted"}]

NoWork == [state |-> "none"]

NoHandle == [state |-> 3]

\* A frame: its operation, its program point, the Env, and what it has left.
Frame == [op : {"poll", "callback", "init", "retire", "begin", "finish"},
          at : {"drain", "events", "check", "begin", "hooks", "posted", "run", "call"},
          env : Envs \cup {None}, todo : SUBSET Envs, all : SUBSET Envs,
          batch : Seq(Handles) \cup Seq(Hooks)]

F(op, at, e, batch) ==
    [op |-> op, at |-> at, env |-> e, todo |-> {}, all |-> {}, batch |-> batch]

Top  == stack[Len(stack)]
Pop  == SubSeq(stack, 1, Len(stack) - 1)
At(op, at) == stack # <<>> /\ Top.op = op /\ Top.at = at
GoTo(f) == Append(Pop, f)

Published == {e \in Envs : env[e].life \notin {"none", "init"}}

Active == {w \in Works : work[w].state \in {"queued", "executing", "pending"}}

\* Addon code runs on the owner thread, in a callback or in a module's init.
AddonRuns == stack # <<>> /\ Top.op \in {"callback", "init"}
TopLevel  == stack = <<>>
Fits      == Len(stack) < MaxDepth

\* ForeignCallbackGuard::active, for a stack of frames.
Guarded(s) == \E k \in 1..Len(s) : s[k].op \in {"poll", "callback", "init", "finish"}

\* Every call that brings the host something new to do.
Spend == budget > 0 /\ budget' = budget - 1

-----------------------------------------------------------------------------
(* Asynchronous work.                                                      *)

CanOpen(e) == env[e].life \in {"init", "live"}

Held == {worker[k].w : k \in Workers}

\* Which of the addresses never used, or freed, comes next is immaterial: one
\* of them stands for all.
Unused(free) == IF free = {} THEN {} ELSE {CHOOSE a \in free : TRUE}

\* A create reaps the deleted items of its Env, whose addresses it may get.
CreateWork(e, w) ==
    /\ AddonRuns /\ CanOpen(e) /\ Spend
    /\ LET reaped == {x \in Works : work[x].state = "deleted" /\ work[x].env = e}
       IN  /\ w \in Unused({x \in Works : work[x] = NoWork} \ Held) \cup (reaped \ Held)
           /\ work' = [x \in Works |->
                         IF x = w THEN [env |-> e, status |-> "ok", state |-> "created"]
                         ELSE IF x \in reaped THEN NoWork ELSE work[x]]
    /\ executed' = executed \ {w}
    /\ UNCHANGED <<queue, worker, events, host, stack>>

QueueWork(w) ==
    /\ AddonRuns /\ work[w].state = "created" /\ CanOpen(work[w].env)
    /\ work' = [work EXCEPT ![w].state = "queued"]
    /\ queue' = Append(queue, w)
    /\ UNCHANGED <<worker, events, executed, host, stack, budget>>

\* Cancels a work that a worker has begun.
CancelWorkLate(w) ==
    /\ AddonRuns /\ work[w].state \in {"queued", "executing"}
    /\ env[work[w].env].life # "finalized"
    /\ \/ \E i \in 1..Len(queue) : queue[i] = w /\ queue' = RemoveAt(queue, i)
       \/ work[w].state = "executing" /\ UNCHANGED queue
    /\ work' = [work EXCEPT ![w].status = "cancelled", ![w].state = "pending"]
    /\ events' = Append(events, w)
    /\ UNCHANGED <<worker, executed, host, stack, budget>>

CancelWork(w) ==
    /\ AddonRuns /\ work[w].state = "queued" /\ env[work[w].env].life # "finalized"
    /\ \E i \in 1..Len(queue) : queue[i] = w /\ queue' = RemoveAt(queue, i)
    /\ work' = [work EXCEPT ![w].status = "cancelled", ![w].state = "pending"]
    /\ events' = Append(events, w)
    /\ UNCHANGED <<worker, executed, host, stack, budget>>

DeleteWork(w) ==
    /\ AddonRuns /\ work[w].state \in {"created", "completed"}
    /\ env[work[w].env].life # "finalized"
    /\ work' = [work EXCEPT ![w].state = "deleted"]
    /\ UNCHANGED <<queue, worker, events, executed, host, stack, budget>>

\* A worker pops an entry and marks it under the queue's lock.
WorkerTake(k) ==
    /\ worker[k].w = None /\ queue # <<>>
    /\ LET w == Head(queue)
       IN  /\ worker' = [worker EXCEPT ![k] = [w |-> w, at |-> "executing"]]
           /\ work' = [work EXCEPT ![w].state = "executing"]
           /\ executed' = executed \cup {w}
    /\ queue' = Tail(queue)
    /\ UNCHANGED <<events, host, stack, budget>>

\* execute returned: the state is stored before the event is posted.
WorkerFinish(k) ==
    /\ worker[k].w # None /\ worker[k].at = "executing"
    /\ work' = [work EXCEPT ![worker[k].w].status = "ok", ![worker[k].w].state = "pending"]
    /\ worker' = [worker EXCEPT ![k].at = "posting"]
    /\ UNCHANGED <<queue, events, executed, host, stack, budget>>

\* The worker forgets to post the completion.
WorkerPostNothing(k) ==
    /\ worker[k].w # None /\ worker[k].at = "posting"
    /\ worker' = [worker EXCEPT ![k] = [w |-> None, at |-> "idle"]]
    /\ UNCHANGED <<work, queue, events, executed, host, stack, budget>>

WorkerPost(k) ==
    /\ worker[k].w # None /\ worker[k].at = "posting"
    /\ events' = Append(events, worker[k].w)
    /\ worker' = [worker EXCEPT ![k] = [w |-> None, at |-> "idle"]]
    /\ UNCHANGED <<work, queue, executed, host, stack, budget>>

-----------------------------------------------------------------------------
(* Cleanup hooks, posted finalizers and threadsafe functions.              *)

AddHook(e, k) ==
    /\ AddonRuns /\ CanOpen(e) /\ Spend
    /\ \A i \in 1..Len(env[e].hooks) : env[e].hooks[i] # k
    /\ env' = [env EXCEPT ![e].hooks = Append(@, k)]
    /\ UNCHANGED <<pool, handle, unloading, errors, stack>>

RemoveHook(e, k) ==
    /\ AddonRuns /\ env[e].life # "finalized"
    /\ \E i \in 1..Len(env[e].hooks) :
          env[e].hooks[i] = k /\ env' = [env EXCEPT ![e].hooks = RemoveAt(@, i)]
    /\ UNCHANGED <<pool, handle, unloading, errors, stack, budget>>

\* A handle may be added to a closing Env only while its hooks are dispatched.
AddHandle(e, h) ==
    /\ AddonRuns /\ CanOpen(e) /\ Spend
    /\ env[e].shutdown => env[e].dispatching
    /\ handle[h] = NoHandle
    /\ handle' = [handle EXCEPT ![h] = [env |-> e, state |-> 0]]
    /\ env' = [env EXCEPT ![e].handles = Append(@, h)]
    /\ UNCHANGED <<pool, unloading, errors, stack>>

\* Counts removals instead of marking the handle removed.
RemoveHandleCounting(h) ==
    /\ handle[h] # NoHandle /\ handle[h].state < 3
    /\ handle' = [handle EXCEPT ![h].state = @ + 1]
    /\ UNCHANGED <<pool, env, unloading, errors, stack, budget>>

\* Any thread: 0 is a tombstone for the owner, 1 a hook that has finished.
RemoveHandle(h) ==
    /\ handle[h].state \in {0, 1}
    /\ handle' = [handle EXCEPT ![h].state = 2]
    /\ UNCHANGED <<pool, env, unloading, errors, stack, budget>>

PostFinalizer(e) ==
    /\ AddonRuns /\ env[e].life \in {"init", "live", "finalizing"} /\ ~env[e].posted /\ Spend
    /\ env' = [env EXCEPT ![e].posted = TRUE]
    /\ UNCHANGED <<pool, handle, unloading, errors, stack>>

CreateTsfn(e) ==
    /\ AddonRuns /\ CanOpen(e) /\ ~env[e].tsfn /\ Spend
    /\ env' = [env EXCEPT ![e].tsfn = TRUE]
    /\ UNCHANGED <<pool, handle, unloading, errors, stack>>

\* Its finalizer ran and its last thread released it.
RetireTsfn(e) ==
    /\ env[e].tsfn
    /\ env' = [env EXCEPT ![e].tsfn = FALSE]
    /\ UNCHANGED <<pool, handle, unloading, errors, stack, budget>>

AnyTsfn == \E e \in Envs : env[e].tsfn

-----------------------------------------------------------------------------
(* Modules and calls.                                                      *)

Load(e) ==
    /\ (TopLevel \/ AddonRuns) /\ Fits /\ ~unloading /\ Spend
    /\ e \in Unused({x \in Envs : env[x].life = "none"})
    /\ env' = [env EXCEPT ![e] = NewEnv("init")]
    /\ stack' = Append(stack, F("init", "run", e, <<>>))
    /\ UNCHANGED <<pool, handle, unloading, errors>>

\* retire_owned_envs does nothing inside a callback.
Retire(s) == IF Guarded(s) THEN s ELSE Append(s, F("retire", "check", None, <<>>))

\* A module whose init threw is published to be shut down.
InitReturns(failed) ==
    /\ At("init", "run")
    /\ env' = [env EXCEPT ![Top.env].life = "live", ![Top.env].shutdown = failed]
    /\ stack' = IF failed THEN Retire(Pop) ELSE Pop
    /\ UNCHANGED <<pool, handle, unloading, errors, budget>>

\* The program calls an exported function; a closing Env refuses.
CallExport(e) ==
    /\ TopLevel /\ env[e].life = "live" /\ ~env[e].shutdown /\ Spend
    /\ stack' = Append(stack, F("callback", "call", e, <<>>))
    /\ UNCHANGED <<pool, host>>

\* A callback returns; a thrown exception is kept for the host to report.
Return(threw) ==
    /\ stack # <<>> /\ Top.op = "callback"
    /\ threw => Top.at = "run" /\ ~errors
    /\ errors' = (errors \/ threw)
    /\ stack' = Pop
    /\ UNCHANGED <<pool, env, handle, unloading, budget>>

-----------------------------------------------------------------------------
(* thaw_napi_poll_async_work.                                              *)

Poll ==
    /\ TopLevel \/ (AddonRuns /\ budget > 0)
    /\ Fits
    /\ budget' = IF TopLevel THEN budget ELSE budget - 1
    /\ stack' = Append(stack, F("poll", "drain", None, <<>>))
    /\ UNCHANGED <<pool, host>>

Posted == {e \in Published : env[e].posted}

\* drain_posted_finalizers takes the records of every Env, then runs them.
PollTake ==
    /\ At("poll", "drain") /\ Top.todo = {} /\ Posted # {}
    /\ env' = [e \in Envs |-> [env[e] EXCEPT !.posted = @ /\ e \notin Posted]]
    /\ stack' = GoTo([Top EXCEPT !.todo = Posted])
    /\ UNCHANGED <<pool, handle, unloading, errors, budget>>

PollRun(e) ==
    /\ At("poll", "drain") /\ e \in Top.todo
    /\ stack' = Append(GoTo([Top EXCEPT !.todo = @ \ {e}]), F("callback", "run", e, <<>>))
    /\ UNCHANGED <<pool, host, budget>>

PollDrained ==
    /\ At("poll", "drain") /\ Top.todo = {} /\ Posted = {}
    /\ stack' = GoTo([Top EXCEPT !.at = "events"])
    /\ UNCHANGED <<pool, host, budget>>

\* run_one_async_completion
PollEvent ==
    /\ At("poll", "events") /\ events # <<>>
    /\ events' = Tail(events)
    /\ work' = [work EXCEPT ![Head(events)].state = "completed"]
    /\ stack' = Append(stack, F("callback", "run", work[Head(events)].env, <<>>))
    /\ UNCHANGED <<queue, worker, executed, host, budget>>

PollEnd ==
    /\ At("poll", "events") /\ events = <<>>
    /\ stack' = IF Posted # {} THEN GoTo([Top EXCEPT !.at = "drain"]) ELSE Retire(Pop)
    /\ UNCHANGED <<pool, host, budget>>

-----------------------------------------------------------------------------
(* retire_owned_envs, begin_async_cleanup and finish_cleanup.              *)

HandlesPending(e) == \E h \in Handles : handle[h].state = 1 /\ handle[h].env = e

\* has_active_cleanup
CleanupActive ==
    \E e \in Published : \/ env[e].dispatching
                         \/ HandlesPending(e)
                         \/ env[e].shutdown /\ env[e].handles # <<>>

\* Work of Envs that are not in HOST is not seen.
WorkActive == \E w \in Active : work[w].env \in Published

\* HOST.pending_call_envs is empty: nothing adds to it.
RetireCheck ==
    /\ At("retire", "check")
    /\ LET retiring == {e \in Published : env[e].shutdown}
       IN  stack' = IF WorkActive \/ AnyTsfn THEN Pop
                    ELSE GoTo([Top EXCEPT !.at = "begin", !.todo = retiring, !.all = retiring])
    /\ UNCHANGED <<pool, host, budget>>

RetireBegin(e) ==
    /\ At("retire", "begin") /\ e \in Top.todo
    /\ LET rest == GoTo([Top EXCEPT !.todo = @ \ {e}])
       IN  IF ~env[e].dispatching /\ env[e].handles # <<>>
           THEN /\ env' = [env EXCEPT ![e].dispatching = TRUE]
                /\ stack' = Append(rest, F("begin", "run", e, <<>>))
           ELSE stack' = rest /\ UNCHANGED env
    /\ UNCHANGED <<pool, handle, unloading, errors, budget>>

\* Forgets to leave the dispatching state.
BeginTakeForgets ==
    /\ At("begin", "run") /\ Top.batch = <<>>
    /\ LET e == Top.env
       IN  IF env[e].handles = <<>>
           THEN stack' = Pop /\ UNCHANGED env
           ELSE /\ env' = [env EXCEPT ![e].handles = <<>>]
                /\ stack' = GoTo([Top EXCEPT !.batch = env[e].handles])
    /\ UNCHANGED <<pool, handle, unloading, errors, budget>>

\* The hooks registered so far, newest first; then those they registered.
BeginTake ==
    /\ At("begin", "run") /\ Top.batch = <<>>
    /\ LET e == Top.env
       IN  IF env[e].handles = <<>>
           THEN env' = [env EXCEPT ![e].dispatching = FALSE] /\ stack' = Pop
           ELSE /\ env' = [env EXCEPT ![e].handles = <<>>]
                /\ stack' = GoTo([Top EXCEPT !.batch = env[e].handles])
    /\ UNCHANGED <<pool, handle, unloading, errors, budget>>

\* Starts a hook that was removed before its turn.
BeginNextTombstone ==
    /\ At("begin", "run") /\ Top.batch # <<>>
    /\ LET h    == Top.batch[Len(Top.batch)]
           rest == GoTo([Top EXCEPT !.batch = SubSeq(@, 1, Len(@) - 1)])
       IN  /\ handle' = [handle EXCEPT ![h].state = 1]
           /\ stack' = Append(rest, F("callback", "run", Top.env, <<>>))
    /\ UNCHANGED <<pool, env, unloading, errors, budget>>

BeginNext ==
    /\ At("begin", "run") /\ Top.batch # <<>>
    /\ LET h    == Top.batch[Len(Top.batch)]
           rest == GoTo([Top EXCEPT !.batch = SubSeq(@, 1, Len(@) - 1)])
       IN  IF handle[h].state = 0
           THEN /\ handle' = [handle EXCEPT ![h].state = 1]
                /\ stack' = Append(rest, F("callback", "run", Top.env, <<>>))
           ELSE stack' = rest /\ UNCHANGED handle
    /\ UNCHANGED <<pool, env, unloading, errors, budget>>

\* Forgets the work queued by the cleanup hooks just run.
BarrierHooksOnly == CleanupActive \/ AnyTsfn

Barrier == WorkActive \/ CleanupActive \/ AnyTsfn

Retirable(e) ==
    /\ env[e].life = "live"
    /\ ~env[e].dispatching /\ ~HandlesPending(e) /\ env[e].handles = <<>>

RetireNext ==
    /\ At("retire", "begin") /\ Top.todo = {}
    /\ LET next == {e \in Top.all : Retirable(e)}
       IN  IF Barrier \/ next = {}
           THEN stack' = Pop /\ UNCHANGED env
           ELSE \E e \in next :
                   /\ env' = [env EXCEPT ![e].life = "finalizing", ![e].hooks = <<>>]
                   /\ stack' = Append(GoTo([Top EXCEPT !.at = "check", !.all = {}]),
                                      F("finish", "hooks", e, env[e].hooks))
    /\ UNCHANGED <<pool, handle, unloading, errors, budget>>

FinishHook ==
    /\ At("finish", "hooks")
    /\ stack' = IF Top.batch = <<>> THEN GoTo([Top EXCEPT !.at = "posted"])
                ELSE Append(GoTo([Top EXCEPT !.batch = SubSeq(@, 1, Len(@) - 1)]),
                            F("callback", "run", Top.env, <<>>))
    /\ UNCHANGED <<pool, host, budget>>

\* Finalizers may post further finalizers.
FinishPosted ==
    /\ At("finish", "posted")
    /\ LET e == Top.env
       IN  IF env[e].posted
           THEN /\ env' = [env EXCEPT ![e].posted = FALSE]
                /\ stack' = Append(stack, F("callback", "run", e, <<>>))
           ELSE /\ env' = [env EXCEPT ![e].life = "finalized"]
                /\ stack' = Pop
    /\ UNCHANGED <<pool, handle, unloading, errors, budget>>

-----------------------------------------------------------------------------
(* The phased shutdown, from the program's main.                           *)

\* An exception a native call left pending is kept before the hooks run.
BeginShutdown ==
    /\ TopLevel
    /\ unloading' = TRUE
    /\ errors' \in {errors, errors \/ Published # {}}
    /\ env' = IF unloading THEN env
              ELSE [e \in Envs |-> [env[e] EXCEPT !.shutdown = @ \/ e \in Published]]
    /\ stack' = Retire(stack)
    /\ UNCHANGED <<pool, handle, budget>>

ReportErrors ==
    /\ TopLevel /\ errors
    /\ errors' = FALSE
    /\ UNCHANGED <<pool, env, handle, unloading, stack, budget>>

MayRelease == unloading /\ ~Barrier /\ ~errors /\ \A e \in Published : env[e].life = "finalized"

\* thaw_napi_finish_shutdown frees the Envs and the libraries.  A library's
\* destructors may call back; the guard it holds makes each such call a no-op.
FinishShutdown ==
    /\ TopLevel /\ MayRelease
    /\ env' = [e \in Envs |-> IF e \in Published THEN NewEnv("none") ELSE env[e]]
    /\ work' = [w \in Works |-> IF work[w] # NoWork /\ work[w].env \in Published
                                THEN NoWork ELSE work[w]]
    /\ unloading' = FALSE
    /\ UNCHANGED <<queue, worker, events, executed, handle, errors, stack, budget>>

-----------------------------------------------------------------------------
Init ==
    /\ env = [e \in Envs |-> NewEnv("none")]
    /\ work = [w \in Works |-> NoWork]
    /\ queue = <<>> /\ events = <<>> /\ stack = <<>>
    /\ worker = [k \in Workers |-> [w |-> None, at |-> "idle"]]
    /\ handle = [h \in Handles |-> NoHandle]
    /\ unloading = FALSE /\ errors = FALSE
    /\ budget = MaxOps /\ executed = {}

Addon ==
    \/ \E e \in Envs, w \in Works : CreateWork(e, w)
    \/ \E w \in Works : QueueWork(w) \/ CancelWork(w) \/ DeleteWork(w)
    \/ \E e \in Envs, k \in Hooks : AddHook(e, k) \/ RemoveHook(e, k)
    \/ \E e \in Envs, h \in Handles : AddHandle(e, h)
    \/ \E e \in Envs : PostFinalizer(e) \/ CreateTsfn(e)

Pool == \E k \in Workers : WorkerTake(k) \/ WorkerFinish(k) \/ WorkerPost(k)

Foreign == (\E h \in Handles : RemoveHandle(h)) \/ (\E e \in Envs : RetireTsfn(e))

Callbacks == (\E threw \in BOOLEAN : Return(threw)) \/ (\E failed \in BOOLEAN : InitReturns(failed))

Polling == PollTake \/ (\E e \in Envs : PollRun(e)) \/ PollDrained \/ PollEvent \/ PollEnd

Retiring == RetireCheck \/ (\E e \in Envs : RetireBegin(e)) \/ BeginTake \/ BeginNext
            \/ RetireNext \/ FinishHook \/ FinishPosted

Program == Poll \/ BeginShutdown \/ ReportErrors \/ FinishShutdown
           \/ (\E e \in Envs : Load(e) \/ CallExport(e))

Next == Addon \/ Pool \/ Foreign \/ Callbacks \/ Polling \/ Retiring \/ Program

Spec == Init /\ [][Next]_vars

\* Threads of the pool run, callbacks return, and main keeps polling,
\* reporting and trying to close; threads that own a started hook or a
\* threadsafe function end it.
FairSpec ==
    /\ Spec
    /\ WF_vars(Pool) /\ WF_vars(Foreign)
    /\ WF_vars(Callbacks \/ Polling \/ Retiring)
    /\ SF_vars(Poll) /\ SF_vars(ReportErrors) /\ SF_vars(FinishShutdown)

-----------------------------------------------------------------------------
\* Every variable keeps its type.
TypeOK ==
    /\ env \in [Envs -> EnvBox]
    /\ work \in [Works -> AsyncWork \cup {NoWork}]
    /\ queue \in Seq(Works) /\ events \in Seq(Works)
    /\ worker \in [Workers -> [w : Works \cup {None}, at : {"idle", "executing", "posting"}]]
    /\ handle \in [Handles -> [env : Envs, state : 0..2] \cup {NoHandle}]
    /\ stack \in Seq(Frame) /\ Len(stack) <= MaxDepth + 1
    /\ unloading \in BOOLEAN /\ errors \in BOOLEAN
    /\ budget \in 0..MaxOps /\ executed \subseteq Works

Times(s, w) == Cardinality({i \in 1..Len(s) : s[i] = w})
HeldAt(w, at) == Cardinality({k \in Workers : worker[k] = [w |-> w, at |-> at]})

\* Every active work is in exactly one place: a queued one in the pool's queue,
\* an executing one in a worker, a finished one with its worker or in the ready
\* events; no place names a work that is not active, deleted or freed.
OnePlacePerWork ==
    \A w \in Works :
        /\ Times(queue, w) = (IF work[w].state = "queued" THEN 1 ELSE 0)
        /\ HeldAt(w, "executing") = (IF work[w].state = "executing" THEN 1 ELSE 0)
        /\ Times(events, w) + HeldAt(w, "posting") = (IF work[w].state = "pending" THEN 1 ELSE 0)

\* The completion callback is told the truth: cancelled exactly when the execute
\* callback never ran, however the cancel raced with the workers.
StatusIsTrue ==
    \A w \in Works : work[w].state \in {"pending", "completed"} =>
        (work[w].status = "cancelled" <=> w \notin executed)

\* Asynchronous work is never lost, doubled or misreported between the pool's
\* lock, its workers and the ready events.
WorkIsAccounted == OnePlacePerWork /\ StatusIsTrue

\* An Env that is being finalized, is finalized or is freed has nothing that
\* could still call into it: no active work, no live threadsafe function, no
\* unfinished asynchronous hook.  Once it is finalized every hook and finalizer
\* it was given has run.
ClosedIsQuiet ==
    \A e \in Envs : env[e].life \notin {"init", "live"} =>
        /\ ~env[e].tsfn /\ ~HandlesPending(e) /\ env[e].handles = <<>> /\ ~env[e].dispatching
        /\ \A w \in Active : work[w].env # e
        /\ env[e].life # "finalizing" => ~env[e].posted /\ env[e].hooks = <<>>

\* No callback on the owner's stack belongs to an Env that is finalized or freed,
\* although callbacks poll and shut down: retirement is never begun inside itself
\* or inside a callback.
FramesAreOpen ==
    /\ \A i \in 1..Len(stack) : stack[i].op = "retire" => i = 1
    /\ \A i \in 1..Len(stack) : stack[i].op \in {"callback", "init", "begin", "finish"} =>
          env[stack[i].env].life \in {"init", "live", "finalizing"}

\* Nothing of an addon runs once its Env is closed, and nothing that could run
\* then is left (finalize_env, retire and the guards of the cleanup).
NothingRunsClosed == ClosedIsQuiet /\ FramesAreOpen

\* An asynchronous cleanup hook starts at most once, and never after its removal.
HooksStartOnce ==
    [][\A h \in Handles : handle[h] # NoHandle => handle'[h].state >= handle[h].state]_vars

\* Queued work completes.
WorkCompletes ==
    \A w \in Works : work[w].state \in {"queued", "executing", "pending"}
                     ~> work[w].state \notin {"queued", "executing", "pending"}

\* A shutdown that was begun ends with every Env released.
ShutdownEnds == unloading ~> ~unloading
=============================================================================
