----------------------------- MODULE Coroutines -----------------------------
(***************************************************************************)
(* Async functions, generators and async generators of thaw-js.  Each body *)
(* runs on an OS thread of its own, and a hand-off protocol over two       *)
(* channels is to let only one side run at a time: the caller sends a      *)
(* Resume and blocks in recv, the body sends a Yield and blocks in recv.   *)
(* A body calls other bodies, so callers nest; cur_co is their stack.      *)
(* Async generators queue their requests and agen_drive answers them.      *)
(*                                                                         *)
(* A generator is a coroutine here whether its thread exists yet or not.   *)
(* Values are left out; a request is known by its number.  Continuations   *)
(* of native Promises that a body settles sit in the ready queue of the    *)
(* thread that settled them until park and adopt move them to its host.    *)
(***************************************************************************)
EXTENDS Naturals, Sequences, FiniteSets, Functions

CONSTANTS AsyncFuncs,    \* calls of async functions
          Generators,    \* generator objects
          AsyncGens,     \* async generator objects
          Host,          \* the thread of the event loop
          None,          \* no coroutine
          MaxRequests,   \* bound: calls of next, throw and return
          MaxSteps,      \* bound: awaits, yields and calls of the bodies
          MaxNative,     \* bound: native Promises settled
          EarlyCalls     \* whether a body calls a generator that is being started

Cos == AsyncFuncs \cup Generators \cup AsyncGens

Threads == Cos \cup {Host}

ASSUME CoroutinesAssumption ==
    /\ AsyncFuncs \cap Generators = {} /\ AsyncFuncs \cap AsyncGens = {}
    /\ Generators \cap AsyncGens = {}
    /\ Host \notin Cos /\ None \notin Threads
    /\ IsFiniteSet(Cos)
    /\ MaxRequests \in Nat /\ MaxSteps \in Nat /\ MaxNative \in Nat
    /\ EarlyCalls \in BOOLEAN

Reqs == {"next", "throw", "return"}

VARIABLES
    status,    \* GenData.status
    start,     \* GenData.start is Some
    queue,     \* GenData.queue of an async generator
    curCo,     \* rt.cur_co
    thread,    \* where the coroutine's thread is
    duty,      \* what a running body must do next, once resumed at a yield
    inbox,     \* to_co / from_host: a Resume
    outbox,    \* to_host / from_co: a Yield
    waiting,   \* the coroutine a thread waits for in recv
    starting,  \* the coroutine a thread has set going without having marked it
    pending,   \* coroutines that await a Promise that is not settled
    jobs,      \* rt.micro: reactions that resume a coroutine
    ready,     \* READY_CONTINUATIONS of each thread
    parked,    \* PARKED_CONTINUATIONS
    asked,     \* requests made
    answers,   \* requests answered, in order
    steps      \* steps the bodies took

gens   == <<status, start, queue>>
chans  == <<inbox, outbox>>
native == <<ready, parked>>
vars   == <<gens, curCo, thread, duty, chans, waiting, starting, pending, jobs,
            native, asked, answers, steps>>

\* Blocked at await, at the await of a yield's operand, or at a yield.
Suspensions == {"await", "operand", "yield"}

\* The threads that execute JavaScript: not blocked in recv, and past new_co.
Active(t) ==
    /\ t # Host => thread[t] = "run"
    /\ waiting[t] = None /\ starting[t] = None

\* A body is free to do what its code says.
Body(t) ==
    /\ Active(t)
    /\ t # Host => duty[t] = "free" /\ steps < MaxSteps

\* gen_resume and agen_drive set the status after they set the body going.
Callable(t, g) ==
    /\ Body(t) /\ asked < MaxRequests /\ thread[g] # "forgotten"
    /\ EarlyCalls \/ \A u \in Threads : starting[u] # g

Step(t) == steps' = IF t = Host \/ duty[t] # "free" THEN steps ELSE steps + 1

-----------------------------------------------------------------------------
(* new_co, co_step and the driver of async generators.  Each is run by the *)
(* thread t; `stack` is cur_co as the caller left it, q and log the queue  *)
(* and the answers.                                                        *)

\* new_co spawned the thread and its caller runs on.
Spawn(t, g, stack) ==
    /\ thread' = [thread EXCEPT ![g] = "run"]
    /\ curCo' = Append(stack, g)
    /\ starting' = [starting EXCEPT ![t] = g]
    /\ UNCHANGED <<inbox, waiting>>

\* to_co.send and recv.
CoStep(t, g, resume, stack) ==
    /\ curCo' = Append(stack, g)
    /\ inbox' = [inbox EXCEPT ![g] = Append(@, resume)]
    /\ waiting' = [waiting EXCEPT ![t] = g]
    /\ UNCHANGED <<thread, starting>>

\* The thread goes on with its own code.
GoOn(t, stack) ==
    /\ curCo' = stack
    /\ waiting' = [waiting EXCEPT ![t] = None]
    /\ UNCHANGED <<thread, starting, inbox>>

\* The expect on the start state fails: the thread is gone and its Sender lives on.
Panic(t, stack) ==
    /\ thread' = [thread EXCEPT ![t] = "lost"]
    /\ curCo' = stack
    /\ UNCHANGED <<starting, inbox, waiting>>

ResumeOf(req) == IF req = "next" THEN "value" ELSE req

\* What a request gets from a generator that is done.
Finished(g, r) == [gen |-> g, id |-> r.id, done |-> TRUE, ok |-> r.req # "throw"]

NeverBusy(st) == FALSE

\* The driver leaves a running body alone.
Busy(st) == st = "Running"

\* agen_drive.
Drive(t, g, st, q, log, stack) ==
    LET s == IF st = "Start" /\ q # <<>> /\ Head(q).req # "next" THEN "Done" ELSE st
    IN  \/ /\ Busy(s) \/ q = <<>>
           /\ status' = [status EXCEPT ![g] = s] /\ queue' = [queue EXCEPT ![g] = q]
           /\ answers' = log /\ start' = start
           /\ GoOn(t, stack)
        \/ /\ s = "Done" /\ q # <<>>
           /\ status' = [status EXCEPT ![g] = s] /\ queue' = [queue EXCEPT ![g] = <<>>]
           /\ answers' = log \o [i \in 1..Len(q) |-> Finished(g, q[i])]
           /\ start' = [start EXCEPT ![g] = @ /\ st # "Start"]
           /\ GoOn(t, stack)
        \/ /\ s = "Start" /\ q # <<>>
           /\ queue' = [queue EXCEPT ![g] = q] /\ answers' = log
           /\ start' = [start EXCEPT ![g] = FALSE]
           /\ \/ start[g] /\ status' = [status EXCEPT ![g] = s] /\ Spawn(t, g, stack)
              \* the thread limit: next() throws and its request stays queued
              \/ start[g] /\ status' = [status EXCEPT ![g] = "Done"] /\ GoOn(t, stack)
              \/ ~start[g] /\ status' = [status EXCEPT ![g] = s] /\ Panic(t, stack)
        \/ /\ s \in {"Suspended", "Running"} /\ ~Busy(s) /\ q # <<>>
           /\ status' = [status EXCEPT ![g] = "Running"] /\ queue' = [queue EXCEPT ![g] = q]
           /\ answers' = log /\ start' = start
           /\ CoStep(t, g, ResumeOf(Head(q).req), stack)

-----------------------------------------------------------------------------
(* Calls.                                                                  *)

\* call_async: new_co and co_wait, with nothing in between that is shared.
CallAsync(t, f) ==
    /\ Body(t) /\ f \in AsyncFuncs /\ thread[f] = "none"
    /\ thread' = [thread EXCEPT ![f] = "run"]
    /\ curCo' = Append(curCo, f)
    /\ waiting' = [waiting EXCEPT ![t] = f]
    /\ Step(t)
    /\ UNCHANGED <<gens, duty, chans, starting, pending, jobs, native, asked, answers>>

\* agen_enqueue.
Enqueue(t, g, req) ==
    /\ g \in AsyncGens /\ Callable(t, g)
    /\ asked' = asked + 1
    /\ Drive(t, g, status[g], Append(queue[g], [req |-> req, id |-> asked']), answers, curCo)
    /\ Step(t)
    /\ UNCHANGED <<duty, outbox, pending, jobs, native>>

\* gen_resume up to g.status.set(Running): a call of a running generator is a
\* TypeError, and a finished one answers at once.
GenResume(t, g, req) ==
    /\ g \in Generators /\ Callable(t, g)
    /\ asked' = asked + 1
    /\ \/ /\ status[g] = "Running" \/ status[g] = "Done"
          /\ UNCHANGED <<status, start, curCo, thread, inbox, starting, waiting>>
       \/ /\ status[g] = "Start" /\ req # "next"
          /\ status' = [status EXCEPT ![g] = "Done"]
          /\ start' = [start EXCEPT ![g] = FALSE]
          /\ UNCHANGED <<curCo, thread, inbox, starting, waiting>>
       \/ /\ status[g] = "Start" /\ req = "next"
          /\ start' = [start EXCEPT ![g] = FALSE]
          /\ \/ start[g] /\ UNCHANGED status /\ Spawn(t, g, curCo)
             \/ /\ start[g] /\ status' = [status EXCEPT ![g] = "Done"]
                /\ UNCHANGED <<curCo, thread, inbox, starting, waiting>>
             \/ ~start[g] /\ UNCHANGED status /\ Panic(t, curCo)
       \/ /\ status[g] = "Suspended"
          /\ curCo' = Append(curCo, g)
          /\ inbox' = [inbox EXCEPT ![g] = Append(@, ResumeOf(req))]
          /\ starting' = [starting EXCEPT ![t] = g]
          /\ UNCHANGED <<status, start, thread, waiting>>
    /\ Step(t)
    /\ UNCHANGED <<queue, duty, outbox, pending, jobs, native, answers>>

\* The rest of the Start branch of agen_drive, and of gen_resume: the status is
\* set, the GenStart is dropped, and recv.
Mark(t) ==
    /\ starting[t] # None
    /\ status' = [status EXCEPT ![starting[t]] = "Running"]
    /\ waiting' = [waiting EXCEPT ![t] = starting[t]]
    /\ starting' = [starting EXCEPT ![t] = None]
    /\ UNCHANGED <<start, queue, curCo, thread, duty, chans, pending, jobs, native,
                   asked, answers, steps>>

-----------------------------------------------------------------------------
(* The coroutine's thread.                                                 *)

\* park_native_ready and to_host.send.
HandBack(g, y) ==
    /\ parked' = parked \o ready[g]
    /\ ready' = [ready EXCEPT ![g] = <<>>]
    /\ outbox' = [outbox EXCEPT ![g] = Append(@, y)]

Leave(g, y, at) ==
    /\ HandBack(g, y)
    /\ thread' = [thread EXCEPT ![g] = at]
    /\ duty' = [duty EXCEPT ![g] = "free"]
    /\ UNCHANGED <<gens, curCo, inbox, waiting, starting, pending, jobs, asked, answers>>

\* await_value; the value of a `return` request is awaited too.
AwaitValue(g) ==
    /\ Active(g) /\ g \in AsyncFuncs \cup AsyncGens
    /\ duty[g] = "unwind" \/ Body(g)
    /\ Step(g)
    /\ Leave(g, "await", "await")

\* yield_value of an async generator awaits its operand first.
AwaitOperand(g) ==
    /\ Body(g) /\ g \in AsyncGens
    /\ Step(g)
    /\ Leave(g, "await", "operand")

\* yield_raw; yield* of a sync iterable in an async generator comes here at once.
YieldRaw(g) ==
    /\ Active(g) /\ g \in Generators \cup AsyncGens
    /\ duty[g] = "yield" \/ Body(g)
    /\ Step(g)
    /\ Leave(g, "yielded", "yield")

\* The body returned or threw.
Finish(g) ==
    /\ Active(g) /\ duty[g] = "free"
    /\ UNCHANGED steps
    /\ \E y \in {"returned", "threw"} : Leave(g, y, "done")

\* from_host.recv returns.  A `return` at a yield unwinds: an async generator
\* awaits its value first, except inside yield*.
Resume(g) ==
    /\ thread[g] \in Suspensions /\ inbox[g] # <<>>
    /\ inbox' = [inbox EXCEPT ![g] = Tail(@)]
    /\ thread' = [thread EXCEPT ![g] = "run"]
    /\ \E d \in IF thread[g] = "operand" /\ Head(inbox[g]) = "value" THEN {"yield"}
                ELSE IF thread[g] = "yield" /\ Head(inbox[g]) = "return" /\ g \in AsyncGens
                     THEN {"unwind", "free"} ELSE {"free"} :
          duty' = [duty EXCEPT ![g] = d]
    /\ UNCHANGED <<gens, curCo, outbox, waiting, starting, pending, jobs, native,
                   asked, answers, steps>>

\* The generator object is unreachable: its thread parks for ever.
Forget(g) ==
    /\ thread[g] = "yield" /\ status[g] = "Suspended" /\ inbox[g] = <<>>
    /\ \A t \in Threads : starting[t] # g
    /\ Active(Host)
    /\ thread' = [thread EXCEPT ![g] = "forgotten"]
    /\ UNCHANGED <<gens, curCo, duty, chans, waiting, starting, pending, jobs,
                   native, asked, answers, steps>>

-----------------------------------------------------------------------------
(* recv returns in co_wait or gen_resume: adopt_native_ready, cur_co.pop,  *)
(* and what the message asks for.                                          *)

\* What is parked goes first.
AdoptFirst(t) ==
    /\ ready' = [ready EXCEPT ![t] = parked \o @]
    /\ parked' = <<>>

Adopt(t) ==
    /\ ready' = [ready EXCEPT ![t] = @ \o parked]
    /\ parked' = <<>>

PopContext(stack) == SubSeq(stack, 1, Len(stack) - 1)

Receive(t, g, y) ==
    /\ waiting[t] = g /\ g # None /\ outbox[g] # <<>> /\ Head(outbox[g]) = y
    /\ outbox' = [outbox EXCEPT ![g] = Tail(@)]
    /\ Adopt(t)
    /\ UNCHANGED <<duty, asked, steps>>

\* promise_then: the reaction waits for the Promise, or is queued at once.
ReceiveAwait(t, g) ==
    /\ Receive(t, g, "await")
    /\ GoOn(t, PopContext(curCo))
    /\ \/ pending' = pending \cup {g} /\ jobs' = jobs
       \/ /\ pending' = pending
          /\ \E r \in {"value", "throw"} : jobs' = Append(jobs, [co |-> g, resume |-> r])
    /\ UNCHANGED <<gens, answers>>

\* The front request, when there is one, is answered.
Answer(g, done, ok) ==
    IF queue[g] = <<>> THEN answers
    ELSE Append(answers, [gen |-> g, id |-> Head(queue[g]).id, done |-> done, ok |-> ok])

\* The newest request is taken off instead.
PopNewest(q) == IF q = <<>> THEN q ELSE SubSeq(q, 1, Len(q) - 1)

Pop(q) == IF q = <<>> THEN q ELSE Tail(q)

\* agen_done without its last line.
AgenDoneOnly(t, g, ok) ==
    /\ status' = [status EXCEPT ![g] = "Done"]
    /\ queue' = [queue EXCEPT ![g] = Pop(@)]
    /\ answers' = Answer(g, TRUE, ok)
    /\ GoOn(t, PopContext(curCo))
    /\ UNCHANGED start

AgenYielded(t, g) ==
    Drive(t, g, "Suspended", Pop(queue[g]), Answer(g, FALSE, TRUE), PopContext(curCo))

AgenDone(t, g, ok) ==
    Drive(t, g, "Done", Pop(queue[g]), Answer(g, TRUE, ok), PopContext(curCo))

ReceiveYielded(t, g) ==
    /\ Receive(t, g, "yielded")
    /\ IF g \in AsyncGens THEN AgenYielded(t, g)
       ELSE /\ status' = [status EXCEPT ![g] = "Suspended"]
            /\ GoOn(t, PopContext(curCo))
            /\ UNCHANGED <<start, queue, answers>>
    /\ UNCHANGED <<pending, jobs>>

ReceiveDone(t, g) ==
    /\ \E y \in {"returned", "threw"} :
          /\ Receive(t, g, y)
          /\ IF g \in AsyncGens THEN AgenDone(t, g, y = "returned")
             ELSE /\ status' = [status EXCEPT ![g] = "Done"]
                  /\ GoOn(t, PopContext(curCo))
                  /\ UNCHANGED <<start, queue, answers>>
    /\ UNCHANGED <<pending, jobs>>

-----------------------------------------------------------------------------
(* The event loop and native Promises.                                     *)

\* The reactions stay with the Promise, which can be settled again.
SettleTwice(t, g) ==
    /\ Active(t) /\ g \in pending
    /\ \E r \in {"value", "throw"} : jobs' = Append(jobs, [co |-> g, resume |-> r])
    /\ UNCHANGED <<gens, curCo, thread, duty, chans, waiting, starting, pending, native,
                   asked, answers, steps>>

\* JavaScript settles the Promise that g awaits.
Settle(t, g) ==
    /\ Active(t) /\ g \in pending
    /\ pending' = pending \ {g}
    /\ \E r \in {"value", "throw"} : jobs' = Append(jobs, [co |-> g, resume |-> r])
    /\ UNCHANGED <<gens, curCo, thread, duty, chans, waiting, starting, native, asked,
                   answers, steps>>

\* run_jobs takes the next reaction: co_step.
RunJob ==
    /\ Active(Host) /\ jobs # <<>>
    /\ jobs' = Tail(jobs)
    /\ CoStep(Host, Head(jobs).co, Head(jobs).resume, curCo)
    /\ UNCHANGED <<gens, duty, outbox, pending, native, asked, answers, steps>>

Settled == (UNION {Range(ready[t]) : t \in Threads}) \cup Range(parked)

\* A body settles a native Promise; the host runs what is in its own queue.
SettleNative(t) ==
    /\ Body(t) /\ t # Host
    /\ \E n \in (1..MaxNative) \ Settled :
          /\ \A m \in 1..(n-1) : m \in Settled
          /\ ready' = [ready EXCEPT ![t] = Append(@, n)]
    /\ Step(t)
    /\ UNCHANGED <<gens, curCo, thread, duty, chans, waiting, starting, pending, jobs,
                   parked, asked, answers>>

-----------------------------------------------------------------------------
Init ==
    /\ status = [g \in Cos |-> "Start"] /\ start = [g \in Cos |-> TRUE]
    /\ queue = [g \in Cos |-> <<>>] /\ curCo = <<>>
    /\ thread = [g \in Cos |-> "none"] /\ duty = [g \in Cos |-> "free"]
    /\ inbox = [g \in Cos |-> <<>>] /\ outbox = [g \in Cos |-> <<>>]
    /\ waiting = [t \in Threads |-> None] /\ starting = [t \in Threads |-> None]
    /\ pending = {} /\ jobs = <<>>
    /\ ready = [t \in Threads |-> <<>>] /\ parked = <<>>
    /\ asked = 0 /\ answers = <<>> /\ steps = 0

Call ==
    \E t \in Threads, g \in Cos :
       CallAsync(t, g) \/ \E req \in Reqs : Enqueue(t, g, req) \/ GenResume(t, g, req)

\* A body reaches its next await, yield or end.
Suspend == \E g \in Cos : AwaitValue(g) \/ AwaitOperand(g) \/ YieldRaw(g) \/ Finish(g)

HandOff ==
    \/ \E t \in Threads : Mark(t)
    \/ \E g \in Cos : Resume(g)
    \/ \E t \in Threads, g \in Cos : ReceiveAwait(t, g) \/ ReceiveYielded(t, g) \/ ReceiveDone(t, g)

SettleAny == \E t \in Threads, g \in Cos : Settle(t, g)

Next ==
    \/ Call \/ Suspend \/ HandOff \/ SettleAny \/ RunJob
    \/ \E g \in Cos : SettleNative(g) \/ Forget(g)

Spec == Init /\ [][Next]_vars

(* The threads are scheduled, a body reaches an await, a yield or its end, *)
(* the loop runs its jobs, and what a body awaits settles.                 *)
FairSpec ==
    /\ Spec
    /\ WF_vars(HandOff) /\ WF_vars(Suspend) /\ WF_vars(RunJob)
    /\ WF_vars(SettleAny)

-----------------------------------------------------------------------------
GStatus == {"Start", "Suspended", "Running", "Done"}

Request == [req : Reqs, id : 1..MaxRequests]

\* Every variable keeps its type; a channel holds one message at most, and a
\* coroutine has one reaction in the job queue at most.
TypeOK ==
    /\ status \in [Cos -> GStatus] /\ start \in [Cos -> BOOLEAN]
    /\ queue \in [Cos -> Seq(Request)]
    /\ curCo \in Seq(Cos)
    /\ thread \in [Cos -> Suspensions \cup {"none", "run", "done", "lost", "forgotten"}]
    /\ duty \in [Cos -> {"free", "yield", "unwind"}]
    /\ inbox \in [Cos -> {<<>>} \cup {<<r>> : r \in {"value", "throw", "return"}}]
    /\ outbox \in [Cos -> {<<>>} \cup {<<y>> : y \in {"await", "yielded", "returned", "threw"}}]
    /\ waiting \in [Threads -> Cos \cup {None}] /\ starting \in [Threads -> Cos \cup {None}]
    /\ pending \subseteq Cos /\ jobs \in Seq([co : Cos, resume : {"value", "throw"}])
    /\ Len(jobs) <= Cardinality(Cos)
    /\ ready \in [Threads -> Seq(1..MaxNative)] /\ parked \in Seq(1..MaxNative)
    /\ asked \in 0..MaxRequests
    /\ answers \in Seq([gen : AsyncGens, id : 1..MaxRequests, done : BOOLEAN, ok : BOOLEAN])
    /\ steps \in 0..MaxSteps

Running == {t \in Threads : Active(t)}

InFlight == {<<g, "in">> : g \in {h \in Cos : inbox[h] # <<>>}}
               \cup {<<g, "out">> : g \in {h \in Cos : outbox[h] # <<>>}}

\* Exactly one of host and coroutines runs, or the message that hands control
\* over is on its way; and the context on top of cur_co, which await and yield
\* use to find their channel, is that of the body that runs (eventloop.rs,
\* "strict hand-off protocol").  A caller between the spawn and its recv is not
\* counted: it stores the coroutine and the status and drops the start state it took.
OneRuns ==
    /\ Cardinality(Running) + Cardinality(InFlight) = 1
    /\ \A t \in Running : IF t = Host THEN curCo = <<>>
                           ELSE curCo # <<>> /\ curCo[Len(curCo)] = t

Reactions(g) == {i \in 1..Len(jobs) : jobs[i].co = g}

\* A suspended body is resumed by what it waits for and once: at an await by the
\* one reaction on its Promise, never by a request for the generator that came
\* in meanwhile; at a yield by a request, never by a reaction.
OneResumptionEach ==
    \A g \in Cos :
       LET awaits == (IF outbox[g] = <<"await">> THEN 1 ELSE 0)
                       + (IF g \in pending THEN 1 ELSE 0) + Cardinality(Reactions(g))
           sent   == Len(inbox[g])
       IN  /\ thread[g] \in {"await", "operand"} => awaits + sent = 1
           /\ thread[g] \notin {"await", "operand"} => awaits = 0
           /\ thread[g] \notin Suspensions => sent = 0
           /\ thread[g] = "yield" /\ sent = 0 /\ outbox[g] = <<>> => status[g] = "Suspended"

\* An async generator answers its requests in the order they were made, each
\* once, and nothing after it is done is a value; a body that runs has the
\* request it runs for at the front of the queue, so no value it yields is lost
\* (agen_enqueue, agen_drive, agen_yielded, agen_done).
AnswersInOrder ==
    /\ \A i, j \in 1..Len(answers) :
          i < j /\ answers[i].gen = answers[j].gen =>
             answers[i].id < answers[j].id /\ (answers[i].done => answers[j].done)
    /\ \A g \in AsyncGens :
          /\ status[g] = "Running" => queue[g] # <<>>
          /\ \A k \in 1..Len(queue[g]), i \in 1..Len(answers) :
                answers[i].gen = g => answers[i].id < queue[g][k].id

\* Control and its hand-overs are exact: one side runs, and what it resumes was
\* waiting for just that.
HandOffIsExact == OneRuns /\ OneResumptionEach

Increasing(s) == \A i, j \in 1..Len(s) : i < j => s[i] < s[j]

\* Continuations of native Promises that bodies settled reach the host, in the
\* order they were settled in: none stays with a thread that has handed back, and
\* what is parked is adopted by the receiver of the message that is on its way
\* (thaw_runtime_park_ready, thaw_runtime_adopt_ready).
ContinuationsReachHost ==
    /\ \A g \in Cos : thread[g] \notin {"run", "lost"} => ready[g] = <<>>
    /\ parked # <<>> => \E g \in Cos : outbox[g] # <<>>
    /\ \A t \in Threads : Increasing(ready[t])

Ids(g) == {queue[g][k].id : k \in 1..Len(queue[g])}

\* A request an async generator has taken up is answered, and so is every request
\* queued behind it, when bodies reach their next await, yield or end and what
\* they await settles.
RequestsAnswered ==
    \A g \in AsyncGens, id \in 1..MaxRequests :
       (status[g] = "Running" /\ id \in Ids(g)) ~> (id \notin Ids(g))

\* The start state of a generator is there when its first request takes it
\* (`expect("generator start state")`): no thread panics on it.
StartStateIsThere == \A g \in Cos : thread[g] # "lost"
=============================================================================
