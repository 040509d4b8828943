------------------------------ MODULE LambdaLoop ------------------------------
(***************************************************************************)
(* The Lambda process of thaw-runtime: thaw_runtime_run fetches one        *)
(* invocation after the other from the Runtime API, runs the handler on    *)
(* the event loop up to the invocation's deadline, posts its answer, and   *)
(* cleans up on every way out of handle_one_invocation.                    *)
(*                                                                         *)
(* The Runtime API is external and unreliable: it may be down, and a reply *)
(* may be lost after the request took effect.  Requests are numbered as    *)
(* they are handed out.  What the event loop holds is a set of work items, *)
(* each made by the invocation that owns it; Promises and NativeTimers     *)
(* model the queues behind them.                                           *)
(***************************************************************************)
EXTENDS Naturals, Sequences, FiniteSets

CONSTANTS MaxRequests,  \* bound: requests the Runtime API hands out
          MaxFailures,  \* MAX_CONSECUTIVE_FAILURES
          MaxWork,      \* bound: work items one invocation makes
          Sources       \* where work items come from, a subset of Places

Places == {"ready", "timer", "native", "fd"}

ASSUME LambdaAssumption ==
    /\ MaxRequests \in Nat /\ MaxFailures \in Nat \ {0} /\ MaxWork \in Nat
    /\ Sources \subseteq Places

VARIABLES
    pc,          \* where the process is
    failures,    \* consecutive_failures
    failed,      \* handle_one_invocation is returning an Err
    request,     \* request_id: the invocation being served
    headers,     \* which optional headers its response carried
    trace,       \* _X_AMZN_TRACE_ID: the request it names, or 0
    deadline,    \* INVOCATION_DEADLINE
    slot,        \* *error_slot: the request whose error it holds, or 0
    completion,  \* the handler's Promise, or what the handler returned
    work,        \* READY_CONTINUATIONS, TIMERS, NATIVE_TIMERS and FD_WAITS
    joins,       \* ACTIVE_PROMISE_JOINS
    made,        \* work items this invocation made
    unreported,  \* owners of rejected Promises that nobody handled or reported
    latch,       \* UNHANDLED_FAILURE: the request during which it was set, or 0
    asleep,      \* blocked in poll or sleep
    handed,      \* external: requests handed out
    answers      \* external: answers received, in order

api  == <<handed, answers>>
loop == <<work, joins, made, unreported, latch>>
vars == <<pc, failures, failed, request, headers, trace, deadline, slot,
          completion, loop, asleep, api>>

Item == [owner : Nat, id : Nat, role : {"main", "child", "stray"},
         at : Places, due : BOOLEAN]

Headers == [trace : BOOLEAN, deadline : BOOLEAN]

NoHeaders == [trace |-> FALSE, deadline |-> FALSE]

Outcomes == {"none", "pending", "fulfilled", "rejected", "timeout"}

-----------------------------------------------------------------------------
(* GET .../invocation/next and the headers of its response.                *)

\* An early return with `?`: only the guard's Drop follows.
Fail == pc' = "drop" /\ failed' = TRUE

\* The connection fails before the API handed anything out.
FetchRefused ==
    /\ pc = "next"
    /\ Fail
    /\ UNCHANGED <<failures, request, headers, trace, deadline, slot,
                   completion, loop, asleep, api>>

HandOut ==
    /\ pc = "next" /\ handed < MaxRequests
    /\ handed' = handed + 1
    /\ UNCHANGED <<answers, failures, loop, asleep>>

\* The reply is lost or malformed, has no request id, or a trace id with a NUL.
FetchBroken ==
    /\ HandOut /\ Fail
    /\ UNCHANGED <<request, headers, trace, deadline, slot, completion>>

\* set_var or remove_var.
SetTrace(h) == trace' = IF h.trace THEN request' ELSE 0

\* set_invocation_deadline.
SetDeadline(h) == deadline' = IF h.deadline THEN "running" ELSE "none"

\* *error_slot = null, before the handler is called.
ClearSlot == slot' = 0

\* The headers are in effect when a NUL in the body makes the call fail.
FetchBadBody(h) ==
    /\ HandOut /\ Fail
    /\ request' = handed' /\ headers' = h
    /\ SetTrace(h) /\ SetDeadline(h)
    /\ UNCHANGED <<slot, completion>>

Fetch(h) ==
    /\ HandOut
    /\ pc' = "handler" /\ failed' = FALSE
    /\ request' = handed' /\ headers' = h
    /\ SetTrace(h) /\ SetDeadline(h) /\ ClearSlot
    /\ completion' = "none"

-----------------------------------------------------------------------------
(* The handler, a compiled program: it starts asynchronous work, awaits    *)
(* some of it, leaves rejected Promises behind, returns or throws.         *)

NewItem(role, at) ==
    [owner |-> request, id |-> made + 1, role |-> role, at |-> at, due |-> FALSE]

\* "main" settles the handler's Promise, "child" is an input of a combinator
\* that is detached from it, "stray" is nobody's.
Start(role, at) ==
    /\ pc = "handler" /\ made < MaxWork
    /\ role = "main" => completion = "none"
    /\ made' = made + 1
    /\ work' = work \cup {NewItem(role, at)}
    /\ joins' = IF role = "child" THEN joins + 1 ELSE joins
    /\ completion' = IF role = "main" THEN "pending" ELSE completion
    /\ UNCHANGED <<pc, failures, failed, request, headers, trace, deadline,
                   slot, unreported, latch, asleep, api>>

RejectUnhandled ==
    /\ pc = "handler" /\ request \notin unreported
    /\ unreported' = unreported \cup {request}
    /\ UNCHANGED <<pc, failures, failed, request, headers, trace, deadline,
                   slot, completion, work, joins, made, latch, asleep, api>>

\* The handler returns a value, or null with or without an error in the slot.
Return ==
    /\ pc = "handler" /\ completion = "none"
    /\ pc' = "post"
    /\ \/ completion' = "fulfilled" /\ slot' = slot
       \/ completion' = "rejected" /\ slot' \in {slot, request}
    /\ UNCHANGED <<failures, failed, request, headers, trace, deadline, loop,
                   asleep, api>>

\* It awaits its Promise; one that nothing will ever settle is "pending" too.
Await ==
    /\ pc = "handler"
    /\ pc' = "await"
    /\ completion' = "pending"
    /\ UNCHANGED <<failures, failed, request, headers, trace, deadline, slot,
                   loop, asleep, api>>

-----------------------------------------------------------------------------
(* thaw_runtime_poll_one.                                                  *)

\* promote_due_timers and poll_fd_waits queue what has become due.
Promoted ==
    {IF w.at \in {"timer", "fd"} /\ w.due THEN [w EXCEPT !.at = "ready"] ELSE w : w \in work}

ReadyItems == {w \in Promoted : w.at = "ready"}

DueNatives == {w \in work : w.at = "native" /\ w.due}

\* The callback of w runs: it settles the handler's Promise or leaves a
\* combinator, and may start a timer or reject a Promise nobody handles.
Run(w) ==
    /\ completion' \in IF w.role = "main" /\ completion = "pending"
                       THEN {"fulfilled", "rejected"} ELSE {completion}
    /\ slot' = IF completion' # completion /\ completion' = "rejected" THEN w.owner ELSE slot
    /\ joins' = IF w.role = "child" /\ joins > 0 THEN joins - 1 ELSE joins
    /\ \/ work' = Promoted \ {w} /\ UNCHANGED made
       \/ /\ made < MaxWork /\ "native" \in Sources
          /\ made' = made + 1
          /\ work' = (Promoted \ {w}) \cup {NewItem("stray", "native")}

\* Rejections are reported, which sets the latch unless listeners take them all.
ReportAll == latch' \in {latch, IF latch = 0 /\ unreported # {} THEN request ELSE latch}

Progress ==
    \/ \E w \in ReadyItems :
          /\ Run(w)
          /\ unreported' \in {unreported, unreported \cup {w.owner}}
          /\ latch' = latch
    \/ /\ ReadyItems = {}
       /\ ReportAll /\ latch' = 0
       /\ \E w \in DueNatives :
             /\ Run(w)
             /\ unreported' \in {{}, {w.owner}}

\* Nothing to run: the caller looks for something to wait for.
NoProgress ==
    /\ ReadyItems = {}
    /\ ReportAll
    /\ latch' # 0 \/ DueNatives = {}
    /\ unreported' = {}

Timers == {w \in work : w.at \in {"timer", "native"}}

HasFdWaits == \E w \in work : w.at = "fd"

-----------------------------------------------------------------------------
(* thaw_runtime_run_until_resolved.                                        *)

Resolved ==
    /\ pc = "await" /\ completion # "pending"
    /\ pc' = "post"
    /\ UNCHANGED <<failures, failed, request, headers, trace, deadline, slot,
                   completion, loop, asleep, api>>

\* reject_for_invocation_deadline.
TimeOut ==
    /\ pc = "await" /\ ~asleep /\ completion = "pending"
    /\ deadline = "expired"
    /\ completion' = "timeout" /\ slot' = request
    /\ UNCHANGED <<pc, failures, failed, request, headers, trace, deadline,
                   loop, asleep, api>>

InLoop ==
    /\ pc \in {"await", "drop"} /\ ~asleep
    /\ deadline # "expired"
    /\ pc = "await" => completion = "pending"
    /\ pc = "drop" => joins # 0

\* One turn of the loop of run_until_resolved or of drain_detached.
PollOne ==
    /\ InLoop
    /\ Progress
    /\ UNCHANGED <<pc, failures, failed, request, headers, trace, deadline,
                   asleep, api>>

\* Both loops wait for the next timer or descriptor.  Only the first one is
\* woken by the deadline.
Sleep ==
    /\ InLoop
    /\ NoProgress
    /\ Timers # {} \/ HasFdWaits \/ (pc = "await" /\ deadline = "running")
    /\ asleep' = TRUE
    /\ UNCHANGED <<pc, failures, failed, request, headers, trace, deadline,
                   slot, completion, work, joins, made, api>>

\* Only descriptors and timers end the wait.
WakeWithoutDeadline ==
    /\ asleep
    /\ \E w \in work : w.at # "ready" /\ w.due
    /\ asleep' = FALSE
    /\ UNCHANGED <<pc, failures, failed, request, headers, trace, deadline,
                   slot, completion, loop, api>>

Wake ==
    /\ asleep
    /\ \/ \E w \in work : w.at # "ready" /\ w.due
       \/ pc = "await" /\ deadline = "expired"
    /\ asleep' = FALSE
    /\ UNCHANGED <<pc, failures, failed, request, headers, trace, deadline,
                   slot, completion, loop, api>>

\* No possible progress: null, and whatever the error slot holds.
Stuck ==
    /\ pc = "await" /\ InLoop
    /\ NoProgress
    /\ Timers = {} /\ ~HasFdWaits /\ deadline = "none"
    /\ pc' = "post"
    /\ UNCHANGED <<failures, failed, request, headers, trace, deadline, slot,
                   completion, work, joins, made, asleep, api>>

-----------------------------------------------------------------------------
(* POST .../response or .../error, once.                                   *)

\* The error's text is the slot's, or a general one when the slot is null.
Answer ==
    [request |-> request,
     kind    |-> IF completion = "fulfilled" THEN "response" ELSE "error",
     of      |-> IF completion = "fulfilled" THEN request ELSE slot]

Post ==
    /\ pc = "post"
    /\ answers' = Append(answers, Answer)
    /\ pc' = "drop" /\ failed' = FALSE
    /\ UNCHANGED <<failures, request, headers, trace, deadline, slot,
                   completion, loop, asleep, handed>>

PostRefused ==
    /\ pc = "post"
    /\ Fail
    /\ UNCHANGED <<failures, request, headers, trace, deadline, slot,
                   completion, loop, asleep, api>>

\* A failed post is tried again.
PostAgain ==
    /\ pc = "post"
    /\ answers' = Append(answers, Answer)
    /\ UNCHANGED <<pc, failed, failures, request, headers, trace, deadline, slot,
                   completion, loop, asleep, handed>>

\* The API takes the answer, its reply is lost or reports an error.
PostLost ==
    /\ pc = "post"
    /\ answers' = Append(answers, Answer)
    /\ Fail
    /\ UNCHANGED <<failures, request, headers, trace, deadline, slot,
                   completion, loop, asleep, handed>>

-----------------------------------------------------------------------------
(* InvocationArenaReset::drop, on every way out, and the outer loop.       *)

\* drain_detached leaves its loop.
Drained ==
    /\ pc = "drop" /\ ~asleep
    /\ \/ /\ joins = 0 \/ deadline = "expired"
          /\ UNCHANGED <<unreported, latch>>
       \/ /\ InLoop /\ Timers = {} /\ ~HasFdWaits
          /\ NoProgress

PurgeAllButNatives ==
    /\ work' = {w \in work : w.at = "native"} /\ joins' = 0 /\ deadline' = "none"

\* purge_pending_async_state.
Purge == work' = {} /\ joins' = 0 /\ deadline' = "none"

GiveUpLate(n) == n > MaxFailures

\* failure_backoff is None.
GiveUp(n) == n >= MaxFailures

Drop ==
    /\ Drained
    /\ Purge
    /\ failures' = IF failed THEN failures + 1 ELSE 0
    /\ pc' = IF ~failed THEN "next"
             ELSE IF GiveUp(failures') THEN "exited" ELSE "backoff"
    /\ failed' = FALSE /\ made' = 0
    /\ request' = 0 /\ headers' = NoHeaders /\ completion' = "none"
    /\ UNCHANGED <<trace, slot, asleep, api>>

\* thread::sleep between two attempts.
Backoff ==
    /\ pc = "backoff"
    /\ pc' = "next"
    /\ UNCHANGED <<failures, failed, request, headers, trace, deadline, slot,
                   completion, loop, asleep, api>>

-----------------------------------------------------------------------------
(* The world: time passes and descriptors become ready.                    *)

BecomeDue(w) ==
    /\ w \in work /\ w.at # "ready" /\ ~w.due
    /\ work' = (work \ {w}) \cup {[w EXCEPT !.due = TRUE]}
    /\ UNCHANGED <<pc, failures, failed, request, headers, trace, deadline, slot,
                   completion, joins, made, unreported, latch, asleep, api>>

TimerDue == \E w \in Timers : BecomeDue(w)

FdReady == \E w \in work : w.at = "fd" /\ BecomeDue(w)

Expire ==
    /\ deadline = "running"
    /\ deadline' = "expired"
    /\ UNCHANGED <<pc, failures, failed, request, headers, trace, slot,
                   completion, loop, asleep, api>>

-----------------------------------------------------------------------------
Init ==
    /\ pc = "next" /\ failures = 0 /\ failed = FALSE
    /\ request = 0 /\ headers = NoHeaders
    /\ trace = 0 /\ deadline = "none" /\ slot = 0 /\ completion = "none"
    /\ work = {} /\ joins = 0 /\ made = 0 /\ unreported = {} /\ latch = 0
    /\ asleep = FALSE
    /\ handed = 0 /\ answers = <<>>

Get ==
    \/ FetchRefused \/ FetchBroken
    \/ \E h \in Headers : Fetch(h) \/ FetchBadBody(h)

Turn ==
    \/ PollOne \/ Resolved \/ TimeOut \/ Sleep \/ Wake \/ Stuck
    \/ Post \/ PostRefused \/ PostLost
    \/ Drop \/ Backoff

Handler ==
    \/ \E role \in {"main", "child", "stray"}, at \in Sources : Start(role, at)
    \/ RejectUnhandled \/ Return \/ Await

Next == Get \/ Turn \/ Handler \/ TimerDue \/ FdReady \/ Expire

Spec == Init /\ [][Next]_vars

(* The process runs, the handler's code returns or awaits, and time        *)
(* passes; a GET may wait for ever for the next invocation, and a          *)
(* descriptor need never become ready.                                     *)
FairSpec ==
    /\ Spec
    /\ WF_vars(Turn) /\ WF_vars(Return \/ Await)
    /\ WF_vars(TimerDue) /\ WF_vars(Expire)

-----------------------------------------------------------------------------
\* Every variable keeps its type; consecutive_failures stays below its limit
\* while the process runs.
TypeOK ==
    /\ pc \in {"next", "handler", "await", "post", "drop", "backoff", "exited"}
    /\ failures \in 0..MaxFailures /\ (failures = MaxFailures) = (pc = "exited")
    /\ failed \in BOOLEAN
    /\ request \in 0..MaxRequests /\ handed \in 0..MaxRequests
    /\ headers \in Headers /\ trace \in 0..MaxRequests /\ slot \in 0..MaxRequests
    /\ deadline \in {"none", "running", "expired"}
    /\ completion \in Outcomes
    /\ work \subseteq Item /\ joins \in Nat /\ made \in 0..MaxWork
    /\ unreported \subseteq 1..MaxRequests /\ latch \in 0..MaxRequests
    /\ asleep \in BOOLEAN
    /\ answers \in Seq([request : Nat, kind : {"response", "error"}, of : Nat])

\* Nothing of an invocation outlives it, on whatever way it ended: the event
\* loop holds work of the invocation being served only, joins counts exactly the
\* combinator inputs still out, and the deadline and trace in effect are those
\* of the current request's headers (InvocationArenaReset, purge_pending_async_state).
InvocationsAreIsolated ==
    /\ \A w \in work : w.owner = request
    /\ joins = Cardinality({w \in work : w.role = "child"})
    /\ pc \in {"next", "backoff"} => work = {} /\ deadline = "none"
    /\ pc \in {"handler", "await", "post"} =>
          /\ (deadline # "none") = headers.deadline
          /\ trace = IF headers.trace THEN request ELSE 0

\* A request is answered at most once and in the order the requests were handed
\* out, whatever reply was lost, and with that invocation's own result or error
\* text, never with what an earlier one left in the error slot.
AnswersAreOwn ==
    /\ \A i \in 1..Len(answers) : answers[i].of \in {0, answers[i].request}
    /\ \A i, j \in 1..Len(answers) : i < j => answers[i].request < answers[j].request

\* A handler with a deadline ends, whatever it awaits: run_until_resolved caps
\* every wait by the deadline and then rejects the handler's Promise.
HandlerEnds ==
    (pc \in {"handler", "await"} /\ deadline # "none") ~> (pc \notin {"handler", "await"})

\* thaw_runtime_run_until_resolved drives timers until the Promise it waits for
\* settles: a setTimeout that a handler awaits fires, also when an earlier
\* invocation of the process left a rejection that nobody handled.
AwaitedTimerSettles ==
    \A n \in 1..MaxRequests :
        (/\ pc = "await" /\ request = n /\ latch \in 1..n - 1
         /\ \E w \in work : w.role = "main" /\ w.at = "native") ~> (pc # "await")
===============================================================================
