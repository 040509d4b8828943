------------------------- MODULE ThreadsafeFunction -------------------------
(***************************************************************************)
(* A Node-API threadsafe function as thaw-napi implements it: producer     *)
(* threads push calls into a bounded queue guarded by one mutex, the       *)
(* creating Host thread drains it from its poll loop, and the function is  *)
(* finalized once every owner has released it (or one has aborted it).     *)
(*                                                                         *)
(* One action per critical section.  Whatever the code does between two    *)
(* lock regions (the user's callback, the finalizer, the hand-over of a    *)
(* ready event) is a point where every other thread may step.              *)
(*                                                                         *)
(* An element of Owners is one acquisition of the function, used by one    *)
(* thread; HostOwners are the acquisitions used on the creator thread.     *)
(* An owner makes calls only while it holds its acquisition, which is the  *)
(* contract Node-API states.  Calls carry their acceptance number.         *)
(***************************************************************************)
EXTENDS Naturals, Sequences, FiniteSets

CONSTANTS Owners,         \* acquisitions that may exist
          HostOwners,     \* the ones the creator thread uses
          InitialOwners,  \* initial_thread_count, as a set
          MaxQueueSize,   \* max_queue_size; 0 is an unbounded queue
          MaxCalls,       \* bound: calls made before closing
          MaxNesting      \* bound: poll frames on the Host's stack

ASSUME OwnersAssumption ==
    /\ IsFiniteSet(Owners)
    /\ HostOwners \subseteq Owners
    /\ InitialOwners \subseteq Owners
    /\ InitialOwners # {}

ASSUME BoundsAssumption ==
    MaxQueueSize \in Nat /\ MaxCalls \in Nat /\ MaxNesting \in Nat

VARIABLES
    queue,       \* ThreadsafeState.queue: accepted calls not yet begun
    threadCount, closing, aborting, scheduled, callbacksInFlight,
    finalized, finalizerCompleted, liveReleased,
    referenced,  \* ThreadsafeFunction.referenced
    live,        \* LIVE_THREADSAFE_FUNCTIONS, this function's share
    ready,       \* entries of READY_EVENTS that name this function
    frames,      \* the Host's stack of run_one_threadsafe_callback calls
    refCall,     \* a ref/unref between its closing test and its swap
    host,        \* the loop of thaw_napi_run_async_work
    waiting,     \* threads blocked in space_available.wait
    woken,       \* threads notified that have not retaken the mutex
    held,        \* ghost: acquisitions still held by their owner
    accepted,    \* ghost: number of calls accepted so far
    begun        \* ghost: the calls popped for the callback, in order

state == <<queue, threadCount, closing, aborting, scheduled,
           callbacksInFlight, finalized, finalizerCompleted, liveReleased>>
ghost == <<held, accepted, begun>>
vars  == <<state, referenced, live, ready, frames, refCall, host, waiting,
           woken, ghost>>

-----------------------------------------------------------------------------
(* A frame of the Host's stack.  "taken": the ready event is off the list  *)
(* and the mutex not yet retaken.  "call": between the two lock regions,   *)
(* in the user's callback when a call was popped.  "finalize": chosen to   *)
(* finalize.  "finalizer": in the user's finalizer.                        *)

Frame == [pc : {"taken", "call", "finalize", "finalizer"}, popped : BOOLEAN]

Taken == [pc |-> "taken", popped |-> FALSE]

Top == frames[Len(frames)]

Below == SubSeq(frames, 1, Len(frames) - 1)

TopIs(pc) == frames # <<>> /\ Top.pc = pc

SetTop(frame) == [frames EXCEPT ![Len(frames)] = frame]

\* The Host runs addon code, from which it may call back into Node-API:
\* between polls, in a callback, or in the finalizer.
HostInAddonCode ==
    /\ host # "exited"
    /\ refCall = "none"
    /\ \/ frames = <<>>
       \/ TopIs("call") /\ Top.popped
       \/ TopIs("finalizer")

\* The thread of owner t is free to make a call.
CanCall(t) ==
    /\ t \in held \ (waiting \cup woken)
    /\ t \in HostOwners => HostInAddonCode

QueueFullTooLate == MaxQueueSize # 0 /\ Len(queue) > MaxQueueSize

QueueFull == MaxQueueSize # 0 /\ Len(queue) >= MaxQueueSize

-----------------------------------------------------------------------------
(* Parts of critical sections.                                             *)

\* Mutated forms of the definitions that follow them end in a word for the
\* bug they plant; only the mutation runs use them.
ScheduleIfNotInCallback(condition) ==
    LET wanted == condition /\ callbacksInFlight = 0
    IN  /\ scheduled' = (scheduled \/ wanted)
        /\ ready' = IF wanted /\ ~scheduled THEN ready + 1 ELSE ready

\* schedule_threadsafe: at most one ready event per function.
ScheduleIf(condition) ==
    /\ scheduled' = (scheduled \/ condition)
    /\ ready' = IF condition /\ ~scheduled THEN ready + 1 ELSE ready

RetireIfReadyAgain(completed, count) ==
    LET retire == completed /\ count = 0
    IN  /\ liveReleased' = (liveReleased \/ retire)
        /\ live' = IF completed THEN live - 1 ELSE live

\* retire_threadsafe_if_ready over the state the section leaves behind.
RetireIfReady(completed, count) ==
    LET retire == completed /\ count = 0 /\ ~liveReleased
    IN  /\ liveReleased' = (liveReleased \/ retire)
        /\ live' = IF retire THEN live - 1 ELSE live

\* The loop of napi_call_threadsafe_function, from the point where thread t
\* holds the mutex: closing, accepted, or full.
Closing(t) ==
    /\ closing
    /\ threadCount' = IF threadCount > 0 THEN threadCount - 1 ELSE 0
    /\ ScheduleIf(threadCount = 1 /\ ~finalized)
    /\ RetireIfReady(finalizerCompleted, threadCount')
    /\ held' = held \ {t}
    /\ waiting' = waiting
    /\ UNCHANGED <<queue, closing, aborting, callbacksInFlight, finalized,
                   finalizerCompleted, accepted, begun>>

Accept ==
    /\ ~closing /\ ~QueueFull
    /\ accepted' = accepted + 1
    /\ queue' = Append(queue, accepted')
    /\ ScheduleIf(TRUE)
    /\ waiting' = waiting
    /\ UNCHANGED <<threadCount, closing, aborting, callbacksInFlight,
                   finalized, finalizerCompleted, liveReleased, live,
                   held, begun>>

Wait(t) ==
    /\ ~closing /\ QueueFull
    /\ t \notin HostOwners
    /\ waiting' = waiting \cup {t}
    /\ UNCHANGED <<state, live, ready, ghost>>

-----------------------------------------------------------------------------
(* napi_create_threadsafe_function.                                        *)

Init ==
    /\ queue = <<>>
    /\ threadCount = Cardinality(InitialOwners)
    /\ closing = FALSE /\ aborting = FALSE
    /\ scheduled = FALSE /\ ready = 0
    /\ callbacksInFlight = 0
    /\ finalized = FALSE /\ finalizerCompleted = FALSE
    /\ liveReleased = FALSE /\ live = 1
    /\ referenced = TRUE
    /\ frames = <<>> /\ refCall = "none" /\ host = "running"
    /\ waiting = {} /\ woken = {}
    /\ held = InitialOwners /\ accepted = 0 /\ begun = <<>>

\* napi_call_threadsafe_function.  A call that returns NAPI_QUEUE_FULL or
\* NAPI_WOULD_DEADLOCK leaves every variable as it was.
Call(t) ==
    /\ CanCall(t)
    /\ closing \/ accepted + Cardinality(waiting \cup woken) < MaxCalls
    /\ Closing(t) \/ Accept \/ Wait(t)
    /\ UNCHANGED <<referenced, frames, refCall, host, woken>>

\* A notified thread retakes the mutex inside Condvar::wait and goes round
\* the loop again.
Resume(t) ==
    /\ t \in woken
    /\ woken' = woken \ {t}
    /\ Closing(t) \/ Accept \/ Wait(t)
    /\ UNCHANGED <<referenced, frames, refCall, host>>

\* Condvar::wait may return without a notification.
SpuriousWakeup(t) ==
    /\ t \in waiting
    /\ waiting' = waiting \ {t}
    /\ woken' = woken \cup {t}
    /\ UNCHANGED <<state, referenced, live, ready, frames, refCall, host, ghost>>

\* napi_release_threadsafe_function; abort is mode 1.
Release(t, abort) ==
    /\ CanCall(t)
    /\ threadCount # 0
    /\ threadCount' = threadCount - 1
    /\ closing' = (closing \/ abort \/ threadCount' = 0)
    /\ aborting' = (aborting \/ abort)
    /\ waiting' = {}
    /\ woken' = woken \cup waiting
    /\ ScheduleIf(closing' /\ ~finalized)
    /\ RetireIfReady(finalizerCompleted, threadCount')
    /\ held' = held \ {t}
    /\ UNCHANGED <<queue, callbacksInFlight, finalized, finalizerCompleted,
                   referenced, frames, refCall, host, accepted,
                   begun>>

\* napi_acquire_threadsafe_function, by t on behalf of u.
Acquire(t, u) ==
    /\ CanCall(t)
    /\ ~closing
    /\ u \in Owners \ held
    /\ threadCount' = threadCount + 1
    /\ held' = held \cup {u}
    /\ UNCHANGED <<queue, closing, aborting, scheduled, callbacksInFlight,
                   finalized, finalizerCompleted, liveReleased, referenced,
                   live, ready, frames, refCall, host, waiting, woken, accepted,
                   begun>>

RefBeginUnchecked(call) ==
    /\ HostInAddonCode
    /\ refCall' = call
    /\ UNCHANGED <<state, referenced, live, ready, frames, host, waiting,
                   woken, ghost>>

\* napi_ref_threadsafe_function and napi_unref_threadsafe_function, on the
\* Host: the closing test under the mutex, then the swap without it.
RefBegin(call) ==
    /\ HostInAddonCode
    /\ ~closing
    /\ refCall' = call
    /\ UNCHANGED <<state, referenced, live, ready, frames, host, waiting,
                   woken, ghost>>

RefSwap ==
    /\ refCall # "none"
    /\ referenced' = (refCall = "ref")
    /\ refCall' = "none"
    /\ UNCHANGED <<state, live, ready, frames, host, waiting, woken, ghost>>

-----------------------------------------------------------------------------
(* The Host's poll: thaw_napi_poll_async_work takes a ready event and runs *)
(* run_one_threadsafe_callback, possibly from inside an earlier one.       *)

TakeReadyEvent ==
    /\ HostInAddonCode
    /\ Len(frames) < MaxNesting
    /\ ready > 0
    /\ ready' = ready - 1
    /\ frames' = Append(frames, Taken)
    /\ UNCHANGED <<state, referenced, live, refCall, host, waiting, woken, ghost>>

NotifyNobody == UNCHANGED <<waiting, woken>>

\* space_available.notify_one().
NotifyOne ==
    \/ waiting = {} /\ UNCHANGED <<waiting, woken>>
    \/ \E t \in waiting : waiting' = waiting \ {t} /\ woken' = woken \cup {t}

BeginCallback ==
    /\ TopIs("taken")
    /\ \/ /\ queue = <<>>
          /\ frames' = SetTop([pc |-> "call", popped |-> FALSE])
          /\ scheduled' = FALSE
          /\ UNCHANGED <<queue, callbacksInFlight, begun, waiting, woken,
                         ready>>
       \/ /\ queue # <<>>
          /\ frames' = SetTop([pc |-> "call", popped |-> TRUE])
          /\ queue' = Tail(queue)
          /\ begun' = Append(begun, Head(queue))
          /\ callbacksInFlight' = callbacksInFlight + 1
          /\ NotifyOne
          /\ scheduled' = (queue' # <<>>)
          /\ ready' = IF queue' # <<>> THEN ready + 1 ELSE ready
    /\ UNCHANGED <<threadCount, closing, aborting, finalized,
                   finalizerCompleted, liveReleased, referenced, live,
                   refCall, host, held, accepted>>

FinalizeNowIfUnowned(inFlight) ==
    /\ closing /\ queue = <<>> /\ inFlight = 0 /\ ~finalized
    /\ threadCount = 0

FinalizeNowInCallback(inFlight) == closing /\ queue = <<>> /\ ~finalized

FinalizeNow(inFlight) ==
    closing /\ queue = <<>> /\ inFlight = 0 /\ ~finalized

\* The callback has returned: the second critical section.
EndCallback ==
    /\ TopIs("call") /\ refCall = "none"
    /\ callbacksInFlight' = IF Top.popped THEN callbacksInFlight - 1
                                          ELSE callbacksInFlight
    /\ LET finalize == FinalizeNow(callbacksInFlight')
       IN  /\ finalized' = (finalized \/ finalize)
           /\ frames' = IF finalize
                          THEN SetTop([pc |-> "finalize", popped |-> FALSE])
                          ELSE Below
    /\ UNCHANGED <<queue, threadCount, closing, aborting, scheduled,
                   finalizerCompleted, liveReleased, referenced, live, ready,
                   refCall, host, waiting, woken, ghost>>

\* referenced.swap(false), then the finalizer starts.
BeginFinalizer ==
    /\ TopIs("finalize")
    /\ referenced' = FALSE
    /\ frames' = SetTop([pc |-> "finalizer", popped |-> FALSE])
    /\ UNCHANGED <<state, live, ready, refCall, host, waiting, woken, ghost>>

EndFinalizer ==
    /\ TopIs("finalizer") /\ refCall = "none"
    /\ finalizerCompleted' = TRUE
    /\ RetireIfReady(TRUE, threadCount)
    /\ frames' = Below
    /\ UNCHANGED <<queue, threadCount, closing, aborting, scheduled,
                   callbacksInFlight, finalized, referenced, ready, refCall,
                   host, waiting, woken, ghost>>

\* thaw_napi_run_async_work tests the ready list and, later in the same
\* turn, whether a referenced function of this Host is left; only then does
\* it leave the loop.
PollFoundNothing ==
    /\ host = "running" /\ refCall = "none" /\ frames = <<>>
    /\ ready = 0
    /\ host' = "idle"
    /\ UNCHANGED <<state, referenced, live, ready, frames, refCall, waiting,
                   woken, ghost>>

LeaveOrPollAgain ==
    /\ host = "idle" /\ refCall = "none" /\ frames = <<>>
    /\ host' = IF referenced THEN "running" ELSE "exited"
    /\ UNCHANGED <<state, referenced, live, ready, frames, refCall, waiting,
                   woken, ghost>>

-----------------------------------------------------------------------------
Next ==
    \/ TakeReadyEvent \/ BeginCallback \/ EndCallback
    \/ BeginFinalizer \/ EndFinalizer
    \/ PollFoundNothing \/ LeaveOrPollAgain
    \/ RefSwap
    \/ \E call \in {"ref", "unref"} : RefBegin(call)
    \/ \E t \in Owners :
         \/ Call(t) \/ Resume(t) \/ SpuriousWakeup(t)
         \/ \E abort \in BOOLEAN : Release(t, abort)
         \/ \E u \in Owners : Acquire(t, u)

Spec == Init /\ [][Next]_vars

(* The Host's loop goes on until it leaves, callbacks and finalizers       *)
(* return however often they call back in (hence strong fairness), and the *)
(* operating system schedules a notified thread.  Owners owe nothing: they *)
(* may hold an acquisition for ever and never call again.                  *)
FairSpec ==
    /\ Spec
    /\ SF_vars(TakeReadyEvent) /\ SF_vars(EndCallback)
    /\ SF_vars(EndFinalizer) /\ SF_vars(LeaveOrPollAgain)
    /\ WF_vars(BeginCallback) /\ WF_vars(BeginFinalizer) /\ WF_vars(RefSwap)
    /\ \A t \in Owners : WF_vars(Resume(t))

-----------------------------------------------------------------------------
(* Properties.                                                             *)

TypeOK ==
    /\ queue \in Seq(Nat) /\ begun \in Seq(Nat) /\ accepted \in Nat
    /\ threadCount \in Nat /\ callbacksInFlight \in Nat
    /\ ready \in Nat /\ live \in Nat
    /\ closing \in BOOLEAN /\ aborting \in BOOLEAN
    /\ scheduled \in BOOLEAN /\ finalized \in BOOLEAN
    /\ finalizerCompleted \in BOOLEAN /\ liveReleased \in BOOLEAN
    /\ referenced \in BOOLEAN
    /\ frames \in Seq(Frame)
    /\ refCall \in {"none", "ref", "unref"}
    /\ host \in {"running", "idle", "exited"}
    /\ waiting \subseteq held /\ woken \subseteq held
    /\ held \subseteq Owners

\* Frames in which a popped call is being run.
CallsRunning == {i \in DOMAIN frames : frames[i].popped}

(* Finalization is quiescent: once a function is finalized no call is      *)
(* queued, none is being run by any poll frame, and none can arrive, so    *)
(* neither the callback nor its context is used after the finalizer        *)
(* (run_one_threadsafe_callback's test of queue and callbacks_in_flight).  *)
FinalizedIsQuiescent ==
    finalized => closing /\ queue = <<>> /\ CallsRunning = {}

(* Whatever must still happen has an event on its way: an unserved call    *)
(* or a pending finalization is always backed by a scheduled event or by a *)
(* frame that will test for finalization when its callback returns.        *)
PendingWorkIsScheduled ==
    /\ queue # <<>> => scheduled
    /\ closing /\ ~finalized =>
          scheduled \/ \E i \in DOMAIN frames : frames[i].pc = "call"

(* The scheduled flag stands for exactly one event: on the ready list or   *)
(* in the hands of the Host, never both, never twice.                      *)
ScheduledIsOneEvent ==
    /\ ready <= 1
    /\ scheduled <=> (ready = 1 \/ TopIs("taken"))
    /\ TopIs("taken") => ready = 0

(* No lost wakeup: while a producer sleeps in Condvar::wait, every free    *)
(* place of the queue already has a notified thread on its way to it, and  *)
(* nobody sleeps once the function is closing.                             *)
NoLostWakeup ==
    waiting # {} =>
        /\ ~closing
        /\ MaxQueueSize <= Len(queue) + Cardinality(woken)

(* Calls are popped exactly once and in the order they were accepted,      *)
(* across nested polls, refused calls and aborts; the queue never exceeds  *)
(* its limit.  A popped call reaches call_js, or else the function; a      *)
(* function without call_js that is aborting is not called for what it     *)
(* pops (async_runtime.rs, `else if !aborting`).                           *)
DeliveredInOrder ==
    /\ begun \o queue = [i \in 1 .. accepted |-> i]
    /\ MaxQueueSize # 0 => Len(queue) <= MaxQueueSize

(* thread_count counts the acquisitions that are really held, so it cannot *)
(* underflow; LIVE_THREADSAFE_FUNCTIONS drops once, and only when the      *)
(* finalizer has returned and no owner can touch the function again.       *)
RetiredMeansUnowned ==
    /\ threadCount = Cardinality(held)
    /\ live = IF liveReleased THEN 0 ELSE 1
    /\ liveReleased => finalizerCompleted /\ held = {}
    /\ finalizerCompleted /\ held = {} => liveReleased

(* A finalized function does not keep the Host's loop alive, even when a   *)
(* ref was between its closing test and its swap while another thread      *)
(* closed the function.                                                    *)
FinalizedIsUnreferenced ==
    finalized /\ (\A i \in DOMAIN frames : frames[i].pc # "finalize") =>
        ~referenced

\* The finalizer runs at most once.
FinalizesOnce ==
    [][finalized => \A i \in DOMAIN frames' :
          frames'[i].pc = "finalize" =>
             i \in DOMAIN frames /\ frames[i].pc = "finalize"]_vars

(* Closing is safe however calls, aborts, releases and refs interleave:    *)
(* nothing of a finalized function is used again, it does not keep the     *)
(* loop alive, and it is retired exactly when nobody holds it.             *)
FinalizedIsSafe ==
    FinalizedIsQuiescent /\ FinalizedIsUnreferenced /\ RetiredMeansUnowned

(* No thread is left waiting: accepted calls and a due finalization have   *)
(* exactly one event on its way, and no wakeup of a producer is lost.      *)
WorkIsScheduled ==
    PendingWorkIsScheduled /\ ScheduledIsOneEvent /\ NoLostWakeup

(* A threadsafe function is a bounded channel.  Whatever its locks, events *)
(* and wakeups do, its users see calls accepted while it is open, handled  *)
(* in order and exactly once, and one finalization after the last of them. *)
Channel == INSTANCE BoundedChannel WITH
    Capacity <- MaxQueueSize,
    sent     <- accepted,
    buffer   <- queue,
    busy     <- Cardinality(CallsRunning),
    status   <- IF finalized THEN "finalized" ELSE IF closing THEN "closed" ELSE "open"

ImplementsChannel == Channel!Spec

(* A closing function is finalized, unless the Host has left its loop.     *)
ClosingLeadsToFinalized ==
    closing ~> (finalizerCompleted \/ host = "exited")

(* A producer blocked on a full queue returns, unless the Host has left.   *)
BlockedCallReturns ==
    \A t \in Owners :
        t \in waiting ~> (t \notin waiting \cup woken \/ host = "exited")
=============================================================================
