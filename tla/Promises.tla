------------------------------ MODULE Promises ------------------------------
(***************************************************************************)
(* Native promises of thaw-runtime and the event loop that resumes their   *)
(* subscribers: settlement, the FIFO of ready continuations, the token     *)
(* counts that decide when a promise box is freed, the boxed frames of     *)
(* chains, adoptions, detached promises and the four combinators, timers   *)
(* and fd waits, reports of unhandled rejections, and the purge at the end *)
(* of an invocation.                                                       *)
(*                                                                         *)
(* Everything here runs on one thread.  Compiled code runs between polls   *)
(* and inside the callback of a chain or a listener of unhandled           *)
(* rejections, from where it may poll again: the callbacks in progress are *)
(* the stack and the batches.  A promise, frame or join is identified by   *)
(* its number of creation, 0 is the null pointer.                          *)
(***************************************************************************)
EXTENDS Naturals, Sequences, FiniteSets

CONSTANTS MaxPromises,  \* bound: promises ever created
          MaxFrames,    \* bound: subscriptions ever made
          MaxJoins,     \* bound: combinator states ever created
          MaxTokens,    \* bound: external tokens compiled code holds on one promise
          MaxDepth,     \* bound: chain callbacks and listeners being run
          MaxPurges,    \* bound: invocations abandoned
          Slots,        \* arena cells that may store a promise
          Operations    \* the entry points the program uses

OperationNames ==
    {"new", "sleep", "waitFd", "retain", "destroy", "await", "blockingAwait",
     "detach", "detachSlot", "chain", "adopt", "finallyAdopt", "all", "race",
     "any", "allSettled", "refused", "slot", "deadline", "listen"}

ASSUME BoundsAssumption ==
    /\ {MaxPromises, MaxFrames, MaxJoins, MaxTokens, MaxDepth, MaxPurges} \subseteq Nat
    /\ IsFiniteSet(Slots)
    /\ Operations \subseteq OperationNames

Promise == 1..MaxPromises
FrameId == 1..MaxFrames
JoinId  == 1..MaxJoins
Null    == 0

Settlement == {"fulfilled", "rejected"}

VARIABLES
    heap,            \* the ThawPromise boxes
    frame,           \* the boxed callback states
    join,            \* the boxed combinator states
    slot,            \* PROMISE_ARENA_SLOT_OWNERS
    ready,           \* READY_CONTINUATIONS
    stack,           \* chain callbacks being run, innermost last
    timers, fdWaits, \* TIMERS and FD_WAITS, by promise
    activeJoins,     \* ACTIVE_PROMISE_JOINS
    pendingHandled,  \* PENDING_REJECTION_HANDLED
    orphaned,        \* ORPHANED_REJECTIONS, records per promise
    batches,         \* snapshots whose listeners are being called, innermost last
    born, frames, joins, purges,   \* how many were made so far
    owned,           \* external tokens held by compiled code
    resolvable,      \* promises compiled code made to settle itself
    reports,         \* ghost: reports made of each promise's rejection
    notices,         \* ghost: rejectionHandled events emitted
    observed,        \* ghost: promises some consumer other than a detach observes
    joinLog,         \* ghost: what each combinator has seen of its inputs
    forced,          \* ghost: promises rejected by the invocation deadline
    lost             \* ghost: continuations a purge dropped from the ready queue

counters == <<born, frames, joins, purges>>
ghost    == <<reports, notices, observed, joinLog, forced, lost>>
reporting == <<pendingHandled, orphaned, batches>>
vars == <<heap, frame, join, slot, ready, stack, timers, fdWaits, activeJoins,
          reporting, counters, owned, resolvable, ghost>>

-----------------------------------------------------------------------------
(* The boxes.                                                              *)

PromiseBox == [live : BOOLEAN, result : {"pending"} \cup Settlement,
               handled : BOOLEAN, reported : BOOLEAN,
               subscribers : Seq(FrameId), references : Nat, internal : Nat]

NoBox == [live |-> FALSE, result |-> "pending", handled |-> FALSE,
          reported |-> FALSE, subscribers |-> <<>>, references |-> 0, internal |-> 0]

\* thaw_promise_new: one external token, nothing else.
NewBox == [NoBox EXCEPT !.live = TRUE, !.references = 1]

\* A subscription and the box its frame points to.  Every kind takes over one
\* external token of its input; "await" hands it back to the coroutine.
FrameKinds == {"await", "detach", "detachSlot", "chain", "adopt", "finallyAdopt", "child"}

NoFrame == [kind |-> "none", input |-> Null, output |-> Null, join |-> Null,
            handles |-> {}, original |-> "fulfilled", cancelled |-> FALSE]

FrameBox == [kind : FrameKinds \cup {"none"}, input : Promise \cup {Null},
             output : Promise \cup {Null}, join : JoinId \cup {Null},
             handles : SUBSET Settlement, original : Settlement, cancelled : BOOLEAN]

JoinKinds == {"all", "race", "any", "allSettled"}

NoJoin == [kind |-> "none", output |-> Null, remaining |-> 0, done |-> FALSE,
           counted |-> FALSE, cancelled |-> FALSE]

JoinBox == [kind : JoinKinds \cup {"none"}, output : Promise \cup {Null},
            remaining : Nat, done : BOOLEAN, counted : BOOLEAN, cancelled : BOOLEAN]

LogEntry == [kind : JoinKinds \cup {"none"}, output : Promise \cup {Null}, left : Nat,
             seen : Seq(Settlement), invalid : BOOLEAN, cancelled : BOOLEAN]

NoLog == [kind |-> "none", output |-> Null, left |-> 0, seen |-> <<>>,
          invalid |-> FALSE, cancelled |-> FALSE]

Pending(h, p) == h[p].result = "pending"

-----------------------------------------------------------------------------
(* What the runtime's functions do to the heap h.                          *)

\* Accepts a second settlement.
SettleAgain(h, p, r) == [h EXCEPT ![p].result = r, ![p].subscribers = <<>>]

\* settle_promise: only the first settlement counts.
Settle(h, p, r) ==
    IF Pending(h, p)
    THEN [h EXCEPT ![p].result = r, ![p].subscribers = <<>>]
    ELSE h

\* The continuations settle_promise moves to the ready queue, in order.
Woken(h, p) == IF Pending(h, p) THEN h[p].subscribers ELSE <<>>

\* Frees the box although internal tokens remain.
DestroyIgnoringInternal(h, p) ==
    IF h[p].references <= h[p].internal + 1
    THEN [h EXCEPT ![p] = NoBox]
    ELSE [h EXCEPT ![p].references = @ - 1]

\* thaw_promise_destroy: gives back an external token, if one is left.
Destroy(h, p) ==
    IF h[p].references <= h[p].internal THEN h
    ELSE IF h[p].references = 1 THEN [h EXCEPT ![p] = NoBox]
    ELSE [h EXCEPT ![p].references = @ - 1]

\* Forgets one of the two counters.
ReleaseOneCounter(h, p) ==
    IF h[p].references = 1 THEN [h EXCEPT ![p] = NoBox]
    ELSE [h EXCEPT ![p].references = @ - 1]

\* release_native_promise_internal.
Release(h, p) ==
    IF h[p].internal = 0 \/ h[p].references = 0 THEN h
    ELSE IF h[p].references = 1 THEN [h EXCEPT ![p] = NoBox]
    ELSE [h EXCEPT ![p].references = @ - 1, ![p].internal = @ - 1]

\* retain_native_promise_internal.
RetainInternal(h, p) ==
    [h EXCEPT ![p].references = @ + 1, ![p].internal = @ + 1]

\* OutputRef::new.
OutputRef(h, p) == RetainInternal(h, p)

\* destroy_promise_box drops the promise's timers and fd waits.
Waiting(waits, h) == {p \in waits : h[p].live}

DropWaits(h) ==
    /\ timers' = Waiting(timers, h)
    /\ fdWaits' = Waiting(fdWaits, h)

\* A late handler is announced although the rejection was never reported.
LateUnreported(h, P) == Cardinality({p \in P : h[p].result = "rejected" /\ ~h[p].handled})

\* thaw_promise_mark_handled: how many rejectionHandled events observing the
\* promises P calls for.
Late(h, P) == Cardinality({p \in P : h[p].reported /\ ~h[p].handled})

-----------------------------------------------------------------------------
(* Compiled code: creating, settling and counting.                         *)

Has(p) == heap[p].live /\ owned[p] > 0

\* Promises compiled code may settle: the ones its coroutines and host calls
\* produce, which need no token of their own while the box lives, and the
\* output a callback on the stack was given.
Writable == {p \in resolvable : heap[p].live}
            \cup {frame[stack[i]].output : i \in 1..Len(stack)}

\* The next promise, frame and combinator state to be allocated.
FreshPromise == {born + 1} \cap Promise
FreshFrame   == {frames + 1} \cap FrameId
FreshJoin    == {joins + 1} \cap JoinId

\* A new promise p, born settled as r or pending.
Birth(p, r) ==
    /\ born' = p
    /\ heap' = [heap EXCEPT ![p] = [NewBox EXCEPT !.result = r]]
    /\ owned' = [owned EXCEPT ![p] = 1]
    /\ UNCHANGED <<frame, join, slot, ready, stack, activeJoins, reporting,
                   frames, joins, purges, ghost>>

New(p) ==
    /\ "new" \in Operations
    /\ Birth(p, "pending")
    /\ resolvable' = resolvable \cup {p}
    /\ UNCHANGED <<timers, fdWaits>>

Sleep(p) ==
    /\ "sleep" \in Operations
    /\ Birth(p, "pending")
    /\ timers' = timers \cup {p}
    /\ UNCHANGED <<fdWaits, resolvable>>

WaitFd(p) ==
    /\ "waitFd" \in Operations
    /\ Birth(p, "pending")
    /\ fdWaits' = fdWaits \cup {p}
    /\ UNCHANGED <<timers, resolvable>>

\* A null or empty input, or an invalid descriptor: chains, finally, all,
\* race, any and wait_fd reject at once; all and allSettled of nothing fulfil;
\* race of nothing stays pending.
Refused(p, r) ==
    /\ "refused" \in Operations
    /\ Birth(p, r)
    /\ UNCHANGED <<timers, fdWaits, resolvable>>

SettleOwn(p, r) ==
    /\ p \in Writable
    /\ Pending(heap, p)
    /\ heap' = Settle(heap, p, r)
    /\ ready' = ready \o Woken(heap, p)
    /\ UNCHANGED <<frame, join, slot, stack, timers, fdWaits, activeJoins,
                   reporting, counters, owned, resolvable, ghost>>

\* reject_for_invocation_deadline, for the promise run_until_resolved drives.
Deadline(p) ==
    /\ "deadline" \in Operations
    /\ Has(p) /\ Pending(heap, p)
    /\ heap' = Settle(heap, p, "rejected")
    /\ ready' = ready \o Woken(heap, p)
    /\ forced' = forced \cup {p}
    /\ UNCHANGED <<frame, join, slot, stack, timers, fdWaits, activeJoins,
                   reporting, counters, owned, resolvable, reports, notices,
                   observed, joinLog, lost>>

RetainToken(p) ==
    /\ "retain" \in Operations
    /\ Has(p) /\ owned[p] < MaxTokens
    /\ heap' = [heap EXCEPT ![p].references = @ + 1]
    /\ owned' = [owned EXCEPT ![p] = @ + 1]
    /\ UNCHANGED <<frame, join, slot, ready, stack, timers, fdWaits,
                   activeJoins, reporting, counters, resolvable, ghost>>

DestroyToken(p) ==
    /\ "destroy" \in Operations
    /\ Has(p)
    /\ heap' = Destroy(heap, p)
    /\ DropWaits(heap')
    /\ owned' = [owned EXCEPT ![p] = @ - 1]
    /\ UNCHANGED <<frame, join, slot, ready, stack, activeJoins, reporting,
                   counters, resolvable, ghost>>

\* thaw_runtime_await_blocking marks the promise and then polls.
BlockingAwait(p) ==
    /\ "blockingAwait" \in Operations
    /\ Has(p) /\ ~heap[p].handled
    /\ heap' = [heap EXCEPT ![p].handled = TRUE]
    /\ pendingHandled' = pendingHandled + Late(heap, {p})
    /\ observed' = observed \cup {p}
    /\ UNCHANGED <<frame, join, slot, ready, stack, timers, fdWaits,
                   activeJoins, orphaned, batches, counters,
                   owned, resolvable, reports, notices, joinLog, forced, lost>>

SlotStored(previous, p) ==
    LET kept == IF p = Null THEN heap ELSE RetainInternal(heap, p)
    IN  IF previous = Null THEN kept ELSE Release(kept, previous)

\* thaw_promise_arena_slot_replace, and the promise a native exception record
\* keeps: the cell holds one internal token.
SlotReplace(s, p) ==
    /\ "slot" \in Operations
    /\ p # slot[s]
    /\ p # Null => Has(p)
    /\ heap' = SlotStored(slot[s], p)
    /\ DropWaits(heap')
    /\ slot' = [slot EXCEPT ![s] = p]
    /\ UNCHANGED <<frame, join, ready, stack, activeJoins, reporting, counters,
                   owned, resolvable, ghost>>

-----------------------------------------------------------------------------
(* Subscribing.  The new frame goes to the subscriber list of a pending    *)
(* promise and straight to the ready queue of a settled one.               *)

Subscribed(h, p, f) ==
    [h EXCEPT ![p].handled = TRUE,
              ![p].subscribers = IF Pending(h, p) THEN Append(@, f) ELSE @]

WokenAtOnce(h, p, f) == IF Pending(h, p) THEN <<>> ELSE <<f>>

\* The tokens of compiled code after it gave one of each promise in given to
\* the runtime and was handed the new promises made.
Handed(given, made) ==
    [p \in Promise |-> IF p \in given THEN owned[p] - 1
                    ELSE IF p \in made THEN 1 ELSE owned[p]]

\* Frame f, holding box, observes its input in the heap h, where the promises
\* in made are new.
Observe(h, f, box, made) ==
    /\ frames' = f
    /\ frame' = [frame EXCEPT ![f] = box]
    /\ heap' = Subscribed(h, box.input, f)
    /\ ready' = ready \o WokenAtOnce(h, box.input, f)
    /\ pendingHandled' = pendingHandled + Late(h, {box.input})
    /\ owned' = Handed({box.input}, made)
    /\ observed' = IF box.kind \in {"detach", "detachSlot"}
                   THEN observed ELSE observed \cup {box.input}
    /\ UNCHANGED <<join, slot, stack, timers, fdWaits, activeJoins, orphaned,
                   batches, joins, purges, resolvable, reports,
                   notices, joinLog, forced, lost>>

Await(p, f) ==
    /\ "await" \in Operations
    /\ Has(p)
    /\ Observe(heap, f, [NoFrame EXCEPT !.kind = "await", !.input = p], {})
    /\ UNCHANGED born

\* thaw_promise_detach_unhandled ("detach") and thaw_promise_detach.
Detach(p, f, kind) ==
    /\ kind \in Operations \cap {"detach", "detachSlot"}
    /\ Has(p)
    /\ Observe(heap, f, [NoFrame EXCEPT !.kind = kind, !.input = p], {})
    /\ UNCHANGED born

\* .then, .catch and .finally: a callback for the settlements in handles.
Chain(p, f, q, handles) ==
    /\ "chain" \in Operations
    /\ Has(p)
    /\ born' = q
    /\ Observe(OutputRef([heap EXCEPT ![q] = NewBox], q), f,
               [NoFrame EXCEPT !.kind = "chain", !.input = p, !.output = q,
                               !.handles = handles], {q})

\* Adopting itself rejects the output instead, which SettleOwn covers.
Adopt(out, p, f) ==
    /\ "adopt" \in Operations
    /\ out \in Writable /\ Has(p) /\ out # p
    /\ Observe(OutputRef(heap, out), f,
               [NoFrame EXCEPT !.kind = "adopt", !.input = p, !.output = out], {})
    /\ UNCHANGED born

\* A .finally callback returned promise p: out takes the original settlement
\* once p fulfils.
FinallyAdopt(out, p, f, original) ==
    /\ "finallyAdopt" \in Operations
    /\ out \in Writable /\ Has(p) /\ out # p
    /\ Observe(OutputRef(heap, out), f,
               [NoFrame EXCEPT !.kind = "finallyAdopt", !.input = p,
                               !.output = out, !.original = original], {})
    /\ UNCHANGED born

-----------------------------------------------------------------------------
(* Combinators over a sequence of distinct inputs, one child frame each.   *)
(* invalid: a null handle was among the inputs.                            *)

Inputs(s) == {s[i] : i \in 1..Len(s)}

\* Frame of the i-th input.
Child(i) == frames + i

\* The frames fs in the order they were made.
InOrder(fs) == CHOOSE w \in [1..Cardinality(fs) -> fs] :
                  \A i, k \in 1..Cardinality(fs) : i < k => w[i] < w[k]

JoinedBox(s, p) ==
    LET i == CHOOSE k \in 1..Len(s) : s[k] = p
    IN  [heap[p] EXCEPT !.handled = TRUE,
            !.subscribers = IF Pending(heap, p) THEN Append(@, Child(i)) ELSE @]

Combine(kind, s, invalid, q, j) ==
    /\ kind \in Operations \cap JoinKinds
    /\ s # <<>> /\ \A p \in Inputs(s) : Has(p)
    /\ born' = q
    /\ joins' = j
    /\ frames + Len(s) \in FrameId /\ frames' = frames + Len(s)
    /\ invalid => kind \in {"all", "race"}
    /\ heap' = [p \in Promise |->
                  IF p \in Inputs(s) THEN JoinedBox(s, p)
                  ELSE IF p = q
                  THEN OutputRef([heap EXCEPT ![q] = [NewBox EXCEPT
                                    !.result = IF invalid THEN "rejected" ELSE "pending"]], q)[q]
                  ELSE heap[p]]
    /\ frame' = [f \in FrameId |->
                  IF f \in frames + 1 .. frames + Len(s)
                  THEN [NoFrame EXCEPT !.kind = "child", !.input = s[f - frames], !.join = j]
                  ELSE frame[f]]
    /\ join' = [join EXCEPT ![j] =
                  [kind |-> kind, output |-> q, remaining |-> Len(s),
                   done |-> invalid, counted |-> TRUE, cancelled |-> FALSE]]
    /\ activeJoins' = activeJoins + 1
    /\ ready' = ready \o InOrder({Child(i) : i \in {k \in 1..Len(s) : ~Pending(heap, s[k])}})
    /\ pendingHandled' = pendingHandled + Late(heap, Inputs(s))
    /\ owned' = Handed(Inputs(s), {q})
    /\ observed' = observed \cup Inputs(s)
    /\ joinLog' = [joinLog EXCEPT ![j] =
                     [kind |-> kind, output |-> q, left |-> Len(s), seen |-> <<>>,
                      invalid |-> invalid, cancelled |-> FALSE]]
    /\ UNCHANGED <<slot, stack, timers, fdWaits, orphaned, batches, purges, resolvable,
                   reports, notices, forced, lost>>

\* allSettled given a null handle rejects and only consumes its inputs.
AllSettledRefused(s, q) ==
    /\ "allSettled" \in Operations
    /\ s # <<>> /\ \A p \in Inputs(s) : Has(p)
    /\ born' = q
    /\ heap' = [p \in Promise |->
                  IF p \in Inputs(s) THEN Destroy(heap, p)[p]
                  ELSE IF p = q THEN [NewBox EXCEPT !.result = "rejected"]
                  ELSE heap[p]]
    /\ DropWaits(heap')
    /\ owned' = Handed(Inputs(s), {q})
    /\ UNCHANGED <<frame, join, slot, ready, stack, activeJoins, reporting,
                   frames, joins, purges, resolvable, ghost>>

-----------------------------------------------------------------------------
(* thaw_runtime_poll_one.  Timers and fd waits that are due settle their   *)
(* promises before a continuation is taken; the callbacks of fd watchers   *)
(* run in between, so each is a step of its own.                           *)

TimerDue(p) ==
    /\ p \in timers
    /\ timers' = timers \ {p}
    /\ heap' = Settle(heap, p, "fulfilled")
    /\ ready' = ready \o Woken(heap, p)
    /\ UNCHANGED <<frame, join, slot, stack, fdWaits, activeJoins, reporting,
                   counters, owned, resolvable, ghost>>

\* Ready, or timed out or no longer open.
FdDone(p, r) ==
    /\ p \in fdWaits
    /\ fdWaits' = fdWaits \ {p}
    /\ heap' = Settle(heap, p, r)
    /\ ready' = ready \o Woken(heap, p)
    /\ UNCHANGED <<frame, join, slot, stack, timers, activeJoins, reporting,
                   counters, owned, resolvable, ghost>>

\* The continuation poll_one takes from the queue.
Taken == Head(ready)
Box == frame[Taken]
Outcome == heap[Box.input].result

Resuming(kind) == ready # <<>> /\ Box.kind = kind

FreeFrame(f) == frame' = [frame EXCEPT ![f] = NoFrame]

\* The coroutine goes on with its token of the promise.
ResumeAwait ==
    /\ Resuming("await")
    /\ ready' = Tail(ready)
    /\ FreeFrame(Taken)
    /\ owned' = [owned EXCEPT ![Box.input] = @ + 1]
    /\ UNCHANGED <<heap, join, slot, stack, timers, fdWaits, activeJoins,
                   reporting, counters, resolvable, ghost>>

\* destroy_detached_promise.
ResumeDetach ==
    /\ Resuming("detach") \/ Resuming("detachSlot")
    /\ ready' = Tail(ready)
    /\ FreeFrame(Taken)
    /\ LET p == Box.input
           queued == Box.kind = "detach" /\ Outcome = "rejected"
       IN  /\ heap' = Destroy(IF queued THEN [heap EXCEPT ![p].reported = TRUE]
                              ELSE heap, p)
           /\ orphaned' = IF queued THEN [orphaned EXCEPT ![p] = @ + 1] ELSE orphaned
    /\ DropWaits(heap')
    /\ UNCHANGED <<join, slot, stack, activeJoins, pendingHandled, batches, counters, owned,
                   resolvable, ghost>>

\* The callbacks in progress.
Depth == Len(stack) + Len(batches)

\* The innermost callback is a listener of unhandled rejections.
InListener == batches # <<>> /\ batches[Len(batches)].base = Len(stack)

\* resume_promise_chain, when its input settled in a way it has a callback
\* for: compiled code runs until ReturnChain.
ResumeChain ==
    /\ Resuming("chain") /\ Outcome \in Box.handles
    /\ Depth < MaxDepth
    /\ ready' = Tail(ready)
    /\ stack' = Append(stack, Taken)
    /\ UNCHANGED <<heap, frame, join, slot, timers, fdWaits, activeJoins,
                   reporting, counters, owned, resolvable, ghost>>

\* The end of a resume: the input's token, then the box with its OutputRef.
GiveBack(h, box) == Release(Destroy(h, box.input), box.output)

ReturnChain ==
    /\ stack # <<>> /\ ~InListener
    /\ LET f == stack[Len(stack)]
       IN  heap' = GiveBack(heap, frame[f]) /\ FreeFrame(f)
    /\ stack' = SubSeq(stack, 1, Len(stack) - 1)
    /\ DropWaits(heap')
    /\ UNCHANGED <<join, slot, ready, activeJoins, reporting, counters, owned,
                   resolvable, ghost>>

\* The output takes over r, and the frame ends.
Forward(r) ==
    /\ ready' = Tail(ready) \o Woken(heap, Box.output)
    /\ heap' = GiveBack(Settle(heap, Box.output, r), Box)
    /\ FreeFrame(Taken)
    /\ DropWaits(heap')
    /\ UNCHANGED <<join, slot, stack, activeJoins, reporting, counters, owned,
                   resolvable, ghost>>

ResumeForwardAdoptOnly == Resuming("adopt") /\ Forward(Outcome)

\* A settlement the chain has no callback for, and resume_promise_adopt.
ResumeForward ==
    /\ \/ Resuming("chain") /\ Outcome \notin Box.handles
       \/ Resuming("adopt")
    /\ Forward(Outcome)

ResumeFinallyAdopt ==
    /\ Resuming("finallyAdopt") /\ ~Box.cancelled
    /\ Forward(IF Outcome = "rejected" THEN "rejected" ELSE Box.original)

\* A purge has made the frame inert.
ResumeInert ==
    /\ Resuming("finallyAdopt") /\ Box.cancelled
    /\ ready' = Tail(ready)
    /\ heap' = GiveBack(heap, Box)
    /\ FreeFrame(Taken)
    /\ DropWaits(heap')
    /\ UNCHANGED <<join, slot, stack, activeJoins, reporting, counters, owned,
                   resolvable, ghost>>

-----------------------------------------------------------------------------
(* The children of a combinator.                                           *)

\* all waits for the last input before it rejects.
VerdictAllLate(state, outcome) ==
    CASE state.kind = "all" /\ state.remaining = 1 -> outcome
      [] state.kind = "race" /\ ~state.done -> outcome
      [] OTHER -> "pending"

\* A cancelled state still settles its output.
VerdictUncancelled(state, outcome) ==
    IF state.remaining = 1 /\ ~state.done THEN "fulfilled" ELSE "pending"

\* How the output is settled by a child that settled as outcome, if at all.
Verdict(state, outcome) ==
    IF state.done \/ state.cancelled THEN "pending"
    ELSE IF \/ state.kind = "race"
            \/ state.kind = "all" /\ outcome = "rejected"
            \/ state.kind = "any" /\ outcome = "fulfilled" THEN outcome
    ELSE IF state.remaining > 1 THEN "pending"
    ELSE IF state.kind = "any" THEN "rejected" ELSE "fulfilled"

CountedAlways(state) == TRUE

\* The state still has its share of ACTIVE_PROMISE_JOINS.
Counted(state) ==
    IF state.kind \in {"all", "race"} THEN state.counted ELSE ~state.cancelled

LastChild(state) == state.remaining = 1

ResumeChild ==
    /\ Resuming("child")
    /\ LET j     == Box.join
           state == join[j]
           r     == Verdict(state, Outcome)
           given == Destroy(IF r = "pending" THEN heap ELSE Settle(heap, state.output, r),
                            Box.input)
       IN  /\ ready' = Tail(ready) \o
                       (IF r = "pending" THEN <<>> ELSE Woken(heap, state.output))
           /\ heap' = IF LastChild(state) THEN Release(given, state.output) ELSE given
           /\ join' = [join EXCEPT ![j] =
                         IF LastChild(state) THEN NoJoin
                         ELSE [state EXCEPT !.remaining = @ - 1,
                                            !.done = @ \/ r # "pending"]]
           /\ activeJoins' = IF LastChild(state) /\ Counted(state)
                             THEN activeJoins - 1 ELSE activeJoins
           /\ joinLog' = [joinLog EXCEPT ![j].left = @ - 1,
                                         ![j].seen = Append(@, Outcome)]
    /\ FreeFrame(Taken)
    /\ DropWaits(heap')
    /\ UNCHANGED <<slot, stack, reporting, counters, owned, resolvable,
                   reports, notices, observed, forced, lost>>

-----------------------------------------------------------------------------
(* Reports, and the end of an invocation.                                  *)

\* collect_unhandled_rejections: the live promises.
Unreported == {p \in Promise : /\ heap[p].live /\ heap[p].result = "rejected"
                               /\ ~heap[p].handled /\ ~heap[p].reported}

HasLiveReports == Unreported # {}

HasReports == Unreported # {} \/ \E p \in Promise : orphaned[p] > 0

\* Leaves all but the first for a later phase to find again.
MarkedFirst == [p \in Promise |-> IF p \in Unreported /\ \A q \in Unreported : p <= q
                                  THEN [heap[p] EXCEPT !.reported = TRUE] ELSE heap[p]]

\* It marks them all before the first of them is reported.
Marked == [p \in Promise |-> IF p \in Unreported
                             THEN [heap[p] EXCEPT !.reported = TRUE] ELSE heap[p]]

\* poll_one found no continuation: report what nobody handled, then the
\* handlers that came late.  No listener is registered, or none touches a promise.
PollIdle ==
    /\ ready = <<>>
    /\ HasReports
    /\ heap' = Marked
    /\ reports' = [p \in Promise |->
                     reports[p] + orphaned[p] + IF p \in Unreported THEN 1 ELSE 0]
    /\ orphaned' = [p \in Promise |-> 0]
    /\ notices' = notices + pendingHandled
    /\ pendingHandled' = 0
    /\ UNCHANGED <<frame, join, slot, ready, stack, timers, fdWaits, activeJoins,
                   batches, counters, owned, resolvable, observed,
                   joinLog, forced, lost>>

\* The snapshot, which the listener is called for record by record: first those
\* of detached promises, then the live promises in their order of creation.  The
\* listener is compiled code: it runs until the next record is taken.
Batch == [orphans : [Promise -> Nat], live : SUBSET Promise, base : Nat]

Snapshot == [orphans |-> orphaned, live |-> Unreported, base |-> Len(stack)]

IsNext(batch, p) ==
    IF \E q \in Promise : batch.orphans[q] > 0
    THEN batch.orphans[p] > 0
    ELSE p \in batch.live /\ \A q \in batch.live : p <= q

Without(batch, p) ==
    IF batch.orphans[p] > 0 THEN [batch EXCEPT !.orphans[p] = @ - 1]
    ELSE [batch EXCEPT !.live = @ \ {p}]

\* An idle poll marks what it collected and calls the listener for p.
ReportFirst(p) ==
    /\ "listen" \in Operations
    /\ ready = <<>> /\ Depth < MaxDepth
    /\ HasReports /\ IsNext(Snapshot, p)
    /\ heap' = Marked
    /\ orphaned' = [q \in Promise |-> 0]
    /\ batches' = Append(batches, Without(Snapshot, p))
    /\ reports' = [reports EXCEPT ![p] = @ + 1]
    /\ UNCHANGED <<frame, join, slot, ready, stack, timers, fdWaits, activeJoins,
                   pendingHandled, counters, owned, resolvable, notices, observed,
                   joinLog, forced, lost>>

\* The listener returns and is called for p, whatever it did to p.
ReportNext(p) ==
    /\ InListener /\ IsNext(batches[Len(batches)], p)
    /\ batches' = [batches EXCEPT ![Len(batches)] = Without(@, p)]
    /\ reports' = [reports EXCEPT ![p] = @ + 1]
    /\ UNCHANGED <<heap, frame, join, slot, ready, stack, timers, fdWaits, activeJoins,
                   pendingHandled, orphaned, counters, owned, resolvable, notices,
                   observed, joinLog, forced, lost>>

\* The last listener returns; the handlers that came late follow.  What their
\* listeners do is done after the poll in the model: no record waits for them.
EndReports ==
    /\ InListener /\ batches[Len(batches)].live = {}
    /\ \A p \in Promise : batches[Len(batches)].orphans[p] = 0
    /\ batches' = SubSeq(batches, 1, Len(batches) - 1)
    /\ notices' = notices + pendingHandled
    /\ pendingHandled' = 0
    /\ UNCHANGED <<heap, frame, join, slot, ready, stack, timers, fdWaits, activeJoins,
                   orphaned, counters, owned, resolvable, reports, observed, joinLog,
                   forced, lost>>

\* report_pending_rejection_handled, at the head of a poll with nothing ready.
ReportHandled ==
    /\ ready = <<>> /\ pendingHandled > 0
    /\ notices' = notices + pendingHandled
    /\ pendingHandled' = 0
    /\ UNCHANGED <<heap, frame, join, slot, ready, stack, timers, fdWaits,
                   activeJoins, orphaned, batches, counters,
                   owned, resolvable, reports, observed, joinLog, forced, lost>>

\* cancel_pending_aggregate_states and
\* uncount_pending_promise_all_states_for_invocation.
Cancel(state) ==
    IF state.kind \in {"all", "race"}
    THEN [state EXCEPT !.counted = FALSE]
    ELSE [state EXCEPT !.cancelled = state.kind # "none"]

\* purge_pending_async_state.  The boxes of dropped continuations stay behind.
Purge ==
    /\ purges < MaxPurges /\ purges' = purges + 1
    /\ stack = <<>> /\ batches = <<>>
    /\ join' = [j \in JoinId |-> Cancel(join[j])]
    /\ frame' = [f \in FrameId |->
                   [frame[f] EXCEPT !.cancelled = @ \/ frame[f].kind = "finallyAdopt"]]
    /\ ready' = <<>>
    /\ lost' = lost \cup {ready[i] : i \in 1..Len(ready)}
    /\ timers' = {} /\ fdWaits' = {}
    /\ activeJoins' = 0
    /\ joinLog' = [j \in JoinId |->
                     [joinLog[j] EXCEPT !.cancelled = @ \/ join'[j].cancelled]]
    /\ UNCHANGED <<heap, slot, stack, reporting, born, frames, joins, owned,
                   resolvable, reports, notices, observed, forced>>

\* thaw_arena_reset reclaims some cells; the reset hook gives their tokens back.
ArenaReset(reclaimed) ==
    /\ stack = <<>> /\ batches = <<>>
    /\ \E s \in reclaimed : slot[s] # Null
    /\ slot' = [s \in Slots |-> IF s \in reclaimed THEN Null ELSE slot[s]]
    /\ heap' = [p \in Promise |->
                  LET n == Cardinality({s \in reclaimed : slot[s] = p})
                  IN  IF n = 0 THEN heap[p]
                      ELSE IF heap[p].references = n THEN NoBox
                      ELSE [heap[p] EXCEPT !.references = @ - n, !.internal = @ - n]]
    /\ DropWaits(heap')
    /\ UNCHANGED <<frame, join, ready, stack, activeJoins, reporting, counters,
                   owned, resolvable, ghost>>

-----------------------------------------------------------------------------
Init ==
    /\ heap = [p \in Promise |-> NoBox]
    /\ frame = [f \in FrameId |-> NoFrame]
    /\ join = [j \in JoinId |-> NoJoin]
    /\ slot = [s \in Slots |-> Null]
    /\ ready = <<>> /\ stack = <<>>
    /\ timers = {} /\ fdWaits = {}
    /\ activeJoins = 0 /\ pendingHandled = 0
    /\ orphaned = [p \in Promise |-> 0] /\ batches = <<>>
    /\ born = 0 /\ frames = 0 /\ joins = 0 /\ purges = 0
    /\ owned = [p \in Promise |-> 0]
    /\ resolvable = {}
    /\ reports = [p \in Promise |-> 0] /\ notices = 0
    /\ observed = {} /\ forced = {} /\ lost = {}
    /\ joinLog = [j \in JoinId |-> NoLog]

\* Sequences of one or two distinct inputs.
InputLists == {<<p>> : p \in Promise} \cup {s \in Promise \X Promise : s[1] # s[2]}

Create ==
    \E p \in FreshPromise :
        \/ New(p) \/ Sleep(p) \/ WaitFd(p)
        \/ \E r \in {"pending"} \cup Settlement : Refused(p, r)

UseToken ==
    \E p \in Promise :
        \/ \E r \in Settlement : SettleOwn(p, r)
        \/ Deadline(p) \/ RetainToken(p) \/ DestroyToken(p) \/ BlockingAwait(p)
        \/ \E s \in Slots : SlotReplace(s, p) \/ SlotReplace(s, Null)

Subscribe ==
    \E p \in Promise, f \in FreshFrame :
        \/ Await(p, f)
        \/ \E kind \in {"detach", "detachSlot"} : Detach(p, f, kind)
        \/ \E q \in FreshPromise, handles \in (SUBSET Settlement) \ {{}} : Chain(p, f, q, handles)
        \/ \E out \in Promise : Adopt(out, p, f)
        \/ \E out \in Promise, r \in Settlement : FinallyAdopt(out, p, f, r)

Combinators ==
    \E q \in FreshPromise, s \in InputLists :
        \/ \E j \in FreshJoin, kind \in JoinKinds, invalid \in BOOLEAN :
              Combine(kind, s, invalid, q, j)
        \/ AllSettledRefused(s, q)

Poll == \/ ResumeAwait \/ ResumeDetach \/ ResumeChain \/ ResumeForward
        \/ ResumeFinallyAdopt \/ ResumeInert \/ ResumeChild
        \/ PollIdle \/ ReportHandled \/ \E p \in Promise : ReportFirst(p)

ListenerReturns == EndReports \/ \E p \in Promise : ReportNext(p)

Due == \E p \in Promise : TimerDue(p) \/ \E r \in Settlement : FdDone(p, r)

Next == \/ Create \/ UseToken \/ Subscribe \/ Combinators
        \/ Poll \/ ReturnChain \/ ListenerReturns \/ Due \/ Purge
        \/ \E reclaimed \in SUBSET Slots : ArenaReset(reclaimed)

Spec == Init /\ [][Next]_vars

\* The loop keeps polling while the process runs, and callbacks return.
FairSpec == Spec /\ WF_vars(Poll) /\ WF_vars(ReturnChain) /\ WF_vars(ListenerReturns)

-----------------------------------------------------------------------------
(* Properties.                                                             *)

\* Every variable of the model keeps its type; in particular no counter of
\* tokens or of active joins (usize in the code) goes below zero.
TypeOK ==
    /\ heap \in [Promise -> PromiseBox]
    /\ frame \in [FrameId -> FrameBox]
    /\ join \in [JoinId -> JoinBox]
    /\ slot \in [Slots -> Promise \cup {Null}]
    /\ ready \in Seq(FrameId) /\ stack \in Seq(FrameId)
    /\ timers \subseteq Promise /\ fdWaits \subseteq Promise
    /\ activeJoins \in Nat /\ pendingHandled \in Nat /\ notices \in Nat
    /\ batches \in Seq(Batch)
    /\ orphaned \in [Promise -> Nat] /\ reports \in [Promise -> Nat]
    /\ born \in 0..MaxPromises /\ frames \in 0..MaxFrames
    /\ joins \in 0..MaxJoins /\ purges \in 0..MaxPurges
    /\ owned \in [Promise -> Nat]
    /\ resolvable \subseteq Promise
    /\ observed \subseteq Promise /\ forced \subseteq Promise /\ lost \subseteq FrameId
    /\ joinLog \in [JoinId -> LogEntry]

Consumers(p) == {f \in FrameId : frame[f].input = p}
FrameOwners(p) == {f \in FrameId : frame[f].output = p}
JoinOwners(p) == {j \in JoinId : join[j].output = p}
SlotOwners(p) == {s \in Slots : slot[s] = p}

\* The two counters of a promise box are exactly what is held on it: internal
\* tokens by the boxes that will settle it and by arena cells, external ones by
\* compiled code and by the frames that consume it.  A freed box is held by none.
TokensAccounted ==
    \A p \in Promise :
        /\ heap[p].internal = Cardinality(FrameOwners(p)) + Cardinality(JoinOwners(p))
                              + Cardinality(SlotOwners(p))
        /\ heap[p].references = heap[p].internal + owned[p] + Cardinality(Consumers(p))
        /\ heap[p].live <=> heap[p].references > 0

\* No timer, fd wait, queued or running continuation, combinator state or arena
\* cell points to a freed promise box, so poll_one never touches freed memory.
NothingDangles ==
    /\ \A p \in timers \cup fdWaits : heap[p].live
    /\ \A f \in FrameId : frame[f].kind # "none" =>
          /\ heap[frame[f].input].live
          /\ frame[f].output # Null => heap[frame[f].output].live
          /\ frame[f].join # Null => join[frame[f].join].kind # "none"
    /\ \A j \in JoinId : join[j].kind # "none" => heap[join[j].output].live
    /\ \A s \in Slots : slot[s] # Null => heap[slot[s]].live

Count(s, f) == Cardinality({i \in 1..Len(s) : s[i] = f})

\* A continuation is in exactly one place: with its pending input, in the ready
\* queue of a settled one, or being run.  So it is resumed once and only after
\* its input settled; only a purge loses one, and then for good.
OnePlacePerContinuation ==
    \A f \in FrameId :
        LET p == frame[f].input
            inReady == Count(ready, f)
            inStack == Count(stack, f)
            waiting == IF p = Null THEN 0 ELSE Count(heap[p].subscribers, f)
            total == inReady + inStack + waiting
        IN  /\ total = IF frame[f].kind = "none" \/ f \in lost THEN 0 ELSE 1
            /\ inReady + inStack > 0 => ~Pending(heap, p)
            /\ waiting > 0 => Pending(heap, p)

\* Subscribers of one promise are resumed in the order they subscribed, whether
\* they came before or after it settled.
SubscribersInOrder ==
    /\ \A i, k \in 1..Len(ready) :
          i < k /\ frame[ready[i]].input = frame[ready[k]].input => ready[i] < ready[k]
    /\ \A p \in Promise : \A i, k \in 1..Len(heap[p].subscribers) :
          i < k => heap[p].subscribers[i] < heap[p].subscribers[k]

\* A continuation is resumed once, after its input settled, in the order of
\* subscription, and touches no freed box: each box it needs is held by a token
\* of its own, arena cells counted in.
ContinuationsAreSafe ==
    NothingDangles /\ TokensAccounted /\ OnePlacePerContinuation /\ SubscribersInOrder

\* ACTIVE_PROMISE_JOINS is the number of this invocation's unfinished
\* combinators: a child that settles after a purge does not take a share that
\* belongs to the next invocation, which drain_detached would then not wait for.
JoinsCounted ==
    /\ activeJoins = Cardinality({j \in JoinId : join[j].kind # "none" /\ Counted(join[j])})
    /\ \A j \in JoinId : join[j].kind # "none" =>
          join[j].remaining = Cardinality({f \in FrameId : frame[f].join = j})

\* Every counter that decides when a box is freed or an invocation is drained is
\* exact, whatever is dropped, purged or settled late.
CountsAreExact == TokensAccounted /\ JoinsCounted

\* What ECMAScript says of a combinator whose inputs settled as seen, in the
\* order their continuations ran, with left inputs to go.
Combined(log) ==
    LET some(r) == \E i \in 1..Len(log.seen) : log.seen[i] = r
        last    == log.left = 0
    IN  IF log.invalid THEN "rejected"
        ELSE CASE log.kind = "race" -> IF log.seen = <<>> THEN "pending" ELSE log.seen[1]
               [] log.kind = "all" -> IF some("rejected") THEN "rejected"
                                      ELSE IF last THEN "fulfilled" ELSE "pending"
               [] log.kind = "any" -> IF some("fulfilled") THEN "fulfilled"
                                      ELSE IF last THEN "rejected" ELSE "pending"
               [] OTHER -> IF last THEN "fulfilled" ELSE "pending"

\* The output of all, race, any and allSettled is settled exactly as and when
\* the inputs seen so far call for.
CombinatorsAreRight ==
    \A j \in 1..joins :
        LET log == joinLog[j]
        IN  heap[log.output].live /\ ~log.cancelled /\ log.output \notin forced
            => heap[log.output].result = Combined(log)

\* Live promises a report phase has collected and not yet called a listener for.
ToReport == UNION {batches[i].live : i \in 1..Len(batches)}

\* A rejectionHandled event is owed at most once for a rejection, and only for
\* one that was reported as unhandled or that a report phase has collected.
NoticesAreOwed ==
    notices + pendingHandled <= Cardinality({p \in Promise : reports[p] > 0} \cup ToReport)

\* A settlement is final, as long as the box lives.
SettledForGood ==
    [][\A p \in Promise : heap[p].live /\ ~Pending(heap, p) /\ heap'[p].live
          => heap'[p].result = heap[p].result]_vars

\* Once purged, a combinator never settles its output when one of its children
\* settles late: that box is as it was, or freed with its last token.
CancelledIsInert ==
    [][\A j \in JoinId : join[j].cancelled /\ ResumeChild /\ Box.join = j
          => heap'[join[j].output].result \in {heap[join[j].output].result, "pending"}]_vars

\* A detached statement left a rejection of p behind, reported whoever else
\* handles it (destroy_detached_promise).
Orphan(p) == orphaned[p] > 0 \/ \E i \in 1..Len(batches) : batches[i].orphans[p] > 0

Unheard(p) == p \notin observed /\ reports[p] = 0

\* A phase collects a rejection only if nobody looked at the promise, early or
\* late, and none was reported of it; what is reported was just collected or is
\* waiting in one phase, and waits no longer.
OnlyUnhandledCollected ==
    \A p \in Promise :
        /\ p \in ToReport' \ ToReport => Unheard(p)
        /\ reports'[p] > reports[p] /\ ~Orphan(p)
              => p \notin ToReport' /\ (p \in ToReport \/ Unheard(p))

\* What the program hears of rejections is owed to it, whatever its listeners do
\* to the promises still to be reported and however they poll: one report of each
\* that was unhandled when it was collected, and one rejectionHandled event for a
\* report that a handler took back.  A promise that a listener handled while it
\* waited in a snapshot is reported all the same.
ReportsAreOwed == [][NoticesAreOwed' /\ OnlyUnhandledCollected]_vars

\* A queued continuation is resumed, unless a purge drops it.
ReadyIsResumed ==
    \A f \in FrameId : Count(ready, f) > 0 ~> (Count(ready, f) = 0)

\* A rejection nobody handles is reported while its promise lives, marked by a
\* phase or not, and the rejection of a detached promise is reported although
\* its box is gone.
RejectionIsReported ==
    \A p \in Promise :
        /\ (heap[p].live /\ heap[p].result = "rejected" /\ ~heap[p].handled)
              ~> (reports[p] > 0 \/ heap[p].handled \/ ~heap[p].live)
        /\ orphaned[p] > 0 ~> reports[p] > 0
=============================================================================
