---------------------------- MODULE NativeTimers ----------------------------
(***************************************************************************)
(* setTimeout, setInterval and setImmediate of thaw-runtime, as            *)
(* thaw_runtime_poll_one runs them: due timers by (due, seq), then the     *)
(* immediates queued before the check phase began.  A callback is compiled *)
(* code: it sets and clears timers and may poll again, which runs other    *)
(* callbacks inside it.  Time is a count of milliseconds.                  *)
(***************************************************************************)
EXTENDS Integers, Sequences, FiniteSets

CONSTANTS Kinds,      \* the kinds of timer the program uses
          Delays,     \* the delays it asks for, in ms
          TimerMax,   \* TIMER_MAX_MS
          MaxId,      \* bound: ids and sequence numbers given out
          MaxNow,     \* bound: the clock, and the due times the program asks for
          MaxDepth,   \* bound: callbacks on the stack
          MaxLive,    \* bound: timers registered at a time
          MaxJobs     \* bound: ready promise continuations queued

ASSUME TimerAssumption ==
    /\ Kinds \subseteq {"timeout", "interval", "immediate"}
    /\ Delays \subseteq Nat /\ TimerMax \in Nat \ {0}
    /\ {MaxId, MaxNow, MaxDepth, MaxLive, MaxJobs} \subseteq Nat

VARIABLES
    timer,     \* NATIVE_TIMERS, by id
    nextId,    \* NEXT_TIMER_ID
    phase,     \* TIMER_PHASE: its name, check limit and snapshot of the clock
    now,       \* timer_now_ms
    stack,     \* the callbacks being run, innermost last
    jobs,      \* ready continuations, which poll_one runs first
    ioReady,   \* the next poll finds ready I/O, or a rejection still to be reported
    failed,    \* UNHANDLED_FAILURE
    queued,    \* ghost: continuations queued so far
    cleared,   \* ghost: ids the program cleared
    late,      \* ghost: immediates set since the check phase began
    lastKey    \* ghost: (due, seq) of the last timer run under this snapshot

queue == <<timer, nextId, phase>>
vars  == <<queue, now, stack, jobs, ioReady, queued, failed, cleared, late, lastKey>>

Id == 1..MaxId

TimerBox == [kind : Kinds, delay : Nat, due : Nat, seq : Id, refed : BOOLEAN]

NoTimer == [kind |-> "none"]

Phase == [name : {"timers", "check"}, limit : 0..MaxId + 1, snapshot : -1..MaxNow]

Registered == {i \in Id : timer[i] # NoTimer}

NoKey == <<0, 0>>

\* timer_delay_ms: a delay out of range becomes one millisecond.
Delay(ms) == IF ms \in 1..TimerMax THEN ms ELSE 1

-----------------------------------------------------------------------------
(* What compiled code may call, in a callback or between polls.            *)

Set(kind, ms) ==
    /\ nextId <= MaxId /\ now + Delay(ms) <= MaxNow
    /\ Cardinality(Registered) < MaxLive
    /\ timer' = [timer EXCEPT ![nextId] =
                   [kind |-> kind, delay |-> Delay(ms), due |-> now + Delay(ms),
                    seq |-> nextId, refed |-> TRUE]]
    /\ nextId' = nextId + 1
    /\ late' = IF kind = "immediate" /\ phase.name = "check"
               THEN late \cup {nextId} ELSE late
    /\ UNCHANGED <<phase, now, stack, jobs, ioReady, queued, failed, cleared, lastKey>>

Clear(i) ==
    /\ timer[i] # NoTimer \/ \E k \in 1..Len(stack) : stack[k].id = i
    /\ i \notin cleared
    /\ timer' = [timer EXCEPT ![i] = NoTimer]
    /\ cleared' = cleared \cup {i}
    /\ UNCHANGED <<nextId, phase, now, stack, jobs, ioReady, queued, failed, late, lastKey>>

SetRef(i, refed) ==
    /\ timer[i] # NoTimer /\ timer[i].refed # refed
    /\ timer' = [timer EXCEPT ![i].refed = refed]
    /\ UNCHANGED <<nextId, phase, now, stack, jobs, ioReady, queued, failed, cleared, late, lastKey>>

Refresh(i) ==
    /\ timer[i] # NoTimer /\ timer[i].kind # "immediate"
    /\ now + timer[i].delay <= MaxNow
    /\ timer' = [timer EXCEPT ![i].due = now + timer[i].delay]
    /\ UNCHANGED <<nextId, phase, now, stack, jobs, ioReady, queued, failed, cleared, late, lastKey>>

\* A promise settles and queues a continuation.
QueueJob ==
    /\ queued < MaxJobs
    /\ queued' = queued + 1
    /\ jobs' = jobs + 1
    /\ UNCHANGED <<queue, now, stack, ioReady, failed, cleared, late, lastKey>>

\* A poll reports an unhandled rejection no listener takes.
Fail ==
    /\ jobs = 0 /\ ~failed
    /\ failed' = TRUE
    /\ UNCHANGED <<queue, now, stack, jobs, ioReady, queued, cleared, late, lastKey>>

Tick ==
    /\ now < MaxNow
    /\ now' = now + 1
    /\ UNCHANGED <<queue, stack, jobs, ioReady, queued, failed, cleared, late, lastKey>>

-----------------------------------------------------------------------------
(* run_one_native_timer, from thaw_runtime_poll_one.                       *)

Key(i) == <<timer[i].due, timer[i].seq>>

Before(a, b) == a[1] < b[1] \/ (a[1] = b[1] /\ a[2] < b[2])

\* Ignores the creation order of timers due at the same time.
FirstByDueOnly(S) == CHOOSE i \in S : \A k \in S : timer[i].due <= timer[k].due /\ i >= k

FirstByDue(S) == CHOOSE i \in S : \A k \in S : k = i \/ Before(Key(i), Key(k))

FirstBySeq(S) == CHOOSE i \in S : \A k \in S : timer[i].seq <= timer[k].seq

Runnable(p) ==
    {i \in Registered :
        IF p.name = "timers" THEN timer[i].kind # "immediate" /\ timer[i].due <= p.snapshot
        ELSE timer[i].kind = "immediate" /\ timer[i].seq < p.limit}

Pick(p) == IF p.name = "timers" THEN FirstByDue(Runnable(p)) ELSE FirstBySeq(Runnable(p))

\* The check phase lets in the first immediate its own callbacks queue.
FlipInclusive(p) ==
    IF p.name = "timers"
    THEN [name |-> "check", limit |-> nextId + 1, snapshot |-> p.snapshot]
    ELSE [name |-> "timers", limit |-> 0, snapshot |-> now]

\* The clock is not read again for the next timers phase.
FlipStale(p) ==
    IF p.name = "timers"
    THEN [name |-> "check", limit |-> nextId, snapshot |-> p.snapshot]
    ELSE [name |-> "timers", limit |-> 0, snapshot |-> p.snapshot]

Flip(p) ==
    IF p.name = "timers"
    THEN [name |-> "check", limit |-> nextId, snapshot |-> p.snapshot]
    ELSE [name |-> "timers", limit |-> 0, snapshot |-> now]

OneFlip == 0..1

\* Three rounds: the phase as it is, and two flips.
Flips == 0..2

\* The first poll takes the first snapshot of the clock.
Entry == IF phase.snapshot < 0 THEN [phase EXCEPT !.snapshot = now] ELSE phase

AfterFlips(n) == CASE n = 0 -> Entry
                   [] n = 1 -> Flip(Entry)
                   [] n = 2 -> Flip(Flip(Entry))
                   [] OTHER -> Flip(Flip(Flip(Entry)))

\* poll_one runs a native timer when nothing else was ready.
LoopFree == jobs = 0 /\ ~ioReady /\ ~failed /\ Len(stack) < MaxDepth

\* What the poll after this one finds is up to the descriptors and the program.
NextPoll == ioReady' \in BOOLEAN

\* A poll without a continuation dispatches ready I/O and runs no timer.  The next
\* one finds none; polls that find some again change nothing here.
PollIo ==
    /\ jobs = 0 /\ ioReady
    /\ ioReady' = FALSE
    /\ UNCHANGED <<queue, now, stack, jobs, queued, failed, cleared, late, lastKey>>

Enters(n) == n \in Flips /\ Runnable(AfterFlips(n)) # {}
             /\ \A k \in 0..n - 1 : Runnable(AfterFlips(k)) = {}

\* The first phase in which something can run; a one-shot is gone before its
\* callback begins.
RunOne(n) ==
    /\ LoopFree
    /\ Registered # {}
    /\ Enters(n)
    /\ LET p == AfterFlips(n)
           i == Pick(p)
       IN  /\ phase' = p
           /\ timer' = IF timer[i].kind = "interval" THEN timer
                       ELSE [timer EXCEPT ![i] = NoTimer]
           /\ stack' = Append(stack, [id |-> i, interval |-> timer[i].kind = "interval"])
           /\ lastKey' = IF p.name = "timers" THEN Key(i) ELSE NoKey
           /\ late' = IF n = 0 THEN late ELSE {}
    /\ NextPoll
    /\ UNCHANGED <<nextId, now, jobs, queued, failed, cleared>>

\* Nothing can run in three rounds.
RunNothing ==
    /\ LoopFree
    /\ Registered # {}
    /\ \A k \in Flips : Runnable(AfterFlips(k)) = {}
    /\ phase' = AfterFlips(Cardinality(Flips))
    /\ lastKey' = NoKey /\ late' = {}
    /\ NextPoll
    /\ UNCHANGED <<timer, nextId, now, stack, jobs, queued, failed, cleared>>

RunJob ==
    /\ jobs > 0
    /\ jobs' = jobs - 1
    /\ NextPoll
    /\ UNCHANGED <<queue, now, stack, queued, failed, cleared, late, lastKey>>

\* The interval is put back although its callback cleared it.
RescheduledAlways(i) ==
    /\ nextId <= MaxId
    /\ timer' = [timer EXCEPT ![i] =
                   [kind |-> "interval", delay |-> 1, due |-> now + 1, seq |-> nextId,
                    refed |-> TRUE]]
    /\ nextId' = nextId + 1
    /\ UNCHANGED cleared

\* An interval its callback did not clear starts again.  At the bound of ids its
\* callback has cleared it.
Rescheduled(i) ==
    \/ timer[i] = NoTimer /\ UNCHANGED <<timer, nextId, cleared>>
    \/ /\ timer[i] # NoTimer /\ nextId <= MaxId
       /\ timer' = [timer EXCEPT ![i].due = now + timer[i].delay, ![i].seq = nextId]
       /\ nextId' = nextId + 1
       /\ UNCHANGED cleared
    \/ /\ timer[i] # NoTimer /\ nextId > MaxId
       /\ timer' = [timer EXCEPT ![i] = NoTimer]
       /\ cleared' = cleared \cup {i}
       /\ UNCHANGED nextId

Return ==
    /\ stack # <<>>
    /\ LET top == stack[Len(stack)]
       IN  IF top.interval THEN Rescheduled(top.id) ELSE UNCHANGED <<timer, nextId, cleared>>
    /\ stack' = SubSeq(stack, 1, Len(stack) - 1)
    /\ UNCHANGED <<phase, now, jobs, ioReady, queued, failed, late, lastKey>>

\* purge_pending_async_state drops every timer; the phase stays as it is.
Purge ==
    /\ stack = <<>> /\ Registered # {}
    /\ timer' = [i \in Id |-> NoTimer]
    /\ jobs' = 0
    /\ cleared' = cleared \cup Registered
    /\ UNCHANGED <<nextId, phase, now, stack, ioReady, queued, failed, late, lastKey>>

-----------------------------------------------------------------------------
Init ==
    /\ timer = [i \in Id |-> NoTimer]
    /\ nextId = 1
    /\ now = 0
    /\ phase = [name |-> "timers", limit |-> 0, snapshot |-> -1]
    /\ stack = <<>> /\ jobs = 0 /\ queued = 0 /\ failed = FALSE
    /\ ioReady \in BOOLEAN
    /\ cleared = {} /\ late = {} /\ lastKey = NoKey

Program ==
    \/ \E kind \in Kinds \ {"immediate"}, ms \in Delays : Set(kind, ms)
    \/ "immediate" \in Kinds /\ Set("immediate", 0)
    \/ \E i \in Id : Clear(i) \/ Refresh(i) \/ \E refed \in BOOLEAN : SetRef(i, refed)
    \/ QueueJob

Loop == RunJob \/ (\E n \in Flips : RunOne(n)) \/ RunNothing \/ Return

Next == Program \/ Loop \/ PollIo \/ Tick \/ Fail \/ Purge

Spec == Init /\ [][Next]_vars

\* The loop polls for ever, callbacks return, the clock advances.  No fairness makes
\* I/O run dry: a descriptor may be ready at every poll.
FairSpec == Spec /\ WF_vars(Loop) /\ WF_vars(Tick)

-----------------------------------------------------------------------------
\* The timer queue, the phase and the ghosts keep their types.
TypeOK ==
    /\ timer \in [Id -> TimerBox \cup {NoTimer}]
    /\ nextId \in 1..MaxId + 1
    /\ phase \in Phase
    /\ now \in 0..MaxNow /\ phase.snapshot <= now
    /\ stack \in Seq([id : Id, interval : BOOLEAN])
    /\ jobs \in 0..queued /\ queued \in 0..MaxJobs
    /\ ioReady \in BOOLEAN /\ failed \in BOOLEAN
    /\ cleared \subseteq Id /\ late \subseteq Id
    /\ lastKey \in Nat \X (Nat)

Begins == Len(stack') > Len(stack)
Begun == stack'[Len(stack')].id

\* Callbacks run in Node's order whatever they set, clear or refresh: timers of
\* one phase by due time and then creation, never before they are due, and
\* immediates as they were queued.
TimersInOrder ==
    Begins =>
        LET i == Begun
        IN  IF timer[i].kind = "immediate"
            THEN \A k \in Registered : timer[k].kind = "immediate" => timer[i].seq <= timer[k].seq
            ELSE /\ timer[i].due <= now
                 /\ phase'.snapshot = phase.snapshot => ~Before(Key(i), lastKey)
                 /\ \A k \in Registered :
                       timer[k].kind # "immediate" => ~Before(Key(k), Key(i))

\* An immediate set during the check phase waits for the next one, so that
\* immediates which queue immediates cannot starve the timers.
NoStarvation == Begins /\ phase' = phase => Begun \notin late

\* Callbacks run in Node's order and none can keep the others out of their turn
\* (run_one_native_timer's phases).
RunsInOrder == [][TimersInOrder /\ NoStarvation]_vars

\* When run_one_native_timer reports that nothing can run, no immediate is
\* queued and no timer is due, so sleeping until the next timer loses nothing.
IdleIsIdle ==
    [][RunNothing => \A i \in Registered : timer[i].kind # "immediate" /\ timer[i].due > now]_vars

\* A cleared timer never comes back and never runs again, also when an interval
\* is cleared by its own callback or by a callback nested in it.
ClearedIsGone == \A i \in cleared : timer[i] = NoTimer

OneShots == {i \in Registered : timer[i].kind # "interval"}

\* Every timeout and immediate runs or is cleared, unless the program failed or
\* some descriptor is ready at every poll from some time on: poll_one runs a native
\* timer only when it dispatched no I/O.  An id is given out once and only MaxId
\* are, so each timer ends if and only if again and again none is left.
EveryTimerEnds == []<>~ioReady => []<>(OneShots = {} \/ failed)
=============================================================================
