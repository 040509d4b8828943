------------------------- MODULE NativeTimersProofs -------------------------
(***************************************************************************)
(* Proofs that NativeTimers keeps its types, that a cleared timer is gone, *)
(* that callbacks run in Node's order and that an idle loop has nothing to *)
(* run, for every bound, set of delays and set of kinds.                   *)
(***************************************************************************)
EXTENDS NativeTimers, SequenceTheorems, FiniteSetTheorems, WellFoundedInduction, TLAPS

-----------------------------------------------------------------------------
(* Numbers and keys.                                                       *)

LEMMA LeastNatural ==
    ASSUME NEW S, S \subseteq Nat, S # {}
    PROVE  \E m \in S : \A n \in S : m <= n
  <1>1. PICK m \in S : \A n \in S : ~ (<<n, m>> \in OpToRel(<, Nat))
    BY NatLessThanWellFounded, WFMin
  <1>2. \A n \in S : ~ (n < m)
    BY <1>1 DEF OpToRel
  <1> QED
    BY <1>2

\* timer_delay_ms never returns zero.
LEMMA DelayType ==
    ASSUME NEW ms \in Nat
    PROVE  Delay(ms) \in Nat /\ Delay(ms) > 0
  BY TimerAssumption DEF Delay

-----------------------------------------------------------------------------
(* The inductive invariant.                                                *)

\* TypeOK but for the flags.
TimerTypes ==
    /\ timer \in [Id -> TimerBox \cup {NoTimer}]
    /\ nextId \in 1..MaxId + 1
    /\ phase \in Phase
    /\ now \in 0..MaxNow /\ phase.snapshot <= now
    /\ stack \in Seq([id : Id, interval : BOOLEAN])
    /\ jobs \in 0..queued /\ queued \in 0..MaxJobs
    /\ cleared \subseteq Id /\ late \subseteq Id
    /\ lastKey \in Nat \X (Nat)

\* What is registered was set: ids and sequence numbers are below the next id,
\* no two timers share a sequence number, and what was cleared is gone.
KnownInv ==
    /\ \A i \in Registered :
          /\ i < nextId /\ timer[i].seq < nextId /\ timer[i].delay > 0
          /\ timer[i].kind = "immediate" => timer[i].seq = i
    /\ \A i, k \in Registered : timer[i].seq = timer[k].seq => i = k
    /\ \A k \in 1..Len(stack) :
          /\ stack[k].id < nextId
          /\ stack[k].interval /\ stack[k].id \in Registered
                => timer[stack[k].id].kind = "interval"
    /\ \A i \in cleared : i < nextId /\ timer[i] = NoTimer

\* What is due under the phase's snapshot comes after the timer run last.
AfterLast(i) ==
    timer[i].kind # "immediate" /\ timer[i].due <= phase.snapshot
       => ~Before(Key(i), lastKey)

\* Immediates set since the check phase began are beyond its limit.
PhaseInv ==
    /\ phase.limit <= nextId
    /\ phase.name = "timers" => late = {}
    /\ phase.name = "check" => lastKey = NoKey /\ \A i \in late : i >= phase.limit
    /\ \A i \in Registered : AfterLast(i)

TimerInv == TimerTypes /\ failed \in BOOLEAN /\ ioReady \in BOOLEAN /\ KnownInv /\ PhaseInv

LEMMA TimerInvImplies == TimerInv => TypeOK /\ ClearedIsGone
  BY Zenon DEF TimerInv, TimerTypes, TypeOK, KnownInv, ClearedIsGone

LEMMA RegisteredTypes ==
    ASSUME TimerTypes, NEW i \in Registered
    PROVE  /\ i \in Id /\ i \in Nat /\ timer[i] \in TimerBox
           /\ timer[i].kind \in Kinds /\ timer[i].delay \in Nat /\ timer[i].due \in Nat
           /\ timer[i].seq \in Nat /\ timer[i].seq > 0
  <1>1. i \in Id /\ timer[i] \in TimerBox
    BY DEF TimerTypes, Registered
  <1> QED
    BY <1>1, TimerAssumption DEF TimerBox, Id

LEMMA StackTypes ==
    ASSUME TimerTypes, NEW k \in 1..Len(stack)
    PROVE  stack[k].id \in Id /\ stack[k].id \in Nat
  <1>1. stack[k] \in [id : Id, interval : BOOLEAN]
    BY ElementOfSeq DEF TimerTypes
  <1> QED
    BY <1>1, TimerAssumption DEF Id

LEMMA AfterLastKept ==
    ASSUME NEW i, timer'[i] = timer[i], AfterLast(i),
           UNCHANGED <<phase, lastKey>>
    PROVE  AfterLast(i)'
  BY DEF AfterLast, Key

LEMMA BoxIsNoNone == \A b \in TimerBox : b # NoTimer
  BY TimerAssumption DEF TimerBox, NoTimer

LEMMA InitTimerInv == Init => TimerInv
  <1> SUFFICES ASSUME Init PROVE TimerInv
    OBVIOUS
  <1> USE TimerAssumption
  <1>1. MaxId \in Nat /\ MaxNow \in Nat /\ MaxJobs \in Nat
    OBVIOUS
  <1>2. TimerTypes
    BY <1>1 DEF Init, TimerTypes, Phase, NoKey
  <1>3. failed \in BOOLEAN /\ ioReady \in BOOLEAN
    BY Zenon DEF Init
  <1>4. Registered = {}
    BY DEF Init, Registered
  <1>5. KnownInv
    BY <1>4 DEF KnownInv, Init
  <1>6. PhaseInv
    BY <1>4 DEF PhaseInv, Init
  <1> QED
    BY <1>2, <1>3, <1>5, <1>6 DEF TimerInv

-----------------------------------------------------------------------------
(* The order of timers and the phases.                                     *)

LEMMA BeforeIsStrict ==
    ASSUME NEW a \in Nat \X Nat, NEW b \in Nat \X Nat
    PROVE  ~Before(a, a) /\ ~(Before(a, b) /\ Before(b, a)) /\ ~Before(a, NoKey)
  BY DEF Before, NoKey

LEMMA KeyType == ASSUME TimerTypes, NEW i \in Registered PROVE Key(i) \in Nat \X Nat
  BY RegisteredTypes DEF Key

\* Among the timers that can run one is due first, and sequence numbers decide
\* between those due together.
LEMMA FirstByDueIsFirst ==
    ASSUME TimerTypes, KnownInv, NEW S, S \subseteq Registered, S # {}
    PROVE  /\ FirstByDue(S) \in S
           /\ \A k \in S : ~Before(Key(k), Key(FirstByDue(S)))
  <1> DEFINE dues == {timer[i].due : i \in S}
  <1>1. PICK d \in dues : \A e \in dues : d <= e
    <2>1. dues \subseteq Nat /\ dues # {}
      BY RegisteredTypes
    <2> HIDE DEF dues
    <2> QED
      BY <2>1, LeastNatural
  <1> DEFINE seqs == {timer[i].seq : i \in {k \in S : timer[k].due = d}}
  <1>2. PICK q \in seqs : \A r \in seqs : q <= r
    <2>1. seqs \subseteq Nat /\ seqs # {}
      BY <1>1, RegisteredTypes
    <2> HIDE DEF seqs
    <2> QED
      BY <2>1, LeastNatural
  <1>3. PICK i \in S : timer[i].due = d /\ timer[i].seq = q
    BY <1>2
  <1>4. ASSUME NEW k \in S, k # i
        PROVE  Before(Key(i), Key(k))
    <2>1. d <= timer[k].due /\ d \in Nat /\ q \in Nat
          /\ timer[k].due \in Nat /\ timer[k].seq \in Nat
      BY <1>1, <1>3, RegisteredTypes
    <2>2. timer[k].seq # q
      BY <1>3, <1>4 DEF KnownInv
    <2>3. timer[k].due = d => q <= timer[k].seq
      BY <1>2
    <2> QED
      BY <1>3, <2>1, <2>2, <2>3 DEF Before, Key
  <1>5. \E j \in S : \A k \in S : k = j \/ Before(Key(j), Key(k))
    BY <1>4
  <1>6. /\ FirstByDue(S) \in S
        /\ \A k \in S : k = FirstByDue(S) \/ Before(Key(FirstByDue(S)), Key(k))
    BY <1>5, Zenon DEF FirstByDue
  <1> QED
    BY <1>6, KeyType, BeforeIsStrict

LEMMA FirstBySeqIsFirst ==
    ASSUME TimerTypes, NEW S, S \subseteq Registered, S # {}
    PROVE  /\ FirstBySeq(S) \in S
           /\ \A k \in S : timer[FirstBySeq(S)].seq <= timer[k].seq
  <1> DEFINE seqs == {timer[i].seq : i \in S}
  <1>1. PICK q \in seqs : \A r \in seqs : q <= r
    <2>1. seqs \subseteq Nat /\ seqs # {}
      BY RegisteredTypes
    <2> HIDE DEF seqs
    <2> QED
      BY <2>1, LeastNatural
  <1>2. \E j \in S : \A k \in S : timer[j].seq <= timer[k].seq
    BY <1>1
  <1> QED
    BY <1>2, Zenon DEF FirstBySeq

\* Each round runs under the phase left by the last poll or under one whose
\* limit or clock is read again.
LEMMA Phases ==
    ASSUME TimerTypes, PhaseInv, NEW n \in 0..3
    PROVE  LET p == AfterFlips(n)
           IN  /\ p \in Phase /\ p.snapshot \in Nat /\ p.snapshot <= now
               /\ p.limit <= nextId
               /\ n = 0 => /\ p.name = phase.name /\ p.limit = phase.limit
                           /\ p # phase => phase.snapshot < 0 /\ p.snapshot = now
               /\ n \in {1, 3} => p.name # phase.name
               /\ n = 2 => p.name = phase.name
               /\ n > 0 => IF p.name = "check" THEN p.limit = nextId ELSE p.snapshot = now
  <1>1. MaxId \in Nat /\ MaxNow \in Nat /\ now \in 0..MaxNow /\ nextId \in 1..MaxId + 1
    BY TimerAssumption DEF TimerTypes
  <1>2. /\ Entry \in Phase /\ Entry.snapshot \in Nat /\ Entry.snapshot <= now
        /\ Entry.name = phase.name /\ Entry.limit = phase.limit /\ Entry.limit <= nextId
        /\ Entry # phase => phase.snapshot < 0 /\ Entry.snapshot = now
    BY SMTT(30), <1>1 DEF Entry, TimerTypes, Phase, PhaseInv
  <1>3. ASSUME NEW p \in Phase, p.snapshot \in Nat, p.snapshot <= now
        PROVE  /\ Flip(p) \in Phase /\ Flip(p).snapshot \in Nat /\ Flip(p).snapshot <= now
               /\ Flip(p).name # p.name /\ Flip(p).limit <= nextId
               /\ IF Flip(p).name = "check" THEN Flip(p).limit = nextId
                  ELSE Flip(p).snapshot = now
    BY <1>1, <1>3 DEF Flip, Phase
  <1>4. CASE n = 0
    BY <1>2, <1>4 DEF AfterFlips
  <1>5. CASE n = 1
    BY <1>2, <1>3, <1>5 DEF AfterFlips
  <1>6. CASE n \in {2, 3}
    <2> DEFINE f == Flip(Entry)
               ff == Flip(f)
    <2>1. /\ f \in Phase /\ f.snapshot \in Nat /\ f.snapshot <= now
          /\ f.name # Entry.name
      BY <1>2, <1>3
    <2> HIDE DEF f
    <2>2. /\ ff \in Phase /\ ff.snapshot \in Nat /\ ff.snapshot <= now
          /\ ff.name # f.name /\ ff.limit <= nextId
          /\ IF ff.name = "check" THEN ff.limit = nextId ELSE ff.snapshot = now
      BY <1>3, <2>1
    <2>3. ff.name = phase.name
      BY <1>2, <2>1, <2>2 DEF Phase
    <2> HIDE DEF ff
    <2>4. CASE n = 2
      BY <2>2, <2>3, <2>4 DEF AfterFlips, f, ff
    <2>5. CASE n = 3
      <3>1. AfterFlips(n) = Flip(ff)
        BY <2>5 DEF AfterFlips, f, ff
      <3> QED
        BY <1>3, <2>2, <2>3, <2>5, <3>1
    <2> QED
      BY <1>6, <2>4, <2>5
  <1> QED
    BY <1>4, <1>5, <1>6

-----------------------------------------------------------------------------
(* Every step keeps the invariant.                                         *)

LEMMA FlagStep ==
    ASSUME failed \in BOOLEAN, ioReady \in BOOLEAN, [Next]_vars
    PROVE  failed' \in BOOLEAN /\ ioReady' \in BOOLEAN
  <1>1. failed' = TRUE \/ failed' = failed
    BY Zenon DEF Next, Program, Loop, Set, Clear, Refresh, SetRef, QueueJob, RunJob, RunOne,
       RunNothing, Return, PollIo, Tick, Fail, Purge, vars
  <1>2. ioReady' \in BOOLEAN \/ ioReady' = ioReady
    BY Zenon DEF Next, Program, Loop, Set, Clear, Refresh, SetRef, QueueJob, RunJob, RunOne,
       RunNothing, Return, PollIo, NextPoll, Tick, Fail, Purge, vars
  <1> QED
    BY <1>1, <1>2, Zenon

\* The snapshot of a phase is a time that has passed.
LEMMA PhaseTypes ==
    ASSUME TimerTypes
    PROVE  /\ phase.snapshot \in Int /\ phase.limit \in Nat
           /\ phase.snapshot <= now /\ now \in Nat
  <1>1. phase \in Phase /\ phase.snapshot <= now /\ now \in 0..MaxNow
    BY DEF TimerTypes
  <1>2. phase.snapshot \in -1..MaxNow /\ phase.limit \in 0..MaxId + 1
    BY <1>1 DEF Phase
  <1> QED
    BY <1>1, <1>2, TimerAssumption

\* setTimeout, setInterval and setImmediate.
LEMMA SetStep ==
    ASSUME TimerInv, NEW kind \in Kinds, NEW ms \in Nat, Set(kind, ms)
    PROVE  TimerTypes' /\ KnownInv' /\ PhaseInv'
  <1> USE TimerAssumption DEF TimerInv
  <1> DEFINE b == [kind |-> kind, delay |-> Delay(ms), due |-> now + Delay(ms),
                   seq |-> nextId, refed |-> TRUE]
  <1>1. /\ nextId \in Id /\ nextId \in Nat /\ nextId' = nextId + 1 /\ now \in Nat
        /\ timer' = [timer EXCEPT ![nextId] = b]
        /\ UNCHANGED <<phase, now, stack, jobs, queued, cleared, lastKey>>
        /\ late' \in {late, late \cup {nextId}}
        /\ MaxId \in Nat
    BY DEF Set, TimerTypes, Id
  <1>2. Delay(ms) \in Nat /\ Delay(ms) > 0
    BY DelayType
  <1>3. b \in TimerBox /\ b # NoTimer
    <2>1. now + Delay(ms) \in Nat
      BY <1>1, <1>2
    <2>2. b \in TimerBox
      BY <1>1, <1>2, <2>1, Zenon DEF TimerBox
    <2> QED
      BY <2>2, BoxIsNoNone
  <1>4. /\ Registered' = Registered \cup {nextId}
        /\ timer'[nextId] = b
        /\ \A i \in Registered : i # nextId /\ timer'[i] = timer[i]
    BY <1>1, <1>3 DEF TimerTypes, Registered, KnownInv
  <1>5. TimerTypes'
    BY <1>1, <1>3 DEF TimerTypes, Id
  <1>6. KnownInv'
    <2>1. \A i \in Registered' :
             /\ i < nextId' /\ timer'[i].seq < nextId' /\ timer'[i].delay > 0
             /\ timer'[i].kind = "immediate" => timer'[i].seq = i
      BY <1>1, <1>2, <1>4, RegisteredTypes DEF KnownInv
    <2>2. \A i, k \in Registered' : timer'[i].seq = timer'[k].seq => i = k
      BY <1>1, <1>4, RegisteredTypes DEF KnownInv
    <2>3. ASSUME NEW k \in 1..Len(stack)
          PROVE  /\ stack[k].id < nextId'
                 /\ stack[k].interval /\ stack[k].id \in Registered'
                       => timer'[stack[k].id].kind = "interval"
      <3>1. stack[k].id < nextId /\ stack[k].id \in Nat
        BY StackTypes DEF KnownInv
      <3>2. stack[k].interval /\ stack[k].id \in Registered
               => timer[stack[k].id].kind = "interval"
        BY DEF KnownInv
      <3> QED
        BY <1>1, <1>4, <3>1, <3>2
    <2>4. \A i \in cleared : i < nextId' /\ timer'[i] = NoTimer
      BY <1>1 DEF KnownInv, TimerTypes, Id
    <2> QED
      BY <1>1, <2>1, <2>2, <2>3, <2>4 DEF KnownInv
  <1>7. PhaseInv'
    <2>1. phase.limit <= nextId' /\ phase.limit <= nextId
      BY SMTT(30), <1>1 DEF PhaseInv, TimerTypes, Phase
    <2>2. phase.name = "timers" => late' = {}
      BY DEF Set, PhaseInv
    <2>3. phase.name = "check" => lastKey = NoKey /\ \A i \in late' : i >= phase.limit
      BY <1>1, <2>1 DEF PhaseInv
    <2>4. now + Delay(ms) > phase.snapshot /\ now + Delay(ms) \in Int /\ phase.snapshot \in Int
      BY <1>2, PhaseTypes
    <2>5. ASSUME NEW i \in Registered'
          PROVE  AfterLast(i)'
      <3>1. CASE i = nextId
        <4>1. timer'[i].due = now + Delay(ms) /\ phase' = phase
          BY <1>1, <1>4, <3>1
        <4>2. ~(timer'[i].due <= phase'.snapshot)
          BY <2>4, <4>1
        <4> QED
          BY <4>2 DEF AfterLast
      <3>2. CASE i # nextId
        BY <1>1, <1>4, <3>2, AfterLastKept DEF PhaseInv
      <3> QED
        BY <3>1, <3>2
    <2> QED
      BY <1>1, <2>1, <2>2, <2>3, <2>5 DEF PhaseInv
  <1> QED
    BY <1>5, <1>6, <1>7

\* A step that sets no timer and gives out no sequence number.
LEMMA KnownKept ==
    ASSUME TimerTypes, KnownInv, UNCHANGED nextId,
           \A i \in Registered' :
              /\ i \in Registered /\ timer'[i].seq = timer[i].seq
              /\ timer'[i].kind = timer[i].kind /\ timer'[i].delay = timer[i].delay,
           \A k \in 1..Len(stack') :
              /\ stack'[k].id < nextId
              /\ stack'[k].interval /\ stack'[k].id \in Registered
                    => timer[stack'[k].id].kind = "interval",
           \A i \in cleared' : i < nextId /\ timer'[i] = NoTimer
    PROVE  KnownInv'
  <1>1. \A i \in Registered' :
           /\ i < nextId' /\ timer'[i].seq < nextId' /\ timer'[i].delay > 0
           /\ timer'[i].kind = "immediate" => timer'[i].seq = i
    BY DEF KnownInv
  <1>2. \A i, k \in Registered' : timer'[i].seq = timer'[k].seq => i = k
    BY DEF KnownInv
  <1> QED
    BY <1>1, <1>2 DEF KnownInv

LEMMA PhaseKept ==
    ASSUME PhaseInv, UNCHANGED <<nextId, phase, late, lastKey>>,
           \A i \in Registered' :
              \/ i \in Registered /\ timer'[i] = timer[i]
              \/ ~(timer'[i].due <= phase.snapshot)
              \/ i \in Registered /\ timer'[i].seq = timer[i].seq
                 /\ timer'[i].kind = timer[i].kind /\ timer'[i].due = timer[i].due
    PROVE  PhaseInv'
  <1>1. ASSUME NEW i \in Registered' PROVE AfterLast(i)'
    <2>1. CASE ~(timer'[i].due <= phase.snapshot)
      BY <2>1 DEF AfterLast
    <2>2. CASE i \in Registered /\ timer'[i].seq = timer[i].seq
               /\ timer'[i].kind = timer[i].kind /\ timer'[i].due = timer[i].due
      BY <2>2 DEF AfterLast, Key, PhaseInv
    <2> QED
      BY <2>1, <2>2
  <1> QED
    BY <1>1 DEF PhaseInv

\* clearTimeout, ref, unref and refresh.
LEMMA ChangeStep ==
    ASSUME TimerInv, NEW i \in Id,
           Clear(i) \/ Refresh(i) \/ (\E refed \in BOOLEAN : SetRef(i, refed))
    PROVE  TimerTypes' /\ KnownInv' /\ PhaseInv'
  <1> USE TimerAssumption DEF TimerInv
  <1>1. /\ UNCHANGED <<nextId, phase, now, stack, jobs, queued, late, lastKey>>
        /\ timer \in [Id -> TimerBox \cup {NoTimer}]
        /\ \A k \in 1..Len(stack) :
              /\ stack[k].id < nextId
              /\ stack[k].interval /\ stack[k].id \in Registered
                    => timer[stack[k].id].kind = "interval"
    BY DEF Clear, Refresh, SetRef, TimerTypes, KnownInv
  <1>2. CASE Clear(i)
    <2>1. /\ timer' = [timer EXCEPT ![i] = NoTimer] /\ cleared' = cleared \cup {i}
          /\ i < nextId
      BY <1>2 DEF Clear, KnownInv, Registered
    <2>2. /\ \A k \in Registered' : k \in Registered /\ timer'[k] = timer[k]
          /\ timer'[i] = NoTimer
          /\ \A k \in cleared' : k < nextId /\ timer'[k] = NoTimer
      BY <1>1, <2>1 DEF Registered, KnownInv, TimerTypes
    <2>3. TimerTypes'
      BY <1>1, <2>1 DEF TimerTypes
    <2>4. KnownInv' /\ PhaseInv'
      BY <1>1, <2>2, KnownKept, PhaseKept
    <2> QED
      BY <2>3, <2>4
  <1>3. ASSUME NEW b \in TimerBox, timer' = [timer EXCEPT ![i] = b], timer[i] # NoTimer,
               UNCHANGED cleared, b.seq = timer[i].seq, b.kind = timer[i].kind,
               b.delay = timer[i].delay,
               b.due = timer[i].due \/ ~(b.due <= phase.snapshot)
        PROVE  TimerTypes' /\ KnownInv' /\ PhaseInv'
    <2>1. TimerTypes'
      BY <1>1, <1>3 DEF TimerTypes
    <2>2. /\ timer'[i] = b /\ i \in Registered
          /\ \A k \in Registered' : k = i \/ (k \in Registered /\ timer'[k] = timer[k])
      BY <1>1, <1>3 DEF Registered
    <2>3. \A k \in cleared : k < nextId /\ timer'[k] = NoTimer
      BY <1>1, <1>3, <2>2 DEF KnownInv, Registered, TimerTypes
    <2>4. KnownInv'
      BY <1>1, <1>3, <2>2, <2>3, KnownKept
    <2>5. PhaseInv'
      BY <1>1, <1>3, <2>2, PhaseKept
    <2> QED
      BY <2>1, <2>4, <2>5
  <1>4. CASE Refresh(i)
    <2> DEFINE b == [timer[i] EXCEPT !.due = now + timer[i].delay]
    <2>1. i \in Registered /\ now \in Nat
      BY <1>4 DEF Refresh, Registered, TimerTypes
    <2>2. timer[i] \in TimerBox /\ timer[i].delay \in Nat /\ timer[i].delay > 0
      BY <2>1, RegisteredTypes DEF KnownInv
    <2>3. /\ b \in TimerBox /\ b.seq = timer[i].seq /\ b.kind = timer[i].kind
          /\ b.delay = timer[i].delay /\ b.due = now + timer[i].delay
      BY <2>1, <2>2 DEF TimerBox
    <2>4. ~(b.due <= phase.snapshot)
      <3>1. phase.snapshot \in Int /\ phase.snapshot <= now
        BY DEF TimerTypes, Phase
      <3> HIDE DEF b
      <3> QED
        BY <2>1, <2>2, <2>3, <3>1
    <2>5. timer' = [timer EXCEPT ![i] = b] /\ timer[i] # NoTimer /\ UNCHANGED cleared
      BY <1>4 DEF Refresh
    <2> QED
      BY <1>3, <2>3, <2>4, <2>5
  <1>5. ASSUME NEW refed \in BOOLEAN, SetRef(i, refed)
        PROVE  TimerTypes' /\ KnownInv' /\ PhaseInv'
    <2> DEFINE b == [timer[i] EXCEPT !.refed = refed]
    <2>1. i \in Registered
      BY <1>5 DEF SetRef, Registered
    <2>2. timer[i] \in TimerBox
      BY <2>1, RegisteredTypes
    <2>3. /\ b \in TimerBox /\ b.seq = timer[i].seq /\ b.kind = timer[i].kind
          /\ b.delay = timer[i].delay /\ b.due = timer[i].due
      BY <2>2 DEF TimerBox
    <2>5. timer' = [timer EXCEPT ![i] = b] /\ timer[i] # NoTimer /\ UNCHANGED cleared
      BY <1>5 DEF SetRef
    <2> QED
      BY <1>3, <2>3, <2>5
  <1> QED
    BY <1>2, <1>4, <1>5

\* Continuations, descriptors, the clock and the failure.
LEMMA OtherStep ==
    ASSUME TimerInv, QueueJob \/ RunJob \/ PollIo \/ Tick \/ Fail \/ UNCHANGED vars
    PROVE  TimerTypes' /\ KnownInv' /\ PhaseInv'
  <1> USE TimerAssumption DEF TimerInv
  <1>1. /\ UNCHANGED <<timer, nextId, phase, stack, cleared, late, lastKey>>
        /\ Registered' = Registered
    BY DEF QueueJob, RunJob, PollIo, Tick, Fail, vars, queue, Registered
  <1>2. /\ now' \in 0..MaxNow /\ now <= now' /\ jobs' \in 0..queued' /\ queued' \in 0..MaxJobs
    <2>1. /\ MaxNow \in Nat /\ MaxJobs \in Nat /\ now \in 0..MaxNow
          /\ jobs \in 0..queued /\ queued \in 0..MaxJobs
      BY DEF TimerTypes
    <2>2. UNCHANGED now \/ (now < MaxNow /\ now' = now + 1)
      BY DEF QueueJob, RunJob, PollIo, Tick, Fail, vars
    <2>3. \/ UNCHANGED <<jobs, queued>>
          \/ queued < MaxJobs /\ queued' = queued + 1 /\ jobs' = jobs + 1
          \/ jobs > 0 /\ jobs' = jobs - 1 /\ UNCHANGED queued
      BY DEF QueueJob, RunJob, PollIo, Tick, Fail, vars
    <2> QED
      BY <2>1, <2>2, <2>3
  <1>3. TimerTypes'
    <2>1. phase.snapshot <= now'
      <3>1. now' \in Int
        BY <1>2
      <3> QED
        BY <1>2, <3>1, PhaseTypes
    <2> QED
      BY <1>1, <1>2, <2>1 DEF TimerTypes
  <1>4. KnownInv'
    BY <1>1, KnownKept DEF KnownInv
  <1>5. PhaseInv'
    BY <1>1, PhaseKept
  <1> QED
    BY <1>3, <1>4, <1>5

\* purge_pending_async_state.
LEMMA PurgeStep ==
    ASSUME TimerInv, Purge
    PROVE  TimerTypes' /\ KnownInv' /\ PhaseInv'
  <1> USE TimerAssumption DEF TimerInv
  <1>1. /\ timer' = [i \in Id |-> NoTimer] /\ jobs' = 0 /\ cleared' = cleared \cup Registered
        /\ UNCHANGED <<nextId, phase, now, stack, queued, late, lastKey>>
    BY DEF Purge
  <1>2. Registered' = {}
    BY <1>1 DEF Registered
  <1>3. TimerTypes'
    BY <1>1 DEF TimerTypes, Registered
  <1>4. KnownInv'
    <2>1. \A i \in cleared' : i < nextId /\ timer'[i] = NoTimer
      BY <1>1 DEF KnownInv, TimerTypes, Registered
    <2> QED
      BY <1>1, <1>2, <2>1, KnownKept DEF KnownInv
  <1>5. PhaseInv'
    BY <1>1, <1>2, PhaseKept
  <1> QED
    BY <1>3, <1>4, <1>5

\* What a poll runs is the first runnable timer of the phase it enters.
LEMMA PickIsFirst ==
    ASSUME TimerTypes, KnownInv, NEW p \in Phase, Runnable(p) # {}
    PROVE  /\ Pick(p) \in Runnable(p)
           /\ p.name = "timers" =>
                 \A k \in Runnable(p) : ~Before(Key(k), Key(Pick(p)))
           /\ p.name = "check" =>
                 \A k \in Runnable(p) : timer[Pick(p)].seq <= timer[k].seq
  <1>1. Runnable(p) \subseteq Registered
    BY DEF Runnable
  <1> QED
    BY <1>1, FirstByDueIsFirst, FirstBySeqIsFirst DEF Pick, Phase

\* A poll that runs a timer.
LEMMA RunOneStep ==
    ASSUME TimerInv, NEW n \in 0..2, RunOne(n)
    PROVE  TimerTypes' /\ KnownInv' /\ PhaseInv'
  <1> USE TimerAssumption DEF TimerInv
  <1> DEFINE p == AfterFlips(n)
             i == Pick(p)
             frame == [id |-> i, interval |-> timer[i].kind = "interval"]
  <1>1. /\ Runnable(p) # {} /\ phase' = p
        /\ timer' = IF timer[i].kind = "interval" THEN timer
                    ELSE [timer EXCEPT ![i] = NoTimer]
        /\ stack' = Append(stack, frame)
        /\ lastKey' = IF p.name = "timers" THEN Key(i) ELSE NoKey
        /\ late' = IF n = 0 THEN late ELSE {}
        /\ UNCHANGED <<nextId, now, jobs, queued, cleared>>
    BY DEF RunOne, Enters
  <1>2. /\ p \in Phase /\ p.snapshot \in Nat /\ p.snapshot <= now /\ p.limit <= nextId
        /\ n = 0 => p.name = phase.name /\ p.limit = phase.limit
    BY Phases
  <1>3. /\ i \in Runnable(p) /\ i \in Registered
        /\ p.name = "timers" => \A k \in Runnable(p) : ~Before(Key(k), Key(i))
    BY <1>1, <1>2, PickIsFirst DEF Runnable
  <1> HIDE DEF p, i
  <1>4. i \in Id /\ i < nextId /\ Key(i) \in Nat \X Nat
    BY <1>3, KeyType DEF KnownInv, Registered
  <1>5. frame \in [id : Id, interval : BOOLEAN]
    BY <1>4, Zenon
  <1>6. /\ stack' \in Seq([id : Id, interval : BOOLEAN])
        /\ \A k \in 1..Len(stack') :
              /\ stack'[k].id < nextId
              /\ stack'[k].interval /\ stack'[k].id \in Registered
                    => timer[stack'[k].id].kind = "interval"
    <2>1. stack \in Seq([id : Id, interval : BOOLEAN])
      BY DEF TimerTypes
    <2>2. /\ stack' \in Seq([id : Id, interval : BOOLEAN])
          /\ Len(stack) \in Nat /\ Len(stack') = Len(stack) + 1
          /\ stack'[Len(stack) + 1] = frame
          /\ \A k \in 1..Len(stack) : stack'[k] = stack[k]
      <3> HIDE DEF frame
      <3> QED
        BY <1>1, <1>5, <2>1, AppendProperties, LenProperties
    <2>3. ASSUME NEW k \in 1..Len(stack')
          PROVE  /\ stack'[k].id < nextId
                 /\ stack'[k].interval /\ stack'[k].id \in Registered
                       => timer[stack'[k].id].kind = "interval"
      <3>1. CASE k = Len(stack) + 1
        BY <1>4, <2>2, <3>1
      <3>2. CASE k # Len(stack) + 1
        <4>1. k \in 1..Len(stack)
          BY <2>2, <3>2
        <4> QED
          BY <2>2, <4>1 DEF KnownInv
      <3> QED
        BY <3>1, <3>2
    <2> QED
      BY <2>2, <2>3
  <1>7. /\ timer' \in [Id -> TimerBox \cup {NoTimer}]
        /\ \A k \in Registered' : k \in Registered /\ timer'[k] = timer[k]
        /\ \A k \in cleared : timer'[k] = NoTimer
    BY <1>1, <1>4 DEF TimerTypes, Registered, KnownInv
  <1>8. TimerTypes'
    <2>1. late' \subseteq Id /\ lastKey' \in Nat \X Nat
      BY <1>1, <1>4 DEF TimerTypes, NoKey
    <2> QED
      BY <1>1, <1>2, <1>6, <1>7, <2>1 DEF TimerTypes
  <1>9. KnownInv'
    BY <1>1, <1>6, <1>7, KnownKept DEF KnownInv
  <1>10. PhaseInv'
    <2>1. p.name = "timers" => late' = {}
      BY <1>1, <1>2 DEF PhaseInv
    <2>2. p.name = "check" => lastKey' = NoKey /\ \A k \in late' : k >= p.limit
      BY <1>1, <1>2 DEF PhaseInv
    <2>3. ASSUME NEW k \in Registered'
          PROVE  AfterLast(k)'
      <3>1. k \in Registered /\ timer'[k] = timer[k] /\ Key(k)' = Key(k)
            /\ Key(k) \in Nat \X Nat
        BY <1>7, KeyType DEF Key
      <3>2. CASE p.name = "timers"
        <4>1. timer[k].kind # "immediate" /\ timer[k].due <= p.snapshot => k \in Runnable(p)
          BY <3>1, <3>2 DEF Runnable
        <4>2. timer[k].kind # "immediate" /\ timer[k].due <= p.snapshot
                 => ~Before(Key(k), Key(i))
          BY <1>3, <3>2, <4>1
        <4> QED
          BY <1>1, <3>1, <3>2, <4>2 DEF AfterLast
      <3>3. CASE p.name # "timers"
        BY <1>1, <3>1, <3>3, BeforeIsStrict DEF AfterLast
      <3> QED
        BY <3>2, <3>3
    <2> QED
      BY <1>1, <1>2, <2>1, <2>2, <2>3 DEF PhaseInv
  <1> QED
    BY <1>8, <1>9, <1>10

\* A poll that finds nothing to run.
LEMMA RunNothingStep ==
    ASSUME TimerInv, RunNothing
    PROVE  TimerTypes' /\ KnownInv' /\ PhaseInv'
  <1> USE TimerAssumption DEF TimerInv
  <1> DEFINE p == AfterFlips(3)
  <1>1. Cardinality(Flips) = 3
    <2> DEFINE one == {0}
               two == one \cup {1}
    <2>1. IsFiniteSet(one) /\ Cardinality(one) = 1 /\ 1 \notin one
      <3>1. IsFiniteSet(one) /\ Cardinality(one) = 1
        BY FS_Singleton, Zenon
      <3> QED
        BY <3>1
    <2>2. 2 \notin two /\ Flips = two \cup {2}
      BY DEF Flips
    <2> HIDE DEF one
    <2>3. IsFiniteSet(two) /\ Cardinality(two) = 2
      BY <2>1, FS_AddElement
    <2> HIDE DEF two
    <2> QED
      BY <2>2, <2>3, FS_AddElement
  <1>2. /\ phase' = p /\ lastKey' = NoKey /\ late' = {}
        /\ UNCHANGED <<timer, nextId, now, stack, jobs, queued, cleared>>
    BY <1>1 DEF RunNothing
  <1>3. /\ p \in Phase /\ p.snapshot \in Nat /\ p.snapshot <= now /\ p.limit <= nextId
    BY Phases
  <1> HIDE DEF p
  <1>4. Registered' = Registered
    BY <1>2 DEF Registered
  <1>5. TimerTypes'
    BY <1>2, <1>3 DEF TimerTypes, NoKey
  <1>6. KnownInv'
    BY <1>2, <1>4, KnownKept DEF KnownInv
  <1>7. PhaseInv'
    <2>1. ASSUME NEW k \in Registered
          PROVE  AfterLast(k)'
      <3>1. Key(k)' = Key(k) /\ ~Before(Key(k), NoKey)
        BY <1>2, KeyType, BeforeIsStrict DEF Key
      <3> QED
        BY <1>2, <3>1 DEF AfterLast
    <2> QED
      BY <1>2, <1>3, <1>4, <2>1 DEF PhaseInv
  <1> QED
    BY <1>5, <1>6, <1>7

\* A callback returns; an interval it did not clear starts again.
LEMMA ReturnStep ==
    ASSUME TimerInv, Return
    PROVE  TimerTypes' /\ KnownInv' /\ PhaseInv'
  <1> USE TimerAssumption DEF TimerInv
  <1>0. PICK i : i = stack[Len(stack)].id
    OBVIOUS
  <1>1. /\ stack' = SubSeq(stack, 1, Len(stack) - 1)
        /\ UNCHANGED <<phase, now, jobs, queued, late, lastKey>>
        /\ \/ UNCHANGED <<timer, nextId, cleared>>
           \/ Rescheduled(i) /\ stack[Len(stack)].interval
        /\ stack # <<>> /\ stack \in Seq([id : Id, interval : BOOLEAN])
    BY <1>0 DEF Return, TimerTypes
  <1>2. /\ Len(stack) \in 1..Len(stack)
        /\ stack' \in Seq([id : Id, interval : BOOLEAN])
        /\ \A k \in 1..Len(stack') : stack'[k] = stack[k] /\ k \in 1..Len(stack)
    <2> DEFINE Frame == [id : Id, interval : BOOLEAN]
    <2>1. stack \in Seq(Frame) /\ stack # <<>>
      BY <1>1
    <2> HIDE DEF Frame
    <2>2. Len(stack) \in Nat /\ Len(stack) # 0
      BY <2>1, EmptySeq, LenProperties
    <2>3. /\ stack' \in Seq(Frame) /\ Len(stack') = Len(stack) - 1
          /\ \A k \in 1..Len(stack) - 1 : stack'[k] = stack[k]
      <3>1. 1 \in Int /\ Len(stack) - 1 \in Int
            /\ \A k \in 1..Len(stack) - 1 : stack[k] \in Frame
        BY <2>1, <2>2, ElementOfSeq
      <3>2. /\ stack' \in Seq(Frame)
            /\ Len(stack') = IF 1 <= Len(stack) - 1 THEN Len(stack) - 1 - 1 + 1 ELSE 0
            /\ \A k \in 1..Len(stack) - 1 - 1 + 1 : stack'[k] = stack[1 + k - 1]
        BY <1>1, <3>1, SubSeqProperties
      <3>3. Len(stack') = Len(stack) - 1
        <4>1. \A n \in Nat \ {0} : n - 1 = IF 1 <= n - 1 THEN n - 1 - 1 + 1 ELSE 0
          OBVIOUS
        <4>2. Len(stack) \in Nat \ {0}
          BY <2>2
        <4>3. Len(stack') = IF 1 <= Len(stack) - 1 THEN Len(stack) - 1 - 1 + 1 ELSE 0
          BY <3>2
        <4> QED
          BY <4>1, <4>2, <4>3
      <3>4. ASSUME NEW k \in 1..Len(stack) - 1
            PROVE  stack'[k] = stack[k]
        <4>1. k \in 1..Len(stack) - 1 - 1 + 1 /\ 1 + k - 1 = k
          BY <2>2
        <4> QED
          BY <3>2, <4>1
      <3> QED
        BY <3>2, <3>3, <3>4
    <2> QED
      BY <2>2, <2>3 DEF Frame
  <1>3. /\ i \in Id /\ i < nextId
        /\ \A k \in 1..Len(stack') :
              /\ stack'[k].id < nextId
              /\ stack'[k].interval /\ stack'[k].id \in Registered
                    => timer[stack'[k].id].kind = "interval"
    BY <1>0, <1>2, StackTypes DEF KnownInv
  <1>4. CASE UNCHANGED <<timer, nextId, cleared>>
    <2>1. Registered' = Registered
      BY <1>4 DEF Registered
    <2>2. TimerTypes'
      BY <1>1, <1>2, <1>4 DEF TimerTypes
    <2>3. KnownInv'
      BY <1>3, <1>4, <2>1, KnownKept DEF KnownInv
    <2>4. PhaseInv'
      BY <1>1, <1>4, <2>1, PhaseKept
    <2> QED
      BY <2>2, <2>3, <2>4
  <1>5. CASE timer[i] # NoTimer /\ nextId > MaxId
             /\ timer' = [timer EXCEPT ![i] = NoTimer]
             /\ cleared' = cleared \cup {i} /\ UNCHANGED nextId
    <2>1. /\ timer' \in [Id -> TimerBox \cup {NoTimer}]
          /\ \A k \in Registered' : k \in Registered /\ timer'[k] = timer[k]
          /\ \A k \in cleared' : k < nextId /\ timer'[k] = NoTimer
      BY <1>3, <1>5 DEF TimerTypes, Registered, KnownInv
    <2>2. TimerTypes'
      BY <1>1, <1>2, <1>3, <1>5, <2>1 DEF TimerTypes
    <2>3. KnownInv'
      BY <1>3, <1>5, <2>1, KnownKept
    <2>4. PhaseInv'
      BY <1>1, <1>5, <2>1, PhaseKept
    <2> QED
      BY <2>2, <2>3, <2>4
  <1>6. CASE /\ timer[i] # NoTimer /\ nextId <= MaxId
             /\ timer' = [timer EXCEPT ![i].due = now + timer[i].delay, ![i].seq = nextId]
             /\ nextId' = nextId + 1 /\ UNCHANGED cleared
    <2> DEFINE b == [timer[i] EXCEPT !.due = now + timer[i].delay, !.seq = nextId]
    <2>1. /\ i \in Registered /\ now \in Nat /\ MaxId \in Nat
          /\ nextId \in Id /\ nextId \in Nat /\ nextId + 1 \in 1..MaxId + 1
      BY SMTT(30), <1>3, <1>6 DEF Registered, TimerTypes, Id
    <2>2. /\ timer[i] \in TimerBox /\ timer[i].delay \in Nat /\ timer[i].delay > 0
          /\ i \in Nat /\ now + timer[i].delay \in Nat
      BY <2>1, RegisteredTypes DEF KnownInv
    <2>3. /\ b \in TimerBox /\ b.seq = nextId /\ b.kind = timer[i].kind
          /\ b.delay = timer[i].delay /\ b.due = now + timer[i].delay
      <3>1. b.seq = nextId /\ b.kind = timer[i].kind
            /\ b.delay = timer[i].delay /\ b.due = now + timer[i].delay
        BY <2>2 DEF TimerBox
      <3>2. b \in TimerBox
        BY <2>1, <2>2, Zenon DEF TimerBox
      <3> QED
        BY <3>1, <3>2
    <2>4. timer' = [timer EXCEPT ![i] = b]
      BY <1>6
    <2> HIDE DEF b
    <2>5. /\ timer'[i] = b /\ Registered' = Registered
          /\ \A k \in Registered : k # i => timer'[k] = timer[k]
      BY <1>3, <2>1, <2>3, <2>4, BoxIsNoNone DEF Registered, TimerTypes
    <2>6. TimerTypes'
      <3>1. timer' \in [Id -> TimerBox \cup {NoTimer}]
        BY <2>3, <2>4 DEF TimerTypes
      <3> QED
        BY <1>1, <1>2, <1>6, <2>1, <3>1 DEF TimerTypes
    <2>7. timer[i].kind = "interval"
      BY SMTT(30), <1>0, <1>1, <1>2, <1>6, <2>1 DEF KnownInv, Rescheduled
    <2>8. KnownInv'
      <3>1. \A k \in Registered :
               /\ k < nextId' /\ timer'[k].seq < nextId' /\ timer'[k].delay > 0
               /\ timer'[k].kind = "immediate" => timer'[k].seq = k
        <4>1. ASSUME NEW k \in Registered, k # i
              PROVE  /\ k < nextId' /\ timer'[k].seq < nextId' /\ timer'[k].delay > 0
                     /\ timer'[k].kind = "immediate" => timer'[k].seq = k
          <5>1. /\ k < nextId /\ timer[k].seq < nextId /\ timer[k].delay > 0
                /\ timer[k].kind = "immediate" => timer[k].seq = k
            BY DEF KnownInv
          <5>2. k \in Nat /\ timer[k].seq \in Nat /\ timer'[k] = timer[k]
            BY <2>5, <4>1, RegisteredTypes
          <5>3. k < nextId' /\ timer[k].seq < nextId'
            BY <1>6, <2>1, <5>1, <5>2
          <5> QED
            BY <5>1, <5>2, <5>3
        <4>2. /\ i < nextId' /\ timer'[i].seq < nextId' /\ timer'[i].delay > 0
              /\ timer'[i].kind = "immediate" => timer'[i].seq = i
          <5>1. /\ timer'[i].seq = nextId /\ timer'[i].delay = timer[i].delay
                /\ timer'[i].kind = "interval"
            BY <2>3, <2>5, <2>7
          <5>2. i < nextId' /\ nextId < nextId'
            BY <1>3, <1>6, <2>1, <2>2
          <5> QED
            BY <2>2, <5>1, <5>2
        <4> QED
          BY <4>1, <4>2
      <3>2. \A k, l \in Registered : timer'[k].seq = timer'[l].seq => k = l
        BY SMTT(30), <2>1, <2>3, <2>5, RegisteredTypes DEF KnownInv
      <3>3. \A k \in 1..Len(stack') :
               /\ stack'[k].id < nextId'
               /\ stack'[k].interval /\ stack'[k].id \in Registered
                     => timer'[stack'[k].id].kind = "interval"
        <4>1. ASSUME NEW k \in 1..Len(stack')
              PROVE  /\ stack'[k].id < nextId'
                     /\ stack'[k].interval /\ stack'[k].id \in Registered
                           => timer'[stack'[k].id].kind = "interval"
          <5>1. stack'[k].id \in Nat /\ stack'[k].id < nextId
            BY <1>2, <1>3, StackTypes
          <5>2. stack'[k].interval /\ stack'[k].id \in Registered
                   => timer'[stack'[k].id].kind = "interval"
            <6>1. stack'[k].interval /\ stack'[k].id \in Registered
                     => timer[stack'[k].id].kind = "interval"
              BY <1>3
            <6>2. timer'[i].kind = "interval"
              BY <2>3, <2>5, <2>7
            <6> QED
              BY <2>5, <6>1, <6>2
          <5> QED
            BY <1>6, <2>1, <5>1, <5>2
        <4> QED
          BY <4>1
      <3>4. \A k \in cleared : k < nextId' /\ timer'[k] = NoTimer
        <4>1. SUFFICES ASSUME NEW k \in cleared
                       PROVE  k < nextId' /\ timer'[k] = NoTimer
          OBVIOUS
        <4>2. k < nextId /\ timer[k] = NoTimer /\ k \in Id /\ k \in Nat
          BY DEF KnownInv, TimerTypes, Id
        <4>3. k \notin Registered'
          BY <2>5, <4>2 DEF Registered
        <4>4. timer'[k] = NoTimer
          BY <4>2, <4>3 DEF Registered
        <4>5. k < nextId'
          BY <1>6, <2>1, <4>2
        <4> QED
          BY <4>4, <4>5
      <3> QED
        BY <1>6, <2>5, <3>1, <3>2, <3>3, <3>4 DEF KnownInv
    <2>9. PhaseInv'
      <3>1. ~(b.due <= phase.snapshot)
        <4>1. phase.snapshot \in Int /\ phase.snapshot <= now
          BY DEF TimerTypes, Phase
        <4> QED
          BY <2>1, <2>2, <2>3, <4>1
      <3>2. AfterLast(i)'
        <4>1. ~(timer'[i].due <= phase'.snapshot)
          BY <1>1, <2>5, <3>1
        <4> QED
          BY <4>1 DEF AfterLast
      <3>3. ASSUME NEW k \in Registered, k # i
            PROVE  AfterLast(k)'
        BY <1>1, <2>5, <3>3, AfterLastKept DEF PhaseInv
      <3>4. phase.limit <= nextId'
        BY SMTT(30), <1>6, <2>1 DEF PhaseInv, TimerTypes, Phase
      <3>5. \A k \in Registered' : AfterLast(k)'
        BY <2>5, <3>2, <3>3
      <3>6. UNCHANGED <<phase, late, lastKey>>
        BY <1>1
      <3> QED
        BY <3>4, <3>5, <3>6 DEF PhaseInv
    <2> QED
      BY <2>6, <2>8, <2>9
  <1> QED
    BY <1>1, <1>4, <1>5, <1>6 DEF Rescheduled

LEMMA TimerInvStep == TimerInv /\ [Next]_vars => TimerInv'
  <1> SUFFICES ASSUME TimerInv, [Next]_vars PROVE TimerInv'
    OBVIOUS
  <1>1. failed' \in BOOLEAN /\ ioReady' \in BOOLEAN
    BY FlagStep DEF TimerInv
  <1>2. TimerTypes' /\ KnownInv' /\ PhaseInv'
    <2>1. CASE Program
      <3>1. ASSUME NEW kind \in Kinds, NEW ms \in Nat, Set(kind, ms)
            PROVE  TimerTypes' /\ KnownInv' /\ PhaseInv'
        BY <3>1, SetStep
      <3>2. ASSUME NEW i \in Id, Clear(i) \/ Refresh(i) \/ \E refed \in BOOLEAN : SetRef(i, refed)
            PROVE  TimerTypes' /\ KnownInv' /\ PhaseInv'
        BY <3>2, ChangeStep
      <3> QED
        BY <2>1, <3>1, <3>2, OtherStep, TimerAssumption DEF Program
    <2>2. CASE Loop
      BY <2>2, OtherStep, RunOneStep, RunNothingStep, ReturnStep DEF Loop, Flips
    <2>3. CASE PollIo \/ Tick \/ Fail \/ UNCHANGED vars
      BY <2>3, OtherStep
    <2>4. CASE Purge
      BY <2>4, PurgeStep
    <2> QED
      BY <2>1, <2>2, <2>3, <2>4 DEF Next
  <1> QED
    BY <1>1, <1>2 DEF TimerInv

-----------------------------------------------------------------------------
(* What a poll runs.                                                       *)

\* A callback begins in a poll only.
LEMMA OnlyPollsBegin ==
    ASSUME TimerInv, Next, Begins
    PROVE  \E n \in 0..2 : RunOne(n)
  <1>1. CASE Return
    <2>1. stack' = SubSeq(stack, 1, Len(stack) - 1) /\ Len(stack) \in Nat
      BY <1>1, LenProperties DEF Return, TimerInv, TimerTypes
    <2>2. Len(stack') <= Len(stack)
      <3>1. stack \in Seq([id : Id, interval : BOOLEAN])
        BY DEF TimerInv, TimerTypes
      <3>2. Len(stack') = IF 1 <= Len(stack) - 1 THEN Len(stack) - 1 - 1 + 1 ELSE 0
        <4>1. 1 \in Int /\ Len(stack) - 1 \in Int
              /\ \A k \in 1..Len(stack) - 1 : stack[k] \in [id : Id, interval : BOOLEAN]
          <5> DEFINE Frame == [id : Id, interval : BOOLEAN]
          <5>1. stack \in Seq(Frame)
            BY <3>1
          <5> HIDE DEF Frame
          <5>2. \A k \in 1..Len(stack) - 1 : stack[k] \in Frame
            BY <2>1, <5>1, ElementOfSeq
          <5> QED
            BY <2>1, <5>2 DEF Frame
        <4> QED
          BY <2>1, <4>1, SubSeqProperties
      <3>3. \A n \in Nat : (IF 1 <= n - 1 THEN n - 1 - 1 + 1 ELSE 0) <= n
        OBVIOUS
      <3> QED
        BY <2>1, <3>2, <3>3
    <2>3. Len(stack') > Len(stack) /\ Len(stack') \in Nat
      <3>1. stack' \in Seq([id : Id, interval : BOOLEAN])
        BY TimerInvStep DEF TimerInv, TimerTypes
      <3> QED
        BY <3>1, LenProperties DEF Begins
    <2> QED
      BY <2>1, <2>2, <2>3
  <1>2. CASE UNCHANGED stack
    <2>1. Len(stack) \in Nat
      BY LenProperties DEF TimerInv, TimerTypes
    <2> QED
      BY <1>2, <2>1 DEF Begins
  <1> QED
    BY <1>1, <1>2 DEF Next, Program, Loop, Flips, Set, Clear, Refresh, SetRef, QueueJob, RunJob,
       RunNothing, PollIo, Tick, Fail, Purge, queue

LEMMA BegunInOrder ==
    ASSUME TimerInv, NEW n \in 0..2, RunOne(n)
    PROVE  TimersInOrder /\ NoStarvation
  <1> USE DEF TimerInv
  <1>0. PICK p, i : p = AfterFlips(n) /\ i = Pick(p)
    OBVIOUS
  <1>1. Runnable(p) # {} /\ phase' = p
    BY <1>0 DEF RunOne, Enters
  <1>2. Begun = i
    <2>1. stack' = Append(stack, [id |-> i, interval |-> timer[i].kind = "interval"])
      BY <1>0 DEF RunOne
    <2> DEFINE frame == [id |-> i, interval |-> timer[i].kind = "interval"]
    <2>2. frame.id = i
      OBVIOUS
    <2>3. stack'[Len(stack')] = frame
      <3> HIDE DEF frame
      <3>1. stack \in Seq([id : Id, interval : BOOLEAN] \cup {frame})
        BY SeqMonotonic, <2>1 DEF TimerTypes
      <3> QED
        BY <2>1, <3>1, AppendProperties DEF frame
    <2> QED
      BY <2>2, <2>3 DEF Begun
  <1>3. /\ p \in Phase /\ p.snapshot \in Nat /\ p.snapshot <= now /\ p.limit <= nextId
        /\ n = 0 => p.name = phase.name /\ p.limit = phase.limit
        /\ n = 0 /\ p # phase => phase.snapshot < 0 /\ p.snapshot = now
        /\ n = 1 => p.name # phase.name
        /\ n = 2 /\ p.name = "check" => p.limit = nextId
    BY <1>0, Phases
  <1>4. /\ i \in Runnable(p) /\ i \in Registered
        /\ p.name = "timers" => \A k \in Runnable(p) : ~Before(Key(k), Key(i))
        /\ p.name = "check" => \A k \in Runnable(p) : timer[i].seq <= timer[k].seq
    BY <1>0, <1>1, <1>3, PickIsFirst DEF Runnable
  <1>5. p.name \in {"timers", "check"} /\ p.limit \in Int
    BY <1>3 DEF Phase
  <1>6. CASE p.name = "check"
    <2>1. timer[i].kind = "immediate" /\ timer[i].seq < p.limit /\ timer[i].seq = i
      BY <1>4, <1>6 DEF Runnable, KnownInv
    <2>2. ASSUME NEW k \in Registered, timer[k].kind = "immediate"
          PROVE  timer[i].seq <= timer[k].seq
      <3>1. CASE timer[k].seq < p.limit
        BY <1>4, <1>6, <2>2, <3>1 DEF Runnable
      <3>2. CASE ~(timer[k].seq < p.limit)
        BY <1>4, <1>5, <2>1, <3>2, RegisteredTypes
      <3> QED
        BY <3>1, <3>2
    <2>3. TimersInOrder
      BY <1>2, <2>1, <2>2 DEF TimersInOrder
    <2>4. ASSUME phase' = phase
          PROVE  i \notin late
      <3>1. p.limit = phase.limit /\ \A k \in late : k >= p.limit
        BY <1>1, <1>6, <2>4 DEF PhaseInv
      <3>2. i \in Nat
        BY <1>4, RegisteredTypes
      <3> QED
        BY <1>5, <2>1, <3>1, <3>2
    <2> QED
      BY <1>2, <2>3, <2>4 DEF NoStarvation
  <1>7. CASE p.name = "timers"
    <2>1. timer[i].kind # "immediate" /\ timer[i].due <= p.snapshot
      BY <1>4, <1>7 DEF Runnable
    <2>2. timer[i].due <= now
      <3>1. timer[i].due \in Nat /\ now \in Int
        BY <1>4, RegisteredTypes, TimerAssumption DEF TimerTypes
      <3> QED
        BY <1>3, <2>1, <3>1
    <2>3. phase'.snapshot = phase.snapshot => ~Before(Key(i), lastKey)
      BY <1>1, <1>4, <2>1 DEF PhaseInv, AfterLast
    <2>4. ASSUME NEW k \in Registered, timer[k].kind # "immediate"
          PROVE  ~Before(Key(k), Key(i))
      <3>1. CASE timer[k].due <= p.snapshot
        BY <1>4, <1>7, <2>4, <3>1 DEF Runnable
      <3>2. CASE ~(timer[k].due <= p.snapshot)
        BY <1>3, <1>4, <2>1, <3>2, RegisteredTypes DEF Before, Key
      <3> QED
        BY <3>1, <3>2
    <2>5. TimersInOrder
      BY <1>2, <2>1, <2>2, <2>3, <2>4 DEF TimersInOrder
    <2>6. phase' = phase => late = {}
      BY <1>1, <1>7 DEF PhaseInv
    <2> QED
      BY <2>5, <2>6 DEF NoStarvation
  <1> QED
    BY <1>5, <1>6, <1>7

\* Three rounds with nothing to run look at every immediate and, with the clock
\* read again, at every timer.
LEMMA NothingIsDue ==
    ASSUME TimerInv, RunNothing, NEW i \in Registered
    PROVE  timer[i].kind # "immediate" /\ timer[i].due > now
  <1> USE DEF TimerInv
  <1>1. \A n \in 0..2 : i \notin Runnable(AfterFlips(n))
    BY DEF RunNothing, Flips
  <1>2. /\ timer[i].due \in Nat /\ timer[i].seq < nextId /\ now \in Int
    BY RegisteredTypes, TimerAssumption DEF KnownInv, TimerTypes
  <1>3. \A n \in {1, 2} :
           /\ AfterFlips(n).name \in {"timers", "check"}
           /\ IF AfterFlips(n).name = "check" THEN AfterFlips(n).limit = nextId
              ELSE AfterFlips(n).snapshot = now
    BY Phases DEF Phase
  <1>4. AfterFlips(1).name # AfterFlips(2).name
    <2>1. AfterFlips(1).name # phase.name /\ AfterFlips(2).name = phase.name
      BY Phases
    <2> QED
      BY <2>1
  <1>5. PICK n \in {1, 2} : AfterFlips(n).name = "check"
    BY <1>3, <1>4
  <1>6. PICK m \in {1, 2} : AfterFlips(m).name = "timers"
    BY <1>3, <1>4
  <1>7. timer[i].kind # "immediate"
    BY <1>1, <1>2, <1>3, <1>5 DEF Runnable
  <1>8. ~(timer[i].due <= now)
    BY <1>1, <1>3, <1>6, <1>7 DEF Runnable
  <1> QED
    BY <1>2, <1>7, <1>8

-----------------------------------------------------------------------------
(* The theorems.                                                           *)

\* The invariant holds in every state of the timer queue.
THEOREM TimerInvariant == Spec => []TimerInv
  BY InitTimerInv, TimerInvStep, PTL DEF Spec

\* The timer queue, the phase and the ghosts keep their types.
THEOREM TimerTyping == Spec => []TypeOK
  BY TimerInvariant, TimerInvImplies, PTL

\* A cleared timer never comes back and never runs again, also when an interval
\* is cleared by its own callback or by a callback nested in it.
THEOREM ClearedStaysGone == Spec => []ClearedIsGone
  BY TimerInvariant, TimerInvImplies, PTL

\* run_one_native_timer begins callbacks in Node's order, and an immediate set in
\* a check phase waits for the next one.
THEOREM CallbacksInOrder == Spec => RunsInOrder
  <1>1. TimerInv /\ [Next]_vars => [TimersInOrder /\ NoStarvation]_vars
    <2> SUFFICES ASSUME TimerInv, Next PROVE TimersInOrder /\ NoStarvation
      OBVIOUS
    <2>1. CASE Begins
      BY <2>1, OnlyPollsBegin, BegunInOrder
    <2>2. CASE ~Begins
      BY <2>2 DEF TimersInOrder, NoStarvation
    <2> QED
      BY <2>1, <2>2
  <1> QED
    BY <1>1, TimerInvariant, PTL DEF Spec, RunsInOrder

\* When run_one_native_timer reports that nothing can run, no immediate is queued
\* and no timer is due.
THEOREM IdleLosesNothing == Spec => IdleIsIdle
  <1>1. TimerInv /\ [Next]_vars =>
           [RunNothing => \A i \in Registered : timer[i].kind # "immediate" /\ timer[i].due > now]_vars
    BY NothingIsDue
  <1> QED
    BY <1>1, TimerInvariant, PTL DEF Spec, IdleIsIdle
=============================================================================
