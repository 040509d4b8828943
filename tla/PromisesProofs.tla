--------------------------- MODULE PromisesProofs ----------------------------
(***************************************************************************)
(* The inductive invariant of Promises and what follows from it, for any   *)
(* number of promises, frames, combinators, arena cells and callbacks that *)
(* poll.  One lemma per operation: the tokens it moves, the places it      *)
(* moves continuations between, and the combinator states it touches.      *)
(***************************************************************************)
EXTENDS PromisesLemmas

-----------------------------------------------------------------------------
(* The inductive invariant.                                                *)

\* The part of TypeOK that does not follow from the rest.
Types ==
    /\ join \in [JoinId -> JoinBox]
    /\ slot \in [Slots -> Promise \cup {Null}]
    /\ timers \subseteq Promise /\ fdWaits \subseteq Promise
    /\ pendingHandled \in Nat /\ notices \in Nat
    /\ orphaned \in [Promise -> Nat] /\ reports \in [Promise -> Nat]
    /\ batches \in Seq(Batch)
    /\ born \in 0..MaxPromises /\ frames \in 0..MaxFrames
    /\ joins \in 0..MaxJoins /\ purges \in 0..MaxPurges
    /\ owned \in [Promise -> Nat]
    /\ resolvable \subseteq Promise
    /\ observed \subseteq Promise /\ forced \subseteq Promise /\ lost \subseteq FrameId
    /\ joinLog \in [JoinId -> LogEntry]

Tokens == Held(heap, InternalOf(frame, join, slot), ExternalOf(frame, owned))

Places == PlaceOK(heap, frame, ready, stack, lost)

\* A frame refers to what its kind has.
FrameOK(fr, jn, n, f) ==
    /\ fr[f].kind # "none" => f <= n
    /\ fr[f].output \in Promise <=> fr[f].kind \in {"chain", "adopt", "finallyAdopt"}
    /\ fr[f].join # Null <=> fr[f].kind = "child"
    /\ fr[f].join # Null => jn[fr[f].join].kind # "none"

Children(fr, j) == {f \in FrameId : fr[f].join = j}

\* A combinator state lives until the last of its children was resumed.
JoinOK(fr, jn, lg, n, j) ==
    /\ jn[j].kind = "none" => jn[j] = NoJoin
    /\ jn[j].kind # "none" =>
          /\ j <= n /\ jn[j].output \in Promise
          /\ jn[j].remaining = Cardinality(Children(fr, j)) /\ jn[j].remaining > 0
          /\ lg[j].left = jn[j].remaining

Counting(jn) == {j \in JoinId : jn[j].kind # "none" /\ Counted(jn[j])}

Structure ==
    /\ \A f \in FrameId : FrameOK(frame, join, frames, f)
    /\ \A j \in JoinId : JoinOK(frame, join, joinLog, joins, j)
    /\ activeJoins = Cardinality(Counting(join))
    /\ lost \subseteq 1..frames

Lives ==
    /\ \A p \in Promise : heap[p].live => p <= born
    /\ \A p \in timers \cup fdWaits : heap[p].live

Inv == Types /\ Tokens /\ Places /\ Structure /\ Lives

LEMMA BoxTypes ==
    /\ NoFrame \in FrameBox /\ NoFrame.kind = "none" /\ NoFrame.input = Null
    /\ NoFrame.output = Null /\ NoFrame.join = Null /\ NoFrame.cancelled = FALSE
    /\ NoJoin \in JoinBox /\ NoJoin.kind = "none" /\ NoJoin.output = Null /\ NoJoin.remaining = 0
    /\ NoLog \in LogEntry
  <1>1. <<>> \in Seq(Settlement)
    OBVIOUS
  <1> QED
    BY <1>1 DEF NoFrame, FrameBox, NoJoin, JoinBox, NoLog, LogEntry, Settlement

LEMMA InitInv == Init => Inv
  <1> SUFFICES ASSUME Init
               PROVE  Inv
    OBVIOUS
  <1>1. Types
    <2>1. <<>> \in Seq(Batch)
      OBVIOUS
    <2> QED
      BY <2>1, BoxTypes, Domains DEF Init, Types
  <1>2. Tokens
    <2>1. ASSUME NEW p \in Promise
          PROVE  /\ InternalOf(frame, join, slot)[p] = 0 /\ ExternalOf(frame, owned)[p] = 0
      <3>1. /\ Consuming(frame, p) = {} /\ Settling(frame, p) = {}
            /\ Joining(join, p) = {} /\ Storing(slot, p) = {}
        BY BoxTypes, Domains DEF Init, Consuming, Settling, Joining, Storing
      <3>2. owned[p] = 0 /\ Cardinality({}) = 0
        BY FS_EmptySet DEF Init
      <3> QED
        BY <3>1, <3>2 DEF InternalOf, ExternalOf
    <2>2. /\ heap \in [Promise -> PromiseBox] /\ \A p \in Promise : heap[p] = NoBox
      BY NoBoxFacts DEF Init
    <2>3. owned \in [Promise -> Nat]
      BY DEF Init
    <2>4. /\ InternalOf(frame, join, slot) \in [Promise -> Nat]
          /\ ExternalOf(frame, owned) \in [Promise -> Nat]
      BY <2>1 DEF InternalOf, ExternalOf
    <2> QED
      BY <2>1, <2>2, <2>4, NoBoxFacts DEF Held, Tokens
  <1>3. Places
    <2>1. /\ heap \in [Promise -> PromiseBox] /\ \A p \in Promise : heap[p] = NoBox
          /\ frame \in [FrameId -> FrameBox] /\ \A f \in FrameId : frame[f] = NoFrame
          /\ ready = <<>> /\ stack = <<>> /\ lost = {}
      BY NoBoxFacts, BoxTypes DEF Init
    <2>2. <<>> \in Seq(FrameId) /\ Len(<<>>) = 0 /\ 1..0 = {}
      OBVIOUS
    <2>3. PlaceTypes(heap, frame, ready, stack)
      BY <2>1, <2>2, BoxTypes DEF PlaceTypes
    <2>4. ASSUME NEW f \in FrameId
          PROVE  PlacedOnce(heap, frame, ready, stack, lost, f)
      <3>1. Queued(ready, stack, f) = 0
        <4>1. Count(<<>>, f) = 0
          BY CountSmall
        <4> QED
          BY <2>1, <4>1 DEF Queued
      <3>2. WaitsFor(heap, frame, f) = 0
        BY <2>1, BoxTypes DEF WaitsFor
      <3> QED
        BY <2>1, <3>1, <3>2, BoxTypes DEF PlacedOnce
    <2>5. /\ Subscribing(heap, frame) /\ ReadyInOrder(ready, frame) /\ RunningChains(stack, frame)
          /\ \A p \in Promise : Increasing(heap[p].subscribers)
      BY <2>1, <2>2, NoBoxFacts DEF Subscribing, ReadyInOrder, RunningChains, Increasing
    <2> QED
      BY <2>3, <2>4, <2>5 DEF PlaceOK, Places
  <1>4. Structure
    <2>1. Counting(join) = {}
      BY BoxTypes DEF Init, Counting
    <2>2. \A f \in FrameId : FrameOK(frame, join, frames, f)
      BY BoxTypes, Domains DEF Init, FrameOK
    <2>3. \A j \in JoinId : JoinOK(frame, join, joinLog, joins, j)
      BY BoxTypes DEF Init, JoinOK
    <2> QED
      BY <2>1, <2>2, <2>3, FS_EmptySet DEF Init, Structure
  <1>5. Lives
    BY NoBoxFacts DEF Init, Lives
  <1> QED
    BY <1>1, <1>2, <1>3, <1>4, <1>5 DEF Inv

-----------------------------------------------------------------------------
(* Moves several actions share.                                            *)

\* Some boxes of h give tokens back, and timers of freed ones are dropped.
LEMMA TrimMove ==
    ASSUME Inv, NEW h, \A p \in Promise : h[p].live => heap[p].live,
           TrimmedHeap(h, heap'), Tokens', owned' \in [Promise -> Nat],
           PlaceOK(h, frame', ready', stack', lost'), DropWaits(heap'), born' = born
    PROVE  Places' /\ Lives'
  <1>1. Held(heap', InternalOf(frame', join', slot'), ExternalOf(frame', owned'))
    BY DEF Tokens
  <1>2. PlaceOK(heap', frame', ready', stack', lost')
    BY <1>1, PlaceTrim
  <1>3. \A p \in Promise : heap'[p].live => heap[p].live
    BY NoBoxFacts DEF TrimmedHeap, Trimmed, SameData
  <1>4. Lives'
    BY <1>3 DEF Inv, Lives, Types, DropWaits, Waiting
  <1> QED
    BY <1>2, <1>4 DEF Places

\* Counters and flags change, but no box is freed and nothing settles.
LEMMA FlagMove ==
    ASSUME Inv, heap' \in [Promise -> PromiseBox],
           \A p \in Promise : /\ heap'[p].live = heap[p].live
                              /\ heap'[p].result = heap[p].result
                              /\ heap'[p].subscribers = heap[p].subscribers,
           UNCHANGED <<frame, ready, stack, lost, timers, fdWaits, born>>
    PROVE  Places' /\ Lives'
  <1>1. PlaceOK(heap', frame, ready, stack, lost)
    BY PlaceHeap DEF Inv, Places
  <1>2. Places'
    BY <1>1 DEF Places
  <1>3. Lives'
    BY DEF Inv, Lives, Types
  <1> QED
    BY <1>2, <1>3

\* A live promise settles and its subscribers become ready.
LEMMA SettleMove ==
    ASSUME Inv, NEW p \in Promise, heap[p].live, NEW r \in Settlement,
           heap' = Settle(heap, p, r), ready' = ready \o Woken(heap, p),
           timers' \subseteq timers, fdWaits' \subseteq fdWaits,
           UNCHANGED <<frame, join, slot, stack, lost, born, owned>>
    PROVE  Tokens' /\ Places' /\ Lives'
  <1> DEFINE k == Settle(heap, p, r)
             I == InternalOf(frame, join, slot)
             E == ExternalOf(frame, owned)
  <1>0. Held(k, I, E) /\ Settled(heap, k, p, r)
    BY HeldSettle DEF Inv, Tokens
  <1>1. /\ Held(k, I, E)
        /\ \A q \in Promise : q # p => k[q] = heap[q]
        /\ k[p].live = heap[p].live
        /\ IF Pending(heap, p) THEN k[p].result = r /\ k[p].subscribers = <<>> ELSE k = heap
    BY <1>0 DEF Settled
  <1>2. k \in [Promise -> PromiseBox]
    BY <1>1 DEF Held
  <1> HIDE DEF k
  <1>3. r # "pending"
    BY DEF Settlement
  <1>4. PlaceOK(k, frame, ready \o Woken(heap, p), stack, lost)
    BY <1>1, <1>2, <1>3, PlaceSettle DEF Inv, Places
  <1>5. Tokens'
    BY <1>1 DEF Tokens, k
  <1>6. Places'
    BY <1>4 DEF Places, k
  <1>7. Lives'
    BY <1>1 DEF Inv, Lives, Types, k
  <1> QED
    BY <1>5, <1>6, <1>7

\* The next promise to be made is not live yet.
LEMMA FreshIsDead ==
    ASSUME Inv, NEW p \in FreshPromise
    PROVE  p \in Promise /\ p = born + 1 /\ ~heap[p].live /\ p \notin timers \cup fdWaits
  <1>1. p \in Promise /\ p = born + 1 /\ born \in Nat /\ p \in Nat
    BY Domains DEF FreshPromise, Inv, Types
  <1>2. ~heap[p].live
    BY <1>1 DEF Inv, Lives
  <1> QED
    BY <1>1, <1>2 DEF Inv, Lives

\* What nothing but the boxes of frames and combinators matters to.
LEMMA SameStructure ==
    ASSUME Structure, UNCHANGED <<frame, join, joinLog, activeJoins, frames, joins, lost>>
    PROVE  Structure'
  BY DEF Structure, FrameOK, JoinOK, Children, Counting, Counted

\* A frame that is no child ends.
LEMMA EndMove ==
    ASSUME Inv, NEW f \in FrameId, frame[f].kind # "child", FreeFrame(f),
           UNCHANGED <<join, joinLog, activeJoins, frames, joins, lost>>
    PROVE  Structure'
  <1>1. /\ frame \in [FrameId -> FrameBox] /\ frame' = [frame EXCEPT ![f] = NoFrame]
        /\ frame'[f] = NoFrame /\ \A c \in FrameId : c # f => frame'[c] = frame[c]
        /\ frame[f].join = Null
    BY DEF Inv, Places, PlaceOK, PlaceTypes, FreeFrame, Structure, FrameOK
  <1>2. ASSUME NEW c \in FrameId
        PROVE  FrameOK(frame', join', frames', c)
    BY <1>1, BoxTypes, Domains DEF Inv, Structure, FrameOK
  <1>3. ASSUME NEW j \in JoinId
        PROVE  JoinOK(frame', join', joinLog', joins', j)
    <2>1. j # Null
      BY Domains
    <2>2. Children(frame', j) = Children(frame, j)
      BY <1>1, <2>1, BoxTypes DEF Children
    <2> QED
      BY <2>2 DEF Inv, Structure, JoinOK
  <1> QED
    BY <1>2, <1>3 DEF Inv, Structure, Counting, Counted

-----------------------------------------------------------------------------
(* Compiled code creates, settles and counts.                              *)

LEMMA NewBoxAs ==
    ASSUME NEW r \in {"pending"} \cup Settlement
    PROVE  LET b == [NewBox EXCEPT !.result = r]
           IN  /\ b \in PromiseBox /\ Holds(b, 0, 1)
               /\ b.live = TRUE /\ b.result = r /\ b.handled = FALSE /\ b.reported = FALSE
               /\ b.subscribers = <<>> /\ b.references = 1 /\ b.internal = 0
  <1> DEFINE b == [NewBox EXCEPT !.result = r]
  <1>1. b \in PromiseBox
    BY NoBoxFacts DEF PromiseBox
  <1>2. /\ b.live = TRUE /\ b.result = r /\ b.handled = FALSE /\ b.reported = FALSE
        /\ b.subscribers = <<>> /\ b.references = 1 /\ b.internal = 0
    BY DEF NewBox, NoBox
  <1>3. Holds(b, 0, 1)
    BY <1>2 DEF Holds
  <1> QED
    BY <1>1, <1>2, <1>3

LEMMA BirthStep ==
    ASSUME Inv, NEW p \in FreshPromise, NEW r \in {"pending"} \cup Settlement, Birth(p, r),
           timers' \subseteq timers \cup {p}, fdWaits' \subseteq fdWaits \cup {p},
           resolvable' \subseteq resolvable \cup {p}
    PROVE  Inv'
  <1> DEFINE b == [NewBox EXCEPT !.result = r]
             k == [heap EXCEPT ![p] = b]
  <1>1. p \in Promise /\ p = born + 1 /\ ~heap[p].live
    BY FreshIsDead
  <1>2. /\ b \in PromiseBox /\ Holds(b, 0, 1) /\ b.live = TRUE /\ b.subscribers = <<>>
    BY NewBoxAs
  <1> HIDE DEF b
  <1>3. /\ heap' = k /\ owned' = [owned EXCEPT ![p] = 1] /\ born' = p
        /\ UNCHANGED <<frame, join, slot, ready, stack, activeJoins, pendingHandled, orphaned,
                       batches, frames, joins, purges, reports, notices, observed, joinLog, forced, lost>>
    BY DEF Birth, b, reporting, ghost
  <1>4. heap \in [Promise -> PromiseBox] /\ owned \in [Promise -> Nat]
    BY DEF Inv, Types, Tokens, Held
  <1>5. Unheld(frame, join, slot, owned, p)
    BY <1>1, <1>4, DeadIsUnheld DEF Inv, Tokens
  <1>6. /\ owned' \in [Promise -> Nat]
        /\ Held(k, InternalOf(frame, join, slot), ExternalOf(frame, owned'))
    <2>1. HeldBy(k, frame, join, slot, [owned EXCEPT ![p] = 1])
      BY <1>1, <1>2, <1>4, HeldBirth DEF Inv, Tokens
    <2> QED
      BY <1>3, <2>1 DEF HeldBy
  <1>7. Tokens'
    BY <1>3, <1>6 DEF Tokens
  <1>8. Places'
    <2>1. k \in [Promise -> PromiseBox] /\ k[p] = b /\ \A q \in Promise : q # p => k[q] = heap[q]
      BY <1>1, <1>2, <1>4
    <2> HIDE DEF k
    <2>2. \A f \in FrameId : frame[f].input # p
      BY <1>5 DEF Unheld
    <2>3. PlaceOK(k, frame, ready, stack, lost)
      BY <1>2, <2>1, <2>2, PlaceHeap DEF Inv, Places
    <2> QED
      BY <1>3, <2>3 DEF Places
  <1>9. Structure'
    BY <1>3, SameStructure DEF Inv
  <1>10. Types'
    <2>1. born' \in 0..MaxPromises
      BY <1>1, <1>3, Domains DEF Promise
    <2> QED
      BY <1>1, <1>3, <1>6, <2>1 DEF Inv, Types
  <1>11. Lives'
    <2>1. \A q \in Promise : q # p => heap'[q] = heap[q]
      BY <1>1, <1>3, <1>4
    <2>2. heap'[p].live
      BY <1>1, <1>2, <1>3, <1>4
    <2>3. born \in Nat /\ Promise \subseteq Nat
      BY Domains DEF Inv, Types
    <2>4. ASSUME NEW q \in Promise, heap'[q].live
          PROVE  q <= born'
      <3>1. q = p \/ q <= born
        BY <2>1, <2>4 DEF Inv, Lives
      <3> QED
        BY <1>1, <1>3, <2>3, <3>1
    <2>5. ASSUME NEW q \in timers' \cup fdWaits'
          PROVE  heap'[q].live
      <3>1. q = p \/ q \in timers \cup fdWaits
        BY <2>5
      <3>2. q \in timers \cup fdWaits => q \in Promise /\ heap[q].live
        BY DEF Inv, Types, Lives
      <3> QED
        BY <2>1, <2>2, <3>1, <3>2
    <2> QED
      BY <2>4, <2>5 DEF Lives
  <1> QED
    BY <1>7, <1>8, <1>9, <1>10, <1>11 DEF Inv

LEMMA CreateStep == Inv /\ Create => Inv'
  <1> SUFFICES ASSUME Inv, NEW p \in FreshPromise,
                      \/ New(p) \/ Sleep(p) \/ WaitFd(p)
                      \/ \E r \in {"pending"} \cup Settlement : Refused(p, r)
               PROVE  Inv'
    BY DEF Create
  <1>1. CASE New(p)
    BY <1>1, BirthStep DEF New
  <1>2. CASE Sleep(p)
    BY <1>2, BirthStep DEF Sleep
  <1>3. CASE WaitFd(p)
    BY <1>3, BirthStep DEF WaitFd
  <1>4. CASE \E r \in {"pending"} \cup Settlement : Refused(p, r)
    <2>1. PICK r \in {"pending"} \cup Settlement : Refused(p, r)
      BY <1>4
    <2> QED
      BY <2>1, BirthStep DEF Refused
  <1> QED
    BY <1>1, <1>2, <1>3, <1>4

\* A box some frame will settle lives.
LEMMA OutputLives ==
    ASSUME Inv, NEW f \in FrameId, frame[f].output \in Promise
    PROVE  /\ heap[frame[f].output].live
           /\ InternalOf(frame, join, slot)[frame[f].output] > 0
  <1> DEFINE p == frame[f].output
             I == InternalOf(frame, join, slot)
             E == ExternalOf(frame, owned)
  <1>1. Held(heap, I, E) /\ owned \in [Promise -> Nat]
    BY DEF Inv, Tokens, Types
  <1>2. Recount(frame, frame, f, p)
    BY OneFrame
  <1>3. /\ Cardinality(Settling(frame, p)) \in Nat /\ Cardinality(Settling(frame, p)) > 0
        /\ Cardinality(Joining(join, p)) \in Nat /\ Cardinality(Storing(slot, p)) \in Nat
    BY <1>1, <1>2, HolderTypes DEF Recount
  <1>4. I[p] = Cardinality(Settling(frame, p)) + Cardinality(Joining(join, p))
               + Cardinality(Storing(slot, p))
    BY DEF InternalOf
  <1>5. I[p] > 0
    BY <1>3, <1>4
  <1>6. I[p] \in Nat /\ E[p] \in Nat /\ (heap[p].live <=> I[p] + E[p] > 0)
    BY <1>1, HeldFacts
  <1> QED
    BY <1>5, <1>6

\* What compiled code holds lives.
LEMMA OwnedLives ==
    ASSUME Inv, NEW p \in Promise, owned[p] > 0
    PROVE  /\ heap[p].live /\ ExternalOf(frame, owned)[p] > 0
           /\ Less(owned, p) \in [Promise -> Nat]
           /\ ExternalOf(frame, Less(owned, p)) = Less(ExternalOf(frame, owned), p)
  <1>1. /\ Held(heap, InternalOf(frame, join, slot), ExternalOf(frame, owned))
        /\ owned \in [Promise -> Nat]
    BY DEF Inv, Tokens, Types
  <1>2. /\ ExternalOf(frame, owned)[p] > 0
        /\ Less(owned, p) \in [Promise -> Nat]
        /\ ExternalOf(frame, Less(owned, p)) = Less(ExternalOf(frame, owned), p)
    BY <1>1, OwnedChanges
  <1>3. /\ heap[p].live <=> InternalOf(frame, join, slot)[p] + ExternalOf(frame, owned)[p] > 0
        /\ InternalOf(frame, join, slot)[p] \in Nat /\ ExternalOf(frame, owned)[p] \in Nat
    BY <1>1, HeldFacts
  <1> QED
    BY <1>2, <1>3

LEMMA WritableLives ==
    ASSUME Inv, NEW p \in Writable
    PROVE  p \in Promise /\ heap[p].live
  <1>1. CASE p \in resolvable /\ heap[p].live
    BY <1>1 DEF Inv, Types
  <1>2. CASE \E i \in 1..Len(stack) : p = frame[stack[i]].output
    <2>1. PICK i \in 1..Len(stack) : p = frame[stack[i]].output
      BY <1>2
    <2>2. stack[i] \in FrameId
      BY DEF Inv, Places, PlaceOK, PlaceTypes
    <2>3. frame[stack[i]].kind = "chain"
      BY DEF Inv, Places, PlaceOK, RunningChains
    <2>4. p \in Promise
      BY <2>1, <2>2, <2>3 DEF Inv, Structure, FrameOK
    <2> QED
      BY <2>1, <2>2, <2>4, OutputLives
  <1> QED
    BY <1>1, <1>2 DEF Writable

LEMMA SettleStep ==
    ASSUME Inv, NEW p \in Promise, heap[p].live, NEW r \in Settlement,
           heap' = Settle(heap, p, r), ready' = ready \o Woken(heap, p),
           timers' \subseteq timers, fdWaits' \subseteq fdWaits, forced' \subseteq Promise,
           UNCHANGED <<frame, join, slot, stack, activeJoins, reporting, counters, owned,
                       resolvable, reports, notices, observed, joinLog, lost>>
    PROVE  Inv'
  <1>1. Tokens' /\ Places' /\ Lives'
    <2>1. UNCHANGED <<frame, join, slot, stack, lost, born, owned>>
      BY DEF counters
    <2> QED
      BY <2>1, SettleMove
  <1>2. Structure'
    BY SameStructure DEF Inv, counters
  <1>3. Types'
    BY DEF Inv, Types, counters, reporting
  <1> QED
    BY <1>1, <1>2, <1>3 DEF Inv

\* Tokens of no promise change, and every box keeps what is in it.
LEMMA FlagStep ==
    ASSUME Inv, heap' \in [Promise -> PromiseBox],
           \A p \in Promise : /\ heap'[p].live = heap[p].live
                              /\ heap'[p].result = heap[p].result
                              /\ heap'[p].subscribers = heap[p].subscribers,
           Tokens', Types',
           UNCHANGED <<frame, join, ready, stack, lost, timers, fdWaits, counters, activeJoins,
                       joinLog>>
    PROVE  Inv'
  <1>1. Places' /\ Lives'
    BY FlagMove DEF counters
  <1>2. Structure'
    BY SameStructure DEF Inv, counters
  <1> QED
    BY <1>1, <1>2 DEF Inv

\* Flags alone change no token.
LEMMA SameHolds ==
    ASSUME NEW h, NEW I, NEW E, Held(h, I, E), NEW k \in [Promise -> PromiseBox],
           \A p \in Promise : /\ k[p].live = h[p].live /\ (h[p].live \/ k[p] = h[p])
                              /\ k[p].references = h[p].references
                              /\ k[p].internal = h[p].internal
    PROVE  Held(k, I, E)
  <1>1. ASSUME NEW p \in Promise
        PROVE  Holds(k[p], I[p], E[p])
    <2>1. Holds(h[p], I[p], E[p]) /\ I[p] \in Nat /\ E[p] \in Nat
      BY DEF Held
    <2> QED
      BY <2>1 DEF Holds
  <1> QED
    BY <1>1 DEF Held

LEMMA BlockingAwaitStep ==
    ASSUME Inv, NEW p \in Promise, BlockingAwait(p)
    PROVE  Inv'
  <1>1. heap[p].live
    BY DEF BlockingAwait, Has
  <1>2. /\ heap \in [Promise -> PromiseBox]
        /\ heap' = [heap EXCEPT ![p] = [heap[p] EXCEPT !.handled = TRUE]]
    BY DEF BlockingAwait, Inv, Tokens, Held
  <1>3. [heap[p] EXCEPT !.handled = TRUE] \in PromiseBox
    BY <1>2 DEF PromiseBox
  <1>4. heap' \in [Promise -> PromiseBox]
    BY <1>2, <1>3
  <1>5. \A q \in Promise : /\ heap'[q].live = heap[q].live
                           /\ heap'[q].result = heap[q].result
                           /\ heap'[q].subscribers = heap[q].subscribers
                           /\ heap'[q].references = heap[q].references
                           /\ heap'[q].internal = heap[q].internal
                           /\ q # p => heap'[q] = heap[q]
    BY <1>2, <1>3 DEF PromiseBox
  <1>6. Tokens'
    <2>1. Held(heap', InternalOf(frame, join, slot), ExternalOf(frame, owned))
      BY <1>1, <1>4, <1>5, SameHolds DEF Inv, Tokens
    <2> QED
      BY <2>1 DEF Tokens, BlockingAwait
  <1>7. Late(heap, {p}) \in Nat
    <2>1. IsFiniteSet({p})
      BY FS_Singleton
    <2>2. {q \in {p} : heap[q].reported /\ ~heap[q].handled} \in SUBSET {p}
      OBVIOUS
    <2> QED
      BY <2>1, <2>2, FS_Subset, FS_CardinalityType DEF Late
  <1>8. Types'
    BY <1>7 DEF Inv, Types, BlockingAwait, counters
  <1> QED
    BY <1>4, <1>5, <1>6, <1>8, FlagStep DEF BlockingAwait, counters

LEMMA RetainTokenStep ==
    ASSUME Inv, NEW p \in Promise, RetainToken(p)
    PROVE  Inv'
  <1> DEFINE k == [heap EXCEPT ![p].references = @ + 1]
  <1>1. heap[p].live /\ heap' = k /\ owned \in [Promise -> Nat] /\ owned' = More(owned, p)
    BY DEF RetainToken, Has, Inv, Types, More
  <1>2. /\ Held(k, InternalOf(frame, join, slot), More(ExternalOf(frame, owned), p))
        /\ SameHeap(heap, k)
    BY <1>1, HeldToken DEF Inv, Tokens
  <1>3. /\ More(owned, p) \in [Promise -> Nat]
        /\ ExternalOf(frame, More(owned, p)) = More(ExternalOf(frame, owned), p)
    BY <1>1, OwnedChanges
  <1> HIDE DEF k
  <1>4. Tokens'
    <2>1. Held(heap', InternalOf(frame, join, slot), ExternalOf(frame, owned'))
      BY <1>1, <1>2, <1>3
    <2> QED
      BY <2>1 DEF Tokens, RetainToken
  <1>5. heap' \in [Promise -> PromiseBox]
    BY <1>1, <1>2 DEF Held
  <1>6. \A q \in Promise : /\ heap'[q].live = heap[q].live
                           /\ heap'[q].result = heap[q].result
                           /\ heap'[q].subscribers = heap[q].subscribers
    BY <1>1, <1>2 DEF SameHeap, SameData
  <1>7. Types'
    BY <1>1, <1>3 DEF Inv, Types, RetainToken, counters, reporting, ghost
  <1> QED
    BY <1>4, <1>5, <1>6, <1>7, FlagStep DEF RetainToken, counters, ghost

\* The steps that free boxes and leave every frame as it is.
LEMMA FreeStep ==
    ASSUME Inv, TrimmedHeap(heap, heap'), Tokens', Types', DropWaits(heap'),
           UNCHANGED <<frame, join, ready, stack, lost, counters, activeJoins, joinLog>>
    PROVE  Inv'
  <1>1. PlaceOK(heap, frame', ready', stack', lost')
    BY DEF Inv, Places
  <1>2. owned' \in [Promise -> Nat] /\ born' = born
    BY DEF Types, counters
  <1>3. Places' /\ Lives'
    BY <1>1, <1>2, TrimMove
  <1>4. Structure'
    BY SameStructure DEF Inv, counters
  <1> QED
    BY <1>3, <1>4 DEF Inv

LEMMA DestroyTokenStep ==
    ASSUME Inv, NEW p \in Promise, DestroyToken(p)
    PROVE  Inv'
  <1>1. owned[p] > 0 /\ owned' = Less(owned, p) /\ heap' = Destroy(heap, p)
    BY DEF DestroyToken, Has, Less
  <1>2. /\ ExternalOf(frame, owned)[p] > 0
        /\ Less(owned, p) \in [Promise -> Nat]
        /\ ExternalOf(frame, Less(owned, p)) = Less(ExternalOf(frame, owned), p)
    BY <1>1, OwnedLives
  <1>3. /\ Held(heap', InternalOf(frame, join, slot), Less(ExternalOf(frame, owned), p))
        /\ TrimmedHeap(heap, heap')
    BY <1>1, <1>2, HeldDestroy DEF Inv, Tokens
  <1>4. Tokens'
    BY <1>1, <1>2, <1>3 DEF Tokens, DestroyToken
  <1>5. Types'
    BY <1>1, <1>2 DEF Inv, Types, DestroyToken, DropWaits, Waiting, counters, reporting, ghost
  <1> QED
    BY <1>3, <1>4, <1>5, FreeStep DEF DestroyToken, ghost

LEMMA SameIsTrimmed ==
    ASSUME NEW h, NEW k, SameHeap(h, k)
    PROVE  TrimmedHeap(h, k)
  BY DEF SameHeap, TrimmedHeap, Trimmed

LEMMA SlotReplaceStep ==
    ASSUME Inv, NEW s \in Slots, NEW p \in Promise \cup {Null}, SlotReplace(s, p)
    PROVE  Inv'
  <1> DEFINE I == InternalOf(frame, join, slot)
             E == ExternalOf(frame, owned)
             c == slot[s]
             kept == IF p = Null THEN heap ELSE RetainInternal(heap, p)
             k == IF c = Null THEN kept ELSE Release(kept, c)
  <1>1. /\ heap' = k /\ slot' = [slot EXCEPT ![s] = p] /\ p # c
        /\ slot \in [Slots -> Promise \cup {Null}] /\ owned \in [Promise -> Nat]
        /\ Null \notin Promise
    BY Domains DEF SlotReplace, SlotStored, Inv, Types
  <1>2. c \in Promise \cup {Null}
    BY <1>1
  <1>3. Held(heap, I, E)
    BY DEF Inv, Tokens
  <1>4. /\ InternalOf(frame, join, slot') = LessIf(MoreIf(I, p), c)
        /\ c \in Promise => MoreIf(I, p)[c] > 0
    <2>1. /\ InternalOf(frame, join, [slot EXCEPT ![s] = p]) = LessIf(MoreIf(I, p), slot[s])
          /\ slot[s] \in Promise => I[slot[s]] > 0 /\ MoreIf(I, p)[slot[s]] > 0
      BY <1>1, SlotTokens
    <2> QED
      BY <1>1, <2>1
  <1> HIDE DEF I, E, c
  <1>5. Held(kept, MoreIf(I, p), E) /\ TrimmedHeap(heap, kept)
    <2>1. CASE p = Null
      <3>1. kept = heap /\ MoreIf(I, p) = I
        BY <1>1, <2>1 DEF MoreIf
      <3>2. TrimmedHeap(heap, heap)
        BY DEF TrimmedHeap, Trimmed, SameData
      <3> QED
        BY <1>3, <3>1, <3>2
    <2>2. CASE p # Null
      <3>1. p \in Promise
        BY <2>2
      <3>2. heap[p].live
        BY <2>2 DEF SlotReplace, Has
      <3>3. Held(RetainInternal(heap, p), More(I, p), E) /\ SameHeap(heap, RetainInternal(heap, p))
        BY <1>3, <3>1, <3>2, HeldRetain
      <3>4. kept = RetainInternal(heap, p) /\ MoreIf(I, p) = More(I, p)
        BY <2>2, <3>1 DEF MoreIf
      <3> HIDE DEF kept
      <3> QED
        BY <3>3, <3>4, SameIsTrimmed
    <2> QED
      BY <2>1, <2>2
  <1> HIDE DEF kept
  <1>6. Held(k, LessIf(MoreIf(I, p), c), E) /\ TrimmedHeap(heap, k)
    <2>1. CASE c = Null
      BY <1>1, <1>5, <2>1 DEF LessIf
    <2>2. CASE c # Null
      <3>1. c \in Promise /\ MoreIf(I, p)[c] > 0
        BY <1>2, <1>4, <2>2
      <3>2. /\ Held(Release(kept, c), Less(MoreIf(I, p), c), E)
            /\ TrimmedHeap(kept, Release(kept, c))
        BY <1>5, <3>1, HeldRelease
      <3>3. k = Release(kept, c) /\ LessIf(MoreIf(I, p), c) = Less(MoreIf(I, p), c)
        BY <2>2, <3>1 DEF LessIf
      <3>4. TrimmedHeap(heap, Release(kept, c))
        BY <1>5, <3>2, TrimmedTwice
      <3> QED
        BY <3>2, <3>3, <3>4
    <2> QED
      BY <2>1, <2>2
  <1> HIDE DEF k
  <1>7. Tokens'
    <2>1. Held(heap', InternalOf(frame, join, slot'), E)
      BY <1>1, <1>4, <1>6
    <2> QED
      BY <2>1 DEF Tokens, SlotReplace, E
  <1>8. Types'
    BY <1>1 DEF Inv, Types, SlotReplace, DropWaits, Waiting, counters, reporting, ghost
  <1> QED
    BY <1>1, <1>6, <1>7, <1>8, FreeStep DEF SlotReplace, ghost

LEMMA UseTokenStep == Inv /\ UseToken => Inv'
  <1> SUFFICES ASSUME Inv, NEW p \in Promise,
                      \/ \E r \in Settlement : SettleOwn(p, r)
                      \/ Deadline(p) \/ RetainToken(p) \/ DestroyToken(p) \/ BlockingAwait(p)
                      \/ \E s \in Slots : SlotReplace(s, p) \/ SlotReplace(s, Null)
               PROVE  Inv'
    BY DEF UseToken
  <1>1. CASE \E r \in Settlement : SettleOwn(p, r)
    <2>1. PICK r \in Settlement : SettleOwn(p, r)
      BY <1>1
    <2>2. heap[p].live
      BY <2>1, WritableLives DEF SettleOwn
    <2>3. /\ heap' = Settle(heap, p, r) /\ ready' = ready \o Woken(heap, p)
          /\ UNCHANGED <<frame, join, slot, stack, timers, fdWaits, activeJoins,
                         reporting, counters, owned, resolvable, ghost>>
      BY <2>1 DEF SettleOwn
    <2>4. forced' \subseteq Promise
      BY <2>3 DEF ghost, Inv, Types
    <2> QED
      BY <2>2, <2>3, <2>4, SettleStep DEF ghost
  <1>2. CASE Deadline(p)
    <2>1. /\ heap' = Settle(heap, p, "rejected") /\ ready' = ready \o Woken(heap, p)
          /\ heap[p].live /\ forced' = forced \cup {p}
          /\ UNCHANGED <<frame, join, slot, stack, timers, fdWaits, activeJoins,
                         reporting, counters, owned, resolvable, reports, notices,
                         observed, joinLog, lost>>
      BY <1>2 DEF Deadline, Has
    <2>2. forced' \subseteq Promise /\ "rejected" \in Settlement
      BY <2>1 DEF Inv, Types, Settlement
    <2> QED
      BY <2>1, <2>2, SettleStep
  <1>3. CASE \E s \in Slots : SlotReplace(s, p) \/ SlotReplace(s, Null)
    BY <1>3, SlotReplaceStep
  <1> QED
    BY <1>1, <1>2, <1>3, RetainTokenStep, DestroyTokenStep, BlockingAwaitStep

LEMMA DueStep == Inv /\ Due => Inv'
  <1> SUFFICES ASSUME Inv, NEW p \in Promise,
                      TimerDue(p) \/ \E r \in Settlement : FdDone(p, r)
               PROVE  Inv'
    BY DEF Due
  <1>1. CASE TimerDue(p)
    <2>1. /\ heap' = Settle(heap, p, "fulfilled") /\ ready' = ready \o Woken(heap, p)
          /\ timers' \subseteq timers /\ fdWaits' \subseteq fdWaits /\ p \in timers
          /\ UNCHANGED <<frame, join, slot, stack, activeJoins, reporting,
                         counters, owned, resolvable, ghost>>
      BY <1>1 DEF TimerDue
    <2>2. heap[p].live /\ forced' \subseteq Promise /\ "fulfilled" \in Settlement
      BY <2>1 DEF Inv, Lives, Types, ghost, Settlement
    <2> QED
      BY <2>1, <2>2, SettleStep DEF ghost
  <1>2. CASE \E r \in Settlement : FdDone(p, r)
    <2>0. PICK r \in Settlement : FdDone(p, r)
      BY <1>2
    <2>1. /\ heap' = Settle(heap, p, r) /\ ready' = ready \o Woken(heap, p)
          /\ timers' \subseteq timers /\ fdWaits' \subseteq fdWaits /\ p \in fdWaits
          /\ UNCHANGED <<frame, join, slot, stack, activeJoins, reporting,
                         counters, owned, resolvable, ghost>>
      BY <2>0 DEF FdDone
    <2>2. heap[p].live /\ forced' \subseteq Promise
      BY <2>1 DEF Inv, Lives, Types, ghost
    <2> QED
      BY <2>1, <2>2, SettleStep DEF ghost
  <1> QED
    BY <1>1, <1>2

\* What ArenaReset assigns, with its local definition opened.
Resets(R) ==
    /\ slot' = ResetSlots(slot, R)
    /\ heap' = ResetHeap(heap, slot, R)
    /\ DropWaits(heap')
    /\ UNCHANGED <<frame, join, ready, stack, activeJoins, reporting, counters,
                   owned, resolvable, ghost>>

LEMMA ArenaResets ==
    ASSUME NEW R \in SUBSET Slots, ArenaReset(R)
    PROVE  Resets(R)
  BY Zenon DEF ArenaReset, Resets, ResetSlots, ResetHeap, ResetBox

LEMMA ArenaResetStep ==
    ASSUME Inv, NEW R \in SUBSET Slots, ArenaReset(R)
    PROVE  Inv'
  <1>0. Resets(R)
    BY ArenaResets
  <1>1. slot' = ResetSlots(slot, R)
    BY <1>0 DEF Resets
  <1>2. heap' = ResetHeap(heap, slot, R)
    BY <1>0 DEF Resets
  <1>3. /\ Held(heap', InternalOf(frame, join, slot'), ExternalOf(frame, owned))
        /\ TrimmedHeap(heap, heap')
    BY <1>1, <1>2, HeldReset DEF Inv, Tokens
  <1>4. Tokens'
    BY <1>0, <1>3 DEF Tokens, Resets
  <1>5. slot' \in [Slots -> Promise \cup {Null}]
    BY <1>1 DEF ResetSlots, Inv, Types
  <1>6. Types'
    BY <1>0, <1>5 DEF Inv, Types, Resets, DropWaits, Waiting, counters, reporting, ghost
  <1> QED
    BY <1>0, <1>3, <1>4, <1>6, FreeStep DEF Resets, ghost

-----------------------------------------------------------------------------
(* Reports, and the end of an invocation.                                  *)

LEMMA ReportHandledStep ==
    ASSUME Inv, ReportHandled
    PROVE  Inv'
  <1>1. Types'
    BY DEF Inv, Types, ReportHandled, counters
  <1>2. Tokens'
    BY DEF Inv, Tokens, ReportHandled
  <1>3. heap' \in [Promise -> PromiseBox] /\ heap' = heap
    BY DEF Inv, Tokens, Held, ReportHandled
  <1> QED
    BY <1>1, <1>2, <1>3, FlagStep DEF ReportHandled

\* The boxes a report phase has marked.
MarkedWell(k) ==
    /\ k \in [Promise -> PromiseBox]
    /\ \A p \in Promise : /\ k[p].live = heap[p].live /\ k[p].result = heap[p].result
                          /\ k[p].subscribers = heap[p].subscribers
                          /\ k[p].references = heap[p].references
                          /\ k[p].internal = heap[p].internal
                          /\ heap[p].live \/ k[p] = heap[p]

LEMMA MarkedIs == Inv => MarkedWell(Marked)
  <1> SUFFICES ASSUME Inv
               PROVE  MarkedWell(Marked)
    OBVIOUS
  <1> DEFINE b(p) == [heap[p] EXCEPT !.reported = TRUE]
  <1>1. /\ heap \in [Promise -> PromiseBox]
        /\ Marked = [p \in Promise |-> IF p \in Unreported THEN b(p) ELSE heap[p]]
        /\ \A p \in Unreported : p \in Promise /\ heap[p].live
    BY DEF Marked, Inv, Tokens, Held, Unreported
  <1>2. ASSUME NEW p \in Promise
        PROVE  /\ b(p) \in PromiseBox /\ b(p).live = heap[p].live
               /\ b(p).result = heap[p].result /\ b(p).subscribers = heap[p].subscribers
               /\ b(p).references = heap[p].references /\ b(p).internal = heap[p].internal
    <2>1. heap[p] \in PromiseBox
      BY <1>1
    <2> QED
      BY <2>1 DEF PromiseBox
  <1> HIDE DEF b
  <1> QED
    BY <1>1, <1>2 DEF MarkedWell

\* A report phase begins: it marks boxes and takes no token.
LEMMA MarkedStep ==
    ASSUME Inv, heap' = Marked, Types',
           UNCHANGED <<frame, join, slot, ready, stack, lost, timers, fdWaits, counters, owned,
                       activeJoins, joinLog>>
    PROVE  Inv'
  <1>1. MarkedWell(heap')
    BY MarkedIs
  <1>2. Tokens'
    <2>1. Held(heap', InternalOf(frame, join, slot), ExternalOf(frame, owned))
      BY <1>1, SameHolds DEF MarkedWell, Inv, Tokens
    <2> QED
      BY <2>1 DEF Tokens
  <1> QED
    BY <1>1, <1>2, FlagStep DEF MarkedWell

LEMMA PollIdleStep ==
    ASSUME Inv, PollIdle
    PROVE  Inv'
  <1>1. Types'
    <2>1. reports' \in [Promise -> Nat] /\ orphaned' \in [Promise -> Nat]
      BY DEF PollIdle, Inv, Types
    <2> QED
      BY <2>1 DEF Inv, Types, PollIdle, counters
  <1> QED
    BY <1>1, MarkedStep DEF PollIdle

\* A batch stays one as its records are taken.
LEMMA WithoutIsBatch ==
    ASSUME NEW b \in Batch, NEW p \in Promise
    PROVE  Without(b, p) \in Batch
  <1>1. ASSUME b.orphans[p] > 0
        PROVE  [b EXCEPT !.orphans[p] = @ - 1] \in Batch
    <2>1. b.orphans[p] - 1 \in Nat
      BY <1>1 DEF Batch
    <2> QED
      BY <2>1 DEF Batch
  <1>2. [b EXCEPT !.live = @ \ {p}] \in Batch
    BY DEF Batch
  <1> QED
    BY <1>1, <1>2 DEF Without

LEMMA SnapshotIsBatch == Inv => Snapshot \in Batch
  <1> SUFFICES ASSUME Inv
               PROVE  Snapshot \in Batch
    OBVIOUS
  <1>1. orphaned \in [Promise -> Nat] /\ Len(stack) \in Nat /\ Unreported \subseteq Promise
    BY DEF Inv, Types, Places, PlaceOK, PlaceTypes, Unreported
  <1> QED
    BY <1>1 DEF Snapshot, Batch

LEMMA ReportFirstStep ==
    ASSUME Inv, NEW p \in Promise, ReportFirst(p)
    PROVE  Inv'
  <1>1. Types'
    <2>1. reports' \in [Promise -> Nat] /\ orphaned' \in [Promise -> Nat]
      BY DEF ReportFirst, Inv, Types
    <2>2. batches' \in Seq(Batch)
      BY SnapshotIsBatch, WithoutIsBatch DEF ReportFirst, Inv, Types
    <2> QED
      BY <2>1, <2>2 DEF Inv, Types, ReportFirst, counters
  <1> QED
    BY <1>1, MarkedStep DEF ReportFirst

\* A report phase goes on: it touches no box.
LEMMA QuietStep ==
    ASSUME Inv, Types',
           UNCHANGED <<heap, frame, join, slot, ready, stack, lost, timers, fdWaits, counters,
                       owned, activeJoins, joinLog>>
    PROVE  Inv'
  <1>1. Tokens'
    BY DEF Inv, Tokens
  <1>2. heap' \in [Promise -> PromiseBox] /\ heap' = heap
    BY DEF Inv, Tokens, Held
  <1> QED
    BY <1>1, <1>2, FlagStep

LEMMA ListenerReturnsStep ==
    ASSUME Inv, ListenerReturns
    PROVE  Inv'
  <1> DEFINE n == Len(batches)
  <1>1. batches \in Seq(Batch) /\ n \in 1..n /\ n \in Nat /\ batches[n] \in Batch
    <2>1. batches # <<>> /\ batches \in Seq(Batch)
      BY DEF ListenerReturns, EndReports, ReportNext, InListener, Inv, Types
    <2> QED
      BY <2>1
  <1>2. CASE EndReports
    <2>1. batches' \in Seq(Batch)
      <3>1. batches' = SubSeq(batches, 1, n - 1)
        BY <1>2 DEF EndReports
      <3> QED
        BY <1>1, <3>1
    <2>2. Types'
      BY <1>2, <2>1 DEF Inv, Types, EndReports, counters
    <2> QED
      BY <1>2, <2>2, QuietStep DEF EndReports
  <1>3. ASSUME NEW p \in Promise, ReportNext(p)
        PROVE  Inv'
    <2>1. batches' \in Seq(Batch)
      <3>1. batches' = [batches EXCEPT ![n] = Without(batches[n], p)]
        BY <1>3 DEF ReportNext
      <3>2. Without(batches[n], p) \in Batch
        BY <1>1, WithoutIsBatch
      <3>3. n \in 1..Len(batches) /\ batches \in Seq(Batch)
        BY <1>1
      <3> HIDE DEF n
      <3>4. [batches EXCEPT ![n] = Without(batches[n], p)] \in Seq(Batch)
        BY <3>2, <3>3, ExceptSeq
      <3> QED
        BY <3>1, <3>4, Zenon
    <2>2. reports' \in [Promise -> Nat]
      BY <1>3 DEF ReportNext, Inv, Types
    <2>3. Types'
      BY <1>3, <2>1, <2>2 DEF Inv, Types, ReportNext, counters
    <2> QED
      BY <1>3, <2>3, QuietStep DEF ReportNext
  <1> QED
    BY <1>2, <1>3 DEF ListenerReturns

LEMMA PurgeStep ==
    ASSUME Inv, Purge
    PROVE  Inv'
  <1>0. /\ frame \in [FrameId -> FrameBox] /\ join \in [JoinId -> JoinBox]
        /\ joinLog \in [JoinId -> LogEntry]
        /\ \A f \in FrameId : frame[f].kind = "none" => frame[f] = NoFrame
        /\ \A j \in JoinId : JoinOK(frame, join, joinLog, joins, j)
        /\ \A f \in FrameId : FrameOK(frame, join, frames, f)
    BY DEF Inv, Types, Places, PlaceOK, PlaceTypes, Structure
  <1>1. /\ frame' \in [FrameId -> FrameBox]
        /\ \A f \in FrameId : /\ frame'[f].kind = frame[f].kind /\ frame'[f].input = frame[f].input
                              /\ frame'[f].output = frame[f].output /\ frame'[f].join = frame[f].join
                              /\ frame[f].kind = "none" => frame'[f] = NoFrame
    <2>1. ASSUME NEW f \in FrameId
          PROVE  LET g == [frame[f] EXCEPT !.cancelled = @ \/ frame[f].kind = "finallyAdopt"]
                 IN  /\ g \in FrameBox /\ g.kind = frame[f].kind /\ g.input = frame[f].input
                     /\ g.output = frame[f].output /\ g.join = frame[f].join
                     /\ frame[f].kind = "none" => g = NoFrame
      <3>1. frame[f] \in FrameBox
        BY <1>0
      <3>2. PICK c \in BOOLEAN : c = (frame[f].cancelled \/ frame[f].kind = "finallyAdopt")
        OBVIOUS
      <3> DEFINE g == [frame[f] EXCEPT !.cancelled = c]
      <3>3. /\ g \in FrameBox /\ g.kind = frame[f].kind /\ g.input = frame[f].input
            /\ g.output = frame[f].output /\ g.join = frame[f].join
        BY <3>1 DEF FrameBox
      <3>4. frame[f].kind = "none" => g = NoFrame
        BY <1>0, <3>1, <3>2 DEF NoFrame, FrameBox
      <3>5. [frame[f] EXCEPT !.cancelled = @ \/ frame[f].kind = "finallyAdopt"] = g
        BY <3>1, <3>2 DEF FrameBox
      <3> HIDE DEF g
      <3> QED
        BY <3>3, <3>4, <3>5
    <2>2. frame' = [f \in FrameId |-> [frame[f] EXCEPT !.cancelled =
                                          @ \/ frame[f].kind = "finallyAdopt"]]
      BY DEF Purge
    <2> QED
      BY <2>1, <2>2
  <1>2. ASSUME NEW j \in JoinId
        PROVE  LET s == Cancel(join[j])
               IN  /\ s \in JoinBox /\ s.kind = join[j].kind /\ s.output = join[j].output
                   /\ s.remaining = join[j].remaining
                   /\ join[j].kind = "none" => s = NoJoin
                   /\ join[j].kind # "none" => ~Counted(s)
    <2>0. join[j] \in JoinBox /\ (join[j].kind = "none" => join[j] = NoJoin)
      BY <1>0 DEF JoinOK
    <2>1. CASE join[j].kind \in {"all", "race"}
      <3> DEFINE s == [join[j] EXCEPT !.counted = FALSE]
      <3>1. Cancel(join[j]) = s
        BY <2>1 DEF Cancel
      <3>2. /\ s \in JoinBox /\ s.kind = join[j].kind /\ s.output = join[j].output
            /\ s.remaining = join[j].remaining /\ s.counted = FALSE
        BY <2>0 DEF JoinBox
      <3> HIDE DEF s
      <3> QED
        BY <2>1, <3>1, <3>2 DEF Counted
    <2>2. CASE join[j].kind \notin {"all", "race"}
      <3>1. PICK c \in BOOLEAN : c = (join[j].kind # "none")
        OBVIOUS
      <3> DEFINE s == [join[j] EXCEPT !.cancelled = c]
      <3>2. Cancel(join[j]) = s
        BY <2>2, <3>1 DEF Cancel
      <3>3. /\ s \in JoinBox /\ s.kind = join[j].kind /\ s.output = join[j].output
            /\ s.remaining = join[j].remaining /\ s.cancelled = c
        BY <2>0 DEF JoinBox
      <3>4. join[j].kind = "none" => s = NoJoin
        BY <2>0, <3>1 DEF NoJoin, JoinBox
      <3> HIDE DEF s
      <3> QED
        BY <2>2, <3>1, <3>2, <3>3, <3>4 DEF Counted
    <2> QED
      BY <2>1, <2>2
  <1>3. \A j \in JoinId : join'[j] = Cancel(join[j])
    BY DEF Purge
  <1>4. /\ join' \in [JoinId -> JoinBox]
        /\ \A j \in JoinId : /\ join'[j].kind = join[j].kind /\ join'[j].output = join[j].output
                             /\ join'[j].remaining = join[j].remaining
                             /\ join[j].kind = "none" => join'[j] = NoJoin
                             /\ join[j].kind # "none" => ~Counted(join'[j])
    <2>1. join' = [j \in JoinId |-> Cancel(join[j])]
      BY DEF Purge
    <2> QED
      BY <1>2, <1>3, <2>1
  <1>5. Tokens'
    <2>1. /\ InternalOf(frame', join', slot) = InternalOf(frame, join, slot)
          /\ ExternalOf(frame', owned) = ExternalOf(frame, owned)
      <3>1. \A f \in FrameId : /\ frame'[f].input = frame[f].input
                               /\ frame'[f].output = frame[f].output
        BY <1>1
      <3>2. \A j \in JoinId : join'[j].output = join[j].output
        BY <1>4
      <3> QED
        BY <3>1, <3>2, SameTokens
    <2> QED
      BY <2>1 DEF Inv, Tokens, Purge
  <1>6. Places'
    <2>1. PlaceOK(heap, frame, ready, <<>>, lost)
      BY DEF Purge, Inv, Places
    <2>2. PlaceOK(heap, frame', <<>>, <<>>, lost \cup {ready[i] : i \in 1..Len(ready)})
      BY <1>1, <2>1, PlacePurge
    <2>3. /\ heap' = heap /\ ready' = <<>> /\ stack' = <<>>
          /\ lost' = lost \cup {ready[i] : i \in 1..Len(ready)}
      BY DEF Purge
    <2> QED
      BY <2>2, <2>3 DEF Places
  <1>7. lost' \subseteq 1..frames /\ lost' \subseteq FrameId
    <2> SUFFICES ASSUME NEW i \in 1..Len(ready)
                 PROVE  ready[i] \in 1..frames /\ ready[i] \in FrameId
      BY DEF Purge, Inv, Structure, Types
    <2>1. ready \in Seq(FrameId) /\ Len(ready) \in Nat
      BY DEF Inv, Places, PlaceOK, PlaceTypes
    <2>2. ready[i] \in FrameId
      BY <2>1
    <2>3. PlaceSays(heap, frame, ready, stack, lost, ready[i])
      BY <2>2, PlaceFacts DEF Inv, Places
    <2>4. Count(ready, ready[i]) > 0
      BY <2>1, CountType
    <2>5. frame[ready[i]].kind # "none"
      BY <2>3, <2>4 DEF PlaceSays, Queued
    <2>6. ready[i] <= frames /\ frames \in Nat
      BY <1>0, <2>2, <2>5 DEF FrameOK, Inv, Types
    <2> QED
      BY <2>2, <2>6, Domains DEF FrameId
  <1>8. joinLog' \in [JoinId -> LogEntry] /\ \A j \in JoinId : joinLog'[j].left = joinLog[j].left
    <2>1. joinLog' = [j \in JoinId |->
                        [joinLog[j] EXCEPT !.cancelled = @ \/ join'[j].cancelled]]
      BY DEF Purge
    <2>2. ASSUME NEW j \in JoinId
          PROVE  LET l == [joinLog[j] EXCEPT !.cancelled = @ \/ join'[j].cancelled]
                 IN  l \in LogEntry /\ l.left = joinLog[j].left
      <3>1. joinLog[j] \in LogEntry
        BY <1>0
      <3>2. PICK c \in BOOLEAN : c = (joinLog[j].cancelled \/ join'[j].cancelled)
        OBVIOUS
      <3>3. [joinLog[j] EXCEPT !.cancelled = @ \/ join'[j].cancelled]
               = [joinLog[j] EXCEPT !.cancelled = c]
        BY <3>1, <3>2 DEF LogEntry
      <3>4. [joinLog[j] EXCEPT !.cancelled = c] \in LogEntry
            /\ [joinLog[j] EXCEPT !.cancelled = c].left = joinLog[j].left
        BY <3>1 DEF LogEntry
      <3> QED
        BY <3>3, <3>4
    <2> QED
      BY <2>1, <2>2
  <1>9. Structure'
    <2>1. ASSUME NEW f \in FrameId
          PROVE  FrameOK(frame', join', frames', f)
      <3>1. FrameOK(frame, join, frames, f) /\ frame[f] \in FrameBox /\ frames' = frames
        BY <1>0 DEF Purge
      <3>2. frame[f].join # Null => frame[f].join \in JoinId
        BY <3>1 DEF FrameBox
      <3> QED
        BY <1>1, <1>4, <3>1, <3>2 DEF FrameOK
    <2>2. ASSUME NEW j \in JoinId
          PROVE  JoinOK(frame', join', joinLog', joins', j)
      <3>1. Children(frame', j) = Children(frame, j)
        BY <1>1 DEF Children
      <3>2. JoinOK(frame, join, joinLog, joins, j) /\ joins' = joins
        BY <1>0 DEF Purge
      <3> QED
        BY <1>4, <1>8, <3>1, <3>2 DEF JoinOK
    <2>3. Counting(join') = {}
      BY <1>4 DEF Counting
    <2>4. activeJoins' = Cardinality(Counting(join')) /\ frames' = frames
      BY <2>3, FS_EmptySet DEF Purge
    <2> QED
      BY <1>7, <2>1, <2>2, <2>4 DEF Structure
  <1>10. Types'
    <2>1. purges' \in 0..MaxPurges
      BY Domains DEF Purge, Inv, Types
    <2> QED
      BY <1>4, <1>7, <1>8, <2>1 DEF Inv, Types, Purge, reporting
  <1>11. Lives'
    BY DEF Inv, Lives, Purge
  <1> QED
    BY <1>5, <1>6, <1>9, <1>10, <1>11 DEF Inv

-----------------------------------------------------------------------------
(* Subscribing.                                                            *)

LEMMA LateType ==
    ASSUME NEW h, NEW P \in SUBSET Promise
    PROVE  Late(h, P) \in Nat
  <1>1. {q \in P : h[q].reported /\ ~h[q].handled} \in SUBSET Promise
    OBVIOUS
  <1> QED
    BY <1>1, Domains, FS_Subset, FS_CardinalityType DEF Late

LEMMA FreshFrameIsFree ==
    ASSUME Inv, NEW f \in FreshFrame
    PROVE  /\ f \in FrameId /\ f = frames + 1 /\ frame[f] = NoFrame /\ frame[f].kind = "none"
           /\ f \notin lost /\ \A c \in FrameId : frame[c].kind # "none" => c < f
  <1>1. f \in FrameId /\ f = frames + 1 /\ frames \in Nat /\ f \in Nat
    BY Domains DEF FreshFrame, Inv, Types
  <1>2. \A c \in FrameId : frame[c].kind # "none" => c <= frames
    BY DEF Inv, Structure, FrameOK
  <1>3. frame[f].kind = "none"
    BY <1>1, <1>2
  <1>4. frame[f] = NoFrame
    BY <1>1, <1>3 DEF Inv, Places, PlaceOK, PlaceTypes
  <1>5. f \notin lost
    BY <1>1 DEF Inv, Structure
  <1>6. \A c \in FrameId : frame[c].kind # "none" => c < f
    BY <1>1, <1>2, Domains
  <1> QED
    BY <1>1, <1>3, <1>4, <1>5, <1>6

\* A frame that is no child is made.
LEMMA MakeMove ==
    ASSUME Inv, NEW f \in FreshFrame, NEW box \in FrameBox, box.kind # "none", box.kind # "child",
           box.join = Null,
           box.output \in Promise <=> box.kind \in {"chain", "adopt", "finallyAdopt"},
           frame' = [frame EXCEPT ![f] = box], frames' = f,
           UNCHANGED <<join, joinLog, activeJoins, joins, lost>>
    PROVE  Structure'
  <1>0. f \in FrameId /\ f = frames + 1 /\ frames \in Nat /\ frame[f] = NoFrame
    BY FreshFrameIsFree DEF Inv, Types
  <1>1. /\ frame \in [FrameId -> FrameBox]
        /\ frame'[f] = box /\ \A c \in FrameId : c # f => frame'[c] = frame[c]
    BY <1>0 DEF Inv, Places, PlaceOK, PlaceTypes
  <1>2. ASSUME NEW c \in FrameId
        PROVE  FrameOK(frame', join', frames', c)
    <2>1. CASE c = f
      BY <1>0, <1>1, <2>1 DEF FrameOK
    <2>2. CASE c # f
      <3>1. FrameOK(frame, join, frames, c) /\ frame'[c] = frame[c]
        BY <1>1, <2>2 DEF Inv, Structure
      <3>2. c \in Nat
        BY Domains
      <3> QED
        BY <1>0, <3>1, <3>2 DEF FrameOK
    <2> QED
      BY <2>1, <2>2
  <1>3. ASSUME NEW j \in JoinId
        PROVE  JoinOK(frame', join', joinLog', joins', j)
    <2>1. j # Null
      BY Domains
    <2>2. Children(frame', j) = Children(frame, j)
      BY <1>0, <1>1, <2>1, BoxTypes DEF Children
    <2> QED
      BY <2>2 DEF Inv, Structure, JoinOK
  <1>4. lost' \subseteq 1..frames'
    BY <1>0 DEF Inv, Structure
  <1> QED
    BY <1>2, <1>3, <1>4 DEF Inv, Structure, Counting, Counted

\* Compiled code gives one token of p to the runtime.
LEMMA Given ==
    ASSUME NEW ow \in [Promise -> Nat], NEW p \in Promise, ow[p] > 0, ow = owned
    PROVE  Handed({p}, {}) = Less(ow, p)
  BY DEF Handed, Less

\* The tokens before a frame takes one of its input: h may hold one more promise
\* than heap, ow counts its token.
Taking(h, fr, jn, sl, ow, f, box) ==
    LET g == [fr EXCEPT ![f] = box]
    IN  /\ Less(ow, box.input) \in [Promise -> Nat]
        /\ h[box.input].live
        /\ Held(Subscribed(h, box.input, f), InternalOf(g, jn, sl),
                ExternalOf(g, Less(ow, box.input)))

LEMMA ObserveTokens ==
    ASSUME NEW h, NEW ow \in [Promise -> Nat], NEW I, NEW f \in FrameId, NEW box \in FrameBox,
           NEW fr \in [FrameId -> FrameBox], fr[f] = NoFrame, NEW jn, NEW sl,
           box.input \in Promise, ow[box.input] > 0,
           I = IF box.output \in Promise THEN More(InternalOf(fr, jn, sl), box.output)
               ELSE InternalOf(fr, jn, sl),
           Held(h, I, ExternalOf(fr, ow))
    PROVE  Taking(h, fr, jn, sl, ow, f, box)
  <1> DEFINE g == [fr EXCEPT ![f] = box]
             p == box.input
             l == Less(ow, p)
             E == ExternalOf(fr, ow)
  <1>1. /\ E[p] > 0 /\ l \in [Promise -> Nat] /\ ExternalOf(fr, l) = Less(E, p)
    BY OwnedChanges
  <1>2. box.output \in Promise \cup {Null}
    BY DEF FrameBox
  <1> HIDE DEF l
  <1>3. /\ ExternalOf(g, l) = More(ExternalOf(fr, l), p)
        /\ box.output \in Promise => InternalOf(g, jn, sl)
                                        = More(InternalOf(fr, jn, sl), box.output)
        /\ box.output \notin Promise => InternalOf(g, jn, sl) = InternalOf(fr, jn, sl)
    <2>1. MadeTokens(fr, [fr EXCEPT ![f] = box], box.input, box.output, jn, sl, l)
      BY <1>1, <1>2, FrameMade
    <2> QED
      BY <2>1 DEF MadeTokens
  <1>4. InternalOf(g, jn, sl) = I
    BY <1>3
  <1>5. E \in [Promise -> Nat]
    BY HolderTypes
  <1>6. More(Less(E, p), p) = E
    <2> HIDE DEF E
    <2>1. \A n \in Nat : n - 1 + 1 = n
      OBVIOUS
    <2> QED
      BY <1>5, <2>1 DEF More, Less
  <1>7. ExternalOf(g, l) = E
    BY <1>1, <1>3, <1>6
  <1>8. h[p].live
    <2>1. I[p] \in Nat /\ E[p] \in Nat /\ (h[p].live <=> I[p] + E[p] > 0)
      BY HeldFacts
    <2> QED
      BY <1>1, <2>1
  <1>9. Held(Subscribed(h, p, f), I, E)
    BY <1>8, HeldSubscribe
  <1> QED
    BY <1>1, <1>4, <1>7, <1>8, <1>9 DEF l, Taking

\* What a frame box may look like that is no child.
Outward(box) ==
    /\ box \in FrameBox /\ box.kind # "none" /\ box.kind # "child" /\ box.join = Null
    /\ box.input \in Promise
    /\ box.output \in Promise <=> box.kind \in {"chain", "adopt", "finallyAdopt"}

\* The frame in box is about to take a token of its input: h may hold one more
\* promise than heap, ow counts its token and I the one on the output.
TokenGiven(h, box, made, ow, I) ==
    /\ ow \in [Promise -> Nat] /\ ow[box.input] > 0
    /\ Handed({box.input}, made) = Less(ow, box.input)
    /\ Held(h, I, ExternalOf(frame, ow))
    /\ I = IF box.output \in Promise THEN More(InternalOf(frame, join, slot), box.output)
           ELSE InternalOf(frame, join, slot)

Extends(h) ==
    /\ PlaceOK(h, frame, ready, stack, lost)
    /\ born' \in 0..MaxPromises
    /\ \A p \in Promise : h[p].live => p <= born'
    /\ \A p \in Promise : heap[p].live => h[p].live

LEMMA ObserveStep ==
    ASSUME Inv, NEW f \in FreshFrame, NEW box, Outward(box), NEW h, NEW made,
           Observe(h, f, box, made), NEW ow, NEW I, TokenGiven(h, box, made, ow, I), Extends(h)
    PROVE  Inv'
  <1> USE DEF Outward, TokenGiven, Extends
  <1> DEFINE p == box.input
             k == Subscribed(h, p, f)
             g == [frame EXCEPT ![f] = box]
  <1>0. /\ f \in FrameId /\ f = frames + 1 /\ frame[f] = NoFrame /\ frame[f].kind = "none"
        /\ f \notin lost /\ \A c \in FrameId : frame[c].kind # "none" => c < f
        /\ frame \in [FrameId -> FrameBox]
    BY FreshFrameIsFree DEF Inv, Places, PlaceOK, PlaceTypes
  <1>1. /\ frames' = f /\ frame' = g /\ heap' = k
        /\ ready' = ready \o WokenAtOnce(h, p, f)
        /\ pendingHandled' = pendingHandled + Late(h, {p})
        /\ owned' = Less(ow, p)
        /\ observed' \subseteq observed \cup {p}
        /\ UNCHANGED <<join, slot, stack, timers, fdWaits, activeJoins, orphaned, batches,
                       joins, purges, resolvable, reports, notices, joinLog, forced, lost>>
    BY DEF Observe
  <1>2. /\ Less(ow, p) \in [Promise -> Nat]
        /\ h[p].live
        /\ Held(k, InternalOf(g, join, slot), ExternalOf(g, Less(ow, p)))
    <2>1. Taking(h, frame, join, slot, ow, f, box)
      BY <1>0, ObserveTokens
    <2> QED
      BY <2>1 DEF Taking
  <1>3. /\ k \in [Promise -> PromiseBox]
        /\ \A q \in Promise : q # p => k[q] = h[q]
        /\ k[p].live = h[p].live /\ k[p].result = h[p].result
        /\ k[p].subscribers = IF Pending(h, p) THEN Append(h[p].subscribers, f)
                              ELSE h[p].subscribers
    <2>1. Held(k, I, ExternalOf(frame, ow)) /\ Observed(h, k, p, f)
      BY <1>0, <1>2, HeldSubscribe
    <2> HIDE DEF k
    <2> QED
      BY <2>1 DEF Held, Observed
  <1> HIDE DEF k
  <1>4. Tokens'
    BY <1>1, <1>2 DEF Tokens
  <1>5. Places'
    <2>1. PlaceOK(k, g, ready \o WokenAtOnce(h, p, f), stack, lost)
      BY <1>0, <1>3, PlaceAdd
    <2> HIDE DEF g
    <2> QED
      BY <1>1, <2>1 DEF Places
  <1>6. Structure'
    BY <1>1, MakeMove
  <1>7. Types'
    <2>1. frames' \in 0..MaxFrames
      BY <1>0, <1>1, Domains DEF FrameId
    <2>2. pendingHandled' \in Nat
      <3>1. Late(h, {p}) \in Nat
        BY LateType
      <3>2. pendingHandled \in Nat
        BY Zenon DEF Inv, Types
      <3>3. pendingHandled' = pendingHandled + Late(h, {p})
        BY <1>1, Zenon
      <3> HIDE DEF p
      <3> QED
        BY <3>1, <3>2, <3>3, Z3
    <2>3. owned' \in [Promise -> Nat] /\ observed' \subseteq Promise
      BY <1>1, <1>2 DEF Inv, Types
    <2> QED
      BY <1>1, <2>1, <2>2, <2>3 DEF Inv, Types
  <1>8. Lives'
    <2>1. \A q \in Promise : k[q].live = h[q].live
      BY <1>3
    <2> HIDE DEF g
    <2> QED
      BY <1>1, <2>1 DEF Inv, Types, Lives
  <1> QED
    BY <1>4, <1>5, <1>6, <1>7, <1>8 DEF Inv

PlainBox(box, p) ==
    box \in FrameBox /\ box.input = p /\ box.output = Null /\ box.join = Null

\* A frame that has its input only.
LEMMA PlainObserve ==
    ASSUME Inv, NEW p \in Promise, NEW f \in FreshFrame, Has(p),
           NEW box, box.kind \in {"await", "detach", "detachSlot"}, PlainBox(box, p),
           Observe(heap, f, box, {}), born' = born
    PROVE  Inv'
  <1>1. /\ box \in FrameBox /\ box.input = p /\ box.output = Null /\ box.join = Null
    BY DEF PlainBox
  <1>2. owned \in [Promise -> Nat] /\ owned[p] > 0
    BY DEF Inv, Types, Has
  <1>3. Handed({p}, {}) = Less(owned, p)
    BY <1>2, Given
  <1>4. Null \notin Promise
    BY Domains
  <1>5. Held(heap, InternalOf(frame, join, slot), ExternalOf(frame, owned))
    BY DEF Inv, Tokens
  <1>6. /\ born' \in 0..MaxPromises /\ PlaceOK(heap, frame, ready, stack, lost)
        /\ \A q \in Promise : heap[q].live => q <= born'
    BY DEF Inv, Types, Lives, Places
  <1> QED
    <2>1. Outward(box)
      BY <1>1, <1>4 DEF Outward
    <2>2. TokenGiven(heap, box, {}, owned, InternalOf(frame, join, slot))
      BY <1>1, <1>2, <1>3, <1>4, <1>5 DEF TokenGiven
    <2>3. Extends(heap)
      BY <1>6 DEF Extends
    <2> QED
      BY <2>1, <2>2, <2>3, ObserveStep

\* A frame that will settle out.
LEMMA AdoptObserve ==
    ASSUME Inv, NEW p \in Promise, NEW f \in FreshFrame, Has(p), NEW out \in Writable,
           NEW box \in FrameBox, box.kind \in {"adopt", "finallyAdopt"},
           box.input = p, box.output = out, box.join = Null,
           Observe(OutputRef(heap, out), f, box, {}), born' = born
    PROVE  Inv'
  <1> DEFINE h == RetainInternal(heap, out)
  <1>1. out \in Promise /\ heap[out].live
    BY WritableLives
  <1>2. owned \in [Promise -> Nat] /\ owned[p] > 0
    BY DEF Inv, Types, Has
  <1>3. Handed({p}, {}) = Less(owned, p)
    BY <1>2, Given
  <1>4. /\ Held(h, More(InternalOf(frame, join, slot), out), ExternalOf(frame, owned))
        /\ SameHeap(heap, h)
    BY <1>1, HeldRetain DEF Inv, Tokens
  <1>5. Observe(h, f, box, {})
    BY DEF OutputRef
  <1> HIDE DEF h
  <1>6. h \in [Promise -> PromiseBox]
    BY <1>4 DEF Held
  <1>7. \A q \in Promise : /\ h[q].live = heap[q].live /\ h[q].result = heap[q].result
                           /\ h[q].subscribers = heap[q].subscribers
    BY <1>4 DEF SameHeap, SameData
  <1>8. PlaceOK(h, frame, ready, stack, lost)
    BY <1>6, <1>7, PlaceHeap DEF Inv, Places
  <1>9. /\ born' \in 0..MaxPromises
        /\ \A q \in Promise : /\ h[q].live => q <= born'
                              /\ heap[q].live => h[q].live
    BY <1>7 DEF Inv, Types, Lives
  <1> QED
    <2>1. Outward(box)
      BY <1>1 DEF Outward
    <2>2. TokenGiven(h, box, {}, owned, More(InternalOf(frame, join, slot), out))
      BY <1>1, <1>2, <1>3, <1>4 DEF TokenGiven
    <2>3. Extends(h)
      BY <1>8, <1>9 DEF Extends
    <2> QED
      BY <1>5, <2>1, <2>2, <2>3, ObserveStep

\* The box of a new promise that a frame or a combinator will settle.
OutputBorn(q, b, h, o) ==
    /\ o \in [Promise -> Nat] /\ owned[q] = 0 /\ ~heap[q].live
    /\ Held(h, More(InternalOf(frame, join, slot), q), ExternalOf(frame, o))
    /\ PlaceOK(h, frame, ready, stack, lost)
    /\ SameData(b, h[q])
    /\ \A p \in Promise : p # q => h[p] = heap[p]

LEMMA BirthOfOutput ==
    ASSUME Inv, NEW q \in FreshPromise, NEW b \in PromiseBox, Holds(b, 0, 1), b.live,
           b.subscribers = <<>>
    PROVE  OutputBorn(q, b, RetainInternal([heap EXCEPT ![q] = b], q), [owned EXCEPT ![q] = 1])
  <1> DEFINE k == [heap EXCEPT ![q] = b]
             h == RetainInternal(k, q)
             o == [owned EXCEPT ![q] = 1]
  <1>1. q \in Promise /\ ~heap[q].live /\ owned \in [Promise -> Nat]
    BY FreshIsDead DEF Inv, Types
  <1>2. Unheld(frame, join, slot, owned, q)
    BY <1>1, DeadIsUnheld DEF Inv, Tokens
  <1>3. /\ o \in [Promise -> Nat]
        /\ Held(k, InternalOf(frame, join, slot), ExternalOf(frame, o))
    <2>1. HeldBy(k, frame, join, slot, o)
      BY <1>1, HeldBirth DEF Inv, Tokens
    <2> QED
      BY <2>1 DEF HeldBy
  <1>4. /\ heap \in [Promise -> PromiseBox]
        /\ k \in [Promise -> PromiseBox] /\ k[q] = b /\ \A p \in Promise : p # q => k[p] = heap[p]
    BY <1>1 DEF Inv, Tokens, Held
  <1> HIDE DEF k
  <1>5. h = [k EXCEPT ![q] = RetainBox(k[q])]
    BY <1>1, <1>4, RetainIs
  <1>6. /\ Held(h, More(InternalOf(frame, join, slot), q), ExternalOf(frame, o))
        /\ SameHeap(k, h)
    BY <1>1, <1>3, <1>4, HeldRetain
  <1>7. SameData(b, h[q]) /\ \A p \in Promise : p # q => h[p] = heap[p]
    BY <1>1, <1>4, <1>5, <1>6 DEF SameHeap
  <1> HIDE DEF h
  <1>8. PlaceOK(h, frame, ready, stack, lost)
    <2>1. h \in [Promise -> PromiseBox]
      BY <1>6 DEF Held
    <2>2. h[q].subscribers = <<>> /\ \A f \in FrameId : frame[f].input # q
      BY <1>2, <1>7 DEF SameData, Unheld
    <2> QED
      BY <1>7, <2>1, <2>2, PlaceHeap DEF Inv, Places
  <1>9. owned[q] = 0
    BY <1>2 DEF Unheld
  <1> QED
    BY <1>1, <1>3, <1>6, <1>7, <1>8, <1>9 DEF h, k, OutputBorn

LEMMA ChainStep ==
    ASSUME Inv, NEW p \in Promise, NEW f \in FreshFrame, NEW q \in FreshPromise,
           NEW handles \in (SUBSET Settlement) \ {{}}, Chain(p, f, q, handles)
    PROVE  Inv'
  <1> DEFINE h == RetainInternal([heap EXCEPT ![q] = NewBox], q)
             o == [owned EXCEPT ![q] = 1]
             box == [NoFrame EXCEPT !.kind = "chain", !.input = p, !.output = q,
                                    !.handles = handles]
  <1>1. Has(p) /\ born' = q /\ Observe(h, f, box, {q})
    BY DEF Chain, OutputRef
  <1>2. /\ box \in FrameBox /\ box.kind = "chain" /\ box.input = p /\ box.output = q
        /\ box.join = Null
    <2>1. q \in Promise
      BY FreshIsDead
    <2> QED
      BY <2>1 DEF NoFrame, FrameBox, FrameKinds, Settlement
  <1>3. NewBox.live /\ NewBox.subscribers = <<>>
    BY DEF NewBox, NoBox
  <1>4. /\ o \in [Promise -> Nat] /\ owned[q] = 0 /\ ~heap[q].live
        /\ Held(h, More(InternalOf(frame, join, slot), q), ExternalOf(frame, o))
        /\ PlaceOK(h, frame, ready, stack, lost)
        /\ SameData(NewBox, h[q])
        /\ \A c \in Promise : c # q => h[c] = heap[c]
    <2>1. OutputBorn(q, NewBox, h, o)
      BY <1>3, NoBoxFacts, BirthOfOutput
    <2> HIDE DEF h, o
    <2> QED
      BY <2>1 DEF OutputBorn
  <1>5. /\ q \in Promise /\ q = born + 1 /\ born \in Nat /\ owned \in [Promise -> Nat]
        /\ owned[p] > 0 /\ p # q
    BY SMTT(30), <1>1, <1>4, FreshIsDead DEF Has, Inv, Types
  <1>6. o[p] > 0 /\ Handed({p}, {q}) = Less(o, p)
    BY <1>5 DEF Handed, Less
  <1>7. born' \in 0..MaxPromises
    BY <1>1, <1>5, Domains DEF Promise
  <1> HIDE DEF h, o, box
  <1>8. ASSUME NEW c \in Promise
        PROVE  (h[c].live => c <= born') /\ (heap[c].live => h[c].live)
    <2>1. CASE c = q
      BY <1>1, <1>4, <1>5, <2>1, Domains
    <2>2. CASE c # q
      BY <1>1, <1>4, <1>5, <2>2, Domains DEF Inv, Lives
    <2> QED
      BY <2>1, <2>2
  <1> QED
    <2>1. Outward(box)
      BY <1>2, <1>5 DEF Outward
    <2>2. TokenGiven(h, box, {q}, o, More(InternalOf(frame, join, slot), q))
      BY <1>2, <1>4, <1>5, <1>6 DEF TokenGiven
    <2>3. Extends(h)
      BY <1>4, <1>7, <1>8 DEF Extends
    <2> QED
      BY <1>1, <2>1, <2>2, <2>3, ObserveStep

LEMMA SubscribeStep == Inv /\ Subscribe => Inv'
  <1> SUFFICES ASSUME Inv, NEW p \in Promise, NEW f \in FreshFrame,
                      \/ Await(p, f)
                      \/ \E kind \in {"detach", "detachSlot"} : Detach(p, f, kind)
                      \/ \E q \in FreshPromise, handles \in (SUBSET Settlement) \ {{}} :
                            Chain(p, f, q, handles)
                      \/ \E out \in Promise : Adopt(out, p, f)
                      \/ \E out \in Promise, r \in Settlement : FinallyAdopt(out, p, f, r)
               PROVE  Inv'
    BY DEF Subscribe
  <1>1. CASE Await(p, f)
    <2> DEFINE box == [NoFrame EXCEPT !.kind = "await", !.input = p]
    <2>1. Has(p) /\ born' = born /\ Observe(heap, f, box, {})
      BY <1>1, Zenon DEF Await
    <2>2. PlainBox(box, p) /\ box.kind = "await"
      BY DEF PlainBox, NoFrame, FrameBox, FrameKinds, Settlement
    <2> HIDE DEF box
    <2> QED
      BY <2>1, <2>2, PlainObserve
  <1>2. CASE \E kind \in {"detach", "detachSlot"} : Detach(p, f, kind)
    <2>1. PICK kind \in {"detach", "detachSlot"} : Detach(p, f, kind)
      BY <1>2
    <2> DEFINE box == [NoFrame EXCEPT !.kind = kind, !.input = p]
    <2>2. Has(p) /\ born' = born /\ Observe(heap, f, box, {})
      BY <2>1, Zenon DEF Detach
    <2>3. PlainBox(box, p) /\ box.kind = kind
      BY DEF PlainBox, NoFrame, FrameBox, FrameKinds, Settlement
    <2> HIDE DEF box
    <2> QED
      BY <2>2, <2>3, PlainObserve
  <1>3. CASE \E q \in FreshPromise, handles \in (SUBSET Settlement) \ {{}} :
                Chain(p, f, q, handles)
    BY <1>3, ChainStep
  <1>4. CASE \E out \in Promise : Adopt(out, p, f)
    <2>1. PICK out \in Promise : Adopt(out, p, f)
      BY <1>4
    <2> DEFINE box == [NoFrame EXCEPT !.kind = "adopt", !.input = p, !.output = out]
    <2>2. /\ out \in Writable /\ Has(p) /\ born' = born
          /\ Observe(OutputRef(heap, out), f, box, {})
      BY <2>1, Zenon DEF Adopt
    <2>3. /\ box \in FrameBox /\ box.kind = "adopt" /\ box.input = p /\ box.output = out
          /\ box.join = Null
      BY DEF NoFrame, FrameBox, FrameKinds, Settlement
    <2> HIDE DEF box
    <2> QED
      BY <2>2, <2>3, AdoptObserve
  <1>5. CASE \E out \in Promise, r \in Settlement : FinallyAdopt(out, p, f, r)
    <2>1. PICK out \in Promise, r \in Settlement : FinallyAdopt(out, p, f, r)
      BY <1>5
    <2> DEFINE box == [NoFrame EXCEPT !.kind = "finallyAdopt", !.input = p, !.output = out,
                                      !.original = r]
    <2>2. /\ out \in Writable /\ Has(p) /\ born' = born
          /\ Observe(OutputRef(heap, out), f, box, {})
      BY <2>1, Zenon DEF FinallyAdopt
    <2>3. /\ box \in FrameBox /\ box.kind = "finallyAdopt" /\ box.input = p /\ box.output = out
          /\ box.join = Null
      BY DEF NoFrame, FrameBox, FrameKinds, Settlement
    <2> HIDE DEF box
    <2> QED
      BY <2>2, <2>3, AdoptObserve
  <1> QED
    BY <1>1, <1>2, <1>3, <1>4, <1>5

-----------------------------------------------------------------------------
(* Resuming.                                                               *)

\* What is known of the continuation at the head of the queue.
TakenSays ==
    /\ Taken \in FrameId /\ Box \in FrameBox /\ Box.kind # "none"
    /\ Box.input \in Promise /\ heap[Box.input].live
    /\ ~Pending(heap, Box.input) /\ Outcome \in Settlement
    /\ Box.output \in Promise <=> Box.kind \in {"chain", "adopt", "finallyAdopt"}
    /\ Box.join # Null <=> Box.kind = "child"
    /\ PlaceOK(heap, [frame EXCEPT ![Taken] = NoFrame], Tail(ready), stack, lost)
    /\ GoneTokens(frame, [frame EXCEPT ![Taken] = NoFrame], Box.input, Box.output,
                  join, slot, owned)

LEMMA TakenFacts ==
    ASSUME Inv, ready # <<>>
    PROVE  TakenSays
  <1>0. /\ ready \in Seq(FrameId) /\ frame \in [FrameId -> FrameBox]
        /\ PlaceOK(heap, frame, ready, stack, lost) /\ owned \in [Promise -> Nat]
        /\ Held(heap, InternalOf(frame, join, slot), ExternalOf(frame, owned))
    BY DEF Inv, Places, PlaceOK, PlaceTypes, Types, Tokens
  <1>1. Taken \in FrameId /\ Len(ready) > 0 /\ Taken = ready[1] /\ Len(ready) \in Nat
    BY <1>0, CountTail DEF Taken
  <1>2. Count(ready, Taken) > 0
    <2>1. 1 \in 1..Len(ready)
      BY <1>1
    <2> QED
      BY <1>1, <2>1, CountType
  <1>3. PlaceSays(heap, frame, ready, stack, lost, Taken)
    BY <1>0, <1>1, PlaceFacts
  <1>4. /\ Box.kind # "none" /\ Box.input \in Promise /\ ~Pending(heap, Box.input)
    <2>1. Queued(ready, stack, Taken) > 0
      BY <1>2, <1>3 DEF PlaceSays, Queued
    <2> QED
      BY <1>3, <2>1 DEF PlaceSays, Box
  <1>5. GoneTokens(frame, [frame EXCEPT ![Taken] = NoFrame], Box.input, Box.output,
                   join, slot, owned)
    BY <1>0, <1>1, <1>4, FrameGone DEF Box
  <1>6. heap[Box.input].live
    <2>1. ExternalOf(frame, owned)[Box.input] > 0
      BY <1>5 DEF GoneTokens
    <2>2. /\ heap[Box.input].live <=> InternalOf(frame, join, slot)[Box.input]
                                       + ExternalOf(frame, owned)[Box.input] > 0
          /\ InternalOf(frame, join, slot)[Box.input] \in Nat
          /\ ExternalOf(frame, owned)[Box.input] \in Nat
      BY <1>0, <1>4, HeldFacts
    <2> QED
      BY <2>1, <2>2
  <1>7. PlaceOK(heap, [frame EXCEPT ![Taken] = NoFrame], Tail(ready), stack, lost)
    BY <1>0, PlaceDone DEF Taken
  <1>8. /\ Box.output \in Promise <=> Box.kind \in {"chain", "adopt", "finallyAdopt"}
        /\ Box.join # Null <=> Box.kind = "child"
    BY <1>1 DEF Inv, Structure, FrameOK, Box
  <1>9. Outcome \in Settlement
    <2>1. heap[Box.input] \in PromiseBox
      BY <1>0, <1>4 DEF Held
    <2> QED
      BY <1>4, <2>1 DEF PromiseBox, Pending, Outcome
  <1>10. Box \in FrameBox
    BY <1>0, <1>1 DEF Box
  <1> QED
    BY <1>1, <1>4, <1>5, <1>6, <1>7, <1>8, <1>9, <1>10 DEF TakenSays

LEMMA ResumeAwaitStep ==
    ASSUME Inv, ResumeAwait
    PROVE  Inv'
  <1> DEFINE g == [frame EXCEPT ![Taken] = NoFrame]
             p == Box.input
  <1>1. TakenSays /\ Box.kind = "await"
    BY TakenFacts DEF ResumeAwait, Resuming
  <1>2. /\ frame' = g /\ ready' = Tail(ready) /\ owned' = More(owned, p)
        /\ UNCHANGED <<heap, join, slot, stack, timers, fdWaits, activeJoins,
                       reporting, counters, resolvable, ghost>>
    BY DEF ResumeAwait, FreeFrame, More
  <1>3. p \in Promise /\ Box.output \notin Promise /\ owned \in [Promise -> Nat]
    BY <1>1 DEF TakenSays, Inv, Types
  <1>4. Tokens'
    <2>1. GoneTokens(frame, g, p, Box.output, join, slot, owned)
      BY <1>1 DEF TakenSays
    <2>2. /\ More(owned, p) \in [Promise -> Nat]
          /\ ExternalOf(g, More(owned, p)) = More(ExternalOf(g, owned), p)
      BY <1>3, OwnedChanges
    <2>3. ExternalOf(frame, owned) \in [Promise -> Nat]
      BY <1>3, HolderTypes
    <2>4. More(Less(ExternalOf(frame, owned), p), p) = ExternalOf(frame, owned)
      <3>1. \A n \in Nat : n - 1 + 1 = n
        OBVIOUS
      <3> QED
        BY <2>3, <3>1 DEF More, Less
    <2> HIDE DEF g
    <2>5. /\ ExternalOf(g, More(owned, p)) = ExternalOf(frame, owned)
          /\ InternalOf(g, join, slot) = InternalOf(frame, join, slot)
      BY <1>3, <2>1, <2>2, <2>4 DEF GoneTokens
    <2> QED
      BY <1>2, <2>5 DEF Inv, Tokens
  <1>5. Places'
    BY <1>1, <1>2 DEF TakenSays, Places, ghost
  <1>6. Structure'
    BY <1>1, <1>2, EndMove DEF TakenSays, FreeFrame, counters, ghost, Box
  <1>7. Types'
    <2>1. owned' \in [Promise -> Nat]
      BY <1>2, <1>3 DEF More
    <2> QED
      BY <1>2, <2>1 DEF Inv, Types, counters, ghost, reporting
  <1>8. Lives'
    BY <1>2 DEF Inv, Lives, counters
  <1> QED
    BY <1>4, <1>5, <1>6, <1>7, <1>8 DEF Inv

LEMMA ResumeChainStep ==
    ASSUME Inv, ResumeChain
    PROVE  Inv'
  <1>1. /\ ready # <<>> /\ frame[Head(ready)].kind = "chain"
        /\ ready' = Tail(ready) /\ stack' = Append(stack, Head(ready))
        /\ UNCHANGED <<heap, frame, join, slot, timers, fdWaits, activeJoins,
                       reporting, counters, owned, resolvable, ghost>>
    BY DEF ResumeChain, Resuming, Taken, Box
  <1>2. Places'
    <2>1. PlaceOK(heap, frame, Tail(ready), Append(stack, Head(ready)), lost)
      BY <1>1, PlaceRun DEF Inv, Places
    <2> QED
      BY <1>1, <2>1 DEF Places, ghost
  <1>3. Structure'
    BY <1>1, SameStructure DEF Inv, counters, ghost
  <1>4. Types' /\ Tokens' /\ Lives'
    BY <1>1 DEF Inv, Types, Tokens, Lives, counters, ghost, reporting
  <1> QED
    BY <1>2, <1>3, <1>4 DEF Inv

LEMMA ResumeDetachStep ==
    ASSUME Inv, ResumeDetach
    PROVE  Inv'
  <1> DEFINE g == [frame EXCEPT ![Taken] = NoFrame]
             p == Box.input
             b == [heap[p] EXCEPT !.reported = TRUE]
             queued == Box.kind = "detach" /\ Outcome = "rejected"
             h == IF queued THEN [heap EXCEPT ![p] = b] ELSE heap
             I == InternalOf(frame, join, slot)
             E == ExternalOf(frame, owned)
  <1>1. TakenSays /\ Box.kind \in {"detach", "detachSlot"}
    BY TakenFacts DEF ResumeDetach, Resuming
  <1>2. /\ frame' = g /\ ready' = Tail(ready) /\ heap' = Destroy(h, p)
        /\ orphaned' = IF queued THEN [orphaned EXCEPT ![p] = @ + 1] ELSE orphaned
        /\ DropWaits(heap')
        /\ UNCHANGED <<join, slot, stack, activeJoins, pendingHandled, batches, counters,
                       owned, resolvable, ghost>>
    BY DEF ResumeDetach, FreeFrame
  <1>3. /\ p \in Promise /\ heap[p].live /\ Box.output \notin Promise
        /\ GoneTokens(frame, g, p, Box.output, join, slot, owned)
        /\ PlaceOK(heap, g, Tail(ready), stack, lost)
    BY <1>1 DEF TakenSays
  <1>4. Held(heap, I, E) /\ heap \in [Promise -> PromiseBox] /\ owned \in [Promise -> Nat]
    BY DEF Inv, Tokens, Held, Types
  <1>5. /\ b \in PromiseBox /\ b.live = heap[p].live /\ b.result = heap[p].result
        /\ b.subscribers = heap[p].subscribers
        /\ b.references = heap[p].references /\ b.internal = heap[p].internal
    BY <1>3, <1>4 DEF PromiseBox
  <1> HIDE DEF b, g, I, E, queued
  <1>6. /\ h \in [Promise -> PromiseBox]
        /\ \A q \in Promise : /\ h[q].live = heap[q].live
                              /\ h[q].result = heap[q].result
                              /\ h[q].subscribers = heap[q].subscribers
                              /\ h[q].references = heap[q].references
                              /\ h[q].internal = heap[q].internal
                              /\ heap[q].live \/ h[q] = heap[q]
    <2>1. CASE queued
      BY <1>3, <1>4, <1>5, <2>1
    <2>2. CASE ~queued
      BY <1>4, <2>2
    <2> QED
      BY <2>1, <2>2
  <1> HIDE DEF h
  <1>7. Held(h, I, E)
    BY <1>4, <1>6, SameHolds
  <1>8. /\ Held(Destroy(h, p), I, Less(E, p)) /\ TrimmedHeap(h, Destroy(h, p))
    <2>1. E[p] > 0
      BY <1>3 DEF GoneTokens, E
    <2> QED
      BY <1>3, <1>7, <2>1, HeldDestroy
  <1>9. Tokens'
    <2>1. ExternalOf(g, owned) = Less(E, p) /\ InternalOf(g, join, slot) = I
      BY <1>3 DEF GoneTokens, E, I
    <2> QED
      BY <1>2, <1>8, <2>1 DEF Tokens
  <1>10. Places' /\ Lives'
    <2>1. PlaceOK(h, g, Tail(ready), stack, lost)
      BY <1>3, <1>6, PlaceHeap
    <2>2. PlaceOK(h, frame', ready', stack', lost')
      BY <1>2, <2>1 DEF ghost
    <2>3. TrimmedHeap(h, heap') /\ born' = born /\ owned' \in [Promise -> Nat]
      BY <1>2, <1>4, <1>8 DEF counters
    <2>4. \A q \in Promise : h[q].live => heap[q].live
      BY <1>6
    <2> QED
      BY <1>2, <1>9, <2>2, <2>3, <2>4, TrimMove
  <1>11. Structure'
    BY <1>1, <1>2, EndMove DEF TakenSays, FreeFrame, counters, ghost, Box, g
  <1>12. Types'
    <2>1. orphaned' \in [Promise -> Nat]
      BY SMTT(30), <1>2, <1>3 DEF Inv, Types
    <2> QED
      BY <1>2, <2>1 DEF Inv, Types, DropWaits, Waiting, counters, ghost
  <1> QED
    BY <1>9, <1>10, <1>11, <1>12 DEF Inv

\* A frame with an output ends: h is the heap its tokens go back to.
LEMMA GiveBackMove ==
    ASSUME Inv, NEW f \in FrameId, frame[f].input \in Promise, frame[f].output \in Promise,
           NEW h, Held(h, InternalOf(frame, join, slot), ExternalOf(frame, owned)),
           \A p \in Promise : h[p].live => heap[p].live,
           PlaceOK(h, frame', ready', stack', lost'),
           heap' = GiveBack(h, frame[f]), FreeFrame(f), DropWaits(heap'),
           UNCHANGED <<join, joinLog, slot, activeJoins, reporting, counters, owned, resolvable,
                       reports, notices, observed, forced, lost>>
    PROVE  Inv'
  <1> DEFINE g == [frame EXCEPT ![f] = NoFrame]
             I == InternalOf(frame, join, slot)
             E == ExternalOf(frame, owned)
             a == frame[f].input
             o == frame[f].output
  <1>1. owned \in [Promise -> Nat] /\ frame \in [FrameId -> FrameBox]
    BY DEF Inv, Types, Places, PlaceOK, PlaceTypes
  <1>2. GoneTokens(frame, g, a, o, join, slot, owned)
    BY <1>1, FrameGone
  <1>3. /\ E[a] > 0 /\ I[o] > 0
        /\ ExternalOf(g, owned) = Less(E, a) /\ InternalOf(g, join, slot) = Less(I, o)
    BY <1>2 DEF GoneTokens
  <1>4. /\ Held(GiveBack(h, frame[f]), Less(I, o), Less(E, a))
        /\ TrimmedHeap(h, GiveBack(h, frame[f]))
    BY <1>3, HeldGiveBack
  <1>5. Tokens'
    BY <1>3, <1>4 DEF Tokens, FreeFrame
  <1>6. Places' /\ Lives'
    <2>1. owned' \in [Promise -> Nat] /\ born' = born /\ TrimmedHeap(h, heap')
      BY <1>1, <1>4 DEF counters
    <2> QED
      BY <1>5, <2>1, TrimMove
  <1>7. Structure'
    <2>1. frame[f].kind # "child"
      BY DEF Inv, Structure, FrameOK
    <2> QED
      BY <2>1, EndMove DEF counters
  <1>8. Types'
    BY DEF Inv, Types, DropWaits, Waiting, counters, reporting
  <1> QED
    BY <1>5, <1>6, <1>7, <1>8 DEF Inv

LEMMA ReturnChainStep == Inv /\ ReturnChain => Inv'
  <1> SUFFICES ASSUME Inv, ReturnChain
               PROVE  Inv'
    OBVIOUS
  <1> DEFINE f == stack[Len(stack)]
  <1>1. /\ stack # <<>> /\ heap' = GiveBack(heap, frame[f]) /\ FreeFrame(f)
        /\ stack' = SubSeq(stack, 1, Len(stack) - 1)
        /\ DropWaits(heap')
        /\ UNCHANGED <<join, slot, ready, activeJoins, reporting, counters, owned,
                       resolvable, ghost>>
    BY DEF ReturnChain
  <1>2. /\ stack \in Seq(FrameId) /\ frame \in [FrameId -> FrameBox]
        /\ PlaceOK(heap, frame, ready, stack, lost) /\ RunningChains(stack, frame)
    BY DEF Inv, Places, PlaceOK, PlaceTypes
  <1>3. f \in FrameId /\ Len(stack) \in 1..Len(stack)
    BY <1>1, <1>2, CountButLast
  <1>4. frame[f].kind = "chain"
    BY <1>2, <1>3 DEF RunningChains
  <1>5. frame[f].output \in Promise /\ frame[f].input \in Promise
    BY <1>3, <1>4 DEF Inv, Structure, FrameOK, Places, PlaceOK, PlaceTypes
  <1>6. PlaceOK(heap, frame', ready', stack', lost')
    <2>1. PlaceOK(heap, [frame EXCEPT ![f] = NoFrame], ready,
                  SubSeq(stack, 1, Len(stack) - 1), lost)
      BY <1>1, <1>2, PlaceReturn
    <2> QED
      BY <1>1, <2>1 DEF FreeFrame, ghost
  <1>7. Held(heap, InternalOf(frame, join, slot), ExternalOf(frame, owned))
    BY DEF Inv, Tokens
  <1> HIDE DEF f
  <1> QED
    BY <1>1, <1>3, <1>5, <1>6, <1>7, GiveBackMove DEF ghost

\* The output of the frame at the head settles, if h says so, and it ends.
LEMMA ForwardStep ==
    ASSUME Inv, ready # <<>>, Box.kind \in {"chain", "adopt", "finallyAdopt"},
           NEW r \in Settlement, Forward(r)
    PROVE  Inv'
  <1> DEFINE g == [frame EXCEPT ![Taken] = NoFrame]
             o == Box.output
             h == Settle(heap, o, r)
  <1>1. TakenSays
    BY TakenFacts
  <1>2. /\ ready' = Tail(ready) \o Woken(heap, o)
        /\ heap' = GiveBack(h, Box) /\ FreeFrame(Taken) /\ frame' = g
        /\ DropWaits(heap')
        /\ UNCHANGED <<join, slot, stack, activeJoins, reporting, counters, owned,
                       resolvable, ghost>>
    BY DEF Forward, FreeFrame
  <1>3. /\ Taken \in FrameId /\ Box = frame[Taken] /\ Box.input \in Promise /\ o \in Promise
        /\ PlaceOK(heap, g, Tail(ready), stack, lost)
    BY <1>1 DEF TakenSays, Box
  <1>4. heap[o].live
    BY <1>3, OutputLives
  <1>5. /\ Held(h, InternalOf(frame, join, slot), ExternalOf(frame, owned))
        /\ Settled(heap, h, o, r)
    BY <1>3, <1>4, HeldSettle DEF Inv, Tokens
  <1>6. /\ Held(h, InternalOf(frame, join, slot), ExternalOf(frame, owned))
        /\ \A q \in Promise : q # o => h[q] = heap[q]
        /\ h[o].live = heap[o].live
        /\ IF Pending(heap, o) THEN h[o].result = r /\ h[o].subscribers = <<>> ELSE h = heap
    BY <1>5 DEF Settled
  <1>7. PlaceOK(h, frame', ready', stack', lost')
    <2>1. h \in [Promise -> PromiseBox]
      BY <1>6 DEF Held
    <2>2. r # "pending"
      BY DEF Settlement
    <2> HIDE DEF h, g, o
    <2>3. PlaceOK(h, g, Tail(ready) \o Woken(heap, o), stack, lost)
      BY <1>3, <1>6, <2>1, <2>2, PlaceSettle
    <2> QED
      BY <1>2, <2>3 DEF ghost
  <1>8. \A p \in Promise : h[p].live => heap[p].live
    BY <1>6
  <1>9. frame[Taken].input \in Promise /\ frame[Taken].output \in Promise
    BY <1>3
  <1> HIDE DEF h, g, o
  <1> QED
    BY <1>2, <1>3, <1>6, <1>7, <1>8, <1>9, GiveBackMove DEF ghost

LEMMA ResumeInertStep ==
    ASSUME Inv, ResumeInert
    PROVE  Inv'
  <1> DEFINE g == [frame EXCEPT ![Taken] = NoFrame]
  <1>1. TakenSays /\ Box.kind = "finallyAdopt"
    BY TakenFacts DEF ResumeInert, Resuming
  <1>2. /\ ready' = Tail(ready) /\ heap' = GiveBack(heap, frame[Taken]) /\ FreeFrame(Taken)
        /\ frame' = g /\ DropWaits(heap')
        /\ UNCHANGED <<join, slot, stack, activeJoins, reporting, counters, owned,
                       resolvable, ghost>>
    BY DEF ResumeInert, FreeFrame, Box
  <1>3. /\ Taken \in FrameId /\ frame[Taken].input \in Promise /\ frame[Taken].output \in Promise
        /\ PlaceOK(heap, frame', ready', stack', lost')
    BY <1>1, <1>2 DEF TakenSays, Box, ghost
  <1>4. Held(heap, InternalOf(frame, join, slot), ExternalOf(frame, owned))
    BY DEF Inv, Tokens
  <1> QED
    BY <1>2, <1>3, <1>4, GiveBackMove DEF ghost

LEMMA ResumeForwardStep ==
    ASSUME Inv, ResumeForward
    PROVE  Inv'
  <1>1. ready # <<>> /\ Box.kind \in {"chain", "adopt", "finallyAdopt"} /\ Forward(Outcome)
    BY DEF ResumeForward, Resuming
  <1>2. Outcome \in Settlement
    BY <1>1, TakenFacts DEF TakenSays
  <1> QED
    BY <1>1, <1>2, ForwardStep

LEMMA ResumeFinallyAdoptStep ==
    ASSUME Inv, ResumeFinallyAdopt
    PROVE  Inv'
  <1> DEFINE r == IF Outcome = "rejected" THEN "rejected" ELSE Box.original
  <1>1. ready # <<>> /\ Box.kind \in {"chain", "adopt", "finallyAdopt"} /\ Forward(r)
    BY DEF ResumeFinallyAdopt, Resuming
  <1>2. Box \in FrameBox
    BY <1>1, TakenFacts DEF TakenSays
  <1>3. r \in Settlement
    BY <1>2 DEF FrameBox, Settlement
  <1> HIDE DEF r
  <1> QED
    BY <1>1, <1>3, ForwardStep

-----------------------------------------------------------------------------
(* The children of a combinator.                                           *)

\* The output of an unfinished combinator lives.
LEMMA JoinLives ==
    ASSUME Inv, NEW j \in JoinId, join[j].output \in Promise
    PROVE  heap[join[j].output].live /\ InternalOf(frame, join, slot)[join[j].output] > 0
  <1> DEFINE p == join[j].output
             I == InternalOf(frame, join, slot)
             E == ExternalOf(frame, owned)
  <1>1. Held(heap, I, E) /\ owned \in [Promise -> Nat]
    BY DEF Inv, Tokens, Types
  <1>2. RecountJoins(join, join, j, p)
    BY OneJoin
  <1>3. /\ Cardinality(Joining(join, p)) \in Nat /\ Cardinality(Joining(join, p)) > 0
        /\ Cardinality(Settling(frame, p)) \in Nat /\ Cardinality(Storing(slot, p)) \in Nat
    BY <1>1, <1>2, HolderTypes DEF RecountJoins
  <1>4. I[p] = Cardinality(Settling(frame, p)) + Cardinality(Joining(join, p))
               + Cardinality(Storing(slot, p))
    BY DEF InternalOf
  <1>5. I[p] > 0
    BY <1>3, <1>4
  <1>6. I[p] \in Nat /\ E[p] \in Nat /\ (heap[p].live <=> I[p] + E[p] > 0)
    BY <1>1, HeldFacts
  <1> QED
    BY <1>5, <1>6

\* The combinator of the child at the head of the queue.
ChildSays(j, o) ==
    /\ j \in JoinId /\ j = Box.join /\ join[j] \in JoinBox /\ join[j].kind # "none"
    /\ o = join[j].output /\ o \in Promise /\ heap[o].live
    /\ join[j].remaining = Cardinality(Children(frame, j)) /\ join[j].remaining > 0
    /\ joinLog[j] \in LogEntry /\ joinLog[j].left = join[j].remaining
    /\ Taken \in Children(frame, j)
    /\ Verdict(join[j], Outcome) \in {"pending"} \cup Settlement

LEMMA ChildFacts ==
    ASSUME Inv, Resuming("child")
    PROVE  ChildSays(Box.join, join[Box.join].output)
  <1>1. TakenSays /\ Box.kind = "child"
    BY TakenFacts DEF Resuming
  <1> DEFINE j == Box.join
  <1>2. j # Null /\ j \in JoinId /\ Taken \in FrameId
    BY <1>1 DEF TakenSays, FrameBox
  <1>3. join[j].kind # "none" /\ Taken \in Children(frame, j)
    BY <1>2 DEF Inv, Structure, FrameOK, Children, Box
  <1>4. /\ join[j].output \in Promise
        /\ join[j].remaining = Cardinality(Children(frame, j)) /\ join[j].remaining > 0
        /\ joinLog[j].left = join[j].remaining
    BY <1>2, <1>3 DEF Inv, Structure, JoinOK
  <1>5. heap[join[j].output].live
    BY <1>2, <1>4, JoinLives
  <1>6. join[j] \in JoinBox /\ joinLog[j] \in LogEntry
    BY <1>2 DEF Inv, Types
  <1>7. Verdict(join[j], Outcome) \in {"pending"} \cup Settlement
    BY SMTT(30), <1>1 DEF TakenSays, Verdict, Settlement
  <1> QED
    BY <1>2, <1>3, <1>4, <1>5, <1>6, <1>7 DEF ChildSays

\* What ResumeChild assigns, with its local definitions opened.
ChildActs(j, o, r, h, given) ==
    /\ h = (IF r = "pending" THEN heap ELSE Settle(heap, o, r))
    /\ given = Destroy(h, Box.input)
    /\ ready' = Tail(ready) \o (IF r = "pending" THEN <<>> ELSE Woken(heap, o))
    /\ heap' = IF LastChild(join[j]) THEN Release(given, o) ELSE given
    /\ join' = [join EXCEPT ![j] =
                  IF LastChild(join[j]) THEN NoJoin
                  ELSE [join[j] EXCEPT !.remaining = @ - 1, !.done = @ \/ r # "pending"]]
    /\ activeJoins' = IF LastChild(join[j]) /\ Counted(join[j])
                      THEN activeJoins - 1 ELSE activeJoins
    /\ joinLog' = [joinLog EXCEPT ![j].left = @ - 1, ![j].seen = Append(@, Outcome)]
    /\ frame' = [frame EXCEPT ![Taken] = NoFrame]
    /\ DropWaits(heap')
    /\ UNCHANGED <<slot, stack, reporting, counters, owned, resolvable,
                   reports, notices, observed, forced, lost>>

LEMMA ChildActing ==
    ASSUME ResumeChild
    PROVE  \E h, given : ChildActs(Box.join, join[Box.join].output,
                                   Verdict(join[Box.join], Outcome), h, given)
  BY DEF ResumeChild, ChildActs, FreeFrame

\* The box of a combinator after one of its children.
NextBox(b, c, r) ==
    /\ c \in JoinBox /\ c.kind = b.kind /\ c.output = b.output
    /\ c.remaining = b.remaining - 1 /\ c.remaining > 0
    /\ c.counted = b.counted /\ c.cancelled = b.cancelled
    /\ c.done = (b.done \/ r # "pending")

LEMMA NextJoin ==
    ASSUME NEW b \in JoinBox, b.remaining > 0, ~LastChild(b), NEW r
    PROVE  NextBox(b, [b EXCEPT !.remaining = @ - 1, !.done = @ \/ r # "pending"], r)
  <1>1. PICK d \in BOOLEAN : d = (b.done \/ r # "pending")
    OBVIOUS
  <1>2. PICK n \in Nat : n = b.remaining - 1 /\ n > 0
    BY DEF JoinBox, LastChild
  <1>3. [b EXCEPT !.remaining = @ - 1, !.done = @ \/ r # "pending"]
           = [b EXCEPT !.remaining = n, !.done = d]
    BY <1>1, <1>2 DEF JoinBox
  <1> DEFINE c == [b EXCEPT !.remaining = n, !.done = d]
  <1>4. /\ c \in JoinBox /\ c.kind = b.kind /\ c.output = b.output
        /\ c.remaining = n /\ c.counted = b.counted /\ c.cancelled = b.cancelled /\ c.done = d
    BY DEF JoinBox
  <1> HIDE DEF c
  <1>5. NextBox(b, c, r)
    BY <1>1, <1>2, <1>4 DEF NextBox
  <1> QED
    BY <1>3, <1>5 DEF c

\* The combinator's new box, and the output its entry holds.
LEMMA ChildJoin ==
    ASSUME Inv, NEW j, NEW o, ChildSays(j, o), NEW r, NEW h, NEW given,
           ChildActs(j, o, r, h, given)
    PROVE  /\ join' \in [JoinId -> JoinBox]
           /\ \A c \in JoinId : c # j => join'[c] = join[c]
           /\ LastChild(join[j]) => join'[j] = NoJoin
           /\ ~LastChild(join[j]) =>
                 /\ join'[j].kind = join[j].kind /\ join'[j].output = o
                 /\ join'[j].remaining = join[j].remaining - 1 /\ join'[j].remaining > 0
                 /\ join'[j].counted = join[j].counted /\ join'[j].cancelled = join[j].cancelled
                 /\ join'[j].done = (join[j].done \/ r # "pending")
  <1> DEFINE c == [join[j] EXCEPT !.remaining = @ - 1, !.done = @ \/ r # "pending"]
  <1>1. join' = [join EXCEPT ![j] = IF LastChild(join[j]) THEN NoJoin ELSE c]
    BY DEF ChildActs
  <1>2. join \in [JoinId -> JoinBox] /\ j \in JoinId /\ NoJoin \in JoinBox
    BY BoxTypes DEF Inv, Types, ChildSays
  <1>3. ~LastChild(join[j]) => NextBox(join[j], c, r)
    <2>1. join[j] \in JoinBox /\ join[j].remaining > 0
      BY DEF ChildSays
    <2> QED
      BY <2>1, NextJoin, Zenon
  <1>4. o = join[j].output
    BY DEF ChildSays
  <1> HIDE DEF c
  <1> QED
    BY <1>1, <1>2, <1>3, <1>4 DEF NextBox

\* The heap with the output settled, before any token goes back.
ChildSettles(o, r, h, g) ==
    /\ Held(h, InternalOf(frame, join, slot), ExternalOf(frame, owned))
    /\ PlaceOK(h, g, ready', stack, lost)
    /\ \A p \in Promise : h[p].live = heap[p].live

LEMMA ChildSettling ==
    ASSUME Inv, Resuming("child"), NEW j, NEW o, ChildSays(j, o),
           NEW r \in {"pending"} \cup Settlement,
           NEW h, NEW given, ChildActs(j, o, r, h, given)
    PROVE  ChildSettles(o, r, h, [frame EXCEPT ![Taken] = NoFrame])
  <1> DEFINE g == [frame EXCEPT ![Taken] = NoFrame]
             I == InternalOf(frame, join, slot)
             E == ExternalOf(frame, owned)
  <1>1. PlaceOK(heap, g, Tail(ready), stack, lost)
    BY TakenFacts DEF Resuming, TakenSays
  <1>2. Held(heap, I, E) /\ heap[o].live /\ o \in Promise
    BY DEF Inv, Tokens, ChildSays
  <1> HIDE DEF g, I, E
  <1>3. CASE r = "pending"
    <2>1. Tail(ready) \in Seq(FrameId)
      BY <1>1 DEF PlaceOK, PlaceTypes
    <2>2. h = heap /\ ready' = Tail(ready)
      BY <1>3, <2>1 DEF ChildActs
    <2> QED
      BY <1>1, <1>2, <2>2 DEF ChildSettles, I, E, g
  <1>4. CASE r # "pending"
    <2>1. r \in Settlement /\ h = Settle(heap, o, r)
          /\ ready' = Tail(ready) \o Woken(heap, o)
      BY <1>4 DEF ChildActs
    <2>2. Held(h, I, E) /\ Settled(heap, h, o, r)
      BY <1>2, <2>1, HeldSettle
    <2>3. /\ h \in [Promise -> PromiseBox]
          /\ \A q \in Promise : q # o => h[q] = heap[q]
          /\ h[o].live = heap[o].live
          /\ IF Pending(heap, o) THEN h[o].result = r /\ h[o].subscribers = <<>> ELSE h = heap
      BY <2>2 DEF Held, Settled
    <2>4. PlaceOK(h, g, Tail(ready) \o Woken(heap, o), stack, lost)
      BY <1>1, <1>2, <1>4, <2>3, PlaceSettle
    <2> QED
      BY <2>1, <2>2, <2>3, <2>4 DEF ChildSettles, I, E, g
  <1> QED
    BY <1>3, <1>4

\* A child gives back its input's token, the last one the output's too.
LEMMA ChildTokens ==
    ASSUME Inv, Resuming("child"), NEW j, NEW o, ChildSays(j, o), NEW r,
           NEW h, NEW given, ChildActs(j, o, r, h, given),
           Held(h, InternalOf(frame, join, slot), ExternalOf(frame, owned))
    PROVE  Tokens' /\ TrimmedHeap(h, heap')
  <1> DEFINE g == [frame EXCEPT ![Taken] = NoFrame]
             a == Box.input
             I == InternalOf(frame, join, slot)
             E == ExternalOf(frame, owned)
  <1>1. TakenSays /\ Box.kind = "child"
    BY TakenFacts DEF Resuming
  <1>2. a \in Promise /\ GoneTokens(frame, g, a, Box.output, join, slot, owned)
        /\ Box.output \notin Promise
    BY <1>1 DEF TakenSays
  <1>3. E[a] > 0 /\ ExternalOf(g, owned) = Less(E, a) /\ InternalOf(g, join, slot) = I
    BY <1>2 DEF GoneTokens
  <1>4. Held(given, I, Less(E, a)) /\ TrimmedHeap(h, given)
    BY <1>2, <1>3, HeldDestroy DEF ChildActs
  <1>5. /\ frame' = g /\ slot' = slot /\ owned' = owned
        /\ heap' = IF LastChild(join[j]) THEN Release(given, o) ELSE given
    BY DEF ChildActs
  <1>6. /\ j \in JoinId /\ o \in Promise /\ join[j].output = o /\ owned \in [Promise -> Nat]
    BY DEF ChildSays, Inv, Types
  <1>7. \A c \in JoinId : c # j => join'[c] = join[c]
    BY ChildJoin
  <1> HIDE DEF g, I, E, a
  <1>8. CASE LastChild(join[j])
    <2>1. join'[j].output \notin Promise
      BY <1>8, ChildJoin, BoxTypes, Domains
    <2>2. JoinedTokens(g, join, join', slot, j, o)
      BY <1>6, <1>7, <2>1, JoinTokens
    <2>3. I[o] > 0 /\ InternalOf(g, join', slot) = Less(I, o)
      BY <1>3, <1>6, <2>2 DEF JoinedTokens
    <2>4. Held(Release(given, o), Less(I, o), Less(E, a)) /\ TrimmedHeap(given, Release(given, o))
      BY <1>4, <1>6, <2>3, HeldRelease
    <2>5. heap' = Release(given, o)
      BY <1>5, <1>8
    <2>6. TrimmedHeap(h, heap')
      BY <1>4, <2>4, <2>5, TrimmedTwice
    <2> QED
      BY <1>3, <1>5, <2>3, <2>4, <2>5, <2>6 DEF Tokens
  <1>9. CASE ~LastChild(join[j])
    <2>1. \A c \in JoinId : join'[c].output = join[c].output
      BY <1>6, <1>7, <1>9, ChildJoin
    <2>2. InternalOf(g, join', slot) = InternalOf(g, join, slot)
      BY <2>1, SameTokens
    <2>3. heap' = given
      BY <1>5, <1>9
    <2> QED
      BY <1>3, <1>4, <1>5, <2>2, <2>3 DEF Tokens
  <1> QED
    BY <1>8, <1>9

\* The combinator counts the children it has left.
LEMMA ChildStructure ==
    ASSUME Inv, Resuming("child"), NEW j, NEW o, ChildSays(j, o), NEW r,
           NEW h, NEW given, ChildActs(j, o, r, h, given)
    PROVE  Structure'
  <1> DEFINE g == [frame EXCEPT ![Taken] = NoFrame]
  <1>1. /\ frame' = g /\ joins' = joins /\ frames' = frames /\ lost' = lost
        /\ activeJoins' = IF LastChild(join[j]) /\ Counted(join[j])
                          THEN activeJoins - 1 ELSE activeJoins
        /\ joinLog' = [joinLog EXCEPT ![j].left = @ - 1, ![j].seen = Append(@, Outcome)]
    BY DEF ChildActs, counters
  <1>2. /\ frame \in [FrameId -> FrameBox] /\ Taken \in FrameId /\ joinLog \in [JoinId -> LogEntry]
        /\ j \in JoinId
    BY TakenFacts DEF Resuming, TakenSays, Inv, Places, PlaceOK, PlaceTypes, Types, ChildSays
  <1>3. g[Taken] = NoFrame /\ \A c \in FrameId : c # Taken => g[c] = frame[c]
    BY <1>2
  <1>4. \A c \in JoinId : c # j => joinLog'[c] = joinLog[c] /\ join'[c] = join[c]
    BY <1>1, <1>2, ChildJoin
  <1>5. joinLog'[j].left = joinLog[j].left - 1
    <2>1. joinLog[j] \in LogEntry
      BY <1>2
    <2> QED
      BY <1>1, <1>2, <2>1 DEF LogEntry
  <1>6. j # Null /\ Taken \in Children(frame, j) /\ frame[Taken].join = j
    BY Domains DEF ChildSays, Children
  <1> HIDE DEF g
  <1>7. /\ Cardinality(Children(frame, j)) \in Nat /\ Cardinality(Children(g, j)) \in Nat
        /\ Cardinality(Children(g, j)) = Cardinality(Children(frame, j)) - 1
    <2> DEFINE A == Children(frame, j)
               B == Children(g, j)
    <2>1. A \subseteq FrameId /\ B \subseteq FrameId /\ Taken \in A /\ Taken \notin B
      BY <1>3, <1>6, BoxTypes DEF Children
    <2>2. \A c \in FrameId : c # Taken => (c \in A <=> c \in B)
      BY <1>3 DEF Children
    <2> HIDE DEF A, B
    <2>3. /\ Cardinality(A) \in Nat /\ Cardinality(B) \in Nat
          /\ Cardinality(B) = Cardinality(A) + (IF Taken \in B THEN 1 ELSE 0)
                                              - (IF Taken \in A THEN 1 ELSE 0)
          /\ Taken \in A => Cardinality(A) > 0
      <3>1. IsFiniteSet(FrameId)
        BY Domains
      <3> QED
        BY <1>2, <2>1, <2>2, <3>1, OneDiffers
    <2> QED
      BY <2>1, <2>3 DEF A, B
  <1>8. \A c \in JoinId : c # j => Children(g, c) = Children(frame, c)
    <2>1. ASSUME NEW c \in JoinId, c # j, NEW f \in FrameId
          PROVE  g[f].join = c <=> frame[f].join = c
      <3>1. c # Null
        BY Domains
      <3> QED
        BY <1>3, <1>6, <2>1, <3>1, BoxTypes
    <2> QED
      BY <2>1 DEF Children
  <1>9. ASSUME NEW f \in FrameId
        PROVE  FrameOK(frame', join', frames', f)
    <2>1. CASE f = Taken
      BY <1>1, <1>3, <2>1, BoxTypes, Domains DEF FrameOK
    <2>2. CASE f # Taken
      <3>1. FrameOK(frame, join, frames, f) /\ g[f] = frame[f]
        BY <1>3, <2>2 DEF Inv, Structure
      <3>2. CASE frame[f].join = j
        <4>1. ~LastChild(join[j])
          <5>1. ASSUME LastChild(join[j])
                PROVE  FALSE
            <6>1. Cardinality(Children(g, j)) = 0
              BY <1>7, <5>1 DEF LastChild, ChildSays
            <6>2. IsFiniteSet(Children(g, j))
              <7>1. Children(g, j) \in SUBSET FrameId
                BY DEF Children
              <7> QED
                BY <7>1, Domains, FS_Subset
            <6>3. f \in Children(g, j)
              BY <3>1, <3>2 DEF Children
            <6> QED
              BY <6>1, <6>2, <6>3, FS_EmptySet
          <5> QED
            BY <5>1
        <4>2. join'[j].kind = join[j].kind
          BY <4>1, ChildJoin
        <4> QED
          BY <1>1, <3>1, <3>2, <4>2 DEF FrameOK
      <3>3. CASE frame[f].join # j
        <4>1. frame[f].join # Null => frame[f].join \in JoinId
          BY <1>2 DEF FrameBox
        <4>2. frame[f].join # Null => join'[frame[f].join] = join[frame[f].join]
          BY <1>4, <3>3, <4>1
        <4> QED
          BY <1>1, <3>1, <4>2 DEF FrameOK
      <3> QED
        BY <3>2, <3>3
    <2> QED
      BY <2>1, <2>2
  <1>10. ASSUME NEW c \in JoinId
         PROVE  JoinOK(frame', join', joinLog', joins', c)
    <2>0. JoinOK(frame, join, joinLog, joins, c)
      BY DEF Inv, Structure
    <2>1. CASE c # j
      BY <1>1, <1>4, <1>8, <2>0, <2>1 DEF JoinOK
    <2>2. CASE c = j /\ LastChild(join[j])
      <3>1. join'[j] = NoJoin
        BY <2>2, ChildJoin
      <3> QED
        BY <2>2, <3>1, BoxTypes DEF JoinOK
    <2>3. CASE c = j /\ ~LastChild(join[j])
      <3>1. /\ join'[j].kind = join[j].kind /\ join'[j].output = o
            /\ join'[j].remaining = join[j].remaining - 1 /\ join'[j].remaining > 0
        BY <2>3, ChildJoin
      <3>2. /\ join[j].kind # "none" /\ o \in Promise /\ joinLog[j].left = join[j].remaining
            /\ join[j].remaining = Cardinality(Children(frame, j))
        BY DEF ChildSays
      <3> QED
        BY <1>1, <1>5, <1>7, <2>0, <2>3, <3>1, <3>2 DEF JoinOK
    <2> QED
      BY <2>1, <2>2, <2>3
  <1>11. activeJoins' = Cardinality(Counting(join'))
    <2> DEFINE A == Counting(join)
               B == Counting(join')
    <2>1. A \subseteq JoinId /\ B \subseteq JoinId
      BY DEF Counting
    <2>2. \A c \in JoinId : c # j => (c \in A <=> c \in B)
      BY <1>4 DEF Counting, Counted
    <2>3. j \in A <=> Counted(join[j])
      BY <1>2 DEF Counting, ChildSays
    <2>4. j \in B <=> ~LastChild(join[j]) /\ Counted(join[j])
      <3>1. CASE LastChild(join[j])
        BY <3>1, ChildJoin, BoxTypes DEF Counting
      <3>2. CASE ~LastChild(join[j])
        <4>1. /\ join'[j].kind = join[j].kind /\ join[j].kind # "none"
              /\ join'[j].counted = join[j].counted /\ join'[j].cancelled = join[j].cancelled
          BY <3>2, ChildJoin DEF ChildSays
        <4> QED
          BY <1>2, <3>2, <4>1 DEF Counting, Counted
      <3> QED
        BY <3>1, <3>2
    <2>5. activeJoins = Cardinality(A)
      BY DEF Inv, Structure
    <2> HIDE DEF A, B
    <2>6. /\ Cardinality(A) \in Nat /\ Cardinality(B) \in Nat
          /\ Cardinality(B) = Cardinality(A) + (IF j \in B THEN 1 ELSE 0)
                                              - (IF j \in A THEN 1 ELSE 0)
          /\ j \in A => Cardinality(A) > 0
      <3>1. IsFiniteSet(JoinId)
        BY Domains
      <3> QED
        BY <1>2, <2>1, <2>2, <3>1, OneDiffers
    <2>7. activeJoins' = Cardinality(B)
      BY <1>1, <2>3, <2>4, <2>5, <2>6
    <2> QED
      BY <2>7 DEF B
  <1>12. lost' \subseteq 1..frames'
    BY <1>1 DEF Inv, Structure
  <1> QED
    BY <1>9, <1>10, <1>11, <1>12 DEF Structure

LEMMA ResumeChildStep ==
    ASSUME Inv, ResumeChild
    PROVE  Inv'
  <1> DEFINE j == Box.join
             o == join[j].output
             r == Verdict(join[j], Outcome)
  <1>1. Resuming("child") /\ ChildSays(j, o)
    BY ChildFacts DEF ResumeChild
  <1>2. PICK h, given : ChildActs(j, o, r, h, given)
    BY ChildActing
  <1>3. r \in {"pending"} \cup Settlement /\ Outcome \in Settlement
    BY <1>1, TakenFacts DEF ChildSays, TakenSays, Resuming
  <1> HIDE DEF j, o, r
  <1>4. ChildSettles(o, r, h, [frame EXCEPT ![Taken] = NoFrame])
    BY <1>1, <1>2, <1>3, ChildSettling
  <1>5. Tokens' /\ TrimmedHeap(h, heap')
    BY <1>1, <1>2, <1>4, ChildTokens DEF ChildSettles
  <1>6. /\ DropWaits(heap') /\ frame' = [frame EXCEPT ![Taken] = NoFrame]
        /\ joinLog' = [joinLog EXCEPT ![j].left = @ - 1, ![j].seen = Append(@, Outcome)]
        /\ UNCHANGED <<slot, stack, reporting, counters, owned, resolvable,
                       reports, notices, observed, forced, lost>>
    BY <1>2 DEF ChildActs
  <1>7. Places' /\ Lives'
    <2>1. PlaceOK(h, frame', ready', stack', lost')
      BY <1>4, <1>6 DEF ChildSettles
    <2>2. \A p \in Promise : h[p].live => heap[p].live
      BY <1>4 DEF ChildSettles
    <2>3. owned' \in [Promise -> Nat] /\ born' = born
      BY <1>6 DEF Inv, Types, counters
    <2> QED
      BY <1>5, <1>6, <2>1, <2>2, <2>3, TrimMove
  <1>8. Structure'
    BY <1>1, <1>2, ChildStructure
  <1>9. Types'
    <2>1. join' \in [JoinId -> JoinBox]
      BY <1>1, <1>2, ChildJoin
    <2>2. joinLog' \in [JoinId -> LogEntry]
      <3>1. /\ joinLog \in [JoinId -> LogEntry] /\ joinLog[j] \in LogEntry /\ joinLog[j].left > 0
            /\ j \in JoinId
        BY <1>1 DEF Inv, Types, ChildSays, JoinBox
      <3>2. joinLog[j].seen \in Seq(Settlement) /\ joinLog[j].left \in Nat
        BY <3>1 DEF LogEntry
      <3> DEFINE s == Append(joinLog[j].seen, Outcome)
      <3>3. s \in Seq(Settlement)
        BY <1>3, <3>2
      <3>4. PICK n \in Nat : n = joinLog[j].left - 1
        BY <3>1, <3>2
      <3>5. [joinLog[j] EXCEPT !.left = n, !.seen = s] \in LogEntry
        BY <3>1, <3>3, <3>4 DEF LogEntry
      <3>6. joinLog' = [joinLog EXCEPT ![j] = [joinLog[j] EXCEPT !.left = n, !.seen = s]]
        BY <1>6, <3>1, <3>3, <3>4 DEF LogEntry
      <3> QED
        BY <3>1, <3>5, <3>6
    <2> QED
      BY <1>6, <2>1, <2>2 DEF Inv, Types, DropWaits, Waiting, counters, reporting
  <1> QED
    BY <1>5, <1>7, <1>8, <1>9 DEF Inv

-----------------------------------------------------------------------------
(* Combinators are made.                                                   *)

\* A list of inputs has one or two of them.
OneInput(s, p) == p \in Promise /\ Len(s) = 1 /\ s[1] = p /\ Inputs(s) = {p}

TwoInputs(s, p, c) ==
    /\ p \in Promise /\ c \in Promise /\ p # c
    /\ Len(s) = 2 /\ s[1] = p /\ s[2] = c /\ Inputs(s) = {p, c}

LEMMA ListCases ==
    ASSUME NEW s \in InputLists
    PROVE  (\E p : OneInput(s, p)) \/ (\E p, c : TwoInputs(s, p, c))
  <1>1. ASSUME NEW p \in Promise, s = <<p>>
        PROVE  OneInput(s, p)
    <2>1. Len(s) = 1 /\ s[1] = p
      BY <1>1
    <2>2. \A i \in Nat : i \in 1..1 <=> i = 1
      OBVIOUS
    <2>3. Inputs(s) = {p}
      BY <2>1, <2>2 DEF Inputs
    <2> QED
      BY <2>1, <2>3 DEF OneInput
  <1>2. ASSUME s \in Promise \X Promise, s[1] # s[2]
        PROVE  TwoInputs(s, s[1], s[2])
    <2>1. s[1] \in Promise /\ s[2] \in Promise /\ Len(s) = 2
      BY <1>2
    <2>2. 1..2 = {1, 2}
      OBVIOUS
    <2>3. Inputs(s) = {s[1], s[2]}
      BY <2>1, <2>2 DEF Inputs
    <2> QED
      BY <1>2, <2>1, <2>3 DEF TwoInputs
  <1> QED
    BY <1>1, <1>2 DEF InputLists

\* After the tokens of the promises in P went back; q is new, in box b.
Consumed(h, ow, P, q, b) ==
    /\ Held(h, InternalOf(frame, join, slot), ExternalOf(frame, ow))
    /\ ow \in [Promise -> Nat]
    /\ \A p \in Promise : ow[p] = Handed(P, {q})[p]
    /\ \A p \in Promise : h[p] = IF p \in P THEN DestroyBox(heap[p])
                                 ELSE IF p = q THEN b ELSE heap[p]
    /\ TrimmedHeap([heap EXCEPT ![q] = b], h)

LEMMA ConsumeOne ==
    ASSUME NEW h, NEW ow, NEW P, NEW q, NEW b, Consumed(h, ow, P, q, b),
           NEW p \in Promise, p \notin P, p # q, owned[p] > 0
    PROVE  Consumed(Destroy(h, p), Less(ow, p), P \cup {p}, q, b)
  <1> DEFINE I == InternalOf(frame, join, slot)
             E == ExternalOf(frame, ow)
             k == Destroy(h, p)
             l == Less(ow, p)
  <1>1. /\ Held(h, I, E) /\ ow \in [Promise -> Nat] /\ h \in [Promise -> PromiseBox]
        /\ \A c \in Promise : ow[c] = Handed(P, {q})[c]
        /\ \A c \in Promise : h[c] = IF c \in P THEN DestroyBox(heap[c])
                                     ELSE IF c = q THEN b ELSE heap[c]
        /\ TrimmedHeap([heap EXCEPT ![q] = b], h)
    BY DEF Consumed, Held
  <1>2. ow[p] = owned[p] /\ ow[p] > 0
    BY <1>1 DEF Handed
  <1>3. E[p] > 0 /\ l \in [Promise -> Nat] /\ ExternalOf(frame, l) = Less(E, p)
    BY <1>1, <1>2, OwnedChanges
  <1>4. Held(k, I, Less(E, p)) /\ TrimmedHeap(h, k)
    BY <1>1, <1>3, HeldDestroy
  <1>5. k = [h EXCEPT ![p] = DestroyBox(h[p])]
    BY <1>1, DestroyIs
  <1>6. h[p] = heap[p]
    BY <1>1
  <1>7. \A c \in Promise : k[c] = IF c \in P \cup {p} THEN DestroyBox(heap[c])
                                  ELSE IF c = q THEN b ELSE heap[c]
    <2> HIDE DEF k
    <2>1. k[p] = DestroyBox(heap[p]) /\ \A c \in Promise : c # p => k[c] = h[c]
      BY <1>1, <1>5, <1>6
    <2> QED
      BY <1>1, <2>1
  <1>8. \A c \in Promise : l[c] = Handed(P \cup {p}, {q})[c]
    BY <1>1, <1>2 DEF Less, Handed
  <1> HIDE DEF k, l
  <1>9. TrimmedHeap([heap EXCEPT ![q] = b], k)
    BY <1>1, <1>4, TrimmedTwice
  <1> QED
    BY <1>3, <1>4, <1>7, <1>8, <1>9 DEF Consumed, k, l

\* What is owed to compiled code once the whole list is consumed.
LEMMA ConsumeList ==
    ASSUME Inv, NEW q \in FreshPromise, NEW s \in InputLists, \A p \in Inputs(s) : Has(p),
           NEW b \in PromiseBox, Holds(b, 0, 1), b.live, b.subscribers = <<>>
    PROVE  \E h, ow : Consumed(h, ow, Inputs(s), q, b)
  <1> DEFINE k == [heap EXCEPT ![q] = b]
             o == [owned EXCEPT ![q] = 1]
  <1>1. q \in Promise /\ ~heap[q].live /\ owned \in [Promise -> Nat]
    BY FreshIsDead DEF Inv, Types
  <1>2. /\ o \in [Promise -> Nat]
        /\ Held(k, InternalOf(frame, join, slot), ExternalOf(frame, o))
    <2>1. HeldBy(k, frame, join, slot, o)
      BY <1>1, HeldBirth DEF Inv, Tokens
    <2> QED
      BY <2>1 DEF HeldBy
  <1>3. Consumed(k, o, {}, q, b)
    <2>1. \A p \in Promise : o[p] = Handed({}, {q})[p]
      BY <1>1 DEF Handed
    <2>2. \A p \in Promise : k[p] = IF p = q THEN b ELSE heap[p]
      BY <1>1 DEF Inv, Tokens, Held
    <2>3. TrimmedHeap(k, k)
      BY DEF TrimmedHeap, Trimmed, SameData
    <2> QED
      BY <1>2, <2>1, <2>2, <2>3 DEF Consumed
  <1>4. \A p \in Inputs(s) : owned[p] > 0 /\ p # q
    BY <1>1 DEF Has
  <1> HIDE DEF k, o
  <1>5. ASSUME NEW p, OneInput(s, p)
        PROVE  \E h, ow : Consumed(h, ow, Inputs(s), q, b)
    <2>1. p \in Promise /\ owned[p] > 0 /\ p # q /\ p \notin {}
      BY <1>4, <1>5 DEF OneInput
    <2>2. Consumed(Destroy(k, p), Less(o, p), {} \cup {p}, q, b)
      BY <1>3, <2>1, ConsumeOne
    <2>3. {} \cup {p} = Inputs(s)
      BY <1>5 DEF OneInput
    <2> QED
      BY <2>2, <2>3
  <1>6. ASSUME NEW p, NEW c, TwoInputs(s, p, c)
        PROVE  \E h, ow : Consumed(h, ow, Inputs(s), q, b)
    <2>1. /\ p \in Promise /\ owned[p] > 0 /\ p # q /\ p \notin {}
          /\ c \in Promise /\ owned[c] > 0 /\ c # q /\ c \notin {} \cup {p}
      BY <1>4, <1>6 DEF TwoInputs
    <2>2. Consumed(Destroy(k, p), Less(o, p), {} \cup {p}, q, b)
      BY <1>3, <2>1, ConsumeOne
    <2>3. Consumed(Destroy(Destroy(k, p), c), Less(Less(o, p), c), {} \cup {p} \cup {c}, q, b)
      BY <2>1, <2>2, ConsumeOne
    <2>4. {} \cup {p} \cup {c} = Inputs(s)
      BY <1>6 DEF TwoInputs
    <2> QED
      BY <2>3, <2>4
  <1> QED
    BY <1>5, <1>6, ListCases

LEMMA AllSettledRefusedStep ==
    ASSUME Inv, NEW q \in FreshPromise, NEW s \in InputLists, AllSettledRefused(s, q)
    PROVE  Inv'
  <1> DEFINE b == [NewBox EXCEPT !.result = "rejected"]
             k == [heap EXCEPT ![q] = b]
  <1>1. q \in Promise /\ q = born + 1 /\ ~heap[q].live /\ heap \in [Promise -> PromiseBox]
    BY FreshIsDead DEF Inv, Tokens, Held
  <1>2. /\ b \in PromiseBox /\ Holds(b, 0, 1) /\ b.live = TRUE /\ b.subscribers = <<>>
    BY NewBoxAs DEF Settlement
  <1> HIDE DEF b
  <1>3. /\ \A p \in Inputs(s) : Has(p)
        /\ born' = q /\ DropWaits(heap') /\ owned' = Handed(Inputs(s), {q})
        /\ UNCHANGED <<frame, join, slot, ready, stack, activeJoins, reporting,
                       frames, joins, purges, resolvable, ghost>>
        /\ heap' = [p \in Promise |->
                      IF p \in Inputs(s) THEN Destroy(heap, p)[p]
                      ELSE IF p = q THEN b ELSE heap[p]]
    BY DEF AllSettledRefused, b
  <1>4. PICK h, ow : Consumed(h, ow, Inputs(s), q, b)
    BY <1>2, <1>3, ConsumeList
  <1>5. heap' = h
    <2>1. ASSUME NEW p \in Promise
          PROVE  Destroy(heap, p)[p] = DestroyBox(heap[p])
      <3>1. Destroy(heap, p) = [heap EXCEPT ![p] = DestroyBox(heap[p])]
        BY <1>1, DestroyIs
      <3> QED
        BY <1>1, <3>1
    <2>2. h \in [Promise -> PromiseBox]
          /\ \A p \in Promise : h[p] = IF p \in Inputs(s) THEN DestroyBox(heap[p])
                                       ELSE IF p = q THEN b ELSE heap[p]
      BY <1>4 DEF Consumed, Held
    <2>3. \A p \in Promise : heap'[p] = h[p]
      BY <1>3, <2>1, <2>2
    <2>4. heap' = [p \in Promise |-> heap'[p]]
      BY <1>3
    <2> QED
      BY <2>2, <2>3, <2>4
  <1>6. owned' = ow
    <2>1. ow \in [Promise -> Nat] /\ \A p \in Promise : ow[p] = Handed(Inputs(s), {q})[p]
      BY <1>4 DEF Consumed
    <2>2. owned' = [p \in Promise |-> owned'[p]]
      BY <1>3 DEF Handed
    <2> QED
      BY <1>3, <2>1, <2>2
  <1>7. /\ owned' \in [Promise -> Nat]
        /\ Held(heap', InternalOf(frame, join, slot), ExternalOf(frame, owned'))
        /\ TrimmedHeap(k, heap')
    BY <1>4, <1>5, <1>6 DEF Consumed
  <1>8. Tokens'
    BY <1>3, <1>7 DEF Tokens
  <1>9. k \in [Promise -> PromiseBox] /\ k[q] = b /\ \A p \in Promise : p # q => k[p] = heap[p]
    BY <1>1, <1>2
  <1> HIDE DEF k
  <1>10. Places'
    <2>1. \A f \in FrameId : frame[f].input # q
      <3>1. owned \in [Promise -> Nat]
        BY DEF Inv, Types
      <3> QED
        BY <1>1, <3>1, DeadIsUnheld DEF Inv, Tokens, Unheld
    <2>2. PlaceOK(k, frame, ready, stack, lost)
      BY <1>2, <1>9, <2>1, PlaceHeap DEF Inv, Places
    <2>3. PlaceOK(heap', frame, ready, stack, lost)
      BY <1>7, <2>2, PlaceTrim
    <2> QED
      BY <1>3, <2>3 DEF Places, ghost
  <1>11. Structure'
    BY <1>3, SameStructure DEF Inv, ghost
  <1>12. Types'
    <2>1. born' \in 0..MaxPromises
      BY <1>1, <1>3, Domains DEF Promise
    <2> QED
      BY <1>3, <1>7, <2>1 DEF Inv, Types, DropWaits, Waiting, reporting, ghost
  <1>13. Lives'
    <2>1. \A p \in Promise : heap'[p].live => k[p].live
      BY <1>7, NoBoxFacts DEF TrimmedHeap, Trimmed, SameData
    <2>2. born \in Nat /\ Promise \subseteq Nat
      BY Domains DEF Inv, Types
    <2>3. \A p \in Promise : k[p].live => p <= q
      BY <1>1, <1>9, <2>2 DEF Inv, Lives
    <2> QED
      BY <1>3, <2>1, <2>3 DEF Lives, DropWaits, Waiting, Inv, Types
  <1> QED
    BY <1>8, <1>10, <1>11, <1>12, <1>13 DEF Inv

\* The order in which the children of settled inputs are made ready.
LEMMA OrderOfNone ==
    ASSUME NEW A, A = {}
    PROVE  InOrder(A) = <<>>
  <1> DEFINE Fits(w) == w \in [1..Cardinality(A) -> A] /\
                        \A i, k \in 1..Cardinality(A) : i < k => w[i] < w[k]
  <1>1. Cardinality(A) = 0 /\ 1..0 = {}
    BY FS_EmptySet
  <1>2. \E w : Fits(w)
    <2>1. Fits(<<>>)
      BY <1>1
    <2> QED
      BY <2>1
  <1>3. InOrder(A) = CHOOSE w : Fits(w)
    BY DEF InOrder
  <1>4. Fits(InOrder(A))
    BY <1>2, <1>3
  <1>5. InOrder(A) \in [1..0 -> A]
    BY <1>1, <1>4
  <1> QED
    BY <1>5

LEMMA OrderOfOne ==
    ASSUME NEW f \in Nat, NEW A, A = {f}
    PROVE  InOrder(A) = <<f>>
  <1> DEFINE Fits(w) == w \in [1..Cardinality(A) -> A] /\
                        \A i, k \in 1..Cardinality(A) : i < k => w[i] < w[k]
  <1>1. Cardinality(A) = 1 /\ 1..1 = {1}
    BY FS_Singleton
  <1>2. \E w : Fits(w)
    <2>1. <<f>> \in [1..1 -> A] /\ \A i, k \in 1..1 : i < k => FALSE
      OBVIOUS
    <2>2. Fits(<<f>>)
      BY <1>1, <2>1
    <2> QED
      BY <2>2
  <1>3. InOrder(A) = CHOOSE w : Fits(w)
    BY DEF InOrder
  <1>4. Fits(InOrder(A))
    BY <1>2, <1>3
  <1> DEFINE w == InOrder(A)
  <1>5. w \in [1..1 -> A]
    BY <1>1, <1>4
  <1> HIDE DEF w
  <1>6. w \in Seq(A) /\ Len(w) = 1 /\ w[1] = f
    <2>1. 1 \in Nat /\ w \in [1..1 -> A]
      BY <1>5
    <2>2. w \in Seq(A)
      BY <2>1, SeqDef
    <2>3. DOMAIN w = 1..Len(w) /\ Len(w) \in Nat
      BY <2>2
    <2> QED
      BY <1>5, <2>2, <2>3
  <1>7. w = <<f>>
    BY <1>6
  <1> QED
    BY <1>7 DEF w

LEMMA OrderOfTwo ==
    ASSUME NEW f \in Nat, NEW g \in Nat, f < g, NEW A, A = {f, g}
    PROVE  InOrder(A) = <<f, g>>
  <1> DEFINE Fits(w) == w \in [1..Cardinality(A) -> A] /\
                        \A i, k \in 1..Cardinality(A) : i < k => w[i] < w[k]
  <1>1. Cardinality(A) = 2 /\ 1..2 = {1, 2}
    <2>1. IsFiniteSet({f}) /\ Cardinality({f}) = 1
      BY FS_Singleton
    <2>2. g \notin {f} /\ A = {f} \cup {g}
      OBVIOUS
    <2>3. Cardinality({f} \cup {g}) = Cardinality({f}) + 1
      BY <2>1, <2>2, FS_AddElement
    <2> QED
      BY <2>1, <2>2, <2>3
  <1>2. \E w : Fits(w)
    <2>1. <<f, g>> \in [1..2 -> A] /\ \A i, k \in 1..2 : i < k => <<f, g>>[i] < <<f, g>>[k]
      BY <1>1
    <2>2. Fits(<<f, g>>)
      BY <1>1, <2>1
    <2> QED
      BY <2>2
  <1>3. InOrder(A) = CHOOSE w : Fits(w)
    BY DEF InOrder
  <1>4. Fits(InOrder(A))
    BY <1>2, <1>3
  <1> DEFINE w == InOrder(A)
  <1>5. w \in [1..2 -> A] /\ \A i, k \in 1..2 : i < k => w[i] < w[k]
    BY <1>1, <1>4
  <1> HIDE DEF w
  <1>6. w[1] \in A /\ w[2] \in A /\ w[1] < w[2]
    BY <1>1, <1>5
  <1>7. w[1] = f /\ w[2] = g
    BY <1>6
  <1>8. w \in Seq(A) /\ Len(w) = 2
    <2>1. 2 \in Nat /\ w \in [1..2 -> A]
      BY <1>5
    <2>2. w \in Seq(A)
      BY ZenonT(40), <2>1, SeqDef
    <2>3. DOMAIN w = 1..Len(w) /\ Len(w) \in Nat
      BY <2>2
    <2> QED
      BY <1>5, <2>2, <2>3
  <1>9. w = <<f, g>>
    BY <1>7, <1>8
  <1> QED
    BY <1>9 DEF w

\* A child of the combinator j is made for the input p.
ChildBox(p, j) == [NoFrame EXCEPT !.kind = "child", !.input = p, !.join = j]

Joining1(h, fr, rd, jn, ow, f, box) ==
    LET p == box.input
        k == Subscribed(h, p, f)
        g == [fr EXCEPT ![f] = box]
    IN  /\ Less(ow, p) \in [Promise -> Nat]
        /\ Held(k, InternalOf(g, jn, slot), ExternalOf(g, Less(ow, p)))
        /\ PlaceOK(k, g, rd \o WokenAtOnce(h, p, f), stack, lost)
        /\ Observed(h, k, p, f)

LEMMA JoinOne ==
    ASSUME NEW h, NEW fr, NEW rd, NEW jn, NEW ow \in [Promise -> Nat],
           Held(h, InternalOf(fr, jn, slot), ExternalOf(fr, ow)),
           PlaceOK(h, fr, rd, stack, lost),
           NEW f \in FrameId, fr[f] = NoFrame, f \notin lost,
           \A c \in FrameId : fr[c].kind # "none" => c < f,
           NEW p \in Promise, ow[p] > 0, NEW j \in JoinId
    PROVE  Joining1(h, fr, rd, jn, ow, f, ChildBox(p, j))
  <1> DEFINE box == ChildBox(p, j)
             k == Subscribed(h, box.input, f)
             g == [fr EXCEPT ![f] = box]
  <1>1. /\ box \in FrameBox /\ box.kind = "child" /\ box.input = p /\ box.output = Null
        /\ box.output \notin Promise
    BY Domains DEF ChildBox, NoFrame, FrameBox, FrameKinds, Settlement
  <1>2. fr \in [FrameId -> FrameBox] /\ fr[f].kind = "none"
    BY BoxTypes DEF PlaceOK, PlaceTypes
  <1> HIDE DEF box
  <1>3. Taking(h, fr, jn, slot, ow, f, box)
    <2>1. InternalOf(fr, jn, slot) = IF box.output \in Promise
                                     THEN More(InternalOf(fr, jn, slot), box.output)
                                     ELSE InternalOf(fr, jn, slot)
      BY <1>1
    <2> QED
      BY <1>1, <1>2, <2>1, ObserveTokens
  <1>4. /\ Less(ow, box.input) \in [Promise -> Nat] /\ h[box.input].live
        /\ Held(k, InternalOf(g, jn, slot), ExternalOf(g, Less(ow, box.input)))
    BY <1>3 DEF Taking
  <1>5. Observed(h, k, box.input, f)
    BY <1>1, <1>4, HeldSubscribe
  <1>6. PlaceOK(k, g, rd \o WokenAtOnce(h, box.input, f), stack, lost)
    <2>1. k \in [Promise -> PromiseBox]
      BY <1>4 DEF Held
    <2> HIDE DEF k
    <2>2. /\ \A q \in Promise : q # box.input => k[q] = h[q]
          /\ k[box.input].result = h[box.input].result
          /\ k[box.input].subscribers =
                IF Pending(h, box.input) THEN Append(h[box.input].subscribers, f)
                ELSE h[box.input].subscribers
      BY <1>5 DEF Observed
    <2>3. box.kind # "none" /\ box.input \in Promise
      BY <1>1
    <2> QED
      BY <1>1, <1>2, <2>1, <2>2, <2>3, PlaceAdd
  <1> QED
    BY <1>4, <1>5, <1>6 DEF Joining1, box

LEMMA FreshJoinIsFree ==
    ASSUME Inv, NEW j \in FreshJoin
    PROVE  /\ j \in JoinId /\ j = joins + 1 /\ join[j] = NoJoin
           /\ \A f \in FrameId : frame[f].join # j
  <1>1. j \in JoinId /\ j = joins + 1 /\ joins \in Nat /\ j \in Nat /\ j # Null
    BY Domains DEF FreshJoin, Inv, Types
  <1>2. JoinOK(frame, join, joinLog, joins, j)
    BY <1>1 DEF Inv, Structure
  <1>3. join[j].kind = "none"
    BY <1>1, <1>2 DEF JoinOK
  <1>4. join[j] = NoJoin
    BY <1>2, <1>3 DEF JoinOK
  <1>5. ASSUME NEW f \in FrameId, frame[f].join = j
        PROVE  FALSE
    BY <1>1, <1>3, <1>5 DEF Inv, Structure, FrameOK
  <1> QED
    BY <1>1, <1>4, <1>5

\* The frames the children of a new combinator get.
LEMMA FreshChildren ==
    ASSUME Inv, NEW n \in Nat, frames + n \in FrameId, NEW i \in 1..n
    PROVE  /\ frames + i \in FrameId /\ frame[frames + i] = NoFrame
           /\ frames + i \notin lost
           /\ \A c \in FrameId : frame[c].kind # "none" => c < frames + i
  <1> DEFINE f == frames + i
  <1>1. f \in FrameId /\ frames \in Nat /\ f \in Nat /\ f > frames
    BY Domains DEF Inv, Types, FrameId
  <1>2. \A c \in FrameId : frame[c].kind # "none" => c <= frames
    BY DEF Inv, Structure, FrameOK
  <1>3. frame[f] = NoFrame
    BY <1>1, <1>2 DEF Inv, Places, PlaceOK, PlaceTypes
  <1>4. f \notin lost
    BY <1>1 DEF Inv, Structure
  <1>5. \A c \in FrameId : frame[c].kind # "none" => c < f
    BY <1>1, <1>2, Domains
  <1> QED
    BY <1>1, <1>3, <1>4, <1>5

\* Before the first input is observed: the output q and the combinator exist.
Begun(s, q, h, o) ==
    /\ q \in Promise /\ q = born + 1
    /\ o \in [Promise -> Nat] /\ o = [owned EXCEPT ![q] = 1]
    /\ Held(h, InternalOf(frame, join', slot), ExternalOf(frame, o))
    /\ PlaceOK(h, frame, ready, stack, lost)
    /\ \A p \in Promise : p # q => h[p] = heap[p]
    /\ \A p \in Inputs(s) : p # q /\ owned[p] > 0
    /\ heap' = [p \in Promise |-> IF p \in Inputs(s) THEN JoinedBox(s, p)
                                  ELSE IF p = q THEN h[q] ELSE heap[p]]
    /\ h[q].live

LEMMA CombineBegins ==
    ASSUME Inv, NEW q \in FreshPromise, NEW s \in InputLists, NEW j \in FreshJoin,
           NEW kind \in JoinKinds, NEW invalid \in BOOLEAN, Combine(kind, s, invalid, q, j)
    PROVE  \E h, o : Begun(s, q, h, o)
  <1> DEFINE r == IF invalid THEN "rejected" ELSE "pending"
             b == [NewBox EXCEPT !.result = r]
             h == RetainInternal([heap EXCEPT ![q] = b], q)
             o == [owned EXCEPT ![q] = 1]
             I == InternalOf(frame, join, slot)
  <1>1. /\ heap' = [p \in Promise |-> IF p \in Inputs(s) THEN JoinedBox(s, p)
                                      ELSE IF p = q THEN h[q] ELSE heap[p]]
        /\ \A p \in Inputs(s) : Has(p)
        /\ join' = [join EXCEPT ![j] =
                      [kind |-> kind, output |-> q, remaining |-> Len(s),
                       done |-> invalid, counted |-> TRUE, cancelled |-> FALSE]]
    <2>1. heap' = [p \in Promise |-> IF p \in Inputs(s) THEN JoinedBox(s, p)
                                     ELSE IF p = q THEN OutputRef([heap EXCEPT ![q] = b], q)[q]
                                     ELSE heap[p]]
      BY Zenon DEF Combine
    <2>2. OutputRef([heap EXCEPT ![q] = b], q) = h
      BY DEF OutputRef
    <2> HIDE DEF h
    <2>3. heap' = [p \in Promise |-> IF p \in Inputs(s) THEN JoinedBox(s, p)
                                     ELSE IF p = q THEN h[q] ELSE heap[p]]
      BY <2>1, <2>2
    <2>4. \A p \in Inputs(s) : Has(p)
      BY Zenon DEF Combine
    <2>5. join' = [join EXCEPT ![j] =
                     [kind |-> kind, output |-> q, remaining |-> Len(s),
                      done |-> invalid, counted |-> TRUE, cancelled |-> FALSE]]
      BY Zenon DEF Combine
    <2> QED
      BY <2>3, <2>4, <2>5
  <1>2. /\ b \in PromiseBox /\ Holds(b, 0, 1) /\ b.live = TRUE /\ b.subscribers = <<>>
    <2>1. r \in {"pending"} \cup Settlement
      BY DEF Settlement
    <2> HIDE DEF r
    <2> QED
      BY <2>1, NewBoxAs
  <1> HIDE DEF b
  <1>3. /\ o \in [Promise -> Nat] /\ owned[q] = 0
        /\ Held(h, More(I, q), ExternalOf(frame, o))
        /\ PlaceOK(h, frame, ready, stack, lost)
        /\ SameData(b, h[q])
        /\ \A p \in Promise : p # q => h[p] = heap[p]
    <2>1. OutputBorn(q, b, h, o)
      BY <1>2, BirthOfOutput
    <2> HIDE DEF h, o, I
    <2> QED
      BY <2>1 DEF OutputBorn, I
  <1>4. q \in Promise /\ q = born + 1 /\ owned \in [Promise -> Nat]
    BY FreshIsDead DEF Inv, Types
  <1>5. /\ j \in JoinId /\ join \in [JoinId -> JoinBox] /\ join[j].output \notin Promise
    BY FreshJoinIsFree, BoxTypes, Domains DEF Inv, Types
  <1>6. join'[j].output = q /\ \A c \in JoinId : c # j => join'[c] = join[c]
    BY <1>1, <1>5
  <1>7. JoinedTokens(frame, join, join', slot, j, q)
    BY <1>4, <1>5, <1>6, JoinTokens
  <1>8. InternalOf(frame, join', slot) = More(I, q)
    BY <1>5, <1>7 DEF JoinedTokens
  <1>9. \A p \in Inputs(s) : p # q /\ owned[p] > 0
    BY <1>1, <1>3 DEF Has
  <1>10. h[q].live
    BY <1>2, <1>3 DEF SameData
  <1> HIDE DEF h, I
  <1>11. Begun(s, q, h, o)
    BY <1>1, <1>3, <1>4, <1>8, <1>9, <1>10 DEF Begun
  <1> QED
    BY <1>11

\* Input i gets child i.
LEMMA JoinedIs ==
    ASSUME NEW s, NEW i \in 1..Len(s), NEW p, s[i] = p, \A k \in 1..Len(s) : s[k] = p => k = i
    PROVE  JoinedBox(s, p) = SubscribeBox(heap[p], frames + i)
  <1>1. (CHOOSE k \in 1..Len(s) : s[k] = p) = i
    OBVIOUS
  <1> QED
    BY <1>1 DEF JoinedBox, SubscribeBox, Pending, Child

\* All inputs are observed.
Listed(q) ==
    /\ Held(heap', InternalOf(frame', join', slot), ExternalOf(frame', owned'))
    /\ owned' \in [Promise -> Nat]
    /\ PlaceOK(heap', frame', ready', stack, lost)
    /\ \A p \in Promise : p # q => heap'[p].live = heap[p].live

\* What Combine assigns besides the heap.
Assigned(s, q, j) ==
    /\ frames + Len(s) \in FrameId
    /\ frame' = [f \in FrameId |-> IF f \in frames + 1 .. frames + Len(s)
                                   THEN ChildBox(s[f - frames], j) ELSE frame[f]]
    /\ ready' = ready \o InOrder({Child(i) : i \in {k \in 1..Len(s) : ~Pending(heap, s[k])}})
    /\ owned' = Handed(Inputs(s), {q})

LEMMA ListOne ==
    ASSUME Inv, NEW q, NEW s, NEW j \in FreshJoin, NEW h, NEW o, Begun(s, q, h, o),
           Assigned(s, q, j), NEW p, OneInput(s, p)
    PROVE  Listed(q)
  <1> DEFINE f == frames + 1
             k == Subscribed(h, p, f)
             g == [frame EXCEPT ![f] = ChildBox(p, j)]
  <1>1. /\ q \in Promise /\ o \in [Promise -> Nat] /\ o = [owned EXCEPT ![q] = 1]
        /\ Held(h, InternalOf(frame, join', slot), ExternalOf(frame, o))
        /\ PlaceOK(h, frame, ready, stack, lost)
        /\ \A c \in Promise : c # q => h[c] = heap[c]
        /\ p # q /\ owned[p] > 0 /\ o[p] > 0 /\ p \in Promise /\ h[p] = heap[p]
        /\ owned \in [Promise -> Nat] /\ h \in [Promise -> PromiseBox]
    BY DEF Begun, OneInput, Inv, Types, Held
  <1>2. /\ frames \in Nat /\ Len(s) = 1 /\ s[1] = p /\ Inputs(s) = {p} /\ j \in JoinId
    BY FreshJoinIsFree DEF OneInput, Inv, Types
  <1>3. /\ f \in FrameId /\ frame[f] = NoFrame /\ f \notin lost
        /\ \A c \in FrameId : frame[c].kind # "none" => c < f
    <2>1. 1 \in Nat /\ frames + 1 \in FrameId /\ 1 \in 1..1
      BY <1>2 DEF Assigned
    <2> QED
      BY <2>1, FreshChildren
  <1>4. Joining1(h, frame, ready, join', o, f, ChildBox(p, j))
    BY <1>1, <1>2, <1>3, JoinOne
  <1>5. ChildBox(p, j).input = p
    BY DEF ChildBox, NoFrame
  <1>6. /\ Less(o, p) \in [Promise -> Nat]
        /\ Held(k, InternalOf(g, join', slot), ExternalOf(g, Less(o, p)))
        /\ PlaceOK(k, g, ready \o WokenAtOnce(h, p, f), stack, lost)
        /\ Observed(h, k, p, f)
    BY <1>4, <1>5 DEF Joining1
  <1>7. frame' = g
    <2>1. frame' = [c \in FrameId |-> IF c \in f..f THEN ChildBox(s[c - frames], j) ELSE frame[c]]
      BY <1>2 DEF Assigned
    <2>2. frame \in [FrameId -> FrameBox] /\ FrameId \subseteq Nat
      BY Domains DEF Inv, Places, PlaceOK, PlaceTypes
    <2>3. ASSUME NEW c \in FrameId
          PROVE  frame'[c] = g[c]
      <3>1. c \in f..f <=> c = f
        BY <1>2, <2>2
      <3>2. f - frames = 1
        BY <1>2
      <3> QED
        BY <1>2, <2>1, <2>2, <3>1, <3>2
    <2> QED
      BY <2>1, <2>2, <2>3
  <1>8. ready' = ready \o WokenAtOnce(h, p, f)
    <2> DEFINE A == {Child(i) : i \in {n \in 1..Len(s) : ~Pending(heap, s[n])}}
    <2>1. ready' = ready \o InOrder(A)
      BY DEF Assigned
    <2>2. 1..Len(s) = {1} /\ Child(1) = f
      BY <1>2 DEF Child
    <2>3. Pending(h, p) <=> Pending(heap, p)
      BY <1>1 DEF Pending
    <2>4. CASE Pending(heap, p)
      <3>1. A = {}
        BY <1>2, <2>2, <2>4
      <3>2. InOrder(A) = <<>>
        BY <3>1, OrderOfNone
      <3> QED
        BY <2>1, <2>3, <2>4, <3>2 DEF WokenAtOnce
    <2>5. CASE ~Pending(heap, p)
      <3>1. {n \in 1..Len(s) : ~Pending(heap, s[n])} = {1}
        BY <1>2, <2>2, <2>5
      <3>2. A = {f} /\ f \in Nat
        BY <1>2, <2>2, <3>1
      <3>3. InOrder(A) = <<f>>
        BY <3>2, OrderOfOne
      <3> QED
        BY <2>1, <2>3, <2>5, <3>3 DEF WokenAtOnce
    <2> QED
      BY <2>4, <2>5
  <1>9. owned' = Less(o, p)
    <2>1. owned' = Handed({p}, {q})
      BY <1>2 DEF Assigned
    <2> QED
      BY <1>1, <2>1 DEF Handed, Less
  <1>10. heap' = k
    <2>1. heap' = [c \in Promise |-> IF c \in {p} THEN JoinedBox(s, c)
                                     ELSE IF c = q THEN h[q] ELSE heap[c]]
      BY <1>2 DEF Begun
    <2>2. k = [h EXCEPT ![p] = SubscribeBox(h[p], f)]
      <3>1. h \in [Promise -> PromiseBox] /\ p \in Promise
        BY <1>1
      <3> HIDE DEF f
      <3> QED
        BY <3>1, SubscribeIs
    <2>3. JoinedBox(s, p) = SubscribeBox(heap[p], f)
      <3>1. 1 \in 1..Len(s) /\ \A n \in 1..Len(s) : s[n] = p => n = 1
        BY <1>2
      <3> QED
        BY <1>2, <3>1, JoinedIs
    <2> QED
      BY <1>1, <2>1, <2>2, <2>3
  <1>11. \A c \in Promise : c # q => k[c].live = heap[c].live
    BY <1>1, <1>6 DEF Observed
  <1> HIDE DEF k, g, f
  <1> QED
    BY <1>6, <1>7, <1>8, <1>9, <1>10, <1>11 DEF Listed

LEMMA ListTwo ==
    ASSUME Inv, NEW q, NEW s, NEW j \in FreshJoin, NEW h, NEW o, Begun(s, q, h, o),
           Assigned(s, q, j), NEW p, NEW c, TwoInputs(s, p, c)
    PROVE  Listed(q)
  <1> DEFINE f == frames + 1
             e == frames + 2
             k == Subscribed(h, p, f)
             l == Subscribed(k, c, e)
             g == [frame EXCEPT ![f] = ChildBox(p, j)]
             d == [g EXCEPT ![e] = ChildBox(c, j)]
             rd == ready \o WokenAtOnce(h, p, f)
  <1>1. /\ q \in Promise /\ o \in [Promise -> Nat] /\ o = [owned EXCEPT ![q] = 1]
        /\ Held(h, InternalOf(frame, join', slot), ExternalOf(frame, o))
        /\ PlaceOK(h, frame, ready, stack, lost)
        /\ \A b \in Promise : b # q => h[b] = heap[b]
        /\ p # q /\ owned[p] > 0 /\ o[p] > 0 /\ p \in Promise /\ h[p] = heap[p]
        /\ c # q /\ owned[c] > 0 /\ o[c] > 0 /\ c \in Promise /\ h[c] = heap[c] /\ p # c
        /\ owned \in [Promise -> Nat] /\ h \in [Promise -> PromiseBox]
    BY DEF Begun, TwoInputs, Inv, Types, Held
  <1>2. /\ frames \in Nat /\ Len(s) = 2 /\ s[1] = p /\ s[2] = c /\ Inputs(s) = {p, c}
        /\ j \in JoinId
    BY SMTT(30), FreshJoinIsFree DEF TwoInputs, Inv, Types
  <1>3. /\ f \in FrameId /\ frame[f] = NoFrame /\ f \notin lost
        /\ \A b \in FrameId : frame[b].kind # "none" => b < f
    <2>1. 2 \in Nat /\ frames + 2 \in FrameId /\ 1 \in 1..2
      BY <1>2 DEF Assigned
    <2> QED
      BY <2>1, FreshChildren
  <1>4. /\ e \in FrameId /\ frame[e] = NoFrame /\ e \notin lost
        /\ \A b \in FrameId : frame[b].kind # "none" => b < e
    <2>1. 2 \in Nat /\ frames + 2 \in FrameId /\ 2 \in 1..2
      BY <1>2 DEF Assigned
    <2> QED
      BY <2>1, FreshChildren
  <1>5. f \in Nat /\ e \in Nat /\ f < e /\ frame \in [FrameId -> FrameBox]
    BY <1>2 DEF Inv, Places, PlaceOK, PlaceTypes
  <1>6. Joining1(h, frame, ready, join', o, f, ChildBox(p, j))
    BY <1>1, <1>2, <1>3, JoinOne
  <1>7. ChildBox(p, j).input = p /\ ChildBox(c, j).input = c
    BY DEF ChildBox, NoFrame
  <1>8. /\ Less(o, p) \in [Promise -> Nat]
        /\ Held(k, InternalOf(g, join', slot), ExternalOf(g, Less(o, p)))
        /\ PlaceOK(k, g, rd, stack, lost)
        /\ Observed(h, k, p, f)
    BY <1>6, <1>7 DEF Joining1
  <1>9. /\ g[e] = NoFrame /\ \A b \in FrameId : g[b].kind # "none" => b < e
    BY <1>3, <1>4, <1>5
  <1>10. Less(o, p)[c] > 0
    BY <1>1 DEF Less
  <1> HIDE DEF f, e, g, k, rd
  <1>11. Joining1(k, g, rd, join', Less(o, p), e, ChildBox(c, j))
    BY <1>1, <1>2, <1>4, <1>8, <1>9, <1>10, JoinOne
  <1>12. /\ Less(Less(o, p), c) \in [Promise -> Nat]
         /\ Held(l, InternalOf(d, join', slot), ExternalOf(d, Less(Less(o, p), c)))
         /\ PlaceOK(l, d, rd \o WokenAtOnce(k, c, e), stack, lost)
         /\ Observed(k, l, c, e)
    BY <1>7, <1>11 DEF Joining1
  <1>13. frame' = d
    <2>1. frame' = [b \in FrameId |-> IF b \in f..e THEN ChildBox(s[b - frames], j) ELSE frame[b]]
      BY <1>2 DEF Assigned, f, e
    <2>2. FrameId \subseteq Nat
      BY Domains
    <2>3. ASSUME NEW b \in FrameId
          PROVE  frame'[b] = d[b]
      <3>1. b \in f..e <=> b = f \/ b = e
        BY <1>2, <2>2 DEF f, e
      <3>2. f - frames = 1 /\ e - frames = 2
        BY <1>2 DEF f, e
      <3> QED
        BY <1>2, <1>3, <1>4, <1>5, <2>1, <3>1, <3>2 DEF g
    <2>4. DOMAIN d = FrameId
      BY <1>5 DEF g
    <2> HIDE DEF d
    <2> QED
      BY <2>1, <2>3, <2>4, <1>5 DEF d, g
  <1>14. ready' = rd \o WokenAtOnce(k, c, e)
    <2> DEFINE A == {Child(i) : i \in {n \in 1..Len(s) : ~Pending(heap, s[n])}}
               N == {n \in 1..Len(s) : ~Pending(heap, s[n])}
    <2>1. ready' = ready \o InOrder(A) /\ ready \in Seq(FrameId)
      BY <1>1 DEF Assigned, PlaceOK, PlaceTypes
    <2>2. 1..Len(s) = {1, 2} /\ Child(1) = f /\ Child(2) = e
      BY <1>2 DEF Child, f, e
    <2>3. (Pending(h, p) <=> Pending(heap, p)) /\ (Pending(k, c) <=> Pending(heap, c))
      BY <1>1, <1>8 DEF Pending, Observed
    <2>4. WokenAtOnce(h, p, f) = (IF Pending(heap, p) THEN <<>> ELSE <<f>>)
          /\ WokenAtOnce(k, c, e) = (IF Pending(heap, c) THEN <<>> ELSE <<e>>)
      BY <2>3 DEF WokenAtOnce
    <2>5. \A S : \A t \in Seq(S) : t \o <<>> = t
      BY ConcatEmptySeq
    <2>6. CASE Pending(heap, p) /\ Pending(heap, c)
      <3>1. A = {}
        BY <1>2, <2>2, <2>6
      <3>2. InOrder(A) = <<>>
        BY <3>1, OrderOfNone
      <3> QED
        BY <2>1, <2>4, <2>5, <2>6, <3>2 DEF rd
    <2>7. CASE ~Pending(heap, p) /\ Pending(heap, c)
      <3>1. N = {1}
        BY <1>2, <2>2, <2>7
      <3>2. A = {f}
        BY <2>2, <3>1
      <3>3. InOrder(A) = <<f>>
        BY <1>5, <3>2, OrderOfOne
      <3>4. ready \o <<f>> \in Seq(FrameId)
        BY <1>3, <2>1
      <3> QED
        BY <2>1, <2>4, <2>5, <2>7, <3>3, <3>4 DEF rd
    <2>8. CASE Pending(heap, p) /\ ~Pending(heap, c)
      <3>1. N = {2}
        BY <1>2, <2>2, <2>8
      <3>2. A = {e}
        BY <2>2, <3>1
      <3>3. InOrder(A) = <<e>>
        BY <1>5, <3>2, OrderOfOne
      <3> QED
        BY <2>1, <2>4, <2>5, <2>8, <3>3 DEF rd
    <2>9. CASE ~Pending(heap, p) /\ ~Pending(heap, c)
      <3>1. N = {1, 2}
        BY <1>2, <2>2, <2>9
      <3>2. A = {f, e}
        BY <2>2, <3>1
      <3>3. InOrder(A) = <<f, e>>
        BY <1>5, <3>2, OrderOfTwo
      <3>4. <<f>> \in Seq(FrameId) /\ <<e>> \in Seq(FrameId) /\ <<f>> \o <<e>> = <<f, e>>
        <4>1. f \in FrameId /\ e \in FrameId
          BY <1>3, <1>4
        <4>2. <<f>> \in Seq(FrameId) /\ <<e>> \in Seq(FrameId) /\ <<f, e>> \in Seq(FrameId)
          BY <4>1
        <4>3. Append(<<f>>, e) = <<f>> \o <<e>>
          BY <4>1, <4>2, AppendIsConcat
        <4>4. Append(<<f>>, e) = <<f, e>>
          <5>1. /\ Append(<<f>>, e) \in Seq(FrameId)
                /\ Len(Append(<<f>>, e)) = 2 /\ Len(<<f, e>>) = 2
            BY <4>1, <4>2
          <5>2. \A i \in 1..2 : Append(<<f>>, e)[i] = <<f, e>>[i]
            <6>1. Append(<<f>>, e)[1] = f /\ Append(<<f>>, e)[2] = e
              BY <4>1, <4>2
            <6>2. <<f, e>>[1] = f /\ <<f, e>>[2] = e /\ 1..2 = {1, 2}
              OBVIOUS
            <6> QED
              BY <6>1, <6>2
          <5> QED
            BY <4>2, <5>1, <5>2, SeqEqual
        <4> QED
          BY <4>2, <4>3, <4>4
      <3>5. (ready \o <<f>>) \o <<e>> = ready \o (<<f>> \o <<e>>)
        BY <2>1, <3>4, ConcatAssociative
      <3> QED
        BY <2>1, <2>4, <2>9, <3>3, <3>4, <3>5 DEF rd
    <2> QED
      BY <2>6, <2>7, <2>8, <2>9
  <1>15. owned' = Less(Less(o, p), c)
    <2>1. owned' = Handed({p, c}, {q})
      BY <1>2 DEF Assigned
    <2> QED
      BY <1>1, <2>1 DEF Handed, Less
  <1>16. heap' = l
    <2>1. heap' = [b \in Promise |-> IF b \in {p, c} THEN JoinedBox(s, b)
                                     ELSE IF b = q THEN h[q] ELSE heap[b]]
      BY <1>2 DEF Begun
    <2>2. k = [h EXCEPT ![p] = SubscribeBox(h[p], f)]
      <3>1. h \in [Promise -> PromiseBox] /\ p \in Promise
        BY <1>1
      <3> QED
        <4>1. Subscribed(h, p, f) = [h EXCEPT ![p] = SubscribeBox(h[p], f)]
          BY <3>1 DEF Subscribed, SubscribeBox, Pending
        <4> QED
          BY <4>1 DEF k
    <2>3. k \in [Promise -> PromiseBox]
      BY <1>8 DEF Held
    <2>4. l = [k EXCEPT ![c] = SubscribeBox(k[c], e)]
      <3>1. c \in Promise
        BY <1>1
      <3> QED
        BY <2>3, <3>1, SubscribeIs
    <2>5. JoinedBox(s, p) = SubscribeBox(heap[p], f)
      <3>1. 1 \in 1..Len(s) /\ \A n \in 1..Len(s) : s[n] = p => n = 1
        BY <1>1, <1>2
      <3> QED
        BY <1>2, <3>1, JoinedIs DEF f
    <2>6. JoinedBox(s, c) = SubscribeBox(heap[c], e)
      <3>1. 2 \in 1..Len(s) /\ \A n \in 1..Len(s) : s[n] = c => n = 2
        BY <1>1, <1>2
      <3> QED
        BY <1>2, <3>1, JoinedIs DEF e
    <2> HIDE DEF l
    <2> QED
      BY <1>1, <2>1, <2>2, <2>3, <2>4, <2>5, <2>6
  <1>17. \A b \in Promise : b # q => l[b].live = heap[b].live
    BY <1>1, <1>8, <1>12 DEF Observed
  <1> HIDE DEF l, d
  <1> QED
    BY <1>12, <1>13, <1>14, <1>15, <1>16, <1>17 DEF Listed

\* The new combinator has one child for each input.
LEMMA CombineStructure ==
    ASSUME Inv, NEW q \in Promise, NEW s \in InputLists, NEW j \in FreshJoin,
           NEW kind \in JoinKinds, NEW invalid \in BOOLEAN, Assigned(s, q, j),
           frames' = frames + Len(s), joins' = j, lost' = lost, activeJoins' = activeJoins + 1,
           join' = [join EXCEPT ![j] =
                      [kind |-> kind, output |-> q, remaining |-> Len(s),
                       done |-> invalid, counted |-> TRUE, cancelled |-> FALSE]],
           joinLog' = [joinLog EXCEPT ![j] =
                         [kind |-> kind, output |-> q, left |-> Len(s), seen |-> <<>>,
                          invalid |-> invalid, cancelled |-> FALSE]]
    PROVE  Structure' /\ join' \in [JoinId -> JoinBox] /\ joinLog' \in [JoinId -> LogEntry]
  <1> DEFINE n == Len(s)
             N == frames + 1 .. frames + n
  <1>1. n \in Nat /\ n > 0 /\ \A i \in 1..n : s[i] \in Promise
    <2>1. CASE \E p : OneInput(s, p)
      <3>1. PICK p : OneInput(s, p)
        BY <2>1
      <3>2. 1..1 = {1}
        OBVIOUS
      <3> QED
        BY <3>1, <3>2 DEF OneInput
    <2>2. CASE \E p, c : TwoInputs(s, p, c)
      <3>1. PICK p, c : TwoInputs(s, p, c)
        BY <2>2
      <3>2. 1..2 = {1, 2}
        OBVIOUS
      <3> QED
        BY <3>1, <3>2 DEF TwoInputs
    <2> QED
      BY <2>1, <2>2, ListCases
  <1> HIDE DEF n
  <1>2. /\ j \in JoinId /\ j \in Nat /\ j # Null /\ j = joins + 1 /\ joins \in Nat
        /\ join[j] = NoJoin /\ \A f \in FrameId : frame[f].join # j
        /\ frames \in Nat /\ join \in [JoinId -> JoinBox] /\ joinLog \in [JoinId -> LogEntry]
    <2>1. /\ j \in JoinId /\ j = joins + 1 /\ join[j] = NoJoin
          /\ \A f \in FrameId : frame[f].join # j
      BY FreshJoinIsFree
    <2>2. j \in Nat /\ j # Null
      BY <2>1, Domains
    <2>3. /\ joins \in Nat /\ frames \in Nat
          /\ join \in [JoinId -> JoinBox] /\ joinLog \in [JoinId -> LogEntry]
      BY DEF Inv, Types
    <2> QED
      BY <2>1, <2>2, <2>3
  <1>3. /\ join'[j] = [kind |-> kind, output |-> q, remaining |-> n,
                       done |-> invalid, counted |-> TRUE, cancelled |-> FALSE]
        /\ \A c \in JoinId : c # j => join'[c] = join[c]
    BY <1>2 DEF n
  <1>4. /\ joinLog'[j].left = n
        /\ \A c \in JoinId : c # j => joinLog'[c] = joinLog[c]
    BY <1>2 DEF n
  <1>5. \A f \in N : f \in FrameId /\ f > frames
    BY <1>1, <1>2, Domains DEF Assigned, FrameId, n
  <1>6. \A f \in FrameId : f \notin N => frame'[f] = frame[f]
    BY DEF Assigned, n
  <1>7. \A f \in N : frame'[f] = ChildBox(s[f - frames], j)
    BY <1>5 DEF Assigned, n
  <1>8. \A f \in N : /\ frame'[f].kind = "child" /\ frame'[f].join = j
                     /\ frame'[f].output = Null
    <2>1. ASSUME NEW p
          PROVE  /\ ChildBox(p, j).kind = "child" /\ ChildBox(p, j).join = j
                 /\ ChildBox(p, j).output = Null
      BY DEF ChildBox, NoFrame
    <2> HIDE DEF N
    <2> QED
      BY <1>7, <2>1
  <1>9. \A f \in N : frame[f].kind = "none"
    <2>1. ASSUME NEW f \in N
          PROVE  frame[f].kind = "none"
      <3>1. f \in FrameId /\ f > frames /\ f \in Nat
        BY <1>5, Domains
      <3>2. FrameOK(frame, join, frames, f)
        BY <3>1 DEF Inv, Structure
      <3> QED
        BY <1>2, <3>1, <3>2 DEF FrameOK
    <2> QED
      BY <2>1
  <1> HIDE DEF N
  <1>10. ASSUME NEW f \in FrameId
         PROVE  FrameOK(frame', join', frames', f)
    <2>1. CASE f \in N
      <3>1. f <= frames'
        BY <2>1, <1>1, <1>2 DEF N, n
      <3>2. join'[j].kind # "none"
        BY <1>3 DEF JoinKinds
      <3>3. /\ frame'[f].kind = "child" /\ frame'[f].join = j /\ frame'[f].output = Null
            /\ Null \notin Promise /\ j # Null
        BY <1>2, <1>8, <2>1, Domains
      <3> QED
        BY <3>1, <3>2, <3>3 DEF FrameOK
    <2>2. CASE f \notin N
      <3>1. FrameOK(frame, join, frames, f) /\ frame'[f] = frame[f] /\ frame[f] \in FrameBox
        BY <1>6, <2>2 DEF Inv, Structure, Places, PlaceOK, PlaceTypes
      <3>2. frames' \in Nat /\ frames <= frames' /\ f \in Nat
        BY <1>1, <1>2, Domains DEF n
      <3>3. frame[f].join # Null => join'[frame[f].join] = join[frame[f].join]
        BY <1>2, <1>3, <3>1 DEF FrameBox
      <3> QED
        BY <1>2, <3>1, <3>2, <3>3 DEF FrameOK
    <2> QED
      BY <2>1, <2>2
  <1>11. Children(frame', j) = N
    BY <1>2, <1>5, <1>6, <1>8 DEF Children
  <1>12. Cardinality(N) = n
    <2>0. frames \in Nat /\ n \in Nat /\ n > 0
      BY <1>1, <1>2
    <2>1. PICK a \in Int, b \in Int : a = frames + 1 /\ b = frames + n
      BY <2>0
    <2>2. Cardinality(a..b) = IF a > b THEN 0 ELSE b - a + 1
      BY FS_Interval
    <2>3. ~(a > b) /\ b - a + 1 = n
      BY <2>0, <2>1
    <2> QED
      BY <2>1, <2>2, <2>3 DEF N
  <1>13. ASSUME NEW c \in JoinId
         PROVE  JoinOK(frame', join', joinLog', joins', c)
    <2>1. CASE c = j
      BY <1>1, <1>2, <1>3, <1>4, <1>11, <1>12, <2>1 DEF JoinOK, JoinKinds
    <2>2. CASE c # j
      <3>1. c # Null /\ c \in Nat
        BY Domains
      <3>2. Children(frame', c) = Children(frame, c)
        <4>1. ASSUME NEW f \in FrameId
              PROVE  frame'[f].join = c <=> frame[f].join = c
          <5>1. CASE f \in N
            <6>1. frame[f] = NoFrame
              BY <1>9, <5>1 DEF Inv, Places, PlaceOK, PlaceTypes
            <6> QED
              BY <1>8, <2>2, <3>1, <5>1, <6>1, BoxTypes
          <5>2. CASE f \notin N
            BY <1>6, <5>2
          <5> QED
            BY <5>1, <5>2
        <4> QED
          BY <4>1 DEF Children
      <3>3. JoinOK(frame, join, joinLog, joins, c)
        BY DEF Inv, Structure
      <3> QED
        BY <1>2, <1>3, <1>4, <2>2, <3>1, <3>2, <3>3 DEF JoinOK
    <2> QED
      BY <2>1, <2>2
  <1>14. activeJoins' = Cardinality(Counting(join'))
    <2> DEFINE A == Counting(join)
               B == Counting(join')
    <2>1. A \subseteq JoinId /\ B \subseteq JoinId
      BY DEF Counting
    <2>2. \A c \in JoinId : c # j => (c \in A <=> c \in B)
      BY <1>3 DEF Counting, Counted
    <2>3. j \notin A /\ j \in B
      BY <1>2, <1>3, BoxTypes DEF Counting, Counted, JoinKinds
    <2>4. activeJoins = Cardinality(A)
      BY DEF Inv, Structure
    <2> HIDE DEF A, B
    <2>5. /\ Cardinality(A) \in Nat /\ Cardinality(B) \in Nat
          /\ Cardinality(B) = Cardinality(A) + (IF j \in B THEN 1 ELSE 0)
                                              - (IF j \in A THEN 1 ELSE 0)
          /\ j \in A => Cardinality(A) > 0
      <3>1. IsFiniteSet(JoinId)
        BY Domains
      <3>2. j \in JoinId
        BY <1>2
      <3> QED
        BY <2>1, <2>2, <3>1, <3>2, OneDiffers
    <2>6. activeJoins' = Cardinality(B)
      BY <2>3, <2>4, <2>5
    <2> QED
      BY <2>6 DEF B
  <1>15. lost' \subseteq 1..frames'
    BY <1>1, <1>2 DEF Inv, Structure, n
  <1>16. Structure'
    BY <1>10, <1>13, <1>14, <1>15 DEF Structure
  <1>17. join' \in [JoinId -> JoinBox]
    <2>1. join'[j] \in JoinBox
      <3>1. join'[j] = [kind |-> kind, output |-> q, remaining |-> n,
                        done |-> invalid, counted |-> TRUE, cancelled |-> FALSE]
        BY <1>3
      <3>2. n \in Nat
        BY <1>1
      <3>3. [kind |-> kind, output |-> q, remaining |-> n,
             done |-> invalid, counted |-> TRUE, cancelled |-> FALSE] \in JoinBox
        BY <3>2 DEF JoinBox
      <3> QED
        BY <3>1, <3>3
    <2> QED
      BY <1>2, <2>1
  <1>18. joinLog' \in [JoinId -> LogEntry]
    <2>1. <<>> \in Seq(Settlement)
      OBVIOUS
    <2>2. [kind |-> kind, output |-> q, left |-> n, seen |-> <<>>,
           invalid |-> invalid, cancelled |-> FALSE] \in LogEntry
      BY <1>1, <2>1 DEF LogEntry
    <2> QED
      BY <1>2, <2>2 DEF n
  <1> QED
    BY <1>16, <1>17, <1>18

LEMMA CombineStep ==
    ASSUME Inv, NEW q \in FreshPromise, NEW s \in InputLists, NEW j \in FreshJoin,
           NEW kind \in JoinKinds, NEW invalid \in BOOLEAN, Combine(kind, s, invalid, q, j)
    PROVE  Inv'
  <1>1. PICK h, o : Begun(s, q, h, o)
    BY CombineBegins
  <1>2. Assigned(s, q, j)
    <2>1. /\ frames + Len(s) \in FrameId /\ owned' = Handed(Inputs(s), {q})
          /\ ready' = ready \o InOrder({Child(i) : i \in {k \in 1..Len(s) : ~Pending(heap, s[k])}})
      BY Zenon DEF Combine
    <2>2. frame' = [f \in FrameId |->
                      IF f \in frames + 1 .. frames + Len(s)
                      THEN [NoFrame EXCEPT !.kind = "child", !.input = s[f - frames], !.join = j]
                      ELSE frame[f]]
      BY Zenon DEF Combine
    <2>3. \A p \in Promise \cup {Null} :
             ChildBox(p, j) = [NoFrame EXCEPT !.kind = "child", !.input = p, !.join = j]
      BY DEF ChildBox
    <2> QED
      BY <2>1, <2>2, Zenon DEF Assigned, ChildBox
  <1>3. Listed(q)
    BY <1>1, <1>2, ListCases, ListOne, ListTwo
  <1>4. /\ born' = q /\ joins' = j /\ frames' = frames + Len(s)
        /\ activeJoins' = activeJoins + 1
        /\ pendingHandled' = pendingHandled + Late(heap, Inputs(s))
        /\ observed' = observed \cup Inputs(s)
    BY Zenon DEF Combine
  <1>5. UNCHANGED <<slot, stack, timers, fdWaits, orphaned, batches, purges, resolvable,
                    reports, notices, forced, lost>>
    BY Zenon DEF Combine
  <1>6. /\ join' = [join EXCEPT ![j] =
                      [kind |-> kind, output |-> q, remaining |-> Len(s),
                       done |-> invalid, counted |-> TRUE, cancelled |-> FALSE]]
        /\ joinLog' = [joinLog EXCEPT ![j] =
                         [kind |-> kind, output |-> q, left |-> Len(s), seen |-> <<>>,
                          invalid |-> invalid, cancelled |-> FALSE]]
    BY Zenon DEF Combine
  <1>7. q \in Promise /\ q = born + 1 /\ ~heap[q].live
    BY FreshIsDead
  <1>8. Structure' /\ join' \in [JoinId -> JoinBox] /\ joinLog' \in [JoinId -> LogEntry]
    BY <1>2, <1>4, <1>5, <1>6, <1>7, CombineStructure
  <1>9. Tokens'
    BY <1>3, <1>5 DEF Listed, Tokens
  <1>10. Places'
    BY <1>3, <1>5 DEF Listed, Places
  <1>11. Inputs(s) \subseteq Promise
    BY ListCases DEF OneInput, TwoInputs
  <1>12. Types'
    <2>1. born' \in 0..MaxPromises /\ frames' \in 0..MaxFrames /\ joins' \in 0..MaxJoins
      <3>1. /\ q \in 1..MaxPromises /\ frames + Len(s) \in 1..MaxFrames /\ j \in 1..MaxJoins
        BY <1>2, <1>7, FreshJoinIsFree DEF Promise, FrameId, JoinId, Assigned
      <3>2. MaxPromises \in Nat /\ MaxFrames \in Nat /\ MaxJoins \in Nat
        BY Domains
      <3> QED
        BY <1>4, <3>1, <3>2
    <2>2. pendingHandled' \in Nat
      <3>1. Late(heap, Inputs(s)) \in Nat
        BY <1>11, LateType
      <3> QED
        BY <1>4, <3>1 DEF Inv, Types
    <2>3. observed' \subseteq Promise /\ owned' \in [Promise -> Nat]
      BY <1>3, <1>4, <1>11 DEF Inv, Types, Listed
    <2> QED
      BY <1>5, <1>8, <2>1, <2>2, <2>3 DEF Inv, Types
  <1>13. Lives'
    <2>1. \A p \in Promise : p # q => heap'[p].live = heap[p].live
      BY <1>3 DEF Listed
    <2>2. born \in Nat /\ Promise \subseteq Nat /\ born' = born + 1
      BY <1>4, <1>7, Domains DEF Inv, Types
    <2>3. ASSUME NEW p \in Promise, heap'[p].live
          PROVE  p <= born'
      <3>1. p = q \/ p <= born
        BY <2>1, <2>3 DEF Inv, Lives
      <3> QED
        BY <1>4, <1>7, <2>2, <3>1
    <2>4. ASSUME NEW p \in timers' \cup fdWaits'
          PROVE  heap'[p].live
      <3>1. p \in Promise /\ heap[p].live
        BY <1>5, <2>4 DEF Inv, Types, Lives
      <3> QED
        BY <1>7, <2>1, <3>1
    <2> QED
      BY <2>3, <2>4 DEF Lives
  <1> QED
    BY <1>8, <1>9, <1>10, <1>12, <1>13 DEF Inv

LEMMA CombinatorsStep == Inv /\ Combinators => Inv'
  <1> SUFFICES ASSUME Inv, NEW q \in FreshPromise, NEW s \in InputLists,
                      \/ \E j \in FreshJoin, kind \in JoinKinds, invalid \in BOOLEAN :
                            Combine(kind, s, invalid, q, j)
                      \/ AllSettledRefused(s, q)
               PROVE  Inv'
    BY DEF Combinators
  <1>1. CASE \E j \in FreshJoin, kind \in JoinKinds, invalid \in BOOLEAN :
                Combine(kind, s, invalid, q, j)
    <2>1. PICK j \in FreshJoin, kind \in JoinKinds, invalid \in BOOLEAN :
                Combine(kind, s, invalid, q, j)
      BY <1>1
    <2> QED
      BY <2>1, CombineStep
  <1>2. CASE AllSettledRefused(s, q)
    BY <1>2, AllSettledRefusedStep
  <1> QED
    BY <1>1, <1>2

LEMMA PollStep == Inv /\ Poll => Inv'
  BY ResumeAwaitStep, ResumeDetachStep, ResumeChainStep, ResumeForwardStep,
     ResumeFinallyAdoptStep, ResumeInertStep, ResumeChildStep, PollIdleStep, ReportHandledStep,
     ReportFirstStep
     DEF Poll

-----------------------------------------------------------------------------
(* The theorems.                                                           *)

LEMMA NextInv == Inv /\ [Next]_vars => Inv'
  <1> SUFFICES ASSUME Inv, [Next]_vars
               PROVE  Inv'
    OBVIOUS
  <1>1. CASE Create
    BY <1>1, CreateStep
  <1>2. CASE UseToken
    BY <1>2, UseTokenStep
  <1>3. CASE Subscribe
    BY <1>3, SubscribeStep
  <1>4. CASE Combinators
    BY <1>4, CombinatorsStep
  <1>5. CASE Poll
    BY <1>5, PollStep
  <1>6. CASE ReturnChain
    BY <1>6, ReturnChainStep
  <1>7. CASE Due
    BY <1>7, DueStep
  <1>8. CASE Purge
    BY <1>8, PurgeStep
  <1>9. CASE \E reclaimed \in SUBSET Slots : ArenaReset(reclaimed)
    BY <1>9, ArenaResetStep
  <1>10. CASE UNCHANGED vars
    <2>1. UNCHANGED <<heap, frame, join, slot, ready, stack, timers, fdWaits, activeJoins,
                      pendingHandled, orphaned, batches, born, frames, joins, purges, owned,
                      resolvable, reports, notices, observed, joinLog, forced, lost>>
      BY <1>10 DEF vars, counters, reporting, ghost
    <2>2. Types' /\ Tokens' /\ Places' /\ Lives'
      BY <2>1 DEF Inv, Types, Tokens, Places, Lives
    <2>3. Structure'
      BY <2>1, SameStructure DEF Inv
    <2> QED
      BY <2>2, <2>3 DEF Inv
  <1>11. CASE ListenerReturns
    BY <1>11, ListenerReturnsStep
  <1> QED
    BY <1>1, <1>2, <1>3, <1>4, <1>5, <1>6, <1>7, <1>8, <1>9, <1>10, <1>11 DEF Next

\* The invariant holds in every reachable state.
THEOREM Invariant == Spec => []Inv
  <1>1. Init => Inv
    BY InitInv
  <1>2. Inv /\ [Next]_vars => Inv'
    BY NextInv
  <1> QED
    BY <1>1, <1>2, PTL DEF Spec

-----------------------------------------------------------------------------
(* What the invariant says of single states.                               *)

\* The type invariant.
LEMMA InvTypes == Inv => TypeOK
  <1> SUFFICES ASSUME Inv
               PROVE  TypeOK
    OBVIOUS
  <1>1. /\ heap \in [Promise -> PromiseBox] /\ frame \in [FrameId -> FrameBox]
        /\ ready \in Seq(FrameId) /\ stack \in Seq(FrameId)
    BY DEF Inv, Places, PlaceOK, PlaceTypes
  <1>2. activeJoins \in Nat
    <2>1. Counting(join) \in SUBSET JoinId
      BY DEF Counting
    <2>2. IsFiniteSet(Counting(join))
      BY <2>1, Domains, FS_Subset
    <2>3. Cardinality(Counting(join)) \in Nat
      BY <2>2, FS_CardinalityType
    <2> QED
      BY <2>3 DEF Inv, Structure
  <1> QED
    BY <1>1, <1>2 DEF Inv, Types, TypeOK

\* Every token is counted on its box.
LEMMA InvTokens == Inv => TokensAccounted
  <1> SUFFICES ASSUME Inv, NEW p \in Promise
               PROVE  /\ heap[p].internal = Cardinality(FrameOwners(p))
                                            + Cardinality(JoinOwners(p)) + Cardinality(SlotOwners(p))
                      /\ heap[p].references = heap[p].internal + owned[p]
                                              + Cardinality(Consumers(p))
                      /\ heap[p].live <=> heap[p].references > 0
    BY DEF TokensAccounted
  <1> DEFINE I == InternalOf(frame, join, slot)
             E == ExternalOf(frame, owned)
  <1>1. Held(heap, I, E) /\ owned \in [Promise -> Nat]
    BY DEF Inv, Tokens, Types
  <1>2. /\ I[p] \in Nat /\ E[p] \in Nat /\ Holds(heap[p], I[p], E[p])
    BY <1>1, HeldFacts
  <1>3. /\ Cardinality(Consuming(frame, p)) \in Nat /\ Cardinality(Settling(frame, p)) \in Nat
        /\ Cardinality(Joining(join, p)) \in Nat /\ Cardinality(Storing(slot, p)) \in Nat
    BY <1>1, HolderTypes
  <1>4. /\ I[p] = Cardinality(Settling(frame, p)) + Cardinality(Joining(join, p))
                  + Cardinality(Storing(slot, p))
        /\ E[p] = owned[p] + Cardinality(Consuming(frame, p))
    BY DEF InternalOf, ExternalOf
  <1>5. /\ Settling(frame, p) = FrameOwners(p) /\ Joining(join, p) = JoinOwners(p)
        /\ Storing(slot, p) = SlotOwners(p) /\ Consuming(frame, p) = Consumers(p)
    BY DEF Settling, FrameOwners, Joining, JoinOwners, Storing, SlotOwners, Consuming, Consumers
  <1>6. /\ heap[p].internal = I[p] /\ heap[p].references = I[p] + E[p]
        /\ heap[p].live <=> I[p] + E[p] > 0
    BY <1>2 DEF Holds
  <1>7. owned[p] \in Nat
    BY <1>1
  <1> HIDE DEF I, E
  <1>8. heap[p].internal = Cardinality(FrameOwners(p)) + Cardinality(JoinOwners(p))
                           + Cardinality(SlotOwners(p))
    BY <1>4, <1>5, <1>6
  <1>9. heap[p].references = heap[p].internal + owned[p] + Cardinality(Consumers(p))
    <2>1. E[p] = owned[p] + Cardinality(Consumers(p)) /\ Cardinality(Consumers(p)) \in Nat
      BY <1>3, <1>4, <1>5
    <2> QED
      BY <2>1, <1>2, <1>6, <1>7
  <1>10. heap[p].live <=> heap[p].references > 0
    BY <1>6
  <1> QED
    BY <1>8, <1>9, <1>10

\* Every combinator counts its children, and the loop its combinators.
LEMMA InvJoins == Inv => JoinsCounted
  <1> SUFFICES ASSUME Inv
               PROVE  JoinsCounted
    OBVIOUS
  <1>1. activeJoins = Cardinality({j \in JoinId : join[j].kind # "none" /\ Counted(join[j])})
    BY DEF Inv, Structure, Counting
  <1>2. ASSUME NEW j \in JoinId, join[j].kind # "none"
        PROVE  join[j].remaining = Cardinality({f \in FrameId : frame[f].join = j})
    BY <1>2 DEF Inv, Structure, JoinOK, Children
  <1> QED
    BY <1>1, <1>2 DEF JoinsCounted

\* Nothing that the loop will look at was freed.
LEMMA InvDangles == Inv => NothingDangles
  <1> SUFFICES ASSUME Inv
               PROVE  NothingDangles
    OBVIOUS
  <1>1. /\ Held(heap, InternalOf(frame, join, slot), ExternalOf(frame, owned))
        /\ owned \in [Promise -> Nat] /\ frame \in [FrameId -> FrameBox]
        /\ slot \in [Slots -> Promise \cup {Null}]
    BY DEF Inv, Tokens, Types, Places, PlaceOK, PlaceTypes
  <1>2. ASSUME NEW p \in Promise, ~heap[p].live
        PROVE  Unheld(frame, join, slot, owned, p)
    BY <1>1, <1>2, DeadIsUnheld
  <1>3. ASSUME NEW f \in FrameId, frame[f].kind # "none"
        PROVE  /\ heap[frame[f].input].live
               /\ frame[f].output # Null => heap[frame[f].output].live
               /\ frame[f].join # Null => join[frame[f].join].kind # "none"
    <2>1. frame[f].input \in Promise
      BY <1>3 DEF Inv, Places, PlaceOK, PlaceTypes
    <2>2. frame[f].output \in Promise \cup {Null}
      BY <1>1 DEF FrameBox
    <2>3. heap[frame[f].input].live
      BY <1>2, <2>1 DEF Unheld
    <2>4. frame[f].output # Null => heap[frame[f].output].live
      BY <1>2, <2>2 DEF Unheld
    <2> QED
      BY <2>3, <2>4 DEF Inv, Structure, FrameOK
  <1>4. ASSUME NEW j \in JoinId, join[j].kind # "none"
        PROVE  heap[join[j].output].live
    <2>1. join[j].output \in Promise
      BY <1>4 DEF Inv, Structure, JoinOK
    <2> QED
      BY <1>2, <2>1 DEF Unheld
  <1>5. ASSUME NEW s \in Slots, slot[s] # Null
        PROVE  heap[slot[s]].live
    <2>1. slot[s] \in Promise
      BY <1>1, <1>5
    <2> QED
      BY <1>2, <2>1 DEF Unheld
  <1>6. \A p \in timers \cup fdWaits : heap[p].live
    BY DEF Inv, Lives
  <1> QED
    BY <1>3, <1>4, <1>5, <1>6 DEF NothingDangles

\* A continuation that was not resumed is in one place.
LEMMA InvPlaces == Inv => OnePlacePerContinuation
  <1> SUFFICES ASSUME Inv, NEW f \in FrameId
               PROVE  LET p == frame[f].input
                          inReady == Count(ready, f)
                          inStack == Count(stack, f)
                          waiting == IF p = Null THEN 0 ELSE Count(heap[p].subscribers, f)
                          total == inReady + inStack + waiting
                      IN  /\ total = IF frame[f].kind = "none" \/ f \in lost THEN 0 ELSE 1
                          /\ inReady + inStack > 0 => ~Pending(heap, p)
                          /\ waiting > 0 => Pending(heap, p)
    BY DEF OnePlacePerContinuation
  <1>1. PlaceOK(heap, frame, ready, stack, lost)
    BY DEF Inv, Places
  <1>2. PlacedOnce(heap, frame, ready, stack, lost, f)
    BY <1>1 DEF PlaceOK
  <1> QED
    BY <1>2 DEF PlacedOnce, Queued, WaitsFor

\* The queue and the subscribers are in order.
LEMMA InvOrder == Inv => SubscribersInOrder
  BY DEF Inv, Places, PlaceOK, ReadyInOrder, Increasing, SubscribersInOrder

-----------------------------------------------------------------------------
(* The invariants of the runs.                                             *)

\* Type correctness: no usize counter of tokens, of active joins or of notices
\* goes below zero, in any interleaving of the program, its callbacks and purges.
THEOREM TypeSafety == Spec => []TypeOK
  BY Invariant, InvTypes, PTL

\* The token counts of every promise box are what is held on it, and the counts
\* of children and of active combinators are what is left of them: a box is
\* freed, and an invocation drained, neither early nor late.
THEOREM ExactCounts == Spec => []CountsAreExact
  <1>1. Inv => CountsAreExact
    BY InvTokens, InvJoins DEF CountsAreExact
  <1> QED
    BY <1>1, Invariant, PTL

\* Whatever poll_one resumes is resumed once, in the order of subscription, after
\* its input settled, and no box it touches was freed.
THEOREM SafeContinuations == Spec => []ContinuationsAreSafe
  <1>1. Inv => ContinuationsAreSafe
    BY InvDangles, InvTokens, InvPlaces, InvOrder DEF ContinuationsAreSafe
  <1> QED
    BY <1>1, Invariant, PTL

-----------------------------------------------------------------------------
(* What a step does to the data of the boxes.                              *)

\* A box, whatever its counters.
RawBox == [live : BOOLEAN, result : {"pending"} \cup Settlement,
           handled : BOOLEAN, reported : BOOLEAN,
           subscribers : Seq(FrameId), references : Int, internal : Int]

\* Box b became c: it is not revived, it settles once and only if settles, it
\* stays handled, and its flags change only if seen.
Becomes(b, c, settles, seen) ==
    c.live =>
      /\ b.live
      /\ ~settles \/ b.result # "pending" => c.result = b.result
      /\ b.handled => c.handled
      /\ ~seen => c.handled = b.handled /\ c.reported = b.reported

\* Heap h became k; S may have settled, P was observed or reported.
Moved(h, k, S, P) ==
    /\ k \in [Promise -> RawBox]
    /\ \A p \in Promise : Becomes(h[p], k[p], p \in S, p \in P)

\* The same for boxes that lose a token.
Drops(b, c) == c \in RawBox /\ Becomes(b, c, FALSE, FALSE) /\ c.result \in {b.result, "pending"}

LEMMA BoxIsRaw == PromiseBox \subseteq RawBox
  BY DEF PromiseBox, RawBox

LEMMA BoxDrops ==
    ASSUME NEW b \in RawBox
    PROVE  Drops(b, DestroyBox(b)) /\ Drops(b, ReleaseBox(b)) /\ Drops(b, RetainBox(b))
  <1>1. b.references \in Int /\ b.internal \in Int
    BY DEF RawBox
  <1>2. /\ b.references - 1 \in Int /\ b.internal - 1 \in Int
        /\ b.references + 1 \in Int /\ b.internal + 1 \in Int
    BY <1>1
  <1>3. Drops(b, b)
    BY DEF Drops, Becomes
  <1>4. Drops(b, NoBox)
    BY NoBoxFacts, BoxIsRaw DEF Drops, Becomes
  <1>5. Drops(b, [b EXCEPT !.references = @ - 1])
    BY <1>1, <1>2 DEF RawBox, Drops, Becomes
  <1>6. Drops(b, [b EXCEPT !.references = @ - 1, !.internal = @ - 1])
    BY <1>1, <1>2 DEF RawBox, Drops, Becomes
  <1>7. Drops(b, [b EXCEPT !.references = @ + 1, !.internal = @ + 1])
    BY <1>1, <1>2 DEF RawBox, Drops, Becomes
  <1> QED
    BY <1>3, <1>4, <1>5, <1>6, <1>7 DEF DestroyBox, ReleaseBox, RetainBox

LEMMA OneMoves ==
    ASSUME NEW h \in [Promise -> RawBox], NEW p \in Promise, NEW c \in RawBox,
           NEW S, NEW P, Becomes(h[p], c, p \in S, p \in P)
    PROVE  Moved(h, [h EXCEPT ![p] = c], S, P)
  <1> DEFINE k == [h EXCEPT ![p] = c]
  <1>1. k \in [Promise -> RawBox] /\ k[p] = c /\ \A x \in Promise : x # p => k[x] = h[x]
    OBVIOUS
  <1>2. \A x \in Promise : x # p => Becomes(h[x], k[x], x \in S, x \in P)
    BY <1>1 DEF Becomes
  <1> QED
    BY <1>1, <1>2 DEF Moved

LEMMA DropMoves ==
    ASSUME NEW h \in [Promise -> RawBox], NEW p \in Promise, NEW c, Drops(h[p], c),
           NEW S, NEW P
    PROVE  Moved(h, [h EXCEPT ![p] = c], S, P)
  <1>1. c \in RawBox /\ Becomes(h[p], c, p \in S, p \in P)
    BY DEF Drops, Becomes
  <1> QED
    BY <1>1, OneMoves

LEMMA Moves ==
    ASSUME NEW h \in [Promise -> RawBox], NEW p \in Promise, NEW S, NEW P
    PROVE  /\ Moved(h, Destroy(h, p), S, P) /\ Moved(h, Release(h, p), S, P)
           /\ Moved(h, RetainInternal(h, p), S, P) /\ Moved(h, h, S, P)
  <1>1. Drops(h[p], DestroyBox(h[p])) /\ Drops(h[p], ReleaseBox(h[p])) /\ Drops(h[p], RetainBox(h[p]))
    BY BoxDrops
  <1>2. Moved(h, [h EXCEPT ![p] = DestroyBox(h[p])], S, P)
    BY <1>1, DropMoves
  <1>3. Moved(h, [h EXCEPT ![p] = ReleaseBox(h[p])], S, P)
    BY <1>1, DropMoves
  <1>4. Moved(h, [h EXCEPT ![p] = RetainBox(h[p])], S, P)
    BY <1>1, DropMoves
  <1>5. Moved(h, h, S, P)
    BY DEF Moved, Becomes
  <1> QED
    BY <1>2, <1>3, <1>4, <1>5, DestroyIs, ReleaseIs, RetainIs

LEMMA SettleMoves ==
    ASSUME NEW h \in [Promise -> RawBox], NEW p \in Promise, NEW r \in Settlement,
           NEW S, p \in S, NEW P
    PROVE  Moved(h, Settle(h, p, r), S, P)
  <1>1. <<>> \in Seq(FrameId)
    OBVIOUS
  <1>2. SettleBox(h[p], r) \in RawBox
    BY <1>1 DEF SettleBox, RawBox
  <1>3. Becomes(h[p], SettleBox(h[p], r), p \in S, p \in P)
    BY DEF SettleBox, Becomes, RawBox
  <1>4. Settle(h, p, r) = [h EXCEPT ![p] = SettleBox(h[p], r)]
    BY SettleIs
  <1>5. Moved(h, [h EXCEPT ![p] = SettleBox(h[p], r)], S, P)
    BY <1>2, <1>3, OneMoves
  <1> QED
    BY <1>4, <1>5

LEMMA MovedTwice ==
    ASSUME NEW h, NEW k, NEW m, NEW S, NEW P, Moved(h, k, S, P), Moved(k, m, S, P)
    PROVE  Moved(h, m, S, P)
  BY DEF Moved, Becomes

\* An input's token and the output's go back at the end of a resume.
LEMMA GiveBackMoves ==
    ASSUME NEW h \in [Promise -> RawBox], NEW box, box.input \in Promise, box.output \in Promise,
           NEW S, NEW P
    PROVE  Moved(h, GiveBack(h, box), S, P)
  <1>1. Moved(h, Destroy(h, box.input), S, P)
    BY Moves
  <1>2. Destroy(h, box.input) \in [Promise -> RawBox]
    BY <1>1 DEF Moved
  <1>3. Moved(Destroy(h, box.input), GiveBack(h, box), S, P)
    BY <1>2, Moves DEF GiveBack
  <1> QED
    BY <1>1, <1>3, MovedTwice

-----------------------------------------------------------------------------
(* What each action does to the data of the boxes.                         *)

\* Of the boxes that existed only those in S settle and only those in P are
\* observed or reported, and a new one was not reported.
Alters(S, P) ==
    /\ \A p \in Promise : p <= born => Becomes(heap[p], heap'[p], p \in S, p \in P)
    /\ \A p \in Promise : p > born /\ heap'[p].live => ~heap'[p].reported

LEMMA HeapIsRaw == Inv => heap \in [Promise -> RawBox]
  BY BoxIsRaw DEF Inv, Tokens, Held

LEMMA MovedAlters ==
    ASSUME Inv, NEW S, NEW P, Moved(heap, heap', S, P)
    PROVE  Alters(S, P)
  <1>1. \A p \in Promise : Becomes(heap[p], heap'[p], p \in S, p \in P)
    BY DEF Moved
  <1>2. ASSUME NEW p \in Promise, p > born, heap'[p].live
        PROVE  FALSE
    <2>1. heap[p].live
      BY <1>1, <1>2 DEF Becomes
    <2>2. p <= born /\ born \in Nat /\ p \in Nat
      BY <2>1, Domains DEF Inv, Lives, Types
    <2> QED
      BY <1>2, <2>2
  <1> QED
    BY <1>1, <1>2 DEF Alters

LEMMA BirthAlters ==
    ASSUME Inv, NEW q \in FreshPromise, NEW S, NEW P, ~heap'[q].reported,
           \A p \in Promise : p # q => Becomes(heap[p], heap'[p], p \in S, p \in P)
    PROVE  Alters(S, P)
  <1>1. q \in Promise /\ q = born + 1 /\ born \in Nat /\ Promise \subseteq Nat
    BY SMTT(30), FreshIsDead, Domains DEF Inv, Types
  <1>2. ASSUME NEW p \in Promise, p <= born
        PROVE  Becomes(heap[p], heap'[p], p \in S, p \in P)
    BY <1>1, <1>2
  <1>3. ASSUME NEW p \in Promise, p > born, heap'[p].live
        PROVE  ~heap'[p].reported
    <2>1. CASE p = q
      BY <2>1
    <2>2. CASE p # q
      <3>1. heap[p].live
        BY <1>3, <2>2 DEF Becomes
      <3>2. p <= born
        BY <3>1 DEF Inv, Lives
      <3> QED
        BY <1>1, <1>3, <3>2
    <2> QED
      BY <2>1, <2>2
  <1> QED
    BY <1>2, <1>3 DEF Alters

LEMMA CreateAlters ==
    ASSUME Inv, NEW q \in FreshPromise, NEW r \in {"pending"} \cup Settlement, Birth(q, r)
    PROVE  Alters({}, {})
  <1>1. q \in Promise /\ heap' = [heap EXCEPT ![q] = [NewBox EXCEPT !.result = r]]
    BY FreshIsDead DEF Birth
  <1>2. ~[NewBox EXCEPT !.result = r].reported
    BY NewBoxAs
  <1>3. heap \in [Promise -> RawBox]
    BY HeapIsRaw
  <1>4. ~heap'[q].reported /\ \A p \in Promise : p # q => heap'[p] = heap[p]
    BY <1>1, <1>2, <1>3
  <1> QED
    BY <1>4, BirthAlters DEF Becomes

LEMMA SettleAlters ==
    ASSUME Inv, NEW p \in Promise, NEW r \in Settlement, heap' = Settle(heap, p, r)
    PROVE  Alters({p}, {})
  BY HeapIsRaw, SettleMoves, MovedAlters

LEMMA SameAlters ==
    ASSUME Inv, heap' = heap
    PROVE  Alters({}, {})
  <1>1. \A p \in Promise : Becomes(heap[p], heap[p], p \in {}, p \in {})
    BY DEF Becomes
  <1>2. Moved(heap, heap', {}, {})
    BY <1>1, HeapIsRaw DEF Moved
  <1> QED
    BY <1>2, MovedAlters

LEMMA RetainAlters ==
    ASSUME Inv, NEW p \in Promise, RetainToken(p)
    PROVE  Alters({}, {})
  <1> DEFINE b == [heap[p] EXCEPT !.references = @ + 1]
  <1>1. heap' = [heap EXCEPT ![p] = b]
    BY DEF RetainToken
  <1>2. heap \in [Promise -> RawBox] /\ heap[p] \in RawBox
    BY HeapIsRaw
  <1>3. heap[p].references + 1 \in Int
    BY <1>2 DEF RawBox
  <1>4. Drops(heap[p], b)
    BY <1>2, <1>3 DEF RawBox, Drops, Becomes
  <1> HIDE DEF b
  <1>5. Moved(heap, heap', {}, {})
    BY <1>1, <1>2, <1>4, DropMoves
  <1> QED
    BY <1>5, MovedAlters

LEMMA DestroyAlters ==
    ASSUME Inv, NEW p \in Promise, heap' = Destroy(heap, p)
    PROVE  Alters({}, {})
  BY HeapIsRaw, Moves, MovedAlters

LEMMA SlotAlters ==
    ASSUME Inv, NEW s \in Slots, NEW p \in Promise \cup {Null}, SlotReplace(s, p)
    PROVE  Alters({}, {})
  <1> DEFINE c == slot[s]
             kept == IF p = Null THEN heap ELSE RetainInternal(heap, p)
  <1>1. c \in Promise \cup {Null} /\ heap' = IF c = Null THEN kept ELSE Release(kept, c)
    BY DEF Inv, Types, SlotReplace, SlotStored
  <1>2. heap \in [Promise -> RawBox] /\ Null \notin Promise
    BY HeapIsRaw, Domains
  <1>3. Moved(heap, heap, {}, {})
    BY <1>2 DEF Moved, Becomes
  <1>4. Moved(heap, kept, {}, {})
    BY <1>2, <1>3, Moves
  <1> HIDE DEF kept, c
  <1>5. c = Null \/ Moved(kept, Release(kept, c), {}, {})
    BY <1>1, <1>4, Moves DEF Moved
  <1>6. Moved(heap, heap', {}, {})
    BY <1>1, <1>4, <1>5, MovedTwice
  <1> QED
    BY <1>6, MovedAlters

LEMMA ReturnAlters ==
    ASSUME Inv, ReturnChain
    PROVE  Alters({}, {})
  <1> DEFINE f == stack[Len(stack)]
  <1>1. heap' = GiveBack(heap, frame[f])
    BY DEF ReturnChain
  <1>2. f \in FrameId /\ frame[f].kind = "chain"
    <2>1. stack \in Seq(FrameId) /\ Len(stack) \in 1..Len(stack)
      BY DEF ReturnChain, Inv, Places, PlaceOK, PlaceTypes
    <2> QED
      BY <2>1 DEF Inv, Places, PlaceOK, RunningChains
  <1>3. frame[f].input \in Promise /\ frame[f].output \in Promise
    BY <1>2 DEF Inv, Places, PlaceOK, PlaceTypes, Structure, FrameOK
  <1> HIDE DEF f
  <1>4. Moved(heap, heap', {}, {})
    BY <1>1, <1>3, HeapIsRaw, GiveBackMoves
  <1> QED
    BY <1>4, MovedAlters

LEMMA InertAlters ==
    ASSUME Inv, ResumeInert
    PROVE  Alters({}, {})
  <1>1. Box.input \in Promise /\ Box.output \in Promise /\ heap' = GiveBack(heap, Box)
    BY TakenFacts DEF ResumeInert, Resuming, TakenSays
  <1>2. Moved(heap, heap', {}, {})
    BY <1>1, HeapIsRaw, GiveBackMoves
  <1> QED
    BY <1>2, MovedAlters

LEMMA ForwardAlters ==
    ASSUME Inv, ready # <<>>, Box.kind \in {"chain", "adopt", "finallyAdopt"},
           NEW r \in Settlement, Forward(r)
    PROVE  Alters({Box.output}, {})
  <1> DEFINE h == Settle(heap, Box.output, r)
             S == {Box.output}
  <1>1. Box.input \in Promise /\ Box.output \in Promise /\ heap' = GiveBack(h, Box)
    BY TakenFacts DEF Forward, TakenSays
  <1>2. Moved(heap, h, S, {})
    BY <1>1, HeapIsRaw, SettleMoves
  <1> HIDE DEF h, S
  <1>3. Moved(h, heap', S, {})
    BY <1>1, <1>2, GiveBackMoves DEF Moved
  <1>4. Moved(heap, heap', S, {})
    BY <1>2, <1>3, MovedTwice
  <1> QED
    BY <1>4, MovedAlters DEF S

LEMMA ChildAlters ==
    ASSUME Inv, ResumeChild
    PROVE  Alters({join[Box.join].output}, {})
  <1> DEFINE j == Box.join
             o == join[j].output
             r == Verdict(join[j], Outcome)
             S == {o}
  <1>0. Resuming("child")
    BY DEF ResumeChild
  <1>1. PICK h, given : ChildActs(j, o, r, h, given)
    BY ChildActing
  <1>2. ChildSays(j, o) /\ Box.input \in Promise
    BY <1>0, ChildFacts, TakenFacts DEF Resuming, TakenSays
  <1>3. o \in Promise /\ o \in S /\ r \in {"pending"} \cup Settlement
    BY SMTT(30), <1>2 DEF ChildSays
  <1>4. /\ h = (IF r = "pending" THEN heap ELSE Settle(heap, o, r))
        /\ given = Destroy(h, Box.input)
        /\ heap' = given \/ heap' = Release(given, o)
    BY <1>1 DEF ChildActs
  <1>5. heap \in [Promise -> RawBox]
    BY HeapIsRaw
  <1> HIDE DEF j, o, r, S
  <1>6. Moved(heap, heap, S, {})
    BY <1>5 DEF Moved, Becomes
  <1>7. r \in Settlement => Moved(heap, Settle(heap, o, r), S, {})
    BY <1>3, <1>5, SettleMoves
  <1>8. Moved(heap, h, S, {})
    BY <1>3, <1>4, <1>6, <1>7
  <1>9. Moved(h, given, S, {})
    BY <1>2, <1>4, <1>8, Moves DEF Moved
  <1>10. Moved(given, Release(given, o), S, {})
    BY <1>3, <1>9, Moves DEF Moved
  <1>11. Moved(heap, given, S, {})
    BY <1>8, <1>9, MovedTwice
  <1>12. Moved(heap, Release(given, o), S, {})
    BY <1>10, <1>11, MovedTwice
  <1>13. Moved(heap, heap', S, {})
    BY <1>4, <1>11, <1>12
  <1> QED
    BY <1>13, MovedAlters DEF S, o, j

LEMMA ResetAlters ==
    ASSUME Inv, NEW R \in SUBSET Slots, ArenaReset(R)
    PROVE  Alters({}, {})
  <1>1. slot' = ResetSlots(slot, R) /\ heap' = ResetHeap(heap, slot, R)
    BY ArenaResets DEF Resets
  <1>2. /\ Held(heap', InternalOf(frame, join, slot'), ExternalOf(frame, owned))
        /\ TrimmedHeap(heap, heap')
    BY <1>1, HeldReset DEF Inv, Tokens
  <1>3. heap' \in [Promise -> RawBox]
    BY <1>2, BoxIsRaw DEF Held
  <1>4. \A p \in Promise : Becomes(heap[p], heap'[p], FALSE, FALSE)
    BY <1>2, NoBoxFacts DEF TrimmedHeap, Trimmed, SameData, Becomes
  <1>5. \A p \in Promise : Becomes(heap[p], heap'[p], p \in {}, p \in {})
    BY <1>4 DEF Becomes
  <1>6. Moved(heap, heap', {}, {})
    BY <1>3, <1>5 DEF Moved
  <1> QED
    BY <1>6, MovedAlters

LEMMA RefusedAlters ==
    ASSUME Inv, NEW q \in FreshPromise, NEW s \in InputLists, AllSettledRefused(s, q)
    PROVE  Alters({}, {})
  <1>1. /\ heap' = [p \in Promise |-> IF p \in Inputs(s) THEN Destroy(heap, p)[p]
                                      ELSE IF p = q THEN [NewBox EXCEPT !.result = "rejected"]
                                      ELSE heap[p]]
        /\ \A p \in Inputs(s) : heap[p].live
    BY DEF AllSettledRefused, Has
  <1>2. q \in Promise /\ ~heap[q].live /\ q \notin Inputs(s) /\ heap \in [Promise -> RawBox]
    BY <1>1, FreshIsDead, HeapIsRaw
  <1>3. ~[NewBox EXCEPT !.result = "rejected"].reported
    BY NewBoxAs DEF Settlement
  <1>4. ~heap'[q].reported
    BY <1>1, <1>2, <1>3
  <1>5. ASSUME NEW p \in Promise, p # q
        PROVE  Becomes(heap[p], heap'[p], p \in {}, p \in {})
    <2>1. heap'[p] = Destroy(heap, p)[p] \/ heap'[p] = heap[p]
      BY <1>1, <1>5
    <2>2. Moved(heap, Destroy(heap, p), {}, {})
      BY <1>2, Moves
    <2>3. Becomes(heap[p], Destroy(heap, p)[p], p \in {}, p \in {})
      BY <2>2 DEF Moved
    <2>4. Becomes(heap[p], heap[p], p \in {}, p \in {})
      BY DEF Becomes
    <2> QED
      BY <2>1, <2>3, <2>4
  <1> QED
    BY <1>4, <1>5, BirthAlters

LEMMA BlockingAlters ==
    ASSUME Inv, NEW p \in Promise, BlockingAwait(p)
    PROVE  Alters({}, {p})
  <1> DEFINE b == [heap[p] EXCEPT !.handled = TRUE]
  <1>1. heap' = [heap EXCEPT ![p] = b]
    BY DEF BlockingAwait
  <1>2. heap \in [Promise -> RawBox] /\ heap[p] \in RawBox
    BY HeapIsRaw
  <1>3. /\ b \in RawBox /\ b.live = heap[p].live /\ b.result = heap[p].result
        /\ heap[p].handled => b.handled
    BY <1>2 DEF RawBox
  <1>4. Becomes(heap[p], b, p \in {}, p \in {p})
    BY <1>3 DEF Becomes
  <1> HIDE DEF b
  <1>5. Moved(heap, heap', {}, {p})
    BY <1>1, <1>2, <1>3, <1>4, OneMoves
  <1> QED
    BY <1>5, MovedAlters

LEMMA DetachAlters ==
    ASSUME Inv, ResumeDetach
    PROVE  Alters({}, {Box.input})
  <1> DEFINE p == Box.input
             b == [heap[p] EXCEPT !.reported = TRUE]
             queued == Box.kind = "detach" /\ Outcome = "rejected"
             h == IF queued THEN [heap EXCEPT ![p] = b] ELSE heap
             P == {p}
  <1>1. p \in Promise /\ p \in P /\ heap' = Destroy(h, p)
    BY TakenFacts DEF ResumeDetach, Resuming, TakenSays
  <1>2. heap \in [Promise -> RawBox] /\ heap[p] \in RawBox
    BY <1>1, HeapIsRaw
  <1>3. /\ b \in RawBox /\ b.live = heap[p].live /\ b.result = heap[p].result
        /\ heap[p].handled => b.handled
    BY <1>2 DEF RawBox
  <1> HIDE DEF b, p, P, queued
  <1>4. Becomes(heap[p], b, p \in {}, p \in P)
    BY <1>1, <1>3 DEF Becomes
  <1>5. Moved(heap, [heap EXCEPT ![p] = b], {}, P)
    BY <1>1, <1>2, <1>3, <1>4, OneMoves
  <1>6. Moved(heap, heap, {}, P)
    BY <1>2 DEF Moved, Becomes
  <1>7. Moved(heap, h, {}, P)
    BY <1>5, <1>6
  <1> HIDE DEF h
  <1>8. Moved(h, heap', {}, P)
    BY <1>1, <1>7, Moves DEF Moved
  <1>9. Moved(heap, heap', {}, P)
    BY <1>7, <1>8, MovedTwice
  <1> QED
    BY <1>9, MovedAlters DEF P, p

LEMMA MarkedAlters ==
    ASSUME Inv, heap' = Marked
    PROVE  Alters({}, Unreported)
  <1> DEFINE b(p) == [heap[p] EXCEPT !.reported = TRUE]
  <1>1. heap' = [p \in Promise |-> IF p \in Unreported THEN b(p) ELSE heap[p]]
    BY DEF Marked
  <1>2. heap \in [Promise -> RawBox]
    BY HeapIsRaw
  <1>3. \A p \in Promise : /\ b(p) \in RawBox /\ b(p).live = heap[p].live
                           /\ b(p).result = heap[p].result /\ b(p).handled = heap[p].handled
    BY <1>2 DEF RawBox
  <1> HIDE DEF b
  <1>4. ASSUME NEW p \in Promise
        PROVE  Becomes(heap[p], heap'[p], p \in {}, p \in Unreported)
    BY <1>1, <1>3 DEF Becomes
  <1>5. heap' \in [Promise -> RawBox]
    BY <1>1, <1>2, <1>3
  <1>6. Moved(heap, heap', {}, Unreported)
    BY <1>4, <1>5 DEF Moved
  <1> QED
    BY <1>6, MovedAlters

-----------------------------------------------------------------------------
(* What each action does to the reports of rejections.                     *)

\* Besides what it does to the boxes, a step observes the promises in P, and it
\* announces the handlers that come late.
Watches(S, P) ==
    /\ P \in SUBSET Promise /\ \A p \in P : heap[p].live /\ heap'[p].handled
    /\ Alters(S, P)
    /\ pendingHandled' = pendingHandled + Late(heap, P)
    /\ observed' \subseteq observed \cup P
    /\ \A f \in FrameId : frame'[f].kind # "none" =>
          \/ frame'[f].input \in P
          \/ frame[f].kind # "none" /\ frame'[f].input = frame[f].input
    /\ born' >= born
    /\ UNCHANGED <<orphaned, batches, reports, notices>>

LEMMA NoneLate == Late(heap, {}) = 0
  <1>1. {p \in {} : heap[p].reported /\ ~heap[p].handled} = {}
    OBVIOUS
  <1> QED
    BY <1>1, FS_EmptySet DEF Late

\* A step that observes nothing.
LEMMA QuietWatches ==
    ASSUME Inv, NEW S, Alters(S, {}),
           UNCHANGED <<pendingHandled, orphaned, batches, reports, notices, observed>>,
           born' >= born,
           \A f \in FrameId : frame'[f].kind # "none" =>
               frame[f].kind # "none" /\ frame'[f].input = frame[f].input
    PROVE  Watches(S, {})
  <1>1. pendingHandled' = pendingHandled + Late(heap, {})
    BY NoneLate DEF Inv, Types
  <1> QED
    BY <1>1 DEF Watches

\* Heap k is h but for the subscriber that p has, and p is handled in it.
HandledIn(h, k, p) ==
    /\ \A x \in Promise : x # p => k[x] = h[x]
    /\ k[p].live = h[p].live /\ k[p].result = h[p].result
    /\ k[p].reported = h[p].reported /\ k[p].handled = TRUE

LEMMA SubscribedIs ==
    ASSUME NEW h \in [Promise -> RawBox], NEW p \in Promise, NEW f
    PROVE  HandledIn(h, Subscribed(h, p, f), p)
  <1> DEFINE b == SubscribeBox(h[p], f)
             k == [h EXCEPT ![p] = b]
  <1>1. Subscribed(h, p, f) = k
    BY SubscribeIs
  <1>2. /\ b.live = h[p].live /\ b.result = h[p].result
        /\ b.reported = h[p].reported /\ b.handled = TRUE
    BY DEF SubscribeBox, RawBox
  <1> HIDE DEF b
  <1>3. HandledIn(h, k, p)
    BY <1>2 DEF HandledIn
  <1> HIDE DEF k
  <1> QED
    BY <1>1, <1>3

\* Heap h is the heap with tokens added, and the promises in N are new.
Prepared(h, N) ==
    /\ h \in [Promise -> RawBox]
    /\ \A x \in Promise : x \notin N => SameData(heap[x], h[x])
    /\ \/ N = {}
       \/ \E q \in FreshPromise : N = {q} /\ ~h[q].reported

\* A frame takes a token of its input p.
LEMMA ObserveWatches ==
    ASSUME Inv, NEW f \in FrameId, NEW box, NEW p \in Promise, box.input = p, heap[p].live,
           NEW h, NEW N, Prepared(h, N), NEW made, Observe(h, f, box, made), born' >= born
    PROVE  Watches({}, {p})
  <1>0. /\ h \in [Promise -> RawBox] /\ p \notin N
        /\ \A x \in Promise : x \notin N => Becomes(heap[x], h[x], FALSE, FALSE)
        /\ h[p].live /\ h[p].reported = heap[p].reported /\ h[p].handled = heap[p].handled
        /\ \/ N = {}
           \/ \E q \in FreshPromise : N = {q} /\ ~h[q].reported
    BY FreshIsDead DEF Prepared, SameData, Becomes
  <1> DEFINE k == Subscribed(h, p, f)
  <1>1. /\ frame' = [frame EXCEPT ![f] = box] /\ heap' = k
        /\ pendingHandled' = pendingHandled + Late(h, {p})
        /\ observed' \subseteq observed \cup {p}
        /\ UNCHANGED <<orphaned, batches, reports, notices>>
    BY DEF Observe
  <1>2. HandledIn(h, k, p)
    BY <1>0, SubscribedIs
  <1> HIDE DEF k
  <1>3. /\ \A x \in Promise : x # p => k[x] = h[x]
        /\ k[p].live = h[p].live /\ k[p].result = h[p].result /\ k[p].handled = TRUE
    BY <1>2 DEF HandledIn
  <1>4. Late(h, {p}) = Late(heap, {p})
    <2>1. {x \in {p} : h[x].reported /\ ~h[x].handled}
             = {x \in {p} : heap[x].reported /\ ~heap[x].handled}
      BY <1>0
    <2> QED
      BY <2>1 DEF Late
  <1>5. ASSUME NEW x \in Promise, x \notin N
        PROVE  Becomes(heap[x], k[x], x \in {}, x \in {p})
    <2>1. Becomes(heap[x], h[x], FALSE, FALSE)
      BY <1>0, <1>5
    <2>2. CASE x = p
      BY <1>3, <2>1, <2>2 DEF Becomes
    <2>3. CASE x # p
      BY <1>3, <2>1, <2>3 DEF Becomes
    <2> QED
      BY <2>2, <2>3
  <1>6. Alters({}, {p})
    <2>1. CASE N = {}
      <3>1. \A x \in Promise : Becomes(heap[x], heap'[x], x \in {}, x \in {p})
        BY <1>1, <1>5, <2>1
      <3>2. ASSUME NEW x \in Promise, x > born, heap'[x].live
            PROVE  FALSE
        <4>1. heap[x].live
          BY <3>1, <3>2 DEF Becomes
        <4>2. x <= born /\ born \in Nat /\ x \in Nat
          BY <4>1, Domains DEF Inv, Lives, Types
        <4> QED
          BY <3>2, <4>2
      <3> QED
        BY <3>1, <3>2 DEF Alters
    <2>2. CASE \E q \in FreshPromise : N = {q} /\ ~h[q].reported
      <3>1. PICK q \in FreshPromise : N = {q} /\ ~h[q].reported
        BY <2>2
      <3>2. q \in Promise /\ q # p
        BY <3>1, FreshIsDead
      <3>3. ~heap'[q].reported
        BY <1>1, <1>3, <3>1, <3>2
      <3>4. \A x \in Promise : x # q => Becomes(heap[x], heap'[x], x \in {}, x \in {p})
        BY <1>1, <1>5, <3>1
      <3> QED
        BY <3>3, <3>4, BirthAlters
    <2> QED
      BY <1>0, <2>1, <2>2
  <1>7. \A x \in {p} : heap[x].live /\ heap'[x].handled
    BY <1>1, <1>3
  <1>8. \A c \in FrameId : frame'[c].kind # "none" =>
           \/ frame'[c].input \in {p}
           \/ frame[c].kind # "none" /\ frame'[c].input = frame[c].input
    BY <1>1 DEF Inv, Places, PlaceOK, PlaceTypes
  <1> QED
    BY <1>1, <1>4, <1>6, <1>7, <1>8 DEF Watches
\* What a step observes and settles, if it only observes and settles.
Reacts == \E S, P : Watches(S, P)

\* The same if it settles nothing.
Looks == \E P : Watches({}, P)

LEMMA LooksReacts == Looks => Reacts
  BY DEF Looks, Reacts

\* A step that observes nothing and makes no frame.
SameConsumers ==
    \A f \in FrameId : frame'[f].kind # "none" =>
        frame[f].kind # "none" /\ frame'[f].input = frame[f].input

Unwatched ==
    /\ UNCHANGED <<pendingHandled, orphaned, batches, reports, notices, observed>>
    /\ born' >= born /\ SameConsumers

LEMMA QuietReacts ==
    ASSUME Inv, NEW S, Alters(S, {}), Unwatched
    PROVE  Reacts
  <1>1. Watches(S, {})
    BY QuietWatches DEF Unwatched, SameConsumers
  <1> QED
    BY <1>1 DEF Reacts

LEMMA SameFrames == UNCHANGED frame => SameConsumers
  BY DEF SameConsumers

LEMMA FreedFrames ==
    ASSUME Inv, NEW f \in FrameId, FreeFrame(f)
    PROVE  SameConsumers
  BY BoxTypes DEF FreeFrame, SameConsumers, Inv, Places, PlaceOK, PlaceTypes

LEMMA BornStays == Inv /\ UNCHANGED born => born' >= born
  BY DEF Inv, Types

LEMMA CreateReacts == Inv /\ Create => Reacts
  <1> SUFFICES ASSUME Inv, NEW p \in FreshPromise, NEW r \in {"pending"} \cup Settlement, Birth(p, r)
               PROVE  Reacts
    BY DEF Create, New, Sleep, WaitFd, Refused
  <1>1. Alters({}, {})
    BY CreateAlters
  <1>2. born' >= born
    BY FreshIsDead DEF Birth, Inv, Types
  <1>3. Unwatched
    BY <1>2, SameFrames DEF Birth, Unwatched, reporting, ghost
  <1> QED
    BY <1>1, <1>3, QuietReacts

LEMMA SettleOwnReacts ==
    ASSUME Inv, NEW p \in Promise, NEW r \in Settlement, SettleOwn(p, r)
    PROVE  Reacts
  <1>1. Alters({p}, {})
    BY SettleAlters DEF SettleOwn
  <1>2. Unwatched
    BY SameFrames, BornStays DEF SettleOwn, Unwatched, reporting, ghost, counters
  <1> QED
    BY <1>1, <1>2, QuietReacts

LEMMA DeadlineReacts ==
    ASSUME Inv, NEW p \in Promise, Deadline(p)
    PROVE  Reacts
  <1>1. Alters({p}, {})
    BY SettleAlters DEF Deadline, Settlement
  <1>2. Unwatched
    BY SameFrames, BornStays DEF Deadline, Unwatched, reporting, counters
  <1> QED
    BY <1>1, <1>2, QuietReacts

LEMMA RetainTokenReacts ==
    ASSUME Inv, NEW p \in Promise, RetainToken(p)
    PROVE  Reacts
  <1>1. Alters({}, {})
    BY RetainAlters
  <1>2. Unwatched
    BY SameFrames, BornStays DEF RetainToken, Unwatched, reporting, counters, ghost
  <1> QED
    BY <1>1, <1>2, QuietReacts

LEMMA DestroyTokenReacts ==
    ASSUME Inv, NEW p \in Promise, DestroyToken(p)
    PROVE  Reacts
  <1>1. Alters({}, {})
    BY DestroyAlters DEF DestroyToken
  <1>2. Unwatched
    BY SameFrames, BornStays DEF DestroyToken, Unwatched, reporting, counters, ghost
  <1> QED
    BY <1>1, <1>2, QuietReacts

LEMMA SlotReplaceReacts ==
    ASSUME Inv, NEW s \in Slots, NEW p \in Promise \cup {Null}, SlotReplace(s, p)
    PROVE  Reacts
  <1>1. Alters({}, {})
    BY SlotAlters
  <1>2. Unwatched
    BY SameFrames, BornStays DEF SlotReplace, Unwatched, reporting, counters, ghost
  <1> QED
    BY <1>1, <1>2, QuietReacts

LEMMA BlockingAwaitReacts ==
    ASSUME Inv, NEW p \in Promise, BlockingAwait(p)
    PROVE  Reacts
  <1>1. Alters({}, {p})
    BY BlockingAlters
  <1>2. heap[p].live /\ heap'[p].handled
    <2>1. heap' = [heap EXCEPT ![p].handled = TRUE] /\ heap[p].live
      BY DEF BlockingAwait, Has
    <2> QED
      BY <2>1, HeapIsRaw DEF RawBox
  <1>3. born' >= born
    BY BornStays DEF BlockingAwait, counters
  <1>4. /\ pendingHandled' = pendingHandled + Late(heap, {p}) /\ observed' = observed \cup {p}
        /\ UNCHANGED <<frame, orphaned, batches, reports, notices>>
    BY DEF BlockingAwait
  <1>5. Watches({}, {p})
    BY <1>1, <1>2, <1>3, <1>4 DEF Watches
  <1> QED
    BY <1>5 DEF Reacts

LEMMA UseTokenReacts == Inv /\ UseToken => Reacts
  <1> SUFFICES ASSUME Inv, NEW p \in Promise,
                      \/ \E r \in Settlement : SettleOwn(p, r)
                      \/ Deadline(p) \/ RetainToken(p) \/ DestroyToken(p) \/ BlockingAwait(p)
                      \/ \E s \in Slots : SlotReplace(s, p) \/ SlotReplace(s, Null)
               PROVE  Reacts
    BY DEF UseToken
  <1>1. ASSUME NEW s \in Slots, SlotReplace(s, p) \/ SlotReplace(s, Null)
        PROVE  Reacts
    BY <1>1, SlotReplaceReacts
  <1> QED
    BY <1>1, SettleOwnReacts, DeadlineReacts, RetainTokenReacts, DestroyTokenReacts,
       BlockingAwaitReacts

LEMMA DueReacts == Inv /\ Due => Reacts
  <1> SUFFICES ASSUME Inv, NEW p \in Promise, NEW r \in Settlement,
                      (TimerDue(p) /\ r = "fulfilled") \/ FdDone(p, r)
               PROVE  Reacts
    BY DEF Due, Settlement
  <1>1. Alters({p}, {})
    BY SettleAlters DEF TimerDue, FdDone
  <1>2. Unwatched
    BY SameFrames, BornStays DEF TimerDue, FdDone, Unwatched, reporting, counters, ghost
  <1> QED
    BY <1>1, <1>2, QuietReacts

LEMMA HeapPrepared == Inv => Prepared(heap, {})
  BY HeapIsRaw DEF Prepared, SameData

LEMMA ObserveLooks ==
    ASSUME Inv, NEW p \in Promise, NEW f \in FreshFrame, Has(p), NEW box, box.input = p,
           NEW h, NEW N, Prepared(h, N), NEW made, Observe(h, f, box, made), born' >= born
    PROVE  Looks
  <1>1. f \in FrameId /\ heap[p].live
    BY DEF FreshFrame, Has
  <1>2. Watches({}, {p})
    BY <1>1, ObserveWatches
  <1> QED
    BY <1>2 DEF Looks

LEMMA AdoptLooks ==
    ASSUME Inv, NEW p \in Promise, NEW f \in FreshFrame, Has(p), NEW out \in Writable,
           NEW box, box.input = p, Observe(OutputRef(heap, out), f, box, {}), born' = born
    PROVE  Looks
  <1> DEFINE h == RetainInternal(heap, out)
  <1>1. out \in Promise /\ heap[out].live
    BY WritableLives
  <1>2. /\ Held(h, More(InternalOf(frame, join, slot), out), ExternalOf(frame, owned))
        /\ SameHeap(heap, h)
    BY <1>1, HeldRetain DEF Inv, Tokens
  <1>3. Observe(h, f, box, {})
    BY DEF OutputRef
  <1>4. born' >= born
    BY BornStays
  <1> HIDE DEF h
  <1>5. Prepared(h, {})
    BY <1>2, BoxIsRaw DEF Prepared, Held, SameHeap
  <1> QED
    BY <1>3, <1>4, <1>5, ObserveLooks

LEMMA ChainLooks ==
    ASSUME Inv, NEW p \in Promise, NEW f \in FreshFrame, NEW q \in FreshPromise,
           NEW handles, Chain(p, f, q, handles)
    PROVE  Looks
  <1> DEFINE h == RetainInternal([heap EXCEPT ![q] = NewBox], q)
             o == [owned EXCEPT ![q] = 1]
             box == [NoFrame EXCEPT !.kind = "chain", !.input = p, !.output = q,
                                    !.handles = handles]
  <1>1. Has(p) /\ born' = q /\ Observe(h, f, box, {q})
    BY DEF Chain, OutputRef
  <1>2. box.input = p
    BY DEF NoFrame
  <1>3. NewBox.live /\ NewBox.subscribers = <<>> /\ NewBox.reported = FALSE
    BY DEF NewBox, NoBox
  <1>4. OutputBorn(q, NewBox, h, o)
    BY <1>3, NoBoxFacts, BirthOfOutput
  <1>5. born' >= born
    BY <1>1, FreshIsDead DEF Inv, Types
  <1> HIDE DEF h, o, box
  <1>6. Prepared(h, {q})
    BY <1>3, <1>4, BoxIsRaw, FreshIsDead DEF Prepared, OutputBorn, Held, SameData
  <1> QED
    BY <1>1, <1>2, <1>5, <1>6, ObserveLooks

LEMMA SubscribeLooks == Inv /\ Subscribe => Looks
  <1> SUFFICES ASSUME Inv, NEW p \in Promise, NEW f \in FreshFrame,
                      \/ Await(p, f)
                      \/ \E kind \in {"detach", "detachSlot"} : Detach(p, f, kind)
                      \/ \E q \in FreshPromise, handles \in (SUBSET Settlement) \ {{}} :
                            Chain(p, f, q, handles)
                      \/ \E out \in Promise : Adopt(out, p, f)
                      \/ \E out \in Promise, r \in Settlement : FinallyAdopt(out, p, f, r)
               PROVE  Looks
    BY DEF Subscribe
  <1>1. CASE Await(p, f)
    <2> DEFINE box == [NoFrame EXCEPT !.kind = "await", !.input = p]
    <2>1. Has(p) /\ born' = born /\ Observe(heap, f, box, {})
      BY <1>1, Zenon DEF Await
    <2>2. box.input = p
      BY DEF NoFrame
    <2> HIDE DEF box
    <2> QED
      BY <2>1, <2>2, HeapPrepared, BornStays, ObserveLooks
  <1>2. CASE \E kind \in {"detach", "detachSlot"} : Detach(p, f, kind)
    <2>1. PICK kind \in {"detach", "detachSlot"} : Detach(p, f, kind)
      BY <1>2
    <2> DEFINE box == [NoFrame EXCEPT !.kind = kind, !.input = p]
    <2>2. Has(p) /\ born' = born /\ Observe(heap, f, box, {})
      BY <2>1, Zenon DEF Detach
    <2>3. box.input = p
      BY DEF NoFrame
    <2> HIDE DEF box
    <2> QED
      BY <2>2, <2>3, HeapPrepared, BornStays, ObserveLooks
  <1>3. CASE \E q \in FreshPromise, handles \in (SUBSET Settlement) \ {{}} :
                Chain(p, f, q, handles)
    BY <1>3, ChainLooks
  <1>4. CASE \E out \in Promise : Adopt(out, p, f)
    <2>1. PICK out \in Promise : Adopt(out, p, f)
      BY <1>4
    <2> DEFINE box == [NoFrame EXCEPT !.kind = "adopt", !.input = p, !.output = out]
    <2>2. /\ out \in Writable /\ Has(p) /\ born' = born
          /\ Observe(OutputRef(heap, out), f, box, {})
      BY <2>1, Zenon DEF Adopt
    <2>3. box.input = p
      BY DEF NoFrame
    <2> HIDE DEF box
    <2> QED
      BY <2>2, <2>3, AdoptLooks
  <1>5. CASE \E out \in Promise, r \in Settlement : FinallyAdopt(out, p, f, r)
    <2>1. PICK out \in Promise, r \in Settlement : FinallyAdopt(out, p, f, r)
      BY <1>5
    <2> DEFINE box == [NoFrame EXCEPT !.kind = "finallyAdopt", !.input = p, !.output = out,
                                      !.original = r]
    <2>2. /\ out \in Writable /\ Has(p) /\ born' = born
          /\ Observe(OutputRef(heap, out), f, box, {})
      BY <2>1, Zenon DEF FinallyAdopt
    <2>3. box.input = p
      BY DEF NoFrame
    <2> HIDE DEF box
    <2> QED
      BY <2>2, <2>3, AdoptLooks
  <1> QED
    BY <1>1, <1>2, <1>3, <1>4, <1>5

LEMMA CombineLooks ==
    ASSUME Inv, NEW q \in FreshPromise, NEW s \in InputLists, NEW j \in FreshJoin,
           NEW kind \in JoinKinds, NEW invalid \in BOOLEAN, Combine(kind, s, invalid, q, j)
    PROVE  Looks
  <1> DEFINE P == Inputs(s)
             n == Len(s)
  <1>1. /\ \A p \in P : Has(p)
        /\ born' = q
        /\ frame' = [f \in FrameId |->
                       IF f \in frames + 1 .. frames + n THEN ChildBox(s[f - frames], j)
                       ELSE frame[f]]
    BY Zenon DEF Combine, ChildBox
  <1>2. /\ pendingHandled' = pendingHandled + Late(heap, P) /\ observed' = observed \cup P
        /\ UNCHANGED <<orphaned, batches, reports, notices>>
    BY Zenon DEF Combine
  <1>3. PICK h, o : Begun(s, q, h, o)
    BY CombineBegins
  <1>4. /\ heap' = [p \in Promise |-> IF p \in P THEN JoinedBox(s, p)
                                      ELSE IF p = q THEN OutputRef([heap EXCEPT ![q] = [NewBox EXCEPT
                                           !.result = IF invalid THEN "rejected" ELSE "pending"]], q)[q]
                                      ELSE heap[p]]
    BY Zenon DEF Combine
  <1>5. P \subseteq Promise /\ q \in Promise /\ q \notin P /\ q = born + 1 /\ born \in Nat /\ n \in Nat
    <2>1. P \subseteq Promise /\ n \in Nat
      BY ListCases DEF OneInput, TwoInputs
    <2> HIDE DEF P, n
    <2>2. q \in Promise /\ q = born + 1 /\ ~heap[q].live
      BY FreshIsDead
    <2>3. q \notin P
      BY <1>1, <2>2 DEF Has
    <2>4. born \in Nat
      BY DEF Inv, Types
    <2> QED
      BY <2>1, <2>2, <2>3, <2>4
  <1>6. heap \in [Promise -> RawBox]
    BY HeapIsRaw
  <1>7. ~heap'[q].reported
    <2> DEFINE b == [NewBox EXCEPT !.result = IF invalid THEN "rejected" ELSE "pending"]
               k == [heap EXCEPT ![q] = b]
               c == RetainBox(b)
    <2>1. ~b.reported /\ b \in RawBox
      <3>1. (IF invalid THEN "rejected" ELSE "pending") \in {"pending"} \cup Settlement
        BY DEF Settlement
      <3> QED
        BY <3>1, NewBoxAs, BoxIsRaw
    <2>2. heap'[q] = OutputRef(k, q)[q]
      BY <1>4, <1>5
    <2> HIDE DEF b
    <2>3. k \in [Promise -> RawBox] /\ k[q] = b
      BY <1>5, <1>6, <2>1
    <2> HIDE DEF k
    <2>4. OutputRef(k, q) = [k EXCEPT ![q] = c]
      BY <1>5, <2>3, RetainIs DEF OutputRef
    <2>5. c.reported = b.reported
      BY <2>1 DEF RetainBox, RawBox
    <2> HIDE DEF c
    <2> QED
      BY <1>5, <2>1, <2>2, <2>3, <2>4, <2>5
  <1>8. ASSUME NEW p \in P
        PROVE  /\ heap'[p].live = heap[p].live /\ heap'[p].result = heap[p].result
               /\ heap'[p].handled = TRUE
    <2>1. heap'[p] = JoinedBox(s, p) /\ heap[p] \in RawBox
      BY <1>4, <1>5, <1>6, <1>8
    <2> QED
      BY <2>1 DEF JoinedBox, RawBox
  <1>9. ASSUME NEW p \in Promise, p # q
        PROVE  Becomes(heap[p], heap'[p], p \in {}, p \in P)
    <2>1. CASE p \in P
      BY <1>8, <2>1 DEF Becomes
    <2>2. CASE p \notin P
      BY <1>4, <1>9, <2>2 DEF Becomes
    <2> QED
      BY <2>1, <2>2
  <1>10. Alters({}, P)
    BY <1>7, <1>9, BirthAlters
  <1>11. ASSUME NEW f \in FrameId, frame'[f].kind # "none"
         PROVE  \/ frame'[f].input \in P
                \/ frame[f].kind # "none" /\ frame'[f].input = frame[f].input
    <2>1. CASE f \in frames + 1 .. frames + n
      <3>1. frame'[f] = ChildBox(s[f - frames], j)
        BY <1>1, <2>1
      <3>2. frame'[f].input = s[f - frames]
        BY <3>1 DEF ChildBox, NoFrame
      <3>3. f - frames \in 1..n
        BY <1>5, <2>1 DEF Inv, Types
      <3>4. s[f - frames] \in P
        BY <3>3 DEF Inputs
      <3> QED
        BY <3>2, <3>4
    <2>2. CASE f \notin frames + 1 .. frames + n
      BY <1>1, <1>11, <2>2
    <2> QED
      BY <2>1, <2>2
  <1>12. \A p \in P : heap[p].live /\ heap'[p].handled
    BY <1>1, <1>8 DEF Has
  <1> HIDE DEF P, n
  <1>13. Watches({}, P)
    BY <1>1, <1>2, <1>5, <1>10, <1>11, <1>12 DEF Watches
  <1> QED
    BY <1>13 DEF Looks

LEMMA RefusedReacts ==
    ASSUME Inv, NEW q \in FreshPromise, NEW s \in InputLists, AllSettledRefused(s, q)
    PROVE  Reacts
  <1>1. Alters({}, {})
    BY RefusedAlters
  <1>2. born' >= born
    BY FreshIsDead DEF AllSettledRefused, Inv, Types
  <1>3. Unwatched
    BY <1>2, SameFrames DEF AllSettledRefused, Unwatched, reporting, ghost
  <1> QED
    BY <1>1, <1>3, QuietReacts

LEMMA CombinatorsReact == Inv /\ Combinators => Reacts
  <1> SUFFICES ASSUME Inv, NEW q \in FreshPromise, NEW s \in InputLists,
                      \/ \E j \in FreshJoin, kind \in JoinKinds, invalid \in BOOLEAN :
                            Combine(kind, s, invalid, q, j)
                      \/ AllSettledRefused(s, q)
               PROVE  Reacts
    BY DEF Combinators
  <1> QED
    BY CombineLooks, LooksReacts, RefusedReacts
-----------------------------------------------------------------------------
(* Resuming, purging and resetting.                                        *)

\* The continuation at the head of the queue ends its frame.
LEMMA TakenFrees ==
    ASSUME Inv, ready # <<>>, FreeFrame(Taken)
    PROVE  SameConsumers
  BY TakenFacts, FreedFrames DEF TakenSays

LEMMA ResumeAwaitReacts == Inv /\ ResumeAwait => Reacts
  <1> SUFFICES ASSUME Inv, ResumeAwait
               PROVE  Reacts
    OBVIOUS
  <1>1. Alters({}, {})
    BY SameAlters DEF ResumeAwait
  <1>2. Unwatched
    BY TakenFrees, BornStays DEF ResumeAwait, Resuming, Unwatched, reporting, counters, ghost
  <1> QED
    BY <1>1, <1>2, QuietReacts

LEMMA ResumeChainReacts == Inv /\ ResumeChain => Reacts
  <1> SUFFICES ASSUME Inv, ResumeChain
               PROVE  Reacts
    OBVIOUS
  <1>1. Alters({}, {})
    BY SameAlters DEF ResumeChain
  <1>2. Unwatched
    BY SameFrames, BornStays DEF ResumeChain, Unwatched, reporting, counters, ghost
  <1> QED
    BY <1>1, <1>2, QuietReacts

LEMMA ResumeInertReacts == Inv /\ ResumeInert => Reacts
  <1> SUFFICES ASSUME Inv, ResumeInert
               PROVE  Reacts
    OBVIOUS
  <1>1. Alters({}, {})
    BY InertAlters
  <1>2. Unwatched
    BY TakenFrees, BornStays DEF ResumeInert, Resuming, Unwatched, reporting, counters, ghost
  <1> QED
    BY <1>1, <1>2, QuietReacts

LEMMA ForwardReacts ==
    ASSUME Inv, ready # <<>>, Box.kind \in {"chain", "adopt", "finallyAdopt"},
           NEW r \in Settlement, Forward(r)
    PROVE  Reacts
  <1>1. Alters({Box.output}, {})
    BY ForwardAlters
  <1>2. Unwatched
    BY TakenFrees, BornStays DEF Forward, Unwatched, reporting, counters, ghost
  <1> QED
    BY <1>1, <1>2, QuietReacts

LEMMA ResumeForwardReacts == Inv /\ (ResumeForward \/ ResumeFinallyAdopt) => Reacts
  <1> SUFFICES ASSUME Inv, ResumeForward \/ ResumeFinallyAdopt
               PROVE  Reacts
    OBVIOUS
  <1>1. ready # <<>> /\ Box.kind \in {"chain", "adopt", "finallyAdopt"}
    BY DEF ResumeForward, ResumeFinallyAdopt, Resuming
  <1>2. Outcome \in Settlement /\ Box.original \in Settlement
    BY <1>1, TakenFacts DEF TakenSays, FrameBox
  <1>3. \E r \in Settlement : Forward(r)
    BY <1>2 DEF ResumeForward, ResumeFinallyAdopt, Settlement
  <1> QED
    BY <1>1, <1>3, ForwardReacts

LEMMA ResumeChildReacts == Inv /\ ResumeChild => Reacts
  <1> SUFFICES ASSUME Inv, ResumeChild
               PROVE  Reacts
    OBVIOUS
  <1>1. Alters({join[Box.join].output}, {})
    BY ChildAlters
  <1>2. /\ ready # <<>> /\ FreeFrame(Taken)
        /\ UNCHANGED <<reporting, counters, reports, notices, observed>>
    BY Zenon DEF ResumeChild, Resuming
  <1>3. Unwatched
    BY <1>2, TakenFrees, BornStays DEF Unwatched, reporting, counters
  <1> QED
    BY <1>1, <1>3, QuietReacts

LEMMA ReturnChainReacts == Inv /\ ReturnChain => Reacts
  <1> SUFFICES ASSUME Inv, ReturnChain
               PROVE  Reacts
    OBVIOUS
  <1>1. Alters({}, {})
    BY ReturnAlters
  <1>2. stack \in Seq(FrameId) /\ stack # <<>>
    BY DEF ReturnChain, Inv, Places, PlaceOK, PlaceTypes
  <1>3. stack[Len(stack)] \in FrameId
    BY <1>2
  <1>4. FreeFrame(stack[Len(stack)])
    BY DEF ReturnChain
  <1>5. Unwatched
    BY <1>3, <1>4, FreedFrames, BornStays DEF ReturnChain, Unwatched, reporting, counters, ghost
  <1> QED
    BY <1>1, <1>5, QuietReacts

LEMMA PurgeReacts == Inv /\ Purge => Reacts
  <1> SUFFICES ASSUME Inv, Purge
               PROVE  Reacts
    OBVIOUS
  <1>1. Alters({}, {})
    BY SameAlters DEF Purge
  <1>2. SameConsumers
    <2>1. frame' = [f \in FrameId |->
                      [frame[f] EXCEPT !.cancelled = @ \/ frame[f].kind = "finallyAdopt"]]
      BY DEF Purge
    <2>2. frame \in [FrameId -> FrameBox]
      BY DEF Inv, Places, PlaceOK, PlaceTypes
    <2>3. \A f \in FrameId : frame'[f].kind = frame[f].kind /\ frame'[f].input = frame[f].input
      BY <2>1, <2>2 DEF FrameBox
    <2> QED
      BY <2>3 DEF SameConsumers
  <1>3. Unwatched
    BY <1>2, BornStays DEF Purge, Unwatched, reporting
  <1> QED
    BY <1>1, <1>3, QuietReacts

LEMMA ResetReacts ==
    ASSUME Inv, NEW R \in SUBSET Slots, ArenaReset(R)
    PROVE  Reacts
  <1>1. Alters({}, {})
    BY ResetAlters
  <1>2. UNCHANGED <<frame, reporting, counters, ghost>>
    BY Zenon DEF ArenaReset
  <1>3. Unwatched
    BY <1>2, SameFrames, BornStays DEF Unwatched, reporting, counters, ghost
  <1> QED
    BY <1>1, <1>3, QuietReacts

LEMMA StutterReacts == Inv /\ UNCHANGED vars => Reacts
  <1> SUFFICES ASSUME Inv, UNCHANGED vars
               PROVE  Reacts
    OBVIOUS
  <1>1. Alters({}, {})
    BY SameAlters DEF vars
  <1>2. Unwatched
    BY SameFrames, BornStays DEF vars, Unwatched, reporting, counters, ghost
  <1> QED
    BY <1>1, <1>2, QuietReacts

\* Only these report.
Reporting ==
    \/ ResumeDetach \/ PollIdle \/ ReportHandled \/ EndReports
    \/ \E p \in Promise : ReportFirst(p) \/ ReportNext(p)

LEMMA StepReacts == Inv /\ [Next]_vars => Reacts \/ Reporting
  <1> SUFFICES ASSUME Inv, [Next]_vars
               PROVE  Reacts \/ Reporting
    OBVIOUS
  <1>1. CASE Poll
    BY <1>1, ResumeAwaitReacts, ResumeChainReacts, ResumeInertReacts, ResumeForwardReacts,
       ResumeChildReacts DEF Poll, Reporting
  <1>2. CASE ListenerReturns
    BY <1>2 DEF ListenerReturns, Reporting
  <1> QED
    BY <1>1, <1>2, CreateReacts, UseTokenReacts, SubscribeLooks, LooksReacts, CombinatorsReact,
       ReturnChainReacts, DueReacts, PurgeReacts, ResetReacts, StutterReacts DEF Next

-----------------------------------------------------------------------------
(* Settlements are final.                                                  *)

\* The step of SettledForGood.
Final ==
    \A p \in Promise : heap[p].live /\ ~Pending(heap, p) /\ heap'[p].live
        => heap'[p].result = heap[p].result

LEMMA AltersFinal ==
    ASSUME Inv, NEW S, NEW P, Alters(S, P)
    PROVE  Final
  <1> SUFFICES ASSUME NEW p \in Promise, heap[p].live, ~Pending(heap, p), heap'[p].live
               PROVE  heap'[p].result = heap[p].result
    BY DEF Final
  <1>1. p <= born
    BY DEF Inv, Lives
  <1>2. Becomes(heap[p], heap'[p], p \in S, p \in P)
    BY <1>1 DEF Alters
  <1> QED
    BY <1>2 DEF Becomes, Pending

LEMMA StepFinal == Inv /\ [Next]_vars => Final
  <1> SUFFICES ASSUME Inv, [Next]_vars
               PROVE  Final
    OBVIOUS
  <1>1. CASE Reacts
    BY <1>1, AltersFinal DEF Reacts, Watches
  <1>2. CASE ResumeDetach
    BY <1>2, DetachAlters, AltersFinal
  <1>3. CASE PollIdle \/ \E p \in Promise : ReportFirst(p)
    BY <1>3, MarkedAlters, AltersFinal DEF PollIdle, ReportFirst
  <1>4. CASE ReportHandled \/ ListenerReturns
    BY <1>4, SameAlters, AltersFinal DEF ReportHandled, ListenerReturns, EndReports, ReportNext
  <1> QED
    BY <1>1, <1>2, <1>3, <1>4, StepReacts DEF Reporting, ListenerReturns

\* settle_promise only writes the result of a pending promise, and a box is not
\* used for another promise while somebody holds it: while a box lives, the
\* result its consumers were shown never changes.
THEOREM SettlementsAreFinal == Spec => SettledForGood
  <1>1. Inv /\ [Next]_vars => [Final]_vars
    BY StepFinal
  <1> QED
    BY <1>1, Invariant, PTL DEF Spec, SettledForGood, Final

-----------------------------------------------------------------------------
(* Cancelled combinators are inert.                                        *)

\* The step of CancelledIsInert.
Inert ==
    \A j \in JoinId : join[j].cancelled /\ ResumeChild /\ Box.join = j
        => heap'[join[j].output].result \in {heap[join[j].output].result, "pending"}

LEMMA DropsTwice ==
    ASSUME NEW b, NEW c, NEW d, Drops(b, c), Drops(c, d)
    PROVE  d.result \in {b.result, "pending"}
  BY DEF Drops

LEMMA HeapDrops ==
    ASSUME NEW h \in [Promise -> RawBox], NEW p \in Promise, NEW x \in Promise
    PROVE  /\ Drops(h[x], Destroy(h, p)[x]) /\ Drops(h[x], Release(h, p)[x])
           /\ Destroy(h, p) \in [Promise -> RawBox]
  <1> DEFINE c == DestroyBox(h[p])
             d == ReleaseBox(h[p])
  <1>1. Drops(h[p], c) /\ Drops(h[p], d)
    BY BoxDrops
  <1>2. Destroy(h, p) = [h EXCEPT ![p] = c] /\ Release(h, p) = [h EXCEPT ![p] = d]
    BY DestroyIs, ReleaseIs
  <1> HIDE DEF c, d
  <1>3. c \in RawBox /\ d \in RawBox
    BY <1>1 DEF Drops
  <1>4. Drops(h[x], h[x])
    BY DEF Drops, Becomes
  <1> QED
    BY <1>1, <1>2, <1>3, <1>4

LEMMA StepInert == Inv /\ [Next]_vars => Inert
  <1> SUFFICES ASSUME Inv, NEW j \in JoinId, join[j].cancelled, ResumeChild, Box.join = j
               PROVE  heap'[join[j].output].result \in {heap[join[j].output].result, "pending"}
    BY DEF Inert
  <1> DEFINE o == join[j].output
             r == Verdict(join[j], Outcome)
  <1>1. r = "pending"
    BY DEF Verdict
  <1>2. PICK h, given : ChildActs(j, o, r, h, given)
    BY ChildActing
  <1>3. Resuming("child")
    BY DEF ResumeChild
  <1>4. ChildSays(j, o) /\ Box.input \in Promise
    BY <1>3, ChildFacts, TakenFacts DEF Resuming, TakenSays
  <1>5. o \in Promise
    BY <1>4 DEF ChildSays
  <1>6. given = Destroy(heap, Box.input) /\ (heap' = given \/ heap' = Release(given, o))
    BY <1>1, <1>2 DEF ChildActs
  <1> HIDE DEF o, r
  <1>7. Drops(heap[o], given[o]) /\ given \in [Promise -> RawBox]
    BY <1>4, <1>5, <1>6, HeapIsRaw, HeapDrops
  <1>8. Drops(given[o], Release(given, o)[o])
    BY <1>5, <1>7, HeapDrops
  <1>9. given[o].result \in {heap[o].result, "pending"}
    BY <1>7 DEF Drops
  <1>10. Release(given, o)[o].result \in {heap[o].result, "pending"}
    BY <1>7, <1>8, DropsTwice
  <1> QED
    BY <1>6, <1>9, <1>10 DEF o

\* A purge marks the states of pending any and allSettled calls as cancelled:
\* their children still give their tokens back, and never settle the output.
THEOREM CancelledStaysInert == Spec => CancelledIsInert
  <1>1. Inv /\ [Next]_vars => [Inert]_vars
    BY StepInert
  <1> QED
    BY <1>1, Invariant, PTL DEF Spec, CancelledIsInert, Inert

-----------------------------------------------------------------------------
(* Reports of rejections.                                                  *)

\* The live promises that were reported and that nobody has handled since.
Reported(h) == {p \in Promise : h[p].live /\ h[p].reported /\ ~h[p].handled}

Told(counts) == {p \in Promise : counts[p] > 0}

\* The promises that were reported or that a phase has collected, and the ones
\* an orphaned record is left of.
Known == Told(reports) \cup ToReport

Orphans == {p \in Promise : Orphan(p)}

\* Every notice given or due, and every one that may still fall due, has a promise
\* of its own that was reported or waits to be.
NoticesHaveReports ==
    notices + pendingHandled + Cardinality(Reported(heap)) <= Cardinality(Known)

\* A promise with a consumer is handled; one that is not was looked at by nobody,
\* left no orphaned record, and was collected if it is known.
Unseen(p) == p \notin observed /\ p \notin Orphans

FramesHandle == \A f \in FrameId : frame[f].kind # "none" => heap[frame[f].input].handled

UnhandledUnseen ==
    \A p \in Promise : heap[p].live /\ ~heap[p].handled =>
        Unseen(p) /\ (~heap[p].reported => p \notin Known)

UnbornUnseen == \A p \in Promise : p > born => Unseen(p) /\ p \notin Known

\* A promise waits in one phase, and waits to be reported once.
BatchesApart ==
    \A i, k \in 1..Len(batches) : i # k => batches[i].live \cap batches[k].live = {}

Owes ==
    NoticesHaveReports /\ FramesHandle /\ UnhandledUnseen /\ UnbornUnseen /\ BatchesApart

\* What has been collected and reported stays as it is.
SameRecords ==
    Known' = Known /\ Orphans' = Orphans /\ (BatchesApart => BatchesApart') /\ ToReport' = ToReport

LEMMA RecordsStay ==
    ASSUME UNCHANGED <<orphaned, batches, reports>>
    PROVE  SameRecords
  <1>1. ToReport' = ToReport /\ (BatchesApart => BatchesApart')
    BY DEF ToReport, BatchesApart
  <1>2. Told(reports') = Told(reports)
    OBVIOUS
  <1>3. Orphans' = Orphans
    BY DEF Orphans, Orphan
  <1> QED
    BY <1>1, <1>2, <1>3 DEF SameRecords, Known

LEMMA Finite ==
    ASSUME NEW A \in SUBSET Promise
    PROVE  IsFiniteSet(A) /\ Cardinality(A) \in Nat
  BY HolderTypes, Domains, FS_Subset, FS_CardinalityType

KnownOnly == Known \in SUBSET Promise

LEMMA KnownPromises == Inv => KnownOnly
  <1> SUFFICES ASSUME Inv
               PROVE  KnownOnly
    OBVIOUS
  <1>1. batches \in Seq(Batch)
    BY DEF Inv, Types
  <1>2. ASSUME NEW i \in 1..Len(batches)
        PROVE  batches[i].live \subseteq Promise
    <2>1. batches[i] \in Batch
      BY <1>1
    <2> QED
      BY <2>1 DEF Batch
  <1>3. ToReport \subseteq Promise
    BY <1>2 DEF ToReport
  <1> QED
    BY <1>3 DEF KnownOnly, Known, Told

LEMMA KnownNext == Inv' => KnownOnly'
  BY KnownPromises, PTL

LEMMA InvBorn == Inv => born \in Nat /\ \A p \in Promise : heap[p].live => p <= born
  BY DEF Inv, Types, Lives

\* No box that a frame observes was freed.
FramesLive == \A f \in FrameId : frame[f].kind # "none" => heap[frame[f].input].live

LEMMA InvFramesLive == Inv => FramesLive
  BY InvDangles DEF NothingDangles, FramesLive

LEMMA FrameInputs == Inv => \A f \in FrameId : frame[f].kind # "none" => frame[f].input \in Promise
  BY DEF Inv, Places, PlaceOK, PlaceTypes, Structure, FrameOK

LEMMA ReactOwes ==
    ASSUME Inv, Inv', FramesLive', Owes, NEW S, NEW P, Watches(S, P)
    PROVE  Owes'
  <1>1. /\ P \in SUBSET Promise /\ \A p \in P : heap[p].live /\ heap'[p].handled
        /\ pendingHandled' = pendingHandled + Late(heap, P)
        /\ observed' \subseteq observed \cup P
        /\ \A f \in FrameId : frame'[f].kind # "none" =>
              \/ frame'[f].input \in P
              \/ frame[f].kind # "none" /\ frame'[f].input = frame[f].input
        /\ born' >= born /\ Known' = Known /\ Orphans' = Orphans /\ notices' = notices
    BY RecordsStay DEF Watches, SameRecords
  <1>2. /\ \A p \in Promise : p <= born => Becomes(heap[p], heap'[p], p \in S, p \in P)
        /\ \A p \in Promise : p > born /\ heap'[p].live => ~heap'[p].reported
    BY DEF Watches, Alters
  <1>3. /\ born \in Nat /\ born' \in Nat /\ Promise \subseteq Nat
        /\ pendingHandled \in Nat /\ notices \in Nat
    BY Domains DEF Inv, Types
  <1>4. \A p \in Promise : heap[p].live => p <= born
    BY DEF Inv, Lives
  <1>5. NoticesHaveReports'
    <2> DEFINE L == {p \in P : heap[p].reported /\ ~heap[p].handled}
               A == Reported(heap)
               B == Reported(heap')
    <2>1. L \subseteq A /\ A \in SUBSET Promise /\ B \in SUBSET Promise
      BY <1>1 DEF Reported
    <2>2. B \subseteq A \ L
      <3> SUFFICES ASSUME NEW p \in B
                   PROVE  p \in A /\ p \notin P
        OBVIOUS
      <3>1. p \in Promise /\ heap'[p].live /\ heap'[p].reported /\ ~heap'[p].handled
        BY DEF Reported
      <3>2. p <= born /\ p \notin P
        BY <1>1, <1>2, <1>3, <3>1
      <3>3. Becomes(heap[p], heap'[p], p \in S, p \in P)
        BY <1>2, <3>1, <3>2
      <3>4. heap[p].live /\ heap[p].reported /\ ~heap[p].handled
        BY <3>1, <3>2, <3>3 DEF Becomes
      <3> QED
        BY <3>1, <3>2, <3>4 DEF Reported
    <2>3. Late(heap, P) = Cardinality(L)
      BY DEF Late
    <2> HIDE DEF L, A, B
    <2>4. IsFiniteSet(A) /\ IsFiniteSet(B) /\ IsFiniteSet(L) /\ IsFiniteSet(A \ L)
      BY <2>1, Finite, FS_Subset
    <2>5. /\ Cardinality(A) \in Nat /\ Cardinality(B) \in Nat /\ Cardinality(L) \in Nat
          /\ Cardinality(A \ L) \in Nat
      BY <2>4, FS_CardinalityType
    <2>6. Cardinality(B) <= Cardinality(A \ L)
      BY <2>2, <2>4, FS_Subset
    <2>7. Cardinality(A \ L) = Cardinality(A) - Cardinality(L)
      <3>1. A \cap L = L
        BY <2>1
      <3> QED
        BY <2>4, <3>1, FS_Difference
    <2>8. Cardinality(Known) \in Nat
      BY Finite, KnownPromises DEF KnownOnly
    <2>9. notices + pendingHandled + Cardinality(A) <= Cardinality(Known)
      BY DEF Owes, NoticesHaveReports, A
    <2>10. notices + (pendingHandled + Cardinality(L)) + Cardinality(B) <= Cardinality(Known)
      BY <1>3, <2>5, <2>6, <2>7, <2>8, <2>9
    <2>11. notices' + pendingHandled' + Cardinality(B) <= Cardinality(Known')
      BY <1>1, <2>3, <2>10
    <2> QED
      BY <2>11 DEF B, NoticesHaveReports
  <1>6. FramesHandle'
    <2> SUFFICES ASSUME NEW f \in FrameId, frame'[f].kind # "none", frame'[f].input \notin P
                 PROVE  heap'[frame'[f].input].handled
      BY <1>1 DEF FramesHandle
    <2> DEFINE p == frame[f].input
    <2>1. frame[f].kind # "none" /\ frame'[f].input = p
      BY <1>1
    <2>2. p \in Promise /\ heap[p].live /\ heap[p].handled
      BY <2>1, InvFramesLive, FrameInputs DEF FramesLive, Owes, FramesHandle
    <2>3. heap'[p].live
      BY <2>1 DEF FramesLive
    <2>4. p <= born
      BY <1>4, <2>2
    <2>5. Becomes(heap[p], heap'[p], p \in S, p \in P)
      BY <1>2, <2>2, <2>4
    <2> HIDE DEF p
    <2> QED
      BY <2>1, <2>2, <2>3, <2>5 DEF Becomes
  <1>7. UnhandledUnseen'
    <2> SUFFICES ASSUME NEW p \in Promise, heap'[p].live, ~heap'[p].handled
                 PROVE  (p \notin observed' /\ p \notin Orphans') /\ (~heap'[p].reported => p \notin Known')
      BY DEF UnhandledUnseen, Unseen
    <2>1. p \notin P
      BY <1>1
    <2>2. CASE p <= born
      <3>1. Becomes(heap[p], heap'[p], p \in S, p \in P)
        BY <1>2, <2>1, <2>2
      <3>2. heap[p].live /\ ~heap[p].handled /\ heap'[p].reported = heap[p].reported
        BY <2>1, <3>1 DEF Becomes
      <3>3. Unseen(p) /\ (~heap[p].reported => p \notin Known)
        BY <3>2 DEF Owes, UnhandledUnseen
      <3> QED
        BY <1>1, <2>1, <3>2, <3>3 DEF Unseen
    <2>3. CASE p > born
      <3>1. Unseen(p) /\ p \notin Known
        BY <2>3 DEF Owes, UnbornUnseen
      <3> QED
        BY <1>1, <2>1, <3>1 DEF Unseen
    <2> QED
      BY <1>3, <2>2, <2>3
  <1>8. UnbornUnseen'
    <2> SUFFICES ASSUME NEW p \in Promise, p > born'
                 PROVE  (p \notin observed' /\ p \notin Orphans') /\ p \notin Known'
      BY DEF UnbornUnseen, Unseen
    <2>1. p > born
      BY <1>1, <1>3
    <2>2. p \notin P
      BY <1>1, <1>3, <1>4, <2>1
    <2>3. Unseen(p) /\ p \notin Known
      BY <2>1 DEF Owes, UnbornUnseen
    <2> QED
      BY <1>1, <2>2, <2>3 DEF Unseen
  <1>9. BatchesApart'
    BY RecordsStay DEF Watches, SameRecords, Owes
  <1> QED
    BY <1>5, <1>6, <1>7, <1>8, <1>9 DEF Owes

LEMMA DetachOwes ==
    ASSUME Inv, FramesLive', Owes, ResumeDetach
    PROVE  Owes'
  <1> DEFINE q == Box.input
  <1>1. /\ ready # <<>> /\ FreeFrame(Taken)
        /\ UNCHANGED <<pendingHandled, batches, born, reports, notices, observed>>
    BY DEF ResumeDetach, Resuming, counters, ghost
  <1>2. /\ Taken \in FrameId /\ q \in Promise /\ heap[q].live /\ Box.kind # "none"
    BY <1>1, TakenFacts DEF TakenSays
  <1>3. heap[q].handled
    BY <1>2 DEF Owes, FramesHandle, Box
  <1>4. /\ \A p \in Promise : p # q => (p \in Orphans' <=> p \in Orphans)
        /\ Known' = Known /\ (BatchesApart => BatchesApart')
    <2>1. \A p \in Promise : p # q => orphaned'[p] = orphaned[p]
      BY DEF ResumeDetach, Inv, Types
    <2>2. ToReport' = ToReport /\ (BatchesApart => BatchesApart')
      BY <1>1 DEF ToReport, BatchesApart
    <2> HIDE DEF q
    <2>3. \A p \in Promise : p # q => (p \in Orphans' <=> p \in Orphans)
      BY <1>1, <2>1 DEF Orphans, Orphan
    <2> QED
      BY <1>1, <2>2, <2>3 DEF Known
  <1>5. SameConsumers
    BY <1>1, TakenFrees
  <1>6. Alters({}, {q})
    BY DetachAlters
  <1> HIDE DEF q
  <1>7. born \in Nat /\ Promise \subseteq Nat /\ \A p \in Promise : heap[p].live => p <= born
    BY Domains DEF Inv, Types, Lives
  <1>8. ASSUME NEW p \in Promise, heap'[p].live
        PROVE  /\ p <= born => /\ heap[p].live /\ (heap[p].handled => heap'[p].handled)
                               /\ p # q => /\ heap'[p].handled = heap[p].handled
                                           /\ heap'[p].reported = heap[p].reported
               /\ p > born => ~heap'[p].reported
    BY <1>6, <1>8 DEF Alters, Becomes
  <1>9. NoticesHaveReports'
    <2> DEFINE A == Reported(heap)
               B == Reported(heap')
    <2>1. B \subseteq A
      <3> SUFFICES ASSUME NEW p \in B
                   PROVE  p \in A
        OBVIOUS
      <3>1. p \in Promise /\ heap'[p].live /\ heap'[p].reported /\ ~heap'[p].handled
        BY DEF Reported
      <3>2. p <= born
        BY <1>7, <1>8, <3>1
      <3>3. p # q
        BY <1>3, <1>8, <3>1, <3>2
      <3>4. heap[p].live /\ heap[p].reported /\ ~heap[p].handled
        BY <1>8, <3>1, <3>2, <3>3
      <3> QED
        BY <3>1, <3>4 DEF Reported
    <2>2. A \in SUBSET Promise /\ B \in SUBSET Promise
      BY DEF Reported
    <2> HIDE DEF A, B
    <2>3. IsFiniteSet(A) /\ Cardinality(A) \in Nat /\ Cardinality(B) \in Nat
      BY <2>2, Finite
    <2>4. Cardinality(B) <= Cardinality(A)
      BY <2>1, <2>3, FS_Subset
    <2>5. Cardinality(Known) \in Nat /\ pendingHandled \in Nat /\ notices \in Nat
      BY Finite, KnownPromises DEF KnownOnly, Inv, Types
    <2>6. notices + pendingHandled + Cardinality(A) <= Cardinality(Known)
      BY DEF Owes, NoticesHaveReports, A
    <2>7. notices + pendingHandled + Cardinality(B) <= Cardinality(Known)
      BY <2>3, <2>4, <2>5, <2>6
    <2> QED
      BY <1>1, <1>4, <2>7 DEF B, NoticesHaveReports
  <1>10. FramesHandle'
    <2> SUFFICES ASSUME NEW f \in FrameId, frame'[f].kind # "none"
                 PROVE  heap'[frame'[f].input].handled
      BY DEF FramesHandle
    <2>1. frame[f].kind # "none" /\ frame'[f].input = frame[f].input
      BY <1>5 DEF SameConsumers
    <2>2. frame[f].input \in Promise /\ heap[frame[f].input].live /\ heap[frame[f].input].handled
      BY <2>1, InvFramesLive, FrameInputs DEF FramesLive, Owes, FramesHandle
    <2>3. heap'[frame[f].input].live /\ frame[f].input <= born
      BY <1>7, <2>1, <2>2 DEF FramesLive
    <2> QED
      BY <1>8, <2>1, <2>2, <2>3
  <1>11. UnhandledUnseen'
    <2> SUFFICES ASSUME NEW p \in Promise, heap'[p].live, ~heap'[p].handled
                 PROVE  (p \notin observed' /\ p \notin Orphans') /\ (~heap'[p].reported => p \notin Known')
      BY DEF UnhandledUnseen, Unseen
    <2>1. CASE p <= born
      <3>1. p # q
        BY <1>3, <1>8, <2>1
      <3>2. heap[p].live /\ ~heap[p].handled /\ heap'[p].reported = heap[p].reported
        BY <1>8, <2>1, <3>1
      <3>3. Unseen(p) /\ (~heap[p].reported => p \notin Known)
        BY <3>2 DEF Owes, UnhandledUnseen
      <3> QED
        BY <1>1, <1>4, <3>1, <3>2, <3>3 DEF Unseen
    <2>2. CASE p > born
      <3>1. Unseen(p) /\ p \notin Known /\ p # q
        BY <1>2, <1>7, <2>2 DEF Owes, UnbornUnseen
      <3> QED
        BY <1>1, <1>4, <3>1 DEF Unseen
    <2> QED
      BY <1>7, <2>1, <2>2
  <1>12. UnbornUnseen'
    <2> SUFFICES ASSUME NEW p \in Promise, p > born
                 PROVE  (p \notin observed' /\ p \notin Orphans') /\ p \notin Known'
      BY <1>1 DEF UnbornUnseen, Unseen
    <2>1. Unseen(p) /\ p \notin Known /\ p # q
      BY <1>2, <1>7 DEF Owes, UnbornUnseen
    <2> QED
      BY <1>1, <1>4, <2>1 DEF Unseen
  <1> QED
    BY <1>4, <1>9, <1>10, <1>11, <1>12 DEF Owes

\* A step of a report phase: it collects the promises in U, and takes up the
\* records of orphans.
Tells(U) ==
    /\ U \subseteq Unreported
    /\ \A p \in Promise : /\ heap'[p].live = heap[p].live /\ heap'[p].handled = heap[p].handled
                          /\ heap'[p].reported = (heap[p].reported \/ p \in U)
    /\ Known \cup U \subseteq Known' /\ Known' \subseteq Known \cup U \cup Orphans
    /\ Orphans' \subseteq Orphans
    /\ notices' + pendingHandled' = notices + pendingHandled
    /\ UNCHANGED <<frame, observed, born>>

LEMMA TellsOwes ==
    ASSUME Inv, Inv', Owes, NEW U, Tells(U), BatchesApart'
    PROVE  Owes'
  <1>1. /\ Known \cup U \subseteq Known' /\ Known' \subseteq Known \cup U \cup Orphans
        /\ Orphans' \subseteq Orphans
        /\ notices' + pendingHandled' = notices + pendingHandled
        /\ UNCHANGED <<frame, observed, born>>
    BY DEF Tells
  <1>2. pendingHandled \in Nat /\ notices \in Nat
    BY DEF Inv, Types
  <1>3. U \subseteq Promise /\ \A p \in U : heap[p].live /\ ~heap[p].handled /\ ~heap[p].reported
    BY DEF Unreported, Tells
  <1>4. \A p \in U : p \notin Known /\ p \notin Orphans /\ p \notin observed
    BY <1>3 DEF Owes, UnhandledUnseen, Unseen
  <1>5. ASSUME NEW p \in Promise
        PROVE  /\ heap'[p].live = heap[p].live /\ heap'[p].handled = heap[p].handled
               /\ heap'[p].reported = (heap[p].reported \/ p \in U)
    BY DEF Tells
  <1>6. NoticesHaveReports'
    <2> DEFINE A == Reported(heap)
               B == Reported(heap')
               T == Known
               V == Known'
    <2>1. B = A \cup U /\ A \cap U = {}
      BY <1>3, <1>5 DEF Reported
    <2>2. T \cup U \subseteq V /\ T \cap U = {}
      BY <1>1, <1>4
    <2>3. A \in SUBSET Promise /\ B \in SUBSET Promise /\ T \in SUBSET Promise /\ V \in SUBSET Promise
      BY KnownPromises, KnownNext DEF KnownOnly, Reported
    <2> HIDE DEF A, B, T, V
    <2>4. /\ IsFiniteSet(A) /\ IsFiniteSet(B) /\ IsFiniteSet(T) /\ IsFiniteSet(V) /\ IsFiniteSet(U)
          /\ Cardinality(A) \in Nat /\ Cardinality(B) \in Nat /\ Cardinality(T) \in Nat
          /\ Cardinality(V) \in Nat /\ Cardinality(U) \in Nat
      BY <1>3, <2>3, Finite
    <2>5. Cardinality({}) = 0
      BY FS_EmptySet
    <2>6. Cardinality(B) = Cardinality(A) + Cardinality(U)
      <3>1. Cardinality(A \cup U) = Cardinality(A) + Cardinality(U) - Cardinality(A \cap U)
        BY <2>4, FS_Union
      <3>2. Cardinality(A \cap U) = 0
        BY <2>1, <2>5
      <3> QED
        BY <2>1, <2>4, <3>1, <3>2
    <2>7. Cardinality(T \cup U) = Cardinality(T) + Cardinality(U)
      <3>1. Cardinality(T \cup U) = Cardinality(T) + Cardinality(U) - Cardinality(T \cap U)
        BY <2>4, FS_Union
      <3>2. Cardinality(T \cap U) = 0
        BY <2>2, <2>5
      <3> QED
        BY <2>4, <3>1, <3>2
    <2>8. Cardinality(T \cup U) <= Cardinality(V)
      BY <2>2, <2>4, FS_Subset
    <2>9. notices + pendingHandled + Cardinality(A) <= Cardinality(T)
      BY DEF Owes, NoticesHaveReports, A, T
    <2>10. notices + pendingHandled + Cardinality(B) <= Cardinality(V)
      BY <1>2, <2>4, <2>6, <2>7, <2>8, <2>9
    <2> QED
      BY <1>1, <2>10 DEF B, V, NoticesHaveReports
  <1>7. FramesHandle'
    BY <1>1, <1>5, FrameInputs DEF Owes, FramesHandle
  <1>8. UnhandledUnseen'
    <2> SUFFICES ASSUME NEW p \in Promise, heap'[p].live, ~heap'[p].handled
                 PROVE  /\ p \notin observed' /\ p \notin Orphans'
                        /\ ~heap'[p].reported => p \notin Known'
      BY DEF UnhandledUnseen, Unseen
    <2>1. p \notin observed /\ p \notin Orphans /\ (~heap[p].reported => p \notin Known)
      BY <1>5 DEF Owes, UnhandledUnseen, Unseen
    <2>2. ~heap'[p].reported => ~heap[p].reported /\ p \notin U
      BY <1>5
    <2> QED
      BY <1>1, <2>1, <2>2
  <1>9. UnbornUnseen'
    <2> SUFFICES ASSUME NEW p \in Promise, p > born
                 PROVE  p \notin observed' /\ p \notin Orphans' /\ p \notin Known'
      BY <1>1 DEF UnbornUnseen, Unseen
    <2>1. p \notin observed /\ p \notin Orphans /\ p \notin Known
      BY DEF Owes, UnbornUnseen, Unseen
    <2>2. p \notin U
      <3>1. born \in Nat /\ p \in Nat
        BY InvBorn, Domains
      <3>2. ~heap[p].live
        BY <3>1, InvBorn
      <3> QED
        BY <1>3, <3>2
    <2> QED
      BY <1>1, <2>1, <2>2
  <1> QED
    BY <1>6, <1>7, <1>8, <1>9 DEF Owes

\* The batches and the records of orphans have their types.
Recorded ==
    /\ batches \in Seq(Batch) /\ orphaned \in [Promise -> Nat] /\ reports \in [Promise -> Nat]
    /\ pendingHandled \in Nat /\ notices \in Nat

LEMMA InvRecorded == Inv => Recorded
  BY DEF Inv, Types, Recorded

\* What becomes of a batch as the record of p is taken.
Shrinks(b, w, p) ==
    /\ w \in Batch /\ w.live \subseteq b.live /\ b.live \ w.live \subseteq {p}
    /\ \A q \in Promise : w.orphans[q] > 0 => b.orphans[q] > 0
    /\ b.orphans[p] = 0 => p \notin w.live

LEMMA WithoutShrinks ==
    ASSUME NEW b \in Batch, NEW p \in Promise
    PROVE  Shrinks(b, Without(b, p), p)
  <1>1. Without(b, p) \in Batch /\ b.orphans \in [Promise -> Nat]
    BY WithoutIsBatch DEF Batch
  <1>2. CASE b.orphans[p] > 0
    <2>1. Without(b, p).live = b.live
      BY <1>2 DEF Without, Batch
    <2>2. ASSUME NEW q \in Promise
          PROVE  Without(b, p).orphans[q] > 0 => b.orphans[q] > 0
      BY <1>1, <1>2 DEF Without, Batch
    <2> QED
      BY <1>1, <1>2, <2>1, <2>2 DEF Shrinks
  <1>3. CASE ~(b.orphans[p] > 0)
    <2>1. Without(b, p).live = b.live \ {p} /\ Without(b, p).orphans = b.orphans
      BY <1>3 DEF Without, Batch
    <2> QED
      BY <1>1, <2>1 DEF Shrinks
  <1> QED
    BY <1>2, <1>3

LEMMA ReportHandledTells == Inv /\ Owes /\ ReportHandled => Tells({}) /\ BatchesApart'
  <1> SUFFICES ASSUME Inv, Owes, ReportHandled
               PROVE  Tells({}) /\ BatchesApart'
    OBVIOUS
  <1>1. /\ notices' = notices + pendingHandled /\ pendingHandled' = 0
        /\ UNCHANGED <<heap, frame, orphaned, batches, reports, observed, born>>
    BY DEF ReportHandled, counters
  <1>2. notices' + pendingHandled' = notices + pendingHandled
    BY <1>1, InvRecorded DEF Recorded
  <1>3. SameRecords
    BY <1>1, RecordsStay
  <1>4. ASSUME NEW p \in Promise
        PROVE  heap[p].reported \in BOOLEAN
    BY HeapIsRaw DEF RawBox
  <1> QED
    BY <1>1, <1>2, <1>3, <1>4 DEF Tells, SameRecords, Owes

\* The flags a report phase sets.
LEMMA MarkedFlags ==
    ASSUME Inv, heap' = Marked, NEW p \in Promise
    PROVE  /\ heap'[p].live = heap[p].live /\ heap'[p].handled = heap[p].handled
           /\ heap'[p].reported = (heap[p].reported \/ p \in Unreported)
  BY HeapIsRaw DEF RawBox, Marked

LEMMA PollIdleTells == Inv /\ Owes /\ PollIdle => Tells(Unreported) /\ BatchesApart'
  <1> SUFFICES ASSUME Inv, Owes, PollIdle
               PROVE  Tells(Unreported) /\ BatchesApart'
    OBVIOUS
  <1> DEFINE U == Unreported
  <1>1. /\ heap' = Marked
        /\ \A p \in Promise :
              reports'[p] = reports[p] + orphaned[p] + IF p \in U THEN 1 ELSE 0
        /\ orphaned' = [p \in Promise |-> 0]
        /\ notices' = notices + pendingHandled /\ pendingHandled' = 0
        /\ UNCHANGED <<frame, batches, observed, born>>
    BY DEF PollIdle, counters
  <1>2. Recorded /\ U \subseteq Promise
    BY InvRecorded DEF Unreported
  <1>3. ToReport' = ToReport /\ BatchesApart'
    BY <1>1 DEF ToReport, BatchesApart, Owes
  <1> HIDE DEF U
  <1>4. ASSUME NEW p \in Promise
        PROVE  reports'[p] > 0 <=> reports[p] > 0 \/ orphaned[p] > 0 \/ p \in U
    BY <1>1, <1>2 DEF Recorded
  <1>5. Known \cup U \subseteq Known' /\ Known' \subseteq Known \cup U \cup Orphans
    BY <1>2, <1>3, <1>4 DEF Known, Told, Orphans, Orphan
  <1>6. Orphans' \subseteq Orphans
    BY <1>1 DEF Orphans, Orphan
  <1>7. notices' + pendingHandled' = notices + pendingHandled
    BY <1>1, <1>2 DEF Recorded
  <1> QED
    BY <1>1, <1>3, <1>5, <1>6, <1>7, MarkedFlags DEF Tells, U

\* The batch of records a report phase that called a listener for p leaves.
FirstBatch(w, p) ==
    /\ batches' = Append(batches, w) /\ w \in Batch
    /\ w.live \subseteq Unreported /\ Unreported \ w.live \subseteq {p}
    /\ \A q \in Promise : w.orphans[q] > 0 => orphaned[q] > 0
    /\ orphaned[p] = 0 => p \in Unreported /\ p \notin w.live

LEMMA FirstTaken ==
    ASSUME Inv, NEW p \in Promise, ReportFirst(p)
    PROVE  FirstBatch(Without(Snapshot, p), p)
  <1> DEFINE b == Snapshot
             w == Without(Snapshot, p)
  <1>1. b \in Batch /\ b.live = Unreported /\ b.orphans = orphaned
    BY SnapshotIsBatch DEF Snapshot
  <1>2. Recorded
    BY InvRecorded
  <1>3. orphaned[p] = 0 => p \in Unreported
    BY <1>1, <1>2 DEF ReportFirst, IsNext, Recorded
  <1>4. Shrinks(b, w, p)
    BY <1>1, WithoutShrinks
  <1>5. batches' = Append(batches, w)
    BY DEF ReportFirst
  <1> HIDE DEF b, w
  <1>6. FirstBatch(w, p)
    BY <1>1, <1>3, <1>4, <1>5 DEF FirstBatch, Shrinks
  <1> QED
    BY <1>6 DEF w

\* The batches after one more, element by element.
LEMMA OneMore ==
    ASSUME Inv, NEW p \in Promise, NEW w, FirstBatch(w, p)
    PROVE  /\ ToReport' = ToReport \cup w.live
           /\ Len(batches') = Len(batches) + 1 /\ Len(batches) \in Nat
           /\ batches'[Len(batches')] = w
           /\ \A i \in 1..Len(batches) : batches'[i] = batches[i]
  <1>1. batches \in Seq(Batch) /\ batches' = Append(batches, w) /\ w \in Batch
    BY InvRecorded DEF Recorded, FirstBatch
  <1>2. /\ Len(batches') = Len(batches) + 1 /\ Len(batches) \in Nat
        /\ batches'[Len(batches')] = w
        /\ \A i \in 1..Len(batches) : batches'[i] = batches[i]
    BY <1>1
  <1>3. 1..Len(batches') = (1..Len(batches)) \cup {Len(batches')}
    BY <1>2
  <1>4. ToReport' = ToReport \cup w.live
    BY <1>2, <1>3 DEF ToReport
  <1> QED
    BY <1>2, <1>4

LEMMA ReportFirstTells ==
    ASSUME Inv, Owes, NEW p \in Promise, ReportFirst(p)
    PROVE  Tells(Unreported) /\ BatchesApart'
  <1> DEFINE U == Unreported
             w == Without(Snapshot, p)
  <1>1. /\ heap' = Marked
        /\ reports' = [reports EXCEPT ![p] = @ + 1]
        /\ orphaned' = [q \in Promise |-> 0]
        /\ UNCHANGED <<frame, observed, born, notices, pendingHandled>>
    BY DEF ReportFirst, counters
  <1>2. Recorded /\ U \subseteq Promise /\ FirstBatch(w, p)
    BY InvRecorded, FirstTaken DEF Unreported
  <1> HIDE DEF w
  <1>3. /\ ToReport' = ToReport \cup w.live
        /\ Len(batches') = Len(batches) + 1 /\ Len(batches) \in Nat
        /\ batches'[Len(batches')] = w
        /\ \A i \in 1..Len(batches) : batches'[i] = batches[i]
    BY <1>2, OneMore
  <1>4. /\ w.live \subseteq U /\ U \ w.live \subseteq {p}
        /\ \A q \in Promise : w.orphans[q] > 0 => orphaned[q] > 0
        /\ orphaned[p] = 0 => p \in U
    BY <1>2 DEF FirstBatch, U
  <1>5. U \cap ToReport = {}
    BY DEF U, Unreported, Owes, UnhandledUnseen, Known
  <1>6. BatchesApart'
    <2> SUFFICES ASSUME NEW i \in 1..Len(batches'), NEW k \in 1..Len(batches'), i # k
                 PROVE  batches'[i].live \cap batches'[k].live = {}
      BY DEF BatchesApart
    <2>1. ASSUME NEW j \in 1..Len(batches)
          PROVE  batches[j].live \cap w.live = {}
      BY <1>4, <1>5 DEF ToReport
    <2>2. CASE i \in 1..Len(batches) /\ k \in 1..Len(batches)
      BY <1>3, <2>2 DEF Owes, BatchesApart
    <2>3. CASE i \in 1..Len(batches) /\ k = Len(batches')
      BY <1>3, <2>1, <2>3
    <2>4. CASE k \in 1..Len(batches) /\ i = Len(batches')
      BY <1>3, <2>1, <2>4
    <2> QED
      BY <1>3, <2>2, <2>3, <2>4
  <1>7. Told(reports') = Told(reports) \cup {p}
    BY <1>1, <1>2 DEF Recorded, Told
  <1>8. Known \cup U \subseteq Known' /\ Known' \subseteq Known \cup U \cup Orphans
    <2>1. Known' = Told(reports) \cup {p} \cup ToReport \cup w.live
      BY <1>3, <1>7 DEF Known
    <2>2. p \in U \cup Orphans
      BY <1>2, <1>4 DEF Recorded, Orphans, Orphan
    <2> QED
      BY <1>4, <2>1, <2>2 DEF Known
  <1>9. Orphans' \subseteq Orphans
    <2> SUFFICES ASSUME NEW q \in Promise, Orphan(q)'
                 PROVE  Orphan(q)
      BY DEF Orphans
    <2>1. PICK i \in 1..Len(batches') : batches'[i].orphans[q] > 0
      BY <1>1 DEF Orphan
    <2>2. CASE i \in 1..Len(batches)
      BY <1>3, <2>1, <2>2 DEF Orphan
    <2>3. CASE i = Len(batches')
      BY <1>3, <1>4, <2>1, <2>3 DEF Orphan
    <2> QED
      BY <1>3, <2>2, <2>3
  <1> QED
    BY <1>1, <1>6, <1>8, <1>9, MarkedFlags DEF Tells, U

\* The innermost batch gives place to w.
TopBecomes(w) ==
    /\ batches # <<>> /\ w \in Batch
    /\ batches' = [batches EXCEPT ![Len(batches)] = w]

\* The listener was called for p, which waited in the innermost phase.
NextBatch(w, p) ==
    LET b == batches[Len(batches)]
    IN  /\ TopBecomes(w) /\ Shrinks(b, w, p)
        /\ b.orphans[p] = 0 => p \in b.live

LEMMA NextTaken ==
    ASSUME Inv, NEW p \in Promise, ReportNext(p)
    PROVE  NextBatch(Without(batches[Len(batches)], p), p)
  <1> DEFINE b == batches[Len(batches)]
             w == Without(b, p)
  <1>1. batches # <<>> /\ IsNext(b, p) /\ batches' = [batches EXCEPT ![Len(batches)] = w]
    BY DEF ReportNext, InListener
  <1>2. b \in Batch
    BY <1>1, InvRecorded DEF Recorded
  <1>3. Shrinks(b, w, p)
    BY <1>2, WithoutShrinks
  <1>4. b.orphans[p] = 0 => p \in b.live
    BY <1>1, <1>2 DEF IsNext, Batch
  <1> HIDE DEF w
  <1>5. NextBatch(w, p)
    BY <1>1, <1>3, <1>4 DEF NextBatch, TopBecomes, Shrinks
  <1> QED
    BY <1>5 DEF w

LEMMA TopIs ==
    ASSUME Inv, NEW w, TopBecomes(w)
    PROVE  /\ Len(batches') = Len(batches) /\ Len(batches) \in Nat /\ Len(batches) \in 1..Len(batches)
           /\ batches'[Len(batches)] = w
           /\ \A i \in 1..Len(batches) : i # Len(batches) => batches'[i] = batches[i]
  BY InvRecorded DEF Recorded, TopBecomes

LEMMA ReportNextTells ==
    ASSUME Inv, Owes, NEW p \in Promise, ReportNext(p)
    PROVE  Tells({}) /\ BatchesApart'
  <1> DEFINE n == Len(batches)
             b == batches[n]
             w == Without(b, p)
  <1>1. /\ reports' = [reports EXCEPT ![p] = @ + 1]
        /\ UNCHANGED <<heap, orphaned, frame, observed, born, notices, pendingHandled>>
    BY DEF ReportNext, counters
  <1>2. Recorded /\ NextBatch(w, p)
    BY InvRecorded, NextTaken
  <1> HIDE DEF w
  <1>3. /\ w.live \subseteq b.live /\ b.live \ w.live \subseteq {p}
        /\ \A q \in Promise : w.orphans[q] > 0 => b.orphans[q] > 0
        /\ b.orphans[p] = 0 => p \in b.live
    BY <1>2 DEF NextBatch, Shrinks
  <1>4. /\ Len(batches') = n /\ n \in Nat /\ n \in 1..n /\ batches'[n] = w
        /\ \A i \in 1..n : i # n => batches'[i] = batches[i]
    BY <1>2, TopIs DEF NextBatch
  <1>5. b \in Batch
    BY <1>2, <1>4 DEF Recorded
  <1> HIDE DEF n, b
  <1>6. /\ \A i \in 1..n : batches'[i].live \subseteq batches[i].live
        /\ \A i \in 1..n : batches[i].live \ batches'[i].live \subseteq {p}
    BY <1>3, <1>4 DEF b
  <1>7. BatchesApart'
    BY <1>4, <1>6 DEF Owes, BatchesApart, n
  <1>8. ToReport' \subseteq ToReport /\ ToReport \ ToReport' \subseteq {p}
    BY <1>4, <1>6 DEF ToReport, n
  <1>9. Told(reports') = Told(reports) \cup {p}
    BY <1>1, <1>2 DEF Recorded, Told
  <1>10. p \in ToReport \cup Orphans
    <2>1. CASE b.orphans[p] = 0
      BY <1>3, <1>4, <2>1 DEF ToReport, n, b
    <2>2. CASE b.orphans[p] # 0
      <3>1. b.orphans[p] > 0
        BY <1>5, <2>2 DEF Batch
      <3> QED
        BY <1>4, <3>1 DEF Orphans, Orphan, n, b
    <2> QED
      BY <2>1, <2>2
  <1>11. Known \subseteq Known' /\ Known' \subseteq Known \cup Orphans
    BY <1>8, <1>9, <1>10 DEF Known
  <1>12. Orphans' \subseteq Orphans
    <2> SUFFICES ASSUME NEW q \in Promise, Orphan(q)'
                 PROVE  Orphan(q)
      BY DEF Orphans
    <2>1. CASE orphaned[q] > 0
      BY <2>1 DEF Orphan
    <2>2. ASSUME NEW i \in 1..n, batches'[i].orphans[q] > 0
          PROVE  batches[i].orphans[q] > 0
      BY <1>3, <1>4, <2>2 DEF b
    <2> QED
      BY <1>1, <1>4, <2>1, <2>2 DEF Orphan, n
  <1>13. ASSUME NEW q \in Promise
         PROVE  heap[q].reported \in BOOLEAN
    BY HeapIsRaw DEF RawBox
  <1> QED
    BY <1>1, <1>7, <1>11, <1>12, <1>13 DEF Tells

\* The innermost batch is done with.
LEMMA FrontIs ==
    ASSUME NEW S, NEW s \in Seq(S), s # <<>>, NEW t, t = SubSeq(s, 1, Len(s) - 1)
    PROVE  /\ Len(t) = Len(s) - 1 /\ Len(s) \in Nat /\ Len(s) > 0
           /\ \A i \in 1..(Len(s) - 1) : t[i] = s[i]
  <1>1. LET u == SubSeq(s, 1, Len(s) - 1)
        IN  /\ Len(s) > 0 /\ Len(u) = Len(s) - 1
            /\ \A i \in 1..(Len(s) - 1) : u[i] = s[i]
    BY CountButLast
  <1> QED
    BY <1>1

LEMMA EndIs ==
    ASSUME Inv, EndReports
    PROVE  /\ Len(batches) \in Nat /\ Len(batches') = Len(batches) - 1
           /\ \A i \in 1..Len(batches') : i \in 1..Len(batches) /\ batches'[i] = batches[i]
           /\ ToReport' = ToReport /\ (BatchesApart => BatchesApart')
           /\ Orphans' = Orphans
  <1> DEFINE n == Len(batches)
  <1>1. /\ batches \in Seq(Batch) /\ batches # <<>> /\ batches' = SubSeq(batches, 1, n - 1)
        /\ batches[n].live = {} /\ \A p \in Promise : batches[n].orphans[p] = 0
        /\ orphaned' = orphaned
    BY InvRecorded DEF Recorded, EndReports, InListener
  <1>2. n \in Nat /\ n > 0
    BY <1>1
  <1>3. Len(batches') = n - 1 /\ \A i \in 1..(n - 1) : batches'[i] = batches[i]
    BY <1>1, FrontIs
  <1> HIDE DEF n
  <1>4. 1..n = (1..(n - 1)) \cup {n}
    BY <1>2
  <1>5. ToReport' = ToReport
    BY <1>1, <1>3, <1>4 DEF ToReport, n
  <1>6. BatchesApart => BatchesApart'
    BY <1>3, <1>4 DEF BatchesApart, n
  <1>7. ASSUME NEW p \in Promise
        PROVE  Orphan(p)' <=> Orphan(p)
    <2>1. ~(batches[n].orphans[p] > 0)
      BY <1>1
    <2> QED
      BY <1>1, <1>3, <1>4, <2>1 DEF Orphan, n
  <1>8. Orphans' = Orphans
    BY <1>7 DEF Orphans
  <1> QED
    BY <1>2, <1>3, <1>4, <1>5, <1>6, <1>8 DEF n

LEMMA EndReportsTells == Inv /\ Owes /\ EndReports => Tells({}) /\ BatchesApart'
  <1> SUFFICES ASSUME Inv, Owes, EndReports
               PROVE  Tells({}) /\ BatchesApart'
    OBVIOUS
  <1>1. /\ notices' = notices + pendingHandled /\ pendingHandled' = 0
        /\ UNCHANGED <<heap, frame, reports, observed, born>>
    BY DEF EndReports, counters
  <1>2. notices' + pendingHandled' = notices + pendingHandled
    BY <1>1, InvRecorded DEF Recorded
  <1>3. ToReport' = ToReport /\ BatchesApart' /\ Orphans' = Orphans
    BY EndIs DEF Owes
  <1>4. Known' = Known
    BY <1>1, <1>3 DEF Known
  <1>5. ASSUME NEW p \in Promise
        PROVE  heap[p].reported \in BOOLEAN
    BY HeapIsRaw DEF RawBox
  <1> QED
    BY <1>1, <1>2, <1>3, <1>4, <1>5 DEF Tells

LEMMA OwesInit == Init => Owes
  <1> SUFFICES ASSUME Init
               PROVE  Owes
    OBVIOUS
  <1>1. /\ \A p \in Promise : ~heap[p].live /\ orphaned[p] = 0 /\ reports[p] = 0
        /\ batches = <<>>
    BY NoBoxFacts DEF Init
  <1>2. observed = {} /\ notices = 0 /\ pendingHandled = 0
    BY DEF Init
  <1>3. Len(batches) = 0 /\ 1..0 = {}
    BY <1>1
  <1>4. Reported(heap) = {} /\ Known = {} /\ Orphans = {}
    BY <1>1, <1>3 DEF Reported, Known, Told, ToReport, Orphans, Orphan
  <1>5. NoticesHaveReports
    <2>1. Cardinality(Reported(heap)) = 0 /\ Cardinality(Known) = 0
      BY <1>4, FS_EmptySet
    <2> QED
      BY <1>2, <2>1 DEF NoticesHaveReports
  <1>6. FramesHandle
    BY BoxTypes DEF Init, FramesHandle
  <1>7. BatchesApart
    BY <1>3 DEF BatchesApart
  <1> QED
    BY <1>1, <1>2, <1>4, <1>5, <1>6, <1>7 DEF Owes, UnhandledUnseen, UnbornUnseen, Unseen

LEMMA OwesStep == Inv /\ Inv' /\ FramesLive' /\ Owes /\ [Next]_vars => Owes'
  <1> SUFFICES ASSUME Inv, Inv', FramesLive', Owes, [Next]_vars
               PROVE  Owes'
    OBVIOUS
  <1>1. CASE Reacts
    <2>1. PICK S, P : Watches(S, P)
      BY <1>1 DEF Reacts
    <2> QED
      BY <2>1, ReactOwes
  <1>2. CASE ResumeDetach
    BY <1>2, DetachOwes
  <1>3. CASE PollIdle
    BY <1>3, PollIdleTells, TellsOwes
  <1>4. CASE ReportHandled
    BY <1>4, ReportHandledTells, TellsOwes
  <1>5. CASE EndReports
    BY <1>5, EndReportsTells, TellsOwes
  <1>6. CASE \E p \in Promise : ReportFirst(p)
    BY <1>6, ReportFirstTells, TellsOwes
  <1>7. CASE \E p \in Promise : ReportNext(p)
    BY <1>7, ReportNextTells, TellsOwes
  <1> QED
    BY <1>1, <1>2, <1>3, <1>4, <1>5, <1>6, <1>7, StepReacts DEF Reporting

\* A step that calls no listener and collects nothing.
Silent == reports' = reports /\ ToReport' \subseteq ToReport

LEMMA SilentSteps ==
    ASSUME Inv, Reacts \/ ResumeDetach \/ ReportHandled \/ EndReports
    PROVE  Silent
  <1>1. CASE Reacts
    BY <1>1, RecordsStay DEF Reacts, Watches, SameRecords, Silent
  <1>2. CASE ResumeDetach \/ ReportHandled
    <2>1. UNCHANGED <<batches, reports>>
      BY <1>2 DEF ResumeDetach, ReportHandled, ghost
    <2> QED
      BY <2>1 DEF Silent, ToReport
  <1>3. CASE EndReports
    BY <1>3, EndIs DEF EndReports, Silent
  <1> QED
    BY <1>1, <1>2, <1>3

LEMMA SilentCollects == Inv /\ Silent => OnlyUnhandledCollected
  <1> SUFFICES ASSUME Inv, Silent, NEW p \in Promise
               PROVE  ~(p \in ToReport' \ ToReport) /\ ~(reports'[p] > reports[p])
    BY DEF OnlyUnhandledCollected
  <1>1. reports[p] \in Nat
    BY DEF Inv, Types
  <1> QED
    BY <1>1 DEF Silent

\* What a phase finds unreported was seen by nobody, and waits in no phase.
LEMMA UnreportedUnheard ==
    ASSUME Inv, Owes, NEW p \in Unreported
    PROVE  p \in Promise /\ p \notin observed /\ reports[p] = 0 /\ p \notin ToReport
  <1>1. p \in Promise /\ heap[p].live /\ ~heap[p].handled /\ ~heap[p].reported
    BY DEF Unreported
  <1>2. p \notin observed /\ p \notin Known
    BY <1>1 DEF Owes, UnhandledUnseen, Unseen
  <1> QED
    BY <1>1, <1>2, InvRecorded DEF Known, Told, Recorded

LEMMA StepReports == Inv /\ Owes /\ [Next]_vars => OnlyUnhandledCollected
  <1> SUFFICES ASSUME Inv, Owes, [Next]_vars
               PROVE  OnlyUnhandledCollected
    OBVIOUS
  <1>1. Recorded
    BY InvRecorded
  <1>2. CASE Reacts \/ ResumeDetach \/ ReportHandled \/ EndReports
    BY <1>2, SilentSteps, SilentCollects
  <1>3. CASE PollIdle
    <2>1. ToReport' = ToReport
      BY <1>3 DEF PollIdle, ToReport
    <2>2. ASSUME NEW p \in Promise, reports'[p] > reports[p], ~Orphan(p)
          PROVE  p \in Unreported
      <3>1. reports'[p] = reports[p] + orphaned[p] + IF p \in Unreported THEN 1 ELSE 0
        BY <1>3 DEF PollIdle
      <3>2. orphaned[p] = 0 /\ reports[p] \in Nat
        BY <1>1, <2>2 DEF Recorded, Orphan
      <3> QED
        BY <2>2, <3>1, <3>2
    <2> QED
      BY <2>1, <2>2, UnreportedUnheard DEF OnlyUnhandledCollected, Unheard
  <1>4. ASSUME NEW q \in Promise, ReportFirst(q)
        PROVE  OnlyUnhandledCollected
    <2> DEFINE w == Without(Snapshot, q)
    <2>1. FirstBatch(w, q)
      BY <1>4, FirstTaken
    <2> HIDE DEF w
    <2>2. ToReport' = ToReport \cup w.live
      BY <2>1, OneMore
    <2>3. w.live \subseteq Unreported /\ (orphaned[q] = 0 => q \in Unreported /\ q \notin w.live)
      BY <2>1 DEF FirstBatch
    <2>4. ASSUME NEW p \in Promise, reports'[p] > reports[p], ~Orphan(p)
          PROVE  p = q /\ p \in Unreported /\ p \notin w.live
      <3>1. p = q
        BY <1>1, <1>4, <2>4 DEF ReportFirst, Recorded
      <3>2. orphaned[p] = 0
        BY <1>1, <2>4 DEF Recorded, Orphan
      <3> QED
        BY <2>3, <3>1, <3>2
    <2> QED
      BY <2>2, <2>3, <2>4, UnreportedUnheard DEF OnlyUnhandledCollected, Unheard
  <1>5. ASSUME NEW q \in Promise, ReportNext(q)
        PROVE  OnlyUnhandledCollected
    <2> DEFINE n == Len(batches)
               b == batches[n]
               w == Without(b, q)
    <2>1. NextBatch(w, q)
      BY <1>5, NextTaken
    <2> HIDE DEF w
    <2>2. /\ Len(batches') = n /\ n \in Nat /\ n \in 1..n /\ batches'[n] = w
          /\ \A i \in 1..n : i # n => batches'[i] = batches[i]
      BY <2>1, TopIs DEF NextBatch
    <2>3. /\ w.live \subseteq b.live /\ (b.orphans[q] = 0 => q \in b.live /\ q \notin w.live)
      BY <2>1 DEF NextBatch, Shrinks
    <2>4. b \in Batch
      BY <1>1, <2>2 DEF Recorded
    <2> HIDE DEF n, b
    <2>5. \A i \in 1..n : batches'[i].live \subseteq batches[i].live
      BY <2>2, <2>3 DEF b
    <2>6. ToReport' \subseteq ToReport
      BY <2>2, <2>5 DEF ToReport, n
    <2>7. ASSUME NEW p \in Promise, reports'[p] > reports[p], ~Orphan(p)
          PROVE  p \in ToReport /\ p \notin ToReport'
      <3>1. p = q
        BY <1>1, <1>5, <2>7 DEF ReportNext, Recorded
      <3>2. b.orphans[p] = 0
        BY <2>2, <2>4, <2>7 DEF Orphan, Batch, n, b
      <3>3. p \in b.live /\ p \notin w.live
        BY <2>3, <3>1, <3>2
      <3>4. p \in ToReport
        BY <2>2, <3>3 DEF ToReport, n, b
      <3>5. ASSUME NEW i \in 1..n, i # n
            PROVE  p \notin batches'[i].live
        BY <2>2, <3>3, <3>5 DEF Owes, BatchesApart, n, b
      <3>6. p \notin ToReport'
        BY <2>2, <3>3, <3>5 DEF ToReport
      <3> QED
        BY <3>4, <3>6
    <2> QED
      BY <2>6, <2>7 DEF OnlyUnhandledCollected
  <1> QED
    BY <1>2, <1>3, <1>4, <1>5, StepReacts DEF Reporting

LEMMA OwesNotices == Inv /\ Owes => NoticesAreOwed
  <1> SUFFICES ASSUME Inv, Owes
               PROVE  NoticesAreOwed
    OBVIOUS
  <1>1. Cardinality(Reported(heap)) \in Nat /\ Cardinality(Known) \in Nat
    BY Finite, KnownPromises DEF KnownOnly, Reported
  <1>2. notices + pendingHandled + Cardinality(Reported(heap)) <= Cardinality(Known)
    BY DEF Owes, NoticesHaveReports
  <1>3. notices + pendingHandled <= Cardinality(Known)
    BY <1>1, <1>2 DEF Inv, Types
  <1> QED
    BY <1>3 DEF NoticesAreOwed, Known, Told

\* What the program hears of rejections while its listeners run one at a time,
\* attach handlers, drop promises and poll: a report phase collects a rejection
\* only if nobody observed it and none was reported of it, each one collected is
\* reported once, and a rejectionHandled event is owed at most once for each.
THEOREM ReportsStayOwed == Spec => ReportsAreOwed
  <1>1. Inv /\ Inv' /\ Owes /\ [Next]_vars => Owes'
    <2>1. Inv' => FramesLive'
      BY InvFramesLive, PTL
    <2> QED
      BY <2>1, OwesStep
  <1>2. Spec => []Owes
    BY <1>1, OwesInit, Invariant, PTL DEF Spec
  <1>3. Inv' /\ Owes' => NoticesAreOwed'
    BY OwesNotices, PTL
  <1>4. Inv /\ Inv' /\ Owes /\ Owes' /\ [Next]_vars => NoticesAreOwed' /\ OnlyUnhandledCollected
    BY <1>3, StepReports
  <1>5. Inv /\ Inv' /\ Owes /\ Owes' /\ [Next]_vars
           => [NoticesAreOwed' /\ OnlyUnhandledCollected]_vars
    BY <1>4
  <1> QED
    BY <1>2, <1>5, Invariant, PTL DEF Spec, ReportsAreOwed

-----------------------------------------------------------------------------
(* What a combinator has seen, and what it says.                           *)

SomeIn(seen, r) == \E i \in 1..Len(seen) : seen[i] = r

LEMMA SomeAppended ==
    ASSUME NEW seen \in Seq(Settlement), NEW x \in Settlement, NEW r
    PROVE  SomeIn(Append(seen, x), r) <=> SomeIn(seen, r) \/ x = r
  <1> DEFINE n == Len(seen)
             w == Append(seen, x)
  <1>1. n \in Nat /\ Len(w) = n + 1 /\ w[n + 1] = x /\ \A i \in 1..n : w[i] = seen[i]
    OBVIOUS
  <1> HIDE DEF w
  <1>2. \A i : i \in 1..(n + 1) <=> i \in 1..n \/ i = n + 1
    BY <1>1
  <1>3. n + 1 \in 1..(n + 1)
    BY <1>1
  <1> HIDE DEF n
  <1> QED
    BY <1>1, <1>2, <1>3 DEF SomeIn, n

\* Combined, case by case.
Says(kind, left, seen) ==
    IF kind = "race" THEN (IF seen = <<>> THEN "pending" ELSE seen[1])
    ELSE IF kind = "all" THEN
       (IF SomeIn(seen, "rejected") THEN "rejected" ELSE IF left = 0 THEN "fulfilled" ELSE "pending")
    ELSE IF kind = "any" THEN
       (IF SomeIn(seen, "fulfilled") THEN "fulfilled" ELSE IF left = 0 THEN "rejected" ELSE "pending")
    ELSE IF left = 0 THEN "fulfilled" ELSE "pending"

LEMMA CombinedSays ==
    ASSUME NEW log
    PROVE  Combined(log) = IF log.invalid THEN "rejected" ELSE Says(log.kind, log.left, log.seen)
  <1>1. CASE log.invalid
    BY <1>1 DEF Combined
  <1>2. CASE ~log.invalid /\ log.kind = "race"
    BY <1>2 DEF Combined, Says
  <1>3. CASE ~log.invalid /\ log.kind = "all"
    BY <1>3 DEF Combined, Says, SomeIn
  <1>4. CASE ~log.invalid /\ log.kind = "any"
    BY <1>4 DEF Combined, Says, SomeIn
  <1>5. CASE ~log.invalid /\ log.kind \notin {"race", "all", "any"}
    BY <1>5 DEF Combined, Says
  <1> QED
    BY <1>1, <1>2, <1>3, <1>4, <1>5

TellsMore(state, x, before, after) ==
    /\ after = IF state.done THEN before ELSE Verdict(state, x)
    /\ state.done => Verdict(state, x) = "pending"

\* One more input settled as x: what was said stays said, and else the state of
\* the combinator gives the verdict.
LEMMA SaysMore ==
    ASSUME NEW kind \in JoinKinds, NEW left \in Nat, left > 0, NEW seen \in Seq(Settlement),
           NEW x \in Settlement, NEW state, state.kind = kind, state.remaining = left,
           state.cancelled = FALSE, NEW invalid \in BOOLEAN,
           NEW before, before = (IF invalid THEN "rejected" ELSE Says(kind, left, seen)),
           NEW after,
           after = (IF invalid THEN "rejected" ELSE Says(kind, left - 1, Append(seen, x))),
           state.done = (before # "pending")
    PROVE  TellsMore(state, x, before, after)
  <1> USE DEF TellsMore
  <1>1. state.done => Verdict(state, x) = "pending"
    BY DEF Verdict
  <1>2. CASE invalid
    BY <1>1, <1>2
  <1>3. CASE ~invalid
    <2> DEFINE w == Append(seen, x)
    <2>1. w # <<>> /\ (seen # <<>> => w[1] = seen[1]) /\ (seen = <<>> => w[1] = x)
      <3>1. Len(seen) \in Nat /\ (seen = <<>> <=> Len(seen) = 0)
        OBVIOUS
      <3>2. Len(w) = Len(seen) + 1 /\ w[Len(seen) + 1] = x /\ \A i \in 1..Len(seen) : w[i] = seen[i]
        OBVIOUS
      <3>3. w \in Seq(Settlement) /\ Len(w) > 0
        BY <3>1, <3>2
      <3> HIDE DEF w
      <3>4. w # <<>>
        BY <3>3
      <3>5. seen # <<>> => 1 \in 1..Len(seen)
        BY <3>1
      <3> QED
        BY <3>1, <3>2, <3>4, <3>5
    <2>2. /\ SomeIn(w, "rejected") <=> SomeIn(seen, "rejected") \/ x = "rejected"
          /\ SomeIn(w, "fulfilled") <=> SomeIn(seen, "fulfilled") \/ x = "fulfilled"
      BY SomeAppended
    <2>3. left - 1 = 0 <=> ~(left > 1)
      OBVIOUS
    <2>4. before = Says(kind, left, seen) /\ after = Says(kind, left - 1, w)
      BY <1>3
    <2>5. x \in {"fulfilled", "rejected"} /\ (seen # <<>> => seen[1] # "pending")
      <3>1. seen # <<>> => seen[1] \in Settlement
        OBVIOUS
      <3> QED
        BY <3>1 DEF Settlement
    <2> HIDE DEF w
    <2>6. CASE kind = "race"
      BY <1>1, <2>1, <2>4, <2>5, <2>6 DEF Says, Verdict
    <2>7. CASE kind = "all"
      <3>1. before = IF SomeIn(seen, "rejected") THEN "rejected" ELSE "pending"
        BY <2>4, <2>7 DEF Says
      <3>2. after = IF SomeIn(seen, "rejected") \/ x = "rejected" THEN "rejected"
                    ELSE IF left - 1 = 0 THEN "fulfilled" ELSE "pending"
        BY <2>2, <2>4, <2>7 DEF Says
      <3>3. ~state.done => Verdict(state, x) = IF x = "rejected" THEN x
                              ELSE IF left > 1 THEN "pending" ELSE "fulfilled"
        BY <2>7 DEF Verdict
      <3> QED
        BY <1>1, <2>3, <3>1, <3>2, <3>3
    <2>8. CASE kind = "any"
      <3>1. before = IF SomeIn(seen, "fulfilled") THEN "fulfilled" ELSE "pending"
        BY <2>4, <2>8 DEF Says
      <3>2. after = IF SomeIn(seen, "fulfilled") \/ x = "fulfilled" THEN "fulfilled"
                    ELSE IF left - 1 = 0 THEN "rejected" ELSE "pending"
        BY <2>2, <2>4, <2>8 DEF Says
      <3>3. ~state.done => Verdict(state, x) = IF x = "fulfilled" THEN x
                              ELSE IF left > 1 THEN "pending" ELSE "rejected"
        BY <2>8 DEF Verdict
      <3> QED
        BY <1>1, <2>3, <3>1, <3>2, <3>3
    <2>9. CASE kind = "allSettled"
      BY <1>1, <2>3, <2>4, <2>5, <2>9 DEF Says, Verdict
    <2> QED
      BY <2>6, <2>7, <2>8, <2>9 DEF JoinKinds
  <1> QED
    BY <1>2, <1>3

-----------------------------------------------------------------------------
(* The outputs of combinators belong to nobody else.                       *)

\* Nothing but a combinator can settle o.
Apart(o) ==
    /\ o \notin resolvable /\ o \notin timers /\ o \notin fdWaits
    /\ \A f \in FrameId : frame[f].output # o

\* A promise that was not made yet belongs to nobody.
LEMMA UnbornApart ==
    ASSUME Inv, resolvable \subseteq 1..born, NEW o \in Promise, o > born
    PROVE  Apart(o)
  <1>1. born \in Nat /\ o \in Nat
    BY Domains DEF Inv, Types
  <1>2. ~heap[o].live
    BY <1>1 DEF Inv, Lives
  <1>3. \A f \in FrameId : frame[f].output # o
    BY <1>2, OutputLives
  <1> QED
    BY <1>1, <1>2, <1>3 DEF Apart, Inv, Lives

LEMMA WritableIsNotApart == Inv => \A o \in Writable : ~Apart(o)
  <1> SUFFICES ASSUME Inv, NEW o \in Writable
               PROVE  ~Apart(o)
    OBVIOUS
  <1>1. CASE \E i \in 1..Len(stack) : o = frame[stack[i]].output
    <2>1. PICK i \in 1..Len(stack) : o = frame[stack[i]].output
      BY <1>1
    <2>2. stack[i] \in FrameId
      BY DEF Inv, Places, PlaceOK, PlaceTypes
    <2> QED
      BY <2>1, <2>2 DEF Apart
  <1> QED
    BY <1>1 DEF Writable, Apart

\* Promises that were apart stay so.
StaysApart ==
    /\ resolvable' \subseteq 1..born' /\ born' >= born /\ forced \subseteq forced'
    /\ \A o \in 1..born : Apart(o) => Apart(o)'

\* Of these, only X are settled, unless the deadline settles them.
Spares(X) ==
    \A o \in 1..born : Apart(o) /\ o \notin forced' /\ o \notin X /\ heap'[o].live
        => heap[o].live /\ heap'[o].result = heap[o].result

LEMMA AltersSpares ==
    ASSUME Inv, NEW S, NEW P, Alters(S, P), NEW X,
           \A o \in S : Apart(o) => o \in forced' \/ o \in X
    PROVE  Spares(X)
  <1> SUFFICES ASSUME NEW o \in 1..born, Apart(o), o \notin forced', o \notin X, heap'[o].live
               PROVE  heap[o].live /\ heap'[o].result = heap[o].result
    BY DEF Spares
  <1>1. o \in Promise /\ o <= born
    BY Domains DEF Inv, Types, Promise
  <1>2. Becomes(heap[o], heap'[o], o \in S, o \in P) /\ o \notin S
    BY <1>1 DEF Alters
  <1> QED
    BY <1>2 DEF Becomes

NewOnes == {x \in Promise : x > born /\ x <= born'}

OutputsKnown ==
    \A f \in FrameId :
        \/ frame'[f].output \in NewOnes \cup {Null} \cup Writable
        \/ \E g \in FrameId : frame'[f].output = frame[g].output

LEMMA KeepsApart ==
    ASSUME Inv, resolvable \subseteq 1..born, born' >= born, born' \in Nat, forced \subseteq forced',
           resolvable' \subseteq resolvable \cup NewOnes, timers' \subseteq timers \cup NewOnes,
           fdWaits' \subseteq fdWaits \cup NewOnes, OutputsKnown
    PROVE  StaysApart
  <1>1. born \in Nat /\ Promise \subseteq Nat
    BY Domains DEF Inv, Types
  <1>2. resolvable' \subseteq 1..born'
    <2> SUFFICES ASSUME NEW x \in resolvable'
                 PROVE  x \in 1..born'
      OBVIOUS
    <2>1. CASE x \in resolvable
      BY <1>1, <2>1
    <2>2. CASE x \in NewOnes
      BY <1>1, <2>2 DEF NewOnes
    <2> QED
      BY <2>1, <2>2
  <1>3. ASSUME NEW o \in 1..born, Apart(o)
        PROVE  Apart(o)'
    <2>1. o \notin NewOnes /\ o # Null
      BY <1>1 DEF NewOnes, Null
    <2>2. o \notin Writable
      BY <1>3, WritableIsNotApart
    <2>3. \A f \in FrameId : frame'[f].output # o
      BY <1>3, <2>1, <2>2 DEF OutputsKnown, Apart
    <2> QED
      BY <1>3, <2>1, <2>3 DEF Apart
  <1> QED
    BY <1>2, <1>3 DEF StaysApart

\* A step that makes no promise, waits for none and makes no frame.
Holding ==
    /\ UNCHANGED <<resolvable, born>> /\ timers' \subseteq timers /\ fdWaits' \subseteq fdWaits
    /\ forced \subseteq forced'
    /\ frame' = frame \/ \E f \in FrameId : FreeFrame(f)

LEMMA HoldingKeeps ==
    ASSUME Inv, resolvable \subseteq 1..born, Holding
    PROVE  StaysApart
  <1>1. born \in Nat /\ born' >= born /\ born' \in Nat
    BY DEF Inv, Types, Holding
  <1>2. OutputsKnown
    <2>1. CASE frame' = frame
      BY <2>1 DEF OutputsKnown
    <2>2. CASE \E f \in FrameId : FreeFrame(f)
      <3>1. PICK f \in FrameId : frame' = [frame EXCEPT ![f] = NoFrame]
        BY <2>2 DEF FreeFrame
      <3>2. frame \in [FrameId -> FrameBox]
        BY DEF Inv, Places, PlaceOK, PlaceTypes
      <3>3. \A g \in FrameId : frame'[g].output = Null \/ frame'[g].output = frame[g].output
        BY <3>1, <3>2, BoxTypes
      <3> QED
        BY <3>3 DEF OutputsKnown
    <2> QED
      BY <2>1, <2>2 DEF Holding
  <1> QED
    BY <1>1, <1>2, KeepsApart DEF Holding

LEMMA LiveOnly == DropWaits(heap') => timers' \subseteq timers /\ fdWaits' \subseteq fdWaits
  BY DEF DropWaits, Waiting

\* What most steps do for combinators.
Leaves == StaysApart /\ Spares({}) /\ UNCHANGED <<join, joins, joinLog>>

\* Nothing is settled.
LEMMA QuietSpares ==
    ASSUME Inv, NEW P, Alters({}, P), NEW X
    PROVE  Spares(X)
  BY AltersSpares

LEMMA CreateLeaves == Inv /\ resolvable \subseteq 1..born /\ Create => Leaves
  <1> SUFFICES ASSUME Inv, resolvable \subseteq 1..born, NEW p \in FreshPromise,
                      NEW r \in {"pending"} \cup Settlement, Birth(p, r),
                      resolvable' \subseteq resolvable \cup {p}, timers' \subseteq timers \cup {p},
                      fdWaits' \subseteq fdWaits \cup {p}
               PROVE  Leaves
    BY DEF Create, New, Sleep, WaitFd, Refused
  <1>1. Spares({})
    BY CreateAlters, QuietSpares
  <1>2. p \in Promise /\ p = born + 1 /\ born' = p /\ born \in Nat
    BY FreshIsDead DEF Birth, Inv, Types
  <1>3. p \in NewOnes /\ born' >= born /\ born' \in Nat
    BY <1>2 DEF NewOnes
  <1>4. UNCHANGED <<frame, join, joins, joinLog, forced>>
    BY DEF Birth, ghost
  <1>5. OutputsKnown
    BY <1>4 DEF OutputsKnown
  <1>6. StaysApart
    BY <1>3, <1>4, <1>5, KeepsApart
  <1> QED
    BY <1>1, <1>4, <1>6 DEF Leaves

LEMMA SettleOwnLeaves ==
    ASSUME Inv, resolvable \subseteq 1..born, NEW p \in Promise, NEW r \in Settlement, SettleOwn(p, r)
    PROVE  Leaves
  <1>1. Alters({p}, {})
    BY SettleAlters DEF SettleOwn
  <1>2. ~Apart(p)
    BY WritableIsNotApart DEF SettleOwn
  <1>3. Spares({})
    BY <1>1, <1>2, AltersSpares
  <1>4. Holding /\ UNCHANGED <<join, joins, joinLog>>
    BY DEF SettleOwn, Holding, counters, ghost
  <1> QED
    BY <1>3, <1>4, HoldingKeeps DEF Leaves

LEMMA DeadlineLeaves ==
    ASSUME Inv, resolvable \subseteq 1..born, NEW p \in Promise, Deadline(p)
    PROVE  Leaves
  <1>1. Alters({p}, {})
    BY SettleAlters DEF Deadline, Settlement
  <1>2. p \in forced'
    BY DEF Deadline
  <1>3. Spares({})
    BY <1>1, <1>2, AltersSpares
  <1>4. Holding /\ UNCHANGED <<join, joins, joinLog>>
    BY DEF Deadline, Holding, counters
  <1> QED
    BY <1>3, <1>4, HoldingKeeps DEF Leaves

LEMMA TokenLeaves ==
    ASSUME Inv, resolvable \subseteq 1..born, NEW p \in Promise,
           RetainToken(p) \/ DestroyToken(p) \/ BlockingAwait(p)
    PROVE  Leaves
  <1>1. \E P : Alters({}, P)
    BY RetainAlters, DestroyAlters, BlockingAlters DEF DestroyToken
  <1>2. Spares({})
    BY <1>1, QuietSpares
  <1>3. timers' \subseteq timers /\ fdWaits' \subseteq fdWaits
    BY LiveOnly DEF RetainToken, DestroyToken, BlockingAwait
  <1>4. Holding /\ UNCHANGED <<join, joins, joinLog>>
    BY <1>3 DEF RetainToken, DestroyToken, BlockingAwait, Holding, counters, ghost
  <1> QED
    BY <1>2, <1>4, HoldingKeeps DEF Leaves

LEMMA SlotLeaves ==
    ASSUME Inv, resolvable \subseteq 1..born, NEW s \in Slots, NEW p \in Promise \cup {Null},
           SlotReplace(s, p)
    PROVE  Leaves
  <1>1. Spares({})
    BY SlotAlters, QuietSpares
  <1>2. timers' \subseteq timers /\ fdWaits' \subseteq fdWaits
    BY LiveOnly DEF SlotReplace
  <1>3. Holding /\ UNCHANGED <<join, joins, joinLog>>
    BY <1>2 DEF SlotReplace, Holding, counters, ghost
  <1> QED
    BY <1>1, <1>3, HoldingKeeps DEF Leaves

LEMMA UseTokenLeaves == Inv /\ resolvable \subseteq 1..born /\ UseToken => Leaves
  <1> SUFFICES ASSUME Inv, resolvable \subseteq 1..born, NEW p \in Promise,
                      \/ \E r \in Settlement : SettleOwn(p, r)
                      \/ Deadline(p) \/ RetainToken(p) \/ DestroyToken(p) \/ BlockingAwait(p)
                      \/ \E s \in Slots : SlotReplace(s, p) \/ SlotReplace(s, Null)
               PROVE  Leaves
    BY DEF UseToken
  <1>1. ASSUME NEW s \in Slots, SlotReplace(s, p) \/ SlotReplace(s, Null)
        PROVE  Leaves
    BY <1>1, SlotLeaves
  <1> QED
    BY <1>1, SettleOwnLeaves, DeadlineLeaves, TokenLeaves

LEMMA DueLeaves == Inv /\ resolvable \subseteq 1..born /\ Due => Leaves
  <1> SUFFICES ASSUME Inv, resolvable \subseteq 1..born, NEW p \in Promise, NEW r \in Settlement,
                      (TimerDue(p) /\ r = "fulfilled") \/ FdDone(p, r)
               PROVE  Leaves
    BY DEF Due, Settlement
  <1>1. Alters({p}, {}) /\ ~Apart(p)
    BY SettleAlters DEF TimerDue, FdDone, Apart
  <1>2. Spares({})
    BY <1>1, AltersSpares
  <1>3. Holding /\ UNCHANGED <<join, joins, joinLog>>
    BY DEF TimerDue, FdDone, Holding, counters, ghost
  <1> QED
    BY <1>2, <1>3, HoldingKeeps DEF Leaves

LEMMA ObserveLeaves ==
    ASSUME Inv, resolvable \subseteq 1..born, Looks, NEW f \in FrameId, NEW box,
           box.output \in NewOnes \cup {Null} \cup Writable,
           NEW h, NEW made, Observe(h, f, box, made), born' >= born, born' \in Nat
    PROVE  Leaves
  <1>1. /\ frame' = [frame EXCEPT ![f] = box]
        /\ UNCHANGED <<resolvable, timers, fdWaits, forced, join, joins, joinLog>>
    BY DEF Observe
  <1>2. frame \in [FrameId -> FrameBox]
    BY DEF Inv, Places, PlaceOK, PlaceTypes
  <1>3. OutputsKnown
    <2> SUFFICES ASSUME NEW c \in FrameId
                 PROVE  \/ frame'[c].output \in NewOnes \cup {Null} \cup Writable
                        \/ frame'[c].output = frame[c].output
      BY DEF OutputsKnown
    <2>1. c = f => frame'[c] = box
      BY <1>1, <1>2
    <2>2. c # f => frame'[c] = frame[c]
      BY <1>1, <1>2
    <2> QED
      BY <2>1, <2>2
  <1>4. StaysApart
    BY <1>1, <1>3, KeepsApart
  <1>5. Spares({})
    BY QuietSpares DEF Looks, Watches
  <1> QED
    BY <1>1, <1>4, <1>5 DEF Leaves

LEMMA SubscribeLeaves == Inv /\ resolvable \subseteq 1..born /\ Subscribe => Leaves
  <1> SUFFICES ASSUME Inv, resolvable \subseteq 1..born, Looks, NEW p \in Promise,
                      NEW f \in FreshFrame,
                      \/ Await(p, f)
                      \/ \E kind \in {"detach", "detachSlot"} : Detach(p, f, kind)
                      \/ \E q \in FreshPromise, handles \in (SUBSET Settlement) \ {{}} :
                            Chain(p, f, q, handles)
                      \/ \E out \in Promise : Adopt(out, p, f)
                      \/ \E out \in Promise, r \in Settlement : FinallyAdopt(out, p, f, r)
               PROVE  Leaves
    BY SubscribeLooks DEF Subscribe
  <1>0. f \in FrameId /\ born \in Nat
    BY DEF FreshFrame, Inv, Types
  <1>1. CASE Await(p, f)
    <2> DEFINE box == [NoFrame EXCEPT !.kind = "await", !.input = p]
    <2>1. born' = born /\ Observe(heap, f, box, {})
      BY <1>1, Zenon DEF Await
    <2>2. box.output = Null
      BY DEF NoFrame
    <2> HIDE DEF box
    <2> QED
      BY <1>0, <2>1, <2>2, ObserveLeaves
  <1>2. CASE \E kind \in {"detach", "detachSlot"} : Detach(p, f, kind)
    <2>1. PICK kind \in {"detach", "detachSlot"} : Detach(p, f, kind)
      BY <1>2
    <2> DEFINE box == [NoFrame EXCEPT !.kind = kind, !.input = p]
    <2>2. born' = born /\ Observe(heap, f, box, {})
      BY <2>1, Zenon DEF Detach
    <2>3. box.output = Null
      BY DEF NoFrame
    <2> HIDE DEF box
    <2> QED
      BY <1>0, <2>2, <2>3, ObserveLeaves
  <1>3. CASE \E q \in FreshPromise, handles \in (SUBSET Settlement) \ {{}} :
                Chain(p, f, q, handles)
    <2>1. PICK q \in FreshPromise, handles \in (SUBSET Settlement) \ {{}} : Chain(p, f, q, handles)
      BY <1>3
    <2> DEFINE h == OutputRef([heap EXCEPT ![q] = NewBox], q)
               box == [NoFrame EXCEPT !.kind = "chain", !.input = p, !.output = q,
                                      !.handles = handles]
    <2>2. born' = q /\ Observe(h, f, box, {q})
      BY <2>1, Zenon DEF Chain
    <2>3. box.output = q
      BY DEF NoFrame
    <2>4. q \in Promise /\ q = born + 1
      BY <2>1, FreshIsDead
    <2> HIDE DEF box, h
    <2>5. q \in NewOnes /\ born' >= born /\ born' \in Nat
      BY <1>0, <2>2, <2>4 DEF NewOnes
    <2> QED
      BY <1>0, <2>2, <2>3, <2>5, ObserveLeaves
  <1>4. CASE \E out \in Promise : Adopt(out, p, f)
    <2>1. PICK out \in Promise : Adopt(out, p, f)
      BY <1>4
    <2> DEFINE h == OutputRef(heap, out)
               box == [NoFrame EXCEPT !.kind = "adopt", !.input = p, !.output = out]
    <2>2. out \in Writable /\ born' = born /\ Observe(h, f, box, {})
      BY <2>1, Zenon DEF Adopt
    <2>3. box.output = out
      BY DEF NoFrame
    <2> HIDE DEF box, h
    <2> QED
      BY <1>0, <2>2, <2>3, ObserveLeaves
  <1>5. CASE \E out \in Promise, r \in Settlement : FinallyAdopt(out, p, f, r)
    <2>1. PICK out \in Promise, r \in Settlement : FinallyAdopt(out, p, f, r)
      BY <1>5
    <2> DEFINE h == OutputRef(heap, out)
               box == [NoFrame EXCEPT !.kind = "finallyAdopt", !.input = p, !.output = out,
                                      !.original = r]
    <2>2. out \in Writable /\ born' = born /\ Observe(h, f, box, {})
      BY <2>1, Zenon DEF FinallyAdopt
    <2>3. box.output = out
      BY DEF NoFrame
    <2> HIDE DEF box, h
    <2> QED
      BY <1>0, <2>2, <2>3, ObserveLeaves
  <1> QED
    BY <1>1, <1>2, <1>3, <1>4, <1>5

LEMMA RefusedLeaves ==
    ASSUME Inv, resolvable \subseteq 1..born, NEW q \in FreshPromise, NEW s \in InputLists,
           AllSettledRefused(s, q)
    PROVE  Leaves
  <1>1. Spares({})
    BY RefusedAlters, QuietSpares
  <1>2. /\ born' = q /\ DropWaits(heap')
        /\ UNCHANGED <<frame, join, joins, joinLog, resolvable, forced>>
    BY Zenon DEF AllSettledRefused, ghost
  <1>3. born' >= born /\ born' \in Nat
    BY <1>2, FreshIsDead, InvBorn
  <1>4. OutputsKnown
    BY <1>2 DEF OutputsKnown
  <1>5. StaysApart
    BY <1>2, <1>3, <1>4, LiveOnly, KeepsApart
  <1> QED
    BY <1>1, <1>2, <1>5 DEF Leaves

LEMMA PlainResumeLeaves ==
    ASSUME Inv, resolvable \subseteq 1..born,
           ResumeAwait \/ ResumeDetach \/ ResumeChain \/ ResumeInert \/ ReturnChain
    PROVE  Leaves
  <1>1. \E P : Alters({}, P)
    BY SameAlters, DetachAlters, InertAlters, ReturnAlters DEF ResumeAwait, ResumeChain
  <1>2. Spares({})
    BY <1>1, QuietSpares
  <1>3. timers' \subseteq timers /\ fdWaits' \subseteq fdWaits
    BY LiveOnly DEF ResumeAwait, ResumeDetach, ResumeChain, ResumeInert, ReturnChain
  <1>4. frame' = frame \/ \E f \in FrameId : FreeFrame(f)
    <2>1. CASE ReturnChain
      <3>1. stack \in Seq(FrameId) /\ stack # <<>> /\ FreeFrame(stack[Len(stack)])
        BY <2>1 DEF ReturnChain, Inv, Places, PlaceOK, PlaceTypes
      <3>2. stack[Len(stack)] \in FrameId
        BY <3>1
      <3> QED
        BY <3>1, <3>2
    <2>2. CASE ResumeChain
      BY <2>2 DEF ResumeChain
    <2>3. CASE ResumeAwait \/ ResumeDetach \/ ResumeInert
      <3>1. ready # <<>> /\ FreeFrame(Taken)
        BY <2>3 DEF ResumeAwait, ResumeDetach, ResumeInert, Resuming
      <3> QED
        BY <3>1, TakenFacts DEF TakenSays
    <2> QED
      BY <2>1, <2>2, <2>3
  <1>5. UNCHANGED <<resolvable, born, forced, join, joins, joinLog>>
    BY DEF ResumeAwait, ResumeDetach, ResumeChain, ResumeInert, ReturnChain, counters, ghost
  <1>6. Holding
    BY <1>3, <1>4, <1>5 DEF Holding
  <1> QED
    BY <1>2, <1>5, <1>6, HoldingKeeps DEF Leaves

LEMMA ForwardLeaves ==
    ASSUME Inv, resolvable \subseteq 1..born, ResumeForward \/ ResumeFinallyAdopt
    PROVE  Leaves
  <1>1. ready # <<>> /\ Box.kind \in {"chain", "adopt", "finallyAdopt"}
    BY DEF ResumeForward, ResumeFinallyAdopt, Resuming
  <1>2. /\ Outcome \in Settlement /\ Box.original \in Settlement /\ Taken \in FrameId
    BY <1>1, TakenFacts DEF TakenSays, FrameBox
  <1>3. PICK r \in Settlement : Forward(r)
    BY <1>2 DEF ResumeForward, ResumeFinallyAdopt, Settlement
  <1>4. Alters({Box.output}, {})
    BY <1>1, <1>3, ForwardAlters
  <1>5. ~Apart(Box.output)
    BY <1>2 DEF Apart, Box
  <1>6. Spares({})
    BY <1>4, <1>5, AltersSpares
  <1>7. Holding /\ UNCHANGED <<join, joins, joinLog>>
    BY <1>2, <1>3, LiveOnly DEF Forward, Holding, counters, ghost
  <1> QED
    BY <1>6, <1>7, HoldingKeeps DEF Leaves

LEMMA ReportLeaves ==
    ASSUME Inv, resolvable \subseteq 1..born,
           PollIdle \/ ReportHandled \/ ListenerReturns \/ \E p \in Promise : ReportFirst(p)
    PROVE  Leaves
  <1>1. /\ heap' = Marked \/ heap' = heap
        /\ UNCHANGED <<frame, timers, fdWaits, born, resolvable, forced, join, joins, joinLog>>
    BY DEF PollIdle, ReportHandled, ListenerReturns, EndReports, ReportNext, ReportFirst, counters
  <1>2. \E P : Alters({}, P)
    BY <1>1, MarkedAlters, SameAlters
  <1>3. Spares({})
    BY <1>2, QuietSpares
  <1>4. Holding /\ UNCHANGED <<join, joins, joinLog>>
    BY <1>1 DEF Holding
  <1> QED
    BY <1>3, <1>4, HoldingKeeps DEF Leaves

LEMMA ResetLeaves ==
    ASSUME Inv, resolvable \subseteq 1..born, NEW R \in SUBSET Slots, ArenaReset(R)
    PROVE  Leaves
  <1>1. Spares({})
    BY ResetAlters, QuietSpares
  <1>2. DropWaits(heap') /\ UNCHANGED <<frame, join, joins, joinLog, resolvable, born, forced>>
    BY Zenon DEF ArenaReset, ghost, counters
  <1>3. Holding
    BY <1>2, LiveOnly DEF Holding
  <1> QED
    BY <1>1, <1>2, <1>3, HoldingKeeps DEF Leaves

LEMMA StutterLeaves ==
    ASSUME Inv, resolvable \subseteq 1..born, UNCHANGED vars
    PROVE  Leaves
  <1>1. Spares({})
    BY SameAlters, QuietSpares DEF vars
  <1>2. Holding /\ UNCHANGED <<join, joins, joinLog>>
    BY DEF vars, Holding, counters, ghost
  <1> QED
    BY <1>1, <1>2, HoldingKeeps DEF Leaves

-----------------------------------------------------------------------------
(* Combinators are right.                                                  *)

\* The output of combinator j is its own.
Belongs(j) == joinLog[j].output \in 1..born /\ Apart(joinLog[j].output)

\* While children are left, the boxed state agrees with what was seen.
Follows(j) ==
    /\ joinLog[j].kind \in JoinKinds
    /\ join[j].kind # "none" =>
          /\ join[j].kind = joinLog[j].kind /\ join[j].output = joinLog[j].output
          /\ join[j].cancelled => joinLog[j].cancelled
          /\ ~joinLog[j].cancelled => join[j].done = (Combined(joinLog[j]) # "pending")

\* The output is settled as and when the inputs call for.
Answers(j) ==
    LET o == joinLog[j].output
    IN  heap[o].live /\ ~joinLog[j].cancelled /\ o \notin forced
           => heap[o].result = Combined(joinLog[j])

Alone(j) == \A k \in 1..joins : k # j => joinLog[k].output # joinLog[j].output

Rights ==
    /\ resolvable \subseteq 1..born
    /\ \A j \in 1..joins : Belongs(j) /\ Follows(j) /\ Answers(j) /\ Alone(j)

\* A combinator that a step leaves alone.
LEMMA AnswersStay ==
    ASSUME NEW j, Belongs(j), Answers(j), StaysApart, NEW X, Spares(X),
           joinLog[j].output \notin X,
           joinLog'[j].output = joinLog[j].output,
           joinLog'[j].cancelled = joinLog[j].cancelled \/ joinLog'[j].cancelled = TRUE,
           Combined(joinLog'[j]) = Combined(joinLog[j])
    PROVE  Answers(j)'
  <1> DEFINE o == joinLog[j].output
  <1> SUFFICES ASSUME heap'[o].live, ~joinLog'[j].cancelled, o \notin forced'
               PROVE  heap'[o].result = Combined(joinLog[j])
    BY DEF Answers
  <1>1. o \in 1..born /\ Apart(o) /\ o \notin X
    BY DEF Belongs
  <1>2. heap[o].live /\ heap'[o].result = heap[o].result
    BY <1>1 DEF Spares
  <1>3. o \notin forced /\ ~joinLog[j].cancelled
    BY DEF StaysApart
  <1> QED
    BY <1>2, <1>3 DEF Answers

LEMMA BelongsStays ==
    ASSUME Inv, NEW j, Belongs(j), StaysApart, joinLog'[j].output = joinLog[j].output, born' \in Nat
    PROVE  Belongs(j)'
  <1>1. born \in Nat /\ born' >= born
    BY DEF Inv, Types, StaysApart
  <1> QED
    BY <1>1 DEF Belongs, StaysApart

LEMMA LeavesRights ==
    ASSUME Inv, Inv', Rights, Leaves
    PROVE  Rights'
  <1>1. /\ joins' = joins /\ join' = join /\ joinLog' = joinLog
        /\ StaysApart /\ Spares({}) /\ born' \in Nat
    BY DEF Leaves, Inv, Types
  <1>2. ASSUME NEW j \in 1..joins
        PROVE  (Belongs(j) /\ Follows(j) /\ Answers(j) /\ Alone(j))'
    <2>1. Belongs(j) /\ Follows(j) /\ Answers(j) /\ Alone(j)
      BY DEF Rights
    <2>2. Belongs(j)'
      BY <1>1, <2>1, BelongsStays
    <2>3. Answers(j)'
      BY <1>1, <2>1, AnswersStay
    <2>4. Follows(j)' /\ Alone(j)'
      BY <1>1, <2>1 DEF Follows, Alone
    <2> QED
      BY <2>2, <2>3, <2>4
  <1> QED
    BY <1>1, <1>2 DEF Rights, StaysApart

\* A cancelled state keeps what it has done.
LEMMA CancelKeeps ==
    ASSUME NEW state \in JoinBox
    PROVE  /\ Cancel(state).kind = state.kind /\ Cancel(state).output = state.output
           /\ Cancel(state).done = state.done
  BY DEF Cancel, JoinBox

LEMMA PurgeRights ==
    ASSUME Inv, Inv', Rights, Purge
    PROVE  Rights'
  <1>1. /\ join' = [j \in JoinId |-> Cancel(join[j])]
        /\ frame' = [f \in FrameId |->
                       [frame[f] EXCEPT !.cancelled = @ \/ frame[f].kind = "finallyAdopt"]]
        /\ joinLog' = [j \in JoinId |->
                         [joinLog[j] EXCEPT !.cancelled = @ \/ join'[j].cancelled]]
        /\ timers' = {} /\ fdWaits' = {}
        /\ UNCHANGED <<heap, born, joins, resolvable, forced>>
    BY Zenon DEF Purge
  <1>2. /\ frame \in [FrameId -> FrameBox] /\ join \in [JoinId -> JoinBox]
        /\ joinLog \in [JoinId -> LogEntry] /\ born \in Nat
    BY SMTT(30) DEF Inv, Types, Places, PlaceOK, PlaceTypes
  <1>3. \A f \in FrameId : frame'[f].output = frame[f].output
    BY <1>1, <1>2 DEF FrameBox
  <1>4. StaysApart
    <2>1. OutputsKnown
      BY <1>3 DEF OutputsKnown
    <2> QED
      BY <1>1, <1>2, <2>1, KeepsApart DEF Rights
  <1>5. Spares({})
    BY <1>1, SameAlters, QuietSpares
  <1>6. ASSUME NEW j \in 1..joins
        PROVE  (Belongs(j) /\ Follows(j) /\ Answers(j) /\ Alone(j))'
    <2>1. Belongs(j) /\ Follows(j) /\ Answers(j) /\ Alone(j)
      BY DEF Rights
    <2>2. 1..joins \subseteq JoinId
      BY Domains DEF Inv, Types, JoinId
    <2>3. j \in JoinId /\ join[j] \in JoinBox /\ joinLog[j] \in LogEntry
      BY <1>2, <2>2
    <2>4. \A k \in 1..joins : joinLog'[k].output = joinLog[k].output
      BY <1>1, <1>2, <2>2 DEF LogEntry
    <2>5. /\ joinLog'[j].kind = joinLog[j].kind /\ joinLog'[j].left = joinLog[j].left
          /\ joinLog'[j].seen = joinLog[j].seen /\ joinLog'[j].invalid = joinLog[j].invalid
          /\ joinLog'[j].cancelled = (joinLog[j].cancelled \/ join'[j].cancelled)
      BY <1>1, <2>3 DEF LogEntry
    <2>6. Combined(joinLog'[j]) = Combined(joinLog[j])
      BY <2>5, CombinedSays
    <2>7. join'[j] = Cancel(join[j])
      BY <1>1, <2>3
    <2>8. /\ join'[j].kind = join[j].kind /\ join'[j].output = join[j].output
          /\ join'[j].done = join[j].done
      BY <2>3, <2>7, CancelKeeps
    <2>9. Follows(j)'
      BY <2>1, <2>4, <2>5, <2>6, <2>8 DEF Follows
    <2>10. joinLog'[j].cancelled = joinLog[j].cancelled \/ joinLog'[j].cancelled = TRUE
      <3>1. join'[j].cancelled \in BOOLEAN /\ joinLog[j].cancelled \in BOOLEAN
        <4>1. join' \in [JoinId -> JoinBox]
          BY DEF Inv, Types
        <4> QED
          BY <2>3, <4>1 DEF JoinBox, LogEntry
      <3> QED
        BY <2>5, <3>1
    <2>11. Answers(j)'
      BY <1>4, <1>5, <2>1, <2>4, <2>6, <2>10, AnswersStay
    <2>12. Belongs(j)'
      BY <1>1, <1>2, <1>4, <2>1, <2>4, BelongsStays
    <2>13. Alone(j)'
      BY <1>1, <2>1, <2>4 DEF Alone
    <2> QED
      BY <2>9, <2>11, <2>12, <2>13
  <1> QED
    BY <1>1, <1>4, <1>6 DEF Rights, StaysApart

\* One child of the combinator state was resumed, before it was log and after
\* it is seen.
Advances(state, log, x, seen, next) ==
    /\ seen.kind = log.kind /\ seen.output = log.output /\ seen.invalid = log.invalid
    /\ seen.cancelled = log.cancelled /\ seen.left = log.left - 1
    /\ seen.seen = Append(log.seen, x)
    /\ next = IF state.remaining = 1 THEN NoJoin
              ELSE [state EXCEPT !.remaining = @ - 1,
                                 !.done = @ \/ Verdict(state, x) # "pending"]

\* Its verdict is what the inputs now call for, and the state remembers it.
LEMMA AdvanceSays ==
    ASSUME NEW state \in JoinBox, NEW log \in LogEntry, NEW x \in Settlement, NEW seen, NEW next,
           Advances(state, log, x, seen, next), log.kind \in JoinKinds, state.kind = log.kind,
           log.left = state.remaining, state.remaining > 0, ~log.cancelled, ~state.cancelled,
           state.done = (Combined(log) # "pending")
    PROVE  /\ Combined(seen) = IF state.done THEN Combined(log) ELSE Verdict(state, x)
           /\ state.done => Verdict(state, x) = "pending"
           /\ next.kind # "none" => next.done = (Combined(seen) # "pending")
  <1>1. /\ log.left \in Nat /\ log.seen \in Seq(Settlement) /\ log.invalid \in BOOLEAN
        /\ state.cancelled = FALSE /\ state.done \in BOOLEAN
    BY DEF LogEntry, JoinBox
  <1>2. /\ Combined(log) = IF log.invalid THEN "rejected" ELSE Says(log.kind, log.left, log.seen)
        /\ Combined(seen) = IF log.invalid THEN "rejected"
                            ELSE Says(log.kind, log.left - 1, Append(log.seen, x))
    BY CombinedSays DEF Advances
  <1>3. /\ Combined(seen) = IF state.done THEN Combined(log) ELSE Verdict(state, x)
        /\ state.done => Verdict(state, x) = "pending"
    <2> DEFINE before == Combined(log)
               after == Combined(seen)
               n == log.left
               w == log.seen
               kind == log.kind
               invalid == log.invalid
    <2>1. /\ kind \in JoinKinds /\ n \in Nat /\ n > 0 /\ w \in Seq(Settlement)
          /\ state.kind = kind /\ state.remaining = n /\ invalid \in BOOLEAN
          /\ state.done = (before # "pending")
      BY <1>1
    <2>2. /\ before = IF invalid THEN "rejected" ELSE Says(kind, n, w)
          /\ after = IF invalid THEN "rejected" ELSE Says(kind, n - 1, Append(w, x))
      BY <1>2
    <2> HIDE DEF before, after, n, w, kind, invalid
    <2>3. TellsMore(state, x, before, after)
      BY <1>1, <2>1, <2>2, SaysMore
    <2> QED
      BY <2>3 DEF TellsMore, before, after
  <1>4. ASSUME next.kind # "none"
        PROVE  next.done = (Combined(seen) # "pending")
    <2>1. next.done = (state.done \/ Verdict(state, x) # "pending")
      BY <1>4, BoxTypes DEF Advances, JoinBox
    <2> QED
      BY <1>1, <1>3, <2>1
  <1> QED
    BY <1>3, <1>4

\* What settling does to a box.
SettledAs(h, k, p, r) ==
    /\ k \in [Promise -> RawBox] /\ k[p].live = h[p].live
    /\ k[p].result = IF h[p].result = "pending" THEN r ELSE h[p].result

LEMMA SettleRaw ==
    ASSUME NEW h \in [Promise -> RawBox], NEW p \in Promise, NEW r \in Settlement
    PROVE  SettledAs(h, Settle(h, p, r), p, r)
  <1> DEFINE c == SettleBox(h[p], r)
             k == [h EXCEPT ![p] = c]
  <1>1. Settle(h, p, r) = k
    BY SettleIs
  <1>2. h[p] \in RawBox /\ <<>> \in Seq(FrameId)
    OBVIOUS
  <1>3. /\ c \in RawBox /\ c.live = h[p].live
        /\ c.result = IF h[p].result = "pending" THEN r ELSE h[p].result
    BY <1>2 DEF SettleBox, RawBox
  <1> HIDE DEF c
  <1>4. SettledAs(h, k, p, r)
    BY <1>3 DEF SettledAs
  <1> HIDE DEF k
  <1> QED
    BY <1>1, <1>4

\* The box of the output, after a child settled it or not and gave back tokens.
LEMMA ChildOutput ==
    ASSUME Inv, ResumeChild, NEW j, j = Box.join, NEW o, o = join[j].output,
           NEW r, r = Verdict(join[j], Outcome), heap'[o].live
    PROVE  /\ heap[o].live
           /\ heap'[o].result = IF r # "pending" /\ heap[o].result = "pending" THEN r
                                ELSE heap[o].result
  <1>0. Resuming("child")
    BY DEF ResumeChild
  <1>1. PICK h, given : ChildActs(j, o, r, h, given)
    BY ChildActing
  <1>2. ChildSays(j, o) /\ Box.input \in Promise
    BY <1>0, ChildFacts, TakenFacts DEF Resuming, TakenSays
  <1>3. o \in Promise /\ r \in {"pending"} \cup Settlement
    BY <1>2 DEF ChildSays
  <1>4. /\ h = (IF r = "pending" THEN heap ELSE Settle(heap, o, r))
        /\ given = Destroy(h, Box.input)
        /\ heap' = given \/ heap' = Release(given, o)
    <2>1. /\ h = (IF r = "pending" THEN heap ELSE Settle(heap, o, r))
          /\ given = Destroy(h, Box.input)
          /\ heap' = IF LastChild(join[j]) THEN Release(given, o) ELSE given
      BY <1>1, Zenon DEF ChildActs
    <2> QED
      BY <2>1
  <1>5. heap \in [Promise -> RawBox]
    BY HeapIsRaw
  <1>6. /\ h \in [Promise -> RawBox] /\ h[o].live = heap[o].live
        /\ h[o].result = IF r # "pending" /\ heap[o].result = "pending" THEN r
                         ELSE heap[o].result
    <2>1. CASE r = "pending"
      BY <1>4, <1>5, <2>1
    <2>2. CASE r \in Settlement
      <3>1. "pending" \notin Settlement
        BY DEF Settlement
      <3>2. h = Settle(heap, o, r)
        BY <1>4, <2>2, <3>1
      <3>3. SettledAs(heap, h, o, r)
        BY <1>3, <1>5, <2>2, <3>2, SettleRaw
      <3> QED
        BY <2>2, <3>1, <3>3 DEF SettledAs
    <2> QED
      BY <1>3, <2>1, <2>2
  <1>7. Moved(h, given, {}, {})
    BY <1>2, <1>4, <1>6, Moves
  <1>8. Moved(h, heap', {}, {})
    <2>1. given \in [Promise -> RawBox]
      BY <1>7 DEF Moved
    <2>2. Moved(given, Release(given, o), {}, {})
      BY <1>3, <2>1, Moves
    <2> QED
      BY <1>4, <1>7, <2>2, MovedTwice
  <1>9. heap'[o].live => h[o].live /\ heap'[o].result = h[o].result
    BY <1>3, <1>8 DEF Moved, Becomes
  <1> QED
    BY <1>6, <1>9

LEMMA ChildRights ==
    ASSUME Inv, Inv', Rights, ResumeChild, NEW i, i = Box.join, NEW x, x = Outcome,
           NEW o, o = join[i].output
    PROVE  Rights'
  <1>0. Resuming("child")
    BY DEF ResumeChild
  <1>1. ChildSays(i, o) /\ x \in Settlement /\ Taken \in FrameId
    BY <1>0, ChildFacts, TakenFacts DEF Resuming, TakenSays
  <1>2. /\ i \in JoinId /\ join[i] \in JoinBox /\ join[i].kind # "none" /\ join[i].remaining > 0
        /\ joinLog[i] \in LogEntry /\ joinLog[i].left = join[i].remaining
    BY <1>1 DEF ChildSays
  <1>3. i \in 1..joins
    <2>1. i <= joins
      BY <1>2 DEF Inv, Structure, JoinOK
    <2> QED
      BY SMTT(30), <1>2, <2>1 DEF JoinId, Inv, Types
  <1>4. PICK h, given : ChildActs(i, o, Verdict(join[i], x), h, given)
    BY ChildActing
  <1>5. /\ join \in [JoinId -> JoinBox] /\ joinLog \in [JoinId -> LogEntry] /\ born \in Nat
        /\ 1..joins \subseteq JoinId
    BY SMTT(30), Domains DEF Inv, Types, JoinId
  <1>6. /\ FreeFrame(Taken) /\ DropWaits(heap')
        /\ UNCHANGED <<born, joins, resolvable, forced>>
    BY SMTT(30), <1>4 DEF ChildActs, FreeFrame, counters
  <1>7. /\ join' = [join EXCEPT ![i] = IF join[i].remaining = 1 THEN NoJoin
                      ELSE [join[i] EXCEPT !.remaining = @ - 1,
                                           !.done = @ \/ Verdict(join[i], x) # "pending"]]
        /\ joinLog' = [joinLog EXCEPT ![i].left = @ - 1, ![i].seen = Append(@, x)]
    BY <1>4 DEF ChildActs, LastChild
  <1>8. Advances(join[i], joinLog[i], x, joinLog'[i], join'[i])
    BY <1>2, <1>5, <1>7 DEF Advances, LogEntry
  <1>9. \A k \in JoinId : k # i => join'[k] = join[k] /\ joinLog'[k] = joinLog[k]
    BY <1>5, <1>7
  <1>10. StaysApart
    <2>1. Holding
      BY <1>1, <1>6, LiveOnly DEF Holding
    <2> QED
      BY <2>1, HoldingKeeps DEF Rights
  <1>11. Spares({o})
    <2>1. Alters({o}, {})
      BY ChildAlters
    <2> QED
      BY <2>1, AltersSpares
  <1>12. Belongs(i) /\ Follows(i) /\ Answers(i) /\ Alone(i)
    BY <1>3 DEF Rights
  <1>13. joinLog[i].kind \in JoinKinds /\ join[i].kind = joinLog[i].kind /\ o = joinLog[i].output
    BY <1>2, <1>12 DEF Follows
  <1>14. \A k \in 1..joins : joinLog'[k].output = joinLog[k].output
    BY <1>5, <1>8, <1>9 DEF Advances
  <1>15. ~joinLog[i].cancelled =>
            /\ ~join[i].cancelled /\ join[i].done = (Combined(joinLog[i]) # "pending")
            /\ Combined(joinLog'[i]) = IF join[i].done THEN Combined(joinLog[i])
                                       ELSE Verdict(join[i], x)
            /\ join[i].done => Verdict(join[i], x) = "pending"
            /\ join'[i].kind # "none" => join'[i].done = (Combined(joinLog'[i]) # "pending")
    <2> SUFFICES ASSUME ~joinLog[i].cancelled
                 PROVE  /\ ~join[i].cancelled /\ join[i].done = (Combined(joinLog[i]) # "pending")
                        /\ Combined(joinLog'[i]) = IF join[i].done THEN Combined(joinLog[i])
                                                   ELSE Verdict(join[i], x)
                        /\ join[i].done => Verdict(join[i], x) = "pending"
                        /\ join'[i].kind # "none" =>
                              join'[i].done = (Combined(joinLog'[i]) # "pending")
      OBVIOUS
    <2>1. ~join[i].cancelled /\ join[i].done = (Combined(joinLog[i]) # "pending")
      BY <1>2, <1>12 DEF Follows
    <2> QED
      BY <1>1, <1>2, <1>8, <1>13, <2>1, AdvanceSays
  <1>16. Follows(i)'
    <2>1. joinLog'[i].kind = joinLog[i].kind /\ joinLog'[i].cancelled = joinLog[i].cancelled
      BY <1>8 DEF Advances
    <2>2. join'[i].kind # "none" => /\ join'[i].kind = join[i].kind /\ join'[i].output = o
                                    /\ join'[i].cancelled = join[i].cancelled
      BY <1>2, <1>8, BoxTypes DEF Advances, JoinBox
    <2>3. join[i].cancelled => joinLog[i].cancelled
      BY <1>2, <1>12 DEF Follows
    <2> QED
      BY <1>3, <1>13, <1>14, <1>15, <2>1, <2>2, <2>3 DEF Follows
  <1>17. Answers(i)'
    <2>1. joinLog'[i].output = o /\ joinLog'[i].cancelled = joinLog[i].cancelled
      BY <1>8, <1>13 DEF Advances
    <2>2. heap'[o].live =>
             /\ heap[o].live
             /\ heap'[o].result = IF Verdict(join[i], x) # "pending" /\ heap[o].result = "pending"
                                  THEN Verdict(join[i], x) ELSE heap[o].result
      BY ChildOutput
    <2> SUFFICES ASSUME heap'[o].live, ~joinLog[i].cancelled, o \notin forced
                 PROVE  heap'[o].result = Combined(joinLog'[i])
      BY <1>6, <2>1 DEF Answers
    <2>3. heap[o].result = Combined(joinLog[i])
      BY <1>12, <1>13, <2>2 DEF Answers
    <2> QED
      BY <1>15, <2>2, <2>3
  <1>18. ASSUME NEW k \in 1..joins
         PROVE  (Belongs(k) /\ Follows(k) /\ Answers(k) /\ Alone(k))'
    <2>1. Belongs(k) /\ Follows(k) /\ Answers(k) /\ Alone(k)
      BY DEF Rights
    <2>2. Belongs(k)'
      BY <1>5, <1>6, <1>10, <1>14, <2>1, BelongsStays
    <2>3. Alone(k)'
      BY <1>6, <1>14, <2>1 DEF Alone
    <2>4. CASE k = i
      BY <1>16, <1>17, <2>2, <2>3, <2>4
    <2>5. CASE k # i
      <3>1. join'[k] = join[k] /\ joinLog'[k] = joinLog[k]
        BY <1>5, <1>9, <2>5
      <3>2. joinLog[k].output \notin {o}
        BY <1>3, <1>13, <2>1, <2>5 DEF Alone
      <3>3. Answers(k)'
        BY <1>10, <1>11, <2>1, <3>1, <3>2, AnswersStay
      <3>4. Follows(k)'
        BY <2>1, <3>1 DEF Follows
      <3> QED
        BY <2>2, <2>3, <3>3, <3>4
    <2> QED
      BY <2>4, <2>5
  <1> QED
    BY <1>6, <1>10, <1>18 DEF Rights, StaysApart

\* What was seen when a combinator is made.
LEMMA NothingSeen ==
    ASSUME NEW log, NEW kind \in JoinKinds, NEW invalid \in BOOLEAN, NEW n \in Nat, n > 0, NEW q,
           log = [kind |-> kind, output |-> q, left |-> n, seen |-> <<>>,
                  invalid |-> invalid, cancelled |-> FALSE]
    PROVE  Combined(log) = IF invalid THEN "rejected" ELSE "pending"
  <1>1. \A r : ~SomeIn(<<>>, r)
    BY DEF SomeIn
  <1>2. log.invalid = invalid /\ log.kind = kind /\ log.left = n /\ log.seen = <<>>
    OBVIOUS
  <1>3. Combined(log) = IF invalid THEN "rejected" ELSE Says(kind, n, <<>>)
    BY <1>2, CombinedSays
  <1>4. Says(kind, n, <<>>) = "pending"
    BY <1>1 DEF Says
  <1> QED
    BY <1>3, <1>4

LEMMA CombineRights ==
    ASSUME Inv, Inv', Rights, NEW q \in FreshPromise, NEW s \in InputLists, NEW j \in FreshJoin,
           NEW kind \in JoinKinds, NEW invalid \in BOOLEAN, Combine(kind, s, invalid, q, j)
    PROVE  Rights'
  <1> DEFINE n == Len(s)
             r == IF invalid THEN "rejected" ELSE "pending"
             state == [kind |-> kind, output |-> q, remaining |-> n,
                       done |-> invalid, counted |-> TRUE, cancelled |-> FALSE]
             log == [kind |-> kind, output |-> q, left |-> n, seen |-> <<>>,
                     invalid |-> invalid, cancelled |-> FALSE]
             b == [NewBox EXCEPT !.result = r]
             k == [heap EXCEPT ![q] = b]
  <1>1. /\ join' = [join EXCEPT ![j] = state] /\ joinLog' = [joinLog EXCEPT ![j] = log]
        /\ born' = q /\ joins' = j /\ \A p \in Inputs(s) : Has(p)
    BY Zenon DEF Combine
  <1>2. UNCHANGED <<resolvable, timers, fdWaits, forced>>
    BY Zenon DEF Combine
  <1>3. frame' = [f \in FrameId |->
                    IF f \in frames + 1 .. frames + n THEN ChildBox(s[f - frames], j) ELSE frame[f]]
    BY Zenon DEF Combine, ChildBox
  <1>4. heap' = [p \in Promise |-> IF p \in Inputs(s) THEN JoinedBox(s, p)
                                   ELSE IF p = q THEN OutputRef(k, q)[q] ELSE heap[p]]
    BY Zenon DEF Combine
  <1>5. /\ q \in Promise /\ q = born + 1 /\ ~heap[q].live /\ born \in Nat /\ joins \in Nat
        /\ j = joins + 1 /\ j \in JoinId /\ 1..joins \subseteq JoinId
        /\ join \in [JoinId -> JoinBox] /\ joinLog \in [JoinId -> LogEntry]
    <2>1. q \in Promise /\ q = born + 1 /\ ~heap[q].live
      BY FreshIsDead
    <2>2. j = joins + 1 /\ j \in JoinId
      BY FreshJoinIsFree
    <2>3. /\ born \in Nat /\ joins \in Nat /\ joins <= MaxJoins /\ MaxJoins \in Nat
          /\ join \in [JoinId -> JoinBox] /\ joinLog \in [JoinId -> LogEntry]
      BY Domains DEF Inv, Types
    <2>4. 1..joins \subseteq JoinId
      BY <2>3 DEF JoinId
    <2> QED
      BY <2>1, <2>2, <2>3, <2>4
  <1>6. n \in Nat /\ n > 0
    BY ListCases DEF OneInput, TwoInputs
  <1>7. Combined(log) = r
    BY <1>6, NothingSeen
  <1>8. heap'[q].result = r
    <2>1. q \notin Inputs(s)
      BY <1>1, <1>5 DEF Has
    <2>2. heap'[q] = OutputRef(k, q)[q]
      BY <1>4, <1>5, <2>1
    <2>3. b \in RawBox /\ b.result = r
      <3>1. r \in {"pending"} \cup Settlement
        BY DEF Settlement
      <3> HIDE DEF r
      <3> QED
        BY <3>1, NewBoxAs, BoxIsRaw
    <2> HIDE DEF b, r
    <2>4. k \in [Promise -> RawBox] /\ k[q] = b
      BY <1>5, <2>3, HeapIsRaw
    <2> HIDE DEF k
    <2>5. OutputRef(k, q) = [k EXCEPT ![q] = RetainBox(b)]
      BY <1>5, <2>4, RetainIs DEF OutputRef
    <2>6. RetainBox(b).result = b.result
      BY <2>3 DEF RetainBox, RawBox
    <2> QED
      BY <1>5, <2>2, <2>3, <2>4, <2>5, <2>6
  <1>9. ASSUME NEW f \in FrameId
         PROVE  frame'[f].output = Null \/ frame'[f].output = frame[f].output
    <2>1. \A p : ChildBox(p, j).output = Null
      BY DEF ChildBox, NoFrame
    <2>2. CASE f \in frames + 1 .. frames + n
      <3>1. frame'[f] = ChildBox(s[f - frames], j)
        BY <1>3, <2>2
      <3> QED
        BY <2>1, <3>1
    <2>3. CASE f \notin frames + 1 .. frames + n
      BY <1>3, <2>3
    <2> QED
      BY <2>2, <2>3
  <1>10. StaysApart
    <2>1. OutputsKnown
      BY <1>9 DEF OutputsKnown
    <2>2. born' >= born /\ born' \in Nat
      BY <1>1, <1>5
    <2> QED
      BY <1>2, <2>1, <2>2, KeepsApart DEF Rights
  <1>11. Spares({})
    BY CombineLooks, QuietSpares DEF Looks, Watches
  <1>12. Belongs(j)'
    <2>1. joinLog'[j].output = q
      BY <1>1, <1>5
    <2>2. Apart(q)
      BY <1>5, UnbornApart DEF Rights
    <2>3. \A f \in FrameId : frame'[f].output # q
      BY <1>5, <1>9, <2>2 DEF Apart, Null
    <2>4. Apart(q)'
      BY <1>2, <2>2, <2>3 DEF Apart
    <2>5. q \in 1..born'
      BY <1>1, <1>5
    <2> QED
      BY <2>1, <2>4, <2>5 DEF Belongs
  <1> HIDE DEF n, r, b, k
  <1>13. /\ joinLog'[j] = log /\ join'[j] = state
         /\ \A c \in 1..joins : c # j /\ join'[c] = join[c] /\ joinLog'[c] = joinLog[c]
    BY <1>1, <1>5
  <1>14. Follows(j)' /\ Answers(j)'
    <2>1. invalid = (r # "pending")
      BY DEF r
    <2>2. /\ log.kind = kind /\ log.output = q /\ log.cancelled = FALSE
          /\ state.kind = kind /\ state.output = q /\ state.cancelled = FALSE /\ state.done = invalid
      OBVIOUS
    <2> HIDE DEF log, state
    <2>3. Follows(j)'
      BY <1>7, <1>13, <2>1, <2>2 DEF Follows
    <2>4. Answers(j)'
      BY <1>7, <1>8, <1>13, <2>2 DEF Answers
    <2> QED
      BY <2>3, <2>4
  <1>15. log.output = q
    OBVIOUS
  <1> HIDE DEF log, state
  <1>16. ASSUME NEW c \in 1..joins
         PROVE  (Belongs(c) /\ Follows(c) /\ Answers(c) /\ Alone(c))'
    <2>1. Belongs(c) /\ Follows(c) /\ Answers(c) /\ Alone(c)
      BY DEF Rights
    <2>2. join'[c] = join[c] /\ joinLog'[c] = joinLog[c] /\ born' \in Nat
      BY <1>1, <1>5, <1>13
    <2>3. Belongs(c)'
      BY <1>10, <2>1, <2>2, BelongsStays
    <2>4. Answers(c)'
      BY <1>10, <1>11, <2>1, <2>2, AnswersStay
    <2>5. Follows(c)'
      BY <2>1, <2>2 DEF Follows
    <2>6. Alone(c)'
      <3> SUFFICES ASSUME NEW i \in 1..joins', i # c
                   PROVE  joinLog'[i].output # joinLog'[c].output
        BY DEF Alone
      <3>1. CASE i \in 1..joins
        BY <1>13, <2>1, <2>2, <3>1 DEF Alone
      <3>2. CASE i = j
        BY <1>5, <1>13, <1>15, <2>1, <2>2, <3>2 DEF Belongs
      <3> QED
        BY <1>1, <1>5, <3>1, <3>2
    <2> QED
      BY <2>3, <2>4, <2>5, <2>6
  <1>17. Alone(j)'
    <2> SUFFICES ASSUME NEW i \in 1..joins', i # j
                 PROVE  joinLog'[i].output # joinLog'[j].output
      BY DEF Alone
    <2>1. i \in 1..joins
      BY <1>1, <1>5
    <2>2. joinLog'[i] = joinLog[i] /\ joinLog[i].output \in 1..born
      BY <1>13, <2>1 DEF Rights, Belongs
    <2> QED
      BY <1>5, <1>13, <1>15, <2>2
  <1>18. \A c \in 1..joins' : c \in 1..joins \/ c = j
    BY <1>1, <1>5
  <1>19. \A c \in 1..joins' : (Belongs(c) /\ Follows(c) /\ Answers(c) /\ Alone(c))'
    BY <1>12, <1>14, <1>16, <1>17, <1>18
  <1> QED
    BY <1>10, <1>19 DEF Rights, StaysApart

LEMMA RightsInit == Init => Rights
  <1> SUFFICES ASSUME Init
               PROVE  Rights
    OBVIOUS
  <1>1. joins = 0 /\ resolvable = {}
    BY DEF Init
  <1>2. 1..joins = {}
    BY <1>1
  <1> QED
    BY <1>1, <1>2 DEF Rights

LEMMA RightsStep == Inv /\ Inv' /\ Rights /\ [Next]_vars => Rights'
  <1> SUFFICES ASSUME Inv, Inv', Rights, [Next]_vars
               PROVE  Rights'
    OBVIOUS
  <1>1. resolvable \subseteq 1..born
    BY DEF Rights
  <1>2. CASE Combinators
    <2>1. PICK q \in FreshPromise, s \in InputLists :
             \/ \E j \in FreshJoin, kind \in JoinKinds, invalid \in BOOLEAN :
                   Combine(kind, s, invalid, q, j)
             \/ AllSettledRefused(s, q)
      BY <1>2 DEF Combinators
    <2> QED
      BY <1>1, <2>1, CombineRights, RefusedLeaves, LeavesRights
  <1>3. CASE Poll
    <2>1. CASE ResumeChild
      BY <2>1, ChildRights
    <2>2. CASE ~ResumeChild
      <3>1. Leaves
        BY <1>1, <1>3, <2>2, PlainResumeLeaves, ForwardLeaves, ReportLeaves DEF Poll
      <3> QED
        BY <3>1, LeavesRights
    <2> QED
      BY <2>1, <2>2
  <1>4. CASE Purge
    BY <1>4, PurgeRights
  <1>5. CASE ~(Combinators \/ Poll \/ Purge)
    <2>1. Leaves
      BY <1>1, <1>5, CreateLeaves, UseTokenLeaves, SubscribeLeaves, DueLeaves, PlainResumeLeaves,
         ReportLeaves, ResetLeaves, StutterLeaves DEF Next
    <2> QED
      BY <2>1, LeavesRights
  <1> QED
    BY <1>2, <1>3, <1>4, <1>5

LEMMA RightsRight == Rights => CombinatorsAreRight
  BY DEF Rights, Answers, CombinatorsAreRight

\* all, race, any and allSettled settle their output exactly as and when the
\* inputs settled so far call for, in any order and interleaving of inputs,
\* purges, callbacks and other combinators, unless the deadline of the
\* invocation came first: each state's done flag and count of children tell the
\* last child all it needs.
THEOREM CombinatorsStayRight == Spec => []CombinatorsAreRight
  <1>1. Spec => []Rights
    BY RightsInit, RightsStep, Invariant, PTL DEF Spec
  <1> QED
    BY <1>1, RightsRight, PTL
=============================================================================
