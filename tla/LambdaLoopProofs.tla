-------------------------- MODULE LambdaLoopProofs --------------------------
(***************************************************************************)
(* Proofs that the safety properties of LambdaLoop hold for every number   *)
(* of requests, failures and work items and for every source of work.      *)
(***************************************************************************)
EXTENDS LambdaLoop, FiniteSetTheorems, FunctionTheorems, SequenceTheorems, TLAPS

-----------------------------------------------------------------------------
(* Sets of work items.                                                     *)

Children(S) == {w \in S : w.role = "child"}

\* A set of items of request r, numbered apart by 1..n.
ItemsOf(S, r, n) ==
    /\ IsFiniteSet(S) /\ S \subseteq Item
    /\ \A w \in S : w.owner = r /\ w.id \in 1..n
    /\ \A v, w \in S : v.id = w.id => v = w
    /\ S # {} => r # 0

LEMMA RemoveItem ==
    ASSUME NEW S, NEW r \in Nat, NEW n \in Nat, ItemsOf(S, r, n), NEW w \in S
    PROVE  /\ ItemsOf(S \ {w}, r, n)
           /\ Cardinality(Children(S)) \in Nat
           /\ Cardinality(Children(S \ {w})) =
                 IF w.role = "child" THEN Cardinality(Children(S)) - 1
                 ELSE Cardinality(Children(S))
           /\ w.role = "child" => Cardinality(Children(S)) > 0
  <1>1. IsFiniteSet(S \ {w})
    BY FS_RemoveElement DEF ItemsOf
  <1>2. ItemsOf(S \ {w}, r, n)
    BY <1>1 DEF ItemsOf
  <1>3. IsFiniteSet(Children(S)) /\ Cardinality(Children(S)) \in Nat
    BY FS_Subset, FS_CardinalityType DEF ItemsOf, Children
  <1>4. CASE w.role = "child"
    <2>1. Children(S \ {w}) = Children(S) \ {w} /\ w \in Children(S)
      BY <1>4 DEF Children
    <2>2. Cardinality(Children(S)) # 0
      BY <1>3, <2>1, FS_EmptySet
    <2>3. Cardinality(Children(S) \ {w}) = Cardinality(Children(S)) - 1
      BY <1>3, <2>1, FS_RemoveElement
    <2> QED
      BY <1>2, <1>3, <1>4, <2>1, <2>2, <2>3
  <1>5. CASE w.role # "child"
    <2>1. Children(S \ {w}) = Children(S)
      BY <1>5 DEF Children
    <2> QED
      BY <1>2, <1>3, <1>5, <2>1
  <1> QED
    BY <1>4, <1>5

LEMMA AddItem ==
    ASSUME NEW S, NEW r \in Nat, NEW n \in Nat, NEW m \in Nat, n <= m,
           ItemsOf(S, r, n), NEW w \in Item, w.owner = r, r # 0,
           w.id \in 1..m, \A v \in S : v.id # w.id
    PROVE  /\ ItemsOf(S \cup {w}, r, m)
           /\ Cardinality(Children(S)) \in Nat
           /\ w.role = "child" =>
                 Cardinality(Children(S \cup {w})) = Cardinality(Children(S)) + 1
           /\ w.role # "child" =>
                 Cardinality(Children(S \cup {w})) = Cardinality(Children(S))
  <1>1. IsFiniteSet(S \cup {w})
    BY FS_AddElement DEF ItemsOf
  <1>2. ItemsOf(S \cup {w}, r, m)
    BY <1>1 DEF ItemsOf
  <1>3. IsFiniteSet(Children(S)) /\ Cardinality(Children(S)) \in Nat
    BY FS_Subset, FS_CardinalityType DEF ItemsOf, Children
  <1>4. CASE w.role = "child"
    <2>1. Children(S \cup {w}) = Children(S) \cup {w} /\ w \notin Children(S)
      BY <1>4 DEF Children
    <2> QED
      BY <1>2, <1>3, <1>4, <2>1, FS_AddElement
  <1>5. CASE w.role # "child"
    <2>1. Children(S \cup {w}) = Children(S)
      BY <1>5 DEF Children
    <2> QED
      BY <1>2, <1>3, <1>5, <2>1
  <1> QED
    BY <1>4, <1>5

\* promote_due_timers and poll_fd_waits move items and lose none.
LEMMA PromoteItems ==
    ASSUME NEW r \in Nat, NEW n \in Nat, ItemsOf(work, r, n)
    PROVE  /\ ItemsOf(Promoted, r, n)
           /\ Cardinality(Children(Promoted)) = Cardinality(Children(work))
           /\ DueNatives \subseteq Promoted
  <1> DEFINE up(w) == IF w.at \in {"timer", "fd"} /\ w.due
                      THEN [w EXCEPT !.at = "ready"] ELSE w
             f == [w \in work |-> up(w)]
             g == [w \in Children(work) |-> up(w)]
  <1>1. \A w \in work : /\ up(w) \in Item /\ up(w).id = w.id
                        /\ up(w).owner = w.owner /\ up(w).role = w.role
    BY DEF ItemsOf, Item, Places
  <1>2. Promoted = {up(w) : w \in work}
    BY DEF Promoted
  <1>3. \A v, w \in work : up(v).id = up(w).id => v = w
    BY <1>1 DEF ItemsOf
  <1>4. IsFiniteSet(Promoted)
    <2>1. f \in Surjection(work, Promoted)
      BY <1>2, Zenon DEF Surjection
    <2> QED
      BY <2>1, FS_Surjection DEF ItemsOf
  <1>5. ItemsOf(Promoted, r, n)
    <2>1. \A w \in Promoted : w \in Item /\ w.owner = r /\ w.id \in 1..n
      BY <1>1, <1>2 DEF ItemsOf
    <2>2. \A v, w \in Promoted : v.id = w.id => v = w
      <3> HIDE DEF up
      <3> QED
        BY <1>2, <1>3
    <2>3. Promoted # {} => r # 0
      BY <1>2 DEF ItemsOf
    <2> QED
      BY <1>4, <2>1, <2>2, <2>3 DEF ItemsOf
  <1>6. Cardinality(Children(Promoted)) = Cardinality(Children(work))
    <2>1. Children(Promoted) = {up(w) : w \in Children(work)}
      BY <1>1, <1>2 DEF Children
    <2>2. g \in Surjection(Children(work), Children(Promoted))
      BY <2>1, Zenon DEF Surjection
    <2>3. g \in Injection(Children(work), Children(Promoted))
      <3>1. \A v, w \in Children(work) : g[v] = g[w] => v = w
        BY <1>3 DEF Children
      <3>2. g \in [Children(work) -> Children(Promoted)]
        BY <2>2 DEF Surjection
      <3> QED
        BY <3>1, <3>2 DEF Injection, IsInjective
    <2>4. IsFiniteSet(Children(work))
      BY FS_Subset DEF ItemsOf, Children
    <2>5. ExistsBijection(Children(work), Children(Promoted))
      BY <2>2, <2>3 DEF ExistsBijection, Bijection
    <2> QED
      BY <2>4, <2>5, FS_Bijection
  <1>7. DueNatives \subseteq Promoted
    BY <1>2 DEF DueNatives
  <1> QED
    BY <1>5, <1>6, <1>7

-----------------------------------------------------------------------------
(* The inductive invariant.                                                *)

FlagsOK == failed \in BOOLEAN /\ latch \in 0..MaxRequests /\ asleep \in BOOLEAN

\* TypeOK without the flags.
RangesOK ==
    /\ pc \in {"next", "handler", "await", "post", "drop", "backoff", "exited"}
    /\ failures \in 0..MaxFailures /\ (failures = MaxFailures) = (pc = "exited")
    /\ request \in 0..MaxRequests /\ handed \in 0..MaxRequests
    /\ headers \in Headers /\ trace \in 0..MaxRequests /\ slot \in 0..MaxRequests
    /\ deadline \in {"none", "running", "expired"}
    /\ completion \in Outcomes
    /\ made \in 0..MaxWork /\ unreported \subseteq 1..MaxRequests
    /\ answers \in Seq([request : Nat, kind : {"response", "error"}, of : Nat])

WorkInv ==
    /\ ItemsOf(work, request, made)
    /\ joins = Cardinality(Children(work))

\* Between two invocations nothing is left, and while one is served its request
\* is the last one handed out and the slot holds no other request's error.
PhaseInv ==
    /\ pc \in {"next", "backoff", "exited"} =>
          work = {} /\ deadline = "none" /\ request = 0
    /\ pc \in {"handler", "await", "post"} =>
          /\ request = handed /\ request # 0
          /\ slot \in {0, request}
          /\ deadline # "none" <=> headers.deadline
          /\ trace = IF headers.trace THEN request ELSE 0

\* Only requests handed out are answered, and the one being served not yet.
AnswersInv ==
    /\ AnswersAreOwn
    /\ \A i \in 1..Len(answers) :
          /\ answers[i].request <= handed
          /\ pc \in {"handler", "await", "post"} => answers[i].request < request

LoopInv == FlagsOK /\ RangesOK /\ WorkInv /\ PhaseInv /\ AnswersInv

LEMMA LoopInvImplies == LoopInv => TypeOK /\ InvocationsAreIsolated /\ AnswersAreOwn
  <1> SUFFICES ASSUME LoopInv PROVE TypeOK /\ InvocationsAreIsolated /\ AnswersAreOwn
    OBVIOUS
  <1>1. FlagsOK /\ RangesOK /\ WorkInv /\ PhaseInv /\ AnswersInv
    BY DEF LoopInv
  <1>2. work \subseteq Item /\ joins \in Nat
    BY <1>1, FS_Subset, FS_CardinalityType DEF WorkInv, ItemsOf, Children
  <1>3. TypeOK
    BY <1>1, <1>2, Zenon DEF TypeOK, FlagsOK, RangesOK
  <1>4. InvocationsAreIsolated
    <2>1. headers.deadline \in BOOLEAN
      BY <1>1 DEF RangesOK, Headers
    <2>2. pc \in {"handler", "await", "post"} => (deadline # "none") = headers.deadline
      BY <1>1, <2>1, Zenon DEF PhaseInv
    <2> QED
      BY <1>1, <2>2 DEF InvocationsAreIsolated, WorkInv, ItemsOf, Children, PhaseInv
  <1> QED
    BY <1>1, <1>3, <1>4 DEF AnswersInv

LEMMA InitLoopInv == Init => LoopInv
  <1> SUFFICES ASSUME Init PROVE LoopInv
    OBVIOUS
  <1> USE LambdaAssumption
  <1>1. FlagsOK
    <2>1. latch = 0 /\ failed \in BOOLEAN /\ asleep \in BOOLEAN
      BY Zenon DEF Init
    <2>2. latch \in 0..MaxRequests
      BY <2>1
    <2> QED
      BY <2>1, <2>2, Zenon DEF FlagsOK
  <1>2. RangesOK
    BY DEF RangesOK, Headers, NoHeaders, Outcomes, Init
  <1>3. WorkInv
    BY FS_EmptySet DEF WorkInv, ItemsOf, Init, Children
  <1>4. PhaseInv
    BY DEF PhaseInv, Init
  <1>5. AnswersInv
    BY DEF AnswersInv, AnswersAreOwn, Init
  <1> QED
    BY <1>1, <1>2, <1>3, <1>4, <1>5 DEF LoopInv

-----------------------------------------------------------------------------
(* Every step keeps the invariant.                                         *)

LEMMA FlagsStep ==
    ASSUME FlagsOK, request \in 0..MaxRequests, [Next]_vars
    PROVE  FlagsOK'
  <1>1. failed' \in BOOLEAN
    <2>1. failed' = TRUE \/ failed' = FALSE \/ failed' = failed
      BY Zenon DEF Next, Get, Turn, Handler, FetchRefused, FetchBroken, Fetch, FetchBadBody,
         HandOut, Fail, PollOne, Resolved, TimeOut, Sleep, Wake, Stuck, Post,
         PostRefused, PostLost, Drop, Backoff, Start, RejectUnhandled, Return, Await,
         TimerDue, FdReady, BecomeDue, Expire, vars
    <2> QED
      BY <2>1, Zenon DEF FlagsOK
  <1>2. asleep' \in BOOLEAN
    <2>1. asleep' = TRUE \/ asleep' = FALSE \/ asleep' = asleep
      BY Zenon DEF Next, Get, Turn, Handler, FetchRefused, FetchBroken, Fetch, FetchBadBody,
         HandOut, PollOne, Resolved, TimeOut, Sleep, Wake, Stuck, Post,
         PostRefused, PostLost, Drop, Backoff, Start, RejectUnhandled, Return, Await,
         TimerDue, FdReady, BecomeDue, Expire, vars
    <2> QED
      BY <2>1, Zenon DEF FlagsOK
  <1>3. latch' \in 0..MaxRequests
    <2>1. latch' = latch \/ ReportAll
      BY Zenon DEF Next, Get, Turn, Handler, FetchRefused, FetchBroken, Fetch, FetchBadBody,
         HandOut, PollOne, Progress, NoProgress, Resolved, TimeOut, Sleep, Wake, Stuck, Post,
         PostRefused, PostLost, Drop, Drained, Backoff, Start, RejectUnhandled, Return, Await,
         TimerDue, FdReady, BecomeDue, Expire, vars, loop
    <2> QED
      BY <2>1, Zenon DEF FlagsOK, ReportAll
  <1> QED
    BY <1>1, <1>2, <1>3 DEF FlagsOK

\* A step that answers nothing.
LEMMA AnswersKept ==
    ASSUME RangesOK, AnswersInv, UNCHANGED answers,
           handed' \in Nat, handed' >= handed, request' \in Nat,
           pc' \in {"handler", "await", "post"} =>
              \/ pc \in {"handler", "await", "post"} /\ request' = request
              \/ request' > handed
    PROVE  AnswersInv'
  <1> USE LambdaAssumption
  <1>1. /\ handed \in Nat /\ request \in Nat
        /\ \A i \in 1..Len(answers) : answers[i].request \in Nat
    <2>1. answers \in Seq([request : Nat, kind : {"response", "error"}, of : Nat])
      BY DEF RangesOK
    <2>2. \A i \in 1..Len(answers) :
             answers[i] \in [request : Nat, kind : {"response", "error"}, of : Nat]
      BY <2>1, ElementOfSeq
    <2> QED
      BY <2>2 DEF RangesOK
  <1>2. AnswersAreOwn'
    BY Zenon DEF AnswersInv, AnswersAreOwn
  <1>3. ASSUME NEW i \in 1..Len(answers)
        PROVE  /\ answers[i].request <= handed'
               /\ pc' \in {"handler", "await", "post"} => answers[i].request < request'
    <2>1. /\ answers[i].request <= handed
          /\ pc \in {"handler", "await", "post"} => answers[i].request < request
      BY <1>3 DEF AnswersInv
    <2> QED
      BY <1>1, <2>1
  <1> QED
    BY <1>2, <1>3 DEF AnswersInv

\* GET .../invocation/next.
LEMMA GetStep ==
    ASSUME LoopInv, Get
    PROVE  RangesOK' /\ WorkInv' /\ PhaseInv' /\ AnswersInv'
  <1> USE LambdaAssumption DEF LoopInv
  <1>1. work = {} /\ request = 0 /\ deadline = "none" /\ UNCHANGED <<loop, answers, failures>>
    BY DEF PhaseInv, Get, FetchRefused, FetchBroken, Fetch, FetchBadBody, HandOut, api
  <1>2. RangesOK'
    <2>1. CASE FetchRefused
      BY <2>1 DEF FetchRefused, Fail, RangesOK, loop, api
    <2>2. CASE FetchBroken
      BY <2>2 DEF FetchBroken, HandOut, Fail, RangesOK, loop
    <2>3. ASSUME NEW h \in Headers, FetchBadBody(h)
          PROVE  RangesOK'
      BY <2>3 DEF FetchBadBody, HandOut, Fail, SetTrace, SetDeadline, RangesOK, loop
    <2>4. ASSUME NEW h \in Headers, Fetch(h)
          PROVE  RangesOK'
      BY <2>4 DEF Fetch, HandOut, SetTrace, SetDeadline, ClearSlot, RangesOK, loop, Outcomes
    <2> QED
      BY <2>1, <2>2, <2>3, <2>4 DEF Get
  <1>3. WorkInv'
    BY <1>1, FS_EmptySet DEF WorkInv, ItemsOf, loop, Children
  <1>4. PhaseInv'
    <2>1. CASE FetchRefused \/ FetchBroken
      BY <2>1 DEF FetchRefused, FetchBroken, Fail, PhaseInv
    <2>2. ASSUME NEW h \in Headers, FetchBadBody(h)
          PROVE  PhaseInv'
      BY <2>2 DEF FetchBadBody, Fail, PhaseInv
    <2>3. ASSUME NEW h \in Headers, Fetch(h)
          PROVE  PhaseInv'
      BY <2>3 DEF Fetch, HandOut, SetTrace, SetDeadline, ClearSlot, PhaseInv, RangesOK, Headers
    <2> QED
      BY <2>1, <2>2, <2>3 DEF Get
  <1>5. AnswersInv'
    <2>1. /\ handed' >= handed
          /\ pc' = "handler" => request' = handed' /\ handed' = handed + 1
          /\ pc' \in {"drop", "handler"}
      BY DEF Get, FetchRefused, FetchBroken, Fetch, FetchBadBody, HandOut, Fail, RangesOK, api
    <2> QED
      BY <1>1, <1>2, <2>1, AnswersKept DEF RangesOK
  <1> QED
    BY <1>2, <1>3, <1>4, <1>5

\* The handler's code runs.
LEMMA HandlerStep ==
    ASSUME LoopInv, Handler
    PROVE  RangesOK' /\ WorkInv' /\ PhaseInv' /\ AnswersInv'
  <1> USE LambdaAssumption DEF LoopInv
  <1>1. /\ pc = "handler" /\ pc' \in {"handler", "await", "post"}
        /\ UNCHANGED <<failures, request, headers, trace, deadline, answers, handed>>
        /\ slot' \in {slot, request}
    BY DEF Handler, Start, RejectUnhandled, Return, Await, api
  <1>2. /\ request \in 1..MaxRequests /\ request = handed /\ slot \in {0, request}
        /\ request \in Nat
    BY <1>1 DEF PhaseInv, RangesOK
  <1>3. RangesOK'
    <2>1. made' \in 0..MaxWork
      BY DEF Handler, Start, RejectUnhandled, Return, Await, RangesOK, loop
    <2>3. completion' \in Outcomes
      BY DEF Handler, Start, RejectUnhandled, Return, Await, RangesOK, Outcomes
    <2>4. unreported' \subseteq 1..MaxRequests
      BY <1>2 DEF Handler, Start, RejectUnhandled, Return, Await, RangesOK, loop
    <2>2. pc \notin {"exited"} /\ pc' \notin {"exited"}
      BY <1>1
    <2> QED
      BY <1>1, <1>2, <2>1, <2>2, <2>3, <2>4, Zenon DEF RangesOK
  <1>4. WorkInv'
    <2>1. CASE UNCHANGED <<work, joins, made>>
      BY <1>1, <2>1 DEF WorkInv
    <2>2. ASSUME NEW role \in {"main", "child", "stray"}, NEW at \in Sources, Start(role, at)
          PROVE  WorkInv'
      <3> DEFINE w == NewItem(role, at)
      <3>1. w \in Item /\ w.owner = request /\ w.id = made + 1 /\ w.role = role
        BY <1>2 DEF NewItem, Item, RangesOK
      <3>2. /\ made \in Nat /\ made + 1 \in Nat /\ made <= made + 1
            /\ w.id \in 1..(made + 1)
            /\ \A v \in work : v.id # w.id
        BY <3>1 DEF WorkInv, ItemsOf, RangesOK
      <3>4. ItemsOf(work, request, made) /\ request # 0 /\ request \in Nat
        BY <1>2 DEF WorkInv
      <3>3. /\ ItemsOf(work \cup {w}, request, made + 1)
            /\ w.role = "child" =>
                  Cardinality(Children(work \cup {w})) = Cardinality(Children(work)) + 1
            /\ w.role # "child" =>
                  Cardinality(Children(work \cup {w})) = Cardinality(Children(work))
        <4> HIDE DEF w
        <4> QED
          BY <3>1, <3>2, <3>4, AddItem
      <3> QED
        BY <1>1, <2>2, <3>1, <3>3 DEF Start, WorkInv
    <2> QED
      BY <2>1, <2>2 DEF Handler, RejectUnhandled, Return, Await, loop
  <1>5. PhaseInv'
    BY <1>1, <1>2 DEF PhaseInv
  <1>6. AnswersInv'
    BY <1>1, <1>2, AnswersKept
  <1> QED
    BY <1>3, <1>4, <1>5, <1>6

\* Running the callback of a queued or due item.
LEMMA RunStep ==
    ASSUME LoopInv, NEW w \in Promoted, Run(w), UNCHANGED request
    PROVE  /\ WorkInv'
           /\ made' \in 0..MaxWork /\ completion' \in Outcomes
           /\ slot' \in {slot, request} /\ w.owner = request /\ request # 0
  <1> USE LambdaAssumption DEF LoopInv
  <1>1. /\ ItemsOf(Promoted, request, made) /\ request \in Nat /\ made \in Nat
        /\ joins = Cardinality(Children(Promoted))
    BY PromoteItems DEF WorkInv, RangesOK
  <1>2. w.owner = request /\ request # 0
    BY <1>1 DEF ItemsOf
  <1>3. completion' \in Outcomes /\ slot' \in {slot, request} /\ made' \in 0..MaxWork
    BY <1>2 DEF Run, RangesOK, Outcomes
  <1> DEFINE rest == Promoted \ {w}
             new == NewItem("stray", "native")
  <1>4. /\ ItemsOf(rest, request, made) /\ joins' = Cardinality(Children(rest))
        /\ joins' \in Nat
    BY <1>1, RemoveItem DEF Run
  <1>5. ASSUME work' = rest, UNCHANGED made
        PROVE  WorkInv'
    BY <1>4, <1>5 DEF WorkInv, Run
  <1>6. ASSUME made' = made + 1, work' = rest \cup {new}
        PROVE  WorkInv'
    <2>1. new \in Item /\ new.owner = request /\ new.id = made + 1 /\ new.role = "stray"
      BY <1>1 DEF NewItem, Item, Places
    <2>2. \A v \in rest : v.id # new.id
      BY <1>1, <1>4, <2>1 DEF ItemsOf
    <2>3. /\ ItemsOf(rest \cup {new}, request, made + 1)
          /\ Cardinality(Children(rest \cup {new})) = Cardinality(Children(rest))
      <3> HIDE DEF rest, new
      <3> QED
        BY <1>1, <1>2, <1>4, <2>1, <2>2, AddItem
    <2> QED
      BY <1>4, <1>6, <2>3 DEF WorkInv
  <1>7. WorkInv'
    BY <1>5, <1>6 DEF Run
  <1> QED
    BY <1>2, <1>3, <1>7

LEMMA PollOneStep ==
    ASSUME LoopInv, PollOne
    PROVE  RangesOK' /\ WorkInv' /\ PhaseInv' /\ AnswersInv'
  <1> USE LambdaAssumption DEF LoopInv
  <1>1. /\ pc \in {"await", "drop"}
        /\ UNCHANGED <<pc, failures, request, headers, trace, deadline, handed, answers>>
    BY DEF PollOne, InLoop, api
  <1>2. PICK w \in Promoted : Run(w) /\ unreported' \subseteq unreported \cup {w.owner}
    BY PromoteItems DEF PollOne, Progress, ReadyItems, WorkInv, RangesOK
  <1>3. /\ WorkInv'
        /\ made' \in 0..MaxWork /\ completion' \in Outcomes
        /\ slot' \in {slot, request} /\ w.owner = request /\ request # 0
    BY <1>1, <1>2, RunStep
  <1>4. RangesOK'
    <2>1. unreported' \subseteq 1..MaxRequests /\ slot' \in 0..MaxRequests
      BY <1>2, <1>3 DEF RangesOK
    <2> QED
      BY <1>1, <1>3, <2>1 DEF RangesOK
  <1>5. PhaseInv'
    BY <1>1, <1>3 DEF PhaseInv
  <1>6. AnswersInv'
    BY <1>1, AnswersKept DEF RangesOK
  <1> QED
    BY <1>3, <1>4, <1>5, <1>6

\* Waiting, the timeout, and the ways out of run_until_resolved.
LEMMA WaitStep ==
    ASSUME LoopInv, Resolved \/ TimeOut \/ Sleep \/ Wake \/ Stuck
    PROVE  RangesOK' /\ WorkInv' /\ PhaseInv' /\ AnswersInv'
  <1> USE LambdaAssumption DEF LoopInv
  <1>1. /\ UNCHANGED <<failures, request, headers, trace, deadline, work, joins, made,
                       handed, answers>>
        /\ slot' \in {slot, request} /\ unreported' \in {unreported, {}}
        /\ completion' \in {completion, "timeout"}
        /\ pc' = pc \/ (pc = "await" /\ pc' = "post")
    BY DEF Resolved, TimeOut, Sleep, Wake, Stuck, NoProgress, loop, api
  <1>2. RangesOK'
    BY <1>1 DEF RangesOK, Outcomes
  <1>3. WorkInv'
    BY <1>1 DEF WorkInv
  <1>4. PhaseInv'
    <2>1. slot' = slot \/ pc = "await"
      BY DEF Resolved, TimeOut, Sleep, Wake, Stuck
    <2> QED
      BY <1>1, <2>1 DEF PhaseInv
  <1>5. AnswersInv'
    BY <1>1, AnswersKept DEF RangesOK
  <1> QED
    BY <1>2, <1>3, <1>4, <1>5

\* POST .../response or .../error, whatever becomes of it.
LEMMA PostStep ==
    ASSUME LoopInv, Post \/ PostRefused \/ PostLost
    PROVE  RangesOK' /\ WorkInv' /\ PhaseInv' /\ AnswersInv'
  <1> USE LambdaAssumption DEF LoopInv
  <1> DEFINE A == [request : Nat, kind : {"response", "error"}, of : Nat]
  <1>1. /\ pc = "post" /\ pc' = "drop"
        /\ UNCHANGED <<failures, request, headers, trace, deadline, slot, completion,
                       work, joins, made, unreported, handed>>
        /\ answers' = answers \/ answers' = Append(answers, Answer)
    BY DEF Post, PostRefused, PostLost, Fail, loop, api
  <1>2. /\ request = handed /\ request \in Nat /\ slot \in {0, request}
        /\ answers \in Seq(A)
    BY <1>1 DEF PhaseInv, RangesOK
  <1>3. Answer \in A /\ Answer.request = request /\ Answer.of \in {0, request}
    BY <1>2 DEF Answer
  <1>4. answers' \in Seq(A)
    <2> HIDE DEF A
    <2> QED
      BY <1>1, <1>2, <1>3, AppendProperties
  <1>5. RangesOK'
    BY <1>1, <1>4 DEF RangesOK
  <1>6. WorkInv'
    BY <1>1 DEF WorkInv
  <1>7. PhaseInv'
    BY <1>1 DEF PhaseInv
  <1>8. AnswersInv'
    <2>1. CASE answers' = answers
      BY <1>1, <1>2, <2>1, AnswersKept
    <2>2. CASE answers' = Append(answers, Answer)
      <3>1. /\ Len(answers') = Len(answers) + 1 /\ Len(answers) \in Nat
            /\ answers'[Len(answers')] = Answer
            /\ \A i \in 1..Len(answers) : answers'[i] = answers[i]
        BY <1>2, <1>3, <2>2, AppendProperties, LenProperties
      <3>2. \A i \in 1..Len(answers) : answers[i].request < request
        BY <1>1 DEF AnswersInv
      <3>3. \A i \in 1..Len(answers') :
               answers'[i].of \in {0, answers'[i].request} /\ answers'[i].request <= handed
        <4> SUFFICES ASSUME NEW i \in 1..Len(answers')
                     PROVE  /\ answers'[i].of \in {0, answers'[i].request}
                            /\ answers'[i].request <= handed
          OBVIOUS
        <4>1. CASE i = Len(answers')
          BY <1>2, <1>3, <3>1, <4>1
        <4>2. CASE i # Len(answers')
          <5>1. i \in 1..Len(answers)
            BY <3>1, <4>2
          <5> QED
            BY <3>1, <5>1 DEF AnswersInv, AnswersAreOwn
        <4> QED
          BY <4>1, <4>2
      <3>4. \A i, j \in 1..Len(answers') : i < j => answers'[i].request < answers'[j].request
        <4> SUFFICES ASSUME NEW i \in 1..Len(answers'), NEW j \in 1..Len(answers'), i < j
                     PROVE  answers'[i].request < answers'[j].request
          OBVIOUS
        <4>1. i \in 1..Len(answers)
          BY <3>1
        <4>2. CASE j = Len(answers')
          BY <1>3, <3>1, <3>2, <4>1, <4>2
        <4>3. CASE j # Len(answers')
          <5>1. j \in 1..Len(answers)
            BY <3>1, <4>3
          <5> QED
            BY <3>1, <4>1, <5>1 DEF AnswersInv, AnswersAreOwn
        <4> QED
          BY <4>2, <4>3
      <3> QED
        BY <1>1, <3>3, <3>4 DEF AnswersInv, AnswersAreOwn
    <2> QED
      BY <1>1, <2>1, <2>2
  <1> QED
    BY <1>5, <1>6, <1>7, <1>8

\* InvocationArenaReset::drop and the wait between two attempts.
LEMMA DropStep ==
    ASSUME LoopInv, Drop \/ Backoff
    PROVE  RangesOK' /\ WorkInv' /\ PhaseInv' /\ AnswersInv'
  <1> USE LambdaAssumption DEF LoopInv
  <1>1. CASE Backoff
    <2>1. RangesOK'
      BY <1>1 DEF Backoff, RangesOK, loop, api
    <2>2. WorkInv' /\ PhaseInv'
      BY <1>1 DEF Backoff, WorkInv, PhaseInv, loop
    <2>3. AnswersInv'
      BY <1>1, AnswersKept DEF Backoff, RangesOK, api
    <2> QED
      BY <2>1, <2>2, <2>3
  <1>2. CASE Drop
    <2>1. /\ pc = "drop" /\ work' = {} /\ joins' = 0 /\ deadline' = "none"
          /\ made' = 0 /\ request' = 0 /\ headers' = NoHeaders /\ completion' = "none"
          /\ unreported' \in {unreported, {}}
          /\ UNCHANGED <<trace, slot, handed, answers>>
      BY <1>2 DEF Drop, Drained, Purge, NoProgress, api
    <2>2. /\ failures' \in 0..MaxFailures /\ pc' \in {"next", "exited", "backoff"}
          /\ (failures' = MaxFailures) = (pc' = "exited")
      <3>1. failures \in 0..MaxFailures /\ failures # MaxFailures
        BY <2>1 DEF RangesOK
      <3>2. CASE failed
        BY <1>2, <3>1, <3>2 DEF Drop, GiveUp
      <3>3. CASE ~failed
        BY <1>2, <3>1, <3>3 DEF Drop
      <3> QED
        BY <3>2, <3>3
    <2>3. RangesOK'
      BY <2>1, <2>2 DEF RangesOK, Headers, NoHeaders, Outcomes
    <2>4. WorkInv'
      BY <2>1, FS_EmptySet DEF WorkInv, ItemsOf, Children
    <2>5. PhaseInv'
      BY <2>1, <2>2 DEF PhaseInv
    <2>6. AnswersInv'
      BY <2>1, <2>2, AnswersKept DEF RangesOK
    <2> QED
      BY <2>3, <2>4, <2>5, <2>6
  <1> QED
    BY <1>1, <1>2

\* Time passes and descriptors become ready.
LEMMA WorldStep ==
    ASSUME LoopInv, TimerDue \/ FdReady \/ Expire
    PROVE  RangesOK' /\ WorkInv' /\ PhaseInv' /\ AnswersInv'
  <1> USE LambdaAssumption DEF LoopInv
  <1>1. CASE Expire
    <2>1. RangesOK'
      BY <1>1 DEF Expire, RangesOK, loop, api
    <2>4. WorkInv'
      BY <1>1 DEF Expire, WorkInv, loop
    <2>2. PhaseInv'
      <3>1. deadline # "none" /\ deadline' # "none"
        BY <1>1 DEF Expire
      <3> QED
        BY <1>1, <3>1, Zenon DEF Expire, PhaseInv, loop, api
    <2>3. AnswersInv'
      BY <1>1, AnswersKept DEF Expire, RangesOK, api
    <2> QED
      BY <2>1, <2>2, <2>3, <2>4
  <1>2. ASSUME NEW w \in work, BecomeDue(w)
        PROVE  RangesOK' /\ WorkInv' /\ PhaseInv' /\ AnswersInv'
    <2>1. /\ UNCHANGED <<pc, failures, request, headers, trace, deadline, slot, completion,
                         joins, made, unreported, handed, answers>>
          /\ work' = (work \ {w}) \cup {[w EXCEPT !.due = TRUE]}
      BY <1>2 DEF BecomeDue, api
    <2> DEFINE due == [w EXCEPT !.due = TRUE]
               rest == work \ {w}
    <2>2. /\ w \in Item /\ w.owner = request /\ request # 0
          /\ ItemsOf(work, request, made)
          /\ request \in Nat /\ made \in Nat /\ made <= made
      BY DEF WorkInv, ItemsOf, RangesOK
    <2>3. /\ due \in Item /\ due.owner = request
          /\ due.id = w.id /\ due.role = w.role
      BY <2>2 DEF Item
    <2>4. /\ ItemsOf(rest, request, made)
          /\ Cardinality(Children(work)) \in Nat
          /\ Cardinality(Children(rest)) =
                IF w.role = "child" THEN Cardinality(Children(work)) - 1
                ELSE Cardinality(Children(work))
      BY <2>2, RemoveItem
    <2>5. due.id \in 1..made /\ \A v \in rest : v.id # due.id
      BY <2>2, <2>3 DEF ItemsOf
    <2>6. /\ ItemsOf(rest \cup {due}, request, made)
          /\ due.role = "child" =>
                Cardinality(Children(rest \cup {due})) = Cardinality(Children(rest)) + 1
          /\ due.role # "child" =>
                Cardinality(Children(rest \cup {due})) = Cardinality(Children(rest))
      <3> HIDE DEF due, rest
      <3> QED
        BY <2>2, <2>3, <2>4, <2>5, AddItem
    <2>7. WorkInv'
      BY <2>1, <2>3, <2>4, <2>6 DEF WorkInv
    <2>8. RangesOK' /\ PhaseInv'
      <3>1. RangesOK'
        BY <2>1 DEF RangesOK
      <3>2. PhaseInv'
        BY <2>1 DEF PhaseInv
      <3> QED
        BY <3>1, <3>2
    <2>9. AnswersInv'
      BY <2>1, AnswersKept DEF RangesOK
    <2> QED
      BY <2>7, <2>8, <2>9
  <1> QED
    BY <1>1, <1>2 DEF TimerDue, FdReady, Timers

LEMMA LoopInvStep == LoopInv /\ [Next]_vars => LoopInv'
  <1> SUFFICES ASSUME LoopInv, [Next]_vars PROVE LoopInv'
    OBVIOUS
  <1>1. FlagsOK'
    BY FlagsStep DEF LoopInv, RangesOK
  <1>2. RangesOK' /\ WorkInv' /\ PhaseInv' /\ AnswersInv'
    <2>1. CASE Get
      BY <2>1, GetStep
    <2>2. CASE Turn
      BY <2>2, PollOneStep, WaitStep, PostStep, DropStep DEF Turn
    <2>3. CASE Handler
      BY <2>3, HandlerStep
    <2>4. CASE TimerDue \/ FdReady \/ Expire
      BY <2>4, WorldStep
    <2>5. CASE UNCHANGED vars
      <3>1. RangesOK'
        BY <2>5 DEF LoopInv, RangesOK, vars, loop, api
      <3>2. WorkInv'
        BY <2>5 DEF LoopInv, WorkInv, vars, loop
      <3>4. PhaseInv'
        BY <2>5, Zenon DEF LoopInv, PhaseInv, vars, loop, api
      <3>3. AnswersInv'
        BY <2>5, AnswersKept DEF LoopInv, RangesOK, vars, api
      <3> QED
        BY <3>1, <3>2, <3>3, <3>4
    <2> QED
      BY <2>1, <2>2, <2>3, <2>4, <2>5 DEF Next
  <1> QED
    BY <1>1, <1>2 DEF LoopInv

-----------------------------------------------------------------------------
(* The theorems.                                                           *)

\* The invariant holds in every state of the Lambda process.
THEOREM LoopInvariant == Spec => []LoopInv
  BY InitLoopInv, LoopInvStep, PTL DEF Spec

\* Every variable keeps its type; consecutive_failures stays below its limit
\* while the process runs.
THEOREM LambdaTypes == Spec => []TypeOK
  BY LoopInvariant, LoopInvImplies, PTL

\* InvocationArenaReset::drop leaves nothing of an invocation behind: the event
\* loop holds work of the request being served only, joins counts exactly the
\* combinator inputs still out, deadline and trace are that request's.
THEOREM InvocationsIsolated == Spec => []InvocationsAreIsolated
  BY LoopInvariant, LoopInvImplies, PTL

\* handle_one_invocation answers a request at most once, in the order they were
\* handed out, with its own result or error text.
THEOREM AnswersOwned == Spec => []AnswersAreOwn
  BY LoopInvariant, LoopInvImplies, PTL
=============================================================================
