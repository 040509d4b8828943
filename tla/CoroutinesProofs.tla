-------------------------- MODULE CoroutinesProofs ---------------------------
(***************************************************************************)
(* Proofs about the hand-off protocol of thaw-js, for any coroutines and   *)
(* any bounds, when no body calls a generator that is being started (with  *)
(* such calls the protocol breaks, as run coroutine_start shows).          *)
(*                                                                         *)
(* Everything rests on cur_co: a thread blocks in recv exactly when it is  *)
(* below the top of that stack (or is the host and the stack is not        *)
(* empty), for the coroutine just above it.                                *)
(***************************************************************************)
EXTENDS Coroutines, FiniteSetTheorems, SequenceTheorems, TLAPS

-----------------------------------------------------------------------------
(* The control invariant.                                                  *)

ControlTypes ==
    /\ status \in [Cos -> GStatus] /\ start \in [Cos -> BOOLEAN]
    /\ curCo \in Seq(Cos)
    /\ thread \in [Cos -> Suspensions \cup {"none", "run", "done", "lost", "forgotten"}]
    /\ duty \in [Cos -> {"free", "yield", "unwind"}]
    /\ inbox \in [Cos -> {<<>>} \cup {<<r>> : r \in {"value", "throw", "return"}}]
    /\ outbox \in [Cos -> {<<>>} \cup {<<y>> : y \in {"await", "yielded", "returned", "threw"}}]
    /\ waiting \in [Threads -> Cos \cup {None}] /\ starting \in [Threads -> Cos \cup {None}]
    /\ pending \subseteq Cos /\ jobs \in Seq([co : Cos, resume : {"value", "throw"}])

\* The thread that called the i-th coroutine of cur_co.
Caller(i) == IF i = 1 THEN Host ELSE curCo[i - 1]

\* t waits for g in recv, or has set it going and will.
Calls(t, g) == \/ waiting[t] = g /\ starting[t] = None
               \/ waiting[t] = None /\ starting[t] = g

\* Where a coroutine can be: it runs, it is about to be resumed, it has handed
\* back, or nothing is on its way to or from it.
Runs(g)   == thread[g] = "run" /\ inbox[g] = <<>> /\ outbox[g] = <<>>
Called(g) == thread[g] \in Suspensions /\ inbox[g] # <<>> /\ outbox[g] = <<>>
Back(g)   == thread[g] \in Suspensions \cup {"done"} /\ inbox[g] = <<>> /\ outbox[g] # <<>>
Rests(g)  == thread[g] \notin {"run", "lost"} /\ inbox[g] = <<>> /\ outbox[g] = <<>>

Top        == curCo[Len(curCo)]
InChain(g) == \E i \in 1..Len(curCo) : curCo[i] = g
Started(g) == \E t \in Threads : starting[t] = g
InJobs(g)  == \E i \in 1..Len(jobs) : jobs[i].co = g

\* cur_co is the chain of calls.
Distinct   == \A i, j \in 1..Len(curCo) : curCo[i] = curCo[j] => i = j
Linked     == \A i \in 1..Len(curCo) : Calls(Caller(i), curCo[i])
FreeOthers == \A t \in Threads : (\A i \in 1..Len(curCo) : Caller(i) # t) =>
                 waiting[t] = None /\ starting[t] = None
TopIsBusy  == curCo # <<>> => Runs(Top) \/ Called(Top) \/ Back(Top)
BelowRuns  == \A i \in 1..Len(curCo) : i # Len(curCo) => Runs(curCo[i])
OthersRest == \A g \in Cos : ~InChain(g) => Rests(g)

ChainInv == Distinct /\ Linked /\ FreeOthers /\ TopIsBusy /\ BelowRuns /\ OthersRest

\* What the status of a generator says of its thread.
StatusOf(g) ==
    /\ status[g] = "Start" /\ ~Started(g) => thread[g] = "none" /\ start[g]
    /\ status[g] = "Suspended" /\ ~Started(g) =>
          thread[g] \in {"yield", "forgotten"} /\ ~InChain(g)
    /\ status[g] = "Running" => ~Started(g) /\ (InChain(g) \/ thread[g] \in {"await", "operand"})
    /\ status[g] = "Done" => thread[g] \in {"none", "done"} /\ ~InChain(g)

\* At an await a coroutine has one reaction, with the Promise or queued.
AwaitOf(g) ==
    /\ ~(g \in pending /\ InJobs(g))
    /\ g \in pending \/ InJobs(g) =>
          thread[g] \in {"await", "operand"} /\ inbox[g] = <<>> /\ outbox[g] = <<>>
    /\ thread[g] \in {"await", "operand"} /\ inbox[g] = <<>> /\ outbox[g] = <<>> =>
          g \in pending \/ InJobs(g)

\* What was handed back tells where the thread is.
MessageOf(g) ==
    /\ outbox[g] = <<"await">> => thread[g] \in {"await", "operand"}
    /\ outbox[g] = <<"yielded">> => thread[g] = "yield"
    /\ outbox[g] \in {<<"returned">>, <<"threw">>} => thread[g] = "done"

\* All of it; async functions do not yield, and generators do not await.
Sound(g) ==
    /\ g \in Generators \cup AsyncGens => StatusOf(g)
    /\ AwaitOf(g) /\ MessageOf(g)
    /\ g \in Generators => thread[g] \notin {"await", "operand"}
    /\ g \in AsyncFuncs => thread[g] \notin {"yield", "forgotten"}

OneJobEach == \A i, j \in 1..Len(jobs) : jobs[i].co = jobs[j].co => i = j

ControlInv == ControlTypes /\ ChainInv /\ OneJobEach /\ \A g \in Cos : Sound(g)

-----------------------------------------------------------------------------
(* Stacks.                                                                 *)

\* What a push leaves.
LEMMA Pushed ==
    ASSUME NEW S, NEW s \in Seq(S), NEW x \in S
    PROVE  /\ Append(s, x) \in Seq(S) /\ Len(Append(s, x)) = Len(s) + 1
           /\ \A i \in 1..Len(s) : Append(s, x)[i] = s[i]
           /\ Append(s, x)[Len(s) + 1] = x
  OBVIOUS

\* What a pop leaves (rt.cur_co.pop).
LEMMA Popped ==
    ASSUME NEW S, NEW s \in Seq(S), s # <<>>
    PROVE  /\ PopContext(s) \in Seq(S) /\ Len(PopContext(s)) = Len(s) - 1
           /\ \A i \in 1..Len(s)-1 : PopContext(s)[i] = s[i]
           /\ Len(s) \in Nat \ {0}
  <1> DEFINE t == SubSeq(s, 1, Len(s) - 1)
  <1>1. Len(s) \in Nat \ {0}
    OBVIOUS
  <1>2. 1 \in Int /\ Len(s) - 1 \in Int /\ \A i \in 1..(Len(s) - 1) : s[i] \in S
    BY <1>1
  <1>3. /\ t \in Seq(S)
        /\ Len(t) = IF 1 <= Len(s) - 1 THEN Len(s) - 1 - 1 + 1 ELSE 0
        /\ \A i \in 1..(Len(s) - 1 - 1 + 1) : t[i] = s[1 + i - 1]
    BY <1>2, SubSeqProperties
  <1>4. \A n \in Nat \ {0} : /\ (IF 1 <= n - 1 THEN n - 1 - 1 + 1 ELSE 0) = n - 1
                             /\ n - 1 - 1 + 1 = n - 1
    OBVIOUS
  <1> HIDE DEF t
  <1>5. Len(t) = Len(s) - 1
    BY <1>1, <1>3, <1>4
  <1>6. ASSUME NEW i \in 1..(Len(s) - 1)
        PROVE  t[i] = s[i]
    <2>1. i \in 1..(Len(s) - 1 - 1 + 1) /\ 1 + i - 1 = i
      BY <1>1, <1>4
    <2> QED
      BY <2>1, <1>3
  <1> QED
    BY <1>1, <1>3, <1>5, <1>6 DEF t, PopContext

\* Popping and pushing the same element changes nothing.
LEMMA Repushed ==
    ASSUME NEW S, NEW s \in Seq(S), s # <<>>
    PROVE  Append(PopContext(s), s[Len(s)]) = s
  <1> DEFINE r == Append(PopContext(s), s[Len(s)])
  <1>1. /\ PopContext(s) \in Seq(S) /\ Len(PopContext(s)) = Len(s) - 1
        /\ \A i \in 1..Len(s)-1 : PopContext(s)[i] = s[i]
        /\ Len(s) \in Nat \ {0}
    BY Popped
  <1>2. s[Len(s)] \in S
    BY <1>1
  <1>3. r \in Seq(S) /\ Len(r) = Len(s)
    BY <1>1, <1>2
  <1>4. \A i \in 1..Len(s) : r[i] = s[i]
    BY <1>1, <1>2
  <1> HIDE DEF r
  <1> QED
    BY <1>3, <1>4, SeqEqual DEF r

-----------------------------------------------------------------------------
(* The chain of calls.                                                     *)

\* A thread that executes JavaScript is on top of cur_co.
LEMMA ActiveIsTop ==
    ASSUME ControlTypes, ChainInv, NEW t \in Threads, Active(t)
    PROVE  /\ \A i \in 1..Len(curCo) : Caller(i) # t
           /\ IF curCo = <<>> THEN t = Host ELSE t = Top /\ t # Host /\ Runs(t)
  <1>1. \A i \in 1..Len(curCo) : Caller(i) # t
    BY CoroutinesAssumption DEF ControlTypes, ChainInv, Linked, Calls, Active, Threads
  <1>2. CASE t = Host
    <2>1. curCo # <<>> => 1 \in 1..Len(curCo)
      BY DEF ControlTypes
    <2>2. curCo = <<>>
      BY <1>1, <1>2, <2>1 DEF Caller
    <2> QED
      BY <1>1, <1>2, <2>2
  <1>3. CASE t # Host
    <2>1. t \in Cos /\ thread[t] = "run"
      BY <1>3 DEF Threads, Active
    <2>2. PICK j \in 1..Len(curCo) : curCo[j] = t
      BY <2>1 DEF ChainInv, OthersRest, Rests, InChain
    <2>3. j = Len(curCo)
      <3>1. SUFFICES ASSUME j # Len(curCo) PROVE FALSE
        OBVIOUS
      <3>2. j + 1 \in 1..Len(curCo) /\ Caller(j + 1) = t
        BY <2>2, <3>1 DEF Caller, ControlTypes
      <3> QED
        BY <1>1, <3>2
    <2>4. curCo # <<>>
      BY <2>2 DEF ControlTypes
    <2> QED
      BY <1>1, <1>3, <2>1, <2>2, <2>3, <2>4
         DEF Top, ChainInv, TopIsBusy, Runs, Called, Back, Suspensions
  <1> QED
    BY <1>2, <1>3

\* A thread that waits for a coroutine, or has set it going, is just below it.
LEMMA CallerIsBelow ==
    ASSUME ControlTypes, ChainInv, NEW t \in Threads, NEW g \in Cos,
           waiting[t] = g \/ starting[t] = g
    PROVE  \E i \in 1..Len(curCo) : Caller(i) = t /\ curCo[i] = g /\ Calls(t, g)
  <1>1. g # None
    BY CoroutinesAssumption DEF Threads
  <1>2. PICK i \in 1..Len(curCo) : Caller(i) = t
    BY <1>1 DEF ChainInv, FreeOthers
  <1>3. Calls(t, curCo[i])
    BY <1>2 DEF ChainInv, Linked
  <1>4. curCo[i] = g
    BY <1>1, <1>3 DEF Calls
  <1> QED
    BY <1>2, <1>3, <1>4

\* Nobody else calls it.
LEMMA OneCaller ==
    ASSUME ControlTypes, ChainInv, NEW t \in Threads, NEW u \in Threads, NEW g \in Cos,
           waiting[t] = g \/ starting[t] = g, waiting[u] = g \/ starting[u] = g
    PROVE  t = u /\ Calls(t, g)
  <1>1. PICK i \in 1..Len(curCo) : Caller(i) = t /\ curCo[i] = g /\ Calls(t, g)
    BY CallerIsBelow
  <1>2. PICK j \in 1..Len(curCo) : Caller(j) = u /\ curCo[j] = g
    BY CallerIsBelow
  <1>3. i = j
    BY <1>1, <1>2 DEF ChainInv, Distinct
  <1> QED
    BY <1>1, <1>2, <1>3

\* A coroutine with a message on its way is on top of cur_co.
LEMMA MessageIsTop ==
    ASSUME ControlTypes, ChainInv, NEW g \in Cos, inbox[g] # <<>> \/ outbox[g] # <<>>
    PROVE  curCo # <<>> /\ g = Top /\ InChain(g) /\ (Called(g) \/ Back(g))
  <1>1. PICK j \in 1..Len(curCo) : curCo[j] = g
    BY DEF ChainInv, OthersRest, Rests, InChain
  <1>2. j = Len(curCo)
    BY <1>1 DEF ChainInv, BelowRuns, Runs
  <1>3. curCo # <<>>
    BY <1>1 DEF ControlTypes
  <1> QED
    BY <1>1, <1>2, <1>3 DEF ChainInv, TopIsBusy, Top, InChain, Runs

-----------------------------------------------------------------------------
(* How a step moves the chain.                                             *)

\* Nothing happens to the thread of h and its channels.
Quiet(h) == thread'[h] = thread[h] /\ inbox'[h] = inbox[h] /\ outbox'[h] = outbox[h]

\* t calls g: it blocks in recv, or is about to.
Pushes(t, g) ==
    /\ Active(t) /\ ~InChain(g)
    /\ curCo' = Append(curCo, g)
    /\ \/ waiting' = [waiting EXCEPT ![t] = g] /\ starting' = starting
       \/ starting' = [starting EXCEPT ![t] = g] /\ waiting' = waiting
    /\ \A h \in Cos : h # g => Quiet(h)
    /\ Runs(g)' \/ Called(g)'

\* t takes the message of g and goes on.
Pops(t, g) ==
    /\ waiting[t] = g /\ Back(g)
    /\ curCo' = PopContext(curCo)
    /\ waiting' = [waiting EXCEPT ![t] = None] /\ starting' = starting
    /\ \A h \in Cos : h # g => Quiet(h)
    /\ Rests(g)'

\* The coroutine on top hands back, wakes, or is resumed again at once.
TopMoves(g) ==
    /\ g = Top /\ curCo # <<>>
    /\ UNCHANGED <<curCo, waiting, starting>>
    /\ \A h \in Cos : h # g => Quiet(h)
    /\ Runs(g)' \/ Called(g)' \/ Back(g)'

\* t blocks in recv for the coroutine it has set going.
Marks(t) ==
    /\ starting[t] # None
    /\ waiting' = [waiting EXCEPT ![t] = starting[t]]
    /\ starting' = [starting EXCEPT ![t] = None]
    /\ UNCHANGED <<curCo, thread, inbox, outbox>>

\* No call and no message.
Calms ==
    /\ UNCHANGED <<curCo, waiting, starting>>
    /\ \A h \in Cos : IF InChain(h) THEN Quiet(h) ELSE Rests(h)'

LEMMA PushKeepsChain ==
    ASSUME ControlTypes, ControlTypes', ChainInv, NEW t \in Threads, NEW g \in Cos, Pushes(t, g)
    PROVE  ChainInv' /\ \A h \in Cos : InChain(h)' <=> InChain(h) \/ h = g
  <1>0. PICK n \in Nat : n = Len(curCo)
    BY DEF ControlTypes
  <1>1. /\ Len(curCo') = n + 1 /\ curCo'[n + 1] = g
        /\ \A i \in 1..n : curCo'[i] = curCo[i]
    BY <1>0, Pushed DEF Pushes, ControlTypes
  <1>2. \A i \in 1..n : curCo[i] \in Cos /\ curCo[i] # g
    BY <1>0, <1>1 DEF Pushes, InChain, ControlTypes
  <1>3. /\ \A i \in 1..n : Caller(i) # t
        /\ IF curCo = <<>> THEN t = Host ELSE t = Top /\ t # Host /\ Runs(t)
    BY <1>0, ActiveIsTop DEF Pushes
  <1>4. waiting[t] = None /\ starting[t] = None /\ None \notin Threads /\ Host \notin Cos
    BY CoroutinesAssumption DEF Pushes, Active
  <1>5. curCo = <<>> <=> n = 0
    BY <1>0 DEF ControlTypes
  <1>6. Caller(n + 1)' = t
    <2>1. CASE n = 0
      BY <1>3, <1>5, <2>1 DEF Caller
    <2>2. CASE n # 0
      <3>1. n + 1 # 1 /\ n + 1 - 1 = n /\ n \in 1..n
        BY <1>0, <2>2
      <3> QED
        BY <1>0, <1>1, <1>3, <1>5, <2>2, <3>1 DEF Caller, Top
    <2> QED
      BY <2>1, <2>2
  <1>7. ASSUME NEW i \in 1..n
        PROVE  Caller(i)' = Caller(i) /\ Caller(i) \in Threads
    <2>1. i = 1 \/ i - 1 \in 1..n
      BY <1>1
    <2> QED
      BY <1>1, <1>2, <2>1 DEF Caller, Threads
  <1>8. \A u \in Threads : u # t => waiting'[u] = waiting[u] /\ starting'[u] = starting[u]
    BY DEF Pushes, ControlTypes
  <1>9. \/ waiting'[t] = g /\ starting'[t] = None
        \/ waiting'[t] = None /\ starting'[t] = g
    BY <1>4 DEF Pushes, ControlTypes
  <1>10. 1..Len(curCo') = (1..n) \cup {n + 1} /\ n + 1 \notin 1..n
    BY <1>0, <1>1
  <1>11. curCo' # <<>> /\ Top' = g
    BY <1>1, <1>10 DEF Top, ControlTypes
  <1>12. Distinct'
    BY <1>0, <1>1, <1>2, <1>10 DEF Distinct, ChainInv
  <1>13. Linked'
    <2>1. ASSUME NEW i \in 1..n
          PROVE  Calls(Caller(i), curCo[i])'
      <3>1. Calls(Caller(i), curCo[i]) /\ Caller(i) # t
        BY <1>0, <1>3, <2>1 DEF ChainInv, Linked
      <3> QED
        BY <1>1, <1>7, <1>8, <2>1, <3>1 DEF Calls
    <2>2. Calls(Caller(n + 1), curCo[n + 1])'
      BY <1>1, <1>6, <1>9 DEF Calls
    <2> QED
      BY <1>10, <2>1, <2>2 DEF Linked
  <1>14. FreeOthers'
    <2>1. SUFFICES ASSUME NEW u \in Threads, \A i \in 1..Len(curCo') : Caller(i)' # u
                   PROVE  waiting'[u] = None /\ starting'[u] = None
      BY DEF FreeOthers
    <2>2. u # t /\ \A i \in 1..n : Caller(i) # u
      BY <1>6, <1>7, <1>10, <2>1
    <2> QED
      BY <1>0, <1>8, <2>2 DEF ChainInv, FreeOthers
  <1>15. TopIsBusy'
    BY <1>11 DEF TopIsBusy, Pushes
  <1>16. BelowRuns'
    <2>1. SUFFICES ASSUME NEW i \in 1..n
                   PROVE  Runs(curCo[i])'
      BY <1>0, <1>1, <1>10 DEF BelowRuns
    <2>2. CASE i = n
      <3>1. n # 0
        BY <1>1, <2>1
      <3>2. Runs(curCo[i])
        BY <1>0, <1>3, <1>5, <2>2, <3>1 DEF Top
      <3> QED
        BY <1>1, <1>2, <3>2 DEF Runs, Pushes, Quiet
    <2>3. CASE i # n
      <3>1. Runs(curCo[i])
        BY <1>0, <2>3 DEF ChainInv, BelowRuns
      <3> QED
        BY <1>1, <1>2, <3>1 DEF Runs, Pushes, Quiet
    <2> QED
      BY <2>2, <2>3
  <1>17. \A h \in Cos : InChain(h)' <=> InChain(h) \/ h = g
    BY <1>0, <1>1, <1>10 DEF InChain
  <1>18. OthersRest'
    BY <1>17 DEF OthersRest, ChainInv, Pushes, Quiet, Rests
  <1> QED
    BY <1>12, <1>13, <1>14, <1>15, <1>16, <1>17, <1>18 DEF ChainInv

\* The coroutine whose message is taken is on top, and the taker just below it.
LEMMA TakenIsTop ==
    ASSUME ControlTypes, ChainInv, NEW t \in Threads, NEW g \in Cos,
           waiting[t] = g, outbox[g] # <<>>
    PROVE  /\ curCo # <<>> /\ g = Top /\ InChain(g) /\ Back(g) /\ starting[t] = None
           /\ Caller(Len(curCo)) = t /\ Len(curCo) \in Nat \ {0}
           /\ \A u \in Threads : starting[u] # g
  <1>1. curCo # <<>> /\ g = Top /\ InChain(g) /\ Back(g)
    BY MessageIsTop DEF Called
  <1>2. Len(curCo) \in Nat \ {0}
    BY <1>1 DEF ControlTypes
  <1>3. PICK i \in 1..Len(curCo) : Caller(i) = t /\ curCo[i] = g /\ Calls(t, g)
    BY CallerIsBelow
  <1>4. i = Len(curCo)
    BY <1>1, <1>2, <1>3 DEF ChainInv, Distinct, Top
  <1>5. g # None
    BY CoroutinesAssumption DEF Threads
  <1>6. starting[t] = None
    BY <1>3, <1>5 DEF Calls
  <1>7. ASSUME NEW u \in Threads, starting[u] = g
        PROVE  FALSE
    BY <1>5, <1>6, <1>7, OneCaller
  <1> QED
    BY <1>1, <1>2, <1>3, <1>4, <1>6, <1>7

LEMMA PopKeepsChain ==
    ASSUME ControlTypes, ControlTypes', ChainInv, NEW t \in Threads, NEW g \in Cos, Pops(t, g)
    PROVE  ChainInv' /\ \A h \in Cos : InChain(h)' <=> InChain(h) /\ h # g
  <1> DEFINE n == Len(curCo)
  <1>1. /\ curCo # <<>> /\ g = curCo[n] /\ starting[t] = None
        /\ Caller(n) = t /\ n \in Nat \ {0}
    BY TakenIsTop DEF Pops, Back, Top
  <1>2. Len(curCo') = n - 1 /\ \A i \in 1..n-1 : curCo'[i] = curCo[i]
    BY <1>1, Popped DEF Pops, ControlTypes
  <1>3. \A i \in 1..n-1 : curCo[i] \in Cos /\ curCo[i] # g
    <2>1. \A i \in 1..n-1 : i \in 1..n /\ i # n /\ n \in 1..n
      BY <1>1
    <2> QED
      BY <1>1, <2>1 DEF ControlTypes, ChainInv, Distinct
  <1>4. ASSUME NEW i \in 1..n-1
        PROVE  Caller(i)' = Caller(i) /\ Caller(i) # t /\ Caller(i) \in Threads
    <2>1. i \in 1..n /\ n \in 1..n /\ i # n /\ (i = 1 \/ i - 1 \in 1..n-1)
      BY <1>1
    <2>2. Caller(i)' = Caller(i) /\ Caller(i) \in Threads
      BY <1>2, <1>3, <2>1 DEF Caller, Threads
    <2>3. ASSUME Caller(i) = t
          PROVE  FALSE
      <3>1. Calls(t, curCo[i]) /\ Calls(t, curCo[n])
        BY <1>1, <2>1, <2>3 DEF ChainInv, Linked
      <3>2. None \notin Cos /\ curCo[i] \in Cos /\ g \in Cos
        BY <1>3, CoroutinesAssumption DEF Threads
      <3> QED
        BY <1>1, <1>3, <3>1, <3>2 DEF Calls
    <2> QED
      BY <2>2, <2>3
  <1>5. \A u \in Threads : u # t => waiting'[u] = waiting[u] /\ starting'[u] = starting[u]
    BY DEF Pops
  <1>6. waiting'[t] = None /\ starting'[t] = None
    BY <1>1 DEF Pops, ControlTypes
  <1>7. 1..Len(curCo') = 1..n-1 /\ 1..n = (1..n-1) \cup {n}
    BY <1>1, <1>2
  <1>8. Len(curCo') \in Nat /\ (curCo' # <<>> => n - 1 \in 1..n-1 /\ n - 1 \in 1..n /\ n - 1 # n)
    BY <1>1, <1>2 DEF ControlTypes
  <1> HIDE DEF n
  <1>9. Distinct'
    BY <1>2, <1>7 DEF Distinct, ChainInv, n
  <1>10. Linked'
    <2>1. ASSUME NEW i \in 1..n-1
          PROVE  Calls(Caller(i), curCo[i])'
      <3>1. Calls(Caller(i), curCo[i]) /\ Caller(i) # t
        BY <1>4, <1>7, <2>1 DEF ChainInv, Linked, n
      <3> QED
        BY <1>2, <1>4, <1>5, <2>1, <3>1 DEF Calls
    <2> QED
      BY <1>7, <2>1 DEF Linked
  <1>11. FreeOthers'
    <2>1. SUFFICES ASSUME NEW u \in Threads, \A i \in 1..Len(curCo') : Caller(i)' # u
                   PROVE  waiting'[u] = None /\ starting'[u] = None
      BY DEF FreeOthers
    <2>2. CASE u = t
      BY <1>6, <2>2
    <2>3. CASE u # t
      <3>1. \A i \in 1..n : Caller(i) # u
        BY <1>1, <1>4, <1>7, <2>1, <2>3
      <3> QED
        BY <1>5, <2>3, <3>1 DEF ChainInv, FreeOthers, n
    <2> QED
      BY <2>2, <2>3
  <1>12. ASSUME NEW i \in 1..n-1
         PROVE  Runs(curCo[i])'
    <2>1. i \in 1..n /\ i # n
      BY <1>1, <1>12
    <2>2. Runs(curCo[i])
      BY <2>1 DEF ChainInv, BelowRuns, n
    <2> QED
      BY <1>2, <1>3, <1>12, <2>2 DEF Runs, Pops, Quiet
  <1>13. TopIsBusy'
    BY <1>2, <1>8, <1>12 DEF TopIsBusy, Top
  <1>14. BelowRuns'
    BY <1>7, <1>12 DEF BelowRuns
  <1>15. \A h \in Cos : InChain(h)' <=> InChain(h) /\ h # g
    BY <1>1, <1>2, <1>3, <1>7 DEF InChain, n
  <1>16. OthersRest'
    BY <1>15 DEF OthersRest, ChainInv, Pops, Quiet, Rests
  <1> QED
    BY <1>9, <1>10, <1>11, <1>13, <1>14, <1>15, <1>16 DEF ChainInv

LEMMA TopMoveKeepsChain ==
    ASSUME ControlTypes, ControlTypes', ChainInv, NEW g \in Cos, TopMoves(g)
    PROVE  ChainInv' /\ \A h \in Cos : InChain(h)' <=> InChain(h)
  <1> DEFINE n == Len(curCo)
  <1>1. curCo' = curCo /\ waiting' = waiting /\ starting' = starting /\ Len(curCo') = n
    BY DEF TopMoves
  <1>2. n \in Nat \ {0} /\ g = curCo[n] /\ n \in 1..n /\ \A i \in 1..n : curCo[i] \in Cos
    BY DEF TopMoves, ControlTypes, Top
  <1>3. \A i \in 1..n : i # n => curCo[i] # g
    BY <1>2 DEF ChainInv, Distinct
  <1>4. Distinct' /\ Linked' /\ FreeOthers'
    <2>1. \A i : Caller(i)' = Caller(i)
      BY <1>1 DEF Caller
    <2> QED
      BY <1>1, <2>1 DEF Distinct, Linked, FreeOthers, Calls, ChainInv
  <1>5. TopIsBusy'
    BY <1>1 DEF TopIsBusy, TopMoves, Top
  <1>6. BelowRuns'
    BY <1>1, <1>2, <1>3 DEF BelowRuns, ChainInv, TopMoves, Quiet, Runs
  <1>7. \A h \in Cos : InChain(h)' <=> InChain(h)
    BY <1>1 DEF InChain
  <1>8. InChain(g)
    BY <1>2 DEF InChain
  <1>9. OthersRest'
    BY <1>7, <1>8 DEF OthersRest, ChainInv, TopMoves, Quiet, Rests
  <1> QED
    BY <1>4, <1>5, <1>6, <1>7, <1>9 DEF ChainInv

LEMMA MarkKeepsChain ==
    ASSUME ControlTypes, ControlTypes', ChainInv, NEW t \in Threads, Marks(t)
    PROVE  ChainInv' /\ \A h \in Cos : InChain(h)' <=> InChain(h)
  <1>1. /\ curCo' = curCo /\ thread' = thread /\ inbox' = inbox /\ outbox' = outbox
        /\ starting[t] \in Cos
    BY DEF Marks, ControlTypes
  <1>2. PICK k \in 1..Len(curCo) : Caller(k) = t /\ Calls(t, starting[t])
    BY <1>1, CallerIsBelow
  <1>3. waiting[t] = None
    BY <1>2, CoroutinesAssumption DEF Calls, Marks, Threads, ControlTypes
  <1>4. \A u \in Threads : u # t => waiting'[u] = waiting[u] /\ starting'[u] = starting[u]
    BY DEF Marks
  <1>5. waiting'[t] = starting[t] /\ starting'[t] = None
    BY DEF Marks, ControlTypes
  <1>6. \A i : Caller(i)' = Caller(i)
    BY <1>1 DEF Caller
  <1>7. Distinct' /\ TopIsBusy' /\ BelowRuns' /\ OthersRest'
    BY <1>1 DEF Distinct, TopIsBusy, BelowRuns, OthersRest, ChainInv, Top, Runs, Called, Back,
                Rests, InChain
  <1>8. Linked'
    <2>1. SUFFICES ASSUME NEW i \in 1..Len(curCo)
                   PROVE  Calls(Caller(i), curCo[i])'
      BY <1>1 DEF Linked
    <2>2. Calls(Caller(i), curCo[i]) /\ curCo[i] \in Cos
      BY DEF ChainInv, Linked, ControlTypes
    <2>3. Caller(i) \in Threads
      BY DEF Caller, ControlTypes, Threads
    <2> QED
      BY <1>1, <1>3, <1>4, <1>5, <1>6, <2>2, <2>3 DEF Calls, Marks
  <1>9. FreeOthers'
    BY <1>1, <1>2, <1>4, <1>6 DEF FreeOthers, ChainInv
  <1>10. \A h \in Cos : InChain(h)' <=> InChain(h)
    BY <1>1 DEF InChain
  <1> QED
    BY <1>7, <1>8, <1>9, <1>10 DEF ChainInv

LEMMA CalmKeepsChain ==
    ASSUME ControlTypes, ControlTypes', ChainInv, Calms
    PROVE  ChainInv' /\ \A h \in Cos : InChain(h)' <=> InChain(h)
  <1>1. curCo' = curCo /\ waiting' = waiting /\ starting' = starting
    BY DEF Calms
  <1>2. \A h \in Cos : InChain(h)' <=> InChain(h)
    BY <1>1 DEF InChain
  <1>3. \A i \in 1..Len(curCo) : Quiet(curCo[i])
    BY DEF Calms, InChain, ControlTypes
  <1>4. \A i : Caller(i)' = Caller(i)
    BY <1>1 DEF Caller
  <1>5. Distinct' /\ Linked' /\ FreeOthers'
    BY <1>1, <1>4 DEF Distinct, Linked, FreeOthers, Calls, ChainInv
  <1>6. curCo # <<>> => Len(curCo) \in 1..Len(curCo)
    BY DEF ControlTypes
  <1>7. TopIsBusy'
    BY <1>1, <1>3, <1>6 DEF TopIsBusy, ChainInv, Top, Runs, Called, Back, Quiet
  <1>8. BelowRuns'
    BY <1>1, <1>3 DEF BelowRuns, ChainInv, Runs, Quiet
  <1>9. OthersRest'
    BY <1>2 DEF OthersRest, Calms
  <1> QED
    BY <1>2, <1>5, <1>7, <1>8, <1>9 DEF ChainInv

-----------------------------------------------------------------------------
(* One step changes the state of one coroutine.                            *)

\* Where the coroutines of cur_co are.
LEMMA InChainIsBusy ==
    ASSUME ControlTypes, ChainInv, NEW g \in Cos, InChain(g)
    PROVE  Runs(g) \/ Called(g) \/ Back(g)
  <1>1. PICK i \in 1..Len(curCo) : curCo[i] = g
    BY DEF InChain
  <1>2. curCo # <<>>
    BY <1>1 DEF ControlTypes
  <1> QED
    BY <1>1, <1>2 DEF ChainInv, BelowRuns, TopIsBusy, Top

\* A coroutine that has been set going and not marked is on cur_co.
LEMMA StartedIsInChain ==
    ASSUME ControlTypes, ChainInv, NEW g \in Cos, Started(g)
    PROVE  InChain(g)
  <1>1. PICK t \in Threads : starting[t] = g
    BY DEF Started
  <1> QED
    BY <1>1, CallerIsBelow DEF InChain

\* The step leaves h as it was.
Kept(h) ==
    /\ Quiet(h) /\ status'[h] = status[h] /\ start'[h] = start[h]
    /\ InChain(h)' <=> InChain(h)
    /\ Started(h)' <=> Started(h)
    /\ h \in pending' <=> h \in pending
    /\ InJobs(h)' <=> InJobs(h)

LEMMA KeptIsSound ==
    ASSUME NEW h \in Cos, Sound(h), Kept(h)
    PROVE  Sound(h)'
  <1>1. StatusOf(h) => StatusOf(h)'
    BY DEF Kept, Quiet, StatusOf
  <1>2. AwaitOf(h)' /\ MessageOf(h)'
    BY DEF Kept, Quiet, Sound, AwaitOf, MessageOf
  <1> QED
    BY <1>1, <1>2 DEF Sound, Kept, Quiet

\* What an action that is about g has to keep.
LEMMA ControlStep ==
    ASSUME ControlInv, ControlTypes', ChainInv', OneJobEach', NEW g \in Cos,
           \A h \in Cos : h # g => Kept(h), Sound(g)'
    PROVE  ControlInv'
  <1>1. \A h \in Cos : Sound(h)'
    BY KeptIsSound DEF ControlInv
  <1> QED
    BY <1>1 DEF ControlInv

\* Who has been set going, when g is and when nobody else is.
LEMMA StartedByPush ==
    ASSUME ControlTypes, NEW t \in Threads, NEW g \in Cos, starting[t] = None,
           starting' = [starting EXCEPT ![t] = g]
    PROVE  Started(g)' /\ \A h \in Cos : h # g => (Started(h)' <=> Started(h))
  <1>1. starting'[t] = g /\ \A u \in Threads : u # t => starting'[u] = starting[u]
    BY DEF ControlTypes
  <1>2. None \notin Cos
    BY CoroutinesAssumption DEF Threads
  <1> QED
    BY <1>1, <1>2 DEF Started

LEMMA StartedSame ==
    ASSUME starting' = starting
    PROVE  \A h : Started(h)' <=> Started(h)
  BY DEF Started

LEMMA JobsSame ==
    ASSUME jobs' = jobs, ControlInv
    PROVE  OneJobEach' /\ \A h : InJobs(h)' <=> InJobs(h)
  BY DEF ControlInv, OneJobEach, InJobs

-----------------------------------------------------------------------------
(* Calls.                                                                  *)

\* call_async pushes a coroutine whose thread was not there.
LEMMA CallAsyncControl ==
    ASSUME ControlInv, NEW t \in Threads, NEW f \in Cos, CallAsync(t, f)
    PROVE  ControlInv' /\ Pushes(t, f) /\ UNCHANGED native
  <1>0. ControlTypes /\ ChainInv /\ Sound(f) /\ f \in AsyncFuncs
    BY DEF CallAsync, ControlInv
  <1>1. /\ Active(t) /\ thread[f] = "none"
        /\ thread' = [thread EXCEPT ![f] = "run"] /\ curCo' = Append(curCo, f)
        /\ waiting' = [waiting EXCEPT ![t] = f] /\ UNCHANGED <<starting, status, start>>
        /\ UNCHANGED <<duty, inbox, outbox, pending, jobs, native>>
    BY DEF CallAsync, Body, gens, chans
  <1>2. ~InChain(f)
    BY <1>0, <1>1, InChainIsBusy DEF Runs, Called, Back, Suspensions
  <1>3. inbox[f] = <<>> /\ outbox[f] = <<>>
    BY <1>0, <1>2 DEF ChainInv, OthersRest, Rests
  <1>4. ControlTypes'
    BY <1>0, <1>1 DEF ControlTypes
  <1>5. Pushes(t, f)
    BY <1>0, <1>1, <1>2, <1>3 DEF Pushes, Quiet, Runs, ControlTypes
  <1>6. ChainInv' /\ \A h \in Cos : InChain(h)' <=> InChain(h) \/ h = f
    BY <1>0, <1>4, <1>5, PushKeepsChain
  <1>7. /\ OneJobEach' /\ \A h : InJobs(h)' <=> InJobs(h)
        /\ \A h : Started(h)' <=> Started(h)
    BY <1>1, JobsSame, StartedSame
  <1>8. \A h \in Cos : h # f => Kept(h)
    BY <1>1, <1>5, <1>6, <1>7 DEF Kept, Pushes
  <1>9. Sound(f)'
    <2>1. f \notin Generators \cup AsyncGens
      BY <1>0, CoroutinesAssumption
    <2>2. f \notin pending /\ ~InJobs(f)
      BY <1>0, <1>1 DEF Sound, AwaitOf
    <2>3. thread'[f] = "run" /\ outbox'[f] = <<>>
      BY <1>0, <1>1, <1>3 DEF ControlTypes
    <2>4. AwaitOf(f)' /\ MessageOf(f)'
      BY <1>1, <1>7, <2>2, <2>3 DEF AwaitOf, MessageOf
    <2> QED
      BY <2>1, <2>3, <2>4 DEF Sound
  <1> QED
    BY <1>0, <1>1, <1>4, <1>5, <1>6, <1>7, <1>8, <1>9, ControlStep

\* A generator that nobody has set going, whatever it then gets from a call.
LEMMA GeneratorAtRest ==
    ASSUME ControlInv, NEW g \in Generators \cup AsyncGens, ~Started(g)
    PROVE  /\ g \in Cos /\ g \notin AsyncFuncs
           /\ status[g] = "Start" => thread[g] = "none" /\ start[g]
           /\ status[g] = "Suspended" => thread[g] \in {"yield", "forgotten"}
           /\ status[g] = "Done" => thread[g] \in {"none", "done"}
           /\ status[g] \in {"Start", "Suspended", "Done"} =>
                 /\ ~InChain(g) /\ inbox[g] = <<>> /\ outbox[g] = <<>>
                 /\ g \notin pending /\ ~InJobs(g)
  <1>1. g \in Cos /\ g \notin AsyncFuncs
    BY CoroutinesAssumption DEF Cos
  <1>2. ControlTypes /\ ChainInv /\ StatusOf(g) /\ AwaitOf(g)
    BY <1>1 DEF ControlInv, Sound
  <1>3. /\ status[g] = "Start" => thread[g] = "none" /\ start[g]
        /\ status[g] = "Suspended" => thread[g] \in {"yield", "forgotten"} /\ ~InChain(g)
        /\ status[g] = "Done" => thread[g] \in {"none", "done"} /\ ~InChain(g)
    BY <1>2 DEF StatusOf
  <1>4. ASSUME status[g] \in {"Start", "Suspended", "Done"}
        PROVE  /\ ~InChain(g) /\ inbox[g] = <<>> /\ outbox[g] = <<>>
               /\ g \notin pending /\ ~InJobs(g)
    <2>1. ~InChain(g)
      BY <1>1, <1>2, <1>3, <1>4, InChainIsBusy DEF Runs, Called, Back, Suspensions
    <2>2. inbox[g] = <<>> /\ outbox[g] = <<>>
      BY <1>1, <1>2, <2>1 DEF ChainInv, OthersRest, Rests
    <2>3. thread[g] \notin {"await", "operand"}
      BY <1>3, <1>4
    <2> QED
      BY <1>2, <2>1, <2>2, <2>3 DEF AwaitOf
  <1> QED
    BY <1>1, <1>3, <1>4

\* A call that reaches the body.
LEMMA CallKeepsControl ==
    ASSUME ControlInv, ControlTypes', NEW t \in Threads, NEW g \in Generators \cup AsyncGens,
           ~Started(g), status[g] \in {"Start", "Suspended"}, Pushes(t, g),
           UNCHANGED <<pending, jobs>>,
           \A h \in Cos : h # g => status'[h] = status[h] /\ start'[h] = start[h],
           IF starting' = starting THEN status'[g] = "Running" ELSE status'[g] = status[g],
           thread'[g] \in {"run", "yield"}
    PROVE  ControlInv'
  <1>0. ControlTypes /\ ChainInv /\ Sound(g) /\ g \in Cos /\ g \notin AsyncFuncs
    BY GeneratorAtRest DEF ControlInv
  <1>1. ChainInv' /\ \A h \in Cos : InChain(h)' <=> InChain(h) \/ h = g
    BY <1>0, PushKeepsChain
  <1>2. OneJobEach' /\ \A h : InJobs(h)' <=> InJobs(h)
    BY JobsSame
  <1>3. \A h \in Cos : h # g => (Started(h)' <=> Started(h))
    BY <1>0, StartedByPush, StartedSame DEF Pushes, Active
  <1>4. \A h \in Cos : h # g => Kept(h)
    BY <1>1, <1>2, <1>3 DEF Kept, Pushes
  <1>5. IF starting' = starting THEN ~Started(g)' ELSE Started(g)'
    BY <1>0, StartedByPush, StartedSame DEF Pushes, Active
  <1>6. StatusOf(g)'
    <2>1. status[g] \in {"Start", "Suspended"} /\ InChain(g)'
      BY <1>0, <1>1
    <2> QED
      BY <1>5, <2>1 DEF StatusOf
  <1>7. g \notin pending /\ ~InJobs(g)
    BY GeneratorAtRest
  <1>8. AwaitOf(g)' /\ MessageOf(g)'
    <2>1. outbox'[g] = <<>>
      BY DEF Pushes, Runs, Called
    <2>2. g \notin pending' /\ ~InJobs(g)'
      BY <1>2, <1>7
    <2> QED
      BY <2>1, <2>2 DEF AwaitOf, MessageOf
  <1>9. Sound(g)'
    BY <1>0, <1>6, <1>8 DEF Sound
  <1> QED
    BY <1>0, <1>1, <1>2, <1>4, <1>9, ControlStep

\* new_co spawns the thread of a generator.
LEMMA SpawnControl ==
    ASSUME ControlInv, NEW t \in Threads, NEW g \in Generators \cup AsyncGens,
           Active(t), ~Started(g), status[g] = "Start", Spawn(t, g, curCo),
           status' = status, start' = [start EXCEPT ![g] = FALSE],
           UNCHANGED <<duty, outbox, pending, jobs>>
    PROVE  ControlInv' /\ Pushes(t, g)
  <1>0. /\ ControlTypes /\ g \in Cos /\ ~InChain(g) /\ inbox[g] = <<>> /\ outbox[g] = <<>>
        /\ t \in Threads
    BY GeneratorAtRest DEF ControlInv
  <1>1. /\ thread' = [thread EXCEPT ![g] = "run"] /\ curCo' = Append(curCo, g)
        /\ starting' = [starting EXCEPT ![t] = g] /\ UNCHANGED <<inbox, waiting>>
    BY DEF Spawn
  <1>2. ControlTypes'
    BY <1>0, <1>1 DEF ControlTypes
  <1>3. Pushes(t, g)
    BY <1>0, <1>1 DEF Pushes, Quiet, Runs, ControlTypes
  <1>4. starting' # starting
    <2>1. starting[t] = None /\ starting'[t] = g /\ g # None
      BY <1>0, <1>1, CoroutinesAssumption DEF ControlTypes, Threads, Active
    <2> QED
      BY <2>1
  <1>5. thread'[g] = "run" /\ \A h \in Cos : h # g => status'[h] = status[h] /\ start'[h] = start[h]
    BY <1>0, <1>1 DEF ControlTypes
  <1> QED
    BY <1>2, <1>3, <1>4, <1>5, CallKeepsControl

\* to_co.send to a body that is suspended at a yield; the status is set before
\* (agen_drive) or after (gen_resume).
LEMMA SendControl ==
    ASSUME ControlInv, NEW t \in Threads, NEW g \in Generators \cup AsyncGens,
           NEW r \in {"value", "throw", "return"},
           Active(t), ~Started(g), status[g] = "Suspended", thread[g] # "forgotten",
           curCo' = Append(curCo, g), inbox' = [inbox EXCEPT ![g] = Append(@, r)],
           \/ /\ waiting' = [waiting EXCEPT ![t] = g] /\ UNCHANGED starting
              /\ status' = [status EXCEPT ![g] = "Running"]
           \/ /\ starting' = [starting EXCEPT ![t] = g] /\ UNCHANGED waiting
              /\ UNCHANGED status,
           UNCHANGED <<start, thread, duty, outbox, pending, jobs>>
    PROVE  ControlInv' /\ Pushes(t, g)
  <1>0. /\ ControlTypes /\ g \in Cos /\ ~InChain(g) /\ inbox[g] = <<>> /\ outbox[g] = <<>>
        /\ t \in Threads /\ thread[g] = "yield"
    BY GeneratorAtRest DEF ControlInv
  <1>1. Append(inbox[g], r) = <<r>> /\ <<r>> # <<>>
    BY <1>0
  <1>2. inbox' = [inbox EXCEPT ![g] = <<r>>]
    BY <1>1
  <1>3. ControlTypes'
    <2>1. inbox' \in [Cos -> {<<>>} \cup {<<q>> : q \in {"value", "throw", "return"}}]
      BY <1>0, <1>2 DEF ControlTypes
    <2>2. status' \in [Cos -> GStatus]
      BY <1>0 DEF ControlTypes, GStatus
    <2>3. curCo' \in Seq(Cos)
      BY <1>0, Pushed DEF ControlTypes
    <2>4. waiting' \in [Threads -> Cos \cup {None}]
      BY <1>0 DEF ControlTypes
    <2>5. starting' \in [Threads -> Cos \cup {None}]
      BY <1>0 DEF ControlTypes
    <2> QED
      BY <1>0, <2>1, <2>2, <2>3, <2>4, <2>5 DEF ControlTypes
  <1>4. Pushes(t, g)
    BY <1>0, <1>1, <1>2 DEF Pushes, Quiet, Called, ControlTypes, Suspensions
  <1>5. starting[t] = None /\ g # None
    BY <1>0, CoroutinesAssumption DEF Threads, Active
  <1>6. IF starting' = starting THEN status'[g] = "Running" ELSE status'[g] = status[g]
    BY <1>0, <1>5 DEF ControlTypes
  <1>7. \A h \in Cos : h # g => status'[h] = status[h] /\ start'[h] = start[h]
    BY <1>0 DEF ControlTypes
  <1> QED
    BY <1>0, <1>3, <1>4, <1>6, <1>7, CallKeepsControl

\* A generator that never ran is done at once, or stays as it was.
LEMMA NeverRanControl ==
    ASSUME ControlInv, NEW g \in Generators \cup AsyncGens, ~Started(g),
           status[g] \in {"Start", "Done"},
           status' = [status EXCEPT ![g] = "Done"],
           start' \in [Cos -> BOOLEAN], \A h \in Cos : h # g => start'[h] = start[h],
           UNCHANGED <<curCo, thread, inbox, waiting, starting, duty, outbox, pending, jobs>>
    PROVE  ControlInv' /\ Calms
  <1>0. /\ ControlTypes /\ ChainInv /\ Sound(g) /\ g \in Cos /\ ~InChain(g)
        /\ thread[g] \in {"none", "done"} /\ g \notin pending /\ ~InJobs(g) /\ g \notin AsyncFuncs
        /\ inbox[g] = <<>> /\ outbox[g] = <<>>
    BY GeneratorAtRest DEF ControlInv
  <1>1. ControlTypes'
    BY <1>0 DEF ControlTypes, GStatus
  <1>2. Calms
    BY <1>0 DEF Calms, Quiet, ChainInv, OthersRest, Rests
  <1>3. ChainInv' /\ \A h \in Cos : InChain(h)' <=> InChain(h)
    BY <1>0, <1>1, <1>2, CalmKeepsChain
  <1>4. OneJobEach' /\ \A h : InJobs(h)' <=> InJobs(h)
    BY JobsSame
  <1>5. \A h : Started(h)' <=> Started(h)
    BY StartedSame
  <1>6. \A h \in Cos : h # g => Kept(h)
    BY <1>0, <1>3, <1>4, <1>5 DEF Kept, Quiet, ControlTypes
  <1>7. Sound(g)'
    <2>1. status'[g] = "Done"
      BY <1>0 DEF ControlTypes
    <2>2. StatusOf(g)'
      BY <1>0, <1>3, <2>1 DEF StatusOf
    <2>3. AwaitOf(g)' /\ MessageOf(g)'
      BY <1>0, <1>4 DEF AwaitOf, MessageOf
    <2> QED
      BY <1>0, <2>2, <2>3 DEF Sound
  <1> QED
    BY <1>0, <1>1, <1>2, <1>3, <1>4, <1>6, <1>7, ControlStep

-----------------------------------------------------------------------------
(* Requests, answers and continuations keep their types.                   *)

AnswerRecord == [gen : AsyncGens, id : 1..MaxRequests, done : BOOLEAN, ok : BOOLEAN]

DataTypes ==
    /\ queue \in [Cos -> Seq(Request)]
    /\ ready \in [Threads -> Seq(1..MaxNative)] /\ parked \in Seq(1..MaxNative)
    /\ asked \in 0..MaxRequests
    /\ answers \in Seq(AnswerRecord)
    /\ steps \in 0..MaxSteps

\* Taking the first request off.
LEMMA PopTypes ==
    ASSUME NEW q \in Seq(Request)
    PROVE  Pop(q) \in Seq(Request)
  BY HeadTailProperties DEF Pop

\* Answering the first request.
LEMMA AnswerTypes ==
    ASSUME DataTypes, NEW g \in AsyncGens, NEW done \in BOOLEAN, NEW ok \in BOOLEAN
    PROVE  Answer(g, done, ok) \in Seq(AnswerRecord)
  <1>1. queue[g] \in Seq(Request) /\ answers \in Seq(AnswerRecord)
    BY DEF DataTypes, Cos
  <1>2. CASE queue[g] # <<>>
    <2>1. Head(queue[g]) \in Request
      BY <1>1, <1>2
    <2>2. Head(queue[g]).id \in 1..MaxRequests
      BY <2>1 DEF Request
    <2>3. [gen |-> g, id |-> Head(queue[g]).id, done |-> done, ok |-> ok] \in AnswerRecord
      BY <2>2 DEF AnswerRecord
    <2> QED
      BY <1>1, <1>2, <2>3 DEF Answer
  <1> QED
    BY <1>1, <1>2 DEF Answer

\* What a generator that is done says to each request.
FinishedAll(g, q) == [i \in 1..Len(q) |-> Finished(g, q[i])]

LEMMA FinishedTypes ==
    ASSUME NEW g \in AsyncGens, NEW q \in Seq(Request)
    PROVE  /\ FinishedAll(g, q) \in Seq(AnswerRecord) /\ Len(FinishedAll(g, q)) = Len(q)
           /\ \A i \in 1..Len(q) : FinishedAll(g, q)[i] = Finished(g, q[i])
  <1>1. ASSUME NEW i \in 1..Len(q)
        PROVE  Finished(g, q[i]) \in AnswerRecord
    <2>1. q[i] \in Request
      OBVIOUS
    <2>2. q[i].id \in 1..MaxRequests
      BY <2>1 DEF Request
    <2>3. \E b \in BOOLEAN : b = (q[i].req # "throw")
      OBVIOUS
    <2> QED
      BY <2>2, <2>3 DEF Finished, AnswerRecord
  <1>2. Len(q) \in Nat
    OBVIOUS
  <1>3. FinishedAll(g, q) \in [1..Len(q) -> AnswerRecord]
    BY <1>1 DEF FinishedAll
  <1> QED
    BY <1>2, <1>3, IsASeq DEF FinishedAll

\* agen_drive keeps them.
LEMMA DriveTypes ==
    ASSUME DataTypes, NEW t, NEW g \in AsyncGens, NEW st, NEW q \in Seq(Request),
           NEW log \in Seq(AnswerRecord), NEW stack, Drive(t, g, st, q, log, stack)
    PROVE  queue' \in [Cos -> Seq(Request)] /\ answers' \in Seq(AnswerRecord)
  <1>1. queue' = [queue EXCEPT ![g] = q] \/ queue' = [queue EXCEPT ![g] = <<>>]
    BY DEF Drive
  <1>2. answers' = log \/ answers' = log \o FinishedAll(g, q)
    BY DEF Drive, FinishedAll
  <1>3. queue' \in [Cos -> Seq(Request)]
    <2>1. <<>> \in Seq(Request)
      OBVIOUS
    <2> QED
      BY <1>1, <2>1 DEF DataTypes
  <1>4. answers' \in Seq(AnswerRecord)
    <2>1. FinishedAll(g, q) \in Seq(AnswerRecord)
      BY FinishedTypes
    <2>2. log \o FinishedAll(g, q) \in Seq(AnswerRecord)
      BY <2>1, ConcatProperties
    <2> QED
      BY <1>2, <2>2
  <1> QED
    BY <1>3, <1>4

LEMMA StepTypes ==
    ASSUME DataTypes, NEW t, Step(t), t # Host /\ duty[t] = "free" => steps < MaxSteps
    PROVE  steps' \in 0..MaxSteps
  BY CoroutinesAssumption DEF DataTypes, Step

\* Adopting what is parked.
LEMMA AdoptTypes ==
    ASSUME DataTypes, NEW t \in Threads, Adopt(t)
    PROVE  ready' \in [Threads -> Seq(1..MaxNative)] /\ parked' \in Seq(1..MaxNative)
  <1>1. ready[t] \o parked \in Seq(1..MaxNative)
    BY DEF DataTypes
  <1> QED
    BY <1>1 DEF DataTypes, Adopt

LEMMA DataInit == Init => DataTypes
  <1> SUFFICES ASSUME Init PROVE DataTypes
    OBVIOUS
  <1>1. queue \in [Cos -> Seq(Request)]
    BY DEF Init
  <1>2. ready \in [Threads -> Seq(1..MaxNative)] /\ parked \in Seq(1..MaxNative)
    BY DEF Init
  <1>3. answers \in Seq(AnswerRecord)
    BY DEF Init
  <1> QED
    BY <1>1, <1>2, <1>3, CoroutinesAssumption DEF Init, DataTypes

\* What the actions do to the data.
LEMMA CallKeepsData ==
    ASSUME DataTypes, NEW t \in Threads, NEW g \in Cos,
           CallAsync(t, g) \/ \E req \in Reqs : Enqueue(t, g, req) \/ GenResume(t, g, req)
    PROVE  DataTypes'
  <1>1. CASE CallAsync(t, g)
    <2>1. steps' \in 0..MaxSteps
      BY <1>1, StepTypes DEF CallAsync, Body
    <2> QED
      BY <1>1, <2>1 DEF CallAsync, gens, native, DataTypes
  <1>2. ASSUME NEW req \in Reqs, Enqueue(t, g, req)
        PROVE  DataTypes'
    <2>1. steps' \in 0..MaxSteps
      BY <1>2, StepTypes DEF Enqueue, Callable, Body
    <2>2. asked' \in 1..MaxRequests
      BY <1>2, CoroutinesAssumption DEF Enqueue, Callable, DataTypes
    <2> DEFINE new == [req |-> req, id |-> asked']
    <2>3. new \in Request
      BY <2>2 DEF Request
    <2>4. g \in AsyncGens /\ queue[g] \in Seq(Request)
      BY <1>2 DEF Enqueue, DataTypes
    <2> HIDE DEF new
    <2>5. Append(queue[g], new) \in Seq(Request)
      BY <2>3, <2>4
    <2>6. Drive(t, g, status[g], Append(queue[g], new), answers, curCo)
      BY <1>2 DEF Enqueue, new
    <2>7. queue' \in [Cos -> Seq(Request)] /\ answers' \in Seq(AnswerRecord)
      BY <2>4, <2>5, <2>6, DriveTypes DEF DataTypes
    <2> QED
      BY <1>2, <2>1, <2>2, <2>7 DEF Enqueue, native, DataTypes
  <1>3. ASSUME NEW req \in Reqs, GenResume(t, g, req)
        PROVE  DataTypes'
    <2>1. steps' \in 0..MaxSteps
      BY <1>3, StepTypes DEF GenResume, Callable, Body
    <2>2. asked' \in 0..MaxRequests
      BY <1>3, CoroutinesAssumption DEF GenResume, Callable, DataTypes
    <2> QED
      BY <1>3, <2>1, <2>2 DEF GenResume, native, DataTypes
  <1> QED
    BY <1>1, <1>2, <1>3

LEMMA LeaveKeepsData ==
    ASSUME DataTypes, NEW g \in Cos, AwaitValue(g) \/ AwaitOperand(g) \/ YieldRaw(g) \/ Finish(g)
    PROVE  DataTypes'
  <1>1. PICK y, at : Leave(g, y, at)
    BY DEF AwaitValue, AwaitOperand, YieldRaw, Finish
  <1>2. Step(g) \/ UNCHANGED steps
    BY DEF AwaitValue, AwaitOperand, YieldRaw, Finish
  <1>3. UNCHANGED <<queue, asked, answers>> /\ HandBack(g, y)
    BY <1>1 DEF Leave, gens
  <1>4. parked \o ready[g] \in Seq(1..MaxNative)
    BY DEF DataTypes, Threads
  <1>5. ready' \in [Threads -> Seq(1..MaxNative)] /\ parked' \in Seq(1..MaxNative)
    <2>1. <<>> \in Seq(1..MaxNative)
      OBVIOUS
    <2>2. ready' \in [Threads -> Seq(1..MaxNative)]
      BY <1>3, <2>1 DEF HandBack, DataTypes
    <2> QED
      BY <1>3, <1>4, <2>2 DEF HandBack
  <1>6. steps' \in 0..MaxSteps
    <2>1. CASE UNCHANGED steps
      BY <2>1 DEF DataTypes
    <2>2. CASE Step(g)
      <3>1. duty[g] = "free" => steps < MaxSteps \/ UNCHANGED steps
        BY CoroutinesAssumption DEF AwaitValue, AwaitOperand, YieldRaw, Finish, Body, Threads
      <3> QED
        BY <2>1, <2>2, <3>1, StepTypes
    <2> QED
      BY <1>2, <2>1, <2>2
  <1> QED
    BY <1>3, <1>5, <1>6 DEF DataTypes

LEMMA ReceiveKeepsData ==
    ASSUME DataTypes, NEW t \in Threads, NEW g \in Cos,
           ReceiveAwait(t, g) \/ ReceiveYielded(t, g) \/ ReceiveDone(t, g)
    PROVE  DataTypes'
  <1>1. PICK y : Receive(t, g, y)
    BY DEF ReceiveAwait, ReceiveYielded, ReceiveDone
  <1>2. /\ ready' \in [Threads -> Seq(1..MaxNative)] /\ parked' \in Seq(1..MaxNative)
        /\ UNCHANGED <<asked, steps>>
    BY <1>1, AdoptTypes DEF Receive
  <1>3. queue[g] \in Seq(Request) /\ Pop(queue[g]) \in Seq(Request)
    BY PopTypes DEF DataTypes
  <1>4. queue' \in [Cos -> Seq(Request)] /\ answers' \in Seq(AnswerRecord)
    <2>1. CASE UNCHANGED <<queue, answers>>
      BY <2>1 DEF DataTypes
    <2>2. CASE g \in AsyncGens /\ AgenYielded(t, g)
      <3>1. Answer(g, FALSE, TRUE) \in Seq(AnswerRecord)
        BY <2>2, AnswerTypes
      <3> QED
        BY <1>3, <2>2, <3>1, DriveTypes DEF AgenYielded
    <2>3. ASSUME NEW z, g \in AsyncGens, AgenDone(t, g, z = "returned")
          PROVE  queue' \in [Cos -> Seq(Request)] /\ answers' \in Seq(AnswerRecord)
      <3>1. PICK b \in BOOLEAN : b = (z = "returned")
        OBVIOUS
      <3>2. Answer(g, TRUE, b) \in Seq(AnswerRecord)
        BY <2>3, AnswerTypes
      <3>3. AgenDone(t, g, b)
        BY <2>3, <3>1
      <3> QED
        BY <1>3, <2>3, <3>2, <3>3, DriveTypes DEF AgenDone
    <2> QED
      BY <2>1, <2>2, <2>3 DEF ReceiveAwait, ReceiveYielded, ReceiveDone, gens
  <1> QED
    BY <1>2, <1>4 DEF DataTypes

LEMMA DataStep == DataTypes /\ [Next]_vars => DataTypes'
  <1> SUFFICES ASSUME DataTypes, [Next]_vars PROVE DataTypes'
    OBVIOUS
  <1>1. CASE Call
    BY <1>1, CallKeepsData DEF Call
  <1>2. CASE Suspend
    BY <1>2, LeaveKeepsData DEF Suspend
  <1>3. CASE \E t \in Threads, g \in Cos :
                 ReceiveAwait(t, g) \/ ReceiveYielded(t, g) \/ ReceiveDone(t, g)
    BY <1>3, ReceiveKeepsData
  <1>4. CASE UNCHANGED <<queue, native, asked, answers, steps>>
    BY <1>4 DEF DataTypes, native
  <1>5. ASSUME NEW g \in Cos, SettleNative(g)
        PROVE  DataTypes'
    <2>1. PICK n \in 1..MaxNative : ready' = [ready EXCEPT ![g] = Append(@, n)]
      BY <1>5 DEF SettleNative
    <2>2. Append(ready[g], n) \in Seq(1..MaxNative)
      BY DEF DataTypes, Threads
    <2>3. ready' \in [Threads -> Seq(1..MaxNative)]
      BY <2>1, <2>2 DEF DataTypes
    <2>4. steps' \in 0..MaxSteps
      BY <1>5, StepTypes DEF SettleNative, Body
    <2> QED
      BY <1>5, <2>3, <2>4 DEF SettleNative, gens, DataTypes
  <1>6. CASE UNCHANGED vars
    BY <1>4, <1>6 DEF vars, gens
  <1>7. ASSUME NEW t \in Threads, NEW g \in Cos,
               Mark(t) \/ Resume(g) \/ Settle(t, g) \/ RunJob \/ Forget(g)
        PROVE  DataTypes'
    BY <1>4, <1>7 DEF Mark, Resume, Settle, RunJob, Forget, gens
  <1> QED
    <2>1. Host \in Threads
      BY DEF Threads
    <2>2. CASE HandOff
      <3>1. CASE \E t \in Threads : Mark(t)
        BY <1>4, <3>1 DEF Mark
      <3> QED
        BY <1>3, <1>7, <2>1, <2>2, <3>1 DEF HandOff
    <2>3. CASE RunJob
      BY <1>4, <2>3 DEF RunJob, gens
    <2> QED
      BY <1>1, <1>2, <1>5, <1>6, <1>7, <2>1, <2>2, <2>3 DEF Next, SettleAny

\* A step that touches neither the threads nor what they wait for.
LEMMA CalmControl ==
    ASSUME ControlInv,
           UNCHANGED <<status, start, curCo, thread, duty, inbox, outbox, waiting, starting,
                       pending, jobs>>
    PROVE  ControlInv' /\ Calms
  <1>1. ControlTypes' /\ OneJobEach'
    BY DEF ControlInv, ControlTypes, OneJobEach
  <1>2. Calms
    BY DEF ControlInv, Calms, Quiet, ChainInv, OthersRest, Rests
  <1>3. ChainInv' /\ \A h \in Cos : InChain(h)' <=> InChain(h)
    BY <1>1, <1>2, CalmKeepsChain DEF ControlInv
  <1>4. \A h \in Cos : Kept(h)
    BY <1>3 DEF Kept, Quiet, Started, InJobs
  <1> QED
    BY <1>1, <1>2, <1>3, <1>4, KeptIsSound DEF ControlInv

\* How a request moves the chain.
CallMoves(t, g) == (Pushes(t, g) \/ Calms) /\ UNCHANGED native

\* agen_enqueue: the request starts the body, resumes it, or waits.
LEMMA EnqueueControl ==
    ASSUME ControlInv, DataTypes, ~EarlyCalls, NEW t \in Threads, NEW g \in Cos, NEW req \in Reqs,
           Enqueue(t, g, req)
    PROVE  ControlInv' /\ CallMoves(t, g)
  <1> DEFINE q == Append(queue[g], [req |-> req, id |-> asked'])
             s == IF status[g] = "Start" /\ q # <<>> /\ Head(q).req # "next"
                  THEN "Done" ELSE status[g]
  <1>1. /\ g \in Generators \cup AsyncGens /\ Active(t) /\ ~Started(g) /\ thread[g] # "forgotten"
        /\ Drive(t, g, status[g], q, answers, curCo)
        /\ UNCHANGED <<duty, outbox, pending, jobs, native>>
    BY DEF Enqueue, Callable, Body, Started
  <1>2. ControlTypes /\ waiting[t] = None /\ start[g] \in BOOLEAN
    BY <1>1 DEF ControlInv, ControlTypes, Active
  <1>3. ASSUME GoOn(t, curCo)
        PROVE  UNCHANGED <<curCo, waiting, thread, starting, inbox>>
    BY <1>2, <1>3 DEF GoOn, ControlTypes
  <1>4. s \in {status[g], "Done"} /\ (s # status[g] => status[g] = "Start")
    OBVIOUS
  <1>5. CASE /\ Busy(s) \/ q = <<>>
             /\ status' = [status EXCEPT ![g] = s]
             /\ start' = start /\ GoOn(t, curCo)
    <2>1. CASE s = status[g]
      <3>1. status' = status
        BY <1>2, <1>5, <2>1 DEF ControlTypes
      <3> QED
        BY <1>1, <1>3, <1>5, <3>1, CalmControl DEF CallMoves
    <2>2. CASE s # status[g]
      <3>1. s = "Done" /\ status[g] = "Start"
        BY <1>4, <2>2
      <3>2. start' \in [Cos -> BOOLEAN] /\ \A h \in Cos : h # g => start'[h] = start[h]
        BY <1>2, <1>5 DEF ControlTypes
      <3>3. status[g] \in {"Start", "Done"} /\ status' = [status EXCEPT ![g] = "Done"]
        BY <1>5, <3>1
      <3> QED
        BY <1>1, <1>3, <1>5, <3>2, <3>3, NeverRanControl DEF CallMoves
    <2> QED
      BY <2>1, <2>2
  <1>6. CASE /\ s = "Done" /\ status' = [status EXCEPT ![g] = s]
             /\ start' = [start EXCEPT ![g] = @ /\ status[g] # "Start"]
             /\ GoOn(t, curCo)
    <2>1. start' \in [Cos -> BOOLEAN] /\ \A h \in Cos : h # g => start'[h] = start[h]
      <3>1. (start[g] /\ status[g] # "Start") \in BOOLEAN
        BY <1>2
      <3> QED
        BY <1>2, <1>6, <3>1 DEF ControlTypes
    <2>2. status[g] \in {"Start", "Done"}
      BY <1>4, <1>6
    <2>3. status' = [status EXCEPT ![g] = "Done"]
      BY <1>6
    <2> QED
      BY <1>1, <1>3, <1>6, <2>1, <2>2, <2>3, NeverRanControl DEF CallMoves
  <1>7. ASSUME s = "Start"
        PROVE  status[g] = "Start" /\ start[g] /\ status = [status EXCEPT ![g] = s]
    <2>1. status[g] = "Start"
      BY <1>7
    <2> QED
      BY <1>1, <1>2, <1>7, <2>1, GeneratorAtRest DEF ControlTypes
  <1>8. CASE /\ s = "Start" /\ start' = [start EXCEPT ![g] = FALSE]
             /\ status' = [status EXCEPT ![g] = s] /\ Spawn(t, g, curCo)
    BY <1>1, <1>7, <1>8, SpawnControl DEF CallMoves
  <1>9. CASE /\ s = "Start" /\ start' = [start EXCEPT ![g] = FALSE]
             /\ status' = [status EXCEPT ![g] = "Done"] /\ GoOn(t, curCo)
    <2>1. start' \in [Cos -> BOOLEAN] /\ \A h \in Cos : h # g => start'[h] = start[h]
      BY <1>2, <1>9 DEF ControlTypes
    <2> QED
      BY <1>1, <1>3, <1>7, <1>9, <2>1, NeverRanControl DEF CallMoves
  <1>10. CASE /\ s \in {"Suspended", "Running"} /\ ~Busy(s)
              /\ status' = [status EXCEPT ![g] = "Running"] /\ start' = start
              /\ CoStep(t, g, ResumeOf(Head(q).req), curCo)
    <2>1. status[g] = "Suspended"
      BY <1>4, <1>10 DEF Busy
    <2>2. ResumeOf(Head(q).req) \in {"value", "throw", "return"}
      <3>1. Head(q).req \in Reqs
        <4>1. queue[g] \in Seq(Request) /\ asked' \in 1..MaxRequests
          BY CoroutinesAssumption DEF Enqueue, Callable, DataTypes
        <4> DEFINE new == [req |-> req, id |-> asked']
        <4>2. new \in Request
          BY <4>1 DEF Request
        <4> HIDE DEF new
        <4>3. Append(queue[g], new) \in Seq(Request) /\ Append(queue[g], new) # <<>>
          BY <4>1, <4>2
        <4>4. Head(Append(queue[g], new)) \in Request
          BY <4>3
        <4> QED
          BY <4>4 DEF new, Request
      <3> QED
        BY <3>1 DEF ResumeOf, Reqs
    <2> QED
      BY <1>1, <1>10, <2>1, <2>2, SendControl DEF CallMoves, CoStep
  <1> QED
    BY <1>1, <1>5, <1>6, <1>7, <1>8, <1>9, <1>10 DEF Drive

\* gen_resume: the request starts the body, resumes it, or is refused or
\* answered at once.
LEMMA GenResumeControl ==
    ASSUME ControlInv, ~EarlyCalls, NEW t \in Threads, NEW g \in Cos, NEW req \in Reqs,
           GenResume(t, g, req)
    PROVE  ControlInv' /\ CallMoves(t, g)
  <1>1. /\ g \in Generators \cup AsyncGens /\ Active(t) /\ ~Started(g) /\ thread[g] # "forgotten"
        /\ UNCHANGED <<duty, outbox, pending, jobs, native>>
    BY DEF GenResume, Callable, Body, Started
  <1>2. ControlTypes
    BY DEF ControlInv
  <1>3. CASE UNCHANGED <<status, start, curCo, thread, inbox, starting, waiting>>
    BY <1>1, <1>3, CalmControl DEF CallMoves
  <1>4. ASSUME status[g] = "Start"
        PROVE  start[g]
    BY <1>1, <1>4, GeneratorAtRest
  <1>5. ASSUME start' = [start EXCEPT ![g] = FALSE]
        PROVE  start' \in [Cos -> BOOLEAN] /\ \A h \in Cos : h # g => start'[h] = start[h]
    BY <1>2, <1>5 DEF ControlTypes
  <1>6. CASE /\ status[g] = "Start" /\ status' = [status EXCEPT ![g] = "Done"]
             /\ start' = [start EXCEPT ![g] = FALSE]
             /\ UNCHANGED <<curCo, thread, inbox, starting, waiting>>
    BY <1>1, <1>5, <1>6, NeverRanControl DEF CallMoves
  <1>7. CASE /\ status[g] = "Start" /\ start' = [start EXCEPT ![g] = FALSE]
             /\ UNCHANGED status /\ Spawn(t, g, curCo)
    BY <1>1, <1>7, SpawnControl DEF CallMoves
  <1>8. CASE /\ status[g] = "Suspended" /\ curCo' = Append(curCo, g)
             /\ inbox' = [inbox EXCEPT ![g] = Append(@, ResumeOf(req))]
             /\ starting' = [starting EXCEPT ![t] = g]
             /\ UNCHANGED <<status, start, thread, waiting>>
    <2>1. ResumeOf(req) \in {"value", "throw", "return"}
      BY DEF ResumeOf, Reqs
    <2> QED
      BY <1>1, <1>8, <2>1, SendControl DEF CallMoves
  <1> QED
    BY <1>3, <1>4, <1>6, <1>7, <1>8 DEF GenResume

\* The caller stores the status and blocks in recv.
LEMMA MarkControl ==
    ASSUME ControlInv, NEW t \in Threads, Mark(t)
    PROVE  ControlInv' /\ Marks(t) /\ UNCHANGED native
  <1>0. PICK g \in Cos : g = starting[t]
    BY DEF Mark, ControlInv, ControlTypes
  <1>1. ControlTypes /\ ChainInv /\ Sound(g)
    BY DEF ControlInv
  <1>2. /\ status' = [status EXCEPT ![g] = "Running"] /\ waiting' = [waiting EXCEPT ![t] = g]
        /\ starting' = [starting EXCEPT ![t] = None]
        /\ UNCHANGED <<start, curCo, thread, duty, inbox, outbox, pending, jobs, native>>
    BY <1>0 DEF Mark, chans
  <1>3. Marks(t)
    BY <1>0, <1>2 DEF Mark, Marks
  <1>4. ControlTypes'
    BY <1>1, <1>2 DEF ControlTypes, GStatus
  <1>5. ChainInv' /\ \A h \in Cos : InChain(h)' <=> InChain(h)
    BY <1>1, <1>3, <1>4, MarkKeepsChain
  <1>6. OneJobEach' /\ \A h : InJobs(h)' <=> InJobs(h)
    BY <1>2, JobsSame
  <1>7. /\ starting'[t] = None /\ \A u \in Threads : u # t => starting'[u] = starting[u]
        /\ None \notin Cos
    BY <1>1, <1>2, CoroutinesAssumption DEF ControlTypes, Threads
  <1>8. \A u \in Threads : u # t => starting[u] # g
    BY <1>0, <1>1, OneCaller
  <1>9. \A h \in Cos : h # g => (Started(h)' <=> Started(h))
    BY <1>0, <1>7 DEF Started
  <1>10. Started(g) /\ ~Started(g)'
    BY <1>0, <1>7, <1>8 DEF Started
  <1>11. InChain(g)
    BY <1>1, <1>10, StartedIsInChain
  <1>12. \A h \in Cos : h # g => Kept(h)
    BY <1>1, <1>2, <1>5, <1>6, <1>9 DEF Kept, Quiet, ControlTypes
  <1>13. Sound(g)'
    <2>1. status'[g] = "Running"
      BY <1>1, <1>2 DEF ControlTypes
    <2>2. StatusOf(g)'
      BY <1>5, <1>10, <1>11, <2>1 DEF StatusOf
    <2>3. AwaitOf(g)' /\ MessageOf(g)'
      BY <1>1, <1>2, <1>6 DEF Sound, AwaitOf, MessageOf
    <2> QED
      BY <1>1, <1>2, <2>2, <2>3 DEF Sound
  <1> QED
    BY <1>1, <1>2, <1>3, <1>4, <1>5, <1>6, <1>12, <1>13, ControlStep

\* A step of the coroutine on top that calls nobody.
LEMMA TopControl ==
    ASSUME ControlInv, ControlTypes', NEW g \in Cos, TopMoves(g),
           UNCHANGED <<start, pending, jobs>>,
           \A h \in Cos : h # g => status'[h] = status[h],
           status'[g] # status[g] => ~Started(g) /\ status'[g] = "Running",
           MessageOf(g)',
           g \in Generators => thread'[g] \notin {"await", "operand"},
           g \in AsyncFuncs => thread'[g] \notin {"yield", "forgotten"}
    PROVE  ControlInv'
  <1>1. ControlTypes /\ ChainInv /\ Sound(g)
    BY DEF ControlInv
  <1>2. ChainInv' /\ \A h \in Cos : InChain(h)' <=> InChain(h)
    BY <1>1, TopMoveKeepsChain
  <1>3. OneJobEach' /\ \A h : InJobs(h)' <=> InJobs(h)
    BY JobsSame
  <1>4. \A h : Started(h)' <=> Started(h)
    BY StartedSame DEF TopMoves
  <1>5. \A h \in Cos : h # g => Kept(h)
    BY <1>1, <1>2, <1>3, <1>4 DEF Kept, TopMoves
  <1>6. InChain(g) /\ (Runs(g) \/ Called(g) \/ Back(g))
    <2>1. Len(curCo) \in 1..Len(curCo)
      BY <1>1 DEF TopMoves, ControlTypes
    <2> QED
      BY <1>1, <2>1 DEF TopMoves, Top, InChain, ChainInv, TopIsBusy
  <1>7. ASSUME g \in Generators \cup AsyncGens
        PROVE  StatusOf(g)'
    <2>1. StatusOf(g)
      BY <1>1, <1>7 DEF Sound
    <2>2. thread[g] # "none"
      BY <1>6 DEF Runs, Called, Back, Suspensions
    <2>3. status[g] # "Done" /\ (Started(g) \/ status[g] \notin {"Start", "Suspended"})
      BY <1>6, <2>1, <2>2 DEF StatusOf
    <2>4. InChain(g)' /\ (Started(g)' <=> Started(g))
      BY <1>2, <1>4, <1>6
    <2> QED
      BY <2>1, <2>3, <2>4 DEF StatusOf
  <1>8. g \notin pending' /\ ~InJobs(g)'
    <2>1. g \notin pending /\ ~InJobs(g)
      BY <1>1, <1>6 DEF Sound, AwaitOf, Runs, Called, Back
    <2> QED
      BY <1>3, <2>1
  <1>9. AwaitOf(g)'
    BY <1>8 DEF AwaitOf, TopMoves, Runs, Called, Back
  <1> QED
    BY <1>1, <1>2, <1>3, <1>5, <1>7, <1>9, ControlStep DEF Sound

-----------------------------------------------------------------------------
(* Hand-over.                                                              *)

\* A body hands back.
LEMMA LeaveControl ==
    ASSUME ControlInv, NEW g \in Cos, NEW y, NEW at, Active(g), Leave(g, y, at),
           \/ y = "await" /\ at \in {"await", "operand"} /\ g \notin Generators
           \/ y = "yielded" /\ at = "yield" /\ g \notin AsyncFuncs
           \/ y \in {"returned", "threw"} /\ at = "done"
    PROVE  ControlInv' /\ TopMoves(g) /\ Runs(g) /\ HandBack(g, y)
  <1>0. ControlTypes /\ ChainInv /\ g \in Threads /\ g # Host
    BY CoroutinesAssumption DEF ControlInv, Threads
  <1>1. curCo # <<>> /\ g = Top /\ Runs(g)
    BY <1>0, ActiveIsTop
  <1>2. /\ thread' = [thread EXCEPT ![g] = at] /\ duty' = [duty EXCEPT ![g] = "free"]
        /\ outbox' = [outbox EXCEPT ![g] = <<y>>]
        /\ UNCHANGED <<status, start, curCo, inbox, waiting, starting, pending, jobs>>
    <2>1. Append(outbox[g], y) = <<y>>
      BY <1>1 DEF Runs
    <2> QED
      BY <2>1 DEF Leave, HandBack, gens
  <1>3. ControlTypes'
    <2>1. outbox' \in [Cos -> {<<>>} \cup {<<z>> : z \in {"await", "yielded", "returned", "threw"}}]
      BY <1>0, <1>2 DEF ControlTypes
    <2>2. thread' \in [Cos -> Suspensions \cup {"none", "run", "done", "lost", "forgotten"}]
      BY <1>0, <1>2 DEF ControlTypes, Suspensions
    <2> QED
      BY <1>0, <1>2, <2>1, <2>2 DEF ControlTypes
  <1>4. thread'[g] = at /\ outbox'[g] = <<y>> /\ inbox'[g] = <<>>
    BY <1>0, <1>1, <1>2 DEF ControlTypes, Runs
  <1>5. TopMoves(g)
    BY <1>0, <1>1, <1>2, <1>4 DEF TopMoves, Quiet, Back, ControlTypes, Suspensions
  <1>6. MessageOf(g)'
    BY <1>4 DEF MessageOf
  <1>7. ControlInv'
    BY <1>2, <1>3, <1>4, <1>5, <1>6, TopControl
  <1> QED
    BY <1>1, <1>5, <1>7 DEF Leave

LEMMA SuspendControl ==
    ASSUME ControlInv, NEW g \in Cos, AwaitValue(g) \/ AwaitOperand(g) \/ YieldRaw(g) \/ Finish(g)
    PROVE  ControlInv' /\ TopMoves(g) /\ Runs(g) /\ \E y : HandBack(g, y)
  <1>1. g \in AsyncFuncs \cup AsyncGens => g \notin Generators
    BY CoroutinesAssumption
  <1>2. g \in Generators \cup AsyncGens => g \notin AsyncFuncs
    BY CoroutinesAssumption
  <1>3. CASE AwaitValue(g)
    BY <1>1, <1>3, LeaveControl DEF AwaitValue
  <1>4. CASE AwaitOperand(g)
    BY <1>1, <1>4, LeaveControl DEF AwaitOperand, Body
  <1>5. CASE YieldRaw(g)
    BY <1>2, <1>5, LeaveControl DEF YieldRaw
  <1>6. CASE Finish(g)
    BY <1>6, LeaveControl DEF Finish
  <1> QED
    BY <1>3, <1>4, <1>5, <1>6

\* from_host.recv returns.
LEMMA ResumeControl ==
    ASSUME ControlInv, NEW g \in Cos, Resume(g)
    PROVE  ControlInv' /\ TopMoves(g) /\ Called(g) /\ Runs(g)' /\ UNCHANGED native
  <1>0. ControlTypes /\ ChainInv
    BY DEF ControlInv
  <1>1. curCo # <<>> /\ g = Top /\ Called(g)
    BY <1>0, MessageIsTop DEF Resume, Back
  <1>2. PICK r \in {"value", "throw", "return"} : inbox[g] = <<r>>
    BY <1>0, <1>1 DEF ControlTypes, Called
  <1>3. PICK d \in {"free", "yield", "unwind"} : duty' = [duty EXCEPT ![g] = d]
    BY DEF Resume
  <1>4. /\ inbox' = [inbox EXCEPT ![g] = <<>>] /\ thread' = [thread EXCEPT ![g] = "run"]
        /\ UNCHANGED <<status, start, curCo, outbox, waiting, starting, pending, jobs, native>>
    <2>1. Tail(inbox[g]) = <<>>
      BY <1>2
    <2> QED
      BY <2>1 DEF Resume, gens
  <1>5. ControlTypes'
    BY <1>0, <1>3, <1>4 DEF ControlTypes
  <1>6. thread'[g] = "run" /\ inbox'[g] = <<>> /\ outbox'[g] = <<>>
    BY <1>0, <1>1, <1>4 DEF ControlTypes, Called
  <1>7. TopMoves(g)
    BY <1>0, <1>1, <1>4, <1>6 DEF TopMoves, Quiet, Runs, ControlTypes
  <1>8. MessageOf(g)'
    BY <1>6 DEF MessageOf
  <1>9. ControlInv'
    BY <1>4, <1>5, <1>6, <1>7, <1>8, TopControl
  <1> QED
    BY <1>1, <1>4, <1>6, <1>7, <1>9 DEF Runs

-----------------------------------------------------------------------------
(* recv returns in the caller.                                             *)

\* What the receiver of g's message finds.
LEMMA Received ==
    ASSUME ControlInv, NEW t \in Threads, NEW g \in Cos, NEW y, Receive(t, g, y)
    PROVE  /\ curCo # <<>> /\ g = Top /\ InChain(g) /\ Back(g) /\ starting[t] = None
           /\ waiting[t] = g /\ ~Started(g) /\ outbox[g] = <<y>>
           /\ outbox' = [outbox EXCEPT ![g] = <<>>]
           /\ Adopt(t) /\ UNCHANGED <<duty, asked, steps>>
           /\ Caller(Len(curCo)) = t
           /\ g \notin pending /\ ~InJobs(g)
           /\ g \in Generators \cup AsyncGens => status[g] = "Running"
           /\ y = "await" => thread[g] \in {"await", "operand"}
           /\ y = "yielded" => thread[g] = "yield"
           /\ y \in {"returned", "threw"} => thread[g] = "done"
  <1>0. ControlTypes /\ ChainInv /\ Sound(g)
    BY DEF ControlInv
  <1>1. /\ waiting[t] = g /\ outbox[g] # <<>> /\ Head(outbox[g]) = y
        /\ outbox' = [outbox EXCEPT ![g] = Tail(@)]
        /\ Adopt(t) /\ UNCHANGED <<duty, asked, steps>>
    BY DEF Receive
  <1>2. /\ curCo # <<>> /\ g = Top /\ InChain(g) /\ Back(g) /\ starting[t] = None
        /\ Caller(Len(curCo)) = t /\ ~Started(g)
    BY <1>0, <1>1, TakenIsTop DEF Started
  <1>3. outbox[g] = <<y>> /\ Tail(outbox[g]) = <<>>
    <2>1. PICK z \in {"await", "yielded", "returned", "threw"} : outbox[g] = <<z>>
      BY <1>0, <1>1 DEF ControlTypes
    <2> QED
      BY <1>1, <2>1
  <1>4. g \notin pending /\ ~InJobs(g)
    BY <1>0, <1>1 DEF Sound, AwaitOf
  <1>5. ASSUME g \in Generators \cup AsyncGens
        PROVE  status[g] = "Running"
    <2>1. StatusOf(g) /\ status[g] \in GStatus /\ thread[g] # "none"
      BY <1>0, <1>2, <1>5 DEF Sound, ControlTypes, Back, Suspensions
    <2> QED
      BY <1>2, <2>1 DEF StatusOf, GStatus
  <1>6. /\ y = "await" => thread[g] \in {"await", "operand"}
        /\ y = "yielded" => thread[g] = "yield"
        /\ y \in {"returned", "threw"} => thread[g] = "done"
    BY <1>0, <1>3 DEF Sound, MessageOf
  <1> QED
    BY <1>1, <1>2, <1>3, <1>4, <1>5, <1>6

\* The caller goes on with its own code.
LEMMA GoOnControl ==
    ASSUME ControlInv, NEW t \in Threads, NEW g \in Cos, NEW y, Receive(t, g, y),
           GoOn(t, PopContext(curCo)),
           status' \in [Cos -> GStatus], start' \in [Cos -> BOOLEAN],
           \A h \in Cos : h # g => status'[h] = status[h] /\ start'[h] = start[h],
           g \in Generators \cup AsyncGens =>
              CASE thread[g] = "yield" -> status'[g] = "Suspended"
                [] thread[g] = "done"  -> status'[g] = "Done"
                [] OTHER               -> status'[g] = status[g],
           pending' \subseteq Cos, jobs' \in Seq([co : Cos, resume : {"value", "throw"}]),
           OneJobEach',
           \A h \in Cos : h # g => (h \in pending' <=> h \in pending) /\ (InJobs(h)' <=> InJobs(h)),
           ~(g \in pending' /\ InJobs(g)'),
           thread[g] \in {"await", "operand"} <=> g \in pending' \/ InJobs(g)'
    PROVE  ControlInv' /\ Pops(t, g)
  <1>0. ControlTypes /\ ChainInv /\ Sound(g)
    BY DEF ControlInv
  <1>1. /\ curCo # <<>> /\ g = Top /\ InChain(g) /\ Back(g) /\ starting[t] = None
        /\ waiting[t] = g /\ ~Started(g)
        /\ outbox' = [outbox EXCEPT ![g] = <<>>] /\ UNCHANGED duty
    BY Received
  <1>2. /\ curCo' = PopContext(curCo) /\ waiting' = [waiting EXCEPT ![t] = None]
        /\ UNCHANGED <<thread, starting, inbox>>
    BY DEF GoOn
  <1>3. curCo' \in Seq(Cos)
    BY <1>0, <1>1, <1>2, Popped DEF ControlTypes
  <1>4. ControlTypes'
    BY <1>0, <1>1, <1>2, <1>3 DEF ControlTypes
  <1>5. inbox'[g] = <<>> /\ outbox'[g] = <<>>
    BY <1>0, <1>1, <1>2 DEF ControlTypes, Back
  <1>6. Pops(t, g)
    BY <1>0, <1>1, <1>2, <1>5 DEF Pops, Quiet, Rests, Back, ControlTypes, Suspensions
  <1>7. ChainInv' /\ \A h \in Cos : InChain(h)' <=> InChain(h) /\ h # g
    BY <1>0, <1>4, <1>6, PopKeepsChain
  <1>8. \A h : Started(h)' <=> Started(h)
    BY <1>2, StartedSame
  <1>9. \A h \in Cos : h # g => Kept(h)
    BY <1>6, <1>7, <1>8 DEF Kept, Pops
  <1>10. Sound(g)'
    <2>1. ~InChain(g)' /\ ~Started(g)'
      BY <1>1, <1>7, <1>8
    <2>2. ASSUME g \in Generators \cup AsyncGens
          PROVE  StatusOf(g)'
      <3>1. status[g] = "Running"
        BY <2>2, Received
      <3>2. thread[g] \in {"await", "operand", "yield", "done"}
        BY <1>1 DEF Back, Suspensions
      <3> QED
        BY <1>2, <2>1, <2>2, <3>1, <3>2 DEF StatusOf
    <2>3. AwaitOf(g)'
      BY <1>2, <1>5 DEF AwaitOf
    <2>4. MessageOf(g)'
      BY <1>5 DEF MessageOf
    <2> QED
      BY <1>0, <1>2, <2>2, <2>3, <2>4 DEF Sound
  <1> QED
    BY <1>0, <1>4, <1>6, <1>7, <1>9, <1>10, ControlStep

\* How the receiver of g's message goes on: it pops g, or resumes it at once.
ReceiveMoves(t, g) ==
    /\ Pops(t, g) \/ (TopMoves(g) /\ waiting[t] = g /\ Back(g) /\ outbox'[g] = <<>>)
    /\ Adopt(t)

\* promise_then of co_wait.
LEMMA ReceiveAwaitControl ==
    ASSUME ControlInv, NEW t \in Threads, NEW g \in Cos, ReceiveAwait(t, g)
    PROVE  ControlInv' /\ ReceiveMoves(t, g)
  <1>0. ControlTypes /\ ChainInv /\ Sound(g) /\ OneJobEach
    BY DEF ControlInv
  <1>1. /\ Receive(t, g, "await") /\ GoOn(t, PopContext(curCo))
        /\ UNCHANGED <<status, start>>
    BY DEF ReceiveAwait, gens
  <1>2. g \notin pending /\ ~InJobs(g) /\ thread[g] \in {"await", "operand"} /\ Adopt(t)
    BY <1>1, Received
  <1>3. status' \in [Cos -> GStatus] /\ start' \in [Cos -> BOOLEAN]
    BY <1>0, <1>1 DEF ControlTypes
  <1>4. \A h \in Cos : h # g => status'[h] = status[h] /\ start'[h] = start[h]
    BY <1>1
  <1>5. CASE pending' = pending \cup {g} /\ jobs' = jobs
    <2>1. OneJobEach' /\ \A h : InJobs(h)' <=> InJobs(h)
      BY <1>5, JobsSame
    <2>2. pending' \subseteq Cos /\ jobs' \in Seq([co : Cos, resume : {"value", "throw"}])
      BY <1>0, <1>5 DEF ControlTypes
    <2>3. /\ \A h \in Cos : h # g => (h \in pending' <=> h \in pending) /\ (InJobs(h)' <=> InJobs(h))
          /\ ~(g \in pending' /\ InJobs(g)')
          /\ thread[g] \in {"await", "operand"} <=> g \in pending' \/ InJobs(g)'
      BY <1>2, <1>5, <2>1
    <2>4. ControlInv' /\ Pops(t, g)
      BY <1>1, <1>2, <1>3, <1>4, <2>1, <2>2, <2>3, GoOnControl
    <2> QED
      BY <1>2, <2>4 DEF ReceiveMoves
  <1>6. ASSUME pending' = pending, NEW r \in {"value", "throw"},
               jobs' = Append(jobs, [co |-> g, resume |-> r])
        PROVE  ControlInv' /\ ReceiveMoves(t, g)
    <2> DEFINE job == [co |-> g, resume |-> r]
    <2>1. job \in [co : Cos, resume : {"value", "throw"}] /\ job.co = g
      OBVIOUS
    <2> HIDE DEF job
    <2>2. jobs \in Seq([co : Cos, resume : {"value", "throw"}]) /\ Len(jobs) \in Nat
      BY <1>0 DEF ControlTypes
    <2>3. /\ jobs' \in Seq([co : Cos, resume : {"value", "throw"}])
          /\ Len(jobs') = Len(jobs) + 1 /\ jobs'[Len(jobs) + 1] = job
          /\ \A i \in 1..Len(jobs) : jobs'[i] = jobs[i]
      BY <1>6, <2>1, <2>2, Pushed DEF job
    <2>4. 1..Len(jobs') = (1..Len(jobs)) \cup {Len(jobs) + 1}
      BY <2>2, <2>3
    <2>5. \A h \in Cos : InJobs(h)' <=> InJobs(h) \/ h = g
      BY <2>1, <2>3, <2>4 DEF InJobs
    <2>6. OneJobEach'
      BY <1>0, <1>2, <2>1, <2>3, <2>4 DEF OneJobEach, InJobs
    <2>7. pending' \subseteq Cos
      BY <1>0, <1>6 DEF ControlTypes
    <2>8. /\ \A h \in Cos : h # g => (h \in pending' <=> h \in pending) /\ (InJobs(h)' <=> InJobs(h))
          /\ ~(g \in pending' /\ InJobs(g)')
          /\ thread[g] \in {"await", "operand"} <=> g \in pending' \/ InJobs(g)'
      BY <1>2, <1>6, <2>5
    <2>9. ControlInv' /\ Pops(t, g)
      BY <1>1, <1>2, <1>3, <1>4, <2>3, <2>6, <2>7, <2>8, GoOnControl
    <2> QED
      BY <1>2, <2>9 DEF ReceiveMoves
  <1> QED
    BY <1>5, <1>6 DEF ReceiveAwait

\* No reaction is added or taken.
LEMMA GoOnWithoutJobs ==
    ASSUME ControlInv, NEW t \in Threads, NEW g \in Cos, NEW y \in {"yielded", "returned", "threw"},
           Receive(t, g, y), GoOn(t, PopContext(curCo)), UNCHANGED <<start, pending, jobs>>,
           NEW st \in {"Suspended", "Done"}, y = "yielded" <=> st = "Suspended",
           status' = [status EXCEPT ![g] = st]
    PROVE  ControlInv' /\ ReceiveMoves(t, g)
  <1>0. ControlTypes
    BY DEF ControlInv
  <1>1. /\ g \notin pending /\ ~InJobs(g) /\ Adopt(t)
        /\ thread[g] = IF st = "Suspended" THEN "yield" ELSE "done"
    BY Received
  <1>2. /\ status' \in [Cos -> GStatus] /\ status'[g] = st
        /\ \A h \in Cos : h # g => status'[h] = status[h] /\ start'[h] = start[h]
    BY <1>0 DEF ControlTypes, GStatus
  <1>3. OneJobEach' /\ \A h : InJobs(h)' <=> InJobs(h)
    BY JobsSame
  <1>4. /\ start' \in [Cos -> BOOLEAN] /\ pending' \subseteq Cos
        /\ jobs' \in Seq([co : Cos, resume : {"value", "throw"}])
    BY <1>0 DEF ControlTypes
  <1>5. /\ \A h \in Cos : h # g => (h \in pending' <=> h \in pending) /\ (InJobs(h)' <=> InJobs(h))
        /\ ~(g \in pending' /\ InJobs(g)')
        /\ thread[g] \in {"await", "operand"} <=> g \in pending' \/ InJobs(g)'
    BY <1>1, <1>3
  <1>6. ControlInv' /\ Pops(t, g)
    BY <1>1, <1>2, <1>3, <1>4, <1>5, GoOnControl
  <1> QED
    BY <1>1, <1>6 DEF ReceiveMoves

\* agen_yielded: the next request resumes the body again at once.
LEMMA ResumeAgainControl ==
    ASSUME ControlInv, NEW t \in Threads, NEW g \in AsyncGens, NEW r \in {"value", "throw", "return"},
           Receive(t, g, "yielded"), CoStep(t, g, r, PopContext(curCo)),
           status' = [status EXCEPT ![g] = "Running"], UNCHANGED <<start, pending, jobs>>
    PROVE  ControlInv' /\ ReceiveMoves(t, g)
  <1>0. ControlTypes /\ g \in Cos /\ g \notin Generators /\ g \notin AsyncFuncs
    BY CoroutinesAssumption DEF ControlInv, Cos
  <1>1. /\ curCo # <<>> /\ g = Top /\ Back(g) /\ waiting[t] = g /\ ~Started(g)
        /\ outbox' = [outbox EXCEPT ![g] = <<>>] /\ UNCHANGED duty /\ Adopt(t)
        /\ thread[g] = "yield"
    BY <1>0, Received
  <1>2. curCo' = curCo
    <2>1. curCo' = Append(PopContext(curCo), curCo[Len(curCo)])
      BY <1>1 DEF CoStep, Top
    <2> QED
      BY <1>0, <1>1, <2>1, Repushed DEF ControlTypes
  <1>3. /\ waiting' = waiting /\ starting' = starting /\ thread' = thread
        /\ inbox' = [inbox EXCEPT ![g] = <<r>>]
    <2>1. Append(inbox[g], r) = <<r>>
      BY <1>1 DEF Back
    <2>2. waiting' = [waiting EXCEPT ![t] = waiting[t]]
      BY <1>1 DEF CoStep
    <2>3. waiting' = waiting
      BY <1>0, <2>2 DEF ControlTypes
    <2> QED
      BY <2>1, <2>3 DEF CoStep
  <1>4. ControlTypes'
    <2>1. inbox' \in [Cos -> {<<>>} \cup {<<q>> : q \in {"value", "throw", "return"}}]
      BY <1>0, <1>3 DEF ControlTypes
    <2>2. status' \in [Cos -> GStatus]
      BY <1>0 DEF ControlTypes, GStatus
    <2> QED
      BY <1>0, <1>1, <1>2, <1>3, <2>1, <2>2 DEF ControlTypes
  <1>5. inbox'[g] = <<r>> /\ outbox'[g] = <<>> /\ <<r>> # <<>>
    BY <1>0, <1>1, <1>3 DEF ControlTypes
  <1>6. TopMoves(g)
    BY <1>0, <1>1, <1>2, <1>3, <1>5 DEF TopMoves, Quiet, Called, ControlTypes, Suspensions
  <1>7. MessageOf(g)'
    BY <1>5 DEF MessageOf
  <1>8. status'[g] = "Running" /\ \A h \in Cos : h # g => status'[h] = status[h]
    BY <1>0 DEF ControlTypes
  <1>9. ControlInv'
    BY <1>0, <1>1, <1>3, <1>4, <1>6, <1>7, <1>8, TopControl
  <1> QED
    BY <1>1, <1>5, <1>6, <1>9 DEF ReceiveMoves

LEMMA ReceiveYieldedControl ==
    ASSUME ControlInv, DataTypes, NEW t \in Threads, NEW g \in Cos, ReceiveYielded(t, g)
    PROVE  ControlInv' /\ ReceiveMoves(t, g)
  <1>1. Receive(t, g, "yielded") /\ UNCHANGED <<pending, jobs>>
    BY DEF ReceiveYielded
  <1>2. CASE g \notin AsyncGens
    BY <1>1, <1>2, GoOnWithoutJobs DEF ReceiveYielded
  <1>3. CASE g \in AsyncGens
    <2> DEFINE q == Pop(queue[g])
               log == Answer(g, FALSE, TRUE)
    <2>1. Drive(t, g, "Suspended", q, log, PopContext(curCo))
      BY <1>3 DEF ReceiveYielded, AgenYielded
    <2>2. q \in Seq(Request)
      BY <1>3, PopTypes DEF DataTypes
    <2> HIDE DEF q, log
    <2>3. CASE /\ status' = [status EXCEPT ![g] = "Suspended"] /\ start' = start
               /\ GoOn(t, PopContext(curCo))
      BY <1>1, <2>3, GoOnWithoutJobs
    <2>4. CASE /\ status' = [status EXCEPT ![g] = "Running"] /\ start' = start /\ q # <<>>
               /\ CoStep(t, g, ResumeOf(Head(q).req), PopContext(curCo))
      <3>1. Head(q) \in Request
        BY <2>2, <2>4
      <3>2. ResumeOf(Head(q).req) \in {"value", "throw", "return"}
        BY <3>1 DEF Request, ResumeOf, Reqs
      <3> QED
        BY <1>1, <1>3, <2>4, <3>2, ResumeAgainControl
    <2> QED
      BY <2>1, <2>3, <2>4 DEF Drive
  <1> QED
    BY <1>2, <1>3

LEMMA ReceiveDoneControl ==
    ASSUME ControlInv, NEW t \in Threads, NEW g \in Cos, ReceiveDone(t, g)
    PROVE  ControlInv' /\ ReceiveMoves(t, g)
  <1>1. PICK y \in {"returned", "threw"} :
             /\ Receive(t, g, y)
             /\ IF g \in AsyncGens THEN AgenDone(t, g, y = "returned")
                ELSE /\ status' = [status EXCEPT ![g] = "Done"]
                     /\ GoOn(t, PopContext(curCo))
                     /\ UNCHANGED <<start, queue, answers>>
    BY DEF ReceiveDone
  <1>2. UNCHANGED <<pending, jobs>>
    BY DEF ReceiveDone
  <1>3. CASE g \notin AsyncGens
    BY <1>1, <1>2, <1>3, GoOnWithoutJobs
  <1>4. CASE g \in AsyncGens
    <2> DEFINE q == Pop(queue[g])
               log == Answer(g, TRUE, y = "returned")
    <2>1. Drive(t, g, "Done", q, log, PopContext(curCo))
      BY <1>1, <1>4 DEF AgenDone
    <2> HIDE DEF q, log
    <2>2. /\ status' = [status EXCEPT ![g] = "Done"] /\ GoOn(t, PopContext(curCo))
          /\ start' = start \/ start' = [start EXCEPT ![g] = @ /\ "Done" # "Start"]
      BY <2>1 DEF Drive
    <2>3. start' = start
      <3>1. start[g] \in BOOLEAN
        BY DEF ControlInv, ControlTypes
      <3>2. (start[g] /\ "Done" # "Start") = start[g]
        BY <3>1
      <3> QED
        BY <2>2, <3>2 DEF ControlInv, ControlTypes
    <2> QED
      BY <1>1, <1>2, <2>2, <2>3, GoOnWithoutJobs
  <1> QED
    BY <1>3, <1>4

-----------------------------------------------------------------------------
(* The event loop.                                                         *)

\* The reaction on a settled Promise is queued.
LEMMA SettleControl ==
    ASSUME ControlInv, NEW t \in Threads, NEW g \in Cos, Settle(t, g)
    PROVE  ControlInv' /\ Calms /\ UNCHANGED native
  <1>0. ControlTypes /\ ChainInv /\ Sound(g) /\ OneJobEach
    BY DEF ControlInv
  <1>1. /\ g \in pending /\ pending' = pending \ {g}
        /\ UNCHANGED <<status, start, curCo, thread, duty, inbox, outbox, waiting, starting, native>>
    BY DEF Settle, gens, chans
  <1>2. PICK r \in {"value", "throw"} : jobs' = Append(jobs, [co |-> g, resume |-> r])
    BY DEF Settle
  <1> DEFINE job == [co |-> g, resume |-> r]
  <1>3. job \in [co : Cos, resume : {"value", "throw"}] /\ job.co = g
    OBVIOUS
  <1> HIDE DEF job
  <1>4. jobs \in Seq([co : Cos, resume : {"value", "throw"}]) /\ Len(jobs) \in Nat
    BY <1>0 DEF ControlTypes
  <1>5. /\ jobs' \in Seq([co : Cos, resume : {"value", "throw"}])
        /\ Len(jobs') = Len(jobs) + 1 /\ jobs'[Len(jobs) + 1] = job
        /\ \A i \in 1..Len(jobs) : jobs'[i] = jobs[i]
    BY <1>2, <1>3, <1>4, Pushed DEF job
  <1>6. 1..Len(jobs') = (1..Len(jobs)) \cup {Len(jobs) + 1}
    BY <1>4, <1>5
  <1>7. \A h \in Cos : InJobs(h)' <=> InJobs(h) \/ h = g
    BY <1>3, <1>5, <1>6 DEF InJobs
  <1>8. ~InJobs(g)
    BY <1>0, <1>1 DEF Sound, AwaitOf
  <1>9. OneJobEach'
    BY <1>0, <1>3, <1>5, <1>6, <1>8 DEF OneJobEach, InJobs
  <1>10. ControlTypes'
    BY <1>0, <1>1, <1>5 DEF ControlTypes
  <1>11. Calms
    BY <1>0, <1>1 DEF Calms, Quiet, ChainInv, OthersRest, Rests
  <1>12. ChainInv' /\ \A h \in Cos : InChain(h)' <=> InChain(h)
    BY <1>0, <1>10, <1>11, CalmKeepsChain
  <1>13. \A h : Started(h)' <=> Started(h)
    BY <1>1, StartedSame
  <1>14. \A h \in Cos : h # g => Kept(h)
    BY <1>1, <1>7, <1>12, <1>13 DEF Kept, Quiet
  <1>15. Sound(g)'
    <2>1. StatusOf(g) => StatusOf(g)'
      BY <1>1, <1>12, <1>13 DEF StatusOf
    <2>2. AwaitOf(g)'
      BY <1>0, <1>1, <1>7 DEF Sound, AwaitOf
    <2>3. MessageOf(g)'
      BY <1>0, <1>1 DEF Sound, MessageOf
    <2> QED
      BY <1>0, <1>1, <2>1, <2>2, <2>3 DEF Sound
  <1> QED
    BY <1>0, <1>1, <1>9, <1>10, <1>11, <1>12, <1>14, <1>15, ControlStep

\* run_jobs resumes the coroutine of the oldest reaction.
LEMMA RunJobControl ==
    ASSUME ControlInv, RunJob
    PROVE  ControlInv' /\ (\E g \in Cos : Pushes(Host, g)) /\ UNCHANGED native
  <1>0. ControlTypes /\ ChainInv /\ OneJobEach /\ Host \in Threads
    BY DEF ControlInv, Threads
  <1>1. jobs \in Seq([co : Cos, resume : {"value", "throw"}]) /\ jobs # <<>>
    BY <1>0 DEF RunJob, ControlTypes
  <1>2. Head(jobs) = jobs[1] /\ jobs[1] \in [co : Cos, resume : {"value", "throw"}]
    <2> DEFINE J == [co : Cos, resume : {"value", "throw"}]
    <2>1. jobs \in Seq(J) /\ jobs # <<>>
      BY <1>1
    <2> HIDE DEF J
    <2>2. Head(jobs) = jobs[1] /\ jobs[1] \in J
      BY <2>1
    <2> QED
      BY <2>2 DEF J
  <1>3. PICK g \in Cos, r \in {"value", "throw"} : jobs[1].co = g /\ jobs[1].resume = r
    BY <1>2
  <1>4. Len(jobs) \in Nat \ {0}
    BY <1>1
  <1>5. /\ jobs' \in Seq([co : Cos, resume : {"value", "throw"}])
        /\ Len(jobs') = Len(jobs) - 1 /\ \A i \in 1..Len(jobs)-1 : jobs'[i] = jobs[i + 1]
    BY <1>1, HeadTailProperties DEF RunJob
  <1>6. InJobs(g)
    BY <1>3, <1>4 DEF InJobs
  <1>7. /\ Sound(g) /\ thread[g] \in {"await", "operand"} /\ inbox[g] = <<>> /\ outbox[g] = <<>>
        /\ g \notin pending
    BY <1>6 DEF ControlInv, Sound, AwaitOf
  <1>8. ~InChain(g) /\ ~Started(g)
    <2>1. ~InChain(g)
      BY <1>0, <1>7, InChainIsBusy DEF Runs, Called, Back
    <2> QED
      BY <1>0, <2>1, StartedIsInChain
  <1>9. /\ Active(Host) /\ curCo' = Append(curCo, g)
        /\ inbox' = [inbox EXCEPT ![g] = <<r>>]
        /\ waiting' = [waiting EXCEPT ![Host] = g]
        /\ UNCHANGED <<thread, starting, status, start, duty, outbox, pending, native>>
    <2>1. Append(inbox[g], r) = <<r>>
      BY <1>7
    <2> QED
      BY <1>2, <1>3, <2>1 DEF RunJob, CoStep, gens
  <1>10. ControlTypes'
    <2>1. inbox' \in [Cos -> {<<>>} \cup {<<q>> : q \in {"value", "throw", "return"}}]
      BY <1>0, <1>9 DEF ControlTypes
    <2>2. curCo' \in Seq(Cos)
      BY <1>0, <1>9, Pushed DEF ControlTypes
    <2>3. waiting' \in [Threads -> Cos \cup {None}]
      BY <1>0, <1>9 DEF ControlTypes
    <2> QED
      BY <1>0, <1>5, <1>9, <2>1, <2>2, <2>3 DEF ControlTypes
  <1>11. inbox'[g] = <<r>> /\ <<r>> # <<>>
    BY <1>0, <1>9 DEF ControlTypes
  <1>12. Pushes(Host, g)
    BY <1>0, <1>7, <1>8, <1>9, <1>11 DEF Pushes, Quiet, Called, ControlTypes, Suspensions
  <1>13. ChainInv' /\ \A h \in Cos : InChain(h)' <=> InChain(h) \/ h = g
    BY <1>0, <1>10, <1>12, PushKeepsChain
  <1>14. \A i \in 1..Len(jobs)-1 : i + 1 \in 1..Len(jobs) /\ i + 1 # 1
    BY <1>4
  <1>15. OneJobEach'
    BY <1>0, <1>4, <1>5, <1>14 DEF OneJobEach
  <1>16. \A h \in Cos : InJobs(h)' <=> InJobs(h) /\ h # g
    <2>1. ASSUME NEW h \in Cos, InJobs(h)'
          PROVE  InJobs(h) /\ h # g
      <3>1. PICK i \in 1..Len(jobs)-1 : jobs[i + 1].co = h
        BY <1>5, <2>1 DEF InJobs
      <3>2. i + 1 \in 1..Len(jobs) /\ i + 1 # 1 /\ 1 \in 1..Len(jobs)
        BY <1>4, <1>14
      <3>3. h # g
        BY <1>0, <1>3, <3>1, <3>2 DEF OneJobEach
      <3> QED
        BY <3>1, <3>2, <3>3 DEF InJobs
    <2>2. ASSUME NEW h \in Cos, InJobs(h), h # g
          PROVE  InJobs(h)'
      <3>1. PICK i \in 1..Len(jobs) : jobs[i].co = h
        BY <2>2 DEF InJobs
      <3>2. i # 1
        BY <1>3, <2>2, <3>1
      <3>3. i - 1 \in 1..Len(jobs)-1 /\ (i - 1) + 1 = i
        BY <1>4, <3>2
      <3> QED
        BY <1>5, <3>1, <3>3 DEF InJobs
    <2> QED
      BY <2>1, <2>2
  <1>17. \A h : Started(h)' <=> Started(h)
    BY <1>9, StartedSame
  <1>18. \A h \in Cos : h # g => Kept(h)
    BY <1>9, <1>12, <1>13, <1>16, <1>17 DEF Kept, Pushes
  <1>19. Sound(g)'
    <2>1. StatusOf(g) => StatusOf(g)'
      BY <1>7, <1>8, <1>9, <1>13, <1>17 DEF StatusOf
    <2>2. AwaitOf(g)'
      BY <1>7, <1>9, <1>11, <1>16 DEF AwaitOf
    <2>3. MessageOf(g)'
      <3>1. outbox'[g] = <<>>
        BY <1>7, <1>9
      <3> QED
        BY <3>1 DEF MessageOf
    <2> QED
      BY <1>7, <1>9, <2>1, <2>2, <2>3 DEF Sound
  <1> QED
    BY <1>0, <1>9, <1>10, <1>12, <1>13, <1>15, <1>18, <1>19, ControlStep

\* A generator object that is unreachable.
LEMMA ForgetControl ==
    ASSUME ControlInv, NEW g \in Cos, Forget(g)
    PROVE  ControlInv' /\ Calms /\ UNCHANGED native
  <1>0. ControlTypes /\ ChainInv /\ Sound(g)
    BY DEF ControlInv
  <1>1. /\ thread[g] = "yield" /\ status[g] = "Suspended" /\ inbox[g] = <<>> /\ ~Started(g)
        /\ thread' = [thread EXCEPT ![g] = "forgotten"]
        /\ UNCHANGED <<status, start, curCo, duty, inbox, outbox, waiting, starting, pending,
                       jobs, native>>
    BY DEF Forget, Started, gens, chans
  <1>2. g \notin AsyncFuncs /\ g \in Generators \cup AsyncGens
    BY <1>0, <1>1 DEF Sound, Cos
  <1>3. ~InChain(g) /\ outbox[g] = <<>>
    <2>1. ~InChain(g)
      BY <1>0, <1>1, <1>2 DEF Sound, StatusOf
    <2> QED
      BY <1>0, <2>1 DEF ChainInv, OthersRest, Rests
  <1>4. ControlTypes'
    BY <1>0, <1>1 DEF ControlTypes
  <1>5. thread'[g] = "forgotten" /\ \A h \in Cos : h # g => thread'[h] = thread[h]
    BY <1>0, <1>1 DEF ControlTypes
  <1>6. Calms
    BY <1>0, <1>1, <1>3, <1>5 DEF Calms, Quiet, ChainInv, OthersRest, Rests
  <1>7. ChainInv' /\ \A h \in Cos : InChain(h)' <=> InChain(h)
    BY <1>0, <1>4, <1>6, CalmKeepsChain
  <1>8. OneJobEach' /\ (\A h : InJobs(h)' <=> InJobs(h)) /\ \A h : Started(h)' <=> Started(h)
    BY <1>1, JobsSame, StartedSame
  <1>9. \A h \in Cos : h # g => Kept(h)
    BY <1>1, <1>5, <1>7, <1>8 DEF Kept, Quiet
  <1>10. Sound(g)'
    <2>1. StatusOf(g)'
      BY <1>1, <1>3, <1>5, <1>7 DEF StatusOf
    <2>2. AwaitOf(g)' /\ MessageOf(g)'
      BY <1>0, <1>1, <1>3, <1>5, <1>8 DEF Sound, AwaitOf, MessageOf
    <2> QED
      BY <1>2, <1>5, <2>1, <2>2 DEF Sound
  <1> QED
    BY <1>0, <1>1, <1>4, <1>6, <1>7, <1>8, <1>9, <1>10, ControlStep

-----------------------------------------------------------------------------
(* The control invariant holds.                                            *)

LEMMA ControlInit == Init => ControlInv
  <1> SUFFICES ASSUME Init PROVE ControlInv
    OBVIOUS
  <1>1. ControlTypes
    <2>1. curCo \in Seq(Cos) /\ jobs \in Seq([co : Cos, resume : {"value", "throw"}])
      BY DEF Init
    <2>2. /\ inbox \in [Cos -> {<<>>} \cup {<<q>> : q \in {"value", "throw", "return"}}]
          /\ outbox \in [Cos -> {<<>>} \cup {<<z>> : z \in {"await", "yielded", "returned", "threw"}}]
      BY DEF Init
    <2>3. waiting \in [Threads -> Cos \cup {None}] /\ starting \in [Threads -> Cos \cup {None}]
      BY DEF Init
    <2> QED
      BY <2>1, <2>2, <2>3 DEF Init, ControlTypes, GStatus
  <1>2. curCo = <<>> /\ Len(curCo) = 0 /\ jobs = <<>> /\ Len(jobs) = 0 /\ 1..0 = {}
    BY DEF Init
  <1>3. \A g \in Cos : ~InChain(g) /\ ~InJobs(g)
    BY <1>2 DEF InChain, InJobs
  <1>4. \A g \in Cos : Rests(g)
    BY DEF Init, Rests
  <1>5. ChainInv
    BY <1>2, <1>4 DEF Init, ChainInv, Distinct, Linked, FreeOthers, TopIsBusy, BelowRuns, OthersRest
  <1>6. OneJobEach
    BY <1>2 DEF OneJobEach
  <1>7. ASSUME NEW g \in Cos
        PROVE  Sound(g)
    <2>1. StatusOf(g)
      BY DEF Init, StatusOf
    <2>2. AwaitOf(g) /\ MessageOf(g)
      BY <1>3 DEF Init, AwaitOf, MessageOf
    <2> QED
      BY <2>1, <2>2 DEF Init, Sound
  <1> QED
    BY <1>1, <1>5, <1>6, <1>7 DEF ControlInv

\* Every step moves the chain and the continuations in one of a few ways.
Moves ==
    \/ (\E t \in Threads, g \in Cos : Pushes(t, g)) /\ UNCHANGED native
    \/ (\E t \in Threads : Marks(t)) /\ UNCHANGED native
    \/ (\E g \in Cos : TopMoves(g) /\ Called(g) /\ Runs(g)') /\ UNCHANGED native
    \/ Calms /\ UNCHANGED native
    \/ \E g \in Cos : TopMoves(g) /\ Runs(g) /\ \E y : HandBack(g, y)
    \/ \E t \in Threads, g \in Cos : ReceiveMoves(t, g)
    \/ \E t \in Cos : Calms /\ SettleNative(t)

LEMMA ControlMoves ==
    ASSUME ControlInv, DataTypes, ~EarlyCalls, Next
    PROVE  ControlInv' /\ Moves
  <1>1. CASE Call
    BY <1>1, CallAsyncControl, EnqueueControl, GenResumeControl DEF Call, CallMoves, Moves
  <1>2. CASE Suspend
    BY <1>2, SuspendControl DEF Suspend, Moves
  <1>3. CASE HandOff
    <2>1. CASE \E t \in Threads : Mark(t)
      BY <2>1, MarkControl DEF Moves
    <2>2. CASE \E g \in Cos : Resume(g)
      BY <2>2, ResumeControl DEF Moves
    <2>3. ASSUME NEW t \in Threads, NEW g \in Cos,
                 ReceiveAwait(t, g) \/ ReceiveYielded(t, g) \/ ReceiveDone(t, g)
          PROVE  ControlInv' /\ Moves
      <3>1. ControlInv' /\ ReceiveMoves(t, g)
        BY <2>3, ReceiveAwaitControl, ReceiveYieldedControl, ReceiveDoneControl
      <3> QED
        BY <3>1 DEF Moves
    <2> QED
      BY <1>3, <2>1, <2>2, <2>3 DEF HandOff
  <1>4. CASE SettleAny
    BY <1>4, SettleControl DEF SettleAny, Moves
  <1>5. CASE RunJob
    <2>1. Host \in Threads
      BY DEF Threads
    <2> QED
      BY <1>5, <2>1, RunJobControl DEF Moves
  <1>6. ASSUME NEW g \in Cos, SettleNative(g)
        PROVE  ControlInv' /\ Moves
    <2>1. ControlInv' /\ Calms
      BY <1>6, CalmControl DEF SettleNative, gens, chans
    <2> QED
      BY <1>6, <2>1 DEF Moves
  <1>7. ASSUME NEW g \in Cos, Forget(g)
        PROVE  ControlInv' /\ Moves
    BY <1>7, ForgetControl DEF Moves
  <1> QED
    BY <1>1, <1>2, <1>3, <1>4, <1>5, <1>6, <1>7 DEF Next

LEMMA ControlAlways == ~EarlyCalls => (Spec => [](ControlInv /\ DataTypes))
  <1> SUFFICES ASSUME ~EarlyCalls PROVE Spec => [](ControlInv /\ DataTypes)
    OBVIOUS
  <1>1. Init => ControlInv /\ DataTypes
    BY ControlInit, DataInit
  <1>2. ControlInv /\ DataTypes /\ [Next]_vars => ControlInv' /\ DataTypes'
    <2> SUFFICES ASSUME ControlInv, DataTypes, [Next]_vars PROVE ControlInv' /\ DataTypes'
      OBVIOUS
    <2>1. DataTypes'
      BY DataStep
    <2>2. CASE Next
      BY <2>1, <2>2, ControlMoves
    <2>3. CASE UNCHANGED vars
      BY <2>1, <2>3, CalmControl DEF vars, gens, chans
    <2> QED
      BY <2>2, <2>3
  <1> QED
    BY <1>1, <1>2, PTL DEF Spec

\* No coroutine has two reactions queued, so there are no more than coroutines.
LEMMA FewJobs ==
    ASSUME ControlInv
    PROVE  Len(jobs) <= Cardinality(Cos)
  <1> DEFINE f == [i \in 1..Len(jobs) |-> jobs[i].co]
  <1>1. Len(jobs) \in Nat /\ f \in [1..Len(jobs) -> Cos]
    <2> DEFINE J == [co : Cos, resume : {"value", "throw"}]
    <2>1. jobs \in Seq(J)
      BY DEF ControlInv, ControlTypes
    <2>2. \A j \in J : j.co \in Cos
      OBVIOUS
    <2> HIDE DEF J
    <2>3. Len(jobs) \in Nat /\ \A i \in 1..Len(jobs) : jobs[i] \in J
      BY <2>1
    <2> QED
      BY <2>2, <2>3
  <1>2. \A i, j \in 1..Len(jobs) : f[i] = f[j] => i = j
    BY DEF ControlInv, OneJobEach
  <1> HIDE DEF f
  <1>3. 1 \in Int /\ Len(jobs) \in Int
    BY <1>1
  <1>4. /\ IsFiniteSet(1..Len(jobs))
        /\ Cardinality(1..Len(jobs)) = IF 1 > Len(jobs) THEN 0 ELSE Len(jobs) - 1 + 1
    BY <1>3, FS_Interval
  <1>5. Cardinality(1..Len(jobs)) = Len(jobs)
    BY <1>1, <1>4
  <1>6. IsFiniteSet(Cos) /\ Cardinality(Cos) \in Nat
    BY CoroutinesAssumption, FS_CardinalityType
  <1>7. ~(Cardinality(Cos) < Cardinality(1..Len(jobs)))
    BY <1>1, <1>2, <1>4, <1>6, FS_PigeonHole
  <1> QED
    BY <1>1, <1>5, <1>6, <1>7

\* No thread panics, as long as no body calls a generator that is being started.
LEMMA NobodyLost ==
    ASSUME ControlInv, NEW g \in Cos
    PROVE  thread[g] # "lost"
  BY InChainIsBusy DEF ControlInv, ChainInv, OthersRest, Rests, Runs, Called, Back, Suspensions

\* One side runs.
LEMMA ControlIsOne ==
    ASSUME ControlInv
    PROVE  OneRuns
  <1>0. ControlTypes /\ ChainInv
    BY DEF ControlInv
  <1>1. \A t \in Threads : Active(t) =>
           IF curCo = <<>> THEN t = Host ELSE t = Top /\ t # Host /\ Runs(t)
    BY <1>0, ActiveIsTop
  <1>2. \A g \in Cos : inbox[g] # <<>> \/ outbox[g] # <<>> =>
           curCo # <<>> /\ g = Top /\ (Called(g) \/ Back(g))
    BY <1>0, MessageIsTop
  <1>3. CASE curCo = <<>>
    <2>1. Active(Host)
      <3>1. \A i \in 1..Len(curCo) : Caller(i) # Host
        BY <1>3
      <3> QED
        BY <1>0, <3>1 DEF ChainInv, FreeOthers, Active, Threads
    <2>2. Running = {Host}
      BY <1>1, <1>3, <2>1 DEF Running, Threads
    <2>3. InFlight = {}
      BY <1>2, <1>3 DEF InFlight
    <2>4. Cardinality(Running) = 1 /\ Cardinality(InFlight) = 0
      BY <2>2, <2>3, FS_Singleton, FS_EmptySet
    <2> QED
      BY <1>3, <2>2, <2>4 DEF OneRuns
  <1>4. CASE curCo # <<>>
    <2>1. /\ Len(curCo) \in Nat \ {0} /\ Top \in Cos
          /\ \A i \in 1..Len(curCo) : i # Len(curCo) => curCo[i] # Top
      <3>1. Len(curCo) \in Nat \ {0}
        BY <1>0, <1>4 DEF ControlTypes
      <3> QED
        BY <1>0, <3>1 DEF ControlTypes, Top, ChainInv, Distinct
    <2>2. CASE Runs(Top)
      <3>1. \A i \in 1..Len(curCo) : Caller(i) # Top
        <4>1. SUFFICES ASSUME NEW i \in 1..Len(curCo), i # 1, curCo[i - 1] = Top
                       PROVE  FALSE
          BY <2>1, CoroutinesAssumption DEF Caller
        <4>2. i - 1 \in 1..Len(curCo) /\ i - 1 # Len(curCo)
          BY <2>1, <4>1
        <4> QED
          BY <2>1, <4>1, <4>2
      <3>2. Active(Top)
        BY <1>0, <2>1, <2>2, <3>1 DEF ChainInv, FreeOthers, Active, Threads, Runs
      <3>3. Running = {Top}
        BY <1>1, <1>4, <2>1, <3>2 DEF Running, Threads
      <3>4. InFlight = {}
        BY <1>2, <2>2 DEF InFlight, Runs
      <3>5. Cardinality(Running) = 1 /\ Cardinality(InFlight) = 0
        BY <3>3, <3>4, FS_Singleton, FS_EmptySet
      <3>6. Top # Host
        BY <2>1, CoroutinesAssumption
      <3> QED
        BY <1>4, <3>3, <3>5, <3>6 DEF OneRuns, Top
    <2>3. ASSUME Called(Top) \/ Back(Top)
          PROVE  OneRuns
      <3>1. ~Runs(Top)
        BY <2>3 DEF Called, Back, Runs
      <3>2. Running = {}
        BY <1>1, <1>4, <3>1 DEF Running
      <3>3. \E m \in {"in", "out"} : InFlight = {<<Top, m>>}
        <4>1. CASE Called(Top)
          <5>1. {h \in Cos : inbox[h] # <<>>} = {Top} /\ {h \in Cos : outbox[h] # <<>>} = {}
            BY <1>2, <2>1, <4>1 DEF Called
          <5>2. InFlight = {<<Top, "in">>}
            BY <5>1 DEF InFlight
          <5> QED
            BY <5>2
        <4>2. CASE Back(Top)
          <5>1. {h \in Cos : outbox[h] # <<>>} = {Top} /\ {h \in Cos : inbox[h] # <<>>} = {}
            BY <1>2, <2>1, <4>2 DEF Back
          <5>2. InFlight = {<<Top, "out">>}
            BY <5>1 DEF InFlight
          <5> QED
            BY <5>2
        <4> QED
          BY <2>3, <4>1, <4>2
      <3>4. Cardinality(Running) = 0 /\ Cardinality(InFlight) = 1
        BY <3>2, <3>3, FS_Singleton, FS_EmptySet
      <3> QED
        BY <3>2, <3>4 DEF OneRuns
    <2> QED
      BY <1>0, <1>4, <2>2, <2>3 DEF ChainInv, TopIsBusy
  <1> QED
    BY <1>3, <1>4

\* What resumes a coroutine is what it waits for, and comes once.
LEMMA ControlResumesOnce ==
    ASSUME ControlInv
    PROVE  OneResumptionEach
  <1>0. ControlTypes /\ ChainInv /\ OneJobEach
    BY DEF ControlInv
  <1> SUFFICES ASSUME NEW g \in Cos
               PROVE  LET awaits == (IF outbox[g] = <<"await">> THEN 1 ELSE 0)
                                      + (IF g \in pending THEN 1 ELSE 0) + Cardinality(Reactions(g))
                          sent   == Len(inbox[g])
                      IN  /\ thread[g] \in {"await", "operand"} => awaits + sent = 1
                          /\ thread[g] \notin {"await", "operand"} => awaits = 0
                          /\ thread[g] \notin Suspensions => sent = 0
                          /\ thread[g] = "yield" /\ sent = 0 /\ outbox[g] = <<>> =>
                                status[g] = "Suspended"
    BY DEF OneResumptionEach
  <1>1. Sound(g)
    BY DEF ControlInv
  <1>2. Cardinality(Reactions(g)) = IF InJobs(g) THEN 1 ELSE 0
    <2>1. CASE InJobs(g)
      <3>1. PICK i \in 1..Len(jobs) : jobs[i].co = g
        BY <2>1 DEF InJobs
      <3>2. Reactions(g) = {i}
        BY <1>0, <3>1 DEF Reactions, OneJobEach
      <3> QED
        BY <2>1, <3>2, FS_Singleton
    <2>2. CASE ~InJobs(g)
      <3>1. Reactions(g) = {}
        BY <2>2 DEF Reactions, InJobs
      <3> QED
        BY <2>2, <3>1, FS_EmptySet
    <2> QED
      BY <2>1, <2>2
  <1>3. Len(inbox[g]) = IF inbox[g] = <<>> THEN 0 ELSE 1
    <2>1. inbox[g] \in {<<>>} \cup {<<r>> : r \in {"value", "throw", "return"}}
      BY <1>0 DEF ControlTypes
    <2>2. CASE inbox[g] = <<>>
      BY <2>2
    <2>3. ASSUME NEW r, inbox[g] = <<r>>
          PROVE  Len(inbox[g]) = 1 /\ inbox[g] # <<>>
      BY <2>3
    <2> QED
      BY <2>1, <2>2, <2>3
  <1>4. Runs(g) \/ Called(g) \/ Back(g) \/ Rests(g)
    BY <1>0, InChainIsBusy DEF ChainInv, OthersRest
  <1>5. outbox[g] # <<>> => outbox[g] \in {<<"await">>, <<"yielded">>, <<"returned">>, <<"threw">>}
    <2>1. outbox[g] \in {<<>>} \cup {<<y>> : y \in {"await", "yielded", "returned", "threw"}}
      BY <1>0 DEF ControlTypes
    <2> QED
      BY <2>1
  <1>6. outbox[g] = <<"await">> <=> Back(g) /\ thread[g] \in {"await", "operand"}
    BY <1>1, <1>4, <1>5 DEF Sound, MessageOf, Runs, Called, Back, Rests
  <1>7. ~(g \in pending /\ InJobs(g))
    BY <1>1 DEF Sound, AwaitOf
  <1>8. ASSUME thread[g] \in {"await", "operand"}
        PROVE  \/ Called(g) /\ g \notin pending /\ ~InJobs(g)
               \/ Back(g) /\ g \notin pending /\ ~InJobs(g)
               \/ Rests(g) /\ (g \in pending \/ InJobs(g))
    BY <1>1, <1>4, <1>8 DEF Sound, AwaitOf, Runs, Called, Back, Rests
  <1>9. ASSUME thread[g] \notin {"await", "operand"}
        PROVE  g \notin pending /\ ~InJobs(g)
    BY <1>1, <1>9 DEF Sound, AwaitOf
  <1>10. ASSUME thread[g] = "yield", inbox[g] = <<>>, outbox[g] = <<>>
         PROVE  status[g] = "Suspended"
    <2>1. g \in Generators \cup AsyncGens /\ status[g] \in GStatus
      BY <1>0, <1>1, <1>10 DEF Sound, Cos, ControlTypes
    <2>2. ~InChain(g)
      BY <1>0, <1>10, InChainIsBusy DEF Runs, Called, Back
    <2>3. ~Started(g)
      BY <1>0, <2>2, StartedIsInChain
    <2> QED
      BY <1>1, <1>10, <2>1, <2>2, <2>3 DEF Sound, StatusOf, GStatus
  <1>11. CASE thread[g] \in {"await", "operand"}
    BY <1>2, <1>3, <1>6, <1>7, <1>8, <1>11 DEF Called, Back, Rests, Suspensions
  <1>12. CASE thread[g] \notin {"await", "operand"}
    <2>1. thread[g] \notin Suspensions => inbox[g] = <<>>
      BY <1>4 DEF Runs, Called, Back, Rests
    <2> QED
      BY <1>2, <1>3, <1>6, <1>9, <1>10, <1>12, <2>1
  <1> QED
    BY <1>11, <1>12

LEMMA ControlIsTyped ==
    ASSUME ControlInv, DataTypes
    PROVE  TypeOK
  BY FewJobs DEF ControlInv, ControlTypes, DataTypes, TypeOK, AnswerRecord

-----------------------------------------------------------------------------
(* The theorems about control.  EarlyCalls is FALSE in all of them: a body *)
(* that calls a generator that is being started breaks each but the first. *)

\* Every variable keeps its type; a channel holds one message at most, and
\* there is at most one reaction for each coroutine in the job queue.
THEOREM CoroutineTypes == ~EarlyCalls => (Spec => []TypeOK)
  BY ControlAlways, ControlIsTyped, PTL

\* Exactly one of host and bodies runs, or the message that hands control over
\* is on its way, cur_co names the body that runs, and what a suspended body is
\* resumed by is what it waits for, once (eventloop.rs, "strict hand-off
\* protocol"; co_step, co_wait, gen_resume and agen_drive).
THEOREM HandOffStaysExact == ~EarlyCalls => (Spec => []HandOffIsExact)
  <1>1. ControlInv => HandOffIsExact
    BY ControlIsOne, ControlResumesOnce DEF HandOffIsExact
  <1> QED
    BY <1>1, ControlAlways, PTL

\* expect("generator start state") does not fail when no body calls a generator
\* that is being started.
THEOREM StartStateStaysThere == ~EarlyCalls => (Spec => []StartStateIsThere)
  <1>1. ControlInv => StartStateIsThere
    BY NobodyLost DEF StartStateIsThere
  <1> QED
    BY <1>1, ControlAlways, PTL

-----------------------------------------------------------------------------
(* Continuations of native Promises.                                       *)

Before(s, t) == \A i \in 1..Len(s), j \in 1..Len(t) : s[i] < t[j]

\* Nothing waits on a thread that cannot hand it over.
ReadyRuns == \A g \in Cos : ~InChain(g) \/ thread[g] # "run" => ready[g] = <<>>

\* What a caller holds was settled before what its callees hold ...
CallersFirst == \A i, j \in 1..Len(curCo) + 1 : i < j =>
                   Before(ready[Caller(i)], ready[Caller(j)])

\* ... and all of that before what is parked.
ParkedLast ==
    /\ Increasing(parked)
    /\ \A t \in Threads : Increasing(ready[t]) /\ Before(ready[t], parked)

\* Continuations are parked only while a message that hands back is on its way.
ParkedMoves == parked # <<>> => curCo # <<>> /\ outbox[Top] # <<>>

\* The native Promises settled so far are the first ones.
SettledFirst == \A m \in Settled : \A k \in 1..m : k \in Settled

PassInv == ReadyRuns /\ CallersFirst /\ ParkedLast /\ ParkedMoves /\ SettledFirst

\* Orders of sequences.
LEMMA BeforeEmpty ==
    ASSUME NEW s
    PROVE  Before(s, <<>>) /\ Before(<<>>, s) /\ Increasing(<<>>)
  BY DEF Before, Increasing

LEMMA BeforeConcat ==
    ASSUME NEW S, NEW a, NEW s \in Seq(S), NEW t \in Seq(S), Before(a, s), Before(a, t)
    PROVE  Before(a, s \o t)
  <1>1. /\ Len(s) \in Nat /\ Len(t) \in Nat /\ Len(s \o t) = Len(s) + Len(t)
        /\ \A j \in 1..Len(s) + Len(t) :
              (s \o t)[j] = IF j <= Len(s) THEN s[j] ELSE t[j - Len(s)]
    BY ConcatProperties
  <1> SUFFICES ASSUME NEW i \in 1..Len(a), NEW j \in 1..Len(s) + Len(t)
               PROVE  a[i] < (s \o t)[j]
    BY <1>1 DEF Before
  <1>2. CASE j <= Len(s)
    <2>1. j \in 1..Len(s)
      BY <1>1, <1>2
    <2> QED
      BY <1>1, <1>2, <2>1 DEF Before
  <1>3. CASE ~(j <= Len(s))
    <2>1. j - Len(s) \in 1..Len(t)
      BY <1>1, <1>3
    <2> QED
      BY <1>1, <1>3, <2>1 DEF Before
  <1> QED
    BY <1>2, <1>3

LEMMA IncreasingConcat ==
    ASSUME NEW S \in SUBSET Nat, NEW s \in Seq(S), NEW t \in Seq(S),
           Increasing(s), Increasing(t), Before(s, t)
    PROVE  Increasing(s \o t)
  <1>1. /\ Len(s) \in Nat /\ Len(t) \in Nat /\ Len(s \o t) = Len(s) + Len(t)
        /\ \A j \in 1..Len(s) + Len(t) :
              (s \o t)[j] = IF j <= Len(s) THEN s[j] ELSE t[j - Len(s)]
    BY ConcatProperties
  <1> SUFFICES ASSUME NEW i \in 1..Len(s) + Len(t), NEW j \in 1..Len(s) + Len(t), i < j
               PROVE  (s \o t)[i] < (s \o t)[j]
    BY <1>1 DEF Increasing
  <1>2. CASE j <= Len(s)
    <2>1. i \in 1..Len(s) /\ j \in 1..Len(s) /\ i <= Len(s)
      BY <1>1, <1>2
    <2> QED
      BY <1>1, <1>2, <2>1 DEF Increasing
  <1>3. CASE i <= Len(s) /\ ~(j <= Len(s))
    <2>1. i \in 1..Len(s) /\ j - Len(s) \in 1..Len(t)
      BY <1>1, <1>3
    <2> QED
      BY <1>1, <1>3, <2>1 DEF Before
  <1>4. CASE ~(i <= Len(s))
    <2>1. /\ i - Len(s) \in 1..Len(t) /\ j - Len(s) \in 1..Len(t) /\ i - Len(s) < j - Len(s)
          /\ ~(j <= Len(s))
      BY <1>1, <1>4
    <2> QED
      BY <1>1, <1>4, <2>1 DEF Increasing
  <1> QED
    BY <1>1, <1>2, <1>3, <1>4

\* What is in a sequence after an append or a concatenation.
Elements(s) == {s[i] : i \in 1..Len(s)}

LEMMA ElementsConcat ==
    ASSUME NEW S, NEW s \in Seq(S), NEW t \in Seq(S)
    PROVE  Elements(s \o t) = Elements(s) \cup Elements(t)
  <1>1. /\ Len(s) \in Nat /\ Len(t) \in Nat /\ Len(s \o t) = Len(s) + Len(t)
        /\ \A j \in 1..Len(s) + Len(t) :
              (s \o t)[j] = IF j <= Len(s) THEN s[j] ELSE t[j - Len(s)]
    BY ConcatProperties
  <1>2. ASSUME NEW j \in 1..Len(s \o t)
        PROVE  (s \o t)[j] \in Elements(s) \cup Elements(t)
    <2>1. CASE j <= Len(s)
      <3>1. j \in 1..Len(s)
        BY <1>1, <2>1
      <3> QED
        BY <1>1, <2>1, <3>1 DEF Elements
    <2>2. CASE ~(j <= Len(s))
      <3>1. j - Len(s) \in 1..Len(t)
        BY <1>1, <2>2
      <3> QED
        BY <1>1, <2>2, <3>1 DEF Elements
    <2> QED
      BY <2>1, <2>2
  <1>3. ASSUME NEW i \in 1..Len(s)
        PROVE  s[i] \in Elements(s \o t)
    <2>1. i \in 1..Len(s \o t) /\ i <= Len(s)
      BY <1>1
    <2>2. (s \o t)[i] = s[i]
      BY <1>1, <2>1
    <2> QED
      BY <2>1, <2>2 DEF Elements
  <1>4. ASSUME NEW i \in 1..Len(t)
        PROVE  t[i] \in Elements(s \o t)
    <2>1. i + Len(s) \in 1..Len(s \o t) /\ ~(i + Len(s) <= Len(s)) /\ (i + Len(s)) - Len(s) = i
      BY <1>1
    <2>2. (s \o t)[i + Len(s)] = t[i]
      BY <1>1, <2>1
    <2> QED
      BY <2>1, <2>2 DEF Elements
  <1> QED
    BY <1>2, <1>3, <1>4 DEF Elements

SettledAre ==
    \A m : m \in Settled <=>
             (\E t \in Threads : m \in Elements(ready[t])) \/ m \in Elements(parked)

LEMMA SettledIs == DataTypes => SettledAre
  <1> SUFFICES ASSUME DataTypes PROVE SettledAre
    OBVIOUS
  <1>1. \A s \in Seq(1..MaxNative) : Range(s) = Elements(s)
    BY DEF Range, Elements
  <1>2. \A t \in Threads : ready[t] \in Seq(1..MaxNative)
    BY DEF DataTypes
  <1>3. Range(parked) = Elements(parked) /\ \A t \in Threads : Range(ready[t]) = Elements(ready[t])
    BY <1>1, <1>2 DEF DataTypes
  <1> QED
    BY <1>3 DEF Settled, SettledAre

\* The continuations only change places.
LEMMA SettledSame ==
    ASSUME DataTypes, DataTypes',
           \A m : (\E t \in Threads : m \in Elements(ready'[t])) \/ m \in Elements(parked')
                    <=> (\E t \in Threads : m \in Elements(ready[t])) \/ m \in Elements(parked),
           SettledFirst
    PROVE  SettledFirst'
  <1>1. SettledAre /\ SettledAre'
    BY SettledIs, PTL
  <1>2. \A m : m \in Settled' <=> m \in Settled
    BY <1>1 DEF SettledAre
  <1> QED
    BY <1>2 DEF SettledFirst

\* The threads of the chain, host first.
LEMMA CallersAre ==
    ASSUME ControlTypes, ChainInv
    PROVE  /\ Len(curCo) \in Nat
           /\ \A i \in 1..Len(curCo) + 1 : Caller(i) \in Threads
           /\ \A i, j \in 1..Len(curCo) + 1 : Caller(i) = Caller(j) => i = j
           /\ \A t \in Threads : t = Host \/ InChain(t) => \E i \in 1..Len(curCo) + 1 : Caller(i) = t
           /\ curCo # <<>> => Caller(Len(curCo) + 1) = Top
           /\ curCo = <<>> => Caller(Len(curCo) + 1) = Host
  <1>1. PICK n \in Nat : n = Len(curCo)
    BY DEF ControlTypes
  <1>2. \A i \in 1..n : curCo[i] \in Cos /\ curCo[i] # Host
    BY <1>1, CoroutinesAssumption DEF ControlTypes
  <1>3. \A i \in 1..n+1 : i = 1 \/ i - 1 \in 1..n
    BY <1>1
  <1>4. \A i \in 1..n+1 : Caller(i) \in Threads
    BY <1>2, <1>3 DEF Caller, Threads
  <1>5. ASSUME NEW i \in 1..n+1, NEW j \in 1..n+1, Caller(i) = Caller(j)
        PROVE  i = j
    <2>1. CASE i = 1 \/ j = 1
      BY <1>2, <1>3, <1>5, <2>1 DEF Caller
    <2>2. CASE i # 1 /\ j # 1
      <3>1. i - 1 \in 1..n /\ j - 1 \in 1..n /\ curCo[i - 1] = curCo[j - 1]
        BY <1>3, <1>5, <2>2 DEF Caller
      <3>2. i - 1 = j - 1
        BY <1>1, <3>1 DEF ChainInv, Distinct
      <3> QED
        BY <3>2
    <2> QED
      BY <2>1, <2>2
  <1>6. ASSUME NEW t \in Threads, t = Host \/ InChain(t)
        PROVE  \E i \in 1..n+1 : Caller(i) = t
    <2>1. CASE t = Host
      <3>1. 1 \in 1..n+1
        BY <1>1
      <3> QED
        BY <2>1, <3>1 DEF Caller
    <2>2. CASE InChain(t)
      <3>1. PICK i \in 1..n : curCo[i] = t
        BY <1>1, <2>2 DEF InChain
      <3>2. i + 1 \in 1..n+1 /\ i + 1 # 1 /\ (i + 1) - 1 = i
        BY <1>1
      <3> QED
        BY <3>1, <3>2 DEF Caller
    <2> QED
      BY <1>6, <2>1, <2>2
  <1>7. curCo # <<>> => n + 1 # 1 /\ (n + 1) - 1 = n
    BY <1>1 DEF ControlTypes
  <1>8. /\ curCo # <<>> => Caller(n + 1) = Top
        /\ curCo = <<>> => Caller(n + 1) = Host
    BY <1>1, <1>7 DEF Caller, Top
  <1> QED
    BY <1>1, <1>4, <1>5, <1>6, <1>8

\* Control that moves without the continuations.
LEMMA PushKeepsPass ==
    ASSUME ControlInv, ControlInv', PassInv, NEW t \in Threads, NEW g \in Cos, Pushes(t, g),
           UNCHANGED native
    PROVE  PassInv'
  <1>0. ControlTypes /\ ChainInv /\ ControlTypes' /\ ready' = ready /\ parked' = parked
    BY DEF ControlInv, native
  <1>1. PICK n \in Nat : n = Len(curCo)
    BY <1>0 DEF ControlTypes
  <1>2. \A h \in Cos : InChain(h)' <=> InChain(h) \/ h = g
    BY <1>0, PushKeepsChain
  <1>3. ready[g] = <<>>
    BY DEF Pushes, PassInv, ReadyRuns
  <1>4. ReadyRuns'
    BY <1>0, <1>2, <1>3 DEF ReadyRuns, PassInv, Pushes, Quiet
  <1>5. CallersFirst'
    <2>1. /\ Len(curCo') = n + 1 /\ curCo'[n + 1] = g
          /\ \A i \in 1..n : curCo'[i] = curCo[i]
      BY <1>0, <1>1, Pushed DEF Pushes, ControlTypes
    <2>2. \A i \in 1..n+1 : Caller(i)' = Caller(i)
      <3>1. \A i \in 1..n+1 : i = 1 \/ i - 1 \in 1..n
        BY <1>1
      <3> QED
        BY <2>1, <3>1 DEF Caller
    <2>3. Caller(n + 2)' = g
      <3>1. n + 2 # 1 /\ (n + 2) - 1 = n + 1
        BY <1>1
      <3> QED
        BY <2>1, <3>1 DEF Caller
    <2>4. SUFFICES ASSUME NEW i \in 1..n+2, NEW j \in 1..n+2, i < j
                   PROVE  Before(ready[Caller(i)'], ready[Caller(j)'])
      <3>1. 1..Len(curCo') + 1 = 1..n+2
        BY <2>1
      <3> QED
        BY <1>0, <3>1 DEF CallersFirst
    <2>5. CASE j = n + 2
      BY <1>3, <2>3, <2>5, BeforeEmpty
    <2>6. CASE j # n + 2
      <3>1. i \in 1..n+1 /\ j \in 1..n+1
        BY <1>1, <2>4, <2>6
      <3> QED
        BY <1>1, <2>2, <2>4, <3>1 DEF PassInv, CallersFirst
    <2> QED
      BY <2>5, <2>6
  <1>6. ParkedLast' /\ SettledFirst'
    BY <1>0 DEF PassInv, ParkedLast, SettledFirst, Increasing, Before, Settled
  <1>7. ParkedMoves'
    <2>1. IF curCo = <<>> THEN t = Host ELSE t = Top /\ t # Host /\ Runs(t)
      BY <1>0, ActiveIsTop DEF Pushes
    <2>2. parked = <<>>
      BY <2>1 DEF PassInv, ParkedMoves, Runs
    <2> QED
      BY <1>0, <2>2 DEF ParkedMoves
  <1> QED
    BY <1>4, <1>5, <1>6, <1>7 DEF PassInv

LEMMA StillKeepsPass ==
    ASSUME ControlInv, PassInv, UNCHANGED native, curCo' = curCo,
           \A g \in Cos : InChain(g) => \/ thread'[g] = thread[g]
                                        \/ thread'[g] = "run",
           parked # <<>> => outbox'[Top] = outbox[Top]
    PROVE  PassInv'
  <1>0. ready' = ready /\ parked' = parked
    BY DEF native
  <1>1. \A g : InChain(g)' <=> InChain(g)
    BY DEF InChain
  <1>2. ReadyRuns'
    BY <1>0, <1>1 DEF ReadyRuns, PassInv
  <1>3. CallersFirst'
    <2>1. \A i : Caller(i)' = Caller(i)
      BY DEF Caller
    <2> QED
      BY <1>0, <2>1 DEF PassInv, CallersFirst
  <1>4. ParkedLast'
    BY <1>0 DEF PassInv, ParkedLast, Before, Increasing
  <1>5. SettledFirst'
    BY <1>0 DEF PassInv, SettledFirst, Settled
  <1>6. ParkedMoves'
    BY <1>0 DEF PassInv, ParkedMoves, Top
  <1> QED
    BY <1>2, <1>3, <1>4, <1>5, <1>6 DEF PassInv

\* park_native_ready.
LEMMA HandBackKeepsPass ==
    ASSUME ControlInv, DataTypes, DataTypes', PassInv, NEW g \in Cos, NEW y, TopMoves(g),
           Runs(g), HandBack(g, y)
    PROVE  PassInv'
  <1>0. ControlTypes /\ ChainInv
    BY DEF ControlInv
  <1>1. g = Top /\ curCo # <<>> /\ curCo' = curCo
    BY DEF TopMoves
  <1>2. parked = <<>>
    BY <1>1 DEF PassInv, ParkedMoves, Runs
  <1>3. /\ parked' = ready[g] /\ g \in Threads
        /\ ready' = [ready EXCEPT ![g] = <<>>]
        /\ outbox' = [outbox EXCEPT ![g] = Append(@, y)]
    <2>1. parked \o ready[g] = ready[g]
      BY <1>2 DEF DataTypes, Threads
    <2> QED
      BY <2>1 DEF HandBack, Threads
  <1>4. ready'[g] = <<>> /\ \A t \in Threads : t # g => ready'[t] = ready[t]
    BY <1>3 DEF DataTypes
  <1>5. \A h \in Cos : InChain(h)' <=> InChain(h)
    BY <1>1 DEF InChain
  <1>6. ReadyRuns'
    BY <1>4, <1>5 DEF PassInv, ReadyRuns, TopMoves, Quiet, Threads
  <1>7. CallersFirst'
    <2>1. SUFFICES ASSUME NEW i \in 1..Len(curCo) + 1, NEW j \in 1..Len(curCo) + 1, i < j
                   PROVE  Before(ready'[Caller(i)], ready'[Caller(j)])
      BY <1>1 DEF CallersFirst, Caller
    <2>2. Caller(i) \in Threads /\ Caller(j) \in Threads
      BY <1>0, CallersAre
    <2>3. Before(ready[Caller(i)], ready[Caller(j)])
      BY <2>1 DEF PassInv, CallersFirst
    <2> QED
      BY <1>4, <2>2, <2>3, BeforeEmpty
  <1>8. ParkedLast'
    <2>1. Increasing(parked')
      BY <1>3 DEF PassInv, ParkedLast
    <2>2. ASSUME NEW t \in Threads
          PROVE  Increasing(ready'[t]) /\ Before(ready'[t], parked')
      <3>1. CASE ready'[t] = <<>>
        BY <3>1, BeforeEmpty
      <3>2. CASE ready'[t] # <<>>
        <4>1. t # g /\ ready'[t] = ready[t] /\ (t = Host \/ InChain(t))
          BY <1>4, <3>2 DEF PassInv, ReadyRuns, Threads
        <4>2. PICK i \in 1..Len(curCo) + 1 : Caller(i) = t
          BY <1>0, <4>1, CallersAre
        <4>3. PICK n \in Nat : n = Len(curCo) /\ Caller(n + 1) = g
          BY <1>0, <1>1, CallersAre
        <4>4. i < n + 1 /\ n + 1 \in 1..Len(curCo) + 1
          BY <4>1, <4>2, <4>3
        <4>5. Before(ready[t], ready[g])
          BY <4>2, <4>3, <4>4 DEF PassInv, CallersFirst
        <4> QED
          BY <1>3, <4>1, <4>5 DEF PassInv, ParkedLast
      <3> QED
        BY <3>1, <3>2
    <2> QED
      BY <2>1, <2>2 DEF ParkedLast, Before, Increasing
  <1>9. ParkedMoves'
    <2>1. Append(outbox[g], y) # <<>>
      BY <1>0 DEF ControlTypes, Runs
    <2>2. outbox'[g] # <<>>
      BY <1>0, <1>3, <2>1 DEF ControlTypes
    <2> QED
      BY <1>1, <2>2 DEF ParkedMoves, Top
  <1>10. SettledFirst'
    <2>1. Elements(<<>>) = {}
      BY DEF Elements
    <2>2. \A m : (\E t \in Threads : m \in Elements(ready'[t])) \/ m \in Elements(parked')
                   <=> (\E t \in Threads : m \in Elements(ready[t])) \/ m \in Elements(parked)
      BY <1>2, <1>3, <1>4, <2>1
    <2> QED
      BY <2>2, SettledSame DEF PassInv
  <1> QED
    BY <1>6, <1>7, <1>8, <1>9, <1>10 DEF PassInv

\* adopt_native_ready: what is parked goes behind what the caller holds.
LEMMA AdoptFacts ==
    ASSUME ControlInv, DataTypes, DataTypes', PassInv, NEW t \in Threads, NEW g \in Cos,
           waiting[t] = g, Back(g), Adopt(t)
    PROVE  /\ parked' = <<>> /\ ready'[t] = ready[t] \o parked
           /\ \A u \in Threads : u # t => ready'[u] = ready[u]
           /\ ready[g] = <<>> /\ t # g
           /\ ParkedLast' /\ ParkedMoves' /\ SettledFirst'
           /\ \A i, j \in 1..Len(curCo) : i < j =>
                 Before(ready'[Caller(i)], ready'[Caller(j)])
           /\ t = Host \/ (InChain(t) /\ Runs(t))
  <1>0. ControlTypes /\ ChainInv
    BY DEF ControlInv
  <1>1. parked' = <<>> /\ ready' = [ready EXCEPT ![t] = @ \o parked]
    BY DEF Adopt
  <1>2. ready'[t] = ready[t] \o parked /\ \A u \in Threads : u # t => ready'[u] = ready[u]
    BY <1>1 DEF DataTypes
  <1>3. ready[g] = <<>>
    BY DEF PassInv, ReadyRuns, Back, Suspensions
  <1>4. /\ curCo # <<>> /\ g = Top /\ InChain(g) /\ Caller(Len(curCo)) = t
        /\ Len(curCo) \in Nat \ {0}
    BY <1>0, TakenIsTop DEF Back
  <1>5. PICK n \in Nat \ {0} : n = Len(curCo)
    BY <1>4
  <1>6. Caller(n) = t /\ Caller(n + 1) = g /\ n \in 1..n+1 /\ n + 1 \in 1..n+1 /\ n # n + 1
    BY <1>0, <1>4, <1>5, CallersAre
  <1>7. t # g
    BY <1>0, <1>5, <1>6, CallersAre
  <1>8. ready[t] \in Seq(1..MaxNative) /\ parked \in Seq(1..MaxNative)
    BY DEF DataTypes
  <1>9. ParkedLast'
    <2>1. Increasing(ready[t]) /\ Increasing(parked) /\ Before(ready[t], parked)
      BY DEF PassInv, ParkedLast
    <2>2. Increasing(ready[t] \o parked)
      <3>1. (1..MaxNative) \in SUBSET Nat
        OBVIOUS
      <3> QED
        BY <1>8, <2>1, <3>1, IncreasingConcat
    <2>3. ASSUME NEW u \in Threads
          PROVE  Increasing(ready'[u]) /\ Before(ready'[u], <<>>)
      BY <1>2, <2>2, BeforeEmpty DEF PassInv, ParkedLast
    <2>4. Increasing(parked')
      BY <1>1, BeforeEmpty
    <2>5. \A u \in Threads : Increasing(ready'[u]) /\ Before(ready'[u], parked')
      BY <1>1, <2>3
    <2> QED
      BY <2>4, <2>5 DEF ParkedLast, Increasing, Before
  <1>10. ParkedMoves'
    BY <1>1 DEF ParkedMoves
  <1>11. SettledFirst'
    <2>1. Elements(<<>>) = {}
      BY DEF Elements
    <2>2. Elements(ready[t] \o parked) = Elements(ready[t]) \cup Elements(parked)
      BY <1>8, ElementsConcat
    <2>3. \A m : (\E u \in Threads : m \in Elements(ready'[u])) \/ m \in Elements(parked')
                   <=> (\E u \in Threads : m \in Elements(ready[u])) \/ m \in Elements(parked)
      BY <1>1, <1>2, <2>1, <2>2
    <2> QED
      BY <2>3, SettledSame DEF PassInv
  <1>12. ASSUME NEW i \in 1..n, NEW j \in 1..n, i < j
         PROVE  Before(ready'[Caller(i)], ready'[Caller(j)])
    <2>1. i \in 1..n+1 /\ j \in 1..n+1 /\ i # n
      BY <1>12
    <2>2. Caller(i) \in Threads /\ Caller(j) \in Threads /\ Caller(i) # t
      BY <1>0, <1>5, <1>6, <2>1, CallersAre
    <2>3. Before(ready[Caller(i)], ready[Caller(j)])
      BY <1>5, <1>12, <2>1 DEF PassInv, CallersFirst
    <2>4. CASE j = n
      <3>1. Before(ready[Caller(i)], parked)
        BY <2>2 DEF PassInv, ParkedLast
      <3>2. Before(ready[Caller(i)], ready[t] \o parked)
        BY <1>6, <1>8, <2>3, <2>4, <3>1, BeforeConcat
      <3> QED
        BY <1>2, <1>6, <2>2, <2>4, <3>2
    <2>5. CASE j # n
      <3>1. Caller(j) # t
        BY <1>0, <1>5, <1>6, <2>1, <2>5, CallersAre
      <3> QED
        BY <1>2, <2>2, <2>3, <3>1
    <2> QED
      BY <2>4, <2>5
  <1>13. t = Host \/ (InChain(t) /\ Runs(t))
    <2>1. SUFFICES ASSUME t # Host
                   PROVE  InChain(t) /\ Runs(t)
      OBVIOUS
    <2>2. n # 1 /\ t = curCo[n - 1]
      BY <1>6, <2>1 DEF Caller
    <2>3. n - 1 \in 1..Len(curCo) /\ n - 1 # Len(curCo)
      BY <1>5, <2>2
    <2> QED
      BY <1>0, <2>2, <2>3 DEF InChain, ChainInv, BelowRuns
  <1> QED
    BY <1>1, <1>2, <1>3, <1>5, <1>7, <1>9, <1>10, <1>11, <1>12, <1>13

LEMMA ReceiveKeepsPass ==
    ASSUME ControlInv, ControlInv', DataTypes, DataTypes', PassInv, NEW t \in Threads, NEW g \in Cos,
           ReceiveMoves(t, g)
    PROVE  PassInv'
  <1>0. ControlTypes /\ ChainInv /\ ControlTypes'
    BY DEF ControlInv
  <1>1. waiting[t] = g /\ Back(g) /\ Adopt(t)
    BY DEF ReceiveMoves, Pops
  <1>2. /\ parked' = <<>> /\ ready'[t] = ready[t] \o parked
        /\ \A u \in Threads : u # t => ready'[u] = ready[u]
        /\ ready[g] = <<>> /\ t # g
        /\ ParkedLast' /\ ParkedMoves' /\ SettledFirst'
        /\ t = Host \/ (InChain(t) /\ Runs(t))
    BY <1>1, AdoptFacts
  <1>3. \A i, j \in 1..Len(curCo) : i < j => Before(ready'[Caller(i)], ready'[Caller(j)])
    BY <1>1, AdoptFacts
  <1>4. PICK n \in Nat \ {0} : n = Len(curCo) /\ curCo # <<>> /\ Caller(n + 1) = g
    BY <1>0, <1>1, TakenIsTop, CallersAre DEF Back
  <1>5. ready'[g] = <<>>
    BY <1>2 DEF Threads
  <1>6. CASE Pops(t, g)
    <2>1. \A h \in Cos : InChain(h)' <=> InChain(h) /\ h # g
      BY <1>0, <1>6, PopKeepsChain
    <2>2. ReadyRuns'
      <3>1. SUFFICES ASSUME NEW h \in Cos, ~InChain(h)' \/ thread'[h] # "run"
                     PROVE  ready'[h] = <<>>
        BY DEF ReadyRuns
      <3>2. CASE h = g
        BY <1>5, <3>2
      <3>3. CASE h # g
        <4>1. ~InChain(h) \/ thread[h] # "run"
          BY <1>6, <2>1, <3>1, <3>3 DEF Pops, Quiet
        <4>2. h # t
          BY <1>2, <4>1, CoroutinesAssumption DEF Runs
        <4> QED
          BY <1>2, <4>1, <4>2 DEF PassInv, ReadyRuns, Threads
      <3> QED
        BY <3>2, <3>3
    <2>3. CallersFirst'
      <3>1. Len(curCo') = n - 1 /\ \A i \in 1..n-1 : curCo'[i] = curCo[i]
        BY <1>0, <1>4, <1>6, Popped DEF Pops, ControlTypes
      <3>2. \A i \in 1..n : Caller(i)' = Caller(i)
        <4>1. \A i \in 1..n : i = 1 \/ i - 1 \in 1..n-1
          BY <1>4
        <4> QED
          BY <3>1, <4>1 DEF Caller
      <3>3. 1..Len(curCo') + 1 = 1..n
        BY <1>4, <3>1
      <3> QED
        BY <1>3, <1>4, <3>2, <3>3 DEF CallersFirst
    <2> QED
      BY <1>2, <2>2, <2>3 DEF PassInv
  <1>7. CASE TopMoves(g)
    <2>1. \A h \in Cos : InChain(h)' <=> InChain(h)
      BY <1>0, <1>7, TopMoveKeepsChain
    <2>2. ReadyRuns'
      <3>1. SUFFICES ASSUME NEW h \in Cos, ~InChain(h)' \/ thread'[h] # "run"
                     PROVE  ready'[h] = <<>>
        BY DEF ReadyRuns
      <3>2. CASE h = g
        BY <1>5, <3>2
      <3>3. CASE h # g
        <4>1. ~InChain(h) \/ thread[h] # "run"
          BY <1>7, <2>1, <3>1, <3>3 DEF TopMoves, Quiet
        <4>2. h # t
          BY <1>2, <4>1, CoroutinesAssumption DEF Runs
        <4> QED
          BY <1>2, <4>1, <4>2 DEF PassInv, ReadyRuns, Threads
      <3> QED
        BY <3>2, <3>3
    <2>3. CallersFirst'
      <3>1. curCo' = curCo
        BY <1>7 DEF TopMoves
      <3>2. SUFFICES ASSUME NEW i \in 1..n+1, NEW j \in 1..n+1, i < j
                     PROVE  Before(ready'[Caller(i)], ready'[Caller(j)])
        BY <1>4, <3>1 DEF CallersFirst, Caller
      <3>3. CASE j = n + 1
        BY <1>4, <1>5, <3>3, BeforeEmpty
      <3>4. CASE j # n + 1
        <4>1. i \in 1..n /\ j \in 1..n
          BY <3>2, <3>4
        <4> QED
          BY <1>3, <1>4, <3>2, <4>1
      <3> QED
        BY <3>3, <3>4
    <2> QED
      BY <1>2, <2>2, <2>3 DEF PassInv
  <1> QED
    BY <1>6, <1>7 DEF ReceiveMoves

\* A body settles a native Promise: the newest goes behind all that are settled.
LEMMA SettleNativeKeepsPass ==
    ASSUME ControlInv, DataTypes, DataTypes', PassInv, NEW t \in Cos, SettleNative(t)
    PROVE  PassInv'
  <1>0. ControlTypes /\ ChainInv /\ Active(t) /\ t # Host /\ t \in Threads
    BY DEF ControlInv, SettleNative, Body, Threads
  <1>1. curCo # <<>> /\ t = Top /\ Runs(t)
    BY <1>0, ActiveIsTop
  <1>2. parked = <<>>
    BY <1>1 DEF PassInv, ParkedMoves, Runs
  <1>3. PICK n \in (1..MaxNative) \ Settled :
           /\ \A m \in 1..(n-1) : m \in Settled
           /\ ready' = [ready EXCEPT ![t] = Append(@, n)]
    BY DEF SettleNative
  <1>4. parked' = parked /\ curCo' = curCo /\ thread' = thread /\ outbox' = outbox
    BY DEF SettleNative, chans
  <1>5. /\ ready'[t] = Append(ready[t], n) /\ \A u \in Threads : u # t => ready'[u] = ready[u]
        /\ \A u \in Threads : ready[u] \in Seq(1..MaxNative)
    BY <1>0, <1>3 DEF DataTypes
  <1>6. PICK k \in Nat : k = Len(ready[t])
    BY <1>0, <1>5
  <1>7. /\ Len(ready'[t]) = k + 1 /\ ready'[t][k + 1] = n
        /\ \A i \in 1..k : ready'[t][i] = ready[t][i]
    <2>1. ready[t] \in Seq(1..MaxNative) /\ n \in 1..MaxNative
      BY <1>0, <1>5
    <2>2. /\ Len(Append(ready[t], n)) = Len(ready[t]) + 1
          /\ \A i \in 1..Len(ready[t]) : Append(ready[t], n)[i] = ready[t][i]
          /\ Append(ready[t], n)[Len(ready[t]) + 1] = n
      BY <2>1, Pushed
    <2> QED
      BY <1>5, <1>6, <2>2
  <1>8. SettledAre /\ SettledAre'
    BY SettledIs, PTL
  <1>9. \A u \in Threads : \A i \in 1..Len(ready[u]) : ready[u][i] < n
    <2>1. SUFFICES ASSUME NEW u \in Threads, NEW i \in 1..Len(ready[u]), ~(ready[u][i] < n)
                   PROVE  FALSE
      OBVIOUS
    <2>2. ready[u][i] \in Settled
      BY <1>8 DEF SettledAre, Elements
    <2>3. ready[u][i] \in 1..MaxNative
      <3>1. ready[u] \in Seq(1..MaxNative)
        BY <1>5
      <3> QED
        BY <3>1, ElementOfSeq
    <2>4. n \in 1..ready[u][i]
      BY <2>1, <2>3
    <2> QED
      BY <1>3, <2>2, <2>4 DEF PassInv, SettledFirst
  <1>10. ReadyRuns'
    <2>1. SUFFICES ASSUME NEW h \in Cos, ~InChain(h)' \/ thread'[h] # "run"
                   PROVE  ready'[h] = <<>>
      BY DEF ReadyRuns
    <2>2. ~InChain(h) \/ thread[h] # "run"
      BY <1>4, <2>1 DEF InChain
    <2>3. InChain(t)
      BY <1>0, <1>1 DEF InChain, Top, ControlTypes
    <2>4. h # t
      BY <1>1, <2>2, <2>3 DEF Runs
    <2> QED
      BY <1>5, <2>2, <2>4 DEF PassInv, ReadyRuns, Threads
  <1>11. CallersFirst'
    <2>1. SUFFICES ASSUME NEW i \in 1..Len(curCo) + 1, NEW j \in 1..Len(curCo) + 1, i < j
                   PROVE  Before(ready'[Caller(i)], ready'[Caller(j)])
      BY <1>4 DEF CallersFirst, Caller
    <2>2. /\ Len(curCo) \in Nat /\ Caller(i) \in Threads /\ Caller(j) \in Threads
          /\ Caller(Len(curCo) + 1) = t
          /\ Caller(i) = t => i = Len(curCo) + 1
      <3>1. /\ Len(curCo) \in Nat /\ Caller(i) \in Threads /\ Caller(j) \in Threads
            /\ Caller(Len(curCo) + 1) = t
        BY <1>0, <1>1, CallersAre
      <3>2. Len(curCo) + 1 \in 1..Len(curCo) + 1
        BY <3>1
      <3> QED
        BY <1>0, <3>1, <3>2, CallersAre
    <2>3. Caller(i) # t /\ ready'[Caller(i)] = ready[Caller(i)]
      BY <1>5, <2>1, <2>2
    <2>4. Before(ready[Caller(i)], ready[Caller(j)])
      BY <2>1 DEF PassInv, CallersFirst
    <2>5. CASE Caller(j) = t
      <3>1. \A q \in 1..k+1 : q \in 1..k \/ q = k + 1
        BY <1>6
      <3>2. \A p \in 1..Len(ready[Caller(i)]), q \in 1..k+1 : ready[Caller(i)][p] < ready'[t][q]
        BY <1>6, <1>7, <1>9, <2>2, <2>4, <2>5, <3>1 DEF Before
      <3> QED
        BY <1>7, <2>3, <2>5, <3>2 DEF Before
    <2>6. CASE Caller(j) # t
      BY <1>5, <2>2, <2>3, <2>4, <2>6
    <2> QED
      BY <2>5, <2>6
  <1>12. ParkedLast'
    <2>1. Increasing(ready[t])
      BY <1>0 DEF PassInv, ParkedLast
    <2>2. ASSUME NEW i \in 1..k+1, NEW j \in 1..k+1, i < j
          PROVE  ready'[t][i] < ready'[t][j]
      <3>1. i \in 1..k /\ (j \in 1..k \/ j = k + 1)
        BY <1>6, <2>2
      <3>2. CASE j \in 1..k
        BY <1>6, <1>7, <2>1, <2>2, <3>1, <3>2 DEF Increasing
      <3>3. CASE j = k + 1
        BY <1>0, <1>6, <1>7, <1>9, <3>1, <3>3
      <3> QED
        BY <3>1, <3>2, <3>3
    <2>3. Increasing(ready'[t])
      BY <1>7, <2>2 DEF Increasing
    <2>4. ASSUME NEW u \in Threads
          PROVE  Increasing(ready'[u])
      BY <1>5, <2>3, <2>4 DEF PassInv, ParkedLast
    <2>5. parked' = <<>>
      BY <1>2, <1>4
    <2> QED
      BY <2>4, <2>5, BeforeEmpty DEF ParkedLast, Before, Increasing
  <1>13. ParkedMoves'
    BY <1>4 DEF PassInv, ParkedMoves, Top
  <1>14. SettledFirst'
    <2>1. Elements(ready'[t]) = Elements(ready[t]) \cup {n}
      <3>1. \A q \in 1..k+1 : q \in 1..k \/ q = k + 1
        BY <1>6
      <3>2. k + 1 \in 1..k+1 /\ \A q \in 1..k : q \in 1..k+1
        BY <1>6
      <3> QED
        BY <1>6, <1>7, <3>1, <3>2 DEF Elements
    <2>2. \A m : m \in Settled' <=> m \in Settled \/ m = n
      BY <1>0, <1>4, <1>5, <1>8, <2>1 DEF SettledAre
    <2>3. \A m \in 1..n : m = n \/ m \in 1..(n-1)
      BY <1>3
    <2> QED
      BY <1>3, <2>2, <2>3 DEF PassInv, SettledFirst
  <1> QED
    BY <1>10, <1>11, <1>12, <1>13, <1>14 DEF PassInv

\* Continuations and control together, step by step.
LEMMA PassInit == Init => PassInv
  <1> SUFFICES ASSUME Init PROVE PassInv
    OBVIOUS
  <1>1. /\ curCo = <<>> /\ parked = <<>>
        /\ \A t \in Threads : ready[t] = <<>>
    BY DEF Init
  <1>2. Len(curCo) = 0
    BY <1>1
  <1>3. ReadyRuns /\ ParkedMoves
    BY <1>1 DEF ReadyRuns, ParkedMoves, Threads
  <1>4. CallersFirst
    BY <1>2 DEF CallersFirst
  <1>5. ParkedLast
    BY <1>1, BeforeEmpty DEF ParkedLast
  <1>6. Range(<<>>) = {}
    BY DEF Range
  <1>7. Settled = {}
    BY <1>1, <1>6 DEF Settled
  <1> QED
    BY <1>3, <1>4, <1>5, <1>7 DEF PassInv, SettledFirst

LEMMA PassStep ==
    ASSUME ControlInv, ControlInv', DataTypes, DataTypes', PassInv, Moves
    PROVE  PassInv'
  <1>0. ControlTypes /\ ChainInv
    BY DEF ControlInv
  <1>1. ASSUME NEW t \in Threads, NEW g \in Cos, Pushes(t, g), UNCHANGED native
        PROVE  PassInv'
    BY <1>1, PushKeepsPass
  <1>2. ASSUME NEW t \in Threads, Marks(t), UNCHANGED native
        PROVE  PassInv'
    BY <1>2, StillKeepsPass DEF Marks
  <1>3. ASSUME NEW g \in Cos, TopMoves(g), Called(g), Runs(g)', UNCHANGED native
        PROVE  PassInv'
    <2>1. parked = <<>>
      BY <1>3 DEF TopMoves, Called, PassInv, ParkedMoves
    <2> QED
      BY <1>3, <2>1, StillKeepsPass DEF TopMoves, Quiet, Runs
  <1>4. ASSUME Calms, UNCHANGED native
        PROVE  PassInv'
    <2>1. curCo # <<>> => Top \in Cos /\ InChain(Top)
      <3>1. curCo # <<>> => Len(curCo) \in 1..Len(curCo)
        BY <1>0 DEF ControlTypes
      <3> QED
        BY <1>0, <3>1 DEF ControlTypes, Top, InChain
    <2>2. parked # <<>> => outbox'[Top] = outbox[Top]
      BY <1>4, <2>1 DEF Calms, Quiet, PassInv, ParkedMoves
    <2> QED
      BY <1>4, <2>2, StillKeepsPass DEF Calms, Quiet
  <1>5. ASSUME NEW g \in Cos, TopMoves(g), Runs(g), NEW y, HandBack(g, y)
        PROVE  PassInv'
    BY <1>5, HandBackKeepsPass
  <1>6. ASSUME NEW t \in Threads, NEW g \in Cos, ReceiveMoves(t, g)
        PROVE  PassInv'
    BY <1>6, ReceiveKeepsPass
  <1>7. ASSUME NEW t \in Cos, SettleNative(t)
        PROVE  PassInv'
    BY <1>7, SettleNativeKeepsPass
  <1> QED
    BY <1>1, <1>2, <1>3, <1>4, <1>5, <1>6, <1>7 DEF Moves

LEMMA PassAlways == ~EarlyCalls => (Spec => [](ControlInv /\ DataTypes /\ PassInv))
  <1> SUFFICES ASSUME ~EarlyCalls PROVE Spec => [](ControlInv /\ DataTypes /\ PassInv)
    OBVIOUS
  <1>1. Init => ControlInv /\ DataTypes /\ PassInv
    BY ControlInit, DataInit, PassInit
  <1>2. ControlInv /\ DataTypes /\ PassInv /\ [Next]_vars => ControlInv' /\ DataTypes' /\ PassInv'
    <2> SUFFICES ASSUME ControlInv, DataTypes, PassInv, [Next]_vars
                 PROVE  ControlInv' /\ DataTypes' /\ PassInv'
      OBVIOUS
    <2>1. DataTypes'
      BY DataStep
    <2>2. ControlInv' /\ Moves
      <3>1. CASE Next
        BY <3>1, <2>1, ControlMoves
      <3>2. CASE UNCHANGED vars
        <4>1. ControlInv' /\ Calms
          BY <2>1, <3>2, CalmControl DEF vars, gens, chans
        <4> QED
          BY <3>2, <4>1 DEF Moves, vars, native
      <3> QED
        BY <3>1, <3>2
    <2> QED
      BY <2>1, <2>2, PassStep
  <1> QED
    BY <1>1, <1>2, PTL DEF Spec

\* No continuation stays with a thread that has handed back, none waits in the
\* parking place without a message on its way, and every thread holds its own in
\* the order they were settled in (thaw_runtime_park_ready,
\* thaw_runtime_adopt_ready and their calls in co_wait and gen_resume).
THEOREM ContinuationsArrive == ~EarlyCalls => (Spec => []ContinuationsReachHost)
  <1>1. ControlInv /\ DataTypes /\ PassInv => ContinuationsReachHost
    <2> SUFFICES ASSUME ControlInv, PassInv PROVE ContinuationsReachHost
      OBVIOUS
    <2>1. \A g \in Cos : thread[g] \notin {"run", "lost"} => ready[g] = <<>>
      BY DEF PassInv, ReadyRuns
    <2>2. parked # <<>> => \E g \in Cos : outbox[g] # <<>>
      <3>1. curCo # <<>> => Top \in Cos
        BY DEF ControlInv, ControlTypes, Top
      <3> QED
        BY <3>1 DEF PassInv, ParkedMoves
    <2> QED
      BY <2>1, <2>2 DEF ContinuationsReachHost, PassInv, ParkedLast
  <1> QED
    BY <1>1, PassAlways, PTL

-----------------------------------------------------------------------------
(* Requests of async generators and their answers.                         *)

\* Each answer of a generator is to a later request than the one before, and
\* after it is done it stays done.
Ordered(log) == \A i, j \in 1..Len(log) :
                   i < j /\ log[i].gen = log[j].gen =>
                      log[i].id < log[j].id /\ (log[i].done => log[j].done)

\* The requests that wait come after those that are answered; n were made.
Fits(log, q, g, n) ==
    /\ \A k \in 1..Len(q) : q[k].id <= n
    /\ \A k, l \in 1..Len(q) : k < l => q[k].id < q[l].id
    /\ \A k \in 1..Len(q), i \in 1..Len(log) : log[i].gen = g => log[i].id < q[k].id

LogAsked(log, n) == \A i \in 1..Len(log) : log[i].id <= n

\* Whose answers say done: those of st, which is the status of g, and of others.
DoneAs(log, g, st) == \A i \in 1..Len(log) : log[i].done =>
                         IF log[i].gen = g THEN st = "Done" ELSE status[log[i].gen] = "Done"

DoneStays == \A i \in 1..Len(answers) : answers[i].done => status[answers[i].gen] = "Done"

\* A body that runs, or is being started, does so for a request.
HasRequest(g) == Started(g) \/ status[g] = "Running" => queue[g] # <<>>

AnsInv ==
    /\ Ordered(answers) /\ LogAsked(answers, asked) /\ DoneStays
    /\ \A g \in AsyncGens : Fits(answers, queue[g], g, asked) /\ HasRequest(g)

\* Steps that leave the requests and the answers alone.
LEMMA AnsStill ==
    ASSUME DataTypes, DataTypes', AnsInv, queue' = queue, answers' = answers, asked <= asked',
           \A h \in AsyncGens : /\ Started(h)' => Started(h)
                                /\ status'[h] = "Running" => status[h] = "Running" \/ Started(h)
                                /\ status[h] = "Done" => status'[h] = "Done"
    PROVE  AnsInv'
  <1>1. asked \in Nat /\ asked' \in Nat
    BY DEF DataTypes
  <1>2. \A i \in 1..Len(answers) : answers[i].id \in Nat /\ answers[i].gen \in AsyncGens
    <2>1. \A i \in 1..Len(answers) : answers[i] \in AnswerRecord
      BY DEF DataTypes
    <2> QED
      BY <2>1, CoroutinesAssumption DEF AnswerRecord
  <1>3. \A g \in AsyncGens : \A k \in 1..Len(queue[g]) : queue[g][k].id \in Nat
    <2>1. \A g \in AsyncGens : queue[g] \in Seq(Request)
      BY DEF DataTypes, Cos
    <2>2. \A g \in AsyncGens : \A k \in 1..Len(queue[g]) : queue[g][k] \in Request
      BY <2>1
    <2> QED
      BY <2>2, CoroutinesAssumption DEF Request
  <1>4. Ordered(answers)'
    BY DEF AnsInv, Ordered
  <1>5. LogAsked(answers, asked)'
    BY <1>1, <1>2 DEF AnsInv, LogAsked
  <1>6. DoneStays'
    BY <1>2 DEF AnsInv, DoneStays
  <1>7. \A g \in AsyncGens : Fits(answers, queue[g], g, asked)'
    BY <1>1, <1>3 DEF AnsInv, Fits
  <1>8. \A g \in AsyncGens : HasRequest(g)'
    BY DEF AnsInv, HasRequest
  <1> QED
    BY <1>4, <1>5, <1>6, <1>7, <1>8 DEF AnsInv

\* What agen_drive can come to.
LEMMA DriveEnds ==
    ASSUME ControlTypes, DataTypes, NEW t \in Threads, NEW g \in AsyncGens, NEW st \in GStatus,
           NEW q \in Seq(Request), NEW log \in Seq(AnswerRecord), NEW stack,
           Drive(t, g, st, q, log, stack), ~Started(g)
    PROVE  /\ \A h \in AsyncGens : h # g =>
                 /\ queue'[h] = queue[h] /\ status'[h] = status[h]
                 /\ Started(h)' => Started(h)
           /\ \/ /\ answers' = log /\ queue'[g] = q
                 /\ st = "Done" => status'[g] = "Done"
                 /\ q = <<>> => ~Started(g)' /\ (st # "Running" => status'[g] # "Running")
              \/ /\ answers' = log \o FinishedAll(g, q) /\ queue'[g] = <<>>
                 /\ status'[g] = "Done" /\ ~Started(g)'
  <1> DEFINE s == IF st = "Start" /\ q # <<>> /\ Head(q).req # "next" THEN "Done" ELSE st
  <1>1. g \in Cos /\ \A h \in AsyncGens : h \in Cos
    BY DEF Cos
  <1>2. s = st \/ s = "Done"
    OBVIOUS
  <1>3. \/ status' = [status EXCEPT ![g] = s]
        \/ status' = [status EXCEPT ![g] = "Done"]
        \/ status' = [status EXCEPT ![g] = "Running"]
    BY DEF Drive
  <1>4. queue' = [queue EXCEPT ![g] = q] \/ queue' = [queue EXCEPT ![g] = <<>>]
    BY DEF Drive
  <1>5. starting' = starting \/ starting' = [starting EXCEPT ![t] = g]
    BY DEF Drive, GoOn, Spawn, Panic, CoStep
  <1>6. ASSUME NEW h \in AsyncGens, h # g
        PROVE  /\ queue'[h] = queue[h] /\ status'[h] = status[h]
               /\ Started(h)' => Started(h)
    <2>1. queue'[h] = queue[h]
      BY <1>1, <1>4, <1>6 DEF DataTypes
    <2>2. status'[h] = status[h]
      BY <1>1, <1>3, <1>6 DEF ControlTypes
    <2>3. Started(h)' => Started(h)
      BY <1>5, <1>6 DEF Started, ControlTypes
    <2> QED
      BY <2>1, <2>2, <2>3
  <1>7. starting' = starting => ~Started(g)'
    BY DEF Started
  <1>8. CASE s = "Done" /\ q # <<>> /\ ~Busy(s)
    <2>1. /\ status' = [status EXCEPT ![g] = s] /\ queue' = [queue EXCEPT ![g] = <<>>]
          /\ answers' = log \o FinishedAll(g, q) /\ GoOn(t, stack)
      BY <1>8 DEF Drive, FinishedAll
    <2>2. status'[g] = "Done" /\ queue'[g] = <<>>
      BY <1>1, <1>8, <2>1 DEF ControlTypes, DataTypes
    <2> QED
      BY <1>6, <1>7, <2>1, <2>2 DEF GoOn
  <1>9. CASE Busy(s) \/ q = <<>>
    <2>1. /\ status' = [status EXCEPT ![g] = s] /\ queue' = [queue EXCEPT ![g] = q]
          /\ answers' = log /\ GoOn(t, stack)
      BY <1>9 DEF Drive, Busy
    <2>2. status'[g] = s /\ queue'[g] = q
      BY <1>1, <2>1 DEF ControlTypes, DataTypes
    <2> QED
      BY <1>2, <1>6, <1>7, <2>1, <2>2 DEF GoOn
  <1>10. CASE s # "Done" /\ ~Busy(s) /\ q # <<>>
    <2>1. answers' = log /\ queue' = [queue EXCEPT ![g] = q]
      BY <1>10 DEF Drive
    <2>2. queue'[g] = q
      BY <1>1, <2>1 DEF DataTypes
    <2> QED
      BY <1>2, <1>6, <1>10, <2>1, <2>2
  <1> QED
    BY <1>8, <1>9, <1>10 DEF Busy

LEMMA LogIds ==
    ASSUME NEW log \in Seq(AnswerRecord)
    PROVE  /\ Len(log) \in Nat
           /\ \A i \in 1..Len(log) : log[i].id \in Nat /\ log[i].gen \in AsyncGens
  <1>1. \A i \in 1..Len(log) : log[i] \in AnswerRecord
    OBVIOUS
  <1> QED
    BY <1>1, CoroutinesAssumption DEF AnswerRecord

LEMMA QueueIds ==
    ASSUME NEW q \in Seq(Request)
    PROVE  Len(q) \in Nat /\ \A k \in 1..Len(q) : q[k].id \in Nat
  <1>1. \A k \in 1..Len(q) : q[k] \in Request
    OBVIOUS
  <1> QED
    BY <1>1, CoroutinesAssumption DEF Request

\* A generator that is done answers all that waits, in order.
LEMMA FlushKeepsOrder ==
    ASSUME NEW g \in AsyncGens, NEW q \in Seq(Request), NEW log \in Seq(AnswerRecord), NEW n \in Nat,
           Ordered(log), LogAsked(log, n), Fits(log, q, g, n)
    PROVE  LET all == log \o FinishedAll(g, q)
           IN  /\ Ordered(all) /\ LogAsked(all, n)
               /\ \A i \in 1..Len(all) : \/ i \in 1..Len(log) /\ all[i] = log[i]
                                         \/ all[i].gen = g
  <1> DEFINE all == log \o FinishedAll(g, q)
  <1>1. PICK m \in Nat : m = Len(log)
    BY LogIds
  <1>2. PICK k \in Nat : k = Len(q)
    BY QueueIds
  <1>3. /\ FinishedAll(g, q) \in Seq(AnswerRecord) /\ Len(FinishedAll(g, q)) = k
        /\ \A i \in 1..k : /\ FinishedAll(g, q)[i].gen = g /\ FinishedAll(g, q)[i].id = q[i].id
                           /\ FinishedAll(g, q)[i].done = TRUE
    <2>1. /\ FinishedAll(g, q) \in Seq(AnswerRecord) /\ Len(FinishedAll(g, q)) = k
          /\ \A i \in 1..k : FinishedAll(g, q)[i] = Finished(g, q[i])
      BY <1>2, FinishedTypes
    <2>2. \A r : Finished(g, r).gen = g /\ Finished(g, r).id = r.id /\ Finished(g, r).done = TRUE
      BY DEF Finished
    <2> QED
      BY <2>1, <2>2
  <1>4. /\ Len(all) = m + k
        /\ \A i \in 1..m+k : all[i] = IF i <= m THEN log[i] ELSE FinishedAll(g, q)[i - m]
    <2>1. PICK f \in Seq(AnswerRecord) : f = FinishedAll(g, q) /\ Len(f) = k
      BY <1>3
    <2>2. /\ Len(log \o f) = Len(log) + Len(f)
          /\ \A i \in 1..Len(log) + Len(f) :
                (log \o f)[i] = IF i <= Len(log) THEN log[i] ELSE f[i - Len(log)]
      BY ConcatProperties
    <2> QED
      BY <1>1, <2>1, <2>2
  <1> HIDE DEF all
  <1>5. \A i \in 1..m : i \in 1..m+k /\ all[i] = log[i]
    BY <1>1, <1>2, <1>4
  <1>6. ASSUME NEW i \in 1..m+k, i \notin 1..m
        PROVE  /\ i - m \in 1..k /\ all[i].gen = g /\ all[i].id = q[i - m].id
               /\ all[i].done = TRUE
    <2>1. i - m \in 1..k /\ ~(i <= m)
      BY <1>1, <1>2, <1>6
    <2> QED
      BY <1>3, <1>4, <2>1
  <1>7. LogAsked(all, n)
    BY <1>1, <1>2, <1>4, <1>5, <1>6 DEF LogAsked, Fits
  <1>8. ASSUME NEW i \in 1..m+k, NEW j \in 1..m+k, i < j, all[i].gen = all[j].gen
        PROVE  all[i].id < all[j].id /\ (all[i].done => all[j].done)
    <2>1. CASE j \in 1..m
      <3>1. i \in 1..m
        BY <1>1, <1>8, <2>1
      <3>2. all[i] = log[i] /\ all[j] = log[j]
        BY <1>5, <2>1, <3>1
      <3> QED
        BY <1>1, <1>8, <2>1, <3>1, <3>2 DEF Ordered
    <2>2. CASE i \in 1..m /\ j \notin 1..m
      <3>1. all[i] = log[i] /\ log[i].gen = g
        BY <1>5, <1>6, <1>8, <2>2
      <3>2. j - m \in 1..k /\ all[j].id = q[j - m].id /\ all[j].done = TRUE
        BY <1>6, <2>2
      <3>3. log[i].id < q[j - m].id
        BY <1>1, <1>2, <2>2, <3>1, <3>2 DEF Fits
      <3> QED
        BY <3>1, <3>2, <3>3
    <2>3. CASE i \notin 1..m /\ j \notin 1..m
      <3>1. i - m < j - m
        BY <1>8
      <3> QED
        BY <1>2, <1>6, <2>3, <3>1 DEF Fits
    <2> QED
      BY <1>1, <1>8, <2>1, <2>2, <2>3
  <1>9. Ordered(all)
    BY <1>4, <1>8 DEF Ordered
  <1>10. \A i \in 1..Len(all) : (i \in 1..Len(log) /\ all[i] = log[i]) \/ all[i].gen = g
    BY <1>1, <1>4, <1>5, <1>6
  <1> QED
    BY <1>7, <1>9, <1>10 DEF all

\* agen_drive.
LEMMA DriveKeepsAnswers ==
    ASSUME ControlTypes, DataTypes, DataTypes', NEW t \in Threads, NEW g \in AsyncGens,
           NEW st \in GStatus, NEW q \in Seq(Request), NEW log \in Seq(AnswerRecord), NEW stack,
           Drive(t, g, st, q, log, stack), ~Started(g), q = <<>> => st # "Running",
           Ordered(log), LogAsked(log, asked'), DoneAs(log, g, st), Fits(log, q, g, asked'),
           \A h \in AsyncGens : h # g => Fits(log, queue[h], h, asked') /\ HasRequest(h)
    PROVE  AnsInv'
  <1>1. \A h \in AsyncGens : h # g =>
           queue'[h] = queue[h] /\ status'[h] = status[h] /\ (Started(h)' => Started(h))
    BY DriveEnds
  <1>2. \A h \in AsyncGens : h # g => HasRequest(h)'
    BY <1>1 DEF HasRequest
  <1>3. asked' \in Nat
    BY DEF DataTypes
  <1>4. \A i \in 1..Len(log) : log[i].gen \in AsyncGens
    BY LogIds
  <1>5. CASE /\ answers' = log /\ queue'[g] = q
             /\ st = "Done" => status'[g] = "Done"
             /\ q = <<>> => ~Started(g)' /\ (st # "Running" => status'[g] # "Running")
    <2>1. HasRequest(g)'
      BY <1>5 DEF HasRequest
    <2>2. DoneStays'
      BY <1>1, <1>4, <1>5 DEF DoneStays, DoneAs
    <2>3. \A h \in AsyncGens : Fits(answers, queue[h], h, asked)'
      BY <1>1, <1>5 DEF Fits
    <2>4. Ordered(answers)' /\ LogAsked(answers, asked)'
      BY <1>5 DEF Ordered, LogAsked
    <2> QED
      BY <1>2, <2>1, <2>2, <2>3, <2>4 DEF AnsInv
  <1>6. CASE /\ answers' = log \o FinishedAll(g, q) /\ queue'[g] = <<>>
             /\ status'[g] = "Done" /\ ~Started(g)'
    <2>1. /\ Ordered(answers') /\ LogAsked(answers', asked')
          /\ \A i \in 1..Len(answers') : \/ i \in 1..Len(log) /\ answers'[i] = log[i]
                                         \/ answers'[i].gen = g
      BY <1>3, <1>6, FlushKeepsOrder
    <2>2. HasRequest(g)'
      BY <1>6 DEF HasRequest
    <2>3. DoneStays'
      BY <1>1, <1>4, <1>6, <2>1 DEF DoneStays, DoneAs
    <2>4. ASSUME NEW h \in AsyncGens
          PROVE  Fits(answers, queue[h], h, asked)'
      <3>1. CASE h = g
        BY <1>6, <3>1 DEF Fits
      <3>2. CASE h # g
        BY <1>1, <2>1, <3>2 DEF Fits
      <3> QED
        BY <3>1, <3>2
    <2>5. Ordered(answers)' /\ LogAsked(answers, asked)'
      BY <2>1 DEF Ordered, LogAsked
    <2> QED
      BY <1>2, <2>2, <2>3, <2>4, <2>5 DEF AnsInv
  <1>7. \/ /\ answers' = log /\ queue'[g] = q
           /\ st = "Done" => status'[g] = "Done"
           /\ q = <<>> => ~Started(g)' /\ (st # "Running" => status'[g] # "Running")
        \/ /\ answers' = log \o FinishedAll(g, q) /\ queue'[g] = <<>>
           /\ status'[g] = "Done" /\ ~Started(g)'
    BY DriveEnds
  <1> QED
    BY <1>5, <1>6, <1>7

\* The front request is answered; agen_done says done, agen_yielded says a value.
LEMMA AnswerKeepsOrder ==
    ASSUME DataTypes, AnsInv, NEW g \in AsyncGens, NEW done \in BOOLEAN, NEW ok \in BOOLEAN,
           NEW st, IF done THEN st = "Done" ELSE status[g] # "Done",
           status[g] = "Done" => st = "Done"
    PROVE  LET log == Answer(g, done, ok)
               q   == Pop(queue[g])
           IN  /\ Ordered(log) /\ LogAsked(log, asked) /\ DoneAs(log, g, st)
               /\ Fits(log, q, g, asked)
               /\ \A h \in AsyncGens : h # g => Fits(log, queue[h], h, asked)
  <1>1. queue[g] \in Seq(Request) /\ answers \in Seq(AnswerRecord)
    BY DEF DataTypes, Cos
  <1>2. /\ Ordered(answers) /\ LogAsked(answers, asked) /\ DoneStays
        /\ \A h \in AsyncGens : Fits(answers, queue[h], h, asked)
    BY DEF AnsInv
  <1>3. DoneAs(answers, g, st)
    BY <1>2 DEF DoneAs, DoneStays
  <1>4. CASE queue[g] = <<>>
    BY <1>2, <1>3, <1>4 DEF Answer, Pop
  <1>5. CASE queue[g] # <<>>
    <2> DEFINE a == [gen |-> g, id |-> Head(queue[g]).id, done |-> done, ok |-> ok]
    <2>1. Answer(g, done, ok) = Append(answers, a) /\ Pop(queue[g]) = Tail(queue[g])
      BY <1>5 DEF Answer, Pop
    <2>2. PICK m \in Nat : m = Len(answers)
      BY <1>1, LogIds
    <2>3. PICK k \in Nat : k + 1 = Len(queue[g])
      <3>1. Len(queue[g]) \in Nat \ {0}
        BY <1>1, <1>5
      <3>2. Len(queue[g]) - 1 \in Nat /\ (Len(queue[g]) - 1) + 1 = Len(queue[g])
        BY <3>1
      <3> QED
        BY <3>2
    <2>4. a \in AnswerRecord
      <3>1. Answer(g, done, ok) \in Seq(AnswerRecord)
        BY AnswerTypes
      <3>2. Head(queue[g]) \in Request
        BY <1>1, <1>5, HeadTailProperties
      <3> QED
        BY <3>2 DEF AnswerRecord, Request
    <2>5. /\ Head(queue[g]) = queue[g][1] /\ 1 \in 1..k+1
          /\ Len(Tail(queue[g])) = k /\ \A i \in 1..k : Tail(queue[g])[i] = queue[g][i + 1]
      <3>1. /\ Len(Tail(queue[g])) = Len(queue[g]) - 1
            /\ \A i \in 1..Len(Tail(queue[g])) : Tail(queue[g])[i] = queue[g][i + 1]
        BY <1>1, <1>5, HeadTailProperties
      <3> QED
        BY <1>1, <1>5, <2>3, <3>1
    <2>6. a.gen = g /\ a.id = queue[g][1].id /\ a.done = done
      BY <2>5
    <2> HIDE DEF a
    <2>7. /\ Len(Append(answers, a)) = m + 1 /\ Append(answers, a)[m + 1] = a
          /\ \A i \in 1..m : Append(answers, a)[i] = answers[i]
      BY <1>1, <2>2, <2>4, Pushed
    <2> DEFINE log == Append(answers, a)
    <2> HIDE DEF log
    <2>8. /\ Len(log) = m + 1 /\ log[m + 1] = a
          /\ \A i \in 1..m : log[i] = answers[i]
          /\ \A i \in 1..m+1 : i \in 1..m \/ i = m + 1
      BY <2>2, <2>7 DEF log
    <2>9. Fits(answers, queue[g], g, asked)
      BY <1>2
    <2>10. LogAsked(log, asked)
      BY <1>2, <2>2, <2>3, <2>5, <2>6, <2>8, <2>9 DEF LogAsked, Fits
    <2>11. DoneAs(log, g, st)
      BY <1>3, <2>2, <2>6, <2>8 DEF DoneAs
    <2>12. ASSUME NEW i \in 1..m+1, NEW j \in 1..m+1, i < j, log[i].gen = log[j].gen
           PROVE  log[i].id < log[j].id /\ (log[i].done => log[j].done)
      <3>1. i \in 1..m
        BY <2>2, <2>12
      <3>2. CASE j \in 1..m
        BY <1>2, <2>2, <2>8, <2>12, <3>1, <3>2 DEF Ordered
      <3>3. CASE j = m + 1
        <4>1. answers[i].gen = g /\ log[i] = answers[i] /\ log[j] = a
          BY <2>6, <2>8, <2>12, <3>1, <3>3
        <4>2. answers[i].id < queue[g][1].id
          BY <2>2, <2>3, <2>5, <2>9, <3>1, <4>1 DEF Fits
        <4>3. answers[i].done => done
          BY <1>2, <2>2, <3>1, <4>1 DEF DoneStays
        <4> QED
          BY <2>6, <4>1, <4>2, <4>3
      <3> QED
        BY <2>8, <3>2, <3>3
    <2>13. Ordered(log)
      BY <2>8, <2>12 DEF Ordered
    <2>14. Fits(log, Tail(queue[g]), g, asked)
      <3>1. \A i \in 1..k : i + 1 \in 1..k+1 /\ 1 < i + 1
        BY <2>3
      <3>2. \A i \in 1..k : queue[g][i + 1].id <= asked /\ queue[g][1].id < queue[g][i + 1].id
        BY <2>3, <2>5, <2>9, <3>1 DEF Fits
      <3>3. \A i, j \in 1..k : i < j => queue[g][i + 1].id < queue[g][j + 1].id
        <4>1. \A i, j \in 1..k : i < j => i + 1 < j + 1
          BY <2>3
        <4> QED
          BY <2>3, <2>9, <3>1, <4>1 DEF Fits
      <3>4. ASSUME NEW i \in 1..k, NEW p \in 1..m+1, log[p].gen = g
            PROVE  log[p].id < queue[g][i + 1].id
        <4>1. CASE p = m + 1
          BY <2>6, <2>8, <3>2, <4>1
        <4>2. CASE p \in 1..m
          BY <2>2, <2>3, <2>8, <2>9, <3>1, <3>4, <4>2 DEF Fits
        <4> QED
          BY <2>8, <4>1, <4>2
      <3> QED
        BY <2>5, <2>8, <3>2, <3>3, <3>4 DEF Fits
    <2>15. ASSUME NEW h \in AsyncGens, h # g
           PROVE  Fits(log, queue[h], h, asked)
      <3>1. Fits(answers, queue[h], h, asked)
        BY <1>2
      <3> QED
        BY <2>2, <2>6, <2>8, <2>15, <3>1 DEF Fits
    <2> QED
      BY <2>1, <2>10, <2>11, <2>13, <2>14, <2>15 DEF log
  <1> QED
    BY <1>4, <1>5

\* agen_enqueue.
LEMMA EnqueueKeepsAnswers ==
    ASSUME ControlInv, DataTypes, DataTypes', ~EarlyCalls, AnsInv, NEW t \in Threads, NEW g \in Cos,
           NEW req \in Reqs, Enqueue(t, g, req)
    PROVE  AnsInv'
  <1> DEFINE q == Append(queue[g], [req |-> req, id |-> asked'])
  <1>1. /\ g \in AsyncGens /\ asked' = asked + 1 /\ ~Started(g)
        /\ Drive(t, g, status[g], q, answers, curCo)
    BY DEF Enqueue, Callable, Started
  <1>2. ControlTypes /\ status[g] \in GStatus
    BY DEF ControlInv, ControlTypes
  <1>3. queue[g] \in Seq(Request) /\ answers \in Seq(AnswerRecord) /\ asked \in Nat
    BY DEF DataTypes
  <1>4. [req |-> req, id |-> asked'] \in Request
    <2>1. asked' \in 1..MaxRequests
      BY <1>1, <1>3 DEF DataTypes
    <2> QED
      BY <2>1 DEF Request
  <1>5. PICK k \in Nat : k = Len(queue[g])
    BY <1>3, QueueIds
  <1>6. /\ q \in Seq(Request) /\ Len(q) = k + 1
        /\ \A i \in 1..k : q[i] = queue[g][i]
        /\ q[k + 1] = [req |-> req, id |-> asked']
    BY <1>3, <1>4, <1>5, Pushed
  <1> HIDE DEF q
  <1>7. q[k + 1].id = asked + 1 /\ \A i \in 1..k+1 : i \in 1..k \/ i = k + 1
    BY <1>1, <1>5, <1>6
  <1>8. \A i \in 1..k : queue[g][i].id \in Nat
    BY <1>3, <1>5, QueueIds
  <1>9. \A i \in 1..Len(answers) : answers[i].id \in Nat
    BY <1>3, LogIds
  <1>10. LogAsked(answers, asked) /\ Ordered(answers) /\ DoneAs(answers, g, status[g])
    BY DEF AnsInv, DoneStays, DoneAs
  <1>11. LogAsked(answers, asked')
    BY <1>1, <1>3, <1>9, <1>10 DEF LogAsked
  <1>12. Fits(answers, q, g, asked')
    <2>1. Fits(answers, queue[g], g, asked)
      BY <1>1 DEF AnsInv
    <2>2. ASSUME NEW i \in 1..k+1
          PROVE  q[i].id <= asked'
      <3>1. CASE i \in 1..k
        <4>1. queue[g][i].id <= asked
          BY <1>5, <2>1, <3>1 DEF Fits
        <4>2. q[i].id = queue[g][i].id /\ q[i].id \in Nat
          BY <1>6, <1>8, <3>1
        <4> QED
          BY <1>1, <1>3, <4>1, <4>2
      <3>2. CASE i = k + 1
        BY <1>1, <1>3, <1>7, <3>2
      <3> QED
        BY <1>7, <3>1, <3>2
    <2>3. ASSUME NEW i \in 1..k+1, NEW j \in 1..k+1, i < j
          PROVE  q[i].id < q[j].id
      <3>1. i \in 1..k
        BY <1>5, <2>3
      <3>2. CASE j \in 1..k
        BY <1>5, <1>6, <2>1, <2>3, <3>1, <3>2 DEF Fits
      <3>3. CASE j = k + 1
        <4>1. queue[g][i].id <= asked
          BY <1>5, <2>1, <3>1 DEF Fits
        <4> QED
          <5>1. q[i].id = queue[g][i].id /\ q[i].id \in Nat /\ q[j].id = asked + 1
            BY <1>6, <1>7, <1>8, <3>1, <3>3
          <5>2. PICK a \in Nat : a = q[i].id /\ a <= asked
            BY <4>1, <5>1
          <5>3. a < asked + 1
            BY <1>3, <5>2
          <5> QED
            BY <5>1, <5>2, <5>3
      <3> QED
        BY <1>7, <3>2, <3>3
    <2>4. ASSUME NEW i \in 1..k+1, NEW p \in 1..Len(answers), answers[p].gen = g
          PROVE  answers[p].id < q[i].id
      <3>1. CASE i \in 1..k
        BY <1>5, <1>6, <2>1, <2>4, <3>1 DEF Fits
      <3>2. CASE i = k + 1
        BY <1>3, <1>7, <1>9, <1>10, <3>2 DEF LogAsked
      <3> QED
        BY <1>7, <3>1, <3>2
    <2> QED
      BY <1>6, <2>2, <2>3, <2>4 DEF Fits
  <1>13. ASSUME NEW h \in AsyncGens, h # g
         PROVE  Fits(answers, queue[h], h, asked') /\ HasRequest(h)
    <2>1. Fits(answers, queue[h], h, asked) /\ HasRequest(h)
      BY DEF AnsInv
    <2>2. \A i \in 1..Len(queue[h]) : queue[h][i].id \in Nat
      <3>1. queue[h] \in Seq(Request)
        BY DEF DataTypes, Cos
      <3> QED
        BY <3>1, QueueIds
    <2> QED
      BY <1>1, <1>3, <2>1, <2>2 DEF Fits
  <1>14. q # <<>>
    BY <1>5, <1>6
  <1> QED
    BY <1>1, <1>2, <1>3, <1>6, <1>10, <1>11, <1>12, <1>13, <1>14, DriveKeepsAnswers

\* agen_yielded and agen_done.
LEMMA AnswerKeepsAnswers ==
    ASSUME ControlInv, DataTypes, DataTypes', AnsInv, NEW t \in Threads, NEW g \in AsyncGens,
           NEW y, Receive(t, g, y),
           AgenYielded(t, g) \/ \E ok \in BOOLEAN : AgenDone(t, g, ok)
    PROVE  AnsInv'
  <1>1. ControlTypes /\ g \in Cos /\ ~Started(g) /\ asked' = asked /\ status[g] = "Running"
    BY Received DEF ControlInv, Cos
  <1>2. Pop(queue[g]) \in Seq(Request)
    BY <1>1, PopTypes DEF DataTypes
  <1>3. \A h \in AsyncGens : HasRequest(h)
    BY DEF AnsInv
  <1>4. ASSUME NEW done \in BOOLEAN, NEW ok \in BOOLEAN,
               NEW st \in GStatus, IF done THEN st = "Done" ELSE st = "Suspended",
               Drive(t, g, st, Pop(queue[g]), Answer(g, done, ok), PopContext(curCo))
        PROVE  AnsInv'
    <2>1. Answer(g, done, ok) \in Seq(AnswerRecord)
      BY AnswerTypes
    <2>2. /\ Ordered(Answer(g, done, ok)) /\ LogAsked(Answer(g, done, ok), asked')
          /\ DoneAs(Answer(g, done, ok), g, st)
          /\ Fits(Answer(g, done, ok), Pop(queue[g]), g, asked')
          /\ \A h \in AsyncGens : h # g => Fits(Answer(g, done, ok), queue[h], h, asked')
      BY <1>1, <1>4, AnswerKeepsOrder
    <2>3. st # "Running"
      BY <1>4
    <2> QED
      BY <1>1, <1>2, <1>3, <1>4, <2>1, <2>2, <2>3, DriveKeepsAnswers
  <1>5. CASE AgenYielded(t, g)
    <2>1. "Suspended" \in GStatus
      BY DEF GStatus
    <2> QED
      BY <1>4, <1>5, <2>1 DEF AgenYielded
  <1>6. ASSUME NEW ok \in BOOLEAN, AgenDone(t, g, ok)
        PROVE  AnsInv'
    <2>1. "Done" \in GStatus
      BY DEF GStatus
    <2> QED
      BY <1>4, <1>6, <2>1 DEF AgenDone
  <1> QED
    BY <1>5, <1>6

\* Steps that neither ask nor answer; Mark makes the body run that is being started.
LEMMA QuietAnswers ==
    ASSUME DataTypes, DataTypes', AnsInv, queue' = queue, answers' = answers, asked' = asked,
           starting' = starting, \A h \in AsyncGens : status'[h] = status[h]
    PROVE  AnsInv'
  <1>1. asked <= asked'
    BY DEF DataTypes
  <1> QED
    BY <1>1, AnsStill DEF Started

LEMMA MarkKeepsAnswers ==
    ASSUME ControlInv, DataTypes, DataTypes', AnsInv, NEW t \in Threads, Mark(t)
    PROVE  AnsInv'
  <1>0. ControlTypes /\ ChainInv
    BY DEF ControlInv
  <1>1. /\ queue' = queue /\ answers' = answers /\ asked <= asked'
        /\ starting[t] \in Cos /\ status' = [status EXCEPT ![starting[t]] = "Running"]
        /\ starting' = [starting EXCEPT ![t] = None]
    BY <1>0 DEF Mark, DataTypes, ControlTypes
  <1>2. ASSUME NEW h \in AsyncGens
        PROVE  /\ Started(h)' => Started(h)
               /\ status'[h] = "Running" => status[h] = "Running" \/ Started(h)
               /\ status[h] = "Done" => status'[h] = "Done"
    <2>1. h \in Cos /\ h # None
      BY CoroutinesAssumption DEF Cos, Threads
    <2>2. Started(h)' => Started(h)
      BY <1>0, <1>1, <2>1 DEF Started, ControlTypes
    <2>3. Started(h) => status[h] # "Done"
      BY <1>0, <2>1, StartedIsInChain DEF ControlInv, Sound, StatusOf
    <2>4. status'[h] = IF h = starting[t] THEN "Running" ELSE status[h]
      BY <1>0, <1>1, <2>1 DEF ControlTypes
    <2> QED
      BY <2>2, <2>3, <2>4 DEF Started
  <1> QED
    BY <1>1, <1>2, AnsStill

\* gen_resume has nothing to do with the queues, but asks.
LEMMA GenResumeKeepsAnswers ==
    ASSUME ControlInv, DataTypes, DataTypes', AnsInv, NEW t \in Threads, NEW g \in Cos,
           NEW req \in Reqs, GenResume(t, g, req)
    PROVE  AnsInv'
  <1>1. /\ queue' = queue /\ answers' = answers /\ asked' = asked + 1 /\ g \in Generators
    BY DEF GenResume
  <1>2. status' = status \/ status' = [status EXCEPT ![g] = "Done"]
    BY DEF GenResume
  <1>3. starting' = starting \/ starting' = [starting EXCEPT ![t] = g]
    BY DEF GenResume, Spawn, Panic
  <1>4. ASSUME NEW h \in AsyncGens
        PROVE  /\ Started(h)' => Started(h)
               /\ status'[h] = status[h]
    <2>1. h \in Cos /\ h # g
      BY <1>1, CoroutinesAssumption DEF Cos
    <2>2. status'[h] = status[h]
      BY <1>2, <2>1 DEF ControlInv, ControlTypes
    <2>3. Started(h)' => Started(h)
      BY <1>3, <2>1 DEF Started, ControlInv, ControlTypes
    <2> QED
      BY <2>2, <2>3
  <1>5. asked <= asked'
    BY <1>1 DEF DataTypes
  <1> QED
    BY <1>1, <1>4, <1>5, AnsStill

LEMMA ReceiveKeepsAnswers ==
    ASSUME ControlInv, DataTypes, DataTypes', AnsInv, NEW t \in Threads, NEW g \in Cos,
           ReceiveAwait(t, g) \/ ReceiveYielded(t, g) \/ ReceiveDone(t, g)
    PROVE  AnsInv'
  <1>0. \A s : GoOn(t, s) => starting' = starting
    BY DEF GoOn
  <1>1. CASE ReceiveAwait(t, g)
    <2>1. UNCHANGED <<status, queue, answers, asked, starting>>
      BY <1>0, <1>1 DEF ReceiveAwait, Receive, gens
    <2> QED
      BY <2>1, QuietAnswers
  <1>2. ASSUME g \notin AsyncGens, NEW s, status' = [status EXCEPT ![g] = s],
               queue' = queue, answers' = answers, asked' = asked, starting' = starting
        PROVE  AnsInv'
    <2>1. \A h \in AsyncGens : status'[h] = status[h]
      BY <1>2 DEF ControlInv, ControlTypes, Cos
    <2> QED
      BY <1>2, <2>1, QuietAnswers
  <1>3. CASE ReceiveYielded(t, g)
    <2>1. Receive(t, g, "yielded") /\ asked' = asked
      BY <1>3 DEF ReceiveYielded, Receive
    <2>2. CASE g \in AsyncGens
      BY <1>3, <2>1, <2>2, AnswerKeepsAnswers DEF ReceiveYielded
    <2>3. CASE g \notin AsyncGens
      BY <1>0, <1>2, <1>3, <2>1, <2>3 DEF ReceiveYielded
    <2> QED
      BY <2>2, <2>3
  <1>4. CASE ReceiveDone(t, g)
    <2>1. PICK y \in {"returned", "threw"} :
             /\ Receive(t, g, y)
             /\ IF g \in AsyncGens THEN AgenDone(t, g, y = "returned")
                ELSE /\ status' = [status EXCEPT ![g] = "Done"]
                     /\ GoOn(t, PopContext(curCo))
                     /\ UNCHANGED <<start, queue, answers>>
      BY <1>4 DEF ReceiveDone
    <2>2. asked' = asked
      BY <2>1 DEF Receive
    <2>3. CASE g \in AsyncGens
      <3>1. PICK ok \in BOOLEAN : ok = (y = "returned")
        OBVIOUS
      <3>2. AgenDone(t, g, ok)
        BY <2>1, <2>3, <3>1
      <3> QED
        BY <2>1, <2>3, <3>2, AnswerKeepsAnswers
    <2>4. CASE g \notin AsyncGens
      BY <1>0, <1>2, <2>1, <2>2, <2>4
    <2> QED
      BY <2>3, <2>4
  <1> QED
    BY <1>1, <1>3, <1>4

LEMMA AnsInit == Init => AnsInv
  <1> SUFFICES ASSUME Init PROVE AnsInv
    OBVIOUS
  <1>1. answers = <<>> /\ \A g \in AsyncGens : queue[g] = <<>> /\ status[g] = "Start" /\ ~Started(g)
    BY CoroutinesAssumption DEF Init, Started, Cos, Threads
  <1>2. Ordered(answers) /\ LogAsked(answers, asked) /\ DoneStays
    BY <1>1 DEF Ordered, LogAsked, DoneStays
  <1>3. \A g \in AsyncGens : Fits(answers, queue[g], g, asked) /\ HasRequest(g)
    BY <1>1 DEF Fits, HasRequest
  <1> QED
    BY <1>2, <1>3 DEF AnsInv

LEMMA AnsStep ==
    ASSUME ControlInv, DataTypes, DataTypes', ~EarlyCalls, AnsInv, [Next]_vars
    PROVE  AnsInv'
  <1>1. UNCHANGED <<gens, answers, asked, starting>> => AnsInv'
    BY QuietAnswers DEF gens
  <1>2. CASE Call
    <2>1. ASSUME NEW t \in Threads, NEW g \in Cos, CallAsync(t, g)
          PROVE  AnsInv'
      BY <1>1, <2>1 DEF CallAsync
    <2>2. ASSUME NEW t \in Threads, NEW g \in Cos, NEW req \in Reqs,
                 Enqueue(t, g, req) \/ GenResume(t, g, req)
          PROVE  AnsInv'
      BY <2>2, EnqueueKeepsAnswers, GenResumeKeepsAnswers
    <2> QED
      BY <1>2, <2>1, <2>2 DEF Call
  <1>3. CASE Suspend
    <2>1. ASSUME NEW g \in Cos, NEW y, NEW at, Leave(g, y, at)
          PROVE  AnsInv'
      BY <1>1, <2>1 DEF Leave
    <2> QED
      BY <1>3, <2>1 DEF Suspend, AwaitValue, AwaitOperand, YieldRaw, Finish
  <1>4. CASE HandOff
    <2>1. ASSUME NEW g \in Cos, Resume(g)
          PROVE  AnsInv'
      BY <1>1, <2>1 DEF Resume
    <2> QED
      BY <1>4, <2>1, MarkKeepsAnswers, ReceiveKeepsAnswers DEF HandOff
  <1>5. CASE SettleAny
    BY <1>1, <1>5 DEF SettleAny, Settle
  <1>6. CASE RunJob
    BY <1>1, <1>6 DEF RunJob, CoStep
  <1>7. ASSUME NEW g \in Cos, SettleNative(g) \/ Forget(g)
        PROVE  AnsInv'
    BY <1>1, <1>7 DEF SettleNative, Forget
  <1>8. CASE UNCHANGED vars
    BY <1>1, <1>8 DEF vars
  <1> QED
    BY <1>2, <1>3, <1>4, <1>5, <1>6, <1>7, <1>8 DEF Next

\* An async generator answers its requests in the order they were made, each at
\* most once; nothing after it is done is a value, and a body that runs has the
\* request it runs for at the front of the queue (agen_enqueue, agen_drive,
\* agen_yielded, agen_done).
THEOREM AnswersStayInOrder == ~EarlyCalls => (Spec => []AnswersInOrder)
  <1> SUFFICES ASSUME ~EarlyCalls PROVE Spec => []AnswersInOrder
    OBVIOUS
  <1>1. Init => AnsInv
    BY AnsInit
  <1>2. ControlInv /\ DataTypes /\ DataTypes' /\ AnsInv /\ [Next]_vars => AnsInv'
    BY AnsStep
  <1>3. AnsInv => AnswersInOrder
    BY DEF AnsInv, AnswersInOrder, Ordered, Fits, HasRequest
  <1>4. Spec => [](ControlInv /\ DataTypes)
    BY ControlAlways
  <1> QED
    BY <1>1, <1>2, <1>3, <1>4, PTL DEF Spec
=============================================================================
