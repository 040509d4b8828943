-------------------------- MODULE AddonHostProofs --------------------------
(***************************************************************************)
(* Proofs that AddonHost keeps its types, that asynchronous work is in one *)
(* place at a time and truthfully reported, that nothing of a closed Env   *)
(* runs, and that an asynchronous cleanup hook starts once, for every set  *)
(* of Envs, works, workers, handles and hooks and for every bound.         *)
(***************************************************************************)
EXTENDS AddonHost, SequenceTheorems, FiniteSetTheorems, TLAPS

-----------------------------------------------------------------------------
(* Sequences that list each element once.                                  *)

Distinct(s) == \A i, j \in 1..Len(s) : s[i] = s[j] => i = j

Lists(s, x) == \E i \in 1..Len(s) : s[i] = x

\* A sequence without its last element.
LEMMA ButLast ==
    ASSUME NEW S, NEW s \in Seq(S), s # <<>>
    PROVE  /\ Len(s) \in Nat \ {0} /\ s[Len(s)] \in S
           /\ SubSeq(s, 1, Len(s) - 1) \in Seq(S)
           /\ Len(SubSeq(s, 1, Len(s) - 1)) = Len(s) - 1
           /\ \A i \in 1..(Len(s) - 1) : SubSeq(s, 1, Len(s) - 1)[i] = s[i]
  <1> DEFINE t == SubSeq(s, 1, Len(s) - 1)
  <1>1. Len(s) \in Nat \ {0}
    OBVIOUS
  <1>2. s[Len(s)] \in S
    BY <1>1, ElementOfSeq
  <1>3. \A i \in 1..(Len(s) - 1) : s[i] \in S
    BY <1>1, ElementOfSeq
  <1>4. /\ t \in Seq(S)
        /\ Len(t) = IF 1 <= Len(s) - 1 THEN Len(s) - 1 - 1 + 1 ELSE 0
        /\ \A i \in 1..(Len(s) - 1 - 1 + 1) : t[i] = s[1 + i - 1]
    BY <1>1, <1>3, SubSeqProperties
  <1>5. \A n \in Nat \ {0} : /\ (IF 1 <= n - 1 THEN n - 1 - 1 + 1 ELSE 0) = n - 1
                             /\ n - 1 - 1 + 1 = n - 1
    OBVIOUS
  <1> HIDE DEF t
  <1>6. Len(t) = Len(s) - 1
    BY <1>1, <1>4, <1>5
  <1>7. ASSUME NEW i \in 1..(Len(s) - 1)
        PROVE  t[i] = s[i]
    <2>1. i \in 1..(Len(s) - 1 - 1 + 1) /\ 1 + i - 1 = i
      BY <1>1, <1>5
    <2>2. t[i] = s[1 + i - 1]
      BY <1>4, <2>1
    <2> QED
      BY <2>1, <2>2
  <1> QED
    BY <1>1, <1>2, <1>4, <1>6, <1>7 DEF t

LEMMA RemoveAtFacts ==
    ASSUME NEW S, NEW s \in Seq(S), NEW i \in 1..Len(s)
    PROVE  /\ RemoveAt(s, i) \in Seq(S)
           /\ Len(RemoveAt(s, i)) = Len(s) - 1
           /\ \A j \in 1..(Len(s) - 1) : /\ j < i => RemoveAt(s, i)[j] = s[j]
                                         /\ j >= i => RemoveAt(s, i)[j] = s[j + 1]
  <1> DEFINE l == SubSeq(s, 1, i - 1)
             r == SubSeq(s, i + 1, Len(s))
  <1>1. Len(s) \in Nat
    OBVIOUS
  <1>2. /\ l \in Seq(S) /\ Len(l) = i - 1
        /\ \A j \in 1..(i - 1) : l[j] = s[j]
    BY <1>1
  <1>3. /\ r \in Seq(S) /\ Len(r) = Len(s) - i
        /\ \A j \in 1..(Len(s) - i) : r[j] = s[i + j]
    BY <1>1
  <1>4. RemoveAt(s, i) = l \o r
    BY DEF RemoveAt
  <1> HIDE DEF l, r
  <1>5. /\ l \o r \in Seq(S) /\ Len(l \o r) = Len(l) + Len(r)
        /\ \A j \in 1..(Len(l) + Len(r)) :
              /\ j <= Len(l) => (l \o r)[j] = l[j]
              /\ j > Len(l) => (l \o r)[j] = r[j - Len(l)]
    <2>1. /\ l \o r \in Seq(S) /\ Len(l \o r) = Len(l) + Len(r)
          /\ \A j \in 1..(Len(l) + Len(r)) :
                (l \o r)[j] = IF j <= Len(l) THEN l[j] ELSE r[j - Len(l)]
      BY <1>2, <1>3, ConcatProperties
    <2>2. Len(l) \in Nat /\ Len(r) \in Nat
      BY <1>2, <1>3
    <2> QED
      BY <2>1, <2>2
  <1>6. ASSUME NEW j \in 1..(Len(s) - 1)
        PROVE  /\ j < i => (l \o r)[j] = s[j]
               /\ j >= i => (l \o r)[j] = s[j + 1]
    <2>1. ASSUME j < i PROVE (l \o r)[j] = s[j]
      BY <1>1, <1>2, <1>3, <1>5, <2>1
    <2>2. ASSUME j >= i PROVE (l \o r)[j] = s[j + 1]
      <3>1. (l \o r)[j] = r[j - (i - 1)]
        BY <1>1, <1>2, <1>3, <1>5, <2>2
      <3>2. j - (i - 1) \in 1..(Len(s) - i) /\ i + (j - (i - 1)) = j + 1
        BY <1>1, <2>2
      <3> QED
        BY <1>3, <3>1, <3>2
    <2> QED
      BY <2>1, <2>2
  <1> QED
    BY <1>1, <1>2, <1>3, <1>4, <1>5, <1>6

LEMMA AppendLists ==
    ASSUME NEW S, NEW s \in Seq(S), NEW x \in S
    PROVE  /\ Append(s, x) \in Seq(S)
           /\ Distinct(s) /\ ~Lists(s, x) => Distinct(Append(s, x))
           /\ \A y : Lists(Append(s, x), y) <=> Lists(s, y) \/ y = x
  <1>1. /\ Append(s, x) \in Seq(S) /\ Len(s) \in Nat /\ Len(Append(s, x)) = Len(s) + 1
        /\ \A i \in 1..Len(s) : Append(s, x)[i] = s[i]
        /\ Append(s, x)[Len(s) + 1] = x
    OBVIOUS
  <1>2. Distinct(s) /\ ~Lists(s, x) => Distinct(Append(s, x))
    BY <1>1 DEF Distinct, Lists
  <1>3. \A y : Lists(Append(s, x), y) <=> Lists(s, y) \/ y = x
    BY <1>1 DEF Lists
  <1> QED
    BY <1>1, <1>2, <1>3

LEMMA RemoveAtLists ==
    ASSUME NEW S, NEW s \in Seq(S), NEW i \in 1..Len(s), Distinct(s)
    PROVE  /\ RemoveAt(s, i) \in Seq(S) /\ Distinct(RemoveAt(s, i))
           /\ \A y : Lists(RemoveAt(s, i), y) <=> Lists(s, y) /\ y # s[i]
  <1> DEFINE t == RemoveAt(s, i)
  <1>1. /\ t \in Seq(S) /\ Len(t) = Len(s) - 1 /\ Len(s) \in Nat
        /\ \A j \in 1..(Len(s) - 1) : (j < i => t[j] = s[j]) /\ (j >= i => t[j] = s[j + 1])
    BY RemoveAtFacts
  <1> HIDE DEF t
  <1>2. \A j, k \in 1..Len(s) : s[j] = s[k] => j = k
    BY DEF Distinct
  <1>3. Distinct(t)
    <2> SUFFICES ASSUME NEW j \in 1..Len(t), NEW k \in 1..Len(t), t[j] = t[k]
                 PROVE  j = k
      BY DEF Distinct
    <2>1. CASE j < i /\ k < i
      BY <1>1, <1>2, <2>1
    <2>2. CASE j < i /\ k >= i
      BY <1>1, <1>2, <2>2
    <2>3. CASE j >= i /\ k < i
      BY <1>1, <1>2, <2>3
    <2>4. CASE j >= i /\ k >= i
      BY <1>1, <1>2, <2>4
    <2> QED
      BY <2>1, <2>2, <2>3, <2>4, <1>1
  <1>4. ASSUME NEW y, Lists(t, y)
        PROVE  Lists(s, y) /\ y # s[i]
    <2>1. PICK j \in 1..Len(t) : t[j] = y
      BY <1>4 DEF Lists
    <2>2. CASE j < i
      BY <1>1, <1>2, <2>1, <2>2 DEF Lists
    <2>3. CASE j >= i
      BY <1>1, <1>2, <2>1, <2>3 DEF Lists
    <2> QED
      BY <2>2, <2>3, <1>1
  <1>5. ASSUME NEW y, Lists(s, y), y # s[i]
        PROVE  Lists(t, y)
    <2>1. PICK j \in 1..Len(s) : s[j] = y
      BY <1>5 DEF Lists
    <2>2. CASE j < i
      BY <1>1, <2>1, <2>2 DEF Lists
    <2>3. CASE j > i
      <3>1. j - 1 \in 1..Len(t) /\ t[j - 1] = y
        BY <1>1, <2>1, <2>3
      <3> QED
        BY <3>1 DEF Lists
    <2> QED
      BY <2>1, <2>2, <2>3, <1>1, <1>5
  <1> QED
    BY <1>1, <1>3, <1>4, <1>5 DEF t

LEMMA TailLists ==
    ASSUME NEW S, NEW s \in Seq(S), s # <<>>, Distinct(s)
    PROVE  /\ Head(s) \in S /\ Lists(s, Head(s))
           /\ Tail(s) \in Seq(S) /\ Distinct(Tail(s))
           /\ \A y : Lists(Tail(s), y) <=> Lists(s, y) /\ y # Head(s)
  <1> DEFINE t == Tail(s)
             h == Head(s)
  <1>1. /\ t \in Seq(S) /\ Len(s) \in Nat \ {0} /\ Len(t) = Len(s) - 1
        /\ h \in S /\ h = s[1]
        /\ \A j \in 1..Len(t) : t[j] = s[j + 1]
    OBVIOUS
  <1> HIDE DEF t, h
  <1>2. \A j, k \in 1..Len(s) : s[j] = s[k] => j = k
    BY DEF Distinct
  <1>3. Distinct(t)
    BY <1>1, <1>2 DEF Distinct
  <1>4. Lists(s, h)
    BY <1>1 DEF Lists
  <1>5. ASSUME NEW y, Lists(t, y)
        PROVE  Lists(s, y) /\ y # h
    <2>1. PICK j \in 1..Len(t) : t[j] = y
      BY <1>5 DEF Lists
    <2> QED
      BY <1>1, <1>2, <2>1 DEF Lists
  <1>6. ASSUME NEW y, Lists(s, y), y # h
        PROVE  Lists(t, y)
    <2>1. PICK j \in 1..Len(s) : s[j] = y
      BY <1>6 DEF Lists
    <2>2. j - 1 \in 1..Len(t) /\ t[j - 1] = y
      BY <1>1, <1>6, <2>1
    <2> QED
      BY <2>2 DEF Lists
  <1> QED
    BY <1>1, <1>3, <1>4, <1>5, <1>6 DEF t, h

\* How often a sequence without repetitions lists an element.
LEMMA TimesOfDistinct ==
    ASSUME NEW s, NEW x, Distinct(s)
    PROVE  Times(s, x) = IF Lists(s, x) THEN 1 ELSE 0
  <1> DEFINE I == {i \in 1..Len(s) : s[i] = x}
  <1>1. Times(s, x) = Cardinality(I)
    BY DEF Times
  <1>2. ASSUME Lists(s, x)
        PROVE  Cardinality(I) = 1
    <2>1. PICK i \in 1..Len(s) : s[i] = x
      BY <1>2 DEF Lists
    <2>2. I = {i}
      BY <2>1 DEF Distinct
    <2> QED
      BY <2>2, FS_Singleton
  <1>3. ASSUME ~Lists(s, x)
        PROVE  Cardinality(I) = 0
    <2>1. I = {}
      BY <1>3 DEF Lists
    <2> QED
      BY <2>1, FS_EmptySet
  <1> QED
    BY <1>1, <1>2, <1>3

-----------------------------------------------------------------------------
(* The pool: an inductive invariant of its own.                            *)

PoolTypes ==
    /\ work \in [Works -> AsyncWork \cup {NoWork}]
    /\ queue \in Seq(Works) /\ events \in Seq(Works)
    /\ worker \in [Workers -> [w : Works \cup {None}, at : {"idle", "executing", "posting"}]]
    /\ executed \subseteq Works

\* The pool's queue lists the queued works, once each.
QueueInv ==
    /\ Distinct(queue)
    /\ \A w \in Works : Lists(queue, w) <=> work[w].state = "queued"

\* A worker's program point tells the state of the work it holds, and no two
\* workers hold the same one.
WorkerInv ==
    /\ \A k \in Workers : worker[k].w # None =>
          \/ worker[k].at = "executing" /\ work[worker[k].w].state = "executing"
          \/ worker[k].at = "posting" /\ work[worker[k].w].state = "pending"
    /\ \A k, l \in Workers : worker[k].w # None /\ worker[k].w = worker[l].w => k = l
    /\ \A w \in Works : work[w].state = "executing" => w \in Held

\* The ready events list each finished work once, unless its worker has yet to
\* post it.
EventInv ==
    /\ Distinct(events)
    /\ \A w \in Works : Lists(events, w) => work[w].state = "pending" /\ w \notin Held
    /\ \A w \in Works : work[w].state = "pending" => Lists(events, w) \/ w \in Held

\* What was executed so far is what its state says.
ExecutedInv ==
    /\ StatusIsTrue
    /\ \A w \in Works : work[w].state \in {"created", "queued"} => w \notin executed
    /\ \A w \in Works : work[w].state = "executing" => w \in executed

PoolInv == PoolTypes /\ QueueInv /\ WorkerInv /\ EventInv /\ ExecutedInv

\* An assignment to one work leaves the others alone.
LEMMA SetWork ==
    ASSUME PoolTypes, NEW w \in Works, work[w] # NoWork,
           NEW s \in {"created", "queued", "executing", "pending", "completed", "deleted"},
           NEW u \in {"ok", "cancelled"},
           \/ work' = [work EXCEPT ![w].state = s] /\ u = work[w].status
           \/ work' = [work EXCEPT ![w].status = u, ![w].state = s]
    PROVE  /\ work' \in [Works -> AsyncWork \cup {NoWork}]
           /\ work'[w].state = s /\ work'[w].status = u /\ work'[w].env = work[w].env
           /\ \A x \in Works : x # w => work'[x] = work[x]
  <1>1. work[w] \in AsyncWork
    BY DEF PoolTypes
  <1> DEFINE r == [env |-> work[w].env, status |-> u, state |-> s]
  <1>2. r \in AsyncWork
    BY <1>1 DEF AsyncWork
  <1>3. work' = [work EXCEPT ![w] = r]
    <2>1. work[w] = [env |-> work[w].env, status |-> work[w].status, state |-> work[w].state]
      BY <1>1 DEF AsyncWork
    <2> QED
      BY <2>1 DEF PoolTypes
  <1> QED
    BY <1>2, <1>3 DEF PoolTypes

\* Only a NoWork has the state "none".
LEMMA WorkStates ==
    ASSUME PoolTypes, NEW w \in Works
    PROVE  /\ work[w] = NoWork => work[w].state = "none"
           /\ work[w] # NoWork => work[w] \in AsyncWork /\ work[w].state # "none"
                                  /\ work[w].status \in {"ok", "cancelled"}
  BY DEF PoolTypes, AsyncWork, NoWork

LEMMA CreateWorkKeeps ==
    ASSUME PoolInv, NEW e \in Envs, NEW w \in Works, CreateWork(e, w)
    PROVE  PoolInv'
  <1> USE DEF PoolInv
  <1> DEFINE reaped == {x \in Works : work[x].state = "deleted" /\ work[x].env = e}
             new    == [env |-> e, status |-> "ok", state |-> "created"]
  <1>1. /\ w \notin Held /\ (work[w] = NoWork \/ w \in reaped)
        /\ work' = [x \in Works |-> IF x = w THEN new
                                    ELSE IF x \in reaped THEN NoWork ELSE work[x]]
        /\ executed' = executed \ {w}
        /\ UNCHANGED <<queue, worker, events>>
    BY DEF CreateWork, Unused, host, pool
  <1>2. new \in AsyncWork /\ new.state = "created"
    BY DEF AsyncWork
  <1> HIDE DEF new
  <1>3. PoolTypes'
    BY <1>1, <1>2 DEF PoolTypes
  <1>4. /\ work'[w].state = "created" /\ work[w].state \in {"none", "deleted"}
        /\ \A x \in Works : x # w =>
              \/ work'[x] = work[x]
              \/ work[x].state = "deleted" /\ work'[x].state = "none"
    BY <1>1, <1>2, WorkStates DEF NoWork
  <1>5. \A x \in Works : Lists(queue', x) = Lists(queue, x) /\ Lists(events', x) = Lists(events, x)
    BY <1>1
  <1>6. Held' = Held
    BY <1>1 DEF Held
  <1>7. QueueInv'
    BY <1>1, <1>4 DEF QueueInv
  <1>8. \A k \in Workers : worker[k].w # None => worker[k].w \in Works /\ worker[k].w # w
    BY <1>1 DEF Held, PoolTypes
  <1>9. WorkerInv'
    <2>1. ASSUME NEW k \in Workers, worker[k].w # None
          PROVE  work'[worker[k].w].state = work[worker[k].w].state
      BY <1>4, <1>8, <2>1 DEF WorkerInv
    <2> QED
      BY <1>1, <1>4, <1>6, <2>1 DEF WorkerInv
  <1>10. EventInv'
    BY <1>1, <1>4, <1>6 DEF EventInv
  <1>11. ExecutedInv'
    BY <1>1, <1>4 DEF ExecutedInv, StatusIsTrue
  <1> QED
    BY <1>3, <1>7, <1>9, <1>10, <1>11

LEMMA QueueWorkKeeps ==
    ASSUME PoolInv, NEW w \in Works, QueueWork(w)
    PROVE  PoolInv'
  <1> USE DEF PoolInv
  <1>1. /\ work[w].state = "created" /\ work' = [work EXCEPT ![w].state = "queued"]
        /\ queue' = Append(queue, w) /\ UNCHANGED <<worker, events, executed>>
    BY DEF QueueWork
  <1>2. work[w] # NoWork
    BY SMTT(30), <1>1, WorkStates
  <1>3. /\ work' \in [Works -> AsyncWork \cup {NoWork}]
        /\ work'[w].state = "queued"
        /\ \A x \in Works : x # w => work'[x] = work[x]
    BY <1>1, <1>2, SetWork, WorkStates
  <1>4. /\ queue' \in Seq(Works) /\ Distinct(queue')
        /\ \A x : Lists(queue', x) <=> Lists(queue, x) \/ x = w
    BY <1>1, AppendLists DEF QueueInv, PoolTypes
  <1>5. Held' = Held
    BY <1>1 DEF Held
  <1>6. PoolTypes'
    BY <1>1, <1>3, <1>4 DEF PoolTypes
  <1>7. QueueInv'
    BY <1>3, <1>4 DEF QueueInv
  <1>8. WorkerInv'
    BY <1>1, <1>3, <1>5 DEF WorkerInv, PoolTypes
  <1>9. EventInv'
    BY <1>1, <1>3, <1>5 DEF EventInv
  <1>10. ExecutedInv'
    BY <1>1, <1>3 DEF ExecutedInv, StatusIsTrue
  <1> QED
    BY <1>6, <1>7, <1>8, <1>9, <1>10

LEMMA CancelWorkKeeps ==
    ASSUME PoolInv, NEW w \in Works, CancelWork(w)
    PROVE  PoolInv'
  <1> USE DEF PoolInv
  <1>1. /\ work[w].state = "queued"
        /\ work' = [work EXCEPT ![w].status = "cancelled", ![w].state = "pending"]
        /\ events' = Append(events, w) /\ UNCHANGED <<worker, executed>>
    BY DEF CancelWork
  <1>2. PICK i \in 1..Len(queue) : queue[i] = w /\ queue' = RemoveAt(queue, i)
    BY DEF CancelWork
  <1>3. work[w] # NoWork
    BY SMTT(30), <1>1, WorkStates
  <1>4. /\ work' \in [Works -> AsyncWork \cup {NoWork}]
        /\ work'[w].state = "pending" /\ work'[w].status = "cancelled"
        /\ \A x \in Works : x # w => work'[x] = work[x]
    BY <1>1, <1>3, SetWork
  <1>5. /\ queue' \in Seq(Works) /\ Distinct(queue')
        /\ \A x : Lists(queue', x) <=> Lists(queue, x) /\ x # w
    BY <1>2, RemoveAtLists DEF QueueInv, PoolTypes
  <1>6. ~Lists(events, w) /\ w \notin Held
    <2>1. w # None
      BY HostAssumption
    <2> QED
      BY <1>1, <2>1 DEF EventInv, WorkerInv, Held
  <1>7. /\ events' \in Seq(Works) /\ Distinct(events')
        /\ \A x : Lists(events', x) <=> Lists(events, x) \/ x = w
    BY <1>1, <1>6, AppendLists DEF EventInv, PoolTypes
  <1>8. Held' = Held
    BY <1>1 DEF Held
  <1>9. PoolTypes'
    BY <1>1, <1>4, <1>5, <1>7 DEF PoolTypes
  <1>10. QueueInv'
    BY <1>4, <1>5 DEF QueueInv
  <1>11. WorkerInv'
    BY <1>1, <1>4, <1>6, <1>8 DEF WorkerInv, PoolTypes, Held
  <1>12. EventInv'
    BY <1>4, <1>6, <1>7, <1>8 DEF EventInv
  <1>13. ExecutedInv'
    BY <1>1, <1>4 DEF ExecutedInv, StatusIsTrue
  <1> QED
    BY <1>9, <1>10, <1>11, <1>12, <1>13

LEMMA DeleteWorkKeeps ==
    ASSUME PoolInv, NEW w \in Works, DeleteWork(w)
    PROVE  PoolInv'
  <1> USE DEF PoolInv
  <1>1. /\ work[w].state \in {"created", "completed"}
        /\ work' = [work EXCEPT ![w].state = "deleted"]
        /\ UNCHANGED <<queue, worker, events, executed>>
    BY DEF DeleteWork
  <1>2. work[w] # NoWork
    BY SMTT(30), <1>1, WorkStates
  <1>3. /\ work' \in [Works -> AsyncWork \cup {NoWork}]
        /\ work'[w].state = "deleted"
        /\ \A x \in Works : x # w => work'[x] = work[x]
    BY <1>1, <1>2, SetWork, WorkStates
  <1>4. Held' = Held
    BY <1>1 DEF Held
  <1>5. PoolTypes'
    BY <1>1, <1>3 DEF PoolTypes
  <1>6. QueueInv'
    BY <1>1, <1>3 DEF QueueInv
  <1>7. WorkerInv'
    BY <1>1, <1>3, <1>4 DEF WorkerInv, PoolTypes
  <1>8. EventInv'
    BY <1>1, <1>3, <1>4 DEF EventInv
  <1>9. ExecutedInv'
    BY <1>1, <1>3 DEF ExecutedInv, StatusIsTrue
  <1> QED
    BY <1>5, <1>6, <1>7, <1>8, <1>9

LEMMA WorkerTakeKeeps ==
    ASSUME PoolInv, NEW k \in Workers, WorkerTake(k)
    PROVE  PoolInv'
  <1> USE DEF PoolInv
  <1> DEFINE w == Head(queue)
  <1>1. /\ worker[k].w = None /\ queue # <<>>
        /\ worker' = [worker EXCEPT ![k] = [w |-> w, at |-> "executing"]]
        /\ work' = [work EXCEPT ![w].state = "executing"]
        /\ executed' = executed \cup {w}
        /\ queue' = Tail(queue) /\ UNCHANGED events
    BY DEF WorkerTake
  <1>2. /\ w \in Works /\ Lists(queue, w)
        /\ queue' \in Seq(Works) /\ Distinct(queue')
        /\ \A x : Lists(queue', x) <=> Lists(queue, x) /\ x # w
    BY <1>1, TailLists DEF QueueInv, PoolTypes
  <1> HIDE DEF w
  <1>3. work[w].state = "queued" /\ w # None
    BY <1>2, HostAssumption DEF QueueInv
  <1>4. work[w] # NoWork
    BY SMTT(30), <1>2, <1>3, WorkStates
  <1>5. /\ work' \in [Works -> AsyncWork \cup {NoWork}]
        /\ work'[w].state = "executing"
        /\ \A x \in Works : x # w => work'[x] = work[x]
    BY <1>1, <1>2, <1>4, SetWork, WorkStates
  <1>6. /\ worker' \in [Workers -> [w : Works \cup {None}, at : {"idle", "executing", "posting"}]]
        /\ worker'[k].w = w /\ worker'[k].at = "executing"
        /\ \A l \in Workers : l # k => worker'[l] = worker[l]
    BY <1>1, <1>2 DEF PoolTypes
  <1>7. \A l \in Workers : worker[l].w # w
    BY <1>3 DEF WorkerInv
  <1>8. \A x \in Works : x \in Held' <=> x \in Held \/ x = w
    <2>1. \A x \in Works : x # None
      BY HostAssumption
    <2> QED
      BY <1>1, <1>6, <2>1 DEF Held
  <1>9. PoolTypes'
    BY <1>1, <1>2, <1>5, <1>6 DEF PoolTypes
  <1>10. QueueInv'
    BY <1>2, <1>5 DEF QueueInv
  <1>11. WorkerInv'
    <2>1. ASSUME NEW l \in Workers, worker'[l].w # None
          PROVE  \/ worker'[l].at = "executing" /\ work'[worker'[l].w].state = "executing"
                 \/ worker'[l].at = "posting" /\ work'[worker'[l].w].state = "pending"
      <3>1. CASE l = k
        BY <1>5, <1>6, <3>1
      <3>2. CASE l # k
        BY <1>5, <1>6, <1>7, <2>1, <3>2 DEF WorkerInv, PoolTypes
      <3> QED
        BY <3>1, <3>2
    <2>2. \A l, m \in Workers : worker'[l].w # None /\ worker'[l].w = worker'[m].w => l = m
      BY <1>6, <1>7 DEF WorkerInv
    <2>3. \A x \in Works : work'[x].state = "executing" => x \in Held'
      BY <1>5, <1>8 DEF WorkerInv
    <2> QED
      BY <2>1, <2>2, <2>3 DEF WorkerInv
  <1>12. EventInv'
    BY <1>1, <1>2, <1>3, <1>5, <1>8 DEF EventInv
  <1>13. ExecutedInv'
    BY <1>1, <1>5 DEF ExecutedInv, StatusIsTrue
  <1> QED
    BY <1>9, <1>10, <1>11, <1>12, <1>13

LEMMA WorkerFinishKeeps ==
    ASSUME PoolInv, NEW k \in Workers, WorkerFinish(k)
    PROVE  PoolInv'
  <1> USE DEF PoolInv
  <1> DEFINE w == worker[k].w
  <1>1. /\ w # None /\ worker[k].at = "executing"
        /\ work' = [work EXCEPT ![w].status = "ok", ![w].state = "pending"]
        /\ worker' = [worker EXCEPT ![k].at = "posting"]
        /\ UNCHANGED <<queue, events, executed>>
    BY DEF WorkerFinish
  <1>2. w \in Works /\ work[w].state = "executing"
    BY <1>1 DEF WorkerInv, PoolTypes
  <1>3. work[w] # NoWork
    BY SMTT(30), <1>2, WorkStates
  <1>4. /\ work' \in [Works -> AsyncWork \cup {NoWork}]
        /\ work'[w].state = "pending" /\ work'[w].status = "ok"
        /\ \A x \in Works : x # w => work'[x] = work[x]
    BY <1>1, <1>2, <1>3, SetWork
  <1>5. /\ worker' \in [Workers -> [w : Works \cup {None}, at : {"idle", "executing", "posting"}]]
        /\ worker'[k].w = w /\ worker'[k].at = "posting"
        /\ \A l \in Workers : worker'[l].w = worker[l].w /\ (l # k => worker'[l] = worker[l])
    BY <1>1 DEF PoolTypes
  <1>6. Held' = Held
    BY <1>5 DEF Held
  <1>7. w \in Held
    BY DEF Held
  <1> HIDE DEF w
  <1>8. PoolTypes'
    BY <1>1, <1>4, <1>5 DEF PoolTypes
  <1>9. QueueInv'
    BY <1>1, <1>2, <1>4 DEF QueueInv
  <1>10. WorkerInv'
    <2>1. ASSUME NEW l \in Workers, worker'[l].w # None
          PROVE  \/ worker'[l].at = "executing" /\ work'[worker'[l].w].state = "executing"
                 \/ worker'[l].at = "posting" /\ work'[worker'[l].w].state = "pending"
      <3>1. CASE l = k
        BY <1>4, <1>5, <3>1
      <3>2. CASE l # k
        <4>1. worker[l].w # w /\ worker[l].w \in Works
          BY <1>1, <1>5, <2>1, <3>2 DEF WorkerInv, PoolTypes, w
        <4> QED
          BY <1>4, <1>5, <2>1, <3>2, <4>1 DEF WorkerInv
      <3> QED
        BY <3>1, <3>2
    <2>2. \A l, m \in Workers : worker'[l].w # None /\ worker'[l].w = worker'[m].w => l = m
      BY <1>5 DEF WorkerInv
    <2>3. \A x \in Works : work'[x].state = "executing" => x \in Held'
      BY <1>4, <1>6 DEF WorkerInv
    <2> QED
      BY <2>1, <2>2, <2>3 DEF WorkerInv
  <1>11. EventInv'
    BY <1>1, <1>2, <1>4, <1>6, <1>7 DEF EventInv
  <1>12. ExecutedInv'
    BY <1>1, <1>2, <1>4 DEF ExecutedInv, StatusIsTrue
  <1> QED
    BY <1>8, <1>9, <1>10, <1>11, <1>12

LEMMA WorkerPostKeeps ==
    ASSUME PoolInv, NEW k \in Workers, WorkerPost(k)
    PROVE  PoolInv'
  <1> USE DEF PoolInv
  <1> DEFINE w == worker[k].w
  <1>1. /\ w # None /\ worker[k].at = "posting"
        /\ events' = Append(events, w)
        /\ worker' = [worker EXCEPT ![k] = [w |-> None, at |-> "idle"]]
        /\ UNCHANGED <<work, queue, executed>>
    BY DEF WorkerPost
  <1>2. w \in Works /\ work[w].state = "pending"
    BY <1>1 DEF WorkerInv, PoolTypes
  <1>3. /\ worker' \in [Workers -> [w : Works \cup {None}, at : {"idle", "executing", "posting"}]]
        /\ worker'[k].w = None
        /\ \A l \in Workers : l # k => worker'[l] = worker[l]
    BY <1>1 DEF PoolTypes
  <1>4. \A l \in Workers : worker'[l].w # w
    BY <1>1, <1>3 DEF WorkerInv
  <1>5. \A x \in Works : x \in Held' <=> x \in Held /\ x # w
    <2>1. \A x \in Works : x # None
      BY HostAssumption
    <2> QED
      BY <1>3, <1>4, <2>1 DEF Held
  <1>6. w \in Held
    BY DEF Held
  <1> HIDE DEF w
  <1>7. ~Lists(events, w)
    BY <1>2, <1>6 DEF EventInv
  <1>8. /\ events' \in Seq(Works) /\ Distinct(events')
        /\ \A x : Lists(events', x) <=> Lists(events, x) \/ x = w
    BY <1>1, <1>2, <1>7, AppendLists DEF EventInv, PoolTypes
  <1>9. PoolTypes'
    BY <1>1, <1>3, <1>8 DEF PoolTypes
  <1>10. QueueInv'
    BY <1>1 DEF QueueInv
  <1>11. WorkerInv'
    <2>1. \A l \in Workers : worker'[l].w # None => l # k /\ worker'[l] = worker[l]
      BY <1>3
    <2>2. \A l, m \in Workers : worker'[l].w # None /\ worker'[l].w = worker'[m].w => l = m
      BY <2>1 DEF WorkerInv
    <2>3. \A x \in Works : work'[x].state = "executing" => x \in Held'
      BY <1>1, <1>2, <1>5 DEF WorkerInv
    <2> QED
      BY <1>1, <2>1, <2>2, <2>3 DEF WorkerInv
  <1>12. EventInv'
    BY <1>1, <1>2, <1>5, <1>8 DEF EventInv
  <1>13. ExecutedInv'
    BY <1>1 DEF ExecutedInv, StatusIsTrue
  <1> QED
    BY <1>9, <1>10, <1>11, <1>12, <1>13

LEMMA PollEventKeepsPool ==
    ASSUME PoolInv, PollEvent
    PROVE  PoolInv'
  <1> USE DEF PoolInv
  <1> DEFINE w == Head(events)
  <1>1. /\ events # <<>> /\ events' = Tail(events)
        /\ work' = [work EXCEPT ![w].state = "completed"]
        /\ UNCHANGED <<queue, worker, executed>>
    BY DEF PollEvent
  <1>2. /\ w \in Works /\ Lists(events, w)
        /\ events' \in Seq(Works) /\ Distinct(events')
        /\ \A x : Lists(events', x) <=> Lists(events, x) /\ x # w
    BY <1>1, TailLists DEF EventInv, PoolTypes
  <1> HIDE DEF w
  <1>3. work[w].state = "pending" /\ w \notin Held
    BY <1>2 DEF EventInv
  <1>4. work[w] # NoWork
    BY SMTT(30), <1>2, <1>3, WorkStates
  <1>5. /\ work' \in [Works -> AsyncWork \cup {NoWork}]
        /\ work'[w].state = "completed" /\ work'[w].status = work[w].status
        /\ \A x \in Works : x # w => work'[x] = work[x]
    BY <1>1, <1>2, <1>4, SetWork, WorkStates
  <1>6. Held' = Held
    BY <1>1 DEF Held
  <1>7. PoolTypes'
    BY <1>1, <1>2, <1>5 DEF PoolTypes
  <1>8. QueueInv'
    BY <1>1, <1>2, <1>3, <1>5 DEF QueueInv
  <1>9. WorkerInv'
    BY <1>1, <1>3, <1>5, <1>6 DEF WorkerInv, PoolTypes, Held
  <1>10. EventInv'
    BY <1>2, <1>5, <1>6 DEF EventInv
  <1>11. ExecutedInv'
    BY <1>1, <1>2, <1>3, <1>5 DEF ExecutedInv, StatusIsTrue
  <1> QED
    BY <1>7, <1>8, <1>9, <1>10, <1>11

\* What the release frees is not active.
LEMMA FinishShutdownKeepsPool ==
    ASSUME PoolInv, FinishShutdown
    PROVE  PoolInv'
  <1> USE DEF PoolInv
  <1>1. /\ ~WorkActive
        /\ work' = [w \in Works |-> IF work[w] # NoWork /\ work[w].env \in Published
                                    THEN NoWork ELSE work[w]]
        /\ UNCHANGED <<queue, worker, events, executed>>
    BY DEF FinishShutdown, MayRelease, Barrier
  <1>2. \A w \in Works :
           \/ work'[w] = work[w]
           \/ work[w].state \notin {"queued", "executing", "pending"} /\ work'[w] = NoWork
    BY <1>1 DEF WorkActive, Active
  <1>3. \A w \in Works :
           \/ work'[w] = work[w]
           \/ work[w].state \notin {"queued", "executing", "pending"} /\ work'[w].state = "none"
    BY <1>2 DEF NoWork
  <1>4. Held' = Held
    BY <1>1 DEF Held
  <1>5. PoolTypes'
    BY <1>1 DEF PoolTypes
  <1>6. QueueInv'
    BY <1>1, <1>3 DEF QueueInv
  <1>7. WorkerInv'
    BY <1>1, <1>3, <1>4 DEF WorkerInv, PoolTypes
  <1>8. EventInv'
    BY <1>1, <1>3, <1>4 DEF EventInv
  <1>9. ExecutedInv'
    BY <1>1, <1>3 DEF ExecutedInv, StatusIsTrue
  <1> QED
    BY <1>5, <1>6, <1>7, <1>8, <1>9

LEMMA PoolUnchanged ==
    ASSUME PoolInv, UNCHANGED pool
    PROVE  PoolInv'
  BY DEF PoolInv, PoolTypes, QueueInv, WorkerInv, EventInv, ExecutedInv, StatusIsTrue, Held, pool

LEMMA PoolStep ==
    ASSUME PoolInv, [Next]_vars
    PROVE  PoolInv'
  <1>1. CASE Addon
    <2>1. ASSUME NEW e \in Envs, NEW w \in Works, CreateWork(e, w)
          PROVE  PoolInv'
      BY <2>1, CreateWorkKeeps
    <2>2. ASSUME NEW w \in Works, QueueWork(w) \/ CancelWork(w) \/ DeleteWork(w)
          PROVE  PoolInv'
      BY <2>2, QueueWorkKeeps, CancelWorkKeeps, DeleteWorkKeeps
    <2>3. ASSUME NEW e \in Envs,
                 \/ \E k \in Hooks : AddHook(e, k) \/ RemoveHook(e, k)
                 \/ \E h \in Handles : AddHandle(e, h)
                 \/ PostFinalizer(e) \/ CreateTsfn(e)
          PROVE  PoolInv'
      BY <2>3, PoolUnchanged DEF AddHook, RemoveHook, AddHandle, PostFinalizer, CreateTsfn
    <2> QED
      BY <1>1, <2>1, <2>2, <2>3 DEF Addon
  <1>2. CASE Pool
    BY <1>2, WorkerTakeKeeps, WorkerFinishKeeps, WorkerPostKeeps DEF Pool
  <1>3. CASE Foreign
    BY <1>3, PoolUnchanged DEF Foreign, RemoveHandle, RetireTsfn
  <1>4. CASE Callbacks
    BY <1>4, PoolUnchanged DEF Callbacks, Return, InitReturns
  <1>5. CASE Polling
    BY <1>5, PoolUnchanged, PollEventKeepsPool DEF Polling, PollTake, PollRun, PollDrained, PollEnd
  <1>6. CASE Retiring
    BY <1>6, PoolUnchanged
       DEF Retiring, RetireCheck, RetireBegin, BeginTake, BeginNext, RetireNext, FinishHook,
           FinishPosted
  <1>7. CASE Program
    BY <1>7, PoolUnchanged, FinishShutdownKeepsPool
       DEF Program, Poll, BeginShutdown, ReportErrors, Load, CallExport
  <1>8. CASE UNCHANGED vars
    BY <1>8, PoolUnchanged DEF vars
  <1> QED
    BY <1>1, <1>2, <1>3, <1>4, <1>5, <1>6, <1>7, <1>8 DEF Next

LEMMA PoolInit == Init => PoolInv
  <1> SUFFICES ASSUME Init PROVE PoolInv
    OBVIOUS
  <1>1. /\ work = [w \in Works |-> NoWork] /\ queue = <<>> /\ events = <<>> /\ executed = {}
        /\ worker = [k \in Workers |-> [w |-> None, at |-> "idle"]]
    BY DEF Init
  <1>2. PoolTypes
    BY <1>1 DEF PoolTypes
  <1>3. \A w \in Works : work[w].state = "none" /\ ~Lists(queue, w) /\ ~Lists(events, w)
    BY <1>1 DEF NoWork, Lists
  <1>4. Distinct(queue) /\ Distinct(events)
    BY <1>1 DEF Distinct
  <1>5. \A k \in Workers : worker[k].w = None
    BY <1>1
  <1> QED
    BY <1>2, <1>3, <1>4, <1>5 DEF PoolInv, QueueInv, WorkerInv, EventInv, ExecutedInv, StatusIsTrue

\* How often the workers hold a work.
LEMMA HeldOnce ==
    ASSUME PoolInv, NEW w \in Works, NEW at \in {"executing", "posting"}
    PROVE  HeldAt(w, at) = IF \E k \in Workers : worker[k].w = w /\ worker[k].at = at
                           THEN 1 ELSE 0
  <1> DEFINE K == {k \in Workers : worker[k] = [w |-> w, at |-> at]}
  <1>1. HeldAt(w, at) = Cardinality(K)
    BY DEF HeldAt
  <1>2. K = {k \in Workers : worker[k].w = w /\ worker[k].at = at}
    BY DEF PoolInv, PoolTypes
  <1> HIDE DEF K
  <1>3. ASSUME NEW k \in Workers, worker[k].w = w, worker[k].at = at
        PROVE  Cardinality(K) = 1
    <2>1. w # None
      BY HostAssumption
    <2>2. K = {k}
      BY <1>2, <1>3, <2>1 DEF PoolInv, WorkerInv
    <2> QED
      BY <2>2, FS_Singleton
  <1>4. ASSUME ~ \E k \in Workers : worker[k].w = w /\ worker[k].at = at
        PROVE  Cardinality(K) = 0
    <2>1. K = {}
      BY <1>2, <1>4
    <2> QED
      BY <2>1, FS_EmptySet
  <1> QED
    BY <1>1, <1>3, <1>4

LEMMA PoolIsAccounted ==
    ASSUME PoolInv
    PROVE  WorkIsAccounted
  <1> SUFFICES ASSUME NEW w \in Works
               PROVE  /\ Times(queue, w) = (IF work[w].state = "queued" THEN 1 ELSE 0)
                      /\ HeldAt(w, "executing") = (IF work[w].state = "executing" THEN 1 ELSE 0)
                      /\ Times(events, w) + HeldAt(w, "posting")
                            = (IF work[w].state = "pending" THEN 1 ELSE 0)
    BY DEF PoolInv, ExecutedInv, WorkIsAccounted, OnePlacePerWork
  <1>1. w # None
    BY HostAssumption
  <1>2. Times(queue, w) = (IF work[w].state = "queued" THEN 1 ELSE 0)
    BY TimesOfDistinct DEF PoolInv, QueueInv
  <1>3. /\ (\E k \in Workers : worker[k].w = w /\ worker[k].at = "executing")
               <=> work[w].state = "executing"
        /\ (\E k \in Workers : worker[k].w = w /\ worker[k].at = "posting")
               <=> w \in Held /\ work[w].state = "pending"
    BY <1>1 DEF PoolInv, WorkerInv, Held
  <1>4. HeldAt(w, "executing") = (IF work[w].state = "executing" THEN 1 ELSE 0)
    BY <1>3, HeldOnce
  <1>5. HeldAt(w, "posting") = (IF w \in Held /\ work[w].state = "pending" THEN 1 ELSE 0)
    BY <1>3, HeldOnce
  <1>6. Times(events, w) = (IF Lists(events, w) THEN 1 ELSE 0)
    BY TimesOfDistinct DEF PoolInv, EventInv
  <1>7. Times(events, w) + HeldAt(w, "posting") = (IF work[w].state = "pending" THEN 1 ELSE 0)
    BY <1>5, <1>6 DEF PoolInv, EventInv
  <1> QED
    BY <1>2, <1>4, <1>7

\* Asynchronous work is never lost, doubled or misreported between the pool's
\* lock, its workers and the ready events (napi_queue_async_work,
\* napi_cancel_async_work, the workers and run_one_async_completion).
THEOREM WorkAccounted == Spec => []WorkIsAccounted
  <1>1. Init => PoolInv
    BY PoolInit
  <1>2. PoolInv /\ [Next]_vars => PoolInv'
    BY PoolStep
  <1>3. PoolInv => WorkIsAccounted
    BY PoolIsAccounted
  <1> QED
    BY <1>1, <1>2, <1>3, PTL DEF Spec

-----------------------------------------------------------------------------
(* The Envs, the handles and the flags.                                    *)

EnvTypes ==
    /\ env \in [Envs -> EnvBox]
    /\ handle \in [Handles -> [env : Envs, state : 0..2] \cup {NoHandle}]
    /\ unloading \in BOOLEAN /\ errors \in BOOLEAN
    /\ budget \in 0..MaxOps

LEMMA NewEnvType ==
    ASSUME NEW life \in {"none", "init", "live", "finalizing", "finalized"}
    PROVE  NewEnv(life) \in EnvBox
  <1>1. <<>> \in Seq(Hooks) /\ <<>> \in Seq(Handles) /\ FALSE \in BOOLEAN
    OBVIOUS
  <1> QED
    BY <1>1, Zenon DEF NewEnv, EnvBox

\* An assignment to fields of one Env box.
LEMMA SetEnv ==
    ASSUME NEW m \in [Envs -> EnvBox], NEW e \in Envs
    PROVE  /\ \A l \in {"none", "init", "live", "finalizing", "finalized"} :
                 [m EXCEPT ![e].life = l] \in [Envs -> EnvBox]
           /\ \A b \in BOOLEAN : /\ [m EXCEPT ![e].dispatching = b] \in [Envs -> EnvBox]
                                 /\ [m EXCEPT ![e].tsfn = b] \in [Envs -> EnvBox]
                                 /\ [m EXCEPT ![e].posted = b] \in [Envs -> EnvBox]
                                 /\ [m EXCEPT ![e].shutdown = b] \in [Envs -> EnvBox]
           /\ \A s \in Seq(Hooks) : [m EXCEPT ![e].hooks = s] \in [Envs -> EnvBox]
           /\ \A s \in Seq(Handles) : [m EXCEPT ![e].handles = s] \in [Envs -> EnvBox]
  <1>1. ASSUME NEW l \in {"none", "init", "live", "finalizing", "finalized"}
        PROVE  [m EXCEPT ![e].life = l] \in [Envs -> EnvBox]
    BY <1>1 DEF EnvBox
  <1>2. ASSUME NEW b \in BOOLEAN
        PROVE  /\ [m EXCEPT ![e].dispatching = b] \in [Envs -> EnvBox]
               /\ [m EXCEPT ![e].tsfn = b] \in [Envs -> EnvBox]
               /\ [m EXCEPT ![e].posted = b] \in [Envs -> EnvBox]
               /\ [m EXCEPT ![e].shutdown = b] \in [Envs -> EnvBox]
    BY ZenonT(40), <1>2 DEF EnvBox
  <1>3. ASSUME NEW s \in Seq(Hooks)
        PROVE  [m EXCEPT ![e].hooks = s] \in [Envs -> EnvBox]
    BY <1>3 DEF EnvBox
  <1>4. ASSUME NEW s \in Seq(Handles)
        PROVE  [m EXCEPT ![e].handles = s] \in [Envs -> EnvBox]
    BY <1>4 DEF EnvBox
  <1> QED
    BY <1>1, <1>2, <1>3, <1>4

LEMMA AddonKeepsEnvTypes ==
    ASSUME EnvTypes, Addon
    PROVE  EnvTypes'
  <1> USE DEF EnvTypes
  <1>1. ASSUME Spend PROVE budget' \in 0..MaxOps
    BY <1>1, HostAssumption DEF Spend
  <1>2. ASSUME NEW e \in Envs, NEW w \in Works, CreateWork(e, w)
        PROVE  EnvTypes'
    BY <1>1, <1>2 DEF CreateWork, host
  <1>3. ASSUME NEW w \in Works, QueueWork(w) \/ CancelWork(w) \/ DeleteWork(w)
        PROVE  EnvTypes'
    BY <1>3 DEF QueueWork, CancelWork, DeleteWork, host
  <1>4. ASSUME NEW e \in Envs, NEW k \in Hooks, AddHook(e, k)
        PROVE  EnvTypes'
    <2>1. env[e].hooks \in Seq(Hooks)
      BY DEF EnvBox
    <2>2. Append(env[e].hooks, k) \in Seq(Hooks)
      BY <2>1
    <2>3. env' = [env EXCEPT ![e].hooks = Append(env[e].hooks, k)]
      BY <1>4 DEF AddHook
    <2>4. env' \in [Envs -> EnvBox]
      BY <2>2, <2>3, SetEnv
    <2> QED
      BY <1>1, <1>4, <2>4 DEF AddHook
  <1>5. ASSUME NEW e \in Envs, NEW k \in Hooks, RemoveHook(e, k)
        PROVE  EnvTypes'
    <2>1. env[e].hooks \in Seq(Hooks)
      BY DEF EnvBox
    <2>2. PICK i \in 1..Len(env[e].hooks) :
             env' = [env EXCEPT ![e].hooks = RemoveAt(env[e].hooks, i)]
      BY <1>5 DEF RemoveHook
    <2>3. RemoveAt(env[e].hooks, i) \in Seq(Hooks)
      BY <2>1, RemoveAtFacts
    <2>4. env' \in [Envs -> EnvBox]
      BY <2>2, <2>3, SetEnv
    <2> QED
      BY <1>5, <2>4 DEF RemoveHook
  <1>6. ASSUME NEW e \in Envs, NEW h \in Handles, AddHandle(e, h)
        PROVE  EnvTypes'
    <2>1. env[e].handles \in Seq(Handles)
      BY DEF EnvBox
    <2>2. Append(env[e].handles, h) \in Seq(Handles)
      BY <2>1
    <2>3. /\ env' = [env EXCEPT ![e].handles = Append(env[e].handles, h)]
          /\ handle' = [handle EXCEPT ![h] = [env |-> e, state |-> 0]]
      BY <1>6 DEF AddHandle
    <2>4. env' \in [Envs -> EnvBox]
      BY <2>2, <2>3, SetEnv
    <2>5. handle' \in [Handles -> [env : Envs, state : 0..2] \cup {NoHandle}]
      BY <2>3
    <2> QED
      BY <1>1, <1>6, <2>4, <2>5 DEF AddHandle
  <1>7. ASSUME NEW e \in Envs, PostFinalizer(e) \/ CreateTsfn(e)
        PROVE  EnvTypes'
    <2>1. ASSUME PostFinalizer(e)
          PROVE  env' \in [Envs -> EnvBox]
      BY <2>1, SetEnv DEF PostFinalizer
    <2>2. ASSUME CreateTsfn(e)
          PROVE  env' \in [Envs -> EnvBox]
      BY <2>2, SetEnv DEF CreateTsfn
    <2> QED
      BY <1>1, <1>7, <2>1, <2>2 DEF PostFinalizer, CreateTsfn
  <1> QED
    BY <1>2, <1>3, <1>4, <1>5, <1>6, <1>7 DEF Addon

LEMMA OthersKeepEnvTypes ==
    ASSUME EnvTypes, Pool \/ Foreign \/ Callbacks \/ Polling
    PROVE  EnvTypes'
  <1> USE DEF EnvTypes
  <1>1. CASE Pool
    BY <1>1 DEF Pool, WorkerTake, WorkerFinish, WorkerPost, host
  <1>2. ASSUME NEW h \in Handles, RemoveHandle(h)
        PROVE  EnvTypes'
    <2>1. handle' \in [Handles -> [env : Envs, state : 0..2] \cup {NoHandle}]
      BY <1>2 DEF RemoveHandle, NoHandle
    <2> QED
      BY <1>2, <2>1 DEF RemoveHandle
  <1>3. ASSUME NEW e \in Envs, RetireTsfn(e)
        PROVE  EnvTypes'
    <2>1. env' \in [Envs -> EnvBox]
      BY <1>3, SetEnv DEF RetireTsfn
    <2> QED
      BY <1>3, <2>1 DEF RetireTsfn
  <1>4. ASSUME NEW threw \in BOOLEAN, Return(threw)
        PROVE  EnvTypes'
    <2>1. errors' \in BOOLEAN
      BY <1>4, Zenon DEF Return
    <2> QED
      BY <1>4, <2>1 DEF Return
  <1>5. ASSUME NEW failed \in BOOLEAN, InitReturns(failed)
        PROVE  EnvTypes'
    <2>1. env' = [env EXCEPT ![Top.env].life = "live", ![Top.env].shutdown = failed]
      BY <1>5 DEF InitReturns
    <2>2. ASSUME Top.env \in Envs
          PROVE  env' \in [Envs -> EnvBox]
      <3> DEFINE m == [env EXCEPT ![Top.env].life = "live"]
      <3>1. m \in [Envs -> EnvBox]
        BY <2>2, SetEnv
      <3>2. env' = [m EXCEPT ![Top.env].shutdown = failed]
        BY <2>1, <2>2
      <3> HIDE DEF m
      <3> QED
        BY <2>2, <3>1, <3>2, SetEnv
    <2>3. ASSUME Top.env \notin Envs
          PROVE  env' \in [Envs -> EnvBox]
      <3>1. env' = env
        BY <2>1, <2>3
      <3> QED
        BY <3>1
    <2>4. env' \in [Envs -> EnvBox]
      BY <2>2, <2>3
    <2> QED
      BY <1>5, <2>4 DEF InitReturns
  <1>6. CASE PollTake
    <2>1. env' = [e \in Envs |-> [env[e] EXCEPT !.posted = @ /\ e \notin Posted]]
      BY <1>6 DEF PollTake
    <2>2. ASSUME NEW e \in Envs
          PROVE  [env[e] EXCEPT !.posted = @ /\ e \notin Posted] \in EnvBox
      <3>1. PICK b \in BOOLEAN : b <=> (env[e].posted /\ e \notin Posted)
        OBVIOUS
      <3> QED
        BY <3>1 DEF EnvBox
    <2> DEFINE box(e) == [env[e] EXCEPT !.posted = @ /\ e \notin Posted]
    <2>3. env' = [e \in Envs |-> box(e)] /\ \A e \in Envs : box(e) \in EnvBox
      BY <2>1, <2>2
    <2> HIDE DEF box
    <2>4. env' \in [Envs -> EnvBox]
      BY <2>3
    <2> QED
      BY <1>6, <2>4 DEF PollTake
  <1>7. ASSUME (\E e \in Envs : PollRun(e)) \/ PollDrained \/ PollEvent \/ PollEnd
        PROVE  EnvTypes'
    BY <1>7 DEF PollRun, PollDrained, PollEvent, PollEnd, host
  <1> QED
    BY <1>1, <1>2, <1>3, <1>4, <1>5, <1>6, <1>7 DEF Foreign, Callbacks, Polling

LEMMA RetiringKeepsEnvTypes ==
    ASSUME EnvTypes, Retiring
    PROVE  EnvTypes'
  <1> USE DEF EnvTypes
  <1>1. <<>> \in Seq(Hooks) /\ <<>> \in Seq(Handles)
    OBVIOUS
  <1>2. ASSUME RetireCheck \/ FinishHook
        PROVE  EnvTypes'
    BY <1>2 DEF RetireCheck, FinishHook, host
  <1>3. ASSUME NEW e \in Envs, RetireBegin(e)
        PROVE  EnvTypes'
    <2>1. env' = env \/ env' = [env EXCEPT ![e].dispatching = TRUE]
      BY <1>3 DEF RetireBegin
    <2>2. ASSUME env' = [env EXCEPT ![e].dispatching = TRUE]
          PROVE  env' \in [Envs -> EnvBox]
      BY <2>2, SetEnv
    <2> QED
      BY <1>3, <2>1, <2>2 DEF RetireBegin
  <1>4. ASSUME BeginTake \/ FinishPosted
        PROVE  EnvTypes'
    <2> DEFINE e == Top.env
    <2>1. \/ env' = [env EXCEPT ![e].dispatching = FALSE]
          \/ env' = [env EXCEPT ![e].handles = <<>>]
          \/ env' = [env EXCEPT ![e].posted = FALSE]
          \/ env' = [env EXCEPT ![e].life = "finalized"]
      BY <1>4 DEF BeginTake, FinishPosted
    <2>2. UNCHANGED <<handle, unloading, errors, budget>>
      BY <1>4 DEF BeginTake, FinishPosted
    <2> HIDE DEF e
    <2>3. ASSUME e \notin Envs
          PROVE  env' = env
      BY <2>1, <2>3
    <2>4. ASSUME e \in Envs
          PROVE  env' \in [Envs -> EnvBox]
      <3>1. ASSUME env' = [env EXCEPT ![e].dispatching = FALSE]
            PROVE  env' \in [Envs -> EnvBox]
        BY <2>4, <3>1, SetEnv
      <3>2. ASSUME env' = [env EXCEPT ![e].posted = FALSE]
            PROVE  env' \in [Envs -> EnvBox]
        BY <2>4, <3>2, SetEnv
      <3>3. ASSUME env' = [env EXCEPT ![e].handles = <<>>]
            PROVE  env' \in [Envs -> EnvBox]
        BY <1>1, <2>4, <3>3, SetEnv
      <3>4. ASSUME env' = [env EXCEPT ![e].life = "finalized"]
            PROVE  env' \in [Envs -> EnvBox]
        BY <2>4, <3>4, SetEnv
      <3> QED
        BY <2>1, <3>1, <3>2, <3>3, <3>4
    <2> QED
      BY <2>2, <2>3, <2>4
  <1>5. CASE BeginNext
    <2>1. \/ handle' = handle
          \/ handle[Top.batch[Len(Top.batch)]].state = 0
             /\ handle' = [handle EXCEPT ![Top.batch[Len(Top.batch)]].state = 1]
      BY <1>5 DEF BeginNext
    <2> DEFINE h == Top.batch[Len(Top.batch)]
    <2>2. h \in Handles /\ handle[h].state = 0 => handle[h] \in [env : Envs, state : 0..2]
      BY DEF NoHandle
    <2> HIDE DEF h
    <2>3. handle' \in [Handles -> [env : Envs, state : 0..2] \cup {NoHandle}]
      BY <2>1, <2>2 DEF h
    <2> QED
      BY <1>5, <2>3 DEF BeginNext
  <1>6. CASE RetireNext
    <2>1. env' = env \/ \E e \in Top.all :
             env' = [env EXCEPT ![e].life = "finalizing", ![e].hooks = <<>>]
      BY <1>6 DEF RetireNext
    <2>2. ASSUME NEW e \in Envs,
                 env' = [env EXCEPT ![e].life = "finalizing", ![e].hooks = <<>>]
          PROVE  env' \in [Envs -> EnvBox]
      <3> DEFINE m == [env EXCEPT ![e].life = "finalizing"]
      <3>1. m \in [Envs -> EnvBox] /\ env' = [m EXCEPT ![e].hooks = <<>>]
        BY <2>2, SetEnv
      <3> HIDE DEF m
      <3> QED
        BY <1>1, <3>1, SetEnv
    <2>3. ASSUME NEW e, e \notin Envs,
                 env' = [env EXCEPT ![e].life = "finalizing", ![e].hooks = <<>>]
          PROVE  env' = env
      BY <2>3
    <2>4. env' \in [Envs -> EnvBox]
      BY <2>1, <2>2, <2>3
    <2> QED
      BY <1>6, <2>4 DEF RetireNext
  <1> QED
    BY <1>2, <1>3, <1>4, <1>5, <1>6 DEF Retiring

LEMMA ProgramKeepsEnvTypes ==
    ASSUME EnvTypes, Program
    PROVE  EnvTypes'
  <1> USE DEF EnvTypes
  <1>1. ASSUME Spend PROVE budget' \in 0..MaxOps
    BY <1>1, HostAssumption DEF Spend
  <1>2. CASE Poll
    <2>1. budget' \in 0..MaxOps
      BY <1>2, HostAssumption DEF Poll, AddonRuns, TopLevel
    <2> QED
      BY <1>2, <2>1 DEF Poll, host
  <1>3. CASE BeginShutdown
    <2> DEFINE box(e) == [env[e] EXCEPT !.shutdown = @ \/ e \in Published]
    <2>1. env' = env \/ env' = [e \in Envs |-> box(e)]
      BY <1>3 DEF BeginShutdown
    <2>2. ASSUME NEW e \in Envs
          PROVE  box(e) \in EnvBox
      <3>1. PICK b \in BOOLEAN : b <=> (env[e].shutdown \/ e \in Published)
        OBVIOUS
      <3> QED
        BY <3>1 DEF EnvBox
    <2> HIDE DEF box
    <2>3. env' \in [Envs -> EnvBox]
      BY <2>1, <2>2
    <2>4. /\ unloading' = TRUE /\ UNCHANGED <<handle, budget>>
          /\ errors' = errors \/ errors' = (errors \/ Published # {})
      BY <1>3 DEF BeginShutdown
    <2>5. unloading' \in BOOLEAN
      BY <2>4, Zenon
    <2>6. errors' \in BOOLEAN
      <3>1. (errors \/ Published # {}) \in BOOLEAN
        BY Zenon
      <3> QED
        BY <2>4, <3>1, Zenon
    <2> QED
      BY <2>3, <2>4, <2>5, <2>6
  <1>4. CASE ReportErrors
    BY <1>4 DEF ReportErrors
  <1>5. CASE FinishShutdown
    <2>1. env' = [e \in Envs |-> IF e \in Published THEN NewEnv("none") ELSE env[e]]
      BY <1>5 DEF FinishShutdown
    <2>2. env' \in [Envs -> EnvBox]
      BY <2>1, NewEnvType
    <2> QED
      BY <1>5, <2>2 DEF FinishShutdown
  <1>6. ASSUME NEW e \in Envs, Load(e)
        PROVE  EnvTypes'
    <2>1. env' = [env EXCEPT ![e] = NewEnv("init")]
      BY <1>6 DEF Load
    <2>2. env' \in [Envs -> EnvBox]
      BY <2>1, NewEnvType
    <2> QED
      BY <1>1, <1>6, <2>2 DEF Load
  <1>7. ASSUME NEW e \in Envs, CallExport(e)
        PROVE  EnvTypes'
    BY <1>1, <1>7 DEF CallExport, host
  <1> QED
    BY <1>2, <1>3, <1>4, <1>5, <1>6, <1>7 DEF Program

LEMMA EnvTypesStep ==
    ASSUME EnvTypes, [Next]_vars
    PROVE  EnvTypes'
  <1>1. CASE UNCHANGED vars
    BY <1>1 DEF EnvTypes, vars, host
  <1> QED
    BY <1>1, AddonKeepsEnvTypes, OthersKeepEnvTypes, RetiringKeepsEnvTypes, ProgramKeepsEnvTypes
       DEF Next

LEMMA EnvTypesInit == Init => EnvTypes
  <1> SUFFICES ASSUME Init PROVE EnvTypes
    OBVIOUS
  <1>1. env \in [Envs -> EnvBox]
    BY NewEnvType DEF Init
  <1>2. handle \in [Handles -> [env : Envs, state : 0..2] \cup {NoHandle}]
    BY DEF Init
  <1>3. unloading \in BOOLEAN /\ errors \in BOOLEAN
    BY Zenon DEF Init
  <1>4. budget \in 0..MaxOps
    BY HostAssumption DEF Init
  <1> QED
    BY <1>1, <1>2, <1>3, <1>4 DEF EnvTypes

\* A step takes a handle's state up, if it takes it anywhere.
LEMMA HandlesGoUp ==
    ASSUME EnvTypes, [Next]_vars, NEW h \in Handles, handle[h] # NoHandle
    PROVE  handle'[h].state >= handle[h].state
  <1>1. handle[h].state \in 0..2 /\ handle \in [Handles -> [env : Envs, state : 0..2] \cup {NoHandle}]
    BY DEF EnvTypes
  <1>2. ASSUME UNCHANGED handle
        PROVE  handle'[h].state >= handle[h].state
    BY <1>1, <1>2
  <1>3. ASSUME NEW e \in Envs, NEW g \in Handles, AddHandle(e, g)
        PROVE  handle'[h].state >= handle[h].state
    BY <1>1, <1>3 DEF AddHandle
  <1>4. ASSUME NEW g \in Handles, RemoveHandle(g)
        PROVE  handle'[h].state >= handle[h].state
    BY <1>1, <1>4 DEF RemoveHandle
  <1>5. ASSUME BeginNext
        PROVE  handle'[h].state >= handle[h].state
    <2> DEFINE g == Top.batch[Len(Top.batch)]
    <2>1. handle' = handle \/ (handle[g].state = 0 /\ handle' = [handle EXCEPT ![g].state = 1])
      BY <1>5 DEF BeginNext
    <2> HIDE DEF g
    <2> QED
      BY <1>1, <2>1
  <1>6. CASE Addon
    <2>1. ASSUME NEW e \in Envs, NEW w \in Works, CreateWork(e, w)
          PROVE  UNCHANGED handle
      BY <2>1 DEF CreateWork, host
    <2>2. ASSUME NEW w \in Works, QueueWork(w) \/ CancelWork(w) \/ DeleteWork(w)
          PROVE  UNCHANGED handle
      BY <2>2 DEF QueueWork, CancelWork, DeleteWork, host
    <2>3. ASSUME NEW e \in Envs, \/ \E k \in Hooks : AddHook(e, k) \/ RemoveHook(e, k)
                                 \/ PostFinalizer(e) \/ CreateTsfn(e)
          PROVE  UNCHANGED handle
      BY <2>3 DEF AddHook, RemoveHook, PostFinalizer, CreateTsfn
    <2> QED
      BY <1>2, <1>3, <1>6, <2>1, <2>2, <2>3 DEF Addon
  <1>7. CASE Pool
    BY <1>2, <1>7 DEF Pool, WorkerTake, WorkerFinish, WorkerPost, host
  <1>8. CASE Foreign
    BY <1>2, <1>4, <1>8 DEF Foreign, RetireTsfn
  <1>9. CASE Callbacks
    BY <1>2, <1>9 DEF Callbacks, Return, InitReturns
  <1>10. CASE Polling
    BY <1>2, <1>10 DEF Polling, PollTake, PollRun, PollDrained, PollEvent, PollEnd, host
  <1>11. CASE Retiring
    BY <1>2, <1>5, <1>11
       DEF Retiring, RetireCheck, RetireBegin, BeginTake, RetireNext, FinishHook, FinishPosted, host
  <1>12. CASE Program
    BY <1>2, <1>12 DEF Program, Poll, BeginShutdown, ReportErrors, FinishShutdown, Load,
                       CallExport, host
  <1>13. CASE UNCHANGED vars
    BY <1>2, <1>13 DEF vars, host
  <1> QED
    BY <1>6, <1>7, <1>8, <1>9, <1>10, <1>11, <1>12, <1>13 DEF Next

\* An asynchronous cleanup hook starts at most once and never after its removal:
\* begin_async_cleanup and napi_remove_async_cleanup_hook only ever take a
\* handle's state up.
THEOREM HooksStartedOnce == Spec => HooksStartOnce
  <1>1. Init => EnvTypes
    BY EnvTypesInit
  <1>2. EnvTypes /\ [Next]_vars => EnvTypes'
    BY EnvTypesStep
  <1>3. EnvTypes /\ [Next]_vars
           => [\A h \in Handles : handle[h] # NoHandle => handle'[h].state >= handle[h].state]_vars
    BY HandlesGoUp
  <1> QED
    BY <1>1, <1>2, <1>3, PTL DEF Spec, HooksStartOnce

-----------------------------------------------------------------------------
(* The owner thread's frames.                                              *)

\* What may lie on what: a retirement is outermost, what it starts lies on it,
\* and every other frame lies on one that lets addon code run.
FrameFits(s, i) ==
    LET f == s[i]
    IN  /\ f.op \in {"poll", "init"} =>
              i <= MaxDepth /\ (i > 1 => s[i - 1].op \in {"callback", "init"})
        /\ f.op = "callback" => (i > 1 => s[i - 1].op \in {"poll", "begin", "finish"})
        /\ f.op = "retire" => i = 1
        /\ f.op \in {"begin", "finish"} => i = 2 /\ s[1].op = "retire"
        /\ f.op \in {"callback", "init", "begin", "finish"} => f.env \in Envs
        /\ f.op = "begin" => f.batch \in Seq(Handles)
        /\ f.op = "finish" => f.batch \in Seq(Hooks)

Shaped(s) == s \in Seq(Frame) /\ \A i \in 1..Len(s) : FrameFits(s, i)

LEMMA NewFrame ==
    ASSUME NEW op \in {"poll", "callback", "init", "retire", "begin", "finish"},
           NEW at \in {"drain", "events", "check", "begin", "hooks", "posted", "run", "call"},
           NEW e \in Envs \cup {None}, NEW batch \in Seq(Handles) \cup Seq(Hooks)
    PROVE  /\ F(op, at, e, batch) \in Frame
           /\ F(op, at, e, batch).op = op /\ F(op, at, e, batch).env = e
           /\ F(op, at, e, batch).batch = batch /\ F(op, at, e, batch).todo = {}
  BY DEF F, Frame

LEMMA CallbackFrame ==
    ASSUME NEW e \in Envs, NEW at \in {"run", "call"}
    PROVE  /\ F("callback", at, e, <<>>) \in Frame
           /\ F("callback", at, e, <<>>).op = "callback"
           /\ F("callback", at, e, <<>>).env = e
  <1>1. <<>> \in Seq(Handles) \cup Seq(Hooks)
    OBVIOUS
  <1> QED
    BY <1>1 DEF F, Frame

LEMMA SetFrame ==
    ASSUME NEW f \in Frame
    PROVE  /\ f.op \in {"poll", "callback", "init", "retire", "begin", "finish"}
           /\ f.todo \subseteq Envs /\ f.all \subseteq Envs /\ f.env \in Envs \cup {None}
           /\ \A at \in {"drain", "events", "check", "begin", "hooks", "posted", "run", "call"} :
                 LET g == [f EXCEPT !.at = at]
                 IN  g \in Frame /\ g.op = f.op /\ g.env = f.env /\ g.batch = f.batch
                     /\ g.todo = f.todo
           /\ \A t \in SUBSET Envs :
                 LET g == [f EXCEPT !.todo = t]
                 IN  g \in Frame /\ g.op = f.op /\ g.env = f.env /\ g.batch = f.batch
                     /\ g.todo = t
           /\ \A b \in Seq(Handles) \cup Seq(Hooks) :
                 LET g == [f EXCEPT !.batch = b]
                 IN  g \in Frame /\ g.op = f.op /\ g.env = f.env /\ g.batch = b
                     /\ g.todo = f.todo
  BY DEF Frame

LEMMA PopFacts ==
    ASSUME stack \in Seq(Frame), stack # <<>>
    PROVE  /\ Len(stack) \in Nat \ {0} /\ Top \in Frame
           /\ Pop \in Seq(Frame) /\ Len(Pop) = Len(stack) - 1
           /\ \A i \in 1..(Len(stack) - 1) : Pop[i] = stack[i]
  BY ButLast DEF Pop, Top

LEMMA PushFacts ==
    ASSUME NEW s \in Seq(Frame), NEW f \in Frame
    PROVE  /\ Len(s) \in Nat
           /\ Append(s, f) \in Seq(Frame) /\ Len(Append(s, f)) = Len(s) + 1
           /\ \A i \in 1..Len(s) : Append(s, f)[i] = s[i]
           /\ Append(s, f)[Len(s) + 1] = f
  OBVIOUS

LEMMA GoToFacts ==
    ASSUME stack \in Seq(Frame), stack # <<>>, NEW f \in Frame
    PROVE  /\ GoTo(f) \in Seq(Frame) /\ Len(GoTo(f)) = Len(stack)
           /\ \A i \in 1..(Len(stack) - 1) : GoTo(f)[i] = stack[i]
           /\ GoTo(f)[Len(stack)] = f
  <1>1. /\ Len(stack) \in Nat \ {0}
        /\ Pop \in Seq(Frame) /\ Len(Pop) = Len(stack) - 1
        /\ \A i \in 1..(Len(stack) - 1) : Pop[i] = stack[i]
    BY PopFacts
  <1>2. /\ Append(Pop, f) \in Seq(Frame) /\ Len(Append(Pop, f)) = Len(Pop) + 1
        /\ \A i \in 1..Len(Pop) : Append(Pop, f)[i] = Pop[i]
        /\ Append(Pop, f)[Len(Pop) + 1] = f
    BY <1>1, PushFacts
  <1> QED
    BY <1>1, <1>2 DEF GoTo

LEMMA PopShaped ==
    ASSUME Shaped(stack), stack # <<>>
    PROVE  Shaped(Pop)
  <1>1. /\ Len(stack) \in Nat \ {0}
        /\ Pop \in Seq(Frame) /\ Len(Pop) = Len(stack) - 1
        /\ \A i \in 1..(Len(stack) - 1) : Pop[i] = stack[i]
    BY PopFacts DEF Shaped
  <1>2. ASSUME NEW i \in 1..(Len(stack) - 1)
        PROVE  FrameFits(Pop, i)
    <2>1. /\ Pop[i] = stack[i] /\ Pop[1] = stack[1]
          /\ i > 1 => Pop[i - 1] = stack[i - 1]
      BY <1>1
    <2>2. FrameFits(stack, i)
      BY <1>1 DEF Shaped
    <2> QED
      BY <2>1, <2>2 DEF FrameFits
  <1> QED
    BY <1>1, <1>2 DEF Shaped

\* f may be put on s.
LiesOn(s, f) ==
    /\ f \in Frame
    /\ f.op \in {"poll", "init"} =>
          Len(s) < MaxDepth /\ (s # <<>> => s[Len(s)].op \in {"callback", "init"})
    /\ f.op = "callback" => (s # <<>> => s[Len(s)].op \in {"poll", "begin", "finish"})
    /\ f.op = "retire" => s = <<>>
    /\ f.op \in {"begin", "finish"} => Len(s) = 1 /\ s[1].op = "retire"
    /\ f.op \in {"callback", "init", "begin", "finish"} => f.env \in Envs
    /\ f.op = "begin" => f.batch \in Seq(Handles)
    /\ f.op = "finish" => f.batch \in Seq(Hooks)

LEMMA PushShaped ==
    ASSUME NEW s, Shaped(s), NEW f, LiesOn(s, f)
    PROVE  Shaped(Append(s, f))
  <1> DEFINE t == Append(s, f)
  <1>1. /\ s \in Seq(Frame) /\ Len(s) \in Nat
        /\ t \in Seq(Frame) /\ Len(t) = Len(s) + 1
        /\ \A i \in 1..Len(s) : t[i] = s[i]
        /\ t[Len(s) + 1] = f
    BY PushFacts DEF Shaped, LiesOn
  <1>2. s # <<>> <=> Len(s) > 0
    BY <1>1
  <1> HIDE DEF t
  <1>3. ASSUME NEW i \in 1..Len(s)
        PROVE  FrameFits(t, i)
    <2>1. /\ t[i] = s[i] /\ t[1] = s[1]
          /\ i > 1 => t[i - 1] = s[i - 1]
      BY <1>1
    <2>2. FrameFits(s, i)
      BY DEF Shaped
    <2> QED
      BY <2>1, <2>2 DEF FrameFits
  <1>4. FrameFits(t, Len(s) + 1)
    <2>1. /\ s # <<>> => t[Len(s)] = s[Len(s)] /\ t[1] = s[1]
          /\ Len(s) + 1 > 1 => s # <<>>
          /\ (Len(s) + 1) - 1 = Len(s)
          /\ Len(s) < MaxDepth => Len(s) + 1 <= MaxDepth
          /\ s = <<>> => Len(s) + 1 = 1
          /\ Len(s) = 1 => Len(s) + 1 = 2 /\ s # <<>>
      BY <1>1, <1>2, HostAssumption
    <2> QED
      BY <1>1, <2>1 DEF FrameFits, LiesOn
  <1> QED
    BY <1>1, <1>3, <1>4 DEF Shaped, t

\* The innermost frame may move on.
LEMMA GoToShaped ==
    ASSUME Shaped(stack), stack # <<>>, NEW f \in Frame, f.op = Top.op, f.env = Top.env,
           f.op = "begin" => f.batch \in Seq(Handles),
           f.op = "finish" => f.batch \in Seq(Hooks)
    PROVE  Shaped(GoTo(f))
  <1>1. /\ Len(stack) \in Nat \ {0}
        /\ Pop \in Seq(Frame) /\ Len(Pop) = Len(stack) - 1
        /\ \A i \in 1..(Len(stack) - 1) : Pop[i] = stack[i]
    BY PopFacts DEF Shaped
  <1>2. FrameFits(stack, Len(stack)) /\ Top = stack[Len(stack)]
    BY <1>1 DEF Shaped, Top
  <1>3. /\ Pop # <<>> <=> Len(stack) > 1
        /\ Len(stack) > 1 => Pop[Len(Pop)] = stack[Len(stack) - 1] /\ Pop[1] = stack[1]
        /\ Len(stack) = 1 => Pop = <<>>
        /\ Len(stack) = 2 => Len(Pop) = 1
        /\ Len(stack) <= MaxDepth => Len(Pop) < MaxDepth
    BY <1>1, HostAssumption
  <1>4. LiesOn(Pop, f)
    BY <1>2, <1>3 DEF FrameFits, LiesOn
  <1> QED
    BY <1>4, PopShaped, PushShaped DEF GoTo

\* Only the outermost poll or init is followed by a retirement.
LEMMA RetirePop ==
    ASSUME Shaped(stack), stack # <<>>, Top.op \in {"poll", "init"}
    PROVE  \/ Retire(Pop) = Pop /\ Pop # <<>>
           \/ Pop = <<>> /\ Retire(Pop) = Append(<<>>, F("retire", "check", None, <<>>))
  <1>1. /\ Len(stack) \in Nat \ {0} /\ Top = stack[Len(stack)]
        /\ Pop \in Seq(Frame) /\ Len(Pop) = Len(stack) - 1
        /\ \A i \in 1..(Len(stack) - 1) : Pop[i] = stack[i]
    BY PopFacts DEF Shaped, Top
  <1>2. FrameFits(stack, Len(stack))
    BY <1>1 DEF Shaped
  <1>3. ASSUME Pop # <<>>
        PROVE  Guarded(Pop)
    <2>1. Len(Pop) \in 1..Len(Pop) /\ Len(stack) > 1 /\ Pop[Len(Pop)] = stack[Len(stack) - 1]
      BY <1>1, <1>3
    <2>2. Pop[Len(Pop)].op \in {"callback", "init"}
      BY <1>1, <1>2, <2>1 DEF FrameFits
    <2> QED
      BY <2>1, <2>2 DEF Guarded
  <1>4. ASSUME Pop = <<>>
        PROVE  ~Guarded(Pop)
    BY <1>4 DEF Guarded
  <1> QED
    BY <1>3, <1>4 DEF Retire

LEMMA RetirementFrame ==
    LET f == F("retire", "check", None, <<>>)
    IN  /\ f \in Frame /\ f.op = "retire" /\ f.todo = {}
        /\ Append(<<>>, f) = <<f>>
        /\ Shaped(<<f>>)
  <1> DEFINE f == F("retire", "check", None, <<>>)
  <1>1. <<>> \in Seq(Handles) \cup Seq(Hooks)
    OBVIOUS
  <1>2. f \in Frame /\ f.op = "retire" /\ f.todo = {}
    BY <1>1 DEF F, Frame
  <1> HIDE DEF f
  <1>3. Append(<<>>, f) = <<f>>
    OBVIOUS
  <1>4. LiesOn(<<>>, f) /\ Shaped(<<>>)
    BY <1>2 DEF LiesOn, Shaped
  <1> QED
    BY <1>2, <1>3, <1>4, PushShaped DEF f

LEMMA RetirePopShaped ==
    ASSUME Shaped(stack), stack # <<>>, Top.op \in {"poll", "init"}
    PROVE  Shaped(Retire(Pop))
  BY RetirePop, RetirementFrame, PopShaped

LEMMA CallbacksAreShaped ==
    ASSUME Shaped(stack), Callbacks
    PROVE  Shaped(stack')
  <1>1. stack # <<>>
    BY DEF Callbacks, Return, InitReturns, At
  <1>2. stack' = Pop \/ (Top.op = "init" /\ stack' = Retire(Pop))
    BY DEF Callbacks, Return, InitReturns, At
  <1> QED
    BY <1>1, <1>2, PopShaped, RetirePopShaped

LEMMA NextEvent ==
    ASSUME PoolInv, events # <<>>
    PROVE  /\ Head(events) \in Active
           /\ work[Head(events)].env \in Envs
  <1>1. Head(events) \in Works /\ Lists(events, Head(events))
    BY TailLists DEF PoolInv, PoolTypes, EventInv
  <1>2. work[Head(events)].state = "pending"
    BY <1>1 DEF PoolInv, EventInv
  <1>3. work[Head(events)] \in AsyncWork
    BY <1>1, <1>2, WorkStates DEF PoolInv
  <1> QED
    BY <1>1, <1>2, <1>3 DEF Active, AsyncWork

LEMMA PollingIsShaped ==
    ASSUME Shaped(stack), PoolInv, Polling
    PROVE  Shaped(stack')
  <1>2. stack # <<>> /\ Top.op = "poll"
    BY DEF Polling, PollTake, PollRun, PollDrained, PollEvent, PollEnd, At
  <1>3. Top \in Frame /\ Len(stack) \in Nat \ {0}
    BY <1>2, PopFacts DEF Shaped
  <1>4. ASSUME NEW f \in Frame, f.op = "poll", f.env = Top.env
        PROVE  /\ Shaped(GoTo(f))
               /\ \A e \in Envs : Shaped(Append(GoTo(f), F("callback", "run", e, <<>>)))
    <2>1. Shaped(GoTo(f))
      BY <1>2, <1>4, GoToShaped
    <2>2. GoTo(f) \in Seq(Frame) /\ Len(GoTo(f)) = Len(stack) /\ GoTo(f)[Len(stack)] = f
      BY <1>2, GoToFacts DEF Shaped
    <2>3. ASSUME NEW e \in Envs
          PROVE  LiesOn(GoTo(f), F("callback", "run", e, <<>>))
      <3>1. /\ F("callback", "run", e, <<>>) \in Frame
            /\ F("callback", "run", e, <<>>).op = "callback"
            /\ F("callback", "run", e, <<>>).env = e
        BY CallbackFrame
      <3> QED
        BY <1>4, <2>2, <3>1 DEF LiesOn
    <2> QED
      BY <2>1, <2>3, PushShaped
  <1>5. CASE PollTake
    <2>1. Posted \in SUBSET Envs
      BY DEF Posted, Published
    <2>2. stack' = GoTo([Top EXCEPT !.todo = Posted])
      BY <1>5 DEF PollTake
    <2> QED
      BY <1>2, <1>3, <1>4, <2>1, <2>2, SetFrame
  <1>6. ASSUME NEW e \in Envs, PollRun(e)
        PROVE  Shaped(stack')
    <2>1. stack' = Append(GoTo([Top EXCEPT !.todo = Top.todo \ {e}]), F("callback", "run", e, <<>>))
      BY <1>6 DEF PollRun
    <2>2. Top.todo \ {e} \in SUBSET Envs
      BY <1>3, SetFrame
    <2> DEFINE f == [Top EXCEPT !.todo = Top.todo \ {e}]
    <2>3. f \in Frame /\ f.op = "poll" /\ f.env = Top.env
      BY <1>2, <1>3, <2>2, SetFrame
    <2> HIDE DEF f
    <2>4. Shaped(Append(GoTo(f), F("callback", "run", e, <<>>)))
      BY <1>4, <2>3
    <2> QED
      BY <2>1, <2>4 DEF f
  <1>7. CASE PollDrained
    <2>1. stack' = GoTo([Top EXCEPT !.at = "events"])
      BY <1>7 DEF PollDrained
    <2> QED
      BY <1>2, <1>3, <1>4, <2>1, SetFrame
  <1>8. CASE PollEvent
    <2> DEFINE e == work[Head(events)].env
    <2>1. /\ stack' = Append(stack, F("callback", "run", e, <<>>))
          /\ events # <<>>
      BY <1>8 DEF PollEvent
    <2>2. e \in Envs
      BY <2>1, NextEvent
    <2> HIDE DEF e
    <2>3. /\ F("callback", "run", e, <<>>) \in Frame
          /\ F("callback", "run", e, <<>>).op = "callback"
          /\ F("callback", "run", e, <<>>).env = e
      BY <2>2, CallbackFrame
    <2>4. LiesOn(stack, F("callback", "run", e, <<>>))
      BY <1>2, <2>2, <2>3 DEF LiesOn, Top
    <2> QED
      BY <2>1, <2>4, PushShaped
  <1>9. CASE PollEnd
    <2>1. stack' = GoTo([Top EXCEPT !.at = "drain"]) \/ stack' = Retire(Pop)
      BY <1>9 DEF PollEnd
    <2> DEFINE f == [Top EXCEPT !.at = "drain"]
    <2>2. f \in Frame /\ f.op = "poll" /\ f.env = Top.env
      BY <1>2, <1>3, SetFrame
    <2> HIDE DEF f
    <2>3. Shaped(GoTo(f)) /\ Shaped(Retire(Pop))
      BY <1>2, <1>4, <2>2, RetirePopShaped
    <2> QED
      BY <2>1, <2>3 DEF f
  <1> QED
    BY <1>5, <1>6, <1>7, <1>8, <1>9 DEF Polling

\* A callback may be put on the innermost frame of a begin or a finish.
LEMMA CallbackOnTop ==
    ASSUME Shaped(stack), stack # <<>>, Top.op \in {"begin", "finish"},
           NEW f \in Frame, f.op = Top.op, f.env = Top.env,
           f.op = "begin" => f.batch \in Seq(Handles),
           f.op = "finish" => f.batch \in Seq(Hooks)
    PROVE  /\ Shaped(GoTo(f)) /\ Top.env \in Envs
           /\ Shaped(Append(GoTo(f), F("callback", "run", Top.env, <<>>)))
  <1>1. Shaped(GoTo(f))
    BY GoToShaped
  <1>2. /\ GoTo(f) \in Seq(Frame) /\ Len(GoTo(f)) = Len(stack) /\ GoTo(f)[Len(stack)] = f
        /\ Len(stack) \in Nat \ {0}
    BY GoToFacts, PopFacts DEF Shaped
  <1>3. Top.env \in Envs
    BY <1>2 DEF Shaped, FrameFits, Top
  <1>4. LiesOn(GoTo(f), F("callback", "run", Top.env, <<>>))
    BY <1>2, <1>3, CallbackFrame DEF LiesOn
  <1> QED
    BY <1>1, <1>3, <1>4, PushShaped

\* A frame of a begin or a finish, put on the retirement that starts it.
LEMMA OnRetirement ==
    ASSUME Shaped(stack), stack # <<>>, Top.op = "retire",
           NEW f \in Frame, f.op = "retire", f.env = Top.env,
           NEW g \in Frame, g.env \in Envs,
           \/ g.op = "begin" /\ g.batch \in Seq(Handles)
           \/ g.op = "finish" /\ g.batch \in Seq(Hooks)
    PROVE  Len(stack) = 1 /\ Shaped(GoTo(f)) /\ Shaped(Append(GoTo(f), g))
  <1>1. Shaped(GoTo(f))
    BY GoToShaped
  <1>2. /\ GoTo(f) \in Seq(Frame) /\ Len(GoTo(f)) = Len(stack) /\ GoTo(f)[Len(stack)] = f
        /\ Len(stack) \in Nat \ {0}
    BY GoToFacts, PopFacts DEF Shaped
  <1>3. Len(stack) = 1
    BY <1>2 DEF Shaped, FrameFits, Top
  <1>4. LiesOn(GoTo(f), g)
    BY <1>2, <1>3 DEF LiesOn
  <1> QED
    BY <1>1, <1>3, <1>4, PushShaped

LEMMA RetiringIsShaped ==
    ASSUME Shaped(stack), EnvTypes, Retiring
    PROVE  Shaped(stack')
  <1>1. /\ stack # <<>>
        /\ Top.op \in {"retire", "begin", "finish"}
    BY DEF Retiring, RetireCheck, RetireBegin, BeginTake, BeginNext, RetireNext, FinishHook,
           FinishPosted, At
  <1>2. /\ Top \in Frame /\ Len(stack) \in Nat \ {0}
        /\ Shaped(Pop)
    BY <1>1, PopFacts, PopShaped DEF Shaped
  <1>3. FrameFits(stack, Len(stack)) /\ Top = stack[Len(stack)]
    BY <1>2 DEF Shaped, Top
  <1>4. <<>> \in Seq(Handles) /\ <<>> \in Seq(Hooks)
    OBVIOUS
  <1>5. \A e \in Envs : env[e].handles \in Seq(Handles) /\ env[e].hooks \in Seq(Hooks)
    BY DEF EnvTypes, EnvBox
  <1>6. CASE RetireCheck
    <2> DEFINE r == {e \in Published : env[e].shutdown}
               g == [Top EXCEPT !.at = "begin", !.todo = r, !.all = r]
    <2>1. stack' = Pop \/ stack' = GoTo(g)
      BY <1>6 DEF RetireCheck
    <2>2. r \in SUBSET Envs
      BY DEF Published
    <2>3. g \in Frame /\ g.op = "retire" /\ g.env = Top.env /\ Top.op = "retire"
      BY <1>2, <1>6, <2>2 DEF Frame, RetireCheck, At
    <2> HIDE DEF g, r
    <2>4. Shaped(GoTo(g))
      BY <1>1, <2>3, GoToShaped
    <2> QED
      BY <1>2, <2>1, <2>4
  <1>7. ASSUME NEW e \in Envs, RetireBegin(e)
        PROVE  Shaped(stack')
    <2> DEFINE f == [Top EXCEPT !.todo = Top.todo \ {e}]
               g == F("begin", "run", e, <<>>)
    <2>1. /\ stack' = GoTo(f) \/ stack' = Append(GoTo(f), g)
          /\ Top.op = "retire"
      BY <1>7 DEF RetireBegin, At
    <2>2. f \in Frame /\ f.op = "retire" /\ f.env = Top.env
      BY ZenonT(40), <1>2, <2>1, SetFrame
    <2>3. g \in Frame /\ g.env \in Envs /\ g.op = "begin" /\ g.batch \in Seq(Handles)
      BY <1>4 DEF F, Frame
    <2> HIDE DEF f, g
    <2> QED
      BY <1>1, <2>1, <2>2, <2>3, OnRetirement
  <1>8. CASE BeginTake
    <2> DEFINE b == env[Top.env].handles
               f == [Top EXCEPT !.batch = b]
    <2>1. /\ stack' = Pop \/ stack' = GoTo(f)
          /\ Top.op = "begin"
      BY <1>8 DEF BeginTake, At
    <2>2. b \in Seq(Handles)
      BY <1>3, <1>5, <2>1 DEF FrameFits
    <2>3. f \in Frame /\ f.op = "begin" /\ f.env = Top.env /\ f.batch = b
      BY ZenonT(40), <1>2, <2>1, <2>2, SetFrame
    <2> HIDE DEF f, b
    <2>4. Shaped(GoTo(f))
      BY <1>1, <2>1, <2>2, <2>3, GoToShaped
    <2> QED
      BY <1>2, <2>1, <2>4
  <1>9. CASE BeginNext
    <2> DEFINE b == SubSeq(Top.batch, 1, Len(Top.batch) - 1)
               f == [Top EXCEPT !.batch = b]
    <2>1. /\ \/ stack' = GoTo(f)
             \/ stack' = Append(GoTo(f), F("callback", "run", Top.env, <<>>))
          /\ Top.op = "begin" /\ Top.batch # <<>>
      BY <1>9 DEF BeginNext, At
    <2>2. b \in Seq(Handles)
      BY <1>3, <2>1, ButLast DEF FrameFits
    <2>3. f \in Frame /\ f.op = "begin" /\ f.env = Top.env /\ f.batch = b
      BY <1>2, <2>1, <2>2, SetFrame
    <2> HIDE DEF f, b
    <2>4. Shaped(GoTo(f)) /\ Shaped(Append(GoTo(f), F("callback", "run", Top.env, <<>>)))
      BY <1>1, <2>1, <2>2, <2>3, CallbackOnTop
    <2> QED
      BY <2>1, <2>4
  <1>10. CASE RetireNext
    <2> DEFINE f == [Top EXCEPT !.at = "check", !.all = {}]
               g(e) == F("finish", "hooks", e, env[e].hooks)
    <2>1. /\ stack' = Pop \/ \E e \in Top.all : stack' = Append(GoTo(f), g(e))
          /\ Top.op = "retire"
      BY <1>10 DEF RetireNext, At
    <2>2. f \in Frame /\ f.op = "retire" /\ f.env = Top.env
      BY <1>2, <2>1 DEF Frame
    <2>3. ASSUME NEW e \in Top.all
          PROVE  g(e) \in Frame /\ g(e).env \in Envs /\ g(e).op = "finish" /\ g(e).batch \in Seq(Hooks)
      <3>1. e \in Envs
        BY <1>2, SetFrame
      <3>2. env[e].hooks \in Seq(Hooks)
        BY <1>5, <3>1
      <3> QED
        BY <3>1, <3>2 DEF F, Frame
    <2> HIDE DEF f, g
    <2>4. \A e \in Top.all : Shaped(Append(GoTo(f), g(e)))
      BY <1>1, <2>1, <2>2, <2>3, OnRetirement
    <2> QED
      BY <1>2, <2>1, <2>4
  <1>11. CASE FinishHook
    <2>1. Top.op = "finish" /\ Top.batch \in Seq(Hooks)
      BY <1>3, <1>11 DEF FrameFits, FinishHook, At
    <2>2. CASE Top.batch = <<>>
      <3> DEFINE f == [Top EXCEPT !.at = "posted"]
      <3>1. stack' = GoTo(f)
        BY <1>11, <2>2 DEF FinishHook
      <3>2. f \in Frame /\ f.op = "finish" /\ f.env = Top.env /\ f.batch = Top.batch
        BY <1>2, <2>1, SetFrame
      <3> HIDE DEF f
      <3> QED
        BY <1>1, <2>1, <3>1, <3>2, GoToShaped
    <2>3. CASE Top.batch # <<>>
      <3> DEFINE b == SubSeq(Top.batch, 1, Len(Top.batch) - 1)
                 f == [Top EXCEPT !.batch = b]
      <3>1. stack' = Append(GoTo(f), F("callback", "run", Top.env, <<>>))
        BY <1>11, <2>3 DEF FinishHook
      <3>2. b \in Seq(Hooks)
        BY <2>1, <2>3, ButLast
      <3>3. b \in Seq(Handles) \cup Seq(Hooks)
        BY <3>2
      <3> HIDE DEF b
      <3>4. f \in Frame /\ f.op = "finish" /\ f.env = Top.env /\ f.batch = b
        BY <1>2, <2>1, <3>3 DEF Frame
      <3> HIDE DEF f
      <3> QED
        BY <1>1, <2>1, <3>1, <3>2, <3>4, CallbackOnTop
    <2> QED
      BY <2>2, <2>3
  <1>12. CASE FinishPosted
    <2>1. /\ \/ stack' = Append(stack, F("callback", "run", Top.env, <<>>))
             \/ stack' = Pop
          /\ Top.op = "finish"
      BY <1>12 DEF FinishPosted, At
    <2>2. Top.env \in Envs
      BY <1>3, <2>1 DEF FrameFits
    <2>3. LiesOn(stack, F("callback", "run", Top.env, <<>>))
      BY <1>1, <2>1, <2>2, CallbackFrame DEF LiesOn, Top
    <2> QED
      BY <1>2, <2>1, <2>3, PushShaped
  <1> QED
    BY <1>6, <1>7, <1>8, <1>9, <1>10, <1>11, <1>12 DEF Retiring

LEMMA ProgramIsShaped ==
    ASSUME Shaped(stack), Program
    PROVE  Shaped(stack')
  <1>1. <<>> \in Seq(Handles) \cup Seq(Hooks)
    OBVIOUS
  <1>2. ASSUME NEW e \in Envs, Load(e)
        PROVE  Shaped(stack')
    <2> DEFINE f == F("init", "run", e, <<>>)
    <2>1. f \in Frame /\ f.op = "init" /\ f.env = e
      BY <1>1 DEF F, Frame
    <2>2. stack' = Append(stack, f)
      BY <1>2 DEF Load
    <2> HIDE DEF f
    <2>3. LiesOn(stack, f)
      BY <1>2, <2>1 DEF Load, LiesOn, Fits, TopLevel, AddonRuns, Top
    <2> QED
      BY <2>2, <2>3, PushShaped
  <1>3. ASSUME NEW e \in Envs, CallExport(e)
        PROVE  Shaped(stack')
    <2>1. stack' = Append(stack, F("callback", "call", e, <<>>)) /\ stack = <<>>
      BY <1>3 DEF CallExport, TopLevel
    <2>2. LiesOn(stack, F("callback", "call", e, <<>>))
      BY <2>1, CallbackFrame DEF LiesOn
    <2> QED
      BY <2>1, <2>2, PushShaped
  <1>4. CASE Poll
    <2> DEFINE f == F("poll", "drain", None, <<>>)
    <2>1. f \in Frame /\ f.op = "poll"
      BY <1>1 DEF F, Frame
    <2>2. stack' = Append(stack, f)
      BY <1>4 DEF Poll
    <2> HIDE DEF f
    <2>3. LiesOn(stack, f)
      BY <1>4, <2>1 DEF Poll, LiesOn, Fits, TopLevel, AddonRuns, Top
    <2> QED
      BY <2>2, <2>3, PushShaped
  <1>5. CASE BeginShutdown
    <2>1. stack = <<>> /\ stack' = Retire(<<>>)
      BY <1>5 DEF BeginShutdown, TopLevel
    <2>2. stack' = <<>> \/ stack' = Append(<<>>, F("retire", "check", None, <<>>))
      BY <2>1 DEF Retire
    <2> QED
      BY <2>1, <2>2, RetirementFrame
  <1>6. CASE ReportErrors \/ FinishShutdown
    BY <1>6 DEF ReportErrors, FinishShutdown
  <1> QED
    BY <1>2, <1>3, <1>4, <1>5, <1>6 DEF Program

\* Neither addon code's calls nor other threads touch the frames.
LEMMA StackStays ==
    ASSUME Addon \/ Pool \/ Foreign \/ UNCHANGED vars
    PROVE  stack' = stack
  <1>1. ASSUME Addon PROVE stack' = stack
    BY <1>1 DEF Addon, CreateWork, QueueWork, CancelWork, DeleteWork, AddHook, RemoveHook, AddHandle,
                PostFinalizer, CreateTsfn
  <1>2. ASSUME Pool \/ Foreign \/ UNCHANGED vars PROVE stack' = stack
    BY <1>2 DEF Pool, WorkerTake, WorkerFinish, WorkerPost, Foreign, RemoveHandle, RetireTsfn, vars
  <1> QED
    BY SMTT(30), <1>1, <1>2

LEMMA StackStep ==
    ASSUME Shaped(stack), EnvTypes, PoolInv, [Next]_vars
    PROVE  Shaped(stack')
  <1>1. CASE Addon \/ Pool \/ Foreign \/ UNCHANGED vars
    BY <1>1, StackStays
  <1> QED
    BY <1>1, CallbacksAreShaped, PollingIsShaped, RetiringIsShaped, ProgramIsShaped DEF Next

\* Only addon code nests, so the depth of what it nests bounds the stack.
LEMMA DepthBound ==
    ASSUME Shaped(stack)
    PROVE  Len(stack) <= MaxDepth + 1
  <1>1. Len(stack) \in Nat /\ MaxDepth \in Nat /\ MaxDepth >= 2
    BY HostAssumption DEF Shaped
  <1>2. CASE Len(stack) < 2
    BY <1>1, <1>2
  <1>3. CASE Len(stack) >= 2
    <2> DEFINE n == Len(stack)
    <2>1. n \in 1..n /\ n - 1 \in 1..n /\ n > 1 /\ n - 1 \in Nat
      BY <1>1, <1>3
    <2>2. FrameFits(stack, n) /\ FrameFits(stack, n - 1)
      BY <2>1 DEF Shaped
    <2>3. stack[n] \in Frame
      BY <2>1, ElementOfSeq DEF Shaped
    <2>4. stack[n].op \in {"poll", "callback", "init", "retire", "begin", "finish"}
      BY <2>3, SetFrame
    <2> HIDE DEF n
    <2>5. stack[n].op \in {"poll", "init"} => n <= MaxDepth
      BY <2>2 DEF FrameFits
    <2>6. stack[n].op = "callback" =>
             \/ n - 1 <= MaxDepth
             \/ n - 1 = 2
      BY <2>1, <2>2 DEF FrameFits
    <2>7. stack[n].op \in {"retire", "begin", "finish"} => n = 1 \/ n = 2
      BY <2>2 DEF FrameFits
    <2> QED
      BY <1>1, <2>1, <2>4, <2>5, <2>6, <2>7 DEF n
  <1> QED
    BY <1>1, <1>2, <1>3

StackInv == Shaped(stack)

LEMMA StackInit == Init => StackInv
  <1>1. Shaped(<<>>)
    BY DEF Shaped
  <1> QED
    BY <1>1 DEF Init, StackInv

\* Every variable keeps its type, and the frames stay below the bound whatever
\* the nesting of polls, module inits and retirements.
THEOREM HostTypes == Spec => []TypeOK
  <1>1. Init => PoolInv /\ EnvTypes /\ StackInv
    BY PoolInit, EnvTypesInit, StackInit
  <1>2. PoolInv /\ EnvTypes /\ StackInv /\ [Next]_vars => PoolInv' /\ EnvTypes' /\ StackInv'
    <2> SUFFICES ASSUME PoolInv, EnvTypes, StackInv, [Next]_vars
                 PROVE  PoolInv' /\ EnvTypes' /\ StackInv'
      OBVIOUS
    <2>1. PoolInv' /\ EnvTypes'
      BY PoolStep, EnvTypesStep
    <2>2. Shaped(stack')
      BY StackStep DEF StackInv
    <2> QED
      BY <2>1, <2>2 DEF StackInv
  <1>3. PoolInv /\ EnvTypes /\ StackInv => TypeOK
    <2> SUFFICES ASSUME PoolInv, EnvTypes, StackInv
                 PROVE  TypeOK
      OBVIOUS
    <2>1. stack \in Seq(Frame) /\ Len(stack) <= MaxDepth + 1
      BY DepthBound DEF StackInv, Shaped
    <2> QED
      BY <2>1 DEF TypeOK, PoolInv, PoolTypes, EnvTypes
  <1> QED
    BY <1>1, <1>2, <1>3, PTL DEF Spec

-----------------------------------------------------------------------------
(* What runs, runs in an open Env.                                         *)

\* What a frame needs of the Envs en and of the handles ha.
Opened(f, en, ha) ==
    /\ f.op = "poll" => \A e \in f.todo : en[e].life \in {"live", "finalizing"}
    /\ f.op = "init" => en[f.env].life = "init"
    /\ f.op = "callback" => en[f.env].life \in {"init", "live", "finalizing"}
    /\ f.op = "retire" => \A e \in f.todo : en[e].life \notin {"none", "init"}
    /\ f.op = "begin" =>
          /\ en[f.env].life = "live" /\ en[f.env].dispatching
          /\ \A j \in 1..Len(f.batch) :
                ha[f.batch[j]] # NoHandle /\ ha[f.batch[j]].env = f.env
    /\ f.op = "finish" => en[f.env].life = "finalizing"

FramesInv == \A i \in 1..Len(stack) : Opened(stack[i], env, handle)

\* An Env is initialized once.
InitsInv ==
    \A i, j \in 1..Len(stack) :
        stack[i].op = "init" /\ stack[j].op = "init" /\ stack[i].env = stack[j].env => i = j

\* What an Env's state says of the second frame.
PlaceInv ==
    \A e \in Envs :
        /\ env[e].dispatching =>
              Len(stack) > 1 /\ stack[2].op = "begin" /\ stack[2].env = e
        /\ env[e].life = "finalizing" =>
              /\ Len(stack) > 1 /\ stack[2].op = "finish" /\ stack[2].env = e
              /\ env[e].hooks = <<>>

\* An Env lists handles of its own.
ListInv ==
    \A e \in Envs : \A j \in 1..Len(env[e].handles) :
        handle[env[e].handles[j]] # NoHandle /\ handle[env[e].handles[j]].env = e

OpenInv == FramesInv /\ InitsInv /\ PlaceInv /\ ListInv /\ ClosedIsQuiet

HostInv == PoolInv /\ EnvTypes /\ StackInv /\ OpenInv

\* What most steps do to the Envs, the handles and the works.
EnvCalm ==
    \A e \in Envs :
        /\ env'[e].life = env[e].life
        /\ env'[e].dispatching <=> env[e].dispatching
        /\ ~CanOpen(e) =>
              /\ env'[e].tsfn => env[e].tsfn
              /\ env'[e].handles = env[e].handles /\ env'[e].hooks = env[e].hooks
              /\ env[e].life # "finalizing" => (env'[e].posted => env[e].posted)

ListCalm == \A e \in Envs : env'[e].handles = env[e].handles \/ env'[e].handles = <<>>

HandleCalm ==
    \A h \in Handles :
        /\ handle[h] # NoHandle => handle'[h] # NoHandle /\ handle'[h].env = handle[h].env
        /\ handle'[h].state = 1 =>
              \/ handle[h].state = 1 /\ handle'[h].env = handle[h].env
              \/ CanOpen(handle'[h].env)

WorkCalm ==
    \A w \in Works : w \in Active' =>
        \/ w \in Active /\ work'[w].env = work[w].env
        \/ CanOpen(work'[w].env)

LEMMA NothingMoves ==
    /\ UNCHANGED env => EnvCalm /\ ListCalm
    /\ UNCHANGED handle => HandleCalm
    /\ UNCHANGED pool => WorkCalm
  BY DEF EnvCalm, ListCalm, HandleCalm, WorkCalm, Active, pool

LEMMA CalmIsQuiet ==
    ASSUME ClosedIsQuiet, EnvTypes, EnvTypes', EnvCalm, HandleCalm, WorkCalm
    PROVE  ClosedIsQuiet'
  <1> SUFFICES ASSUME NEW e \in Envs, env'[e].life \notin {"init", "live"}
               PROVE  /\ ~env'[e].tsfn /\ ~HandlesPending(e)' /\ env'[e].handles = <<>>
                      /\ ~env'[e].dispatching
                      /\ \A w \in Active' : work'[w].env # e
                      /\ env'[e].life # "finalizing" => ~env'[e].posted /\ env'[e].hooks = <<>>
    BY DEF ClosedIsQuiet
  <1>1. ~CanOpen(e) /\ env[e].life \notin {"init", "live"} /\ env'[e].life = env[e].life
    BY DEF EnvCalm, CanOpen
  <1>2. /\ ~env[e].tsfn /\ ~HandlesPending(e) /\ env[e].handles = <<>> /\ ~env[e].dispatching
        /\ \A w \in Active : work[w].env # e
        /\ env[e].life # "finalizing" => ~env[e].posted /\ env[e].hooks = <<>>
    BY <1>1 DEF ClosedIsQuiet
  <1>3. /\ ~env'[e].tsfn /\ env'[e].handles = <<>> /\ ~env'[e].dispatching
        /\ env'[e].life # "finalizing" => ~env'[e].posted /\ env'[e].hooks = <<>>
    BY <1>1, <1>2 DEF EnvCalm
  <1>4. ~HandlesPending(e)'
    BY <1>1, <1>2 DEF HandlesPending, HandleCalm
  <1>5. \A w \in Active' : work'[w].env # e
    BY <1>1, <1>2 DEF WorkCalm, Active
  <1> QED
    BY <1>3, <1>4, <1>5

LEMMA CalmLists ==
    ASSUME ListInv, EnvTypes, ListCalm, HandleCalm
    PROVE  ListInv'
  <1> SUFFICES ASSUME NEW e \in Envs, NEW j \in 1..Len(env'[e].handles)
               PROVE  /\ handle'[env'[e].handles[j]] # NoHandle
                      /\ handle'[env'[e].handles[j]].env = e
    BY DEF ListInv
  <1>1. env'[e].handles = env[e].handles
    BY DEF ListCalm
  <1>2. env[e].handles \in Seq(Handles)
    BY DEF EnvTypes, EnvBox
  <1>3. env[e].handles[j] \in Handles
    BY <1>1, <1>2, ElementOfSeq
  <1>4. handle[env[e].handles[j]] # NoHandle /\ handle[env[e].handles[j]].env = e
    BY <1>1 DEF ListInv
  <1> QED
    BY <1>1, <1>3, <1>4 DEF HandleCalm

\* A frame that stays is open still.
LEMMA CalmOpens ==
    ASSUME EnvCalm, HandleCalm, NEW i \in 1..Len(stack), Shaped(stack),
           Opened(stack[i], env, handle)
    PROVE  Opened(stack[i], env', handle')
  <1> DEFINE f == stack[i]
  <1>1. f \in Frame /\ FrameFits(stack, i)
    BY ElementOfSeq DEF Shaped
  <1>2. f.todo \subseteq Envs
    BY <1>1, SetFrame
  <1>3. /\ f.op \in {"callback", "init", "begin", "finish"} => f.env \in Envs
        /\ f.op = "begin" => f.batch \in Seq(Handles)
    BY <1>1 DEF FrameFits
  <1>4. f.op = "begin" => \A j \in 1..Len(f.batch) : f.batch[j] \in Handles
    BY <1>3, ElementOfSeq
  <1> HIDE DEF f
  <1>5. Opened(f, env, handle)
    BY DEF f
  <1>6. f.op = "begin" =>
           /\ env'[f.env].life = "live" /\ env'[f.env].dispatching
           /\ \A j \in 1..Len(f.batch) :
                 handle'[f.batch[j]] # NoHandle /\ handle'[f.batch[j]].env = f.env
    BY <1>3, <1>4, <1>5 DEF Opened, EnvCalm, HandleCalm
  <1>7. Opened(f, env', handle')
    BY <1>2, <1>3, <1>5, <1>6 DEF Opened, EnvCalm
  <1> QED
    BY <1>7 DEF f

\* A calm step that replaces the frames beyond the first n, the last of them or
\* none, by open ones.
LEMMA CalmStep ==
    ASSUME HostInv, EnvTypes', EnvCalm, HandleCalm, WorkCalm, ListInv', Shaped(stack'),
           NEW n \in Nat, n = Len(stack) \/ n + 1 = Len(stack), n <= Len(stack'),
           \A i \in 1..n : stack'[i] = stack[i],
           \A i \in 1..Len(stack') : i > n =>
              Opened(stack'[i], env', handle') /\ stack'[i].op # "init",
           n + 1 = Len(stack) =>
              \/ Top.op \notin {"begin", "finish"}
              \/ Len(stack') > n /\ stack'[n + 1].op = Top.op /\ stack'[n + 1].env = Top.env
    PROVE  OpenInv'
  <1> USE DEF HostInv, OpenInv, StackInv
  <1>1. Len(stack) \in Nat /\ Len(stack') \in Nat
    BY DEF Shaped
  <1>2. FramesInv'
    <2> SUFFICES ASSUME NEW i \in 1..Len(stack')
                 PROVE  Opened(stack'[i], env', handle')
      BY DEF FramesInv
    <2>1. CASE i <= n
      <3>1. i \in 1..n /\ i \in 1..Len(stack)
        BY <1>1, <2>1
      <3> QED
        BY <3>1, CalmOpens DEF FramesInv
    <2>2. CASE i > n
      BY <2>2
    <2> QED
      BY <1>1, <2>1, <2>2
  <1>3. InitsInv'
    <2>1. \A i \in 1..Len(stack') : stack'[i].op = "init" =>
             i \in 1..Len(stack) /\ stack'[i] = stack[i]
      BY <1>1
    <2> QED
      BY <2>1 DEF InitsInv
  <1>4. ASSUME Len(stack) > 1, stack[2].op \in {"begin", "finish"}
        PROVE  Len(stack') > 1 /\ stack'[2].op = stack[2].op /\ stack'[2].env = stack[2].env
    <2>1. CASE n >= 2
      BY <1>1, <2>1
    <2>2. CASE n = 1
      BY <1>1, <1>4, <2>2 DEF Top
    <2> QED
      BY <1>1, <1>4, <2>1, <2>2
  <1>5. PlaceInv'
    BY <1>4 DEF PlaceInv, EnvCalm, CanOpen
  <1>6. ClosedIsQuiet'
    BY CalmIsQuiet
  <1> QED
    BY <1>2, <1>3, <1>5, <1>6

Calm == EnvCalm /\ HandleCalm /\ WorkCalm /\ ListInv'

LEMMA CalmStill ==
    ASSUME HostInv, EnvTypes', Shaped(stack'), Calm, stack' = stack
    PROVE  OpenInv'
  <1>1. Len(stack) \in Nat /\ Len(stack) + 1 # Len(stack)
    BY DEF HostInv, StackInv, Shaped
  <1>2. /\ \A i \in 1..Len(stack) : stack'[i] = stack[i]
        /\ \A i \in 1..Len(stack') : ~(i > Len(stack))
    BY <1>1
  <1> QED
    BY <1>1, <1>2, CalmStep DEF Calm

LEMMA CalmPush ==
    ASSUME HostInv, EnvTypes', Shaped(stack'), Calm,
           NEW f \in Frame, stack' = Append(stack, f), f.op # "init", Opened(f, env', handle')
    PROVE  OpenInv'
  <1> DEFINE n == Len(stack)
  <1>1. /\ n \in Nat /\ Len(stack') = n + 1
        /\ \A i \in 1..n : stack'[i] = stack[i]
        /\ stack'[n + 1] = f
    BY PushFacts DEF HostInv, StackInv, Shaped
  <1>2. n + 1 # n /\ n <= Len(stack')
    BY <1>1
  <1>3. ASSUME NEW i \in 1..Len(stack'), i > n
        PROVE  Opened(stack'[i], env', handle') /\ stack'[i].op # "init"
    <2>1. i = n + 1
      BY <1>1, <1>3
    <2> QED
      BY <1>1, <2>1
  <1> QED
    BY <1>1, <1>2, <1>3, CalmStep DEF Calm

LEMMA CalmPop ==
    ASSUME HostInv, EnvTypes', Shaped(stack'), Calm,
           stack # <<>>, stack' = Pop, Top.op \notin {"begin", "finish"}
    PROVE  OpenInv'
  <1> DEFINE n == Len(stack) - 1
  <1>1. /\ n \in Nat /\ n + 1 = Len(stack) /\ Len(stack') = n
        /\ \A i \in 1..n : stack'[i] = stack[i]
    BY PopFacts DEF HostInv, StackInv, Shaped
  <1> HIDE DEF n
  <1>2. /\ n <= Len(stack')
        /\ \A i \in 1..Len(stack') : ~(i > n)
    BY <1>1
  <1> QED
    BY <1>1, <1>2, CalmStep DEF Calm

LEMMA CalmGoTo ==
    ASSUME HostInv, EnvTypes', Shaped(stack'), Calm, stack # <<>>,
           NEW f \in Frame, stack' = GoTo(f), f.op = Top.op, f.env = Top.env, f.op # "init",
           Opened(f, env', handle')
    PROVE  OpenInv'
  <1> DEFINE n == Len(stack) - 1
  <1>0. n \in Nat /\ n + 1 = Len(stack)
    BY PopFacts DEF HostInv, StackInv, Shaped
  <1>1. /\ n \in Nat /\ n + 1 = Len(stack) /\ Len(stack') = n + 1
        /\ \A i \in 1..n : stack'[i] = stack[i]
        /\ stack'[n + 1] = f
    <2>1. /\ Len(stack') = Len(stack)
          /\ \A i \in 1..(Len(stack) - 1) : stack'[i] = stack[i]
          /\ stack'[Len(stack)] = f
      BY GoToFacts DEF HostInv, StackInv, Shaped
    <2> QED
      BY <1>0, <2>1
  <1> HIDE DEF n
  <1>2. n <= Len(stack') /\ Len(stack') > n
    BY <1>1
  <1>3. ASSUME NEW i \in 1..Len(stack'), i > n
        PROVE  Opened(stack'[i], env', handle') /\ stack'[i].op # "init"
    <2>1. i = n + 1
      BY <1>1, <1>3
    <2> QED
      BY <1>1, <2>1
  <1> QED
    BY <1>1, <1>2, <1>3, CalmStep DEF Calm

LEMMA CalmCall ==
    ASSUME HostInv, EnvTypes', Shaped(stack'), Calm, stack # <<>>,
           NEW f \in Frame, NEW g \in Frame, stack' = Append(GoTo(f), g),
           f.op = Top.op, f.env = Top.env, f.op # "init", g.op # "init",
           Opened(f, env', handle'), Opened(g, env', handle')
    PROVE  OpenInv'
  <1> DEFINE n == Len(stack) - 1
  <1>0. n \in Nat /\ n + 1 = Len(stack)
    BY PopFacts DEF HostInv, StackInv, Shaped
  <1>1. /\ n \in Nat /\ n + 1 = Len(stack)
        /\ GoTo(f) \in Seq(Frame) /\ Len(GoTo(f)) = n + 1
        /\ \A i \in 1..n : GoTo(f)[i] = stack[i]
        /\ GoTo(f)[n + 1] = f
    <2>1. /\ GoTo(f) \in Seq(Frame) /\ Len(GoTo(f)) = Len(stack)
          /\ \A i \in 1..(Len(stack) - 1) : GoTo(f)[i] = stack[i]
          /\ GoTo(f)[Len(stack)] = f
      BY GoToFacts DEF HostInv, StackInv, Shaped
    <2> QED
      BY <1>0, <2>1
  <1>2. /\ Len(stack') = (n + 1) + 1
        /\ \A i \in 1..(n + 1) : stack'[i] = GoTo(f)[i]
        /\ stack'[(n + 1) + 1] = g
    BY <1>1, PushFacts
  <1> HIDE DEF n
  <1>3. /\ n <= Len(stack') /\ Len(stack') > n
        /\ \A i \in 1..n : stack'[i] = stack[i]
        /\ stack'[n + 1] = f
    BY <1>1, <1>2
  <1>4. ASSUME NEW i \in 1..Len(stack'), i > n
        PROVE  Opened(stack'[i], env', handle') /\ stack'[i].op # "init"
    <2>1. i = n + 1 \/ i = (n + 1) + 1
      BY <1>1, <1>2, <1>4
    <2> QED
      BY <1>2, <1>3, <2>1
  <1> QED
    BY <1>1, <1>3, <1>4, CalmStep DEF Calm

-----------------------------------------------------------------------------
(* Addon code, the pool and other threads.                                 *)

LEMMA AddonIsCalm ==
    ASSUME HostInv, Addon
    PROVE  Calm
  <1> USE DEF HostInv, OpenInv
  <1>1. env \in [Envs -> EnvBox]
    BY DEF EnvTypes
  <1>2. ASSUME NEW e \in Envs, NEW w \in Works, CreateWork(e, w)
        PROVE  Calm
    <2>1. UNCHANGED <<env, handle>>
      BY <1>2 DEF CreateWork, host
    <2>2. \A x \in Works : work'[x] = work[x] \/ work'[x].state \in {"created", "none"}
      BY <1>2 DEF CreateWork, NoWork
    <2>3. WorkCalm
      BY <2>2 DEF WorkCalm, Active
    <2> QED
      BY <2>1, <2>3, NothingMoves, CalmLists DEF Calm
  <1>3. ASSUME NEW w \in Works, QueueWork(w) \/ CancelWork(w) \/ DeleteWork(w)
        PROVE  Calm
    <2>1. UNCHANGED <<env, handle>>
      BY <1>3 DEF QueueWork, CancelWork, DeleteWork, host
    <2>2. work[w] # NoWork
      BY <1>3, WorkStates DEF QueueWork, CancelWork, DeleteWork, PoolInv
    <2>3. /\ work'[w].env = work[w].env
          /\ \A x \in Works : x # w => work'[x] = work[x]
          /\ w \in Active' => w \in Active \/ CanOpen(work[w].env)
      <3>1. CASE QueueWork(w)
        BY SMTT(30), <2>2, <3>1, SetWork, WorkStates DEF QueueWork, PoolInv
      <3>2. CASE CancelWork(w)
        BY <2>2, <3>2, SetWork DEF CancelWork, PoolInv, Active
      <3>3. CASE DeleteWork(w)
        <4>1. work'[w].state = "deleted" /\ work'[w].env = work[w].env
              /\ \A x \in Works : x # w => work'[x] = work[x]
          BY <2>2, <3>3, SetWork, WorkStates DEF DeleteWork, PoolInv
        <4> QED
          BY SMTT(30), <4>1 DEF Active
      <3> QED
        BY SMTT(30), <1>3, <3>1, <3>2, <3>3
    <2>4. WorkCalm
      BY <2>3 DEF WorkCalm, Active
    <2> QED
      BY <2>1, <2>4, NothingMoves, CalmLists DEF Calm
  <1>4. ASSUME NEW e \in Envs, NEW k \in Hooks, AddHook(e, k)
        PROVE  Calm
    <2>1. /\ env' = [env EXCEPT ![e].hooks = Append(@, k)] /\ CanOpen(e)
          /\ UNCHANGED handle /\ UNCHANGED pool
      BY <1>4 DEF AddHook
    <2>2. \A x \in Envs : /\ env'[x].life = env[x].life
                          /\ env'[x].dispatching = env[x].dispatching
                          /\ env'[x].handles = env[x].handles
                          /\ x # e => env'[x] = env[x]
      BY <1>1, <2>1 DEF EnvBox
    <2>3. EnvCalm /\ ListCalm
      BY <2>1, <2>2 DEF EnvCalm, ListCalm
    <2> QED
      BY <2>1, <2>3, NothingMoves, CalmLists DEF Calm
  <1>5. ASSUME NEW e \in Envs, NEW k \in Hooks, RemoveHook(e, k)
        PROVE  Calm
    <2>1. PICK i \in 1..Len(env[e].hooks) :
             env' = [env EXCEPT ![e].hooks = RemoveAt(env[e].hooks, i)]
      BY <1>5 DEF RemoveHook
    <2>2. UNCHANGED handle /\ UNCHANGED pool
      BY <1>5 DEF RemoveHook
    <2>3. \A x \in Envs : /\ env'[x].life = env[x].life
                          /\ env'[x].dispatching = env[x].dispatching
                          /\ env'[x].handles = env[x].handles
                          /\ x # e => env'[x] = env[x]
      BY <1>1, <2>1 DEF EnvBox
    <2>4. CanOpen(e)
      <3>1. env[e].hooks # <<>>
        BY <2>1
      <3> QED
        BY <3>1 DEF CanOpen, ClosedIsQuiet, PlaceInv
    <2>5. EnvCalm /\ ListCalm
      BY <2>3, <2>4 DEF EnvCalm, ListCalm
    <2> QED
      BY <2>2, <2>5, NothingMoves, CalmLists DEF Calm
  <1>6. ASSUME NEW e \in Envs, NEW h \in Handles, AddHandle(e, h)
        PROVE  Calm
    <2>1. /\ env' = [env EXCEPT ![e].handles = Append(env[e].handles, h)] /\ CanOpen(e)
          /\ handle[h] = NoHandle /\ handle' = [handle EXCEPT ![h] = [env |-> e, state |-> 0]]
          /\ UNCHANGED pool
      BY <1>6 DEF AddHandle
    <2>2. \A x \in Envs : /\ env'[x].life = env[x].life
                          /\ env'[x].dispatching = env[x].dispatching
                          /\ x # e => env'[x] = env[x]
      BY <1>1, <2>1 DEF EnvBox
    <2>3. EnvCalm
      BY <2>1, <2>2 DEF EnvCalm
    <2>4. /\ handle'[h].state = 0 /\ handle'[h].env = e /\ handle'[h] # NoHandle
          /\ \A g \in Handles : g # h => handle'[g] = handle[g]
      BY <2>1 DEF EnvTypes, NoHandle
    <2>5. HandleCalm
      BY <2>1, <2>4 DEF HandleCalm
    <2>6. ListInv'
      <3> SUFFICES ASSUME NEW x \in Envs, NEW j \in 1..Len(env'[x].handles)
                   PROVE  /\ handle'[env'[x].handles[j]] # NoHandle
                          /\ handle'[env'[x].handles[j]].env = x
        BY DEF ListInv
      <3>1. env[x].handles \in Seq(Handles) /\ env[e].handles \in Seq(Handles)
        BY <1>1 DEF EnvBox
      <3>2. CASE x # e \/ j <= Len(env[x].handles)
        <4>1. j \in 1..Len(env[x].handles) /\ env'[x].handles[j] = env[x].handles[j]
          BY <1>1, <2>1, <2>2, <3>1, <3>2 DEF EnvBox
        <4>2. env[x].handles[j] \in Handles
          BY <3>1, <4>1, ElementOfSeq
        <4> QED
          BY <2>1, <2>4, <4>1, <4>2 DEF ListInv
      <3>3. CASE x = e /\ j > Len(env[x].handles)
        <4>1. env'[x].handles[j] = h
          BY <1>1, <2>1, <3>1, <3>3 DEF EnvBox
        <4> QED
          BY <2>4, <3>3, <4>1
      <3> QED
        BY <3>1, <3>2, <3>3
    <2> QED
      BY <2>1, <2>3, <2>5, <2>6, NothingMoves DEF Calm
  <1>7. ASSUME NEW e \in Envs, PostFinalizer(e) \/ CreateTsfn(e)
        PROVE  Calm
    <2>1. /\ \/ env' = [env EXCEPT ![e].posted = TRUE]
                /\ env[e].life \in {"init", "live", "finalizing"}
             \/ env' = [env EXCEPT ![e].tsfn = TRUE] /\ CanOpen(e)
          /\ UNCHANGED handle /\ UNCHANGED pool
      BY <1>7 DEF PostFinalizer, CreateTsfn
    <2>2. \A x \in Envs : /\ env'[x].life = env[x].life
                          /\ env'[x].dispatching = env[x].dispatching
                          /\ env'[x].handles = env[x].handles /\ env'[x].hooks = env[x].hooks
                          /\ x # e => env'[x] = env[x]
      BY <1>1, <2>1 DEF EnvBox
    <2>3. env' = [env EXCEPT ![e].posted = TRUE] => env'[e].tsfn = env[e].tsfn
      BY <1>1 DEF EnvBox
    <2>4. CanOpen(e) \/ (env[e].life = "finalizing" /\ env'[e].tsfn = env[e].tsfn)
      BY <2>1, <2>3 DEF CanOpen
    <2>5. EnvCalm /\ ListCalm
      BY <2>2, <2>4 DEF EnvCalm, ListCalm
    <2> QED
      BY <2>1, <2>5, NothingMoves, CalmLists DEF Calm
  <1> QED
    BY <1>2, <1>3, <1>4, <1>5, <1>6, <1>7 DEF Addon

LEMMA PoolIsCalm ==
    ASSUME HostInv, Pool
    PROVE  Calm
  <1> USE DEF HostInv, OpenInv
  <1>1. UNCHANGED <<env, handle>>
    BY DEF Pool, WorkerTake, WorkerFinish, WorkerPost, host
  <1>2. ASSUME NEW k \in Workers, WorkerTake(k)
        PROVE  WorkCalm
    <2> DEFINE w == Head(queue)
    <2>1. queue # <<>> /\ work' = [work EXCEPT ![w].state = "executing"]
      BY <1>2 DEF WorkerTake
    <2>2. w \in Works /\ work[w].state = "queued"
      BY <2>1, TailLists DEF PoolInv, PoolTypes, QueueInv
    <2> HIDE DEF w
    <2>3. work[w] # NoWork
      BY SMTT(30), <2>2, WorkStates DEF PoolInv
    <2>4. work'[w].env = work[w].env /\ \A x \in Works : x # w => work'[x] = work[x]
      BY <2>1, <2>2, <2>3, SetWork, WorkStates DEF PoolInv
    <2> QED
      BY <2>2, <2>4 DEF WorkCalm, Active
  <1>3. ASSUME NEW k \in Workers, WorkerFinish(k)
        PROVE  WorkCalm
    <2> DEFINE w == worker[k].w
    <2>1. /\ w # None /\ worker[k].at = "executing"
          /\ work' = [work EXCEPT ![w].status = "ok", ![w].state = "pending"]
      BY <1>3 DEF WorkerFinish
    <2>2. w \in Works /\ work[w].state = "executing"
      BY <2>1 DEF PoolInv, PoolTypes, WorkerInv
    <2> HIDE DEF w
    <2>3. work[w] # NoWork
      BY SMTT(30), <2>2, WorkStates DEF PoolInv
    <2>4. work'[w].env = work[w].env /\ \A x \in Works : x # w => work'[x] = work[x]
      BY <2>1, <2>2, <2>3, SetWork DEF PoolInv
    <2> QED
      BY <2>2, <2>4 DEF WorkCalm, Active
  <1>4. ASSUME NEW k \in Workers, WorkerPost(k)
        PROVE  WorkCalm
    BY <1>4 DEF WorkerPost, WorkCalm, Active
  <1> QED
    BY <1>1, <1>2, <1>3, <1>4, NothingMoves, CalmLists DEF Calm, Pool

LEMMA ForeignIsCalm ==
    ASSUME HostInv, Foreign
    PROVE  Calm
  <1> USE DEF HostInv, OpenInv
  <1>1. ASSUME NEW h \in Handles, RemoveHandle(h)
        PROVE  Calm
    <2>1. /\ handle[h].state \in {0, 1} /\ handle' = [handle EXCEPT ![h].state = 2]
          /\ UNCHANGED env /\ UNCHANGED pool
      BY <1>1 DEF RemoveHandle
    <2>2. handle[h] \in [env : Envs, state : 0..2]
      BY <2>1 DEF EnvTypes, NoHandle
    <2>3. /\ handle'[h].state = 2 /\ handle'[h].env = handle[h].env
          /\ \A g \in Handles : g # h => handle'[g] = handle[g]
      BY <2>1, <2>2 DEF EnvTypes
    <2>4. handle'[h] # NoHandle
      BY <2>3 DEF NoHandle
    <2>5. HandleCalm
      BY <2>3, <2>4 DEF HandleCalm
    <2> QED
      BY <2>1, <2>5, NothingMoves, CalmLists DEF Calm
  <1>2. ASSUME NEW e \in Envs, RetireTsfn(e)
        PROVE  Calm
    <2>1. /\ env' = [env EXCEPT ![e].tsfn = FALSE]
          /\ UNCHANGED handle /\ UNCHANGED pool
      BY <1>2 DEF RetireTsfn
    <2>2. \A x \in Envs : /\ env'[x].life = env[x].life
                          /\ env'[x].dispatching = env[x].dispatching
                          /\ env'[x].handles = env[x].handles /\ env'[x].hooks = env[x].hooks
                          /\ env'[x].posted = env[x].posted
                          /\ x # e => env'[x] = env[x]
                          /\ env'[e].tsfn = FALSE
      BY <2>1 DEF EnvTypes, EnvBox
    <2>3. EnvCalm /\ ListCalm
      BY <2>2 DEF EnvCalm, ListCalm
    <2> QED
      BY <2>1, <2>3, NothingMoves, CalmLists DEF Calm
  <1> QED
    BY <1>1, <1>2 DEF Foreign

-----------------------------------------------------------------------------
(* Callbacks and polls.                                                    *)

LEMMA AllSame ==
    ASSUME HostInv, UNCHANGED <<env, handle, pool>>
    PROVE  Calm
  BY NothingMoves, CalmLists DEF Calm, HostInv, OpenInv

LEMMA TopFrame ==
    ASSUME HostInv, stack # <<>>
    PROVE  /\ Len(stack) \in Nat \ {0} /\ Top = stack[Len(stack)] /\ Top \in Frame
           /\ FrameFits(stack, Len(stack)) /\ Opened(Top, env, handle)
           /\ Top.op \in {"callback", "init", "begin", "finish"} => Top.env \in Envs
  <1>1. Len(stack) \in Nat \ {0} /\ Top \in Frame /\ Top = stack[Len(stack)]
    BY PopFacts DEF HostInv, StackInv, Shaped, Top
  <1>2. FrameFits(stack, Len(stack)) /\ Opened(Top, env, handle)
    BY <1>1 DEF HostInv, StackInv, Shaped, OpenInv, FramesInv
  <1> QED
    BY <1>1, <1>2 DEF FrameFits

LEMMA ReturnKeepsOpen ==
    ASSUME HostInv, EnvTypes', Shaped(stack'), NEW threw \in BOOLEAN, Return(threw)
    PROVE  OpenInv'
  <1>1. stack # <<>> /\ stack' = Pop /\ Top.op = "callback"
    BY DEF Return
  <1>2. Calm
    BY AllSame DEF Return
  <1> QED
    BY <1>1, <1>2, CalmPop

\* The Env of an init that returns goes live; the other frames are not its inits.
LEMMA InitReturnsKeepsOpen ==
    ASSUME HostInv, EnvTypes', Shaped(stack'), NEW failed \in BOOLEAN, InitReturns(failed)
    PROVE  OpenInv'
  <1> USE DEF HostInv, OpenInv
  <1> DEFINE e == Top.env
             n == Len(stack) - 1
  <1>1. /\ stack # <<>> /\ Top.op = "init"
        /\ env' = [env EXCEPT ![e].life = "live", ![e].shutdown = failed]
        /\ stack' = Pop \/ stack' = Retire(Pop)
        /\ UNCHANGED handle /\ UNCHANGED pool
    BY DEF InitReturns, At
  <1>2. /\ Len(stack) \in Nat \ {0} /\ Top = stack[Len(stack)]
        /\ e \in Envs /\ env[e].life = "init"
    BY <1>1, TopFrame DEF Opened
  <1>3. n \in Nat /\ n + 1 = Len(stack) /\ \A i \in 1..n : i \in 1..Len(stack) /\ i # Len(stack)
    BY <1>2
  <1>4. /\ Pop \in Seq(Frame) /\ Len(Pop) = n
        /\ \A i \in 1..n : Pop[i] = stack[i]
    BY <1>1, PopFacts DEF StackInv, Shaped
  <1> HIDE DEF e, n
  <1>5. /\ env'[e].life = "live"
        /\ \A x \in Envs : /\ env'[x].dispatching = env[x].dispatching
                           /\ env'[x].handles = env[x].handles /\ env'[x].hooks = env[x].hooks
                           /\ env'[x].tsfn = env[x].tsfn /\ env'[x].posted = env[x].posted
                           /\ x # e => env'[x] = env[x]
    BY <1>1, <1>2 DEF EnvTypes, EnvBox
  <1>6. ASSUME NEW i \in 1..n
        PROVE  Opened(stack[i], env', handle')
    <2> DEFINE f == stack[i]
    <2>1. i \in 1..Len(stack) /\ i # Len(stack)
      BY <1>3
    <2>2. Opened(f, env, handle) /\ FrameFits(stack, i) /\ f \in Frame
      BY <2>1, ElementOfSeq DEF FramesInv, StackInv, Shaped
    <2>3. f.op = "init" => f.env # e
      BY <1>1, <1>2, <2>1 DEF InitsInv, e
    <2>4. /\ f.op \in {"callback", "init", "begin", "finish"} => f.env \in Envs
          /\ f.todo \subseteq Envs
      BY <2>2, SetFrame DEF FrameFits
    <2> HIDE DEF f
    <2>5. Opened(f, env', handle')
      BY <1>1, <1>2, <1>5, <2>2, <2>3, <2>4 DEF Opened
    <2> QED
      BY <2>5 DEF f
  <1>7. ListInv'
    BY <1>1, <1>5, CalmLists, NothingMoves DEF ListCalm
  <1>8. ClosedIsQuiet'
    <2>1. \A x \in Envs : env'[x].life \notin {"init", "live"} => x # e /\ env'[x] = env[x]
      BY <1>5
    <2> QED
      BY <1>1, <2>1 DEF ClosedIsQuiet, HandlesPending, Active, pool
  <1>9. \A x \in Envs : /\ env'[x].dispatching <=> env[x].dispatching
                        /\ env'[x].life = "finalizing" => env[x].life = "finalizing"
                        /\ env'[x].hooks = env[x].hooks
    BY <1>5
  <1>10. CASE stack' = Pop
    <2>1. FramesInv'
      BY <1>4, <1>6, <1>10 DEF FramesInv
    <2>2. InitsInv'
      BY <1>3, <1>4, <1>10 DEF InitsInv
    <2>3. ASSUME Len(stack) > 1, stack[2].op \in {"begin", "finish"}
          PROVE  Len(stack') > 1 /\ stack'[2] = stack[2]
      <3>1. Len(stack) # 2
        BY <1>1, <1>2, <2>3
      <3>2. n > 1 /\ 2 \in 1..n
        BY <1>2, <1>3, <2>3, <3>1
      <3> QED
        BY <1>4, <1>10, <3>2
    <2>4. PlaceInv'
      BY <1>9, <2>3 DEF PlaceInv
    <2> QED
      BY <1>7, <1>8, <2>1, <2>2, <2>4
  <1>11. CASE stack' # Pop
    <2> DEFINE f == F("retire", "check", None, <<>>)
    <2>1. Pop = <<>> /\ stack' = <<f>> /\ f.op = "retire" /\ f.todo = {}
      BY <1>1, <1>11, RetirePop, RetirementFrame DEF StackInv
    <2> HIDE DEF f
    <2>2. FramesInv' /\ InitsInv'
      BY <2>1 DEF FramesInv, InitsInv, Opened
    <2>3. Len(stack) = 1
      BY <1>3, <1>4, <2>1
    <2>4. PlaceInv'
      BY <1>9, <2>3 DEF PlaceInv
    <2> QED
      BY <1>7, <1>8, <2>2, <2>4
  <1> QED
    BY <1>10, <1>11

LEMMA PollingKeepsOpen ==
    ASSUME HostInv, EnvTypes', Shaped(stack'), Polling
    PROVE  OpenInv'
  <1> USE DEF HostInv, OpenInv
  <1>1. stack # <<>> /\ Top.op = "poll"
    BY DEF Polling, PollTake, PollRun, PollDrained, PollEvent, PollEnd, At
  <1>2. /\ Top \in Frame /\ Opened(Top, env, handle)
        /\ \A e \in Top.todo : e \in Envs /\ env[e].life \in {"live", "finalizing"}
    BY <1>1, TopFrame, SetFrame DEF Opened
  <1>3. CASE PollTake
    <2> DEFINE f == [Top EXCEPT !.todo = Posted]
    <2>1. /\ env' = [e \in Envs |-> [env[e] EXCEPT !.posted = @ /\ e \notin Posted]]
          /\ stack' = GoTo(f) /\ UNCHANGED handle /\ UNCHANGED pool
      BY <1>3 DEF PollTake
    <2>2. Posted \in SUBSET Envs
      BY DEF Posted, Published
    <2>3. f \in Frame /\ f.op = "poll" /\ f.env = Top.env /\ f.todo = Posted
      BY <1>1, <1>2, <2>2, SetFrame
    <2> HIDE DEF f
    <2>4. \A x \in Envs : /\ env'[x].life = env[x].life
                          /\ env'[x].dispatching = env[x].dispatching
                          /\ env'[x].handles = env[x].handles /\ env'[x].hooks = env[x].hooks
                          /\ env'[x].tsfn = env[x].tsfn
                          /\ env'[x].posted => env[x].posted
      BY <2>1 DEF EnvTypes, EnvBox
    <2>5. Calm
      BY <2>1, <2>4, NothingMoves, CalmLists DEF Calm, EnvCalm, ListCalm
    <2>6. \A e \in Posted : env[e].life \in {"live", "finalizing"}
      <3>1. \A e \in Envs : env[e].life \in {"none", "init", "live", "finalizing", "finalized"}
        BY DEF EnvTypes, EnvBox
      <3> QED
        BY <3>1 DEF Posted, Published, ClosedIsQuiet
    <2>7. Opened(f, env', handle')
      BY <2>2, <2>3, <2>4, <2>6 DEF Opened
    <2> QED
      BY <1>1, <2>1, <2>3, <2>5, <2>7, CalmGoTo
  <1>4. ASSUME NEW e \in Envs, PollRun(e)
        PROVE  OpenInv'
    <2> DEFINE f == [Top EXCEPT !.todo = Top.todo \ {e}]
               g == F("callback", "run", e, <<>>)
    <2>1. /\ stack' = Append(GoTo(f), g) /\ e \in Top.todo
          /\ UNCHANGED env /\ UNCHANGED handle /\ UNCHANGED pool
      BY <1>4 DEF PollRun, host
    <2>2. f \in Frame /\ f.op = "poll" /\ f.env = Top.env /\ f.todo = Top.todo \ {e}
      <3>1. Top.todo \ {e} \in SUBSET Envs
        BY <1>2, SetFrame
      <3> QED
        BY <1>1, <1>2, <3>1, SetFrame
    <2>3. g \in Frame /\ g.op = "callback" /\ g.env = e
      BY CallbackFrame
    <2> HIDE DEF f, g
    <2>4. Opened(f, env', handle') /\ Opened(g, env', handle')
      BY <1>2, <2>1, <2>2, <2>3 DEF Opened
    <2>5. Calm
      BY <2>1, AllSame
    <2> QED
      BY <1>1, <2>1, <2>2, <2>3, <2>4, <2>5, CalmCall
  <1>5. CASE PollDrained
    <2> DEFINE f == [Top EXCEPT !.at = "events"]
    <2>1. stack' = GoTo(f) /\ UNCHANGED env /\ UNCHANGED handle /\ UNCHANGED pool
      BY <1>5 DEF PollDrained, host
    <2>2. f \in Frame /\ f.op = "poll" /\ f.env = Top.env /\ f.todo = Top.todo
      BY <1>1, <1>2, SetFrame
    <2> HIDE DEF f
    <2>3. Opened(f, env', handle') /\ Calm
      BY <1>2, <2>1, <2>2, AllSame DEF Opened
    <2> QED
      BY <1>1, <2>1, <2>2, <2>3, CalmGoTo
  <1>6. CASE PollEvent
    <2> DEFINE w == Head(events)
               g == F("callback", "run", work[w].env, <<>>)
    <2>1. /\ events # <<>> /\ work' = [work EXCEPT ![w].state = "completed"]
          /\ stack' = Append(stack, g) /\ UNCHANGED env /\ UNCHANGED handle
      BY <1>6 DEF PollEvent, host
    <2>2. w \in Active /\ w \in Works /\ work[w].env \in Envs
      BY <2>1, NextEvent DEF Active
    <2>3. g \in Frame /\ g.op = "callback" /\ g.env = work[w].env
      BY <2>2, CallbackFrame
    <2>4. env[work[w].env].life \in {"init", "live"}
      BY <2>2 DEF ClosedIsQuiet
    <2> HIDE DEF w, g
    <2>5. work[w] # NoWork
      BY SMTT(30), <2>2, WorkStates DEF PoolInv, Active
    <2>6. /\ work'[w].state = "completed" /\ \A x \in Works : x # w => work'[x] = work[x]
      BY <2>1, <2>2, <2>5, SetWork, WorkStates DEF PoolInv
    <2>7. WorkCalm
      BY <2>6 DEF WorkCalm, Active
    <2>8. Calm
      BY <2>1, <2>7, NothingMoves, CalmLists DEF Calm
    <2>9. Opened(g, env', handle')
      BY <2>1, <2>3, <2>4 DEF Opened
    <2> QED
      BY <2>1, <2>3, <2>8, <2>9, CalmPush
  <1>7. CASE PollEnd
    <2> DEFINE f == [Top EXCEPT !.at = "drain"]
               g == F("retire", "check", None, <<>>)
    <2>1. /\ stack' = GoTo(f) \/ stack' = Retire(Pop)
          /\ UNCHANGED env /\ UNCHANGED handle /\ UNCHANGED pool
      BY <1>7 DEF PollEnd, host
    <2>2. f \in Frame /\ f.op = "poll" /\ f.env = Top.env /\ f.todo = Top.todo
      BY <1>1, <1>2, SetFrame
    <2>3. Calm
      BY <2>1, AllSame
    <2> HIDE DEF f
    <2>4. ASSUME stack' = GoTo(f)
          PROVE  OpenInv'
      <3>1. Opened(f, env', handle')
        BY <1>2, <2>1, <2>2 DEF Opened
      <3> QED
        BY <1>1, <2>2, <2>3, <2>4, <3>1, CalmGoTo
    <2>5. ASSUME stack' = Pop
          PROVE  OpenInv'
      BY <1>1, <2>3, <2>5, CalmPop
    <2>6. ASSUME stack' = Retire(Pop), stack' # Pop
          PROVE  OpenInv'
      <3>1. Pop = <<>> /\ stack' = <<g>> /\ g.op = "retire" /\ g.todo = {}
        BY <1>1, <2>6, RetirePop, RetirementFrame DEF StackInv
      <3>2. Len(stack) = 1 /\ Len(stack') = 1
        <4>1. Len(Pop) = Len(stack) - 1 /\ Len(stack) \in Nat \ {0}
          BY <1>1, PopFacts DEF StackInv, Shaped
        <4> QED
          BY <3>1, <4>1
      <3>3. stack'[1] = g
        BY <3>1
      <3> HIDE DEF g
      <3>4. Opened(g, env', handle')
        BY <3>1 DEF Opened
      <3>5. OpenInv'
        BY <1>1, <2>3, <3>1, <3>2, <3>3, <3>4, CalmStep DEF Calm
      <3> QED
        BY <3>5
    <2> QED
      BY <2>1, <2>4, <2>5, <2>6
  <1> QED
    BY <1>3, <1>4, <1>5, <1>6, <1>7 DEF Polling

-----------------------------------------------------------------------------
(* Retirements and the program's calls.                                    *)

\* A retirement is the only frame, and what it starts lies on it alone.
LEMMA RetirementIsOuter ==
    ASSUME HostInv, stack # <<>>
    PROVE  /\ Top.op = "retire" => Len(stack) = 1
           /\ Top.op \in {"begin", "finish"} => Len(stack) = 2 /\ stack[1].op = "retire"
  BY TopFrame DEF FrameFits

\* With the retirement on top, no Env is dispatching or finalizing.
LEMMA RetirementIsIdle ==
    ASSUME HostInv, stack # <<>>, Top.op = "retire"
    PROVE  \A e \in Envs : ~env[e].dispatching /\ env[e].life # "finalizing"
  <1>1. Len(stack) = 1
    BY RetirementIsOuter
  <1> QED
    BY <1>1 DEF HostInv, OpenInv, PlaceInv

LEMMA RetireCheckKeepsOpen ==
    ASSUME HostInv, EnvTypes', Shaped(stack'), RetireCheck
    PROVE  OpenInv'
  <1> DEFINE r == {e \in Published : env[e].shutdown}
             f == [Top EXCEPT !.at = "begin", !.todo = r, !.all = r]
  <1>1. /\ stack # <<>> /\ Top.op = "retire"
        /\ stack' = Pop \/ stack' = GoTo(f)
        /\ UNCHANGED env /\ UNCHANGED handle /\ UNCHANGED pool
    BY DEF RetireCheck, At, host
  <1>2. r \in SUBSET Envs /\ \A e \in r : env[e].life \notin {"none", "init"}
    BY DEF Published
  <1>3. Top \in Frame
    BY <1>1, TopFrame
  <1>4. f \in Frame /\ f.op = "retire" /\ f.env = Top.env /\ f.todo = r
    BY <1>1, <1>2, <1>3 DEF Frame
  <1>5. Calm
    BY <1>1, AllSame
  <1> HIDE DEF f, r
  <1>6. Opened(f, env', handle')
    BY <1>1, <1>2, <1>4 DEF Opened
  <1> QED
    BY <1>1, <1>4, <1>5, <1>6, CalmPop, CalmGoTo

\* The two frames of a step that ends with a retirement and what it started.
LEMMA TwoFrames ==
    ASSUME HostInv, stack # <<>>, Len(stack) = 1,
           NEW f \in Frame, NEW g \in Frame, stack' = Append(GoTo(f), g)
    PROVE  Len(stack') = 2 /\ stack'[1] = f /\ stack'[2] = g
  <1>1. GoTo(f) \in Seq(Frame) /\ Len(GoTo(f)) = 1 /\ GoTo(f)[1] = f
    BY GoToFacts DEF HostInv, StackInv, Shaped
  <1>2. /\ Len(stack') = 1 + 1
        /\ \A i \in 1..1 : stack'[i] = GoTo(f)[i]
        /\ stack'[1 + 1] = g
    <2>1. /\ Len(stack') = Len(GoTo(f)) + 1
          /\ \A i \in 1..Len(GoTo(f)) : stack'[i] = GoTo(f)[i]
          /\ stack'[Len(GoTo(f)) + 1] = g
      BY <1>1, PushFacts
    <2> QED
      BY <1>1, <2>1
  <1> QED
    BY <1>1, <1>2

LEMMA RetireBeginKeepsOpen ==
    ASSUME HostInv, EnvTypes', Shaped(stack'), NEW e \in Envs, RetireBegin(e)
    PROVE  OpenInv'
  <1> USE DEF HostInv, OpenInv
  <1> DEFINE f == [Top EXCEPT !.todo = Top.todo \ {e}]
             g == F("begin", "run", e, <<>>)
  <1>1. /\ stack # <<>> /\ Top.op = "retire" /\ e \in Top.todo
        /\ \/ stack' = GoTo(f) /\ UNCHANGED env
           \/ /\ env[e].handles # <<>> /\ env' = [env EXCEPT ![e].dispatching = TRUE]
              /\ stack' = Append(GoTo(f), g)
        /\ UNCHANGED handle /\ UNCHANGED pool
    BY DEF RetireBegin, At
  <1>2. /\ Top \in Frame /\ Len(stack) = 1 /\ Opened(Top, env, handle)
    BY <1>1, TopFrame, RetirementIsOuter
  <1>3. Top.todo \ {e} \in SUBSET Envs
    BY <1>2, SetFrame
  <1>4. f \in Frame /\ f.op = "retire" /\ f.env = Top.env /\ f.todo = Top.todo \ {e}
    BY <1>1, <1>2, <1>3, SetFrame
  <1>5. g \in Frame /\ g.op = "begin" /\ g.env = e /\ g.batch = <<>>
    <2>1. <<>> \in Seq(Handles)
      OBVIOUS
    <2> QED
      BY <2>1 DEF F, Frame
  <1> HIDE DEF f, g
  <1>6. CASE stack' = GoTo(f) /\ UNCHANGED env
    <2>1. Opened(f, env', handle')
      BY <1>1, <1>2, <1>4, <1>6 DEF Opened
    <2>2. Calm
      BY <1>1, <1>6, AllSame
    <2> QED
      BY <1>1, <1>4, <1>6, <2>1, <2>2, CalmGoTo
  <1>7. CASE /\ env[e].handles # <<>> /\ env' = [env EXCEPT ![e].dispatching = TRUE]
             /\ stack' = Append(GoTo(f), g)
    <2>1. Len(stack') = 2 /\ stack'[1] = f /\ stack'[2] = g
      BY <1>1, <1>2, <1>4, <1>5, <1>7, TwoFrames
    <2>2. \A x \in Envs : ~env[x].dispatching /\ env[x].life # "finalizing"
      BY <1>1, RetirementIsIdle
    <2>3. /\ env'[e].dispatching
          /\ \A x \in Envs : /\ env'[x].life = env[x].life
                             /\ env'[x].handles = env[x].handles /\ env'[x].hooks = env[x].hooks
                             /\ env'[x].tsfn = env[x].tsfn /\ env'[x].posted = env[x].posted
                             /\ x # e => env'[x] = env[x]
      BY <1>7 DEF EnvTypes, EnvBox
    <2>4. env[e].life = "live"
      <3>1. env[e].life \notin {"none", "init"}
        BY <1>1, <1>2 DEF Opened
      <3> QED
        BY <1>7, <3>1 DEF ClosedIsQuiet
    <2>5. FramesInv'
      <3>1. Opened(f, env', handle')
        <4>1. \A x \in f.todo : x \in Envs /\ env[x].life \notin {"none", "init"}
          BY <1>1, <1>2, <1>3, <1>4 DEF Opened
        <4> QED
          BY <1>4, <2>3, <4>1 DEF Opened
      <3>2. Opened(g, env', handle')
        BY <1>5, <2>3, <2>4 DEF Opened
      <3> QED
        BY <2>1, <3>1, <3>2 DEF FramesInv
    <2>6. InitsInv'
      BY <1>4, <1>5, <2>1 DEF InitsInv
    <2>7. PlaceInv'
      BY <1>5, <2>1, <2>2, <2>3 DEF PlaceInv
    <2>8. ListInv'
      BY <1>1, <2>3, CalmLists, NothingMoves DEF ListCalm
    <2>9. ClosedIsQuiet'
      <3>1. \A x \in Envs : env'[x].life \notin {"init", "live"} => x # e /\ env'[x] = env[x]
        BY <2>3, <2>4
      <3> QED
        BY <1>1, <3>1 DEF ClosedIsQuiet, HandlesPending, Active, pool
    <2> QED
      BY <2>5, <2>6, <2>7, <2>8, <2>9
  <1> QED
    BY <1>1, <1>6, <1>7

LEMMA BeginTakeKeepsOpen ==
    ASSUME HostInv, EnvTypes', Shaped(stack'), BeginTake
    PROVE  OpenInv'
  <1> USE DEF HostInv, OpenInv
  <1> DEFINE e == Top.env
             b == env[e].handles
             f == [Top EXCEPT !.batch = b]
  <1>1. /\ stack # <<>> /\ Top.op = "begin"
        /\ \/ b = <<>> /\ env' = [env EXCEPT ![e].dispatching = FALSE] /\ stack' = Pop
           \/ env' = [env EXCEPT ![e].handles = <<>>] /\ stack' = GoTo(f)
        /\ UNCHANGED handle /\ UNCHANGED pool
    BY DEF BeginTake, At
  <1>2. /\ Top \in Frame /\ Len(stack) = 2 /\ Opened(Top, env, handle) /\ e \in Envs
        /\ Top = stack[2] /\ stack[1].op = "retire"
    BY <1>1, TopFrame, RetirementIsOuter
  <1>3. b \in Seq(Handles)
    BY <1>2 DEF EnvTypes, EnvBox
  <1>4. f \in Frame /\ f.op = "begin" /\ f.env = e /\ f.batch = b
    <2>1. b \in Seq(Handles) \cup Seq(Hooks)
      BY <1>3
    <2> HIDE DEF b
    <2> QED
      BY <1>1, <1>2, <2>1 DEF Frame
  <1>5. env[e].life = "live" /\ env[e].dispatching
    BY <1>1, <1>2 DEF Opened
  <1>6. CASE env' = [env EXCEPT ![e].handles = <<>>] /\ stack' = GoTo(f)
    <2>1. \A x \in Envs : /\ env'[x].life = env[x].life
                          /\ env'[x].dispatching = env[x].dispatching
                          /\ x # e => env'[x] = env[x]
                          /\ env'[e].handles = <<>>
      BY <1>2, <1>6 DEF EnvTypes, EnvBox
    <2>2. EnvCalm /\ ListCalm
      BY <1>5, <2>1 DEF EnvCalm, ListCalm, CanOpen
    <2>3. Calm
      BY <1>1, <2>2, NothingMoves, CalmLists DEF Calm
    <2>4. \A j \in 1..Len(b) : handle[b[j]] # NoHandle /\ handle[b[j]].env = e
      BY <1>2 DEF ListInv
    <2> HIDE DEF f, b, e
    <2>5. Opened(f, env', handle')
      BY <1>1, <1>2, <1>4, <1>5, <2>1, <2>4 DEF Opened
    <2> QED
      BY <1>1, <1>4, <1>6, <2>3, <2>5, CalmGoTo DEF e
  <1>7. CASE b = <<>> /\ env' = [env EXCEPT ![e].dispatching = FALSE] /\ stack' = Pop
    <2>1. Len(stack') = 1 /\ stack'[1] = stack[1]
      BY <1>1, <1>2, <1>7, PopFacts DEF StackInv, Shaped
    <2>2. /\ ~env'[e].dispatching
          /\ \A x \in Envs : /\ env'[x].life = env[x].life
                             /\ env'[x].handles = env[x].handles /\ env'[x].hooks = env[x].hooks
                             /\ env'[x].tsfn = env[x].tsfn /\ env'[x].posted = env[x].posted
                             /\ x # e => env'[x] = env[x]
      BY <1>2, <1>7 DEF EnvTypes, EnvBox
    <2>3. FramesInv'
      <3>1. Opened(stack[1], env, handle) /\ stack[1] \in Frame
        <4>1. 1 \in 1..Len(stack)
          BY <1>2
        <4> QED
          BY <4>1, ElementOfSeq DEF FramesInv, StackInv, Shaped
      <3>2. stack[1].todo \subseteq Envs
        BY <3>1, SetFrame
      <3>3. Opened(stack[1], env', handle')
        BY <1>2, <2>2, <3>1, <3>2 DEF Opened
      <3> QED
        BY <2>1, <3>3 DEF FramesInv
    <2>4. InitsInv'
      BY <2>1 DEF InitsInv
    <2>5. PlaceInv'
      <3>1. \A x \in Envs : ~env'[x].dispatching
        BY <1>2, <2>2 DEF PlaceInv
      <3>2. \A x \in Envs : env'[x].life # "finalizing"
        BY <1>1, <1>2, <2>2 DEF PlaceInv
      <3> QED
        BY <3>1, <3>2 DEF PlaceInv
    <2>6. ListInv'
      BY <1>1, <2>2, CalmLists, NothingMoves DEF ListCalm
    <2>7. ClosedIsQuiet'
      <3>1. \A x \in Envs : env'[x].life \notin {"init", "live"} => x # e /\ env'[x] = env[x]
        BY <1>5, <2>2
      <3> QED
        BY <1>1, <3>1 DEF ClosedIsQuiet, HandlesPending, Active, pool
    <2> QED
      BY <2>3, <2>4, <2>5, <2>6, <2>7
  <1> QED
    BY <1>1, <1>6, <1>7

LEMMA BeginNextKeepsOpen ==
    ASSUME HostInv, EnvTypes', Shaped(stack'), BeginNext
    PROVE  OpenInv'
  <1> USE DEF HostInv, OpenInv
  <1> DEFINE e == Top.env
             h == Top.batch[Len(Top.batch)]
             b == SubSeq(Top.batch, 1, Len(Top.batch) - 1)
             f == [Top EXCEPT !.batch = b]
             g == F("callback", "run", e, <<>>)
  <1>1. /\ stack # <<>> /\ Top.op = "begin" /\ Top.batch # <<>>
        /\ \/ /\ handle[h].state = 0 /\ handle' = [handle EXCEPT ![h].state = 1]
              /\ stack' = Append(GoTo(f), g)
           \/ stack' = GoTo(f) /\ UNCHANGED handle
        /\ UNCHANGED env /\ UNCHANGED pool
    BY DEF BeginNext, At
  <1>2. /\ Top \in Frame /\ Opened(Top, env, handle) /\ e \in Envs
        /\ Top.batch \in Seq(Handles)
    BY <1>1, TopFrame DEF FrameFits
  <1>3. /\ h \in Handles /\ b \in Seq(Handles)
        /\ Len(b) = Len(Top.batch) - 1 /\ Len(Top.batch) \in Nat \ {0}
        /\ \A i \in 1..Len(b) : b[i] = Top.batch[i]
    BY <1>1, <1>2, ButLast
  <1>4. /\ env[e].life = "live" /\ env[e].dispatching
        /\ \A j \in 1..Len(Top.batch) :
              handle[Top.batch[j]] # NoHandle /\ handle[Top.batch[j]].env = e
    BY <1>1, <1>2 DEF Opened
  <1>5. f \in Frame /\ f.op = "begin" /\ f.env = e /\ f.batch = b
    BY <1>1, <1>2, <1>3, SetFrame
  <1>6. g \in Frame /\ g.op = "callback" /\ g.env = e
    BY <1>2, CallbackFrame
  <1>7. handle[h] # NoHandle /\ handle[h].env = e
    BY <1>3, <1>4
  <1> HIDE DEF b, h, f, g
  <1>8. HandleCalm
    <2>1. \/ UNCHANGED handle
          \/ /\ handle'[h].state = 1 /\ handle'[h].env = handle[h].env
             /\ \A x \in Handles : x # h => handle'[x] = handle[x]
      <3>1. handle[h] \in [env : Envs, state : 0..2]
        BY <1>3, <1>7 DEF EnvTypes
      <3> QED
        BY <1>1, <1>3, <3>1 DEF EnvTypes
    <2>2. CanOpen(e)
      BY <1>4 DEF CanOpen
    <2> QED
      BY <1>7, <2>1, <2>2 DEF HandleCalm, NoHandle
  <1>9. Calm
    BY <1>1, <1>8, NothingMoves, CalmLists DEF Calm
  <1>10. Opened(f, env', handle')
    <2>1. \A j \in 1..Len(b) : /\ b[j] \in Handles
                               /\ handle[b[j]] # NoHandle /\ handle[b[j]].env = e
      BY <1>3, <1>4, ElementOfSeq
    <2>2. \A j \in 1..Len(b) : handle'[b[j]] # NoHandle /\ handle'[b[j]].env = e
      BY <1>8, <2>1 DEF HandleCalm
    <2> HIDE DEF e
    <2> QED
      BY <1>1, <1>4, <1>5, <2>2 DEF Opened
  <1>11. Opened(g, env', handle')
    BY <1>1, <1>4, <1>6 DEF Opened
  <1>12. ASSUME stack' = GoTo(f)
         PROVE  OpenInv'
    BY <1>1, <1>5, <1>9, <1>10, <1>12, CalmGoTo
  <1>13. ASSUME stack' = Append(GoTo(f), g)
         PROVE  OpenInv'
    BY <1>1, <1>5, <1>6, <1>9, <1>10, <1>11, <1>13, CalmCall
  <1> QED
    BY <1>1, <1>12, <1>13

\* Nothing is pending for the Env that goes on to be finalized.
LEMMA RetireNextKeepsOpen ==
    ASSUME HostInv, EnvTypes', Shaped(stack'), RetireNext
    PROVE  OpenInv'
  <1> USE DEF HostInv, OpenInv
  <1>1. /\ stack # <<>> /\ Top.op = "retire"
        /\ UNCHANGED handle /\ UNCHANGED pool
    BY DEF RetireNext, At
  <1>2. Top \in Frame /\ Len(stack) = 1 /\ Opened(Top, env, handle)
    BY <1>1, TopFrame, RetirementIsOuter
  <1>3. CASE stack' = Pop /\ UNCHANGED env
    <2>1. Calm
      BY <1>1, <1>3, AllSame
    <2> QED
      BY <1>1, <1>3, <2>1, CalmPop
  <1>4. ASSUME ~(stack' = Pop /\ UNCHANGED env)
        PROVE  OpenInv'
    <2> DEFINE f == [Top EXCEPT !.at = "check", !.all = {}]
    <2>1. PICK e \in Top.all :
             /\ Retirable(e) /\ ~Barrier
             /\ env' = [env EXCEPT ![e].life = "finalizing", ![e].hooks = <<>>]
             /\ stack' = Append(GoTo(f), F("finish", "hooks", e, env[e].hooks))
      BY <1>4 DEF RetireNext
    <2> DEFINE g == F("finish", "hooks", e, env[e].hooks)
    <2>2. e \in Envs
      BY <1>2, SetFrame
    <2>3. f \in Frame /\ f.op = "retire" /\ f.todo = Top.todo
      BY <1>1, <1>2 DEF Frame
    <2>4. g \in Frame /\ g.op = "finish" /\ g.env = e
      <3>1. env[e].hooks \in Seq(Hooks)
        BY <2>2 DEF EnvTypes, EnvBox
      <3> QED
        BY <2>2, <3>1 DEF F, Frame
    <2> HIDE DEF f, g
    <2>5. Len(stack') = 2 /\ stack'[1] = f /\ stack'[2] = g
      BY <1>1, <1>2, <2>1, <2>3, <2>4, TwoFrames DEF g
    <2>6. \A x \in Envs : ~env[x].dispatching /\ env[x].life # "finalizing"
      BY <1>1, RetirementIsIdle
    <2>7. /\ env'[e].life = "finalizing" /\ env'[e].hooks = <<>>
          /\ \A x \in Envs : /\ env'[x].dispatching = env[x].dispatching
                             /\ env'[x].handles = env[x].handles
                             /\ env'[x].tsfn = env[x].tsfn
                             /\ x # e => env'[x] = env[x]
      BY <2>1, <2>2 DEF EnvTypes, EnvBox
    <2>8. FramesInv'
      <3>1. Opened(f, env', handle')
        <4>1. \A x \in f.todo : x \in Envs /\ env[x].life \notin {"none", "init"}
          BY <1>1, <1>2, <2>3, SetFrame DEF Opened
        <4> QED
          BY <2>3, <2>7, <4>1 DEF Opened
      <3>2. Opened(g, env', handle')
        BY <2>4, <2>7 DEF Opened
      <3> QED
        BY <2>5, <3>1, <3>2 DEF FramesInv
    <2>9. InitsInv'
      BY <2>3, <2>4, <2>5 DEF InitsInv
    <2>10. PlaceInv'
      BY <2>4, <2>5, <2>6, <2>7 DEF PlaceInv
    <2>11. ListInv'
      BY <1>1, <2>7, CalmLists, NothingMoves DEF ListCalm
    <2>12. ClosedIsQuiet'
      <3> SUFFICES ASSUME NEW x \in Envs, env'[x].life \notin {"init", "live"}
                   PROVE  /\ ~env'[x].tsfn /\ ~HandlesPending(x)' /\ env'[x].handles = <<>>
                          /\ ~env'[x].dispatching
                          /\ \A w \in Active' : work'[w].env # x
                          /\ env'[x].life # "finalizing" => ~env'[x].posted /\ env'[x].hooks = <<>>
        BY DEF ClosedIsQuiet
      <3>1. HandlesPending(x)' <=> HandlesPending(x)
        BY <1>1 DEF HandlesPending
      <3>2. Active' = Active /\ work' = work
        BY <1>1 DEF Active, pool
      <3>3. CASE x # e
        BY <2>7, <3>1, <3>2, <3>3 DEF ClosedIsQuiet
      <3>4. CASE x = e
        <4>1. env[e].life = "live" /\ ~env[e].dispatching /\ ~HandlesPending(e)
              /\ env[e].handles = <<>>
          BY <2>1 DEF Retirable
        <4>2. ~env[e].tsfn
          BY <2>1, <2>2 DEF Barrier, AnyTsfn
        <4>3. \A w \in Active : work[w].env # e
          BY <2>1, <2>2, <4>1 DEF Barrier, WorkActive, Published
        <4> QED
          BY <2>2, <2>7, <3>1, <3>2, <3>4, <4>1, <4>2, <4>3
      <3> QED
        BY <3>3, <3>4
    <2> QED
      BY <2>8, <2>9, <2>10, <2>11, <2>12
  <1> QED
    BY <1>3, <1>4

LEMMA FinishHookKeepsOpen ==
    ASSUME HostInv, EnvTypes', Shaped(stack'), FinishHook
    PROVE  OpenInv'
  <1> DEFINE b == SubSeq(Top.batch, 1, Len(Top.batch) - 1)
             f == [Top EXCEPT !.at = "posted"]
             h == [Top EXCEPT !.batch = b]
             g == F("callback", "run", Top.env, <<>>)
  <1>1. /\ stack # <<>> /\ Top.op = "finish"
        /\ \/ stack' = GoTo(f)
           \/ Top.batch # <<>> /\ stack' = Append(GoTo(h), g)
        /\ UNCHANGED env /\ UNCHANGED handle /\ UNCHANGED pool
    BY DEF FinishHook, At, host
  <1>2. /\ Top \in Frame /\ Opened(Top, env, handle) /\ Top.env \in Envs
        /\ Top.batch \in Seq(Hooks)
    BY <1>1, TopFrame DEF FrameFits
  <1>3. f \in Frame /\ f.op = "finish" /\ f.env = Top.env
    BY <1>1, <1>2, SetFrame
  <1>4. g \in Frame /\ g.op = "callback" /\ g.env = Top.env
    BY <1>2, CallbackFrame
  <1>5. Calm
    BY <1>1, AllSame
  <1> HIDE DEF f, g, h, b
  <1>6. Opened(f, env', handle') /\ Opened(g, env', handle')
    BY <1>1, <1>2, <1>3, <1>4 DEF Opened
  <1>7. ASSUME stack' = GoTo(f)
        PROVE  OpenInv'
    BY <1>1, <1>3, <1>5, <1>6, <1>7, CalmGoTo
  <1>8. ASSUME Top.batch # <<>>, stack' = Append(GoTo(h), g)
        PROVE  OpenInv'
    <2>1. b \in Seq(Handles) \cup Seq(Hooks)
      BY <1>2, <1>8, ButLast DEF b
    <2>2. h \in Frame /\ h.op = "finish" /\ h.env = Top.env
      BY <1>1, <1>2, <2>1 DEF Frame, h
    <2>3. Opened(h, env', handle')
      BY <1>1, <1>2, <2>2 DEF Opened
    <2> QED
      BY <1>1, <1>4, <1>5, <1>6, <1>8, <2>2, <2>3, CalmCall
  <1> QED
    BY <1>1, <1>7, <1>8

LEMMA FinishPostedKeepsOpen ==
    ASSUME HostInv, EnvTypes', Shaped(stack'), FinishPosted
    PROVE  OpenInv'
  <1> USE DEF HostInv, OpenInv
  <1> DEFINE e == Top.env
             g == F("callback", "run", e, <<>>)
  <1>1. /\ stack # <<>> /\ Top.op = "finish"
        /\ \/ env' = [env EXCEPT ![e].posted = FALSE] /\ stack' = Append(stack, g)
           \/ /\ ~env[e].posted
              /\ env' = [env EXCEPT ![e].life = "finalized"] /\ stack' = Pop
        /\ UNCHANGED handle /\ UNCHANGED pool
    BY DEF FinishPosted, At
  <1>2. /\ Top \in Frame /\ Len(stack) = 2 /\ Opened(Top, env, handle) /\ e \in Envs
        /\ Top = stack[2] /\ stack[1].op = "retire"
    BY <1>1, TopFrame, RetirementIsOuter
  <1>3. env[e].life = "finalizing"
    BY <1>1, <1>2 DEF Opened
  <1>4. g \in Frame /\ g.op = "callback" /\ g.env = e
    BY <1>2, CallbackFrame
  <1> HIDE DEF e, g
  <1>5. CASE env' = [env EXCEPT ![e].posted = FALSE] /\ stack' = Append(stack, g)
    <2>1. \A x \in Envs : /\ env'[x].life = env[x].life
                          /\ env'[x].dispatching = env[x].dispatching
                          /\ env'[x].handles = env[x].handles /\ env'[x].hooks = env[x].hooks
                          /\ env'[x].tsfn = env[x].tsfn
                          /\ x # e => env'[x] = env[x]
      BY <1>2, <1>5 DEF EnvTypes, EnvBox
    <2>2. EnvCalm /\ ListCalm
      BY <1>3, <2>1 DEF EnvCalm, ListCalm
    <2>3. Calm
      BY <1>1, <2>2, NothingMoves, CalmLists DEF Calm
    <2>4. Opened(g, env', handle')
      BY <1>2, <1>3, <1>4, <2>1 DEF Opened
    <2> QED
      BY <1>4, <1>5, <2>3, <2>4, CalmPush
  <1>6. CASE /\ ~env[e].posted
             /\ env' = [env EXCEPT ![e].life = "finalized"] /\ stack' = Pop
    <2>1. Len(stack') = 1 /\ stack'[1] = stack[1]
      BY <1>1, <1>2, <1>6, PopFacts DEF StackInv, Shaped
    <2>2. /\ env'[e].life = "finalized"
          /\ \A x \in Envs : /\ env'[x].dispatching = env[x].dispatching
                             /\ env'[x].handles = env[x].handles /\ env'[x].hooks = env[x].hooks
                             /\ env'[x].tsfn = env[x].tsfn /\ env'[x].posted = env[x].posted
                             /\ x # e => env'[x] = env[x]
      BY <1>2, <1>6 DEF EnvTypes, EnvBox
    <2>3. FramesInv'
      <3>1. Opened(stack[1], env, handle) /\ stack[1] \in Frame
        <4>1. 1 \in 1..Len(stack)
          BY <1>2
        <4> QED
          BY <4>1, ElementOfSeq DEF FramesInv, StackInv, Shaped
      <3>2. stack[1].todo \subseteq Envs
        BY <3>1, SetFrame
      <3>3. Opened(stack[1], env', handle')
        BY <1>2, <2>2, <3>1, <3>2 DEF Opened
      <3> QED
        BY <2>1, <3>3 DEF FramesInv
    <2>4. InitsInv'
      BY <2>1 DEF InitsInv
    <2>5. PlaceInv'
      <3>1. \A x \in Envs : env[x].life = "finalizing" => x = e
        BY <1>2 DEF PlaceInv, e
      <3>2. \A x \in Envs : ~env[x].dispatching
        BY <1>1, <1>2 DEF PlaceInv
      <3> QED
        BY <2>2, <3>1, <3>2 DEF PlaceInv
    <2>6. ListInv'
      BY <1>1, <2>2, CalmLists, NothingMoves DEF ListCalm
    <2>7. ClosedIsQuiet'
      <3> SUFFICES ASSUME NEW x \in Envs, env'[x].life \notin {"init", "live"}
                   PROVE  /\ ~env'[x].tsfn /\ ~HandlesPending(x)' /\ env'[x].handles = <<>>
                          /\ ~env'[x].dispatching
                          /\ \A w \in Active' : work'[w].env # x
                          /\ env'[x].life # "finalizing" => ~env'[x].posted /\ env'[x].hooks = <<>>
        BY DEF ClosedIsQuiet
      <3>1. HandlesPending(x)' <=> HandlesPending(x)
        BY <1>1 DEF HandlesPending
      <3>2. Active' = Active /\ work' = work
        BY <1>1 DEF Active, pool
      <3>3. env[x].life \notin {"init", "live"}
        BY <1>3, <2>2
      <3>4. env[e].hooks = <<>>
        BY <1>2, <1>3 DEF PlaceInv
      <3> QED
        BY <1>3, <1>6, <2>2, <3>1, <3>2, <3>3, <3>4 DEF ClosedIsQuiet
    <2> QED
      BY <2>3, <2>4, <2>5, <2>6, <2>7
  <1> QED
    BY <1>1, <1>5, <1>6 DEF e, g

LEMMA LoadKeepsOpen ==
    ASSUME HostInv, EnvTypes', Shaped(stack'), NEW e \in Envs, Load(e)
    PROVE  OpenInv'
  <1> USE DEF HostInv, OpenInv
  <1> DEFINE f == F("init", "run", e, <<>>)
             n == Len(stack)
  <1>1. /\ env[e].life = "none" /\ env' = [env EXCEPT ![e] = NewEnv("init")]
        /\ stack' = Append(stack, f) /\ UNCHANGED handle /\ UNCHANGED pool
    BY DEF Load, Unused
  <1>2. f \in Frame /\ f.op = "init" /\ f.env = e
    <2>1. <<>> \in Seq(Handles)
      OBVIOUS
    <2> QED
      BY <2>1 DEF F, Frame
  <1>3. /\ n \in Nat /\ Len(stack') = n + 1
        /\ \A i \in 1..n : stack'[i] = stack[i]
        /\ stack'[n + 1] = f
    BY <1>1, <1>2, PushFacts DEF StackInv, Shaped
  <1>4. /\ env'[e].life = "init" /\ ~env'[e].dispatching /\ env'[e].handles = <<>>
        /\ \A x \in Envs : x # e => env'[x] = env[x]
    BY <1>1 DEF EnvTypes, NewEnv
  <1> HIDE DEF f
  <1>5. ASSUME NEW i \in 1..n
        PROVE  Opened(stack[i], env', handle') /\ (stack[i].op = "init" => stack[i].env # e)
    <2> DEFINE g == stack[i]
    <2>1. Opened(g, env, handle) /\ FrameFits(stack, i) /\ g \in Frame
      BY ElementOfSeq DEF FramesInv, StackInv, Shaped
    <2>2. /\ g.op \in {"callback", "init", "begin", "finish"} => g.env \in Envs
          /\ g.todo \subseteq Envs
      BY <2>1, SetFrame DEF FrameFits
    <2> HIDE DEF g, n
    <2>3. g.op \in {"callback", "init", "begin", "finish"} => g.env # e
      BY <1>1, <2>1 DEF Opened
    <2>4. g.op \in {"poll", "retire"} => e \notin g.todo
      BY <1>1, <2>1 DEF Opened
    <2>5. Opened(g, env', handle')
      BY <1>1, <1>4, <2>1, <2>2, <2>3, <2>4 DEF Opened
    <2> QED
      BY <2>3, <2>5 DEF g
  <1>6. Opened(f, env', handle')
    BY <1>2, <1>4 DEF Opened
  <1> HIDE DEF n
  <1>7. FramesInv'
    <2> SUFFICES ASSUME NEW i \in 1..Len(stack')
                 PROVE  Opened(stack'[i], env', handle')
      BY DEF FramesInv
    <2>1. i \in 1..n \/ i = n + 1
      BY <1>3
    <2> QED
      BY <1>3, <1>5, <1>6, <2>1
  <1>8. InitsInv'
    <2> SUFFICES ASSUME NEW i \in 1..Len(stack'), NEW j \in 1..Len(stack'),
                        stack'[i].op = "init", stack'[j].op = "init",
                        stack'[i].env = stack'[j].env
                 PROVE  i = j
      BY DEF InitsInv
    <2>1. (i \in 1..n \/ i = n + 1) /\ (j \in 1..n \/ j = n + 1)
      BY <1>3
    <2>2. ASSUME i \in 1..n, j \in 1..n PROVE i = j
      BY <1>3, <2>2 DEF InitsInv, n
    <2>3. i \in 1..n => stack'[i].env # e
      BY <1>3, <1>5
    <2>4. j \in 1..n => stack'[j].env # e
      BY <1>3, <1>5
    <2>5. i = n + 1 => stack'[i].env = e
      BY <1>2, <1>3
    <2>6. j = n + 1 => stack'[j].env = e
      BY <1>2, <1>3
    <2> QED
      BY <2>1, <2>2, <2>3, <2>4, <2>5, <2>6
  <1>9. PlaceInv'
    <2>1. Len(stack) > 1 => Len(stack') > 1 /\ stack'[2] = stack[2]
      BY <1>3 DEF n
    <2> QED
      BY <1>4, <2>1 DEF PlaceInv
  <1>10. ListInv'
    BY <1>1, <1>4, CalmLists, NothingMoves DEF ListCalm
  <1>11. ClosedIsQuiet'
    <2>1. \A x \in Envs : env'[x].life \notin {"init", "live"} => x # e /\ env'[x] = env[x]
      BY <1>4
    <2> QED
      BY <1>1, <2>1 DEF ClosedIsQuiet, HandlesPending, Active, pool
  <1> QED
    BY <1>7, <1>8, <1>9, <1>10, <1>11

LEMMA FinishShutdownKeepsOpen ==
    ASSUME HostInv, EnvTypes', Shaped(stack'), FinishShutdown
    PROVE  OpenInv'
  <1> USE DEF HostInv, OpenInv
  <1>1. /\ stack = <<>> /\ stack' = <<>> /\ UNCHANGED handle
        /\ ~WorkActive /\ \A e \in Published : env[e].life = "finalized"
        /\ env' = [e \in Envs |-> IF e \in Published THEN NewEnv("none") ELSE env[e]]
        /\ work' = [w \in Works |-> IF work[w] # NoWork /\ work[w].env \in Published
                                    THEN NoWork ELSE work[w]]
    BY DEF FinishShutdown, TopLevel, MayRelease, Barrier
  <1>2. \A x \in Envs :
           /\ x \in Published =>
                 /\ env[x].life = "finalized"
                 /\ env'[x].life = "none" /\ ~env'[x].dispatching /\ ~env'[x].tsfn
                 /\ ~env'[x].posted /\ env'[x].hooks = <<>> /\ env'[x].handles = <<>>
           /\ x \notin Published => env'[x] = env[x]
    BY <1>1 DEF NewEnv
  <1>3. \A w \in Active' : w \in Active /\ work'[w] = work[w]
    BY <1>1 DEF Active, NoWork
  <1>4. FramesInv' /\ InitsInv'
    BY <1>1 DEF FramesInv, InitsInv
  <1>5. \A e \in Envs : ~env[e].dispatching /\ env[e].life # "finalizing"
    BY <1>1 DEF PlaceInv
  <1>6. PlaceInv'
    BY <1>2, <1>5 DEF PlaceInv
  <1>7. ListInv'
    BY <1>1, <1>2, CalmLists, NothingMoves DEF ListCalm
  <1>8. ClosedIsQuiet'
    <2> SUFFICES ASSUME NEW x \in Envs, env'[x].life \notin {"init", "live"}
                 PROVE  /\ ~env'[x].tsfn /\ ~HandlesPending(x)' /\ env'[x].handles = <<>>
                        /\ ~env'[x].dispatching
                        /\ \A w \in Active' : work'[w].env # x
                        /\ env'[x].life # "finalizing" => ~env'[x].posted /\ env'[x].hooks = <<>>
      BY DEF ClosedIsQuiet
    <2>1. env[x].life \notin {"init", "live"}
      BY <1>2
    <2>2. HandlesPending(x)' <=> HandlesPending(x)
      BY <1>1 DEF HandlesPending
    <2>3. ~HandlesPending(x) /\ \A w \in Active : work[w].env # x
      BY <2>1 DEF ClosedIsQuiet
    <2> QED
      BY <1>2, <1>3, <2>1, <2>2, <2>3 DEF ClosedIsQuiet
  <1> QED
    BY <1>4, <1>6, <1>7, <1>8

LEMMA ProgramKeepsOpen ==
    ASSUME HostInv, EnvTypes', Shaped(stack'), Program
    PROVE  OpenInv'
  <1>1. <<>> \in Seq(Handles) \cup Seq(Hooks)
    OBVIOUS
  <1>2. CASE Poll
    <2> DEFINE f == F("poll", "drain", None, <<>>)
    <2>1. stack' = Append(stack, f) /\ UNCHANGED env /\ UNCHANGED handle /\ UNCHANGED pool
      BY <1>2 DEF Poll, host
    <2>2. f \in Frame /\ f.op = "poll" /\ f.todo = {}
      BY <1>1 DEF F, Frame
    <2> HIDE DEF f
    <2>3. Opened(f, env', handle')
      BY <2>2 DEF Opened
    <2>4. Calm
      BY <2>1, AllSame
    <2> QED
      BY <2>1, <2>2, <2>3, <2>4, CalmPush
  <1>3. ASSUME NEW e \in Envs, CallExport(e)
        PROVE  OpenInv'
    <2> DEFINE f == F("callback", "call", e, <<>>)
    <2>1. /\ stack' = Append(stack, f) /\ env[e].life = "live"
          /\ UNCHANGED env /\ UNCHANGED handle /\ UNCHANGED pool
      BY <1>3 DEF CallExport, host
    <2>2. f \in Frame /\ f.op = "callback" /\ f.env = e
      BY CallbackFrame
    <2> HIDE DEF f
    <2>3. Opened(f, env', handle')
      BY <2>1, <2>2 DEF Opened
    <2>4. Calm
      BY <2>1, AllSame
    <2> QED
      BY <2>1, <2>2, <2>3, <2>4, CalmPush
  <1>4. CASE BeginShutdown
    <2> DEFINE f == F("retire", "check", None, <<>>)
    <2>1. /\ \/ env' = env
             \/ env' = [e \in Envs |-> [env[e] EXCEPT !.shutdown = @ \/ e \in Published]]
          /\ stack = <<>> /\ stack' = Retire(stack) /\ UNCHANGED handle /\ UNCHANGED pool
      BY <1>4 DEF BeginShutdown, TopLevel
    <2>2. \A x \in Envs : /\ env'[x].life = env[x].life
                          /\ env'[x].dispatching = env[x].dispatching
                          /\ env'[x].handles = env[x].handles /\ env'[x].hooks = env[x].hooks
                          /\ env'[x].tsfn = env[x].tsfn /\ env'[x].posted = env[x].posted
      BY <2>1 DEF HostInv, EnvTypes, EnvBox
    <2>3. Calm
      BY <2>1, <2>2, NothingMoves, CalmLists
         DEF Calm, EnvCalm, ListCalm, HostInv, OpenInv
    <2>4. stack' = Append(stack, f)
      BY <2>1 DEF Retire, Guarded
    <2>5. f \in Frame /\ f.op = "retire" /\ f.todo = {}
      BY RetirementFrame
    <2> HIDE DEF f
    <2>6. Opened(f, env', handle')
      BY <2>5 DEF Opened
    <2> QED
      BY <2>3, <2>4, <2>5, <2>6, CalmPush
  <1>5. CASE ReportErrors
    <2>1. stack' = stack /\ UNCHANGED env /\ UNCHANGED handle /\ UNCHANGED pool
      BY <1>5 DEF ReportErrors
    <2> QED
      BY <2>1, AllSame, CalmStill
  <1> QED
    BY <1>2, <1>3, <1>4, <1>5, LoadKeepsOpen, FinishShutdownKeepsOpen DEF Program

-----------------------------------------------------------------------------
(* The theorem.                                                            *)

LEMMA HostInit == Init => HostInv
  <1> SUFFICES ASSUME Init PROVE HostInv
    OBVIOUS
  <1>1. PoolInv /\ EnvTypes /\ StackInv
    BY PoolInit, EnvTypesInit, StackInit
  <1>2. /\ stack = <<>>
        /\ \A e \in Envs : /\ env[e].life = "none" /\ ~env[e].dispatching /\ ~env[e].tsfn
                           /\ ~env[e].posted /\ env[e].hooks = <<>> /\ env[e].handles = <<>>
        /\ \A w \in Works : work[w] = NoWork
        /\ \A h \in Handles : handle[h] = NoHandle
    BY DEF Init, NewEnv
  <1>3. FramesInv /\ InitsInv /\ PlaceInv /\ ListInv
    BY <1>2 DEF FramesInv, InitsInv, PlaceInv, ListInv
  <1>4. ClosedIsQuiet
    BY <1>2 DEF ClosedIsQuiet, HandlesPending, Active, NoWork, NoHandle
  <1> QED
    BY <1>1, <1>3, <1>4 DEF HostInv, OpenInv

LEMMA HostStep ==
    ASSUME HostInv, [Next]_vars
    PROVE  HostInv'
  <1>1. PoolInv' /\ EnvTypes'
    BY PoolStep, EnvTypesStep DEF HostInv
  <1>2. Shaped(stack')
    BY StackStep DEF HostInv, StackInv
  <1>3. ASSUME Addon \/ Pool \/ Foreign
        PROVE  OpenInv'
    BY <1>1, <1>2, <1>3, StackStays, AddonIsCalm, PoolIsCalm, ForeignIsCalm, CalmStill
  <1>4. ASSUME Callbacks
        PROVE  OpenInv'
    BY <1>1, <1>2, <1>4, ReturnKeepsOpen, InitReturnsKeepsOpen DEF Callbacks
  <1>5. ASSUME Retiring
        PROVE  OpenInv'
    BY <1>1, <1>2, <1>5, RetireCheckKeepsOpen, RetireBeginKeepsOpen, BeginTakeKeepsOpen,
       BeginNextKeepsOpen, RetireNextKeepsOpen, FinishHookKeepsOpen, FinishPostedKeepsOpen
       DEF Retiring
  <1>6. ASSUME UNCHANGED vars
        PROVE  OpenInv'
    <2>1. stack' = stack /\ UNCHANGED <<env, handle, pool>>
      BY <1>6 DEF vars, host
    <2> QED
      BY <1>1, <1>2, <2>1, AllSame, CalmStill
  <1>7. OpenInv'
    BY <1>1, <1>2, <1>3, <1>4, <1>5, <1>6, PollingKeepsOpen, ProgramKeepsOpen DEF Next
  <1> QED
    BY <1>1, <1>2, <1>7 DEF HostInv, StackInv

\* The inductive invariant of the host.
THEOREM HostInvariant == Spec => []HostInv
  <1> QED
    BY HostInit, HostStep, PTL DEF Spec

\* Nothing of an addon runs once its Env is closed, and nothing that could run
\* then is left: neither an active work nor a threadsafe function nor a started
\* hook (the barriers of retire_owned_envs, finalize_env and the guard that keeps
\* a retirement out of callbacks).
THEOREM ClosedEnvsStayQuiet == Spec => []NothingRunsClosed
  <1>1. HostInv => NothingRunsClosed
    <2> SUFFICES ASSUME HostInv
                 PROVE  NothingRunsClosed
      OBVIOUS
    <2>1. ASSUME NEW i \in 1..Len(stack)
          PROVE  /\ stack[i].op = "retire" => i = 1
                 /\ stack[i].op \in {"callback", "init", "begin", "finish"} =>
                       env[stack[i].env].life \in {"init", "live", "finalizing"}
      BY DEF HostInv, StackInv, Shaped, FrameFits, OpenInv, FramesInv, Opened
    <2> QED
      BY <2>1 DEF NothingRunsClosed, FramesAreOpen, HostInv, OpenInv
  <1> QED
    BY <1>1, HostInvariant, PTL
=============================================================================
