--------------------------- MODULE PromisesLemmas ----------------------------
(***************************************************************************)
(* Proofs about native promises, for any bounds.  Compiled code, callbacks *)
(* that poll, purges and arena resets interleave as in Promises.           *)
(*                                                                         *)
(* The steps of Promises are compositions of a few operations on the heap  *)
(* and the frames.  The invariants are therefore operators of the values   *)
(* they talk about, and one lemma says what each operation does to them.   *)
(***************************************************************************)
EXTENDS Promises, FiniteSetTheorems, SequenceTheorems, TLAPS

-----------------------------------------------------------------------------
(* Operations on one box.                                                  *)

DestroyBox(b) ==
    IF b.references <= b.internal THEN b
    ELSE IF b.references = 1 THEN NoBox ELSE [b EXCEPT !.references = @ - 1]

ReleaseBox(b) ==
    IF b.internal = 0 \/ b.references = 0 THEN b
    ELSE IF b.references = 1 THEN NoBox
    ELSE [b EXCEPT !.references = @ - 1, !.internal = @ - 1]

RetainBox(b) == [b EXCEPT !.references = @ + 1, !.internal = @ + 1]

SettleBox(b, r) ==
    IF b.result = "pending" THEN [b EXCEPT !.result = r, !.subscribers = <<>>] ELSE b

SubscribeBox(b, f) ==
    [b EXCEPT !.handled = TRUE,
              !.subscribers = IF b.result = "pending" THEN Append(@, f) ELSE @]

LEMMA DestroyIs ==
    ASSUME NEW S, NEW h \in [Promise -> S], NEW p \in Promise
    PROVE  Destroy(h, p) = [h EXCEPT ![p] = DestroyBox(h[p])]
  <1>1. [h EXCEPT ![p] = h[p]] = h
    OBVIOUS
  <1>2. [h EXCEPT ![p].references = @ - 1] = [h EXCEPT ![p] = [h[p] EXCEPT !.references = @ - 1]]
    OBVIOUS
  <1>3. CASE h[p].references <= h[p].internal
    BY <1>1, <1>3 DEF Destroy, DestroyBox
  <1>4. CASE ~(h[p].references <= h[p].internal) /\ h[p].references = 1
    BY <1>4 DEF Destroy, DestroyBox
  <1>5. CASE ~(h[p].references <= h[p].internal) /\ h[p].references # 1
    BY <1>2, <1>5 DEF Destroy, DestroyBox
  <1> QED
    BY <1>3, <1>4, <1>5

LEMMA ReleaseIs ==
    ASSUME NEW S, NEW h \in [Promise -> S], NEW p \in Promise
    PROVE  Release(h, p) = [h EXCEPT ![p] = ReleaseBox(h[p])]
  <1>1. [h EXCEPT ![p] = h[p]] = h
    OBVIOUS
  <1>2. [h EXCEPT ![p].references = @ - 1, ![p].internal = @ - 1]
           = [h EXCEPT ![p] = [h[p] EXCEPT !.references = @ - 1, !.internal = @ - 1]]
    OBVIOUS
  <1>3. CASE h[p].internal = 0 \/ h[p].references = 0
    BY <1>1, <1>3 DEF Release, ReleaseBox
  <1>4. CASE ~(h[p].internal = 0 \/ h[p].references = 0) /\ h[p].references = 1
    BY <1>4 DEF Release, ReleaseBox
  <1>5. CASE ~(h[p].internal = 0 \/ h[p].references = 0) /\ h[p].references # 1
    BY <1>2, <1>5 DEF Release, ReleaseBox
  <1> QED
    BY <1>3, <1>4, <1>5

LEMMA RetainIs ==
    ASSUME NEW S, NEW h \in [Promise -> S], NEW p \in Promise
    PROVE  RetainInternal(h, p) = [h EXCEPT ![p] = RetainBox(h[p])]
  BY DEF RetainInternal, RetainBox

LEMMA SettleIs ==
    ASSUME NEW S, NEW h \in [Promise -> S], NEW p \in Promise, NEW r
    PROVE  Settle(h, p, r) = [h EXCEPT ![p] = SettleBox(h[p], r)]
  <1>1. [h EXCEPT ![p] = h[p]] = h
    OBVIOUS
  <1>2. [h EXCEPT ![p].result = r, ![p].subscribers = <<>>]
           = [h EXCEPT ![p] = [h[p] EXCEPT !.result = r, !.subscribers = <<>>]]
    OBVIOUS
  <1> QED
    BY <1>1, <1>2 DEF Settle, SettleBox, Pending

LEMMA SubscribeIs ==
    ASSUME NEW S, NEW h \in [Promise -> S], NEW p \in Promise, NEW f
    PROVE  Subscribed(h, p, f) = [h EXCEPT ![p] = SubscribeBox(h[p], f)]
  BY DEF Subscribed, SubscribeBox, Pending

\* i internal and e external tokens are held on box b, and without any it is free.
Holds(b, i, e) ==
    /\ b.internal = i /\ b.references = i + e
    /\ b.live <=> i + e > 0
    /\ i + e = 0 => b = NoBox

\* All of a box but its counters.
SameData(b, c) ==
    /\ c.live = b.live /\ c.result = b.result /\ c.handled = b.handled
    /\ c.reported = b.reported /\ c.subscribers = b.subscribers

\* Giving back a token frees the box or leaves what is in it.
Trimmed(b, c) == SameData(NoBox, c) \/ SameData(b, c)

LEMMA NoBoxFacts ==
    /\ NoBox \in PromiseBox /\ Holds(NoBox, 0, 0)
    /\ NoBox.live = FALSE /\ NoBox.result = "pending" /\ NoBox.handled = FALSE
    /\ NoBox.reported = FALSE /\ NoBox.subscribers = <<>>
    /\ NewBox \in PromiseBox /\ Holds(NewBox, 0, 1)
  <1>1. <<>> \in Seq(FrameId)
    OBVIOUS
  <1>2. NoBox \in PromiseBox /\ NewBox \in PromiseBox
    BY <1>1 DEF NoBox, NewBox, PromiseBox
  <1>3. Holds(NoBox, 0, 0)
    <2>1. NoBox.internal = 0 /\ NoBox.references = 0 /\ NoBox.live = FALSE
      BY DEF NoBox
    <2> QED
      BY <2>1 DEF Holds
  <1>4. Holds(NewBox, 0, 1)
    <2>1. NewBox.internal = 0 /\ NewBox.references = 1 /\ NewBox.live = TRUE
      BY DEF NoBox, NewBox
    <2> QED
      BY <2>1 DEF Holds
  <1> QED
    BY <1>2, <1>3, <1>4 DEF NoBox, NewBox

\* A box with other counters.
Counters(b, r, i) == [b EXCEPT !.references = r, !.internal = i]
References(b, r)  == [b EXCEPT !.references = r]

\* Box c is b with r tokens, i of them internal.
Recounted(b, c, r, i) ==
    c \in PromiseBox /\ SameData(b, c) /\ c.references = r /\ c.internal = i

LEMMA CountersAre ==
    ASSUME NEW b \in PromiseBox, NEW r \in Nat, NEW i \in Nat
    PROVE  Recounted(b, Counters(b, r, i), r, i)
  BY DEF PromiseBox, SameData, Counters, Recounted

LEMMA ReferencesAre ==
    ASSUME NEW b \in PromiseBox, NEW r \in Nat
    PROVE  Recounted(b, References(b, r), r, b.internal)
  BY DEF PromiseBox, SameData, References, Recounted

LEMMA DestroyBoxHolds ==
    ASSUME NEW b \in PromiseBox, NEW i \in Nat, NEW e \in Nat, Holds(b, i, e), e > 0
    PROVE  /\ DestroyBox(b) \in PromiseBox /\ Holds(DestroyBox(b), i, e - 1)
           /\ Trimmed(b, DestroyBox(b))
  <1>0. b.references = i + e /\ b.internal = i /\ (b.live <=> i + e > 0)
    BY DEF Holds
  <1>1. CASE i + e = 1
    <2>1. DestroyBox(b) = NoBox
      BY <1>0, <1>1 DEF DestroyBox
    <2>2. i = 0 /\ e - 1 = 0
      BY <1>1
    <2> QED
      BY <2>1, <2>2, NoBoxFacts DEF Trimmed, SameData
  <1>2. CASE i + e # 1
    <2>1. PICK r \in Nat : r = i + e - 1 /\ r = b.references - 1 /\ r = i + (e - 1) /\ r > 0
      BY <1>0, <1>2
    <2>2. DestroyBox(b) = References(b, r)
      BY <1>0, <1>2, <2>1 DEF DestroyBox, References
    <2>3. /\ DestroyBox(b) \in PromiseBox /\ SameData(b, DestroyBox(b))
          /\ DestroyBox(b).references = r /\ DestroyBox(b).internal = i
      <3>1. Recounted(b, References(b, r), r, b.internal)
        BY <2>1, ReferencesAre
      <3> QED
        BY <1>0, <2>2, <3>1 DEF Recounted
    <2>4. Holds(DestroyBox(b), i, e - 1)
      BY <1>0, <2>1, <2>3 DEF Holds, SameData
    <2> QED
      BY <2>3, <2>4 DEF Trimmed
  <1> QED
    BY <1>1, <1>2

LEMMA ReleaseBoxHolds ==
    ASSUME NEW b \in PromiseBox, NEW i \in Nat, NEW e \in Nat, Holds(b, i, e), i > 0
    PROVE  /\ ReleaseBox(b) \in PromiseBox /\ Holds(ReleaseBox(b), i - 1, e)
           /\ Trimmed(b, ReleaseBox(b))
  <1>0. b.references = i + e /\ b.internal = i /\ (b.live <=> i + e > 0)
    BY DEF Holds
  <1>1. CASE i + e = 1
    <2>1. ReleaseBox(b) = NoBox
      BY <1>0, <1>1 DEF ReleaseBox
    <2>2. i - 1 = 0 /\ e = 0
      BY <1>1
    <2> QED
      BY <2>1, <2>2, NoBoxFacts DEF Trimmed, SameData
  <1>2. CASE i + e # 1
    <2>1. PICK r, n \in Nat : /\ r = b.references - 1 /\ r = i - 1 + e /\ r > 0
                                      /\ n = b.internal - 1 /\ n = i - 1
      BY <1>0, <1>2
    <2>2. ReleaseBox(b) = Counters(b, r, n)
      BY <1>0, <1>2, <2>1 DEF ReleaseBox, Counters
    <2>3. /\ ReleaseBox(b) \in PromiseBox /\ SameData(b, ReleaseBox(b))
          /\ ReleaseBox(b).references = r /\ ReleaseBox(b).internal = n
      <3>1. Recounted(b, Counters(b, r, n), r, n)
        BY <2>1, CountersAre
      <3> QED
        BY <2>2, <3>1 DEF Recounted
    <2>4. Holds(ReleaseBox(b), i - 1, e)
      BY <1>0, <2>1, <2>3 DEF Holds, SameData
    <2> QED
      BY <2>3, <2>4 DEF Trimmed
  <1> QED
    BY <1>1, <1>2

LEMMA RetainBoxHolds ==
    ASSUME NEW b \in PromiseBox, NEW i \in Nat, NEW e \in Nat, Holds(b, i, e), i + e > 0
    PROVE  /\ RetainBox(b) \in PromiseBox /\ Holds(RetainBox(b), i + 1, e)
           /\ SameData(b, RetainBox(b))
  <1>0. b.references = i + e /\ b.internal = i /\ (b.live <=> i + e > 0)
    BY DEF Holds
  <1>1. PICK r, n \in Nat : /\ r = b.references + 1 /\ r = i + 1 + e /\ r > 0
                                    /\ n = b.internal + 1 /\ n = i + 1
    BY <1>0
  <1>2. RetainBox(b) = Counters(b, r, n)
    BY <1>1 DEF RetainBox, Counters
  <1>3. /\ RetainBox(b) \in PromiseBox /\ SameData(b, RetainBox(b))
        /\ RetainBox(b).references = r /\ RetainBox(b).internal = n
    <2>1. Recounted(b, Counters(b, r, n), r, n)
      BY <1>1, CountersAre
    <2> QED
      BY <1>2, <2>1 DEF Recounted
  <1> QED
    BY <1>0, <1>1, <1>3 DEF Holds, SameData

LEMMA TokenBoxHolds ==
    ASSUME NEW b \in PromiseBox, NEW i \in Nat, NEW e \in Nat, Holds(b, i, e), i + e > 0
    PROVE  /\ [b EXCEPT !.references = @ + 1] \in PromiseBox
           /\ Holds([b EXCEPT !.references = @ + 1], i, e + 1)
           /\ SameData(b, [b EXCEPT !.references = @ + 1])
  <1>0. b.references = i + e /\ b.internal = i /\ (b.live <=> i + e > 0)
    BY DEF Holds
  <1>1. PICK r \in Nat : r = b.references + 1 /\ r = i + (e + 1) /\ r > 0
    BY <1>0
  <1> DEFINE c == [b EXCEPT !.references = @ + 1]
  <1>2. c = References(b, r)
    BY <1>1 DEF References
  <1>3. /\ c \in PromiseBox /\ SameData(b, c)
        /\ c.references = r /\ c.internal = i
    <2>1. Recounted(b, References(b, r), r, b.internal)
      BY <1>1, ReferencesAre
    <2> HIDE DEF c
    <2> QED
      BY <1>0, <1>2, <2>1 DEF Recounted
  <1> HIDE DEF c
  <1>4. Holds(c, i, e + 1)
    BY <1>0, <1>1, <1>3 DEF Holds, SameData
  <1> QED
    BY <1>3, <1>4 DEF c

LEMMA SettleBoxHolds ==
    ASSUME NEW b \in PromiseBox, NEW i \in Nat, NEW e \in Nat, Holds(b, i, e), i + e > 0,
           NEW r \in Settlement
    PROVE  /\ SettleBox(b, r) \in PromiseBox /\ Holds(SettleBox(b, r), i, e)
           /\ SettleBox(b, r).live = b.live /\ SettleBox(b, r).handled = b.handled
           /\ SettleBox(b, r).reported = b.reported
           /\ IF b.result = "pending"
              THEN SettleBox(b, r).result = r /\ SettleBox(b, r).subscribers = <<>>
              ELSE SettleBox(b, r) = b
  <1>1. CASE b.result = "pending"
    <2> DEFINE c == [b EXCEPT !.result = r, !.subscribers = <<>>]
    <2>1. SettleBox(b, r) = c
      BY <1>1 DEF SettleBox
    <2>2. <<>> \in Seq(FrameId)
      OBVIOUS
    <2>3. c \in PromiseBox
      BY <2>2 DEF PromiseBox
    <2>4. /\ c.live = b.live /\ c.handled = b.handled /\ c.reported = b.reported
          /\ c.result = r /\ c.subscribers = <<>>
          /\ c.references = b.references /\ c.internal = b.internal
      BY DEF PromiseBox
    <2>5. Holds(c, i, e)
      BY <2>4 DEF Holds
    <2> QED
      BY <1>1, <2>1, <2>3, <2>4, <2>5
  <1>2. CASE b.result # "pending"
    BY <1>2 DEF SettleBox
  <1> QED
    BY <1>1, <1>2

\* Box c is b, handled and with subscriber f; i and e tokens are held on it.
Watched(b, c, f, i, e) ==
    /\ c \in PromiseBox /\ Holds(c, i, e)
    /\ c.live = b.live /\ c.handled = TRUE /\ c.reported = b.reported /\ c.result = b.result
    /\ c.subscribers = IF b.result = "pending" THEN Append(b.subscribers, f) ELSE b.subscribers

LEMMA SubscribeBoxHolds ==
    ASSUME NEW b \in PromiseBox, NEW i \in Nat, NEW e \in Nat, Holds(b, i, e), i + e > 0,
           NEW f \in FrameId
    PROVE  Watched(b, SubscribeBox(b, f), f, i, e)
  <1> DEFINE s == IF b.result = "pending" THEN Append(b.subscribers, f) ELSE b.subscribers
             c == [b EXCEPT !.handled = TRUE, !.subscribers = s]
  <1>1. SubscribeBox(b, f) = c
    BY DEF SubscribeBox
  <1>2. s \in Seq(FrameId)
    <2>1. b.subscribers \in Seq(FrameId)
      BY DEF PromiseBox
    <2> QED
      BY <2>1
  <1> HIDE DEF s
  <1>3. c \in PromiseBox
    BY <1>2 DEF PromiseBox
  <1>4. /\ c.live = b.live /\ c.handled = TRUE /\ c.reported = b.reported
        /\ c.result = b.result /\ c.subscribers = s
        /\ c.references = b.references /\ c.internal = b.internal
    BY DEF PromiseBox
  <1>5. Holds(c, i, e)
    BY <1>4 DEF Holds
  <1> QED
    BY <1>1, <1>3, <1>4, <1>5 DEF s, Watched

-----------------------------------------------------------------------------
(* Operations on the heap.                                                 *)

\* In heap h, I[p] internal and E[p] external tokens are held on each p.
Held(h, I, E) ==
    /\ h \in [Promise -> PromiseBox] /\ I \in [Promise -> Nat] /\ E \in [Promise -> Nat]
    /\ \A p \in Promise : Holds(h[p], I[p], E[p])

Less(F, p) == [F EXCEPT ![p] = @ - 1]
More(F, p) == [F EXCEPT ![p] = @ + 1]

TrimmedHeap(h, k) == \A p \in Promise : Trimmed(h[p], k[p])

LEMMA HeldFacts ==
    ASSUME NEW h, NEW I, NEW E, Held(h, I, E), NEW p \in Promise
    PROVE  /\ h[p] \in PromiseBox /\ I[p] \in Nat /\ E[p] \in Nat /\ Holds(h[p], I[p], E[p])
           /\ h[p].live <=> I[p] + E[p] > 0
           /\ ~h[p].live => h[p] = NoBox /\ I[p] = 0 /\ E[p] = 0
  <1>1. h[p] \in PromiseBox /\ I[p] \in Nat /\ E[p] \in Nat /\ Holds(h[p], I[p], E[p])
    BY DEF Held
  <1> QED
    BY <1>1 DEF Holds

LEMMA OneBox ==
    ASSUME NEW h, NEW I, NEW E, Held(h, I, E), NEW p \in Promise,
           NEW b \in PromiseBox, NEW i \in Nat, NEW e \in Nat, Holds(b, i, e)
    PROVE  Held([h EXCEPT ![p] = b], [I EXCEPT ![p] = i], [E EXCEPT ![p] = e])
  <1>1. /\ [h EXCEPT ![p] = b] \in [Promise -> PromiseBox]
        /\ [I EXCEPT ![p] = i] \in [Promise -> Nat] /\ [E EXCEPT ![p] = e] \in [Promise -> Nat]
    BY DEF Held
  <1>2. ASSUME NEW q \in Promise
        PROVE  Holds([h EXCEPT ![p] = b][q], [I EXCEPT ![p] = i][q], [E EXCEPT ![p] = e][q])
    BY DEF Held
  <1> QED
    BY <1>1, <1>2 DEF Held

LEMMA KeptBox ==
    ASSUME NEW S, NEW F \in [Promise -> S], NEW p \in Promise
    PROVE  [F EXCEPT ![p] = F[p]] = F
  OBVIOUS

LEMMA TrimmedOne ==
    ASSUME NEW h \in [Promise -> PromiseBox], NEW p \in Promise, NEW b, Trimmed(h[p], b)
    PROVE  TrimmedHeap(h, [h EXCEPT ![p] = b])
  BY DEF TrimmedHeap, Trimmed, SameData

LEMMA TrimmedTwice ==
    ASSUME NEW h, NEW k, NEW l, TrimmedHeap(h, k), TrimmedHeap(k, l)
    PROVE  TrimmedHeap(h, l)
  BY DEF TrimmedHeap, Trimmed, SameData

LEMMA HeldDestroy ==
    ASSUME NEW h, NEW I, NEW E, Held(h, I, E), NEW p \in Promise, E[p] > 0
    PROVE  Held(Destroy(h, p), I, Less(E, p)) /\ TrimmedHeap(h, Destroy(h, p))
  <1>1. /\ h \in [Promise -> PromiseBox] /\ I \in [Promise -> Nat] /\ E \in [Promise -> Nat]
        /\ h[p] \in PromiseBox /\ I[p] \in Nat /\ E[p] \in Nat /\ Holds(h[p], I[p], E[p])
    BY HeldFacts DEF Held
  <1>2. /\ DestroyBox(h[p]) \in PromiseBox /\ Holds(DestroyBox(h[p]), I[p], E[p] - 1)
        /\ Trimmed(h[p], DestroyBox(h[p]))
    BY <1>1, DestroyBoxHolds
  <1>3. Destroy(h, p) = [h EXCEPT ![p] = DestroyBox(h[p])]
    BY <1>1, DestroyIs
  <1>4. Held([h EXCEPT ![p] = DestroyBox(h[p])], [I EXCEPT ![p] = I[p]], [E EXCEPT ![p] = E[p] - 1])
    <2>1. E[p] - 1 \in Nat
      BY <1>1
    <2> QED
      BY <1>1, <1>2, <2>1, OneBox
  <1>5. [I EXCEPT ![p] = I[p]] = I /\ Less(E, p) = [E EXCEPT ![p] = E[p] - 1]
    BY <1>1, KeptBox DEF Less
  <1>6. TrimmedHeap(h, Destroy(h, p))
    <2>1. TrimmedHeap(h, [h EXCEPT ![p] = DestroyBox(h[p])])
      BY <1>1, <1>2, TrimmedOne
    <2> QED
      BY <1>3, <2>1
  <1> QED
    BY <1>3, <1>4, <1>5, <1>6

LEMMA HeldRelease ==
    ASSUME NEW h, NEW I, NEW E, Held(h, I, E), NEW p \in Promise, I[p] > 0
    PROVE  Held(Release(h, p), Less(I, p), E) /\ TrimmedHeap(h, Release(h, p))
  <1>1. /\ h \in [Promise -> PromiseBox] /\ I \in [Promise -> Nat] /\ E \in [Promise -> Nat]
        /\ h[p] \in PromiseBox /\ I[p] \in Nat /\ E[p] \in Nat /\ Holds(h[p], I[p], E[p])
    BY HeldFacts DEF Held
  <1>2. /\ ReleaseBox(h[p]) \in PromiseBox /\ Holds(ReleaseBox(h[p]), I[p] - 1, E[p])
        /\ Trimmed(h[p], ReleaseBox(h[p]))
    BY <1>1, ReleaseBoxHolds
  <1>3. Release(h, p) = [h EXCEPT ![p] = ReleaseBox(h[p])]
    BY <1>1, ReleaseIs
  <1>4. Held([h EXCEPT ![p] = ReleaseBox(h[p])], [I EXCEPT ![p] = I[p] - 1], [E EXCEPT ![p] = E[p]])
    <2>1. I[p] - 1 \in Nat
      BY <1>1
    <2> QED
      BY <1>1, <1>2, <2>1, OneBox
  <1>5. [E EXCEPT ![p] = E[p]] = E /\ Less(I, p) = [I EXCEPT ![p] = I[p] - 1]
    BY <1>1, KeptBox DEF Less
  <1>6. TrimmedHeap(h, Release(h, p))
    <2>1. TrimmedHeap(h, [h EXCEPT ![p] = ReleaseBox(h[p])])
      BY <1>1, <1>2, TrimmedOne
    <2> QED
      BY <1>3, <2>1
  <1> QED
    BY <1>3, <1>4, <1>5, <1>6

LEMMA HeldGiveBack ==
    ASSUME NEW h, NEW I, NEW E, Held(h, I, E), NEW box, box.input \in Promise,
           box.output \in Promise, E[box.input] > 0, I[box.output] > 0
    PROVE  /\ Held(GiveBack(h, box), Less(I, box.output), Less(E, box.input))
           /\ TrimmedHeap(h, GiveBack(h, box))
  <1>1. /\ Held(Destroy(h, box.input), I, Less(E, box.input))
        /\ TrimmedHeap(h, Destroy(h, box.input))
    BY HeldDestroy
  <1>2. /\ Held(GiveBack(h, box), Less(I, box.output), Less(E, box.input))
        /\ TrimmedHeap(Destroy(h, box.input), GiveBack(h, box))
    BY <1>1, HeldRelease DEF GiveBack
  <1> QED
    BY <1>1, <1>2, TrimmedTwice

\* Nothing but counters differs.
SameHeap(h, k) == \A p \in Promise : SameData(h[p], k[p])

LEMMA HeldRetain ==
    ASSUME NEW h, NEW I, NEW E, Held(h, I, E), NEW p \in Promise, h[p].live
    PROVE  Held(RetainInternal(h, p), More(I, p), E) /\ SameHeap(h, RetainInternal(h, p))
  <1>1. /\ h \in [Promise -> PromiseBox] /\ I \in [Promise -> Nat] /\ E \in [Promise -> Nat]
        /\ h[p] \in PromiseBox /\ I[p] \in Nat /\ E[p] \in Nat /\ Holds(h[p], I[p], E[p])
        /\ I[p] + E[p] > 0
    BY HeldFacts DEF Held
  <1>2. /\ RetainBox(h[p]) \in PromiseBox /\ Holds(RetainBox(h[p]), I[p] + 1, E[p])
        /\ SameData(h[p], RetainBox(h[p]))
    BY <1>1, RetainBoxHolds
  <1>3. RetainInternal(h, p) = [h EXCEPT ![p] = RetainBox(h[p])]
    BY <1>1, RetainIs
  <1>4. Held([h EXCEPT ![p] = RetainBox(h[p])], [I EXCEPT ![p] = I[p] + 1], [E EXCEPT ![p] = E[p]])
    <2>1. I[p] + 1 \in Nat
      BY <1>1
    <2> QED
      BY <1>1, <1>2, <2>1, OneBox
  <1>5. [E EXCEPT ![p] = E[p]] = E /\ More(I, p) = [I EXCEPT ![p] = I[p] + 1]
    BY <1>1, KeptBox DEF More
  <1>6. SameHeap(h, [h EXCEPT ![p] = RetainBox(h[p])])
    BY <1>1, <1>2 DEF SameHeap, SameData
  <1> QED
    BY <1>3, <1>4, <1>5, <1>6

LEMMA HeldToken ==
    ASSUME NEW h, NEW I, NEW E, Held(h, I, E), NEW p \in Promise, h[p].live
    PROVE  /\ Held([h EXCEPT ![p].references = @ + 1], I, More(E, p))
           /\ SameHeap(h, [h EXCEPT ![p].references = @ + 1])
  <1> DEFINE b == [h[p] EXCEPT !.references = @ + 1]
  <1>1. /\ h \in [Promise -> PromiseBox] /\ I \in [Promise -> Nat] /\ E \in [Promise -> Nat]
        /\ h[p] \in PromiseBox /\ I[p] \in Nat /\ E[p] \in Nat /\ Holds(h[p], I[p], E[p])
        /\ I[p] + E[p] > 0
    BY HeldFacts DEF Held
  <1>2. /\ b \in PromiseBox /\ Holds(b, I[p], E[p] + 1)
        /\ SameData(h[p], b)
    BY <1>1, TokenBoxHolds
  <1>3. [h EXCEPT ![p].references = @ + 1] = [h EXCEPT ![p] = b]
    BY <1>1
  <1> HIDE DEF b
  <1>4. Held([h EXCEPT ![p] = b], [I EXCEPT ![p] = I[p]], [E EXCEPT ![p] = E[p] + 1])
    <2>1. E[p] + 1 \in Nat
      BY <1>1
    <2> QED
      BY <1>1, <1>2, <2>1, OneBox
  <1>5. [I EXCEPT ![p] = I[p]] = I /\ More(E, p) = [E EXCEPT ![p] = E[p] + 1]
    BY <1>1, KeptBox DEF More
  <1>6. SameHeap(h, [h EXCEPT ![p] = b])
    BY <1>1, <1>2 DEF SameHeap, SameData
  <1> QED
    BY <1>3, <1>4, <1>5, <1>6

\* In k, the box of p is settled, as r unless it was before.
Settled(h, k, p, r) ==
    /\ \A q \in Promise : q # p => k[q] = h[q]
    /\ k[p].live = h[p].live /\ k[p].handled = h[p].handled /\ k[p].reported = h[p].reported
    /\ IF Pending(h, p) THEN k[p].result = r /\ k[p].subscribers = <<>> ELSE k = h

LEMMA HeldSettle ==
    ASSUME NEW h, NEW I, NEW E, Held(h, I, E), NEW p \in Promise, h[p].live,
           NEW r \in Settlement
    PROVE  Held(Settle(h, p, r), I, E) /\ Settled(h, Settle(h, p, r), p, r)
  <1> DEFINE b == SettleBox(h[p], r)
  <1>1. /\ h \in [Promise -> PromiseBox] /\ I \in [Promise -> Nat] /\ E \in [Promise -> Nat]
        /\ h[p] \in PromiseBox /\ I[p] \in Nat /\ E[p] \in Nat /\ Holds(h[p], I[p], E[p])
        /\ I[p] + E[p] > 0
    BY HeldFacts DEF Held
  <1>2. /\ b \in PromiseBox /\ Holds(b, I[p], E[p])
        /\ b.live = h[p].live /\ b.handled = h[p].handled /\ b.reported = h[p].reported
        /\ IF h[p].result = "pending" THEN b.result = r /\ b.subscribers = <<>> ELSE b = h[p]
    BY <1>1, SettleBoxHolds
  <1>3. Settle(h, p, r) = [h EXCEPT ![p] = b]
    BY <1>1, SettleIs
  <1> HIDE DEF b
  <1>4. Held([h EXCEPT ![p] = b], [I EXCEPT ![p] = I[p]], [E EXCEPT ![p] = E[p]])
    BY <1>1, <1>2, OneBox
  <1>5. [I EXCEPT ![p] = I[p]] = I /\ [E EXCEPT ![p] = E[p]] = E /\ [h EXCEPT ![p] = h[p]] = h
    BY <1>1, KeptBox
  <1>6. [h EXCEPT ![p] = b][p] = b /\ \A q \in Promise : q # p => [h EXCEPT ![p] = b][q] = h[q]
    BY <1>1
  <1>7. Held(Settle(h, p, r), I, E)
    BY <1>3, <1>4, <1>5
  <1>8. CASE h[p].result = "pending"
    BY <1>2, <1>3, <1>6, <1>7, <1>8 DEF Pending, Settled
  <1>9. CASE h[p].result # "pending"
    <2>1. b = h[p]
      BY <1>2, <1>9
    <2>2. Settle(h, p, r) = h
      BY <1>3, <1>5, <2>1
    <2> QED
      BY <1>7, <1>9, <2>2 DEF Pending, Settled
  <1> QED
    BY <1>8, <1>9

\* In k, frame f observes the box of p as well.
Observed(h, k, p, f) ==
    /\ \A q \in Promise : q # p => k[q] = h[q]
    /\ k[p].live = h[p].live /\ k[p].result = h[p].result
    /\ k[p].reported = h[p].reported /\ k[p].handled = TRUE
    /\ k[p].subscribers = IF Pending(h, p) THEN Append(h[p].subscribers, f)
                          ELSE h[p].subscribers

LEMMA HeldSubscribe ==
    ASSUME NEW h, NEW I, NEW E, Held(h, I, E), NEW p \in Promise, h[p].live,
           NEW f \in FrameId
    PROVE  Held(Subscribed(h, p, f), I, E) /\ Observed(h, Subscribed(h, p, f), p, f)
  <1> DEFINE b == SubscribeBox(h[p], f)
  <1>1. /\ h \in [Promise -> PromiseBox] /\ I \in [Promise -> Nat] /\ E \in [Promise -> Nat]
        /\ h[p] \in PromiseBox /\ I[p] \in Nat /\ E[p] \in Nat /\ Holds(h[p], I[p], E[p])
        /\ I[p] + E[p] > 0
    BY HeldFacts DEF Held
  <1>2. /\ b \in PromiseBox /\ Holds(b, I[p], E[p])
        /\ b.live = h[p].live /\ b.handled = TRUE /\ b.reported = h[p].reported
        /\ b.result = h[p].result
        /\ b.subscribers = IF h[p].result = "pending"
                           THEN Append(h[p].subscribers, f) ELSE h[p].subscribers
    <2>1. Watched(h[p], SubscribeBox(h[p], f), f, I[p], E[p])
      BY <1>1, SubscribeBoxHolds
    <2> QED
      BY <2>1 DEF Watched
  <1>3. Subscribed(h, p, f) = [h EXCEPT ![p] = b]
    BY <1>1, SubscribeIs
  <1> HIDE DEF b
  <1>4. Held([h EXCEPT ![p] = b], [I EXCEPT ![p] = I[p]], [E EXCEPT ![p] = E[p]])
    BY <1>1, <1>2, OneBox
  <1>5. [I EXCEPT ![p] = I[p]] = I /\ [E EXCEPT ![p] = E[p]] = E
    BY <1>1, KeptBox
  <1>6. [h EXCEPT ![p] = b][p] = b /\ \A q \in Promise : q # p => [h EXCEPT ![p] = b][q] = h[q]
    BY <1>1
  <1> QED
    BY <1>2, <1>3, <1>4, <1>5, <1>6 DEF Pending, Observed

-----------------------------------------------------------------------------
(* Counting.                                                               *)

LEMMA OneDiffers ==
    ASSUME NEW D, IsFiniteSet(D), NEW A, A \subseteq D, NEW B, B \subseteq D, NEW d \in D,
           \A c \in D : c # d => (c \in A <=> c \in B)
    PROVE  /\ Cardinality(A) \in Nat /\ Cardinality(B) \in Nat
           /\ Cardinality(B) = Cardinality(A) + (IF d \in B THEN 1 ELSE 0)
                                               - (IF d \in A THEN 1 ELSE 0)
           /\ d \in A => Cardinality(A) > 0
  <1>1. /\ IsFiniteSet(A) /\ IsFiniteSet(B)
        /\ Cardinality(A) \in Nat /\ Cardinality(B) \in Nat
    BY FS_Subset, FS_CardinalityType
  <1>2. ASSUME d \in A <=> d \in B
        PROVE  Cardinality(B) = Cardinality(A)
    <2>1. A = B
      BY <1>2
    <2> QED
      BY <2>1
  <1>3. ASSUME d \in A, d \notin B
        PROVE  Cardinality(B) = Cardinality(A) - 1
    <2>1. B = A \ {d}
      BY <1>3
    <2>2. Cardinality(A \ {d}) = Cardinality(A) - 1
      BY <1>1, <1>3, FS_RemoveElement
    <2> QED
      BY <2>1, <2>2
  <1>4. ASSUME d \notin A, d \in B
        PROVE  Cardinality(B) = Cardinality(A) + 1
    <2>1. B = A \cup {d}
      BY <1>4
    <2>2. Cardinality(A \cup {d}) = Cardinality(A) + 1
      BY <1>1, <1>4, FS_AddElement
    <2> QED
      BY <2>1, <2>2
  <1>5. d \in A => Cardinality(A) > 0
    <2>1. d \in A => Cardinality(A) # 0
      BY <1>1, FS_EmptySet
    <2> QED
      BY <1>1, <2>1
  <1> QED
    BY <1>1, <1>2, <1>3, <1>4, <1>5

LEMMA SomeOrNone ==
    ASSUME NEW A, IsFiniteSet(A)
    PROVE  /\ Cardinality(A) \in Nat
           /\ Cardinality(A) = 0 <=> A = {}
           /\ Cardinality(A) > 0 <=> \E x : x \in A
  <1>1. Cardinality(A) \in Nat /\ (Cardinality(A) = 0 <=> A = {})
    BY FS_CardinalityType, FS_EmptySet
  <1> QED
    BY <1>1

LEMMA Shifted ==
    ASSUME NEW A, NEW B, NEW m \in Nat, IsFiniteSet(A), A \subseteq Nat,
           B = {i + m : i \in A}
    PROVE  IsFiniteSet(B) /\ Cardinality(B) = Cardinality(A)
  <1> DEFINE g == [i \in A |-> i + m]
  <1>1. g \in Injection(A, B)
    <2>1. g \in [A -> B]
      OBVIOUS
    <2>2. \A i, k \in A : g[i] = g[k] => i = k
      <3> SUFFICES ASSUME NEW i \in A, NEW k \in A, i + m = k + m
                   PROVE  i = k
        OBVIOUS
      <3>1. i \in Nat /\ k \in Nat
        OBVIOUS
      <3> QED
        BY <3>1
    <2>3. DOMAIN g = A
      OBVIOUS
    <2> HIDE DEF g
    <2> QED
      BY <2>1, <2>2, <2>3 DEF Injection, IsInjective
  <1>2. g \in Surjection(A, B)
    BY DEF Surjection
  <1>3. ExistsBijection(A, B)
    BY <1>1, <1>2 DEF ExistsBijection, Bijection
  <1> QED
    BY <1>3, FS_Bijection

LEMMA CountType ==
    ASSUME NEW s, Len(s) \in Nat, NEW f
    PROVE  /\ Count(s, f) \in Nat
           /\ Count(s, f) > 0 <=> \E i \in 1..Len(s) : s[i] = f
           /\ IsFiniteSet({i \in 1..Len(s) : s[i] = f})
  <1> DEFINE A == {i \in 1..Len(s) : s[i] = f}
  <1>1. IsFiniteSet(1..Len(s))
    BY FS_Interval
  <1>2. IsFiniteSet(A)
    <2>1. A \in SUBSET (1..Len(s))
      OBVIOUS
    <2> QED
      BY <1>1, <2>1, FS_Subset
  <1>3. Cardinality(A) \in Nat /\ (Cardinality(A) > 0 <=> \E x : x \in A)
    <2> HIDE DEF A
    <2> QED
      BY <1>2, SomeOrNone
  <1> QED
    BY <1>2, <1>3 DEF Count

LEMMA CountConcat ==
    ASSUME NEW S, NEW s \in Seq(S), NEW t \in Seq(S), NEW f
    PROVE  Count(s \o t, f) = Count(s, f) + Count(t, f)
  <1> DEFINE m == Len(s)
             n == Len(t)
             u == s \o t
             A == {i \in 1..m : s[i] = f}
             B == {i \in 1..n : t[i] = f}
             C == {i + m : i \in B}
  <1>1. /\ m \in Nat /\ n \in Nat /\ Len(u) = m + n
        /\ \A i \in 1..m : u[i] = s[i]
        /\ \A i \in 1..n : u[i + m] = t[i]
    OBVIOUS
  <1>2. /\ IsFiniteSet(A) /\ IsFiniteSet(B)
        /\ Cardinality(A) \in Nat /\ Cardinality(B) \in Nat
        /\ Cardinality(A) = Count(s, f) /\ Cardinality(B) = Count(t, f)
    BY <1>1, CountType DEF Count
  <1>3. IsFiniteSet(C) /\ Cardinality(C) = Cardinality(B)
    <2>1. B \subseteq Nat
      BY <1>1
    <2> HIDE DEF B, m
    <2> QED
      BY <1>1, <1>2, <2>1, Shifted
  <1>4. {i \in 1..Len(u) : u[i] = f} = A \cup C
    <2>1. ASSUME NEW i \in 1..Len(u), u[i] = f
          PROVE  i \in A \cup C
      <3>1. CASE i <= m
        BY <1>1, <2>1, <3>1
      <3>2. CASE i > m
        <4>1. PICK k \in 1..n : i = k + m
          <5>1. i - m \in 1..n /\ i = (i - m) + m
            BY <1>1, <2>1, <3>2
          <5> QED
            BY <5>1
        <4>2. t[k] = f
          BY <1>1, <2>1, <4>1
        <4> QED
          BY <4>1, <4>2
      <3> HIDE DEF A, C, m
      <3> QED
        BY <1>1, <2>1, <3>1, <3>2
    <2>2. ASSUME NEW i \in A
          PROVE  i \in 1..Len(u) /\ u[i] = f
      BY <1>1, <2>2
    <2>3. ASSUME NEW i \in C
          PROVE  i \in 1..Len(u) /\ u[i] = f
      <3>1. PICK k \in 1..n : i = k + m /\ t[k] = f
        BY <2>3
      <3> QED
        BY <1>1, <3>1
    <2> HIDE DEF A, C, u
    <2> QED
      BY <2>1, <2>2, <2>3
  <1>5. A \cap C = {}
    BY <1>1
  <1> HIDE DEF A, B, C, m, n, u
  <1>6. Cardinality(A \cup C) = Cardinality(A) + Cardinality(C) - Cardinality(A \cap C)
    BY <1>2, <1>3, FS_Union
  <1>7. Cardinality(A \cap C) = 0
    BY <1>5, FS_EmptySet
  <1>8. Count(u, f) = Cardinality(A \cup C)
    BY <1>4 DEF Count
  <1> QED
    BY <1>2, <1>3, <1>6, <1>7, <1>8 DEF u

LEMMA CountSmall ==
    ASSUME NEW f, NEW g
    PROVE  Count(<<>>, f) = 0 /\ Count(<<g>>, f) = IF f = g THEN 1 ELSE 0
  <1>1. {i \in 1..Len(<<>>) : <<>>[i] = f} = {}
    OBVIOUS
  <1>2. CASE f = g
    <2>1. {i \in 1..Len(<<g>>) : <<g>>[i] = f} = {1}
      BY <1>2
    <2> QED
      BY <1>1, <1>2, <2>1, FS_EmptySet, FS_Singleton DEF Count
  <1>3. CASE f # g
    <2>1. {i \in 1..Len(<<g>>) : <<g>>[i] = f} = {}
      BY <1>3
    <2> QED
      BY <1>1, <1>3, <2>1, FS_EmptySet DEF Count
  <1> QED
    BY <1>2, <1>3

LEMMA CountAppend ==
    ASSUME NEW S, NEW s \in Seq(S), NEW g \in S, NEW f
    PROVE  Count(Append(s, g), f) = Count(s, f) + (IF f = g THEN 1 ELSE 0)
  <1>1. Append(s, g) = s \o <<g>> /\ <<g>> \in Seq(S)
    OBVIOUS
  <1>2. Count(s \o <<g>>, f) = Count(s, f) + Count(<<g>>, f)
    BY <1>1, CountConcat
  <1> QED
    BY <1>1, <1>2, CountSmall

LEMMA CountTail ==
    ASSUME NEW S, NEW s \in Seq(S), s # <<>>, NEW f
    PROVE  /\ Head(s) \in S /\ Tail(s) \in Seq(S) /\ Len(s) > 0 /\ Head(s) = s[1]
           /\ Len(Tail(s)) = Len(s) - 1
           /\ \A i \in 1..(Len(s) - 1) : Tail(s)[i] = s[i + 1]
           /\ Count(s, f) = Count(Tail(s), f) + (IF f = Head(s) THEN 1 ELSE 0)
  <1>1. /\ Head(s) \in S /\ Tail(s) \in Seq(S) /\ Len(s) > 0 /\ Head(s) = s[1]
        /\ Len(Tail(s)) = Len(s) - 1
        /\ \A i \in 1..(Len(s) - 1) : Tail(s)[i] = s[i + 1]
    OBVIOUS
  <1> DEFINE x == Head(s)
             t == Tail(s)
  <1>2. s = <<x>> \o t /\ <<x>> \in Seq(S) /\ t \in Seq(S) /\ Len(t) \in Nat
    OBVIOUS
  <1> HIDE DEF x, t
  <1>3. Count(<<x>> \o t, f) = Count(<<x>>, f) + Count(t, f)
    BY <1>2, CountConcat
  <1>4. Count(t, f) \in Nat
    BY <1>2, CountType
  <1>5. Count(<<x>>, f) = IF f = x THEN 1 ELSE 0
    BY CountSmall
  <1>6. Count(s, f) = Count(<<x>> \o t, f)
    BY <1>2
  <1>7. Count(s, f) = Count(t, f) + (IF f = x THEN 1 ELSE 0)
    BY <1>3, <1>4, <1>5, <1>6
  <1> QED
    BY <1>1, <1>7 DEF x, t

LEMMA CountButLast ==
    ASSUME NEW S, NEW s \in Seq(S), s # <<>>, NEW f
    PROVE  LET t == SubSeq(s, 1, Len(s) - 1)
           IN  /\ s[Len(s)] \in S /\ t \in Seq(S) /\ Len(s) > 0
               /\ Len(t) = Len(s) - 1
               /\ \A i \in 1..(Len(s) - 1) : t[i] = s[i]
               /\ Count(s, f) = Count(t, f) + (IF f = s[Len(s)] THEN 1 ELSE 0)
  <1> DEFINE t == SubSeq(s, 1, Len(s) - 1)
             x == s[Len(s)]
  <1>1. Len(s) \in Nat \ {0} /\ Len(s) \in Nat /\ Len(s) > 0
    OBVIOUS
  <1>2. x \in S
    BY <1>1, ElementOfSeq
  <1>3. \A i \in 1..(Len(s) - 1) : s[i] \in S
    BY <1>1, ElementOfSeq
  <1>4. /\ t \in Seq(S)
        /\ Len(t) = IF 1 <= Len(s) - 1 THEN Len(s) - 1 - 1 + 1 ELSE 0
        /\ \A i \in 1..(Len(s) - 1 - 1 + 1) : t[i] = s[1 + i - 1]
    BY <1>1, <1>3, SubSeqProperties
  <1>5. \A n \in Nat \ {0} : /\ (IF 1 <= n - 1 THEN n - 1 - 1 + 1 ELSE 0) = n - 1
                             /\ n - 1 - 1 + 1 = n - 1
    OBVIOUS
  <1> HIDE DEF t
  <1>6. Len(t) = Len(s) - 1
    BY <1>1, <1>4, <1>5
  <1>7. \A i \in 1..(Len(s) - 1) : t[i] = s[i]
    BY <1>1, <1>4, <1>5
  <1>8. s = Append(t, x)
    <2>1. /\ Append(t, x) \in Seq(S) /\ Len(Append(t, x)) = Len(s)
          /\ \A i \in 1..Len(s) : Append(t, x)[i] = s[i]
      BY <1>1, <1>2, <1>4, <1>6, <1>7
    <2> QED
      BY <2>1, SeqEqual
  <1>9. Count(Append(t, x), f) = Count(t, f) + (IF f = x THEN 1 ELSE 0)
    BY <1>2, <1>4, CountAppend
  <1> QED
    BY <1>1, <1>2, <1>4, <1>6, <1>7, <1>8, <1>9 DEF t

-----------------------------------------------------------------------------
(* Tokens by their holders.                                                *)

Consuming(fr, p) == {f \in FrameId : fr[f].input = p}
Settling(fr, p)  == {f \in FrameId : fr[f].output = p}
Joining(jn, p)   == {j \in JoinId : jn[j].output = p}
Storing(sl, p)   == {s \in Slots : sl[s] = p}

InternalOf(fr, jn, sl) ==
    [p \in Promise |-> Cardinality(Settling(fr, p)) + Cardinality(Joining(jn, p))
                       + Cardinality(Storing(sl, p))]

ExternalOf(fr, ow) == [p \in Promise |-> ow[p] + Cardinality(Consuming(fr, p))]

LEMMA Domains ==
    /\ IsFiniteSet(Promise) /\ IsFiniteSet(FrameId) /\ IsFiniteSet(JoinId) /\ IsFiniteSet(Slots)
    /\ Promise \subseteq Nat /\ FrameId \subseteq Nat /\ JoinId \subseteq Nat
    /\ Null \notin Promise /\ Null \notin FrameId /\ Null \notin JoinId
    /\ MaxPromises \in Nat /\ MaxFrames \in Nat /\ MaxJoins \in Nat
    /\ MaxTokens \in Nat /\ MaxDepth \in Nat /\ MaxPurges \in Nat
  <1>1. /\ MaxPromises \in Nat /\ MaxFrames \in Nat /\ MaxJoins \in Nat /\ IsFiniteSet(Slots)
        /\ MaxTokens \in Nat /\ MaxDepth \in Nat /\ MaxPurges \in Nat
    BY BoundsAssumption
  <1>2. /\ IsFiniteSet(1..MaxPromises) /\ IsFiniteSet(1..MaxFrames) /\ IsFiniteSet(1..MaxJoins)
    BY <1>1, FS_Interval
  <1> QED
    BY <1>1, <1>2 DEF Promise, FrameId, JoinId, Null

LEMMA HolderTypes ==
    ASSUME NEW fr, NEW jn, NEW sl, NEW ow \in [Promise -> Nat], NEW p \in Promise
    PROVE  /\ Cardinality(Consuming(fr, p)) \in Nat /\ Cardinality(Settling(fr, p)) \in Nat
           /\ Cardinality(Joining(jn, p)) \in Nat /\ Cardinality(Storing(sl, p)) \in Nat
           /\ InternalOf(fr, jn, sl) \in [Promise -> Nat]
           /\ ExternalOf(fr, ow) \in [Promise -> Nat]
  <1>1. ASSUME NEW q \in Promise
        PROVE  /\ Cardinality(Consuming(fr, q)) \in Nat /\ Cardinality(Settling(fr, q)) \in Nat
               /\ Cardinality(Joining(jn, q)) \in Nat /\ Cardinality(Storing(sl, q)) \in Nat
    <2>1. /\ Consuming(fr, q) \in SUBSET FrameId /\ Settling(fr, q) \in SUBSET FrameId
          /\ Joining(jn, q) \in SUBSET JoinId /\ Storing(sl, q) \in SUBSET Slots
      BY DEF Consuming, Settling, Joining, Storing
    <2>2. /\ IsFiniteSet(Consuming(fr, q)) /\ IsFiniteSet(Settling(fr, q))
          /\ IsFiniteSet(Joining(jn, q)) /\ IsFiniteSet(Storing(sl, q))
      BY <2>1, Domains, FS_Subset
    <2> QED
      BY <2>2, FS_CardinalityType
  <1>2. InternalOf(fr, jn, sl) \in [Promise -> Nat]
    BY <1>1 DEF InternalOf
  <1>3. ExternalOf(fr, ow) \in [Promise -> Nat]
    BY <1>1 DEF ExternalOf
  <1> QED
    BY <1>1, <1>2, <1>3

\* One frame changes.
Recount(fr, g, f, p) ==
    /\ Cardinality(Consuming(fr, p)) \in Nat /\ Cardinality(Consuming(g, p)) \in Nat
    /\ Cardinality(Consuming(g, p)) = Cardinality(Consuming(fr, p))
          + (IF g[f].input = p THEN 1 ELSE 0) - (IF fr[f].input = p THEN 1 ELSE 0)
    /\ fr[f].input = p => Cardinality(Consuming(fr, p)) > 0
    /\ Cardinality(Settling(fr, p)) \in Nat /\ Cardinality(Settling(g, p)) \in Nat
    /\ Cardinality(Settling(g, p)) = Cardinality(Settling(fr, p))
          + (IF g[f].output = p THEN 1 ELSE 0) - (IF fr[f].output = p THEN 1 ELSE 0)
    /\ fr[f].output = p => Cardinality(Settling(fr, p)) > 0

LEMMA OneFrame ==
    ASSUME NEW fr, NEW g, NEW f \in FrameId,
           \A c \in FrameId : c # f => g[c] = fr[c], NEW p \in Promise
    PROVE  Recount(fr, g, f, p)
  <1> DEFINE A == Consuming(fr, p)
             B == Consuming(g, p)
             C == Settling(fr, p)
             D == Settling(g, p)
  <1>1. /\ A \subseteq FrameId /\ B \subseteq FrameId
        /\ C \subseteq FrameId /\ D \subseteq FrameId
        /\ \A c \in FrameId : c # f => (c \in A <=> c \in B) /\ (c \in C <=> c \in D)
        /\ f \in A <=> fr[f].input = p
        /\ f \in B <=> g[f].input = p
        /\ f \in C <=> fr[f].output = p
        /\ f \in D <=> g[f].output = p
    BY DEF Consuming, Settling
  <1> HIDE DEF A, B, C, D
  <1>2. IsFiniteSet(FrameId)
    BY Domains
  <1>3. /\ Cardinality(A) \in Nat /\ Cardinality(B) \in Nat
        /\ Cardinality(B) = Cardinality(A) + (IF f \in B THEN 1 ELSE 0) - (IF f \in A THEN 1 ELSE 0)
        /\ f \in A => Cardinality(A) > 0
    BY <1>1, <1>2, OneDiffers
  <1>4. /\ Cardinality(C) \in Nat /\ Cardinality(D) \in Nat
        /\ Cardinality(D) = Cardinality(C) + (IF f \in D THEN 1 ELSE 0) - (IF f \in C THEN 1 ELSE 0)
        /\ f \in C => Cardinality(C) > 0
    BY <1>1, <1>2, OneDiffers
  <1> QED
    BY <1>1, <1>3, <1>4 DEF A, B, C, D, Recount

\* What a frame that ends held is given back.
GoneTokens(fr, g, a, o, jn, sl, ow) ==
    /\ ExternalOf(fr, ow)[a] > 0 /\ ExternalOf(g, ow) = Less(ExternalOf(fr, ow), a)
    /\ o \in Promise => /\ InternalOf(fr, jn, sl)[o] > 0
                        /\ InternalOf(g, jn, sl) = Less(InternalOf(fr, jn, sl), o)
    /\ o \notin Promise => InternalOf(g, jn, sl) = InternalOf(fr, jn, sl)

LEMMA FrameGone ==
    ASSUME NEW fr \in [FrameId -> FrameBox], NEW f \in FrameId, fr[f].input \in Promise,
           NEW jn, NEW sl, NEW ow \in [Promise -> Nat]
    PROVE  GoneTokens(fr, [fr EXCEPT ![f] = NoFrame], fr[f].input, fr[f].output, jn, sl, ow)
  <1> DEFINE g == [fr EXCEPT ![f] = NoFrame]
             I == InternalOf(fr, jn, sl)
             E == ExternalOf(fr, ow)
             a == fr[f].input
             o == fr[f].output
  <1>0. I \in [Promise -> Nat] /\ E \in [Promise -> Nat]
    BY HolderTypes
  <1>1. /\ \A c \in FrameId : c # f => g[c] = fr[c]
        /\ g[f].input = Null /\ g[f].output = Null /\ Null \notin Promise
    BY Domains DEF NoFrame
  <1> HIDE DEF g
  <1>2. ASSUME NEW p \in Promise
        PROVE  /\ p = a => E[p] > 0
               /\ ExternalOf(g, ow)[p] = IF p = a THEN E[p] - 1 ELSE E[p]
               /\ p = o => I[p] > 0
               /\ InternalOf(g, jn, sl)[p] = IF p = o THEN I[p] - 1 ELSE I[p]
    <2>1. Recount(fr, g, f, p)
      BY <1>1, OneFrame
    <2>2. ow[p] \in Nat /\ Cardinality(Joining(jn, p)) \in Nat /\ Cardinality(Storing(sl, p)) \in Nat
      BY HolderTypes
    <2>3. /\ E[p] = ow[p] + Cardinality(Consuming(fr, p))
          /\ ExternalOf(g, ow)[p] = ow[p] + Cardinality(Consuming(g, p))
          /\ I[p] = Cardinality(Settling(fr, p)) + Cardinality(Joining(jn, p))
                    + Cardinality(Storing(sl, p))
          /\ InternalOf(g, jn, sl)[p] = Cardinality(Settling(g, p)) + Cardinality(Joining(jn, p))
                    + Cardinality(Storing(sl, p))
      BY DEF ExternalOf, InternalOf
    <2> HIDE DEF E, I
    <2> QED
      BY <1>1, <2>1, <2>2, <2>3 DEF Recount
  <1>3. /\ ExternalOf(g, ow) = [p \in Promise |-> ExternalOf(g, ow)[p]]
        /\ InternalOf(g, jn, sl) = [p \in Promise |-> InternalOf(g, jn, sl)[p]]
    BY DEF ExternalOf, InternalOf
  <1> HIDE DEF E, I, a, o
  <1>4. ExternalOf(g, ow) = Less(E, a)
    BY <1>0, <1>2, <1>3 DEF Less
  <1>5. o \in Promise => InternalOf(g, jn, sl) = Less(I, o)
    BY <1>0, <1>2, <1>3 DEF Less
  <1>6. o \notin Promise => InternalOf(g, jn, sl) = I
    BY <1>0, <1>2, <1>3
  <1>7. E[a] > 0 /\ (o \in Promise => I[o] > 0)
    BY <1>2 DEF a
  <1> QED
    BY <1>4, <1>5, <1>6, <1>7 DEF g, E, I, a, o, GoneTokens

\* A frame that is made takes its tokens.
MadeTokens(fr, g, a, o, jn, sl, ow) ==
    /\ ExternalOf(g, ow) = More(ExternalOf(fr, ow), a)
    /\ o \in Promise => InternalOf(g, jn, sl) = More(InternalOf(fr, jn, sl), o)
    /\ o \notin Promise => InternalOf(g, jn, sl) = InternalOf(fr, jn, sl)

LEMMA FrameMade ==
    ASSUME NEW fr \in [FrameId -> FrameBox], NEW f \in FrameId, fr[f] = NoFrame,
           NEW box, box.input \in Promise, box.output \in Promise \cup {Null},
           NEW jn, NEW sl, NEW ow \in [Promise -> Nat]
    PROVE  MadeTokens(fr, [fr EXCEPT ![f] = box], box.input, box.output, jn, sl, ow)
  <1> DEFINE g == [fr EXCEPT ![f] = box]
             I == InternalOf(fr, jn, sl)
             E == ExternalOf(fr, ow)
             a == box.input
             o == box.output
  <1>0. I \in [Promise -> Nat] /\ E \in [Promise -> Nat]
    BY HolderTypes
  <1>1. /\ \A c \in FrameId : c # f => g[c] = fr[c]
        /\ g[f].input = a /\ g[f].output = o
        /\ fr[f].input = Null /\ fr[f].output = Null /\ Null \notin Promise
    BY Domains DEF NoFrame
  <1> HIDE DEF g
  <1>2. ASSUME NEW p \in Promise
        PROVE  /\ ExternalOf(g, ow)[p] = IF p = a THEN E[p] + 1 ELSE E[p]
               /\ InternalOf(g, jn, sl)[p] = IF p = o THEN I[p] + 1 ELSE I[p]
    <2>1. Recount(fr, g, f, p)
      BY <1>1, OneFrame
    <2>2. ow[p] \in Nat /\ Cardinality(Joining(jn, p)) \in Nat /\ Cardinality(Storing(sl, p)) \in Nat
      BY HolderTypes
    <2>3. /\ E[p] = ow[p] + Cardinality(Consuming(fr, p))
          /\ ExternalOf(g, ow)[p] = ow[p] + Cardinality(Consuming(g, p))
          /\ I[p] = Cardinality(Settling(fr, p)) + Cardinality(Joining(jn, p))
                    + Cardinality(Storing(sl, p))
          /\ InternalOf(g, jn, sl)[p] = Cardinality(Settling(g, p)) + Cardinality(Joining(jn, p))
                    + Cardinality(Storing(sl, p))
      BY DEF ExternalOf, InternalOf
    <2> HIDE DEF E, I
    <2> QED
      BY <1>1, <2>1, <2>2, <2>3 DEF Recount
  <1>3. /\ ExternalOf(g, ow) = [p \in Promise |-> ExternalOf(g, ow)[p]]
        /\ InternalOf(g, jn, sl) = [p \in Promise |-> InternalOf(g, jn, sl)[p]]
    BY DEF ExternalOf, InternalOf
  <1> HIDE DEF E, I, a, o
  <1>4. ExternalOf(g, ow) = More(E, a)
    BY <1>0, <1>2, <1>3 DEF More
  <1>5. o \in Promise => InternalOf(g, jn, sl) = More(I, o)
    BY <1>0, <1>2, <1>3 DEF More
  <1>6. o \notin Promise => InternalOf(g, jn, sl) = I
    BY <1>0, <1>2, <1>3
  <1> QED
    BY <1>4, <1>5, <1>6 DEF g, E, I, a, o, MadeTokens

\* Tokens of compiled code.
LEMMA OwnedChanges ==
    ASSUME NEW fr, NEW ow \in [Promise -> Nat], NEW p \in Promise
    PROVE  /\ ow[p] > 0 => /\ ExternalOf(fr, ow)[p] > 0
                           /\ Less(ow, p) \in [Promise -> Nat]
                           /\ ExternalOf(fr, Less(ow, p)) = Less(ExternalOf(fr, ow), p)
           /\ More(ow, p) \in [Promise -> Nat]
           /\ ExternalOf(fr, More(ow, p)) = More(ExternalOf(fr, ow), p)
  <1> DEFINE E == ExternalOf(fr, ow)
             n(q) == Cardinality(Consuming(fr, q))
  <1>1. \A q \in Promise : n(q) \in Nat /\ ow[q] \in Nat
    BY HolderTypes
  <1>2. E = [q \in Promise |-> ow[q] + n(q)]
    BY DEF ExternalOf
  <1>3. \A l \in [Promise -> Nat] : ExternalOf(fr, l) = [q \in Promise |-> l[q] + n(q)]
    BY DEF ExternalOf
  <1>4. More(ow, p) \in [Promise -> Nat]
    BY <1>1 DEF More
  <1>5. ow[p] > 0 => Less(ow, p) \in [Promise -> Nat]
    BY <1>1 DEF Less
  <1> HIDE DEF E, n
  <1>6. ExternalOf(fr, More(ow, p)) = More(E, p)
    <2>1. ExternalOf(fr, More(ow, p)) = [q \in Promise |-> More(ow, p)[q] + n(q)]
      BY <1>3, <1>4
    <2>2. \A q \in Promise : More(ow, p)[q] + n(q) = IF q = p THEN ow[q] + n(q) + 1 ELSE ow[q] + n(q)
      BY <1>1 DEF More
    <2>3. More(E, p) = [q \in Promise |-> IF q = p THEN ow[q] + n(q) + 1 ELSE ow[q] + n(q)]
      BY <1>2 DEF More
    <2> QED
      BY <2>1, <2>2, <2>3
  <1>7. ASSUME ow[p] > 0
        PROVE  ExternalOf(fr, Less(ow, p)) = Less(E, p) /\ E[p] > 0
    <2>1. ExternalOf(fr, Less(ow, p)) = [q \in Promise |-> Less(ow, p)[q] + n(q)]
      BY <1>3, <1>5, <1>7
    <2>2. \A q \in Promise : Less(ow, p)[q] + n(q) = IF q = p THEN ow[q] + n(q) - 1 ELSE ow[q] + n(q)
      BY <1>1 DEF Less
    <2>3. Less(E, p) = [q \in Promise |-> IF q = p THEN ow[q] + n(q) - 1 ELSE ow[q] + n(q)]
      <3>1. Less(E, p) = [q \in Promise |-> IF q = p THEN E[q] - 1 ELSE E[q]]
        BY <1>2 DEF Less
      <3>2. \A q \in Promise : (IF q = p THEN E[q] - 1 ELSE E[q])
                                  = (IF q = p THEN ow[q] + n(q) - 1 ELSE ow[q] + n(q))
        BY <1>1, <1>2
      <3> QED
        BY <3>1, <3>2
    <2>4. E[p] > 0
      BY <1>1, <1>2, <1>7
    <2> QED
      BY <2>1, <2>2, <2>3, <2>4
  <1> QED
    BY <1>4, <1>5, <1>6, <1>7 DEF E

\* One more, or one less, unless n is the null pointer.
MoreIf(F, n) == IF n \in Promise THEN More(F, n) ELSE F
LessIf(F, n) == IF n \in Promise THEN Less(F, n) ELSE F

\* One combinator state changes.
RecountJoins(jn, k, j, p) ==
    /\ Cardinality(Joining(jn, p)) \in Nat /\ Cardinality(Joining(k, p)) \in Nat
    /\ Cardinality(Joining(k, p)) = Cardinality(Joining(jn, p))
          + (IF k[j].output = p THEN 1 ELSE 0) - (IF jn[j].output = p THEN 1 ELSE 0)
    /\ jn[j].output = p => Cardinality(Joining(jn, p)) > 0

LEMMA OneJoin ==
    ASSUME NEW jn, NEW k, NEW j \in JoinId,
           \A c \in JoinId : c # j => k[c] = jn[c], NEW p \in Promise
    PROVE  RecountJoins(jn, k, j, p)
  <1> DEFINE A == Joining(jn, p)
             B == Joining(k, p)
  <1>1. /\ A \subseteq JoinId /\ B \subseteq JoinId
        /\ \A c \in JoinId : c # j => (c \in A <=> c \in B)
        /\ j \in A <=> jn[j].output = p
        /\ j \in B <=> k[j].output = p
    BY DEF Joining
  <1> HIDE DEF A, B
  <1>2. IsFiniteSet(JoinId)
    BY Domains
  <1>3. /\ Cardinality(A) \in Nat /\ Cardinality(B) \in Nat
        /\ Cardinality(B) = Cardinality(A) + (IF j \in B THEN 1 ELSE 0) - (IF j \in A THEN 1 ELSE 0)
        /\ j \in A => Cardinality(A) > 0
    BY <1>1, <1>2, OneDiffers
  <1> QED
    BY <1>1, <1>3 DEF A, B, RecountJoins

\* What one combinator state less or more does to the tokens.
\* The token a combinator state holds on its output o is taken or given back.
JoinedTokens(fr, jn, k, sl, j, o) ==
    /\ jn[j].output \notin Promise => InternalOf(fr, k, sl) = More(InternalOf(fr, jn, sl), o)
    /\ jn[j].output = o => /\ InternalOf(fr, jn, sl)[o] > 0
                           /\ InternalOf(fr, k, sl) = Less(InternalOf(fr, jn, sl), o)

LEMMA JoinTokens ==
    ASSUME NEW fr, NEW jn, NEW sl, NEW j \in JoinId, NEW k,
           \A c \in JoinId : c # j => k[c] = jn[c],
           NEW o \in Promise, NEW ow \in [Promise -> Nat],
           \/ jn[j].output \notin Promise /\ k[j].output = o
           \/ jn[j].output = o /\ k[j].output \notin Promise
    PROVE  JoinedTokens(fr, jn, k, sl, j, o)
  <1> DEFINE I == InternalOf(fr, jn, sl)
             K == InternalOf(fr, k, sl)
  <1>0. I \in [Promise -> Nat]
    BY HolderTypes
  <1>1. ASSUME NEW p \in Promise
        PROVE  /\ jn[j].output = o => K[p] = IF p = o THEN I[p] - 1 ELSE I[p]
               /\ jn[j].output = o /\ p = o => I[p] > 0
               /\ jn[j].output \notin Promise => K[p] = IF p = o THEN I[p] + 1 ELSE I[p]
    <2>1. RecountJoins(jn, k, j, p)
      BY OneJoin
    <2>2. Cardinality(Settling(fr, p)) \in Nat /\ Cardinality(Storing(sl, p)) \in Nat
      BY HolderTypes
    <2>3. /\ I[p] = Cardinality(Settling(fr, p)) + Cardinality(Joining(jn, p))
                    + Cardinality(Storing(sl, p))
          /\ K[p] = Cardinality(Settling(fr, p)) + Cardinality(Joining(k, p))
                    + Cardinality(Storing(sl, p))
      BY DEF InternalOf
    <2> HIDE DEF I, K
    <2> QED
      BY <2>1, <2>2, <2>3 DEF RecountJoins
  <1>2. K = [p \in Promise |-> K[p]]
    BY DEF InternalOf
  <1> HIDE DEF I, K
  <1>3. jn[j].output \notin Promise => K = More(I, o)
    BY <1>0, <1>1, <1>2 DEF More
  <1>4. jn[j].output = o => I[o] > 0 /\ K = Less(I, o)
    BY <1>0, <1>1, <1>2 DEF Less
  <1> QED
    BY <1>3, <1>4 DEF I, K, JoinedTokens

\* Only the outputs of frames and combinator states matter.
LEMMA SameTokens ==
    ASSUME NEW fr, NEW g, NEW jn, NEW k, NEW sl, NEW ow,
           \A f \in FrameId : g[f].input = fr[f].input /\ g[f].output = fr[f].output,
           \A j \in JoinId : k[j].output = jn[j].output
    PROVE  InternalOf(g, k, sl) = InternalOf(fr, jn, sl) /\ ExternalOf(g, ow) = ExternalOf(fr, ow)
  <1>1. ASSUME NEW p \in Promise
        PROVE  /\ Consuming(g, p) = Consuming(fr, p) /\ Settling(g, p) = Settling(fr, p)
               /\ Joining(k, p) = Joining(jn, p)
    BY DEF Consuming, Settling, Joining
  <1> QED
    BY <1>1 DEF InternalOf, ExternalOf

\* An arena cell stores q instead of p.
LEMMA SlotTokens ==
    ASSUME NEW fr, NEW jn, NEW sl \in [Slots -> Promise \cup {Null}], NEW s \in Slots,
           NEW q \in Promise \cup {Null}, q # sl[s], NEW ow \in [Promise -> Nat]
    PROVE  LET I == InternalOf(fr, jn, sl)
           IN  /\ InternalOf(fr, jn, [sl EXCEPT ![s] = q]) = LessIf(MoreIf(I, q), sl[s])
               /\ sl[s] \in Promise => I[sl[s]] > 0 /\ MoreIf(I, q)[sl[s]] > 0
  <1> DEFINE t == [sl EXCEPT ![s] = q]
             I == InternalOf(fr, jn, sl)
             K == InternalOf(fr, jn, t)
  <1>0. I \in [Promise -> Nat] /\ Null \notin Promise
    BY HolderTypes, Domains
  <1>1. \A c \in Slots : c # s => t[c] = sl[c]
    OBVIOUS
  <1>2. t[s] = q
    OBVIOUS
  <1> HIDE DEF t
  <1>3. ASSUME NEW p \in Promise
        PROVE  /\ K[p] = I[p] + (IF p = q THEN 1 ELSE 0) - (IF p = sl[s] THEN 1 ELSE 0)
               /\ p = sl[s] => I[p] > 0
    <2> DEFINE A == Storing(sl, p)
               B == Storing(t, p)
    <2>1. /\ A \subseteq Slots /\ B \subseteq Slots
          /\ \A c \in Slots : c # s => (c \in A <=> c \in B)
          /\ s \in A <=> p = sl[s]
          /\ s \in B <=> p = q
      BY <1>1, <1>2 DEF Storing
    <2>2. IsFiniteSet(Slots)
      BY Domains
    <2>3. Cardinality(Settling(fr, p)) \in Nat /\ Cardinality(Joining(jn, p)) \in Nat
      BY HolderTypes
    <2>4. /\ I[p] = Cardinality(Settling(fr, p)) + Cardinality(Joining(jn, p)) + Cardinality(A)
          /\ K[p] = Cardinality(Settling(fr, p)) + Cardinality(Joining(jn, p)) + Cardinality(B)
      BY DEF InternalOf
    <2> HIDE DEF A, B, I, K
    <2>5. /\ Cardinality(A) \in Nat /\ Cardinality(B) \in Nat
          /\ Cardinality(B) = Cardinality(A) + (IF s \in B THEN 1 ELSE 0) - (IF s \in A THEN 1 ELSE 0)
          /\ s \in A => Cardinality(A) > 0
      BY <2>1, <2>2, OneDiffers
    <2> QED
      BY <2>1, <2>3, <2>4, <2>5
  <1>4. K = [p \in Promise |-> K[p]]
    BY DEF InternalOf
  <1> HIDE DEF I, K
  <1>5. sl[s] \in Promise => I[sl[s]] > 0 /\ MoreIf(I, q)[sl[s]] > 0
    BY <1>0, <1>3 DEF MoreIf, More
  <1>6. /\ MoreIf(I, q) \in [Promise -> Nat]
        /\ \A p \in Promise : MoreIf(I, q)[p] = I[p] + (IF p = q THEN 1 ELSE 0)
    <2>1. CASE q \in Promise
      BY <1>0, <2>1 DEF MoreIf, More
    <2>2. CASE q \notin Promise
      BY <1>0, <2>2 DEF MoreIf
    <2> QED
      BY <2>1, <2>2
  <1>7. ASSUME NEW F \in [Promise -> Nat]
        PROVE  /\ LessIf(F, sl[s]) = [p \in Promise |-> LessIf(F, sl[s])[p]]
               /\ \A p \in Promise : LessIf(F, sl[s])[p] = F[p] - (IF p = sl[s] THEN 1 ELSE 0)
    <2>0. \A p \in Promise : F[p] \in Nat
      OBVIOUS
    <2>1. CASE sl[s] \in Promise
      <3>1. LessIf(F, sl[s]) = [F EXCEPT ![sl[s]] = @ - 1]
        BY <2>1 DEF LessIf, Less
      <3>2. \A p \in Promise : [F EXCEPT ![sl[s]] = @ - 1][p] = F[p] - (IF p = sl[s] THEN 1 ELSE 0)
        BY <2>0
      <3> QED
        BY <3>1, <3>2
    <2>2. CASE sl[s] \notin Promise
      <3>1. LessIf(F, sl[s]) = F
        BY <2>2 DEF LessIf
      <3>2. \A p \in Promise : F[p] = F[p] - (IF p = sl[s] THEN 1 ELSE 0)
        BY <2>0, <2>2
      <3> QED
        BY <3>1, <3>2
    <2> QED
      BY <2>1, <2>2
  <1>8. /\ LessIf(MoreIf(I, q), sl[s]) = [p \in Promise |-> LessIf(MoreIf(I, q), sl[s])[p]]
        /\ \A p \in Promise : LessIf(MoreIf(I, q), sl[s])[p]
                                 = MoreIf(I, q)[p] - (IF p = sl[s] THEN 1 ELSE 0)
    BY <1>6, <1>7
  <1>9. \A p \in Promise : K[p] = LessIf(MoreIf(I, q), sl[s])[p]
    BY <1>0, <1>3, <1>6, <1>8
  <1> QED
    BY <1>4, <1>5, <1>8, <1>9 DEF I, K, t

-----------------------------------------------------------------------------
(* Places of continuations.                                                *)

Queued(rd, st, f) == Count(rd, f) + Count(st, f)

WaitsFor(h, fr, f) ==
    IF fr[f].input = Null THEN 0 ELSE Count(h[fr[f].input].subscribers, f)

PlaceTypes(h, fr, rd, st) ==
    /\ h \in [Promise -> PromiseBox] /\ fr \in [FrameId -> FrameBox]
    /\ rd \in Seq(FrameId) /\ st \in Seq(FrameId)
    /\ \A f \in FrameId : /\ fr[f].kind = "none" => fr[f] = NoFrame
                          /\ fr[f].kind # "none" => fr[f].input \in Promise

PlacedOnce(h, fr, rd, st, ls, f) ==
    /\ Queued(rd, st, f) + WaitsFor(h, fr, f)
          = IF fr[f].kind = "none" \/ f \in ls THEN 0 ELSE 1
    /\ Queued(rd, st, f) > 0 => ~Pending(h, fr[f].input)
    /\ WaitsFor(h, fr, f) > 0 => Pending(h, fr[f].input)

Subscribing(h, fr) ==
    \A p \in Promise : \A i \in 1..Len(h[p].subscribers) : fr[h[p].subscribers[i]].input = p

Increasing(s) == \A i, k \in 1..Len(s) : i < k => s[i] < s[k]

ReadyInOrder(rd, fr) ==
    \A i, k \in 1..Len(rd) : i < k /\ fr[rd[i]].input = fr[rd[k]].input => rd[i] < rd[k]

RunningChains(st, fr) == \A i \in 1..Len(st) : fr[st[i]].kind = "chain"

\* Every continuation is in one place, in order, and chains alone are running.
PlaceOK(h, fr, rd, st, ls) ==
    /\ PlaceTypes(h, fr, rd, st)
    /\ \A f \in FrameId : PlacedOnce(h, fr, rd, st, ls, f)
    /\ Subscribing(h, fr)
    /\ ReadyInOrder(rd, fr)
    /\ \A p \in Promise : Increasing(h[p].subscribers)
    /\ RunningChains(st, fr)

LEMMA Occurs ==
    ASSUME NEW s, Len(s) \in Nat, NEW f
    PROVE  /\ Count(s, f) > 0 => \E i \in 1..Len(s) : s[i] = f
           /\ \A i \in 1..Len(s) : s[i] = f => Count(s, f) > 0
  BY CountType

\* What a place says of a continuation.
PlaceSays(h, fr, rd, st, ls, f) ==
    /\ Count(rd, f) \in Nat /\ Count(st, f) \in Nat /\ Queued(rd, st, f) \in Nat
    /\ WaitsFor(h, fr, f) \in Nat
    /\ fr[f].kind = "none" => /\ fr[f] = NoFrame /\ fr[f].input = Null
                              /\ WaitsFor(h, fr, f) = 0 /\ Queued(rd, st, f) = 0
    /\ fr[f].kind # "none" => /\ fr[f].input \in Promise /\ fr[f].input # Null
                              /\ WaitsFor(h, fr, f) = Count(h[fr[f].input].subscribers, f)
    /\ \A p \in Promise : fr[f].input # p => Count(h[p].subscribers, f) = 0
    /\ \A p \in Promise : Count(h[p].subscribers, f) > 0 =>
          /\ fr[f].input = p /\ fr[f].kind # "none" /\ WaitsFor(h, fr, f) > 0
          /\ Pending(h, p) /\ Queued(rd, st, f) = 0
    /\ Queued(rd, st, f) > 0 =>
          /\ fr[f].kind # "none" /\ f \notin ls /\ Queued(rd, st, f) = 1
          /\ WaitsFor(h, fr, f) = 0 /\ ~Pending(h, fr[f].input)

LEMMA PlaceFacts ==
    ASSUME NEW h, NEW fr, NEW rd, NEW st, NEW ls, PlaceOK(h, fr, rd, st, ls),
           NEW f \in FrameId
    PROVE  PlaceSays(h, fr, rd, st, ls, f)
  <1>1. /\ PlaceTypes(h, fr, rd, st) /\ PlacedOnce(h, fr, rd, st, ls, f) /\ Subscribing(h, fr)
    BY DEF PlaceOK
  <1>2. /\ Null \notin Promise
        /\ fr[f].kind = "none" => fr[f] = NoFrame /\ fr[f].input = Null
        /\ fr[f].kind # "none" => fr[f].input \in Promise /\ fr[f].input # Null
    BY <1>1, Domains DEF PlaceTypes, NoFrame
  <1>3. \A p \in Promise : h[p].subscribers \in Seq(FrameId) /\ Len(h[p].subscribers) \in Nat
    <2>1. \A p \in Promise : h[p].subscribers \in Seq(FrameId)
      BY <1>1 DEF PlaceTypes, PromiseBox
    <2> QED
      BY <2>1
  <1>4. \A p \in Promise : Count(h[p].subscribers, f) \in Nat
    BY <1>3, CountType
  <1>5. Count(rd, f) \in Nat /\ Count(st, f) \in Nat
    <2>1. Len(rd) \in Nat /\ Len(st) \in Nat
      BY <1>1 DEF PlaceTypes
    <2> QED
      BY <2>1, CountType
  <1>6. Queued(rd, st, f) \in Nat
    BY <1>5 DEF Queued
  <1>7. /\ WaitsFor(h, fr, f) \in Nat
        /\ fr[f].kind = "none" => WaitsFor(h, fr, f) = 0
        /\ fr[f].kind # "none" => WaitsFor(h, fr, f) = Count(h[fr[f].input].subscribers, f)
    BY <1>2, <1>4 DEF WaitsFor
  <1>8. ASSUME NEW p \in Promise, Count(h[p].subscribers, f) > 0
        PROVE  fr[f].input = p
    <2>1. PICK i \in 1..Len(h[p].subscribers) : h[p].subscribers[i] = f
      BY <1>3, <1>8, CountType
    <2> QED
      BY <1>1, <2>1 DEF Subscribing
  <1>9. \A p \in Promise : fr[f].input # p => Count(h[p].subscribers, f) = 0
    BY <1>4, <1>8
  <1>10. fr[f].kind = "none" => Queued(rd, st, f) = 0
    BY <1>1, <1>6, <1>7 DEF PlacedOnce
  <1>11. Queued(rd, st, f) > 0 =>
          /\ fr[f].kind # "none" /\ f \notin ls /\ Queued(rd, st, f) = 1
          /\ WaitsFor(h, fr, f) = 0 /\ ~Pending(h, fr[f].input)
    BY <1>1, <1>6, <1>7 DEF PlacedOnce
  <1>12. ASSUME NEW p \in Promise, Count(h[p].subscribers, f) > 0
         PROVE  /\ fr[f].input = p /\ fr[f].kind # "none" /\ WaitsFor(h, fr, f) > 0
                /\ Pending(h, p) /\ Queued(rd, st, f) = 0
    <2>1. fr[f].input = p
      BY <1>8, <1>12
    <2>2. fr[f].kind # "none"
      BY <1>2, <2>1
    <2>3. WaitsFor(h, fr, f) > 0
      BY <1>7, <1>12, <2>1, <2>2
    <2> QED
      BY <1>1, <1>6, <1>7, <2>1, <2>2, <2>3 DEF PlacedOnce
  <1> QED
    BY <1>2, <1>5, <1>6, <1>7, <1>9, <1>10, <1>11, <1>12 DEF PlaceSays

\* The boxes of consumed promises keep their result and subscribers.
LEMMA PlaceHeap ==
    ASSUME NEW h, NEW fr, NEW rd, NEW st, NEW ls, PlaceOK(h, fr, rd, st, ls),
           NEW k \in [Promise -> PromiseBox],
           \A p \in Promise :
              \/ k[p].result = h[p].result /\ k[p].subscribers = h[p].subscribers
              \/ k[p].subscribers = <<>> /\ \A f \in FrameId : fr[f].input # p
    PROVE  PlaceOK(k, fr, rd, st, ls)
  <1>1. PlaceTypes(k, fr, rd, st)
    BY DEF PlaceOK, PlaceTypes
  <1>2. ASSUME NEW f \in FrameId
        PROVE  PlacedOnce(k, fr, rd, st, ls, f)
    <2>1. PlacedOnce(h, fr, rd, st, ls, f) /\ PlaceSays(h, fr, rd, st, ls, f)
      BY PlaceFacts DEF PlaceOK
    <2>2. CASE fr[f].kind = "none"
      BY <2>1, <2>2 DEF PlacedOnce, PlaceSays, WaitsFor
    <2>3. CASE fr[f].kind # "none"
      <3> DEFINE p == fr[f].input
      <3>1. p \in Promise /\ p # Null
        BY <2>1, <2>3 DEF PlaceSays
      <3>2. k[p].result = h[p].result /\ k[p].subscribers = h[p].subscribers
        BY <3>1
      <3>3. WaitsFor(k, fr, f) = WaitsFor(h, fr, f) /\ (Pending(k, p) <=> Pending(h, p))
        BY <3>2 DEF WaitsFor, Pending
      <3> QED
        BY <2>1, <3>3 DEF PlacedOnce
    <2> QED
      BY <2>2, <2>3
  <1>3. Subscribing(k, fr)
    <2>1. \A p \in Promise : k[p].subscribers = h[p].subscribers \/ k[p].subscribers = <<>>
      OBVIOUS
    <2>2. Len(<<>>) = 0 /\ 1..0 = {}
      OBVIOUS
    <2> QED
      BY <2>1, <2>2 DEF PlaceOK, Subscribing
  <1>4. \A p \in Promise : Increasing(k[p].subscribers)
    <2>1. Increasing(<<>>)
      BY DEF Increasing
    <2> QED
      BY <2>1 DEF PlaceOK
  <1> QED
    BY <1>1, <1>2, <1>3, <1>4 DEF PlaceOK

\* Promise p settles: what waited for it is ready.
LEMMA PlaceSettle ==
    ASSUME NEW h, NEW fr, NEW rd, NEW st, NEW ls, PlaceOK(h, fr, rd, st, ls),
           NEW p \in Promise, NEW k \in [Promise -> PromiseBox],
           \A q \in Promise : q # p => k[q] = h[q],
           IF Pending(h, p) THEN k[p].result # "pending" /\ k[p].subscribers = <<>> ELSE k = h
    PROVE  PlaceOK(k, fr, rd \o Woken(h, p), st, ls)
  <1> DEFINE w == h[p].subscribers
             rd2 == rd \o w
  <1>0. /\ h \in [Promise -> PromiseBox] /\ fr \in [FrameId -> FrameBox]
        /\ rd \in Seq(FrameId) /\ st \in Seq(FrameId) /\ w \in Seq(FrameId)
        /\ Len(rd) \in Nat /\ Len(w) \in Nat
    <2>1. /\ h \in [Promise -> PromiseBox] /\ fr \in [FrameId -> FrameBox]
          /\ rd \in Seq(FrameId) /\ st \in Seq(FrameId)
      BY DEF PlaceOK, PlaceTypes
    <2>2. w \in Seq(FrameId)
      BY <2>1 DEF PromiseBox
    <2> QED
      BY <2>1, <2>2
  <1>1. CASE ~Pending(h, p)
    <2>1. k = h /\ Woken(h, p) = <<>> /\ rd \o <<>> = rd
      BY <1>0, <1>1 DEF Woken
    <2> QED
      BY <2>1
  <1>2. CASE Pending(h, p)
    <2>0. Woken(h, p) = w /\ k[p].result # "pending" /\ k[p].subscribers = <<>>
      BY <1>2 DEF Woken
    <2>1. rd2 \in Seq(FrameId)
      BY <1>0
    <2>2. PlaceTypes(k, fr, rd2, st)
      BY <2>1 DEF PlaceOK, PlaceTypes
    <2>3. ASSUME NEW f \in FrameId
          PROVE  PlacedOnce(k, fr, rd2, st, ls, f)
      <3>1. PlacedOnce(h, fr, rd, st, ls, f) /\ PlaceSays(h, fr, rd, st, ls, f)
        BY PlaceFacts DEF PlaceOK
      <3>2. Count(rd2, f) = Count(rd, f) + Count(w, f)
        BY <1>0, CountConcat
      <3>3. Count(w, f) \in Nat
        BY <1>0, CountType
      <3>4. CASE fr[f].input = p
        <4>1. fr[f].kind # "none" /\ p # Null
          BY <3>1, <3>4, Domains DEF PlaceSays
        <4>2. WaitsFor(h, fr, f) = Count(w, f)
          BY <3>1, <3>4, <4>1 DEF PlaceSays
        <4>3. WaitsFor(k, fr, f) = 0
          BY <2>0, <3>4, <4>1, CountSmall DEF WaitsFor
        <4>4. Queued(rd2, st, f) = Queued(rd, st, f) + WaitsFor(h, fr, f)
          BY <3>1, <3>2, <3>3, <4>2 DEF Queued, PlaceSays
        <4>5. ~Pending(k, fr[f].input)
          BY <2>0, <3>4 DEF Pending
        <4>6. Queued(rd, st, f) \in Nat /\ WaitsFor(h, fr, f) \in Nat
          BY <3>1 DEF PlaceSays
        <4> QED
          BY <3>1, <4>3, <4>4, <4>5, <4>6 DEF PlacedOnce
      <3>5. CASE fr[f].input # p
        <4>1. Count(w, f) = 0
          BY <3>1, <3>5 DEF PlaceSays
        <4>2. Queued(rd2, st, f) = Queued(rd, st, f)
          BY <3>1, <3>2, <4>1 DEF Queued, PlaceSays
        <4>3. fr[f].input \in Promise => k[fr[f].input] = h[fr[f].input]
          BY <3>5
        <4>4. CASE fr[f].kind = "none"
          <5>1. WaitsFor(k, fr, f) = 0 /\ Queued(rd, st, f) = 0
            BY <3>1, <4>4 DEF PlaceSays, WaitsFor
          <5> QED
            BY <4>2, <4>4, <5>1 DEF PlacedOnce
        <4>5. CASE fr[f].kind # "none"
          <5>1. k[fr[f].input] = h[fr[f].input]
            BY <3>1, <4>3, <4>5 DEF PlaceSays
          <5>2. WaitsFor(k, fr, f) = WaitsFor(h, fr, f)
                /\ (Pending(k, fr[f].input) <=> Pending(h, fr[f].input))
            BY <5>1 DEF WaitsFor, Pending
          <5> QED
            BY <3>1, <4>2, <5>2 DEF PlacedOnce
        <4> QED
          BY <4>4, <4>5
      <3> QED
        BY <3>4, <3>5
    <2>4. Subscribing(k, fr) /\ \A q \in Promise : Increasing(k[q].subscribers)
      <3>1. \A q \in Promise : k[q].subscribers = h[q].subscribers \/ k[q].subscribers = <<>>
        BY <2>0
      <3>2. Len(<<>>) = 0 /\ 1..0 = {}
        OBVIOUS
      <3>3. Increasing(<<>>)
        BY DEF Increasing
      <3> QED
        BY <3>1, <3>2, <3>3 DEF PlaceOK, Subscribing
    <2>5. ReadyInOrder(rd2, fr)
      <3> DEFINE m == Len(rd)
      <3>1. /\ Len(rd2) = m + Len(w)
            /\ \A i \in 1..m : rd2[i] = rd[i] /\ rd2[i] \in FrameId
            /\ \A i \in 1..Len(rd2) : i > m => /\ i - m \in 1..Len(w) /\ rd2[i] = w[i - m]
        BY <1>0
      <3>2. \A i \in 1..Len(w) : fr[w[i]].input = p
        BY DEF PlaceOK, Subscribing
      <3>3. ASSUME NEW i \in 1..m
            PROVE  fr[rd[i]].input # p
        <4>1. rd[i] \in FrameId /\ Len(rd) \in Nat
          BY <1>0
        <4>2. Count(rd, rd[i]) > 0
          BY <1>0, CountType
        <4>3. PlaceSays(h, fr, rd, st, ls, rd[i])
          BY <4>1, PlaceFacts
        <4>4. Queued(rd, st, rd[i]) > 0
          BY <4>2, <4>3 DEF Queued, PlaceSays
        <4> QED
          BY <1>2, <4>3, <4>4 DEF PlaceSays
      <3>4. Increasing(w) /\ ReadyInOrder(rd, fr)
        BY DEF PlaceOK
      <3>5. SUFFICES ASSUME NEW i \in 1..Len(rd2), NEW c \in 1..Len(rd2), i < c,
                            fr[rd2[i]].input = fr[rd2[c]].input
                     PROVE  rd2[i] < rd2[c]
        BY DEF ReadyInOrder
      <3> HIDE DEF rd2, w
      <3>6. CASE c <= m
        <4>1. i \in 1..m /\ c \in 1..m
          BY <1>0, <3>5, <3>6
        <4> QED
          BY <3>1, <3>4, <3>5, <4>1 DEF ReadyInOrder
      <3>7. CASE c > m /\ i <= m
        <4>1. i \in 1..m /\ rd2[c] = w[c - m] /\ c - m \in 1..Len(w)
          BY <1>0, <3>1, <3>5, <3>7
        <4> QED
          BY <3>1, <3>2, <3>3, <3>5, <4>1
      <3>8. CASE c > m /\ i > m
        <4>1. /\ rd2[c] = w[c - m] /\ c - m \in 1..Len(w)
              /\ rd2[i] = w[i - m] /\ i - m \in 1..Len(w) /\ i - m < c - m
          BY <1>0, <3>1, <3>5, <3>8
        <4> QED
          BY <3>4, <4>1 DEF Increasing
      <3> QED
        BY <1>0, <3>6, <3>7, <3>8
    <2> QED
      BY <2>0, <2>2, <2>3, <2>4, <2>5 DEF PlaceOK
  <1> QED
    BY <1>1, <1>2

\* A continuation that is ready or running ends.
LEMMA PlaceFree ==
    ASSUME NEW h, NEW fr, NEW rd, NEW st, NEW ls, PlaceOK(h, fr, rd, st, ls),
           NEW f \in FrameId, NEW rd2 \in Seq(FrameId), NEW st2 \in Seq(FrameId),
           \A c \in FrameId : Queued(rd, st, c) = Queued(rd2, st2, c) + (IF c = f THEN 1 ELSE 0),
           ReadyInOrder(rd2, fr), RunningChains(st2, fr)
    PROVE  PlaceOK(h, [fr EXCEPT ![f] = NoFrame], rd2, st2, ls)
  <1> DEFINE g == [fr EXCEPT ![f] = NoFrame]
  <1>0. /\ h \in [Promise -> PromiseBox] /\ fr \in [FrameId -> FrameBox]
        /\ \A p \in Promise : h[p].subscribers \in Seq(FrameId)
    <2>1. h \in [Promise -> PromiseBox] /\ fr \in [FrameId -> FrameBox]
      BY DEF PlaceOK, PlaceTypes
    <2> QED
      BY <2>1 DEF PromiseBox
  <1>1. /\ g \in [FrameId -> FrameBox] /\ g[f] = NoFrame
        /\ \A c \in FrameId : c # f => g[c] = fr[c]
    <2>1. NoFrame \in FrameBox
      BY DEF NoFrame, FrameBox, Settlement
    <2> QED
      BY <1>0, <2>1
  <1>2. NoFrame.kind = "none" /\ NoFrame.input = Null
    BY DEF NoFrame
  <1> HIDE DEF g
  <1>3. PlaceTypes(h, g, rd2, st2)
    BY <1>1, <1>2 DEF PlaceOK, PlaceTypes
  <1>4. ASSUME NEW c \in FrameId
        PROVE  /\ Count(rd2, c) \in Nat /\ Count(st2, c) \in Nat /\ Queued(rd2, st2, c) \in Nat
               /\ Queued(rd2, st2, c) > 0 => Queued(rd, st, c) > 0
    <2>1. Len(rd2) \in Nat /\ Len(st2) \in Nat
      OBVIOUS
    <2>2. Count(rd2, c) \in Nat /\ Count(st2, c) \in Nat
      BY <2>1, CountType
    <2>3. Queued(rd2, st2, c) \in Nat
      BY <2>2 DEF Queued
    <2> QED
      BY <2>2, <2>3
  <1>5. PlaceSays(h, fr, rd, st, ls, f) /\ Queued(rd, st, f) = Queued(rd2, st2, f) + 1
    BY PlaceFacts
  <1>6. Queued(rd2, st2, f) = 0 /\ Queued(rd, st, f) > 0
    <2>1. Queued(rd2, st2, f) \in Nat
      BY <1>4
    <2>2. Queued(rd, st, f) > 0 => Queued(rd, st, f) = 1
      BY <1>5 DEF PlaceSays
    <2> QED
      BY <1>5, <2>1, <2>2
  <1>7. ASSUME NEW c \in FrameId
        PROVE  PlacedOnce(h, g, rd2, st2, ls, c)
    <2>1. CASE c = f
      BY <1>1, <1>2, <1>6, <2>1 DEF PlacedOnce, WaitsFor
    <2>2. CASE c # f
      <3>1. PlacedOnce(h, fr, rd, st, ls, c) /\ g[c] = fr[c]
        BY <1>1, <2>2 DEF PlaceOK
      <3>2. Queued(rd2, st2, c) = Queued(rd, st, c)
        BY <1>4, <2>2
      <3>3. WaitsFor(h, g, c) = WaitsFor(h, fr, c)
        BY <3>1 DEF WaitsFor
      <3> QED
        BY <3>1, <3>2, <3>3 DEF PlacedOnce
    <2> QED
      BY <2>1, <2>2
  <1>8. Subscribing(h, g)
    <2> SUFFICES ASSUME NEW p \in Promise, NEW i \in 1..Len(h[p].subscribers)
                 PROVE  g[h[p].subscribers[i]].input = p
      BY DEF Subscribing
    <2> DEFINE s == h[p].subscribers
               c == s[i]
    <2>1. fr[c].input = p
      BY DEF PlaceOK, Subscribing
    <2>2. s \in Seq(FrameId) /\ Len(s) \in Nat /\ c \in FrameId
      BY <1>0
    <2>3. Count(s, c) > 0
      BY <2>2, CountType
    <2>4. PlaceSays(h, fr, rd, st, ls, c)
      BY <2>2, PlaceFacts
    <2>5. c # f
      BY <1>6, <2>3, <2>4 DEF PlaceSays
    <2> QED
      BY <1>1, <2>1, <2>2, <2>5
  <1>9. /\ \A i \in 1..Len(rd2) : rd2[i] \in FrameId /\ rd2[i] # f
        /\ \A i \in 1..Len(st2) : st2[i] \in FrameId /\ st2[i] # f
    <2>1. Len(rd2) \in Nat /\ Len(st2) \in Nat
      OBVIOUS
    <2>2. Count(rd2, f) = 0 /\ Count(st2, f) = 0
      BY <1>4, <1>6 DEF Queued
    <2>3. /\ Count(rd2, f) > 0 <=> \E i \in 1..Len(rd2) : rd2[i] = f
          /\ Count(st2, f) > 0 <=> \E i \in 1..Len(st2) : st2[i] = f
      BY <2>1, CountType
    <2>4. /\ \A i \in 1..Len(rd2) : rd2[i] \in FrameId
          /\ \A i \in 1..Len(st2) : st2[i] \in FrameId
      BY <2>1
    <2> QED
      BY <2>2, <2>3, <2>4
  <1>10. ReadyInOrder(rd2, g)
    <2>1. \A i \in 1..Len(rd2) : g[rd2[i]] = fr[rd2[i]]
      BY <1>1, <1>9
    <2> QED
      BY <2>1 DEF ReadyInOrder
  <1>11. RunningChains(st2, g)
    <2>1. \A i \in 1..Len(st2) : g[st2[i]] = fr[st2[i]]
      BY <1>1, <1>9
    <2> QED
      BY <2>1 DEF RunningChains
  <1>12. \A p \in Promise : Increasing(h[p].subscribers)
    BY DEF PlaceOK
  <1> QED
    BY <1>3, <1>7, <1>8, <1>10, <1>11, <1>12 DEF PlaceOK, g

LEMMA TailInOrder ==
    ASSUME NEW fr, NEW rd \in Seq(FrameId), rd # <<>>, ReadyInOrder(rd, fr)
    PROVE  ReadyInOrder(Tail(rd), fr)
  <1> DEFINE t == Tail(rd)
  <1>1. /\ Len(rd) \in Nat /\ Len(rd) > 0 /\ Len(t) = Len(rd) - 1
        /\ \A i \in 1..Len(t) : t[i] = rd[i + 1] /\ i + 1 \in 1..Len(rd)
    OBVIOUS
  <1> SUFFICES ASSUME NEW i \in 1..Len(t), NEW k \in 1..Len(t), i < k,
                      fr[t[i]].input = fr[t[k]].input
               PROVE  t[i] < t[k]
    BY DEF ReadyInOrder
  <1> HIDE DEF t
  <1>2. t[i] = rd[i + 1] /\ t[k] = rd[k + 1] /\ i + 1 \in 1..Len(rd) /\ k + 1 \in 1..Len(rd) /\ i + 1 < k + 1
    BY <1>1
  <1> QED
    BY <1>2 DEF ReadyInOrder

\* The continuation at the head of the queue ends.
LEMMA PlaceDone ==
    ASSUME NEW h, NEW fr, NEW rd, NEW st, NEW ls, PlaceOK(h, fr, rd, st, ls), rd # <<>>
    PROVE  PlaceOK(h, [fr EXCEPT ![Head(rd)] = NoFrame], Tail(rd), st, ls)
  <1>1. rd \in Seq(FrameId) /\ st \in Seq(FrameId) /\ ReadyInOrder(rd, fr) /\ RunningChains(st, fr)
    BY DEF PlaceOK, PlaceTypes
  <1>2. Head(rd) \in FrameId /\ Tail(rd) \in Seq(FrameId)
    BY <1>1, CountTail
  <1>3. ASSUME NEW c \in FrameId
        PROVE  Queued(rd, st, c) = Queued(Tail(rd), st, c) + (IF c = Head(rd) THEN 1 ELSE 0)
    <2>1. Count(rd, c) = Count(Tail(rd), c) + (IF c = Head(rd) THEN 1 ELSE 0)
      BY <1>1, CountTail
    <2>2. Len(Tail(rd)) \in Nat /\ Len(st) \in Nat
      BY <1>1, <1>2
    <2>3. Count(Tail(rd), c) \in Nat /\ Count(st, c) \in Nat
      BY <2>2, CountType
    <2> QED
      BY <2>1, <2>3 DEF Queued
  <1>4. ReadyInOrder(Tail(rd), fr)
    BY <1>1, TailInOrder
  <1> QED
    BY <1>1, <1>2, <1>3, <1>4, PlaceFree

\* The innermost callback returns.
LEMMA PlaceReturn ==
    ASSUME NEW h, NEW fr, NEW rd, NEW st, NEW ls, PlaceOK(h, fr, rd, st, ls), st # <<>>
    PROVE  PlaceOK(h, [fr EXCEPT ![st[Len(st)]] = NoFrame], rd, SubSeq(st, 1, Len(st) - 1), ls)
  <1> DEFINE t == SubSeq(st, 1, Len(st) - 1)
             f == st[Len(st)]
  <1>1. rd \in Seq(FrameId) /\ st \in Seq(FrameId) /\ ReadyInOrder(rd, fr) /\ RunningChains(st, fr)
    BY DEF PlaceOK, PlaceTypes
  <1>2. /\ f \in FrameId /\ t \in Seq(FrameId) /\ Len(t) = Len(st) - 1
        /\ \A i \in 1..(Len(st) - 1) : t[i] = st[i]
        /\ \A c \in FrameId : Count(st, c) = Count(t, c) + (IF c = f THEN 1 ELSE 0)
    BY <1>1, CountButLast
  <1>3. Len(rd) \in Nat /\ Len(st) \in Nat
    BY <1>1
  <1> HIDE DEF t, f
  <1>4. ASSUME NEW c \in FrameId
        PROVE  Queued(rd, st, c) = Queued(rd, t, c) + (IF c = f THEN 1 ELSE 0)
    <2>1. Len(t) \in Nat
      BY <1>2
    <2>2. Count(rd, c) \in Nat /\ Count(t, c) \in Nat
      BY <1>3, <2>1, CountType
    <2> QED
      BY <1>2, <2>2 DEF Queued
  <1>5. RunningChains(t, fr)
    BY <1>1, <1>2, <1>3 DEF RunningChains
  <1>6. PlaceOK(h, [fr EXCEPT ![f] = NoFrame], rd, t, ls)
    BY <1>1, <1>2, <1>4, <1>5, PlaceFree
  <1> QED
    BY <1>6 DEF t, f

\* The callback of a chain starts.
LEMMA PlaceRun ==
    ASSUME NEW h, NEW fr, NEW rd, NEW st, NEW ls, PlaceOK(h, fr, rd, st, ls),
           rd # <<>>, fr[Head(rd)].kind = "chain"
    PROVE  PlaceOK(h, fr, Tail(rd), Append(st, Head(rd)), ls)
  <1> DEFINE t == Append(st, Head(rd))
  <1>1. rd \in Seq(FrameId) /\ st \in Seq(FrameId) /\ ReadyInOrder(rd, fr) /\ RunningChains(st, fr)
    BY DEF PlaceOK, PlaceTypes
  <1>2. Head(rd) \in FrameId /\ Tail(rd) \in Seq(FrameId) /\ t \in Seq(FrameId)
    BY <1>1, CountTail
  <1>3. PlaceTypes(h, fr, Tail(rd), t)
    BY <1>2 DEF PlaceOK, PlaceTypes
  <1>4. ASSUME NEW c \in FrameId
        PROVE  PlacedOnce(h, fr, Tail(rd), t, ls, c)
    <2>1. /\ Count(rd, c) = Count(Tail(rd), c) + (IF c = Head(rd) THEN 1 ELSE 0)
          /\ Count(t, c) = Count(st, c) + (IF c = Head(rd) THEN 1 ELSE 0)
      BY <1>1, <1>2, CountTail, CountAppend
    <2>2. Len(Tail(rd)) \in Nat /\ Len(st) \in Nat
      BY <1>1, <1>2
    <2>3. Count(Tail(rd), c) \in Nat /\ Count(st, c) \in Nat
      BY <2>2, CountType
    <2>4. Queued(Tail(rd), t, c) = Queued(rd, st, c)
      BY <2>1, <2>3 DEF Queued
    <2> QED
      BY <2>4 DEF PlaceOK, PlacedOnce
  <1>5. ReadyInOrder(Tail(rd), fr)
    BY <1>1, TailInOrder
  <1>6. RunningChains(t, fr)
    <2>1. /\ Len(t) = Len(st) + 1 /\ Len(st) \in Nat /\ t[Len(st) + 1] = Head(rd)
          /\ \A i \in 1..Len(st) : t[i] = st[i]
      BY <1>1, <1>2
    <2> HIDE DEF t
    <2>2. \A i \in 1..Len(t) : i \in 1..Len(st) \/ i = Len(st) + 1
      BY <2>1
    <2> QED
      BY <1>1, <2>1, <2>2 DEF RunningChains
  <1> QED
    BY <1>3, <1>4, <1>5, <1>6 DEF PlaceOK

LEMMA AppendInOrder ==
    ASSUME NEW s \in Seq(FrameId), NEW f \in FrameId, Increasing(s),
           \A i \in 1..Len(s) : s[i] < f
    PROVE  Increasing(Append(s, f))
  <1> DEFINE t == Append(s, f)
  <1>1. /\ Len(s) \in Nat /\ Len(t) = Len(s) + 1 /\ t[Len(s) + 1] = f
        /\ \A i \in 1..Len(s) : t[i] = s[i]
    OBVIOUS
  <1> HIDE DEF t
  <1> SUFFICES ASSUME NEW i \in 1..Len(t), NEW k \in 1..Len(t), i < k
               PROVE  t[i] < t[k]
    BY DEF Increasing, t
  <1>2. i \in 1..Len(s) /\ (k \in 1..Len(s) \/ k = Len(s) + 1)
    BY <1>1
  <1> QED
    BY <1>1, <1>2 DEF Increasing

\* A new continuation f waits for its input, or is ready at once.
LEMMA PlaceAdd ==
    ASSUME NEW h, NEW fr, NEW rd, NEW st, NEW ls, PlaceOK(h, fr, rd, st, ls),
           NEW f \in FrameId, fr[f].kind = "none", f \notin ls,
           \A c \in FrameId : fr[c].kind # "none" => c < f,
           NEW box \in FrameBox, box.kind # "none", box.input \in Promise,
           NEW k \in [Promise -> PromiseBox],
           \A q \in Promise : q # box.input => k[q] = h[q],
           k[box.input].result = h[box.input].result,
           k[box.input].subscribers =
              IF Pending(h, box.input) THEN Append(h[box.input].subscribers, f)
              ELSE h[box.input].subscribers
    PROVE  PlaceOK(k, [fr EXCEPT ![f] = box], rd \o WokenAtOnce(h, box.input, f), st, ls)
  <1> DEFINE g == [fr EXCEPT ![f] = box]
             p == box.input
             rd2 == rd \o WokenAtOnce(h, p, f)
  <1>0. /\ h \in [Promise -> PromiseBox] /\ fr \in [FrameId -> FrameBox]
        /\ rd \in Seq(FrameId) /\ st \in Seq(FrameId)
        /\ \A q \in Promise : h[q].subscribers \in Seq(FrameId)
    <2>1. /\ h \in [Promise -> PromiseBox] /\ fr \in [FrameId -> FrameBox]
          /\ rd \in Seq(FrameId) /\ st \in Seq(FrameId)
      BY DEF PlaceOK, PlaceTypes
    <2> QED
      BY <2>1 DEF PromiseBox
  <1>1. /\ g \in [FrameId -> FrameBox] /\ g[f] = box
        /\ \A c \in FrameId : c # f => g[c] = fr[c]
    BY <1>0
  <1>2. p \in Promise /\ p # Null
    BY Domains
  <1>3. /\ ~Pending(h, p) => rd2 = Append(rd, f)
        /\ Pending(h, p) => rd2 = rd
    BY <1>0 DEF WokenAtOnce
  <1>4. rd2 \in Seq(FrameId)
    <2> HIDE DEF rd2
    <2>1. Append(rd, f) \in Seq(FrameId) /\ rd \in Seq(FrameId)
      BY <1>0
    <2>2. rd2 = rd \/ rd2 = Append(rd, f)
      BY <1>3
    <2> QED
      BY <2>1, <2>2
  <1>5. PlaceSays(h, fr, rd, st, ls, f)
    BY PlaceFacts
  <1>6. /\ Queued(rd, st, f) = 0 /\ Count(rd, f) = 0 /\ Count(st, f) = 0
        /\ \A q \in Promise : Count(h[q].subscribers, f) = 0
    <2>1. Queued(rd, st, f) = 0 /\ fr[f].input \notin Promise
      BY <1>5, Domains DEF PlaceSays
    <2> QED
      BY <1>5, <2>1 DEF PlaceSays, Queued
  <1>7. /\ \A q \in Promise : k[q].result = h[q].result /\ (Pending(k, q) <=> Pending(h, q))
        /\ \A q \in Promise : q # p => k[q].subscribers = h[q].subscribers
        /\ Pending(h, p) => k[p].subscribers = Append(h[p].subscribers, f)
        /\ ~Pending(h, p) => k[p].subscribers = h[p].subscribers
    BY DEF Pending
  <1> HIDE DEF g, rd2, p
  <1>8. PlaceTypes(k, g, rd2, st)
    BY <1>0, <1>1, <1>2, <1>4 DEF PlaceOK, PlaceTypes, p
  <1>9. ASSUME NEW c \in FrameId
        PROVE  PlacedOnce(k, g, rd2, st, ls, c)
    <2>1. CASE c = f
      <3>1. g[c].kind # "none" /\ c \notin ls /\ g[c].input = p
        BY <1>1, <2>1 DEF p
      <3>2. WaitsFor(k, g, c) = Count(k[p].subscribers, f)
        BY <1>2, <2>1, <3>1 DEF WaitsFor
      <3>3. CASE Pending(h, p)
        <4>1. Count(k[p].subscribers, f) = 1
          BY <1>0, <1>2, <1>6, <1>7, <3>3, CountAppend
        <4>2. Queued(rd2, st, f) = 0
          BY <1>3, <1>6, <3>3
        <4> QED
          BY <1>2, <1>7, <2>1, <3>1, <3>2, <3>3, <4>1, <4>2 DEF PlacedOnce
      <3>4. CASE ~Pending(h, p)
        <4>1. Count(k[p].subscribers, f) = 0
          BY <1>2, <1>6, <1>7, <3>4
        <4>2. Count(rd2, f) = 1
          <5>1. Count(Append(rd, f), f) = Count(rd, f) + 1
            BY <1>0, CountAppend
          <5>2. rd2 = Append(rd, f)
            BY <1>3, <3>4
          <5> QED
            BY <1>6, <5>1, <5>2
        <4>3. Queued(rd2, st, f) = 1
          BY <1>6, <4>2 DEF Queued
        <4> QED
          BY <1>2, <1>7, <2>1, <3>1, <3>2, <3>4, <4>1, <4>3 DEF PlacedOnce
      <3> QED
        BY <3>3, <3>4
    <2>2. CASE c # f
      <3>1. PlacedOnce(h, fr, rd, st, ls, c) /\ g[c] = fr[c] /\ PlaceSays(h, fr, rd, st, ls, c)
        BY <1>1, <2>2, PlaceFacts DEF PlaceOK
      <3>2. Queued(rd2, st, c) = Queued(rd, st, c)
        <4>1. Count(Append(rd, f), c) = Count(rd, c) + 0
          BY <1>0, <2>2, CountAppend
        <4>2. Count(rd2, c) = Count(rd, c)
          <5>1. rd2 = rd \/ rd2 = Append(rd, f)
            BY <1>3
          <5>2. Count(rd, c) \in Nat
            BY <3>1 DEF PlaceSays
          <5>3. CASE rd2 = rd
            BY <5>3
          <5>4. CASE rd2 = Append(rd, f)
            <6>1. Count(rd2, c) = Count(rd, c) + 0
              BY <4>1, <5>4
            <6> QED
              BY <5>2, <6>1
          <5> QED
            BY <5>1, <5>3, <5>4
        <4> QED
          BY <4>2 DEF Queued
      <3>3. ASSUME fr[c].kind # "none"
            PROVE  /\ WaitsFor(k, g, c) = WaitsFor(h, fr, c)
                   /\ Pending(k, g[c].input) <=> Pending(h, fr[c].input)
        <4> DEFINE q == fr[c].input
        <4>1. q \in Promise /\ q # Null /\ WaitsFor(h, fr, c) = Count(h[q].subscribers, c)
              /\ WaitsFor(h, fr, c) \in Nat
          BY <3>1, <3>3 DEF PlaceSays
        <4>2. Count(Append(h[q].subscribers, f), c) = Count(h[q].subscribers, c) + 0
          BY <1>0, <2>2, <4>1, CountAppend
        <4>3. Count(k[q].subscribers, c) = Count(h[q].subscribers, c)
          BY <1>7, <4>1, <4>2
        <4> QED
          BY <1>7, <3>1, <4>1, <4>3 DEF WaitsFor
      <3>4. CASE fr[c].kind = "none"
        <4>1. WaitsFor(k, g, c) = 0 /\ Queued(rd, st, c) = 0
          BY <3>1, <3>4 DEF PlaceSays, WaitsFor
        <4> QED
          BY <3>1, <3>2, <3>4, <4>1 DEF PlacedOnce
      <3>5. CASE fr[c].kind # "none"
        BY <3>1, <3>2, <3>3, <3>5 DEF PlacedOnce
      <3> QED
        BY <3>4, <3>5
    <2> QED
      BY <2>1, <2>2
  <1>10. \A q \in Promise : \A i \in 1..Len(h[q].subscribers) :
            /\ h[q].subscribers[i] \in FrameId /\ h[q].subscribers[i] # f
            /\ fr[h[q].subscribers[i]].input = q /\ h[q].subscribers[i] < f
    <2> SUFFICES ASSUME NEW q \in Promise, NEW i \in 1..Len(h[q].subscribers)
                 PROVE  /\ h[q].subscribers[i] \in FrameId /\ h[q].subscribers[i] # f
                        /\ fr[h[q].subscribers[i]].input = q /\ h[q].subscribers[i] < f
      OBVIOUS
    <2> DEFINE s == h[q].subscribers
               c == s[i]
    <2>1. s \in Seq(FrameId) /\ Len(s) \in Nat /\ c \in FrameId
      BY <1>0
    <2>2. fr[c].input = q
      BY DEF PlaceOK, Subscribing
    <2>3. Count(s, c) > 0
      BY <2>1, CountType
    <2> HIDE DEF c
    <2>4. PlaceSays(h, fr, rd, st, ls, c)
      BY <2>1, PlaceFacts
    <2>5. fr[c].kind # "none"
      BY <2>3, <2>4 DEF PlaceSays
    <2>6. c < f
      BY <2>1, <2>5
    <2>7. c # f
      BY <2>1, <2>5
    <2> QED
      BY <2>1, <2>2, <2>6, <2>7 DEF c
  <1>11. Subscribing(k, g)
    <2> SUFFICES ASSUME NEW q \in Promise, NEW i \in 1..Len(k[q].subscribers)
                 PROVE  g[k[q].subscribers[i]].input = q
      BY DEF Subscribing
    <2>1. CASE k[q].subscribers = h[q].subscribers
      BY <1>1, <1>10, <2>1
    <2>2. CASE k[q].subscribers # h[q].subscribers
      <3> DEFINE s == h[q].subscribers
      <3>1. q = p /\ k[q].subscribers = Append(s, f) /\ s \in Seq(FrameId) /\ Len(s) \in Nat
        BY <1>0, <1>7, <2>2
      <3>2. CASE i \in 1..Len(s)
        <4>1. k[q].subscribers[i] = s[i]
          BY <3>1, <3>2
        <4> QED
          BY <1>1, <1>10, <3>2, <4>1
      <3>3. CASE i = Len(s) + 1
        <4>1. k[q].subscribers[i] = f
          BY <3>1, <3>3
        <4> QED
          BY <1>1, <3>1, <4>1 DEF p
      <3>4. Len(k[q].subscribers) = Len(s) + 1
        BY <3>1
      <3> QED
        BY <3>1, <3>2, <3>3, <3>4
    <2> QED
      BY <2>1, <2>2
  <1>12. ASSUME NEW q \in Promise
         PROVE  Increasing(k[q].subscribers)
    <2>1. Increasing(h[q].subscribers) /\ h[q].subscribers \in Seq(FrameId)
      BY <1>0 DEF PlaceOK
    <2>2. Increasing(Append(h[q].subscribers, f))
      BY <1>10, <2>1, AppendInOrder
    <2> QED
      BY <1>7, <2>1, <2>2
  <1>13. /\ \A i \in 1..Len(rd) : rd[i] \in FrameId /\ rd[i] # f /\ rd[i] < f
         /\ \A i \in 1..Len(st) : st[i] \in FrameId /\ st[i] # f
    <2>1. Len(rd) \in Nat /\ Len(st) \in Nat
      BY <1>0
    <2>2. /\ \A i \in 1..Len(rd) : rd[i] = f => Count(rd, f) > 0
          /\ \A i \in 1..Len(st) : st[i] = f => Count(st, f) > 0
      BY <2>1, Occurs
    <2>3. /\ \A i \in 1..Len(rd) : rd[i] \in FrameId
          /\ \A i \in 1..Len(st) : st[i] \in FrameId
      BY <1>0, <2>1
    <2>4. ASSUME NEW i \in 1..Len(rd)
          PROVE  rd[i] < f
      <3>1. Count(rd, rd[i]) > 0
        BY <2>1, CountType
      <3>2. PlaceSays(h, fr, rd, st, ls, rd[i])
        BY <2>3, PlaceFacts
      <3>3. Queued(rd, st, rd[i]) > 0
        BY <3>1, <3>2 DEF PlaceSays, Queued
      <3> QED
        BY <2>3, <3>2, <3>3 DEF PlaceSays
    <2> QED
      BY <1>6, <2>2, <2>3, <2>4
  <1>14. ReadyInOrder(rd2, g)
    <2>1. ReadyInOrder(rd, g)
      <3>1. \A i \in 1..Len(rd) : g[rd[i]] = fr[rd[i]]
        BY <1>1, <1>13
      <3> QED
        BY <3>1 DEF PlaceOK, ReadyInOrder
    <2>2. ASSUME ~Pending(h, p), NEW i \in 1..Len(rd2), NEW c \in 1..Len(rd2), i < c,
                 g[rd2[i]].input = g[rd2[c]].input
          PROVE  rd2[i] < rd2[c]
      <3>1. /\ Len(rd) \in Nat /\ Len(rd2) = Len(rd) + 1 /\ rd2[Len(rd) + 1] = f
            /\ \A m \in 1..Len(rd) : rd2[m] = rd[m]
        <4>1. rd2 = Append(rd, f) /\ rd \in Seq(FrameId)
          BY <1>0, <1>3, <2>2
        <4>2. /\ Len(rd) \in Nat /\ Len(Append(rd, f)) = Len(rd) + 1
              /\ Append(rd, f)[Len(rd) + 1] = f
              /\ \A m \in 1..Len(rd) : Append(rd, f)[m] = rd[m]
          BY <4>1
        <4> QED
          BY <4>1, <4>2
      <3>2. i \in 1..Len(rd) /\ (c \in 1..Len(rd) \/ c = Len(rd) + 1)
        BY <2>2, <3>1
      <3>3. CASE c \in 1..Len(rd)
        BY <2>1, <2>2, <3>1, <3>2, <3>3 DEF ReadyInOrder
      <3>4. CASE c = Len(rd) + 1
        BY <1>13, <3>1, <3>2, <3>4
      <3> QED
        BY <3>2, <3>3, <3>4
    <2>3. ~Pending(h, p) => ReadyInOrder(rd2, g)
      BY <2>2 DEF ReadyInOrder
    <2> QED
      BY <1>3, <2>1, <2>3
  <1>15. RunningChains(st, g)
    <2>1. \A i \in 1..Len(st) : g[st[i]] = fr[st[i]]
      BY <1>1, <1>13
    <2> QED
      BY <2>1 DEF PlaceOK, RunningChains
  <1> QED
    BY <1>8, <1>9, <1>11, <1>12, <1>14, <1>15 DEF PlaceOK, g, rd2, p

\* A purge drops what is ready.
LEMMA PlacePurge ==
    ASSUME NEW h, NEW fr, NEW rd, NEW ls, PlaceOK(h, fr, rd, <<>>, ls),
           NEW g \in [FrameId -> FrameBox],
           \A f \in FrameId : /\ g[f].kind = fr[f].kind /\ g[f].input = fr[f].input
                              /\ fr[f].kind = "none" => g[f] = NoFrame
    PROVE  PlaceOK(h, g, <<>>, <<>>, ls \cup {rd[i] : i \in 1..Len(rd)})
  <1> DEFINE l2 == ls \cup {rd[i] : i \in 1..Len(rd)}
  <1>0. /\ h \in [Promise -> PromiseBox] /\ fr \in [FrameId -> FrameBox] /\ rd \in Seq(FrameId)
        /\ \A q \in Promise : h[q].subscribers \in Seq(FrameId)
        /\ <<>> \in Seq(FrameId) /\ Len(<<>>) = 0 /\ 1..0 = {} /\ Len(rd) \in Nat
    <2>1. h \in [Promise -> PromiseBox] /\ fr \in [FrameId -> FrameBox] /\ rd \in Seq(FrameId)
      BY DEF PlaceOK, PlaceTypes
    <2> QED
      BY <2>1 DEF PromiseBox
  <1>1. PlaceTypes(h, g, <<>>, <<>>)
    BY <1>0 DEF PlaceOK, PlaceTypes
  <1>2. ASSUME NEW f \in FrameId
        PROVE  PlacedOnce(h, g, <<>>, <<>>, l2, f)
    <2>1. PlacedOnce(h, fr, rd, <<>>, ls, f) /\ PlaceSays(h, fr, rd, <<>>, ls, f)
      BY PlaceFacts DEF PlaceOK
    <2>2. /\ Queued(<<>>, <<>>, f) = 0 /\ Queued(rd, <<>>, f) = Count(rd, f)
          /\ Count(rd, f) \in Nat
      <3>1. Count(<<>>, f) = 0
        BY CountSmall
      <3>2. Count(rd, f) \in Nat
        BY <2>1 DEF PlaceSays
      <3> QED
        BY <3>1, <3>2 DEF Queued
    <2>3. WaitsFor(h, g, f) = WaitsFor(h, fr, f) /\ g[f].kind = fr[f].kind /\ g[f].input = fr[f].input
      BY DEF WaitsFor
    <2>4. Count(rd, f) > 0 <=> f \in {rd[i] : i \in 1..Len(rd)}
      <3>1. /\ Count(rd, f) > 0 => \E i \in 1..Len(rd) : rd[i] = f
            /\ \A i \in 1..Len(rd) : rd[i] = f => Count(rd, f) > 0
        BY <1>0, Occurs
      <3> QED
        BY <3>1
    <2>5. CASE Count(rd, f) > 0
      BY <2>1, <2>2, <2>3, <2>4, <2>5 DEF PlacedOnce, PlaceSays
    <2>6. CASE Count(rd, f) = 0
      <3>1. f \in l2 <=> f \in ls
        BY <2>4, <2>6
      <3> HIDE DEF l2
      <3> QED
        BY <2>1, <2>2, <2>3, <2>6, <3>1 DEF PlacedOnce
    <2> QED
      BY <2>2, <2>5, <2>6
  <1>3. Subscribing(h, g)
    <2>1. \A q \in Promise : \A i \in 1..Len(h[q].subscribers) : h[q].subscribers[i] \in FrameId
      BY <1>0
    <2> QED
      BY <2>1 DEF PlaceOK, Subscribing
  <1>4. ReadyInOrder(<<>>, g) /\ RunningChains(<<>>, g)
    BY <1>0 DEF ReadyInOrder, RunningChains
  <1>5. \A p \in Promise : Increasing(h[p].subscribers)
    BY DEF PlaceOK
  <1> QED
    BY <1>1, <1>2, <1>3, <1>4, <1>5 DEF PlaceOK

\* Tokens keep the boxes that continuations need.
LEMMA PlaceTrim ==
    ASSUME NEW h, NEW fr, NEW rd, NEW st, NEW ls, PlaceOK(h, fr, rd, st, ls),
           NEW k, NEW I, NEW ow \in [Promise -> Nat], Held(k, I, ExternalOf(fr, ow)),
           TrimmedHeap(h, k)
    PROVE  PlaceOK(k, fr, rd, st, ls)
  <1>1. k \in [Promise -> PromiseBox]
    BY DEF Held
  <1>2. ASSUME NEW p \in Promise
        PROVE  \/ k[p].result = h[p].result /\ k[p].subscribers = h[p].subscribers
               \/ k[p].subscribers = <<>> /\ \A f \in FrameId : fr[f].input # p
    <2>1. CASE SameData(h[p], k[p])
      BY <2>1 DEF SameData
    <2>2. CASE SameData(NoBox, k[p])
      <3>1. ~k[p].live /\ k[p].subscribers = <<>>
        BY <2>2, NoBoxFacts DEF SameData
      <3>2. ExternalOf(fr, ow)[p] = 0
        BY <3>1, HeldFacts
      <3>3. Cardinality(Consuming(fr, p)) = 0
        <4>1. Cardinality(Consuming(fr, p)) \in Nat /\ ow[p] \in Nat
          BY HolderTypes
        <4> QED
          BY <3>2, <4>1 DEF ExternalOf
      <3>4. Consuming(fr, p) = {}
        <4>1. Consuming(fr, p) \in SUBSET FrameId
          BY DEF Consuming
        <4>2. IsFiniteSet(Consuming(fr, p))
          BY <4>1, Domains, FS_Subset
        <4> QED
          BY <3>3, <4>2, FS_EmptySet
      <3> QED
        BY <3>1, <3>4 DEF Consuming
    <2> QED
      BY <2>1, <2>2 DEF TrimmedHeap, Trimmed
  <1> QED
    BY <1>1, <1>2, PlaceHeap

-----------------------------------------------------------------------------
(* Tokens that come and go together.                                       *)

\* A promise that is not live yet gets its first token.
Unheld(fr, jn, sl, ow, p) ==
    /\ ow[p] = 0 /\ InternalOf(fr, jn, sl)[p] = 0 /\ ExternalOf(fr, ow)[p] = 0
    /\ \A f \in FrameId : fr[f].input # p /\ fr[f].output # p
    /\ \A j \in JoinId : jn[j].output # p
    /\ \A s \in Slots : sl[s] # p

LEMMA DeadIsUnheld ==
    ASSUME NEW h, NEW fr, NEW jn, NEW sl, NEW ow \in [Promise -> Nat],
           Held(h, InternalOf(fr, jn, sl), ExternalOf(fr, ow)),
           NEW p \in Promise, ~h[p].live
    PROVE  Unheld(fr, jn, sl, ow, p) /\ h[p] = NoBox
  <1>1. h[p] = NoBox /\ InternalOf(fr, jn, sl)[p] = 0 /\ ExternalOf(fr, ow)[p] = 0
    BY HeldFacts
  <1> DEFINE A == Consuming(fr, p)
             B == Settling(fr, p)
             C == Joining(jn, p)
             D == Storing(sl, p)
  <1>2. /\ Cardinality(A) \in Nat /\ Cardinality(B) \in Nat
        /\ Cardinality(C) \in Nat /\ Cardinality(D) \in Nat /\ ow[p] \in Nat
    BY HolderTypes
  <1>3. /\ IsFiniteSet(A) /\ IsFiniteSet(B) /\ IsFiniteSet(C) /\ IsFiniteSet(D)
    <2>1. A \in SUBSET FrameId /\ B \in SUBSET FrameId /\ C \in SUBSET JoinId /\ D \in SUBSET Slots
      BY DEF Consuming, Settling, Joining, Storing
    <2> HIDE DEF A, B, C, D
    <2> QED
      BY <2>1, Domains, FS_Subset
  <1>4. /\ InternalOf(fr, jn, sl)[p] = Cardinality(B) + Cardinality(C) + Cardinality(D)
        /\ ExternalOf(fr, ow)[p] = ow[p] + Cardinality(A)
    BY DEF InternalOf, ExternalOf
  <1> HIDE DEF A, B, C, D
  <1>5. /\ Cardinality(A) = 0 /\ Cardinality(B) = 0 /\ Cardinality(C) = 0 /\ Cardinality(D) = 0
        /\ ow[p] = 0
    <2> HIDE DEF A, B, C, D
    <2>1. /\ \A a, b, c \in Nat : a + b + c = 0 => a = 0 /\ b = 0 /\ c = 0
          /\ \A a, b \in Nat : a + b = 0 => a = 0 /\ b = 0
      OBVIOUS
    <2>2. Cardinality(B) + Cardinality(C) + Cardinality(D) = 0 /\ ow[p] + Cardinality(A) = 0
      BY <1>1, <1>4
    <2> QED
      BY <1>2, <2>1, <2>2
  <1>6. A = {} /\ B = {} /\ C = {} /\ D = {}
    BY <1>3, <1>5, FS_EmptySet
  <1>7. /\ \A f \in FrameId : fr[f].input # p /\ fr[f].output # p
        /\ \A j \in JoinId : jn[j].output # p
        /\ \A s \in Slots : sl[s] # p
    BY <1>6 DEF A, B, C, D, Consuming, Settling, Joining, Storing
  <1> QED
    BY <1>1, <1>5, <1>7 DEF Unheld

HeldBy(h, fr, jn, sl, ow) ==
    ow \in [Promise -> Nat] /\ Held(h, InternalOf(fr, jn, sl), ExternalOf(fr, ow))

LEMMA HeldBirth ==
    ASSUME NEW h, NEW fr, NEW jn, NEW sl, NEW ow \in [Promise -> Nat],
           Held(h, InternalOf(fr, jn, sl), ExternalOf(fr, ow)),
           NEW p \in Promise, ~h[p].live, NEW b \in PromiseBox, Holds(b, 0, 1)
    PROVE  HeldBy([h EXCEPT ![p] = b], fr, jn, sl, [ow EXCEPT ![p] = 1])
  <1> DEFINE I == InternalOf(fr, jn, sl)
             E == ExternalOf(fr, ow)
             o == [ow EXCEPT ![p] = 1]
  <1>1. Unheld(fr, jn, sl, ow, p)
    BY DeadIsUnheld
  <1>2. I[p] = 0 /\ E[p] = 0 /\ ow[p] = 0
    BY <1>1 DEF Unheld
  <1>3. o = More(ow, p)
    BY <1>2 DEF More
  <1>4. o \in [Promise -> Nat] /\ ExternalOf(fr, o) = More(E, p)
    <2>1. /\ More(ow, p) \in [Promise -> Nat]
          /\ ExternalOf(fr, More(ow, p)) = More(ExternalOf(fr, ow), p)
      BY OwnedChanges
    <2> QED
      BY <1>3, <2>1
  <1>5. I \in [Promise -> Nat] /\ E \in [Promise -> Nat]
    BY HolderTypes
  <1> HIDE DEF I, E, o
  <1>6. More(E, p) = [E EXCEPT ![p] = 1] /\ [I EXCEPT ![p] = 0] = I
    BY <1>2, <1>5 DEF More
  <1>7. Held([h EXCEPT ![p] = b], [I EXCEPT ![p] = 0], [E EXCEPT ![p] = 1])
    BY OneBox DEF I, E
  <1> QED
    BY <1>4, <1>6, <1>7 DEF I, o, HeldBy

\* A reset of the arena gives back the tokens of the cells in R.
ResetSlots(sl, R) == [s \in Slots |-> IF s \in R THEN Null ELSE sl[s]]

ResetBox(b, n) ==
    IF n = 0 THEN b
    ELSE IF b.references = n THEN NoBox
    ELSE [b EXCEPT !.references = @ - n, !.internal = @ - n]

ResetHeap(h, sl, R) ==
    [p \in Promise |-> ResetBox(h[p], Cardinality({s \in R : sl[s] = p}))]

LEMMA ResetBoxHolds ==
    ASSUME NEW b \in PromiseBox, NEW i \in Nat, NEW e \in Nat, Holds(b, i, e),
           NEW n \in Nat, n <= i
    PROVE  /\ ResetBox(b, n) \in PromiseBox /\ Holds(ResetBox(b, n), i - n, e)
           /\ Trimmed(b, ResetBox(b, n))
  <1>0. b.references = i + e /\ b.internal = i /\ (b.live <=> i + e > 0)
    BY DEF Holds
  <1>1. CASE n = 0
    <2>1. ResetBox(b, n) = b /\ i - n = i
      BY <1>1 DEF ResetBox
    <2> QED
      BY <2>1 DEF Trimmed, SameData
  <1>2. CASE n # 0 /\ i + e = n
    <2>1. ResetBox(b, n) = NoBox
      BY <1>0, <1>2 DEF ResetBox
    <2>2. i - n = 0 /\ e = 0
      BY <1>2
    <2> QED
      BY <2>1, <2>2, NoBoxFacts DEF Trimmed, SameData
  <1>3. CASE n # 0 /\ i + e # n
    <2>1. PICK r, m \in Nat : /\ r = b.references - n /\ r = i - n + e /\ r > 0
                              /\ m = b.internal - n /\ m = i - n
      BY <1>0, <1>3
    <2>2. ResetBox(b, n) = Counters(b, r, m)
      BY <1>0, <1>3, <2>1 DEF ResetBox, Counters
    <2>3. /\ ResetBox(b, n) \in PromiseBox /\ SameData(b, ResetBox(b, n))
          /\ ResetBox(b, n).references = r /\ ResetBox(b, n).internal = m
      <3>1. Recounted(b, Counters(b, r, m), r, m)
        BY <2>1, CountersAre
      <3> QED
        BY <2>2, <3>1 DEF Recounted
    <2>4. Holds(ResetBox(b, n), i - n, e)
      BY <1>0, <2>1, <2>3 DEF Holds, SameData
    <2> QED
      BY <2>3, <2>4 DEF Trimmed
  <1> QED
    BY <1>1, <1>2, <1>3

LEMMA HeldReset ==
    ASSUME NEW h, NEW fr, NEW jn, NEW sl, NEW E, Held(h, InternalOf(fr, jn, sl), E),
           NEW R \in SUBSET Slots
    PROVE  /\ Held(ResetHeap(h, sl, R), InternalOf(fr, jn, ResetSlots(sl, R)), E)
           /\ TrimmedHeap(h, ResetHeap(h, sl, R))
  <1> DEFINE I == InternalOf(fr, jn, sl)
             K == InternalOf(fr, jn, ResetSlots(sl, R))
             k == ResetHeap(h, sl, R)
  <1>1. ASSUME NEW p \in Promise
        PROVE  /\ k[p] \in PromiseBox /\ K[p] \in Nat /\ E[p] \in Nat
               /\ Holds(k[p], K[p], E[p]) /\ Trimmed(h[p], k[p])
    <2> DEFINE A == Storing(sl, p)
               B == {s \in R : sl[s] = p}
               C == Storing(ResetSlots(sl, R), p)
               n == Cardinality(B)
               x == Cardinality(Settling(fr, p))
               y == Cardinality(Joining(jn, p))
    <2>1. A \subseteq Slots /\ B \subseteq A /\ C = A \ B
      BY Domains DEF Storing, ResetSlots
    <2>2. x \in Nat /\ y \in Nat
      <3>1. [q \in Promise |-> 0] \in [Promise -> Nat]
        OBVIOUS
      <3> QED
        BY <3>1, HolderTypes
    <2>3. I[p] = x + y + Cardinality(A) /\ K[p] = x + y + Cardinality(C)
      BY DEF InternalOf
    <2>4. k[p] = ResetBox(h[p], n)
      BY DEF ResetHeap
    <2>5. h[p] \in PromiseBox /\ I[p] \in Nat /\ E[p] \in Nat /\ Holds(h[p], I[p], E[p])
      BY HeldFacts
    <2> HIDE DEF A, B, C, I, K, k, x, y
    <2>6. IsFiniteSet(A) /\ IsFiniteSet(B) /\ IsFiniteSet(C)
      BY <2>1, Domains, FS_Subset
    <2>7. n \in Nat /\ Cardinality(A) \in Nat /\ Cardinality(C) \in Nat
      BY <2>6, FS_CardinalityType
    <2>8. Cardinality(C) = Cardinality(A) - n
      <3>1. Cardinality(A \ B) = Cardinality(A) - Cardinality(A \cap B)
        BY <2>6, FS_Difference
      <3>2. A \cap B = B
        BY <2>1
      <3> QED
        BY <2>1, <3>1, <3>2
    <2> HIDE DEF n
    <2>9. n <= I[p] /\ K[p] = I[p] - n /\ K[p] \in Nat
      BY <2>2, <2>3, <2>7, <2>8
    <2>10. /\ ResetBox(h[p], n) \in PromiseBox /\ Holds(ResetBox(h[p], n), I[p] - n, E[p])
           /\ Trimmed(h[p], ResetBox(h[p], n))
      BY <2>5, <2>7, <2>9, ResetBoxHolds
    <2> QED
      BY <2>4, <2>5, <2>9, <2>10
  <1>2. k = [p \in Promise |-> k[p]] /\ K = [p \in Promise |-> K[p]] /\ E \in [Promise -> Nat]
    BY DEF ResetHeap, InternalOf, Held
  <1> HIDE DEF k, K
  <1>3. k \in [Promise -> PromiseBox] /\ K \in [Promise -> Nat]
    BY <1>1, <1>2
  <1> QED
    BY <1>1, <1>2, <1>3 DEF Held, TrimmedHeap, k, K
=============================================================================
