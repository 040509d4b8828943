---------------------- MODULE ThreadsafeFunctionProofs ----------------------
(***************************************************************************)
(* Proofs that the safety properties of ThreadsafeFunction hold for every  *)
(* set of owners, queue limit and nesting depth.                           *)
(***************************************************************************)
EXTENDS ThreadsafeFunction, FiniteSetTheorems, SequenceTheorems, TLAPS

-----------------------------------------------------------------------------
(* The Host's stack.                                                       *)

(* Below the top of the stack the Host is always in addon code.            *)
FrameShape ==
    \A i \in DOMAIN frames :
        /\ frames[i].popped => frames[i].pc = "call"
        /\ i # Len(frames) =>
              frames[i].popped \/ frames[i].pc = "finalizer"

InFlightCount == callbacksInFlight = Cardinality(CallsRunning)

LiveCount == live = IF liveReleased THEN 0 ELSE 1

StackInv ==
    /\ TypeOK
    /\ FrameShape
    /\ InFlightCount
    /\ LiveCount
    /\ waiting \cap woken = {}

(* What the three changes of the stack do to it. *)
LEMMA PushFrame ==
    ASSUME NEW S, NEW s \in Seq(S), NEW x \in S
    PROVE  /\ Append(s, x) \in Seq(S)
           /\ Len(Append(s, x)) = Len(s) + 1
           /\ DOMAIN Append(s, x) = DOMAIN s \cup {Len(s) + 1}
           /\ \A i \in DOMAIN s : Append(s, x)[i] = s[i]
           /\ Append(s, x)[Len(s) + 1] = x
  OBVIOUS

LEMMA ReplaceTop ==
    ASSUME NEW S, NEW s \in Seq(S), s # <<>>, NEW x \in S
    PROVE  LET r == [s EXCEPT ![Len(s)] = x] IN
           /\ r \in Seq(S)
           /\ Len(r) = Len(s)
           /\ DOMAIN r = DOMAIN s
           /\ Len(s) \in DOMAIN s
           /\ \A i \in DOMAIN s : i # Len(s) => r[i] = s[i]
           /\ r[Len(s)] = x
  OBVIOUS

LEMMA PopFrame ==
    ASSUME NEW S, NEW s \in Seq(S), s # <<>>
    PROVE  LET r == SubSeq(s, 1, Len(s) - 1) IN
           /\ r \in Seq(S)
           /\ Len(r) = Len(s) - 1
           /\ DOMAIN r = DOMAIN s \ {Len(s)}
           /\ \A i \in DOMAIN r : r[i] = s[i]
  <1>1. Len(s) \in Nat \ {0} /\ DOMAIN s = 1 .. Len(s)
    OBVIOUS
  <1>2. \A i \in 1 .. Len(s) - 1 : s[i] \in S
    BY <1>1
  <1> QED
    BY <1>1, <1>2, SubSeqProperties

LEMMA StackIsFinite ==
    ASSUME NEW S, NEW s \in Seq(S), NEW T, T \subseteq DOMAIN s
    PROVE  IsFiniteSet(T)
  <1>1. DOMAIN s = 1 .. Len(s) /\ Len(s) \in Nat
    OBVIOUS
  <1>2. IsFiniteSet(1 .. Len(s))
    BY <1>1, FS_Interval
  <1> QED
    BY <1>1, <1>2, FS_Subset

LEMMA StackInvInit == Init => StackInv
  <1> SUFFICES ASSUME Init PROVE StackInv
    OBVIOUS
  <1>1. Cardinality(InitialOwners) \in Nat
    BY OwnersAssumption, FS_Subset, FS_CardinalityType
  <1>2. TypeOK
    <2>1. <<>> \in Seq(Nat) /\ <<>> \in Seq(Frame)
      OBVIOUS
    <2> QED
      BY <1>1, <2>1, OwnersAssumption DEF Init, TypeOK
  <1>3. CallsRunning = {}
    BY DEF Init, CallsRunning
  <1> QED
    BY <1>2, <1>3, FS_EmptySet
    DEF Init, StackInv, FrameShape, InFlightCount, LiveCount

(* An action that leaves the stack alone and keeps the types keeps the     *)
(* invariant.                                                              *)
LEMMA StackUntouched ==
    ASSUME StackInv, TypeOK', LiveCount', (waiting \cap woken = {})',
           UNCHANGED <<frames, callbacksInFlight>>
    PROVE  StackInv'
  BY DEF StackInv, FrameShape, InFlightCount, CallsRunning

LEMMA StackInvCall ==
    ASSUME StackInv, NEW t \in Owners, Call(t) \/ Resume(t)
    PROVE  StackInv'
  <1> USE DEF StackInv, Call, Resume, CanCall
  <1>1. t \in Owners /\ t \notin waiting
    OBVIOUS
  <1>2. CASE Closing(t)
    <2>1. TypeOK'
      BY <1>1, <1>2 DEF Closing, ScheduleIf, RetireIfReady, TypeOK,
                        LiveCount, state
    <2>2. LiveCount'
      BY <1>2 DEF Closing, RetireIfReady, LiveCount, TypeOK
    <2> QED
      BY <1>1, <1>2, <2>1, <2>2, StackUntouched DEF Closing
  <1>3. CASE Accept
    <2>1. TypeOK'
      BY <1>3 DEF Accept, ScheduleIf, TypeOK
    <2> QED
      BY <1>1, <1>3, <2>1, StackUntouched DEF Accept, LiveCount
  <1>4. CASE Wait(t)
    <2>1. TypeOK'
      BY <1>4 DEF Wait, TypeOK, state, ghost
    <2> QED
      BY <1>1, <1>4, <2>1, StackUntouched DEF Wait, LiveCount, state, ghost
  <1> QED
    BY <1>2, <1>3, <1>4

LEMMA StackInvOwner ==
    ASSUME StackInv, NEW t \in Owners,
           \/ SpuriousWakeup(t)
           \/ \E abort \in BOOLEAN : Release(t, abort)
           \/ \E u \in Owners : Acquire(t, u)
    PROVE  StackInv'
  <1> USE DEF StackInv
  <1>1. CASE SpuriousWakeup(t)
    <2>1. TypeOK'
      BY <1>1 DEF SpuriousWakeup, TypeOK, state, ghost
    <2> QED
      BY <1>1, <2>1, StackUntouched DEF SpuriousWakeup, LiveCount, state
  <1>2. ASSUME NEW abort \in BOOLEAN, Release(t, abort)
        PROVE  StackInv'
    <2>1. TypeOK'
      BY <1>2 DEF Release, CanCall, ScheduleIf, RetireIfReady, TypeOK,
                  LiveCount
    <2>2. LiveCount'
      BY <1>2 DEF Release, RetireIfReady, LiveCount, TypeOK
    <2> QED
      BY <1>2, <2>1, <2>2, StackUntouched DEF Release
  <1>3. ASSUME NEW u \in Owners, Acquire(t, u)
        PROVE  StackInv'
    <2>1. TypeOK'
      BY <1>3 DEF Acquire, TypeOK
    <2> QED
      BY <1>3, <2>1, StackUntouched DEF Acquire, LiveCount
  <1> QED
    BY <1>1, <1>2, <1>3

LEMMA StackInvRef ==
    ASSUME StackInv,
           \/ \E call \in {"ref", "unref"} : RefBegin(call)
           \/ RefSwap \/ PollFoundNothing \/ LeaveOrPollAgain
    PROVE  StackInv'
  <1>1. TypeOK'
    <2>0. TypeOK
      BY DEF StackInv
    <2>1. ASSUME NEW call \in {"ref", "unref"}, RefBegin(call)
          PROVE  TypeOK'
      BY <2>0, <2>1 DEF RefBegin, TypeOK, state, ghost
    <2>2. CASE RefSwap
      <3>1. referenced' \in BOOLEAN
        BY <2>2 DEF RefSwap
      <3> QED
        BY <2>0, <2>2, <3>1 DEF RefSwap, TypeOK, state, ghost
    <2>3. CASE PollFoundNothing
      BY <2>0, <2>3 DEF PollFoundNothing, TypeOK, state, ghost
    <2>4. CASE LeaveOrPollAgain
      BY <2>0, <2>4 DEF LeaveOrPollAgain, TypeOK, state, ghost
    <2> QED
      BY <2>1, <2>2, <2>3, <2>4
  <1> QED
    BY <1>1, StackUntouched
    DEF StackInv, LiveCount, RefBegin, RefSwap, PollFoundNothing,
        LeaveOrPollAgain, state

(* What each step of the Host does to its stack. *)

LEMMA TakeFrames ==
    ASSUME StackInv, TakeReadyEvent
    PROVE  /\ frames' \in Seq(Frame)
           /\ Len(frames') = Len(frames) + 1
           /\ DOMAIN frames' = DOMAIN frames \cup {Len(frames) + 1}
           /\ \A i \in DOMAIN frames : frames'[i] = frames[i]
           /\ frames'[Len(frames) + 1] = Taken
           /\ CallsRunning' = CallsRunning
  <1>1. frames \in Seq(Frame) /\ Taken \in Frame
    BY DEF StackInv, TypeOK, Taken, Frame
  <1>2. frames' = Append(frames, Taken)
    BY DEF TakeReadyEvent
  <1>3. /\ frames' \in Seq(Frame)
        /\ Len(frames') = Len(frames) + 1
        /\ DOMAIN frames' = DOMAIN frames \cup {Len(frames) + 1}
        /\ \A i \in DOMAIN frames : frames'[i] = frames[i]
        /\ frames'[Len(frames) + 1] = Taken
    BY <1>1, <1>2, PushFrame
  <1>4. DOMAIN frames = 1 .. Len(frames)
    BY <1>1
  <1>5. CallsRunning' = CallsRunning
    BY <1>3, <1>4 DEF CallsRunning, Taken
  <1> QED
    BY <1>3, <1>5

LEMMA BeginFrames ==
    ASSUME StackInv, BeginCallback
    PROVE  LET n == Len(frames) IN
           /\ frames' \in Seq(Frame)
           /\ Len(frames') = n
           /\ DOMAIN frames' = DOMAIN frames
           /\ n \in DOMAIN frames
           /\ \A i \in DOMAIN frames : i # n => frames'[i] = frames[i]
           /\ frames[n].pc = "taken"
           /\ frames'[n].pc = "call"
           /\ frames'[n].popped <=> queue # <<>>
           /\ IsFiniteSet(CallsRunning)
           /\ n \notin CallsRunning
           /\ CallsRunning' = IF queue # <<>> THEN CallsRunning \cup {n}
                                              ELSE CallsRunning
  <1> DEFINE n == Len(frames)
  <1>1. /\ frames \in Seq(Frame) /\ frames # <<>>
        /\ frames[n].pc = "taken" /\ ~frames[n].popped
    <2>1. frames \in Seq(Frame) /\ TopIs("taken")
      BY DEF StackInv, TypeOK, BeginCallback
    <2> QED
      BY <2>1 DEF TopIs, Top, StackInv, FrameShape
  <1>2. IsFiniteSet(CallsRunning) /\ n \notin CallsRunning
    <2>1. CallsRunning \subseteq DOMAIN frames
      BY DEF CallsRunning
    <2> QED
      BY <1>1, <2>1, StackIsFinite DEF CallsRunning
  <1>3. PICK b \in BOOLEAN :
          /\ frames' = SetTop([pc |-> "call", popped |-> b])
          /\ b <=> queue # <<>>
    BY DEF BeginCallback
  <1>4. /\ frames' \in Seq(Frame)
        /\ Len(frames') = n
        /\ DOMAIN frames' = DOMAIN frames
        /\ n \in DOMAIN frames
        /\ \A i \in DOMAIN frames : i # n => frames'[i] = frames[i]
        /\ frames'[n] = [pc |-> "call", popped |-> b]
    <2>1. [pc |-> "call", popped |-> b] \in Frame
      BY DEF Frame
    <2> QED
      BY <1>1, <1>3, <2>1, ReplaceTop DEF SetTop
  <1>5. CallsRunning' = IF b THEN CallsRunning \cup {n} ELSE CallsRunning
    BY <1>2, <1>4 DEF CallsRunning
  <1> QED
    BY <1>1, <1>2, <1>3, <1>4, <1>5

(* The top frame leaves, or it is the one that finalizes. *)
LEMMA EndFrames ==
    ASSUME StackInv, EndCallback
    PROVE  LET n == Len(frames)
               finalize == FinalizeNow(callbacksInFlight') IN
           /\ frames' \in Seq(Frame)
           /\ n \in DOMAIN frames /\ frames[n].pc = "call"
           /\ Len(frames') = IF finalize THEN n ELSE n - 1
           /\ DOMAIN frames' = IF finalize THEN DOMAIN frames
                                           ELSE DOMAIN frames \ {n}
           /\ \A i \in DOMAIN frames' : i # n => frames'[i] = frames[i]
           /\ finalize => frames'[n] = [pc |-> "finalize", popped |-> FALSE]
           /\ IsFiniteSet(CallsRunning)
           /\ CallsRunning' = CallsRunning \ {n}
           /\ callbacksInFlight' = Cardinality(CallsRunning \ {n})
  <1> DEFINE n == Len(frames)
             finalize == FinalizeNow(callbacksInFlight')
  <1>1. frames \in Seq(Frame) /\ frames # <<>> /\ frames[n].pc = "call"
    BY DEF StackInv, TypeOK, EndCallback, TopIs, Top
  <1>2. IsFiniteSet(CallsRunning)
    <2>1. CallsRunning \subseteq DOMAIN frames
      BY DEF CallsRunning
    <2> QED
      BY <1>1, <2>1, StackIsFinite
  <1>3. n \in DOMAIN frames /\ (n \in CallsRunning <=> Top.popped)
    BY <1>1 DEF CallsRunning, Top
  <1>4. callbacksInFlight' = Cardinality(CallsRunning \ {n})
    BY <1>2, <1>3, FS_RemoveElement DEF EndCallback, StackInv, InFlightCount
  <1>5. CASE finalize
    <2>1. [pc |-> "finalize", popped |-> FALSE] \in Frame
      BY DEF Frame
    <2>2. frames' = [frames EXCEPT ![n] = [pc |-> "finalize",
                                           popped |-> FALSE]]
      BY <1>5 DEF EndCallback, SetTop
    <2>3. /\ frames' \in Seq(Frame)
          /\ Len(frames') = n
          /\ DOMAIN frames' = DOMAIN frames
          /\ \A i \in DOMAIN frames : i # n => frames'[i] = frames[i]
          /\ frames'[n] = [pc |-> "finalize", popped |-> FALSE]
      BY <1>1, <2>1, <2>2, ReplaceTop
    <2>4. CallsRunning' = CallsRunning \ {n}
      BY <1>3, <2>3 DEF CallsRunning
    <2> QED
      BY <1>1, <1>2, <1>3, <1>4, <1>5, <2>3, <2>4
  <1>6. CASE ~finalize
    <2>1. frames' = SubSeq(frames, 1, n - 1)
      BY <1>6 DEF EndCallback, Below
    <2>2. /\ frames' \in Seq(Frame)
          /\ Len(frames') = n - 1
          /\ DOMAIN frames' = DOMAIN frames \ {n}
          /\ \A i \in DOMAIN frames' : frames'[i] = frames[i]
      BY <1>1, <2>1, PopFrame
    <2>3. CallsRunning' = CallsRunning \ {n}
      BY <2>2 DEF CallsRunning
    <2> QED
      BY <1>1, <1>2, <1>3, <1>4, <1>6, <2>2, <2>3
  <1> QED
    BY <1>5, <1>6

LEMMA BeginFinalizerFrames ==
    ASSUME StackInv, BeginFinalizer
    PROVE  LET n == Len(frames) IN
           /\ frames' \in Seq(Frame)
           /\ Len(frames') = n
           /\ DOMAIN frames' = DOMAIN frames
           /\ n \in DOMAIN frames /\ frames[n].pc = "finalize"
           /\ \A i \in DOMAIN frames : i # n => frames'[i] = frames[i]
           /\ frames'[n] = [pc |-> "finalizer", popped |-> FALSE]
           /\ CallsRunning' = CallsRunning
  <1> DEFINE n == Len(frames)
  <1>1. /\ frames \in Seq(Frame) /\ frames # <<>>
        /\ frames[n].pc = "finalize" /\ ~frames[n].popped
    <2>1. frames \in Seq(Frame) /\ TopIs("finalize")
      BY DEF StackInv, TypeOK, BeginFinalizer
    <2> QED
      BY <2>1 DEF TopIs, Top, StackInv, FrameShape
  <1>2. [pc |-> "finalizer", popped |-> FALSE] \in Frame
    BY DEF Frame
  <1>3. frames' = [frames EXCEPT ![n] = [pc |-> "finalizer",
                                         popped |-> FALSE]]
    BY DEF BeginFinalizer, SetTop
  <1>4. /\ frames' \in Seq(Frame)
        /\ Len(frames') = n
        /\ DOMAIN frames' = DOMAIN frames
        /\ n \in DOMAIN frames
        /\ \A i \in DOMAIN frames : i # n => frames'[i] = frames[i]
        /\ frames'[n] = [pc |-> "finalizer", popped |-> FALSE]
    BY <1>1, <1>2, <1>3, ReplaceTop
  <1>5. CallsRunning' = CallsRunning
    BY <1>1, <1>4 DEF CallsRunning
  <1> QED
    BY <1>1, <1>4, <1>5

LEMMA EndFinalizerFrames ==
    ASSUME StackInv, EndFinalizer
    PROVE  LET n == Len(frames) IN
           /\ frames' \in Seq(Frame)
           /\ Len(frames') = n - 1
           /\ DOMAIN frames' = DOMAIN frames \ {n}
           /\ n \in DOMAIN frames /\ frames[n].pc = "finalizer"
           /\ \A i \in DOMAIN frames' : frames'[i] = frames[i]
           /\ CallsRunning' = CallsRunning
  <1> DEFINE n == Len(frames)
  <1>1. /\ frames \in Seq(Frame) /\ frames # <<>>
        /\ frames[n].pc = "finalizer" /\ ~frames[n].popped
    <2>1. frames \in Seq(Frame) /\ TopIs("finalizer")
      BY DEF StackInv, TypeOK, EndFinalizer
    <2> QED
      BY <2>1 DEF TopIs, Top, StackInv, FrameShape
  <1>2. frames' = SubSeq(frames, 1, n - 1)
    BY DEF EndFinalizer, Below
  <1>3. /\ frames' \in Seq(Frame)
        /\ Len(frames') = n - 1
        /\ DOMAIN frames' = DOMAIN frames \ {n}
        /\ \A i \in DOMAIN frames' : frames'[i] = frames[i]
    BY <1>1, <1>2, PopFrame
  <1>4. n \in DOMAIN frames
    BY <1>1
  <1>5. CallsRunning' = CallsRunning
    BY <1>1, <1>3 DEF CallsRunning
  <1> QED
    BY <1>1, <1>3, <1>4, <1>5

LEMMA StackInvHost ==
    ASSUME StackInv,
           \/ TakeReadyEvent \/ BeginCallback \/ EndCallback
           \/ BeginFinalizer \/ EndFinalizer
    PROVE  StackInv'
  <1> USE DEF StackInv
  <1>1. CASE TakeReadyEvent
    <2>1. TypeOK'
      BY <1>1, TakeFrames DEF TakeReadyEvent, TypeOK, state, ghost
    <2>2. frames # <<>> => Top.popped \/ Top.pc = "finalizer"
      BY <1>1 DEF TakeReadyEvent, HostInAddonCode, TopIs
    <2>3. frames \in Seq(Frame)
      BY DEF TypeOK
    <2>4. FrameShape'
      BY <1>1, <2>2, <2>3, TakeFrames DEF FrameShape, Taken, Top
    <2> QED
      BY <1>1, <2>1, <2>4, TakeFrames
      DEF TakeReadyEvent, InFlightCount, LiveCount, state
  <1>2. CASE BeginCallback
    <2>1. FrameShape'
      BY <1>2, BeginFrames DEF FrameShape
    <2>2. InFlightCount'
      <3>1. CASE queue = <<>>
        BY <1>2, <3>1, BeginFrames DEF BeginCallback, InFlightCount
      <3>2. CASE queue # <<>>
        <4>1. CallsRunning' = CallsRunning \cup {Len(frames)}
          BY <1>2, <3>2, BeginFrames
        <4>2. Cardinality(CallsRunning') = Cardinality(CallsRunning) + 1
          BY <1>2, <4>1, BeginFrames, FS_AddElement
        <4> QED
          BY <1>2, <3>2, <4>2 DEF BeginCallback, InFlightCount
      <3> QED
        BY <3>1, <3>2
    <2>3. queue' \in Seq(Nat) /\ begun' \in Seq(Nat)
      <3>1. queue \in Seq(Nat) /\ begun \in Seq(Nat)
        BY DEF TypeOK
      <3>2. queue # <<>> => Head(queue) \in Nat /\ Tail(queue) \in Seq(Nat)
        BY <3>1, HeadTailProperties
      <3>3. queue # <<>> => Append(begun, Head(queue)) \in Seq(Nat)
        BY <3>1, <3>2
      <3> QED
        BY <1>2, <3>1, <3>2, <3>3 DEF BeginCallback
    <2>4. /\ waiting' \subseteq held' /\ woken' \subseteq held'
          /\ waiting' \cap woken' = {}
      BY <1>2 DEF BeginCallback, NotifyOne, TypeOK
    <2>5. ready' \in Nat /\ callbacksInFlight' \in Nat
      BY <1>2 DEF BeginCallback, TypeOK
    <2>6. scheduled' \in BOOLEAN
      BY <1>2, Zenon DEF BeginCallback
    <2>7. TypeOK'
      BY <1>2, <2>3, <2>4, <2>5, <2>6, BeginFrames DEF BeginCallback, TypeOK
    <2> QED
      BY <1>2, <2>1, <2>2, <2>4, <2>7 DEF BeginCallback, LiveCount
  <1>3. CASE EndCallback
    <2>1. FrameShape'
      BY <1>3, EndFrames DEF FrameShape
    <2>2. callbacksInFlight' \in Nat
      BY <1>3, EndFrames, FS_RemoveElement, FS_CardinalityType
    <2>3. TypeOK'
      BY <1>3, <2>2, EndFrames DEF EndCallback, TypeOK, ghost
    <2> QED
      BY <1>3, <2>1, <2>3, EndFrames
      DEF EndCallback, InFlightCount, LiveCount
  <1>4. CASE BeginFinalizer
    <2>1. FrameShape'
      BY <1>4, BeginFinalizerFrames DEF FrameShape
    <2>2. TypeOK'
      BY <1>4, BeginFinalizerFrames DEF BeginFinalizer, TypeOK, state, ghost
    <2> QED
      BY <1>4, <2>1, <2>2, BeginFinalizerFrames
      DEF BeginFinalizer, InFlightCount, LiveCount, state
  <1>5. CASE EndFinalizer
    <2>1. FrameShape'
      BY <1>5, EndFinalizerFrames DEF FrameShape
    <2>2. liveReleased' \in BOOLEAN
      BY <1>5, Zenon DEF EndFinalizer, RetireIfReady
    <2>3. live' \in Nat /\ LiveCount'
      <3>1. RetireIfReady(TRUE, threadCount)
        BY <1>5 DEF EndFinalizer
      <3>2. CASE threadCount = 0 /\ ~liveReleased
        <4>1. liveReleased' /\ live' = live - 1
          BY <3>1, <3>2, Zenon DEF RetireIfReady
        <4> QED
          BY <3>2, <4>1 DEF LiveCount
      <3>3. CASE ~(threadCount = 0 /\ ~liveReleased)
        <4>1. (liveReleased' <=> liveReleased) /\ live' = live
          BY <3>1, <3>3, Zenon DEF RetireIfReady
        <4> QED
          BY <4>1 DEF LiveCount, TypeOK
      <3> QED
        BY <3>2, <3>3
    <2>4. TypeOK'
      BY <1>5, <2>2, <2>3, EndFinalizerFrames DEF EndFinalizer, TypeOK, ghost
    <2> QED
      BY <1>5, <2>1, <2>3, <2>4, EndFinalizerFrames
      DEF EndFinalizer, InFlightCount
  <1> QED
    BY <1>1, <1>2, <1>3, <1>4, <1>5

LEMMA StackInvNext == StackInv /\ [Next]_vars => StackInv'
  <1> SUFFICES ASSUME StackInv, [Next]_vars PROVE StackInv'
    OBVIOUS
  <1>1. CASE UNCHANGED vars
    BY <1>1 DEF vars, state, ghost, StackInv, TypeOK, FrameShape,
                InFlightCount, CallsRunning, LiveCount
  <1> QED
    BY <1>1, StackInvCall, StackInvOwner, StackInvRef, StackInvHost DEF Next

LEMMA StackInvAlways == Spec => []StackInv
  BY StackInvInit, StackInvNext, PTL DEF Spec

(* Type correctness for every set of owners, queue limit and nesting.      *)
THEOREM TypeCorrect == Spec => []TypeOK
  <1>1. StackInv => TypeOK
    BY DEF StackInv
  <1> QED
    BY <1>1, StackInvAlways, PTL

-----------------------------------------------------------------------------
(* Finalization.  FinalizedIsQuiescent alone is not inductive: that no     *)
(* ref is half done when the finalizer is chosen, and that one frame at    *)
(* most finalizes, have to be carried along.                               *)

Finalizing(i) == frames[i].pc \in {"finalize", "finalizer"}

FinalInv ==
    /\ FinalizedIsQuiescent
    /\ FinalizedIsUnreferenced
    /\ refCall # "none" => ~finalized
    /\ finalizerCompleted => finalized
    /\ \A i \in DOMAIN frames :
          Finalizing(i) => finalized /\ ~finalizerCompleted
    /\ \A i, j \in DOMAIN frames : Finalizing(i) /\ Finalizing(j) => i = j

LEMMA FinalInvInit == Init => FinalInv
  BY DEF Init, FinalInv, FinalizedIsQuiescent, FinalizedIsUnreferenced

(* A step that leaves the stack and the finalization alone keeps FinalInv  *)
(* if it accepts no call after closing.                                    *)
LEMMA FinalUntouched ==
    ASSUME FinalInv,
           UNCHANGED <<frames, finalized, finalizerCompleted, referenced,
                       refCall>>,
           closing => closing',
           finalized => queue' = queue
    PROVE  FinalInv'
  BY DEF FinalInv, FinalizedIsQuiescent, FinalizedIsUnreferenced,
         CallsRunning, Finalizing

LEMMA FinalInvOwner ==
    ASSUME FinalInv, NEW t \in Owners,
           \/ Call(t) \/ Resume(t) \/ SpuriousWakeup(t)
           \/ \E abort \in BOOLEAN : Release(t, abort)
           \/ \E u \in Owners : Acquire(t, u)
    PROVE  FinalInv'
  <1>1. CASE Call(t) \/ Resume(t)
    <2>1. CASE Closing(t)
      BY <1>1, <2>1, FinalUntouched DEF Call, Resume, Closing
    <2>2. CASE Accept
      BY <1>1, <2>2, FinalUntouched
      DEF Call, Resume, Accept, FinalInv, FinalizedIsQuiescent
    <2>3. CASE Wait(t)
      BY <1>1, <2>3, FinalUntouched DEF Call, Resume, Wait, state
    <2> QED
      BY <1>1, <2>1, <2>2, <2>3 DEF Call, Resume
  <1>2. CASE SpuriousWakeup(t)
    BY <1>2, FinalUntouched DEF SpuriousWakeup, state
  <1>3. ASSUME NEW abort \in BOOLEAN, Release(t, abort) PROVE FinalInv'
    BY <1>3, FinalUntouched DEF Release
  <1>4. ASSUME NEW u \in Owners, Acquire(t, u) PROVE FinalInv'
    BY <1>4, FinalUntouched DEF Acquire
  <1> QED
    BY <1>1, <1>2, <1>3, <1>4

LEMMA FinalInvHost ==
    ASSUME StackInv, FinalInv,
           \/ TakeReadyEvent \/ BeginCallback \/ EndCallback
           \/ BeginFinalizer \/ EndFinalizer
    PROVE  FinalInv'
  <1> USE DEF FinalInv, FinalizedIsQuiescent, FinalizedIsUnreferenced,
              Finalizing
  <1>1. CASE TakeReadyEvent
    BY <1>1, TakeFrames DEF TakeReadyEvent, Taken, state
  <1>2. CASE BeginCallback
    <2>1. finalized => queue = <<>> /\ queue' = queue
      BY <1>2 DEF BeginCallback
    <2> QED
      BY <1>2, <2>1, BeginFrames DEF BeginCallback
  <1>3. CASE EndCallback
    <2> DEFINE n == Len(frames)
    <2>1. CASE FinalizeNow(callbacksInFlight')
      <3>1. CallsRunning' = {}
        <4>1. IsFiniteSet(CallsRunning \ {n})
          BY <1>3, EndFrames, FS_RemoveElement
        <4> QED
          BY <1>3, <2>1, <4>1, EndFrames, FS_EmptySet DEF FinalizeNow
      <3>2. \A i \in DOMAIN frames : ~Finalizing(i)
        BY <2>1 DEF FinalizeNow
      <3>3. \A i \in DOMAIN frames' : Finalizing(i)' => i = n
        BY <1>3, <2>1, <3>2, EndFrames
      <3>4. /\ finalized' /\ closing' /\ queue' = <<>> /\ refCall' = "none"
            /\ ~finalizerCompleted'
        BY <1>3, <2>1 DEF EndCallback, FinalizeNow
      <3>5. n \in DOMAIN frames' /\ frames'[n].pc = "finalize"
        BY <1>3, <2>1, EndFrames
      <3> QED
        BY <3>1, <3>3, <3>4, <3>5
    <2>2. CASE ~FinalizeNow(callbacksInFlight')
      <3>1. UNCHANGED <<finalized, closing, queue, refCall, referenced,
                        finalizerCompleted>>
        <4>1. finalized' = finalized
          BY <1>3, <2>2 DEF EndCallback, StackInv, TypeOK
        <4> QED
          BY <1>3, <4>1 DEF EndCallback
      <3>2. /\ DOMAIN frames' \subseteq DOMAIN frames
            /\ \A i \in DOMAIN frames' : frames'[i] = frames[i]
            /\ \A i \in DOMAIN frames : frames[i].pc = "finalize" =>
                  i \in DOMAIN frames'
        BY <1>3, <2>2, EndFrames
      <3>3. CallsRunning' \subseteq CallsRunning
        BY <1>3, EndFrames
      <3> QED
        BY <3>1, <3>2, <3>3
    <2> QED
      BY <2>1, <2>2
  <1>4. CASE BeginFinalizer
    BY <1>4, BeginFinalizerFrames DEF BeginFinalizer, state
  <1>5. CASE EndFinalizer
    <2>1. finalized
      BY <1>5, EndFinalizerFrames
    <2>2. \A i \in DOMAIN frames' : ~Finalizing(i)'
      BY <1>5, EndFinalizerFrames
    <2>3. \A i \in DOMAIN frames : frames[i].pc # "finalize"
      BY <1>5, EndFinalizerFrames
    <2> QED
      BY <1>5, <2>1, <2>2, <2>3, EndFinalizerFrames DEF EndFinalizer
  <1> QED
    BY <1>1, <1>2, <1>3, <1>4, <1>5

LEMMA FinalInvNext == StackInv /\ FinalInv /\ [Next]_vars => FinalInv'
  <1> SUFFICES ASSUME StackInv, FinalInv, [Next]_vars PROVE FinalInv'
    OBVIOUS
  <1>1. CASE UNCHANGED vars
    BY <1>1, FinalUntouched DEF vars, state
  <1>2. ASSUME NEW call \in {"ref", "unref"}, RefBegin(call)
        PROVE  FinalInv'
    BY <1>2
    DEF RefBegin, state, FinalInv, FinalizedIsQuiescent,
        FinalizedIsUnreferenced, CallsRunning, Finalizing
  <1>3. CASE RefSwap
    BY <1>3
    DEF RefSwap, state, FinalInv, FinalizedIsQuiescent,
        FinalizedIsUnreferenced, CallsRunning, Finalizing
  <1>4. CASE PollFoundNothing \/ LeaveOrPollAgain
    BY <1>4, FinalUntouched DEF PollFoundNothing, LeaveOrPollAgain, state
  <1> QED
    BY <1>1, <1>2, <1>3, <1>4, FinalInvOwner, FinalInvHost DEF Next

LEMMA FinalInvAlways == Spec => [](StackInv /\ FinalInv)
  BY StackInvAlways, FinalInvInit, FinalInvNext, PTL DEF Spec

(* No call is queued, running or accepted once the function is finalized.  *)
THEOREM FinalizationQuiescent == Spec => []FinalizedIsQuiescent
  <1>1. FinalInv => FinalizedIsQuiescent
    BY DEF FinalInv
  <1> QED
    BY <1>1, FinalInvAlways, PTL

(* A finalized function no longer keeps the Host's loop alive.             *)
THEOREM FinalizationUnreferences == Spec => []FinalizedIsUnreferenced
  <1>1. FinalInv => FinalizedIsUnreferenced
    BY DEF FinalInv
  <1> QED
    BY <1>1, FinalInvAlways, PTL

(* No frame starts to finalize a function that is already finalized.       *)
THEOREM FinalizerRunsOnce == Spec => FinalizesOnce
  <1> DEFINE A == finalized => \A i \in DOMAIN frames' :
                    frames'[i].pc = "finalize" =>
                       i \in DOMAIN frames /\ frames[i].pc = "finalize"
  <1>1. StackInv /\ [Next]_vars => [A]_vars
    <2> SUFFICES ASSUME StackInv, Next, finalized,
                        NEW i \in DOMAIN frames',
                        frames'[i].pc = "finalize"
                 PROVE  i \in DOMAIN frames /\ frames[i].pc = "finalize"
      BY DEF vars
    <2>1. CASE TakeReadyEvent
      BY <2>1, TakeFrames DEF Taken
    <2>2. CASE BeginCallback
      BY <2>2, BeginFrames
    <2>3. CASE EndCallback
      BY <2>3, EndFrames DEF FinalizeNow
    <2>4. CASE BeginFinalizer
      BY <2>4, BeginFinalizerFrames
    <2>5. CASE EndFinalizer
      BY <2>5, EndFinalizerFrames
    <2>6. CASE frames' = frames
      BY <2>6
    <2> QED
      BY <2>1, <2>2, <2>3, <2>4, <2>5, <2>6
      DEF Next, RefSwap, RefBegin, PollFoundNothing, LeaveOrPollAgain,
          Call, Resume, SpuriousWakeup, Release, Acquire
  <1> QED
    BY <1>1, StackInvAlways, PTL DEF Spec, FinalizesOnce

-----------------------------------------------------------------------------
(* Scheduling.  The two properties are inductive together, over StackInv   *)
(* (only the top frame can hold a taken event) and FinalInv.               *)

SchedInv == ScheduledIsOneEvent /\ PendingWorkIsScheduled

LEMMA SchedInvInit == Init => SchedInv
  BY DEF Init, SchedInv, ScheduledIsOneEvent, PendingWorkIsScheduled, TopIs

(* schedule_threadsafe keeps one event per function.                       *)
LEMMA ScheduleKeepsOneEvent ==
    ASSUME StackInv, ScheduledIsOneEvent, NEW c \in BOOLEAN, ScheduleIf(c),
           frames' = frames
    PROVE  ScheduledIsOneEvent' /\ (scheduled' <=> scheduled \/ c)
  BY DEF StackInv, TypeOK, ScheduledIsOneEvent, ScheduleIf, TopIs, Top

LEMMA SchedInvOwner ==
    ASSUME StackInv, SchedInv, NEW t \in Owners,
           \/ Call(t) \/ Resume(t) \/ SpuriousWakeup(t)
           \/ \E abort \in BOOLEAN : Release(t, abort)
           \/ \E u \in Owners : Acquire(t, u)
    PROVE  SchedInv'
  <1> USE DEF SchedInv
  <1>0. ASSUME UNCHANGED <<frames, ready, scheduled, queue, closing, finalized>>
        PROVE  SchedInv'
    BY <1>0 DEF ScheduledIsOneEvent, PendingWorkIsScheduled, TopIs, Top
  <1>1. CASE Call(t) \/ Resume(t)
    <2>1. frames' = frames
      BY <1>1 DEF Call, Resume
    <2>2. CASE Closing(t)
      <3> DEFINE c == threadCount = 1 /\ ~finalized
      <3>1. ScheduleIf(c) /\ c \in BOOLEAN
        BY <2>2 DEF Closing
      <3>2. ScheduledIsOneEvent' /\ (scheduled => scheduled')
        BY <2>1, <3>1, ScheduleKeepsOneEvent
      <3> QED
        BY <2>1, <2>2, <3>2 DEF Closing, PendingWorkIsScheduled
    <2>3. CASE Accept
      BY <2>1, <2>3, ScheduleKeepsOneEvent DEF Accept, PendingWorkIsScheduled
    <2>4. CASE Wait(t)
      BY <1>0, <2>1, <2>4 DEF Wait, state
    <2> QED
      BY <1>1, <2>2, <2>3, <2>4 DEF Call, Resume
  <1>2. CASE SpuriousWakeup(t)
    BY <1>0, <1>2 DEF SpuriousWakeup, state
  <1>3. ASSUME NEW abort \in BOOLEAN, Release(t, abort) PROVE SchedInv'
    <2> DEFINE c == closing' /\ ~finalized
    <2>1. ScheduleIf(c) /\ c \in BOOLEAN /\ frames' = frames
      BY <1>3 DEF Release
    <2>2. ScheduledIsOneEvent' /\ (scheduled' <=> scheduled \/ c)
      BY <2>1, ScheduleKeepsOneEvent
    <2> QED
      BY <1>3, <2>1, <2>2 DEF Release, PendingWorkIsScheduled
  <1>4. ASSUME NEW u \in Owners, Acquire(t, u) PROVE SchedInv'
    BY <1>0, <1>4 DEF Acquire
  <1> QED
    BY <1>1, <1>2, <1>3, <1>4

(* Popping the top frame never uncovers a taken event.                     *)
LEMMA UncoveredTop ==
    ASSUME StackInv, NEW r \in Seq(Frame), frames # <<>>,
           Len(r) = Len(frames) - 1, \A i \in DOMAIN r : r[i] = frames[i]
    PROVE  ~(r # <<>> /\ r[Len(r)].pc = "taken")
  <1>1. frames \in Seq(Frame)
    BY DEF StackInv, TypeOK
  <1>2. ASSUME r # <<>> PROVE r[Len(r)].pc # "taken"
    <2>1. Len(r) \in DOMAIN r /\ Len(r) \in DOMAIN frames
      BY <1>1, <1>2
    <2>2. Len(r) # Len(frames)
      BY <1>1
    <2> QED
      BY <2>1, <2>2 DEF StackInv, FrameShape
  <1> QED
    BY <1>2

LEMMA SchedInvHost ==
    ASSUME StackInv, FinalInv, SchedInv,
           \/ TakeReadyEvent \/ BeginCallback \/ EndCallback
           \/ BeginFinalizer \/ EndFinalizer
    PROVE  SchedInv'
  <1> USE DEF SchedInv
  <1>1. CASE TakeReadyEvent
    <2>1. frames' # <<>> /\ Top' = Taken
      BY <1>1, TakeFrames DEF Top
    <2>2. TopIs("taken")'
      BY <2>1 DEF TopIs, Taken
    <2>3. ready' = 0 /\ scheduled' /\ scheduled
      BY <1>1 DEF TakeReadyEvent, ScheduledIsOneEvent, state, StackInv, TypeOK
    <2> QED
      BY <1>1, <2>2, <2>3
      DEF ScheduledIsOneEvent, PendingWorkIsScheduled
  <1>2. CASE BeginCallback
    <2>1. ready = 0
      BY <1>2 DEF BeginCallback, ScheduledIsOneEvent
    <2>2. ~TopIs("taken")'
      BY <1>2, BeginFrames DEF TopIs, Top
    <2>3. \E i \in DOMAIN frames' : frames'[i].pc = "call"
      BY <1>2, BeginFrames
    <2>4. scheduled' <=> queue' # <<>>
      BY <1>2, Zenon DEF BeginCallback
    <2>5. ready' = IF queue' # <<>> THEN 1 ELSE 0
      BY <1>2, <2>1 DEF BeginCallback
    <2> QED
      BY <2>2, <2>3, <2>4, <2>5 DEF ScheduledIsOneEvent, PendingWorkIsScheduled
  <1>3. CASE EndCallback
    <2> DEFINE n == Len(frames)
    <2>1. ~TopIs("taken")
      BY <1>3 DEF EndCallback, TopIs
    <2>2. ~TopIs("taken")'
      <3>1. CASE FinalizeNow(callbacksInFlight')
        BY <1>3, <3>1, EndFrames DEF TopIs, Top
      <3>2. CASE ~FinalizeNow(callbacksInFlight')
        <4>1. frames # <<>>
          BY <1>3 DEF EndCallback, TopIs
        <4>2. /\ frames' \in Seq(Frame) /\ Len(frames') = n - 1
              /\ \A i \in DOMAIN frames' : frames'[i] = frames[i]
          BY <1>3, <3>2, EndFrames
        <4>3. ~(frames' # <<>> /\ frames'[Len(frames')].pc = "taken")
          BY <4>1, <4>2, UncoveredTop
        <4> QED
          BY <4>3 DEF TopIs, Top
      <3> QED
        BY <3>1, <3>2
    <2>3. UNCHANGED <<scheduled, ready, queue, closing>>
      BY <1>3 DEF EndCallback
    <2>4. closing /\ ~finalized' => 
            scheduled \/ \E i \in DOMAIN frames' : frames'[i].pc = "call"
      <3> SUFFICES ASSUME closing, ~finalized', ~scheduled
                   PROVE  \E i \in DOMAIN frames' : frames'[i].pc = "call"
        OBVIOUS
      <3>1. queue = <<>>
        BY DEF PendingWorkIsScheduled
      <3>2. ~finalized /\ ~FinalizeNow(callbacksInFlight')
        BY <1>3 DEF EndCallback
      <3>3. callbacksInFlight' # 0
        BY <3>1, <3>2 DEF FinalizeNow
      <3>4. CallsRunning' # {}
        BY <1>3, <3>3, EndFrames, FS_EmptySet
      <3>5. PICK i \in DOMAIN frames' : frames'[i].popped
        BY <3>4 DEF CallsRunning
      <3>6. i \in DOMAIN frames /\ frames'[i] = frames[i]
        BY <1>3, <3>2, EndFrames
      <3> QED
        BY <3>5, <3>6 DEF StackInv, FrameShape
    <2> QED
      BY <2>1, <2>2, <2>3, <2>4 DEF ScheduledIsOneEvent, PendingWorkIsScheduled
  <1>4. CASE BeginFinalizer
    <2>1. ~TopIs("taken") /\ ~TopIs("taken")'
      <3>1. frames[Len(frames)].pc = "finalize"
        BY <1>4, BeginFinalizerFrames
      <3>2. frames'[Len(frames')].pc = "finalizer"
        BY <1>4, BeginFinalizerFrames
      <3> QED
        BY <3>1, <3>2 DEF TopIs, Top
    <2>2. finalized
      BY <1>4, BeginFinalizerFrames DEF FinalInv, Finalizing
    <2> QED
      BY <1>4, <2>1, <2>2
      DEF BeginFinalizer, state, ScheduledIsOneEvent, PendingWorkIsScheduled
  <1>5. CASE EndFinalizer
    <2>1. ~TopIs("taken")
      BY <1>5 DEF EndFinalizer, TopIs
    <2>2. ~TopIs("taken")'
      <3>1. frames # <<>>
        BY <1>5 DEF EndFinalizer, TopIs
      <3>2. ~(frames' # <<>> /\ frames'[Len(frames')].pc = "taken")
        BY <1>5, <3>1, EndFinalizerFrames, UncoveredTop
      <3> QED
        BY <3>2 DEF TopIs, Top
    <2>3. finalized
      BY <1>5, EndFinalizerFrames DEF FinalInv, Finalizing
    <2> QED
      BY <1>5, <2>1, <2>2, <2>3
      DEF EndFinalizer, ScheduledIsOneEvent, PendingWorkIsScheduled
  <1> QED
    BY <1>1, <1>2, <1>3, <1>4, <1>5

LEMMA SchedInvNext ==
    StackInv /\ FinalInv /\ SchedInv /\ [Next]_vars => SchedInv'
  <1> SUFFICES ASSUME StackInv, FinalInv, SchedInv, [Next]_vars
               PROVE  SchedInv'
    OBVIOUS
  <1>1. ASSUME UNCHANGED <<frames, ready, state>> PROVE SchedInv'
    BY <1>1 DEF SchedInv, ScheduledIsOneEvent, PendingWorkIsScheduled, TopIs,
                Top, state
  <1> QED
    BY <1>1, SchedInvOwner, SchedInvHost
    DEF Next, vars, RefBegin, RefSwap, PollFoundNothing, LeaveOrPollAgain

LEMMA SchedInvAlways == Spec => []SchedInv
  BY FinalInvAlways, SchedInvInit, SchedInvNext, PTL DEF Spec

(* The scheduled flag stands for exactly one event.                        *)
THEOREM OneEventPerFunction == Spec => []ScheduledIsOneEvent
  <1>1. SchedInv => ScheduledIsOneEvent
    BY DEF SchedInv
  <1> QED
    BY <1>1, SchedInvAlways, PTL

(* No accepted call and no due finalization is ever forgotten.             *)
THEOREM NothingForgotten == Spec => []PendingWorkIsScheduled
  <1>1. SchedInv => PendingWorkIsScheduled
    BY DEF SchedInv
  <1> QED
    BY <1>1, SchedInvAlways, PTL

-----------------------------------------------------------------------------
(* Wakeups, ownership and delivery.  Each is inductive over StackInv.      *)

LEMMA SleepersFinite ==
    ASSUME StackInv
    PROVE  IsFiniteSet(woken) /\ IsFiniteSet(held)
           /\ Cardinality(woken) \in Nat /\ Cardinality(held) \in Nat
  BY OwnersAssumption, FS_Subset, FS_CardinalityType DEF StackInv, TypeOK

(* No producer sleeps while a free place has nobody on its way to it.      *)
THEOREM WakeupsNotLost == Spec => []NoLostWakeup
  <1>1. Init => NoLostWakeup
    BY DEF Init, NoLostWakeup
  <1>2. StackInv /\ StackInv' /\ NoLostWakeup /\ [Next]_vars => NoLostWakeup'
    <2> SUFFICES ASSUME StackInv, StackInv', NoLostWakeup, [Next]_vars
                 PROVE  NoLostWakeup'
      OBVIOUS
    <2>1. /\ queue \in Seq(Nat) /\ Len(queue) \in Nat
          /\ Cardinality(woken) \in Nat /\ IsFiniteSet(woken)
          /\ Cardinality(woken') \in Nat /\ MaxQueueSize \in Nat
      BY SleepersFinite, BoundsAssumption, OwnersAssumption, FS_Subset,
         FS_CardinalityType DEF StackInv, TypeOK
    <2>2. ASSUME UNCHANGED <<queue, closing, waiting, woken>>
          PROVE  NoLostWakeup'
      BY <2>2 DEF NoLostWakeup
    <2>3. ASSUME NEW t \in Owners, Call(t) PROVE NoLostWakeup'
      <3>1. CASE Closing(t)
        BY <2>2, <2>3, <3>1 DEF Call, Closing
      <3>2. CASE Accept
        <4>1. Len(queue') = Len(queue) + 1
          BY <2>1, <3>2 DEF Accept
        <4> QED
          BY <2>1, <2>3, <3>2, <4>1 DEF Call, Accept, NoLostWakeup
      <3>3. CASE Wait(t)
        BY <2>1, <2>3, <3>3 DEF Call, Wait, QueueFull, NoLostWakeup, state
      <3> QED
        BY <2>3, <3>1, <3>2, <3>3 DEF Call
    <2>4. ASSUME NEW t \in Owners, Resume(t) PROVE NoLostWakeup'
      <3>1. CASE Closing(t)
        BY <2>4, <3>1 DEF Closing, NoLostWakeup
      <3>2. CASE Accept
        <4>1. Len(queue') = Len(queue) + 1
          BY <2>1, <3>2 DEF Accept
        <4>2. Cardinality(woken') = Cardinality(woken) - 1
          BY <2>1, <2>4, FS_RemoveElement DEF Resume
        <4> QED
          BY <2>1, <3>2, <4>1, <4>2 DEF Accept, NoLostWakeup
      <3>3. CASE Wait(t)
        BY <2>1, <3>3 DEF Wait, QueueFull, NoLostWakeup, state
      <3> QED
        BY <2>4, <3>1, <3>2, <3>3 DEF Resume
    <2>5. ASSUME NEW t \in Owners, SpuriousWakeup(t) PROVE NoLostWakeup'
      <3>1. Cardinality(woken') = Cardinality(woken) + 1
        BY <2>1, <2>5, FS_AddElement DEF SpuriousWakeup, StackInv
      <3> QED
        BY <2>1, <2>5, <3>1 DEF SpuriousWakeup, NoLostWakeup, state
    <2>6. ASSUME NEW t \in Owners, NEW abort \in BOOLEAN, Release(t, abort)
          PROVE  NoLostWakeup'
      BY <2>6 DEF Release, NoLostWakeup
    <2>7. ASSUME NEW t \in Owners, NEW u \in Owners, Acquire(t, u)
          PROVE  NoLostWakeup'
      BY <2>2, <2>7 DEF Acquire
    <2>8. CASE BeginCallback
      <3>1. CASE queue = <<>>
        BY <2>2, <2>8, <3>1 DEF BeginCallback
      <3>2. CASE queue # <<>>
        <4>1. Len(queue') = Len(queue) - 1 /\ NotifyOne
          BY <2>1, <2>8, <3>2, HeadTailProperties DEF BeginCallback
        <4>2. CASE waiting = {}
          BY <4>1, <4>2 DEF NotifyOne, NoLostWakeup
        <4>3. ASSUME NEW t \in waiting, woken' = woken \cup {t}
              PROVE  Cardinality(woken') = Cardinality(woken) + 1
          BY <2>1, <4>3, FS_AddElement DEF StackInv
        <4>4. CASE waiting # {}
          <5>1. Cardinality(woken') = Cardinality(woken) + 1
            BY <4>1, <4>3, <4>4 DEF NotifyOne
          <5> QED
            BY <2>1, <2>8, <4>1, <4>4, <5>1 DEF NoLostWakeup, BeginCallback
        <4> QED
          BY <4>2, <4>4
      <3> QED
        BY <3>1, <3>2
    <2> QED
      BY <2>2, <2>3, <2>4, <2>5, <2>6, <2>7, <2>8
      DEF Next, vars, state, RefBegin, RefSwap, PollFoundNothing,
          LeaveOrPollAgain, TakeReadyEvent, EndCallback, BeginFinalizer,
          EndFinalizer
  <1> QED
    BY <1>1, <1>2, StackInvAlways, PTL DEF Spec

(* thread_count is the number of acquisitions really held, and the         *)
(* function is retired exactly when its finalizer has returned and nobody  *)
(* holds it.                                                               *)
THEOREM RetirementUnowned == Spec => []RetiredMeansUnowned
  <1>1. Init => RetiredMeansUnowned
    <2>1. IsFiniteSet(InitialOwners) /\ InitialOwners # {}
      BY OwnersAssumption, FS_Subset
    <2> QED
      BY <2>1 DEF Init, RetiredMeansUnowned
  <1>2. StackInv /\ RetiredMeansUnowned /\ [Next]_vars => RetiredMeansUnowned'
    <2> SUFFICES ASSUME StackInv, RetiredMeansUnowned, [Next]_vars
                 PROVE  RetiredMeansUnowned'
      OBVIOUS
    <2>1. IsFiniteSet(held) /\ threadCount \in Nat
      BY SleepersFinite DEF StackInv, TypeOK
    <2>2. ASSUME UNCHANGED <<threadCount, held, live, liveReleased,
                             finalizerCompleted>>
          PROVE  RetiredMeansUnowned'
      BY <2>2 DEF RetiredMeansUnowned
    <2>3. ASSUME NEW t \in held, held' = held \ {t}
          PROVE  /\ threadCount > 0
                 /\ Cardinality(held') = threadCount - 1
                 /\ threadCount - 1 = 0 <=> held' = {}
      BY <2>1, <2>3, FS_RemoveElement, FS_EmptySet DEF RetiredMeansUnowned
    <2>4. ASSUME NEW t \in held, held' = held \ {t},
                 threadCount' = threadCount - 1,
                 RetireIfReady(finalizerCompleted, threadCount'),
                 finalizerCompleted' = finalizerCompleted
          PROVE  RetiredMeansUnowned'
      <3>1. /\ threadCount' = Cardinality(held')
            /\ threadCount' = 0 <=> held' = {}
        BY <2>3, <2>4
      <3>2. ~liveReleased /\ live = 1
        BY <2>4 DEF RetiredMeansUnowned
      <3>3. CASE finalizerCompleted /\ threadCount' = 0
        <4>1. liveReleased' /\ live' = live - 1
          BY <2>4, <3>2, <3>3, Zenon DEF RetireIfReady
        <4> QED
          BY <2>4, <3>1, <3>2, <3>3, <4>1 DEF RetiredMeansUnowned
      <3>4. CASE ~(finalizerCompleted /\ threadCount' = 0)
        <4>1. ~liveReleased' /\ live' = live
          BY <2>4, <3>2, <3>4, Zenon DEF RetireIfReady
        <4> QED
          BY <2>4, <3>1, <3>2, <3>4, <4>1 DEF RetiredMeansUnowned
      <3> QED
        BY <3>3, <3>4
    <2>5. ASSUME NEW t \in Owners, Call(t) \/ Resume(t)
          PROVE  RetiredMeansUnowned'
      <3>1. t \in held
        BY <2>5 DEF Call, Resume, CanCall, StackInv, TypeOK
      <3>2. CASE Closing(t)
        BY <2>3, <2>4, <3>1, <3>2 DEF Closing
      <3>3. CASE Accept
        BY <2>2, <3>3 DEF Accept
      <3>4. CASE Wait(t)
        BY <2>2, <3>4 DEF Wait, state, ghost
      <3> QED
        BY <2>5, <3>2, <3>3, <3>4 DEF Call, Resume
    <2>6. ASSUME NEW t \in Owners, NEW abort \in BOOLEAN, Release(t, abort)
          PROVE  RetiredMeansUnowned'
      BY <2>4, <2>6 DEF Release, CanCall
    <2>7. ASSUME NEW t \in Owners, NEW u \in Owners, Acquire(t, u)
          PROVE  RetiredMeansUnowned'
      <3>1. Cardinality(held') = Cardinality(held) + 1
        BY <2>1, <2>7, FS_AddElement DEF Acquire
      <3> QED
        BY <2>7, <3>1 DEF Acquire, CanCall, RetiredMeansUnowned
    <2>8. CASE EndFinalizer
      <3>1. threadCount = 0 <=> held = {}
        BY <2>1, FS_EmptySet DEF RetiredMeansUnowned
      <3>2. RetireIfReady(TRUE, threadCount)
        BY <2>8 DEF EndFinalizer
      <3>3. CASE threadCount = 0 /\ ~liveReleased
        <4>1. liveReleased' /\ live' = live - 1
          BY <3>2, <3>3, Zenon DEF RetireIfReady
        <4> QED
          BY <2>8, <3>1, <3>3, <4>1
          DEF EndFinalizer, RetiredMeansUnowned, ghost
      <3>4. CASE ~(threadCount = 0 /\ ~liveReleased)
        <4>1. (liveReleased' <=> liveReleased) /\ live' = live
          BY <3>2, <3>4, Zenon DEF RetireIfReady
        <4> QED
          BY <2>8, <3>1, <3>4, <4>1
          DEF EndFinalizer, RetiredMeansUnowned, ghost
      <3> QED
        BY <3>3, <3>4
    <2> QED
      BY <2>2, <2>5, <2>6, <2>7, <2>8
      DEF Next, vars, state, ghost, RefBegin, RefSwap, PollFoundNothing,
          LeaveOrPollAgain, TakeReadyEvent, EndCallback, BeginFinalizer,
          BeginCallback, SpuriousWakeup
  <1> QED
    BY <1>1, <1>2, StackInvAlways, PTL DEF Spec

(* Every accepted call is begun once and in order, and the queue keeps its *)
(* limit.                                                                  *)
THEOREM CallsDeliveredInOrder == Spec => []DeliveredInOrder
  <1> DEFINE upTo(n) == [i \in 1 .. n |-> i]
  <1>1. Init => DeliveredInOrder
    BY BoundsAssumption DEF Init, DeliveredInOrder
  <1>2. StackInv /\ DeliveredInOrder /\ [Next]_vars => DeliveredInOrder'
    <2> SUFFICES ASSUME StackInv, DeliveredInOrder, [Next]_vars
                 PROVE  DeliveredInOrder'
      OBVIOUS
    <2>1. /\ queue \in Seq(Nat) /\ begun \in Seq(Nat) /\ accepted \in Nat
          /\ MaxQueueSize \in Nat
      BY BoundsAssumption DEF StackInv, TypeOK
    <2>2. ASSUME UNCHANGED <<queue, begun, accepted>> PROVE DeliveredInOrder'
      BY <2>2 DEF DeliveredInOrder
    <2>3. CASE Accept /\ begun' = begun
      <3>1. queue' = Append(queue, accepted + 1) /\ accepted' = accepted + 1
        BY <2>3 DEF Accept
      <3>2. begun \o Append(queue, accepted + 1)
              = Append(begun \o queue, accepted + 1)
        BY <2>1
      <3>3. Append(upTo(accepted), accepted + 1) = upTo(accepted + 1)
        BY <2>1
      <3>4. Len(queue') = Len(queue) + 1
        BY <2>1, <3>1
      <3>5. MaxQueueSize # 0 => Len(queue') <= MaxQueueSize
        BY <2>1, <2>3, <3>4 DEF Accept, QueueFull
      <3>6. begun \o queue = upTo(accepted)
        BY DEF DeliveredInOrder
      <3>7. begun' \o queue' = upTo(accepted')
        BY <2>3, <3>1, <3>2, <3>3, <3>6
      <3> HIDE DEF upTo
      <3> QED
        BY <3>5, <3>7 DEF DeliveredInOrder, upTo
    <2>4. CASE BeginCallback /\ queue # <<>>
      <3>1. Append(begun, Head(queue)) \o Tail(queue) = begun \o queue
        <4>1. /\ Head(queue) \in Nat /\ Tail(queue) \in Seq(Nat)
              /\ Len(Tail(queue)) = Len(queue) - 1
              /\ \A i \in 1 .. Len(Tail(queue)) : Tail(queue)[i] = queue[i + 1]
              /\ Head(queue) = queue[1]
          BY <2>1, <2>4, HeadTailProperties
        <4> QED
          BY <2>1, <2>4, <4>1
      <3>2. Len(queue') = Len(queue) - 1
        BY <2>1, <2>4, HeadTailProperties DEF BeginCallback
      <3>3. MaxQueueSize # 0 => Len(queue') <= MaxQueueSize
        BY <2>1, <3>2 DEF DeliveredInOrder
      <3>4. begun' \o queue' = begun \o queue /\ accepted' = accepted
        BY <2>4, <3>1 DEF BeginCallback
      <3> QED
        BY <3>3, <3>4 DEF DeliveredInOrder
    <2> QED
      BY <2>2, <2>3, <2>4
      DEF Next, vars, state, ghost, RefBegin, RefSwap, PollFoundNothing,
          LeaveOrPollAgain, TakeReadyEvent, EndCallback, BeginFinalizer,
          EndFinalizer, BeginCallback, SpuriousWakeup, Release, Acquire,
          Call, Resume, Closing, Accept, Wait
  <1> QED
    BY <1>1, <1>2, StackInvAlways, PTL DEF Spec
-----------------------------------------------------------------------------
(* Closing is safe: nothing of a finalized function is used again, it does *)
(* not keep the loop alive, and it is retired exactly when nobody holds it.*)
THEOREM ClosingIsSafe == Spec => []FinalizedIsSafe
  <1>1. FinalizedIsQuiescent /\ FinalizedIsUnreferenced /\ RetiredMeansUnowned
           => FinalizedIsSafe
    BY DEF FinalizedIsSafe
  <1> QED
    BY <1>1, FinalizationQuiescent, FinalizationUnreferences, RetirementUnowned, PTL

(* No thread is left waiting: calls and finalization have one event on its *)
(* way, and no wakeup is lost.                                             *)
THEOREM WorkStaysScheduled == Spec => []WorkIsScheduled
  <1>1. PendingWorkIsScheduled /\ ScheduledIsOneEvent /\ NoLostWakeup
           => WorkIsScheduled
    BY DEF WorkIsScheduled
  <1> QED
    BY <1>1, NothingForgotten, OneEventPerFunction, WakeupsNotLost, PTL

-----------------------------------------------------------------------------
(* The threadsafe function implements the bounded channel.  The Host's     *)
(* stack is seen through callbacksInFlight, which InFlightCount equates    *)
(* with the calls being run.                                               *)

LEMMA ChannelStutter ==
    ASSUME UNCHANGED <<accepted, queue, begun, closing, finalized>>,
           CallsRunning' = CallsRunning
    PROVE  UNCHANGED Channel!channel
  BY DEF Channel!channel

LEMMA ChannelOwner ==
    ASSUME StackInv, FinalInv, NEW t \in Owners,
           \/ Call(t) \/ Resume(t) \/ SpuriousWakeup(t)
           \/ \E abort \in BOOLEAN : Release(t, abort)
           \/ \E u \in Owners : Acquire(t, u)
    PROVE  [Channel!Next]_Channel!channel
  <1>0. frames' = frames /\ CallsRunning' = CallsRunning
    <2>1. frames' = frames
      BY DEF Call, Resume, SpuriousWakeup, Release, Acquire
    <2> QED
      BY <2>1 DEF CallsRunning
  <1>1. CASE Accept /\ (Call(t) \/ Resume(t))
    <2>1. ~closing /\ ~finalized
      BY <1>1 DEF Accept, FinalInv, FinalizedIsQuiescent
    <2>2. closing' = closing /\ finalized' = finalized /\ begun' = begun
      BY <1>1 DEF Accept
    <2>3. MaxQueueSize # 0 => Len(queue) < MaxQueueSize
      <3>1. Len(queue) \in Nat /\ MaxQueueSize \in Nat
        BY BoundsAssumption DEF StackInv, TypeOK
      <3> QED
        BY <1>1, <3>1 DEF Accept, QueueFull
    <2>4. accepted' = accepted + 1 /\ queue' = Append(queue, accepted')
      BY <1>1 DEF Accept
    <2>5. Channel!Send
      BY <1>0, <2>1, <2>2, <2>3, <2>4 DEF Channel!Send
    <2> QED
      BY <2>5 DEF Channel!Next
  <1>2. CASE ~Accept /\ (Call(t) \/ Resume(t))
    <2>1. Closing(t) \/ Wait(t)
      BY <1>2 DEF Call, Resume
    <2>2. UNCHANGED <<accepted, queue, begun, closing, finalized>>
      BY <2>1 DEF Closing, Wait, state, ghost
    <2> QED
      BY <1>0, <2>2, ChannelStutter
  <1>3. CASE SpuriousWakeup(t)
    BY <1>0, <1>3, ChannelStutter DEF SpuriousWakeup, state, ghost
  <1>4. ASSUME NEW abort \in BOOLEAN, Release(t, abort)
        PROVE  [Channel!Next]_Channel!channel
    <2>1. /\ UNCHANGED <<accepted, queue, begun, finalized>>
          /\ closing => closing'
      BY <1>4 DEF Release
    <2>2. closing \in BOOLEAN /\ closing' \in BOOLEAN
      BY <1>4, Zenon DEF Release, StackInv, TypeOK
    <2>3. CASE closing' = closing
      BY <1>0, <2>1, <2>3, ChannelStutter
    <2>4. CASE ~closing /\ closing'
      <3>1. ~finalized
        BY <2>4 DEF FinalInv, FinalizedIsQuiescent
      <3>2. Channel!Close
        BY <1>0, <2>1, <2>4, <3>1 DEF Channel!Close
      <3> QED
        BY <3>2 DEF Channel!Next
    <2> QED
      BY <2>1, <2>2, <2>3, <2>4
  <1>5. ASSUME NEW u \in Owners, Acquire(t, u)
        PROVE  [Channel!Next]_Channel!channel
    BY <1>0, <1>5, ChannelStutter DEF Acquire
  <1> QED
    BY <1>1, <1>2, <1>3, <1>4, <1>5

LEMMA ChannelHost ==
    ASSUME StackInv, FinalInv,
           \/ TakeReadyEvent \/ BeginCallback \/ EndCallback
           \/ BeginFinalizer \/ EndFinalizer
    PROVE  [Channel!Next]_Channel!channel
  <1> DEFINE n == Len(frames)
  <1>1. CASE TakeReadyEvent
    BY <1>1, TakeFrames, ChannelStutter DEF TakeReadyEvent, state, ghost
  <1>2. CASE BeginCallback
    <2>1. UNCHANGED <<accepted, closing, finalized>>
      BY <1>2 DEF BeginCallback
    <2>2. CASE queue = <<>>
      <3>1. UNCHANGED <<queue, begun>> /\ CallsRunning' = CallsRunning
        BY <1>2, <2>2, BeginFrames DEF BeginCallback
      <3> QED
        BY <2>1, <3>1, ChannelStutter
    <2>3. CASE queue # <<>>
      <3>1. Cardinality(CallsRunning') = Cardinality(CallsRunning) + 1
        <4>1. /\ CallsRunning' = CallsRunning \cup {n}
              /\ IsFiniteSet(CallsRunning) /\ n \notin CallsRunning
          BY <1>2, <2>3, BeginFrames
        <4> QED
          BY <4>1, FS_AddElement
      <3>2. begun' = Append(begun, Head(queue)) /\ queue' = Tail(queue)
        BY <1>2, <2>3 DEF BeginCallback
      <3>3. Channel!Begin
        BY <2>1, <2>3, <3>1, <3>2 DEF Channel!Begin
      <3> QED
        BY <3>3 DEF Channel!Next
    <2> QED
      BY <2>2, <2>3
  <1>3. CASE EndCallback
    <2>0. /\ IsFiniteSet(CallsRunning)
          /\ CallsRunning' = CallsRunning \ {n}
          /\ callbacksInFlight' = Cardinality(CallsRunning')
      BY <1>3, EndFrames
    <2>1. UNCHANGED <<accepted, queue, begun, closing>>
      BY <1>3 DEF EndCallback, ghost
    <2>2. /\ FinalizeNow(callbacksInFlight') =>
               /\ closing /\ ~finalized /\ finalized'
               /\ queue = <<>> /\ Cardinality(CallsRunning') = 0
          /\ ~FinalizeNow(callbacksInFlight') => finalized' = finalized
      <3>1. finalized \in BOOLEAN
        BY DEF StackInv, TypeOK
      <3>2. finalized' = (finalized \/ FinalizeNow(callbacksInFlight'))
        BY <1>3 DEF EndCallback
      <3>3. /\ FinalizeNow(callbacksInFlight') => finalized'
            /\ ~FinalizeNow(callbacksInFlight') => finalized' = finalized
        BY <3>1, <3>2, Zenon
      <3> QED
        BY <2>0, <3>3 DEF FinalizeNow
    <2>3. CASE n \in CallsRunning
      <3>1. /\ Cardinality(CallsRunning) \in Nat
            /\ Cardinality(CallsRunning') = Cardinality(CallsRunning) - 1
            /\ Cardinality(CallsRunning) > 0
        <4>1. Cardinality(CallsRunning') = Cardinality(CallsRunning) - 1
          BY <2>0, <2>3, FS_RemoveElement
        <4>2. /\ Cardinality(CallsRunning) \in Nat
              /\ Cardinality(CallsRunning) # 0
          BY <2>0, <2>3, FS_CardinalityType, FS_EmptySet
        <4> QED
          BY <4>1, <4>2
      <3>2. Channel!End
        BY <2>1, <2>2, <3>1 DEF Channel!End
      <3> QED
        BY <3>2 DEF Channel!Next
    <2>4. CASE n \notin CallsRunning
      <3>1. CallsRunning' = CallsRunning
        BY <2>0, <2>4
      <3>2. CASE FinalizeNow(callbacksInFlight')
        <4>1. Channel!Finalize
          BY <2>1, <2>2, <3>1, <3>2 DEF Channel!Finalize
        <4> QED
          BY <4>1 DEF Channel!Next
      <3>3. CASE ~FinalizeNow(callbacksInFlight')
        BY <2>1, <2>2, <3>1, <3>3, ChannelStutter
      <3> QED
        BY <3>2, <3>3
    <2> QED
      BY <2>3, <2>4
  <1>4. CASE BeginFinalizer
    BY <1>4, BeginFinalizerFrames, ChannelStutter
    DEF BeginFinalizer, state, ghost
  <1>5. CASE EndFinalizer
    BY <1>5, EndFinalizerFrames, ChannelStutter DEF EndFinalizer, ghost
  <1> QED
    BY <1>1, <1>2, <1>3, <1>4, <1>5

(* The threadsafe function refines the channel: its users see calls        *)
(* accepted while it is open, handled once and in order, and one           *)
(* finalization, whatever its locks, events and wakeups do.                *)
THEOREM RefinesChannel == Spec => ImplementsChannel
  <1>1. Init => Channel!Init
    <2> SUFFICES ASSUME Init PROVE Channel!Init
      OBVIOUS
    <2>1. CallsRunning = {}
      BY DEF Init, CallsRunning
    <2> QED
      BY <2>1, FS_EmptySet DEF Init, Channel!Init
  <1>2. StackInv /\ FinalInv /\ [Next]_vars => [Channel!Next]_Channel!channel
    <2> SUFFICES ASSUME StackInv, FinalInv, [Next]_vars
                 PROVE  [Channel!Next]_Channel!channel
      OBVIOUS
    <2>1. ASSUME UNCHANGED <<frames, state, ghost>>
          PROVE  [Channel!Next]_Channel!channel
      <3>1. CallsRunning' = CallsRunning
        BY <2>1 DEF CallsRunning
      <3> QED
        BY <2>1, <3>1, ChannelStutter DEF state, ghost
    <2> QED
      BY <2>1, ChannelOwner, ChannelHost
      DEF Next, vars, RefBegin, RefSwap, PollFoundNothing, LeaveOrPollAgain
  <1> QED
    BY <1>1, <1>2, FinalInvAlways, PTL DEF Spec, ImplementsChannel, Channel!Spec
=============================================================================
