---------------------------- MODULE BoundedChannel ----------------------------
(***************************************************************************)
(* What a threadsafe function promises its users, without threads, locks,  *)
(* events and wakeups: a channel of calls from many senders to one         *)
(* receiver.  It is bounded and in order, it loses and repeats nothing,    *)
(* and it is finalized once, after it was closed, when every call sent     *)
(* has been handled and none is being handled.                             *)
(***************************************************************************)
EXTENDS Naturals, Sequences

CONSTANT Capacity   \* 0 is unbounded

VARIABLES sent,     \* number of calls sent; calls are numbered by it
          buffer,   \* calls on their way
          begun,    \* calls the receiver has taken, in order
          busy,     \* how many of them it is still handling
          status    \* of the channel

channel == <<sent, buffer, begun, busy, status>>

Init ==
    /\ sent = 0 /\ buffer = <<>> /\ begun = <<>>
    /\ busy = 0 /\ status = "open"

Send ==
    /\ status = "open"
    /\ Capacity # 0 => Len(buffer) < Capacity
    /\ sent' = sent + 1
    /\ buffer' = Append(buffer, sent')
    /\ UNCHANGED <<begun, busy, status>>

Close ==
    /\ status = "open"
    /\ status' = "closed"
    /\ UNCHANGED <<sent, buffer, begun, busy>>

\* The receiver may begin a call while it handles another one.
Begin ==
    /\ buffer # <<>>
    /\ begun' = Append(begun, Head(buffer))
    /\ buffer' = Tail(buffer)
    /\ busy' = busy + 1
    /\ UNCHANGED <<sent, status>>

\* The return of the last call of a closed channel may finalize it at once.
End ==
    /\ busy > 0
    /\ busy' = busy - 1
    /\ \/ status' = status
       \/ /\ status = "closed" /\ buffer = <<>> /\ busy' = 0
          /\ status' = "finalized"
    /\ UNCHANGED <<sent, buffer, begun>>

Finalize ==
    /\ status = "closed" /\ buffer = <<>> /\ busy = 0
    /\ status' = "finalized"
    /\ UNCHANGED <<sent, buffer, begun, busy>>

Next == Send \/ Close \/ Begin \/ End \/ Finalize

Spec == Init /\ [][Next]_channel
===============================================================================
