---------------------------- MODULE MessageQueue ----------------------------
(* What std/sync's Channel promises its users: a bounded first-in first-out  *)
(* queue.  A message is appended only while the queue is open and has room,  *)
(* the oldest message is the next one taken, closing is final, and what is   *)
(* left when the channel is destroyed is discarded.  Channel.tla implements  *)
(* this specification wherever its "queue" runs say so.                      *)
EXTENDS Naturals, Sequences

CONSTANT Messages   \* what may be sent

VARIABLES
    bound,      \* how many messages the queue may hold
    queue,      \* messages accepted and not yet taken, oldest first
    taken,      \* messages taken so far, in order
    closed,     \* no further message is accepted
    discarded   \* the queue was destroyed

qvars == <<bound, queue, taken, closed, discarded>>

Init ==
    /\ bound \in Nat \ {0}
    /\ queue = <<>>
    /\ taken = <<>>
    /\ closed = FALSE
    /\ discarded = FALSE

Enqueue(m) ==
    /\ ~closed
    /\ ~discarded
    /\ Len(queue) < bound
    /\ queue' = Append(queue, m)
    /\ UNCHANGED <<bound, taken, closed, discarded>>

Dequeue ==
    /\ queue # <<>>
    /\ ~discarded
    /\ taken' = Append(taken, Head(queue))
    /\ queue' = Tail(queue)
    /\ UNCHANGED <<bound, closed, discarded>>

Close ==
    /\ ~discarded
    /\ closed' = TRUE
    /\ UNCHANGED <<bound, queue, taken, discarded>>

Discard ==
    /\ discarded' = TRUE
    /\ queue' = <<>>
    /\ UNCHANGED <<bound, taken, closed>>

Next == (\E m \in Messages : Enqueue(m)) \/ Dequeue \/ Close \/ Discard

Spec == Init /\ [][Next]_qvars
=============================================================================
