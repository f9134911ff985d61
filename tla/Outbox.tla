------------------------------- MODULE Outbox -------------------------------
(* What the delivery guarantees of the integration layer promise: a queued   *)
(* message is delivered or put aside, a delivered one is never touched       *)
(* again, and one put aside comes back only by a replay.                     *)
CONSTANT Delivery
VARIABLE box

Init == box = [d \in Delivery |-> "NEW"]

Moves(d, from, to) == box[d] = from /\ box' = [box EXCEPT ![d] = to]

Enqueue(d) == Moves(d, "NEW", "QUEUED")
Deliver(d) == Moves(d, "QUEUED", "DELIVERED")
PutAside(d) == Moves(d, "QUEUED", "DEAD_LETTER")
Replay(d) == Moves(d, "DEAD_LETTER", "QUEUED")

Next == \E d \in Delivery : Enqueue(d) \/ Deliver(d) \/ PutAside(d) \/ Replay(d)

Spec == Init /\ [][Next]_box
=============================================================================
