------------------------------ MODULE LossyFifo -----------------------------
(***************************************************************************)
(* A channel that may lose messages but never reorders, repeats or invents *)
(* one. A message is its number.                                           *)
(***************************************************************************)
EXTENDS Naturals, Sequences

VARIABLES
    items,      \* in the channel, oldest first
    last        \* the number of the last message sent

Init == items = <<>> /\ last = 0

Send == last' = last + 1 /\ items' = Append(items, last')

Receive == items # <<>> /\ items' = Tail(items) /\ UNCHANGED last

Lose ==
    /\ \E i \in DOMAIN items :
           items' = SubSeq(items, 1, i - 1) \o SubSeq(items, i + 1, Len(items))
    /\ UNCHANGED last

Next == Send \/ Receive \/ Lose

Spec == Init /\ [][Next]_<<items, last>>
=============================================================================
