------------------------------ MODULE LossyFifo ------------------------------
(***************************************************************************)
(* What a datagram socket with a send queue promises: the datagrams that   *)
(* leave do so in the order they were handed in, none twice and none       *)
(* invented.  An error may cost the oldest datagram that waits, and with   *)
(* it the newest one, never one in between.                                *)
(***************************************************************************)
EXTENDS Naturals, Sequences

CONSTANT Datagram

VARIABLES waiting,    \* handed in and neither sent nor lost, oldest first
          delivered   \* sent so far, oldest first

lossyVars == <<waiting, delivered>>

Init == waiting = <<>> /\ delivered = <<>>

Offer(d) ==
    /\ waiting' = Append(waiting, d)
    /\ UNCHANGED delivered

Deliver ==
    /\ waiting # <<>>
    /\ delivered' = Append(delivered, Head(waiting))
    /\ waiting' = Tail(waiting)

LoseOldest ==
    /\ waiting # <<>>
    /\ waiting' = Tail(waiting)
    /\ UNCHANGED delivered

LoseOldestAndNewest ==
    /\ Len(waiting) > 1
    /\ waiting' = SubSeq(waiting, 2, Len(waiting) - 1)
    /\ UNCHANGED delivered

Next == Deliver \/ LoseOldest \/ LoseOldestAndNewest \/ \E d \in Datagram : Offer(d)

Spec == Init /\ [][Next]_lossyVars
=============================================================================
