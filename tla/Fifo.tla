-------------------------------- MODULE Fifo --------------------------------
(***************************************************************************)
(* What a single-producer single-consumer queue promises: the values come  *)
(* out in the order they went in, each exactly once, none invented.        *)
(* The queue is given by its two histories: the values handed in so far    *)
(* and the values handed out so far.                                       *)
(***************************************************************************)
EXTENDS Naturals, Sequences

CONSTANT Value   \* what is queued

VARIABLES sent,      \* values enqueued so far, oldest first
          received   \* values dequeued so far, oldest first

fifoVars == <<sent, received>>

Init ==
  /\ sent = << >>
  /\ received = << >>

Enqueue(v) ==
  /\ sent' = Append(sent, v)
  /\ UNCHANGED received

Dequeue ==
  /\ Len(received) < Len(sent)
  /\ received' = Append(received, sent[Len(received) + 1])
  /\ UNCHANGED sent

Next == Dequeue \/ \E v \in Value : Enqueue(v)

Spec == Init /\ [][Next]_fifoVars
=============================================================================
