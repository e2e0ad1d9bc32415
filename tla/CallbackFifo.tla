---------------------------- MODULE CallbackFifo ----------------------------
(***************************************************************************)
(* What the client callback queue promises to the drivers: a message they  *)
(* hand over is queued once, behind those accepted before it, and leaves   *)
(* only from the front; the queue holds at most Capacity messages, and one *)
(* that is queued is not left there for ever.                              *)
(***************************************************************************)
EXTENDS Naturals, Sequences

CONSTANTS Mailbox, Capacity

VARIABLE fifo

Init == fifo = <<>>
Accept(m) == Len(fifo) < Capacity /\ fifo' = Append(fifo, m)
Release == fifo # <<>> /\ fifo' = Tail(fifo)
Next == Release \/ \E m \in Mailbox : Accept(m)

Spec == Init /\ [][Next]_fifo /\ WF_fifo(Release)
=============================================================================
