----------------------------- MODULE FrameQueue -----------------------------
(***************************************************************************)
(* What the data link layer promises to those who send: on every channel   *)
(* frames are queued behind those there are, while there is room, and they *)
(* leave one at a time, in order, each once and as it came.                 *)
(***************************************************************************)
EXTENDS Naturals, Sequences

CONSTANTS Channel, Frame, Capacity, Nothing

VARIABLES fifo,   \* the frames queued on each channel
          sent    \* the last frame that left, and its channel

vars == <<fifo, sent>>

Init == fifo = [c \in Channel |-> <<>>] /\ sent = Nothing

Range(s) == {s[i] : i \in DOMAIN s}
Accept(c) ==
  /\ UNCHANGED sent
  /\ LET old == fifo[c]
         new == fifo'[c]
     IN /\ Len(old) < Len(new) /\ Len(new) <= Capacity
        /\ SubSeq(new, 1, Len(old)) = old /\ Range(new) \subseteq Frame[c]
  /\ \A other \in Channel \ {c} : fifo'[other] = fifo[other]

Send(c) ==
  /\ fifo[c] # <<>>
  /\ sent' = [channel |-> c, frame |-> Head(fifo[c])]
  /\ fifo' = [fifo EXCEPT ![c] = Tail(@)]

Next == \E c \in Channel : Accept(c) \/ Send(c)
Spec == Init /\ [][Next]_vars
=============================================================================
