--------------------------- MODULE ClientCallback ---------------------------
(***************************************************************************)
(* The queue of client callbacks (client.c, with the CQUEUE macros of      *)
(* cqueue.h): interrupt handlers post messages and CLIENT_vRunUserCBQueue  *)
(* calls the client back for each, between the cooperative tasks.          *)
(*                                                                         *)
(* The producers are the converter's interrupt (PERADC.c), the output      *)
(* timers' (TEPM.c) and the diagnostic write service (UDSAL.c), which runs *)
(* in the CAN interrupt.  An interrupt preempts those of a lower level, so *)
(* the active handlers form a stack, and the dispatcher runs under it.     *)
(* Each producer has its own mailbox and callback: both have its name.     *)
(***************************************************************************)
EXTENDS Integers, FiniteSets, Sequences

CONSTANTS
  Adc, Tepm, Diag,   \* the three kinds of producer
  Null,
  Producer,          \* the ones there are
  Setups,            \* the sets of them that the clients may have enabled
  Level,             \* how urgent each one's interrupt is
  QueueSize,         \* CLIENT_nUserCBMax
  DataWriteCB        \* whether the client has installed a data write callback

ASSUME ProducerAssumption ==
  /\ Producer \subseteq {Adc, Tepm, Diag} /\ Null \notin Producer
  /\ Adc # Tepm /\ Tepm # Diag /\ Diag # Adc
  /\ Setups \subseteq SUBSET Producer
  /\ Level \in [Producer -> Nat] /\ DataWriteCB \in BOOLEAN
ASSUME QueueSizeAssumption == QueueSize \in Nat \ {0, 1}

VARIABLES
  enabled,            \* the producers that the clients have enabled
  slot,               \* astCBInfo
  head, tail,         \* stCBQueue
  handlers,           \* the active interrupt handlers, innermost first
  pc, pstMBX, called, \* the dispatcher's: its step, the message, what it called
  pfTEPMEventCB,      \* its local variable, not NULL
  boTransferComplete  \* of UDSAL_stWriteDataTransferCB

queue == <<slot, head, tail>>
dispatcher == <<pc, pstMBX, called, pfTEPMEventCB>>
vars == <<enabled, queue, handlers, dispatcher, boTransferComplete>>

Index == 0..QueueSize - 1
After(i) == (i + 1) % QueueSize

(* The callback a producer passes; the diagnostic one may be missing.      *)
CallbackOf(p) == IF p = Diag /\ ~DataWriteCB THEN Null ELSE p

Init ==
  /\ enabled \in Setups
  /\ slot = [i \in Index |-> [pfCB |-> Null, pstMBX |-> Null]]
  /\ head = 0 /\ tail = 0
  /\ handlers = <<>>
  /\ pc = "idle" /\ pstMBX = Null /\ called = Null /\ pfTEPMEventCB = FALSE
  /\ boTransferComplete = TRUE

IsEmpty == head = tail
\* a mutant: the queue is taken for full only past its size
IsFullPastEnd == tail - head >= QueueSize
IsFull == head = After(tail)

-----------------------------------------------------------------------------
(* CPU_xExitCritical enables interrupts whoever disabled them, so a        *)
(* handler that starts masked may be unmasked by the time it posts.        *)
Preemptible(p) ==
  \A i \in DOMAIN handlers :
    ~handlers[i].masked /\ Level[p] > Level[handlers[i].who]

Active(p, step) == handlers # <<>> /\ Head(handlers).who = p /\ Head(handlers).step = step
Proceed(step) == handlers' = [handlers EXCEPT ![1].step = step]
Leave == handlers' = Tail(handlers)
Enter(p, masked) ==
  handlers' = <<[who |-> p, step |-> "test", masked |-> masked]>> \o handlers

ConversionDone(p) ==
  /\ p = Adc /\ Preemptible(p) /\ Enter(p, FALSE)
  /\ UNCHANGED <<enabled, queue, dispatcher, boTransferComplete>>

OutputEvent(p) ==
  /\ p = Tepm /\ Preemptible(p)
  /\ \E masked \in BOOLEAN : Enter(p, masked)
  /\ UNCHANGED <<enabled, queue, dispatcher, boTransferComplete>>

(* UDSAL_u8WDBI: a write is refused while one is in progress, and goes no  *)
(* further without a callback.                                             *)
\* a mutant: the write does not wait for the one before it
WriteRequestAnyTime(p) ==
  /\ p = Diag /\ Preemptible(p)
  /\ boTransferComplete' = FALSE
  /\ IF CallbackOf(p) # Null THEN Enter(p, FALSE) ELSE UNCHANGED handlers
  /\ UNCHANGED <<enabled, queue, dispatcher>>
WriteRequest(p) ==
  /\ p = Diag /\ Preemptible(p) /\ boTransferComplete
  /\ boTransferComplete' = FALSE
  /\ IF CallbackOf(p) # Null THEN Enter(p, FALSE) ELSE UNCHANGED handlers
  /\ UNCHANGED <<enabled, queue, dispatcher>>

(* CLIENT_enEnqueueCB, step by step: only the tail's increment is in a     *)
(* critical section, and the tail is read again at every step.             *)
TestFull(p) ==
  /\ Active(p, "test")
  /\ IF IsFull THEN Leave ELSE Proceed("callback")
  /\ UNCHANGED <<enabled, queue, dispatcher, boTransferComplete>>

PutCallback(p) ==
  /\ Active(p, "callback") /\ Proceed("mailbox")
  /\ slot' = [slot EXCEPT ![tail].pfCB = CallbackOf(p)]
  /\ UNCHANGED <<enabled, head, tail, dispatcher, boTransferComplete>>

PutMailbox(p) ==
  /\ Active(p, "mailbox") /\ Proceed("add")
  /\ slot' = [slot EXCEPT ![tail].pstMBX = p]
  /\ UNCHANGED <<enabled, head, tail, dispatcher, boTransferComplete>>

AddItem(p) ==
  /\ Active(p, "add") /\ Leave
  /\ tail' = After(tail)
  /\ UNCHANGED <<enabled, slot, head, dispatcher, boTransferComplete>>

Interrupt == \E p \in enabled : ConversionDone(p) \/ OutputEvent(p) \/ WriteRequest(p)
Handle(p) == TestFull(p) \/ PutCallback(p) \/ PutMailbox(p) \/ AddItem(p)

-----------------------------------------------------------------------------
(* CLIENT_vRunUserCBQueue, at any point of which interrupts may come.      *)
Dispatching(step) == handlers = <<>> /\ pc = step

Dispatch ==
  /\ Dispatching("idle")
  /\ pc' = "test" /\ pfTEPMEventCB' = FALSE
  /\ UNCHANGED <<enabled, queue, handlers, pstMBX, called, boTransferComplete>>

TestEmpty ==
  /\ Dispatching("test")
  /\ called' = Null
  /\ IF IsEmpty THEN pc' = "idle" /\ UNCHANGED pstMBX
                ELSE pc' = "call" /\ pstMBX' = slot[head].pstMBX
  /\ UNCHANGED <<enabled, queue, handlers, pfTEPMEventCB, boTransferComplete>>

(* The branch is the message's; the diagnostic one looks at pfTEPMEventCB, *)
(* which a timer event earlier in this call has set, and not at its own    *)
(* callback.                                                               *)
Call ==
  /\ Dispatching("call") /\ pc' = "remove"
  /\ called' = IF pstMBX = Diag /\ ~pfTEPMEventCB THEN Null ELSE slot[head].pfCB
  /\ pfTEPMEventCB' = IF pstMBX = Tepm THEN slot[head].pfCB # Null ELSE pfTEPMEventCB
  /\ boTransferComplete' = (boTransferComplete \/ (pstMBX = Diag /\ pfTEPMEventCB))
  /\ UNCHANGED <<enabled, queue, handlers, pstMBX>>

\* a mutant: only the next call of the dispatcher looks at the queue again
RemoveKeepsItem ==
  /\ Dispatching("remove") /\ pc' = "idle"
  /\ UNCHANGED <<enabled, queue, handlers, pstMBX, called, pfTEPMEventCB, boTransferComplete>>
RemoveItem ==
  /\ Dispatching("remove") /\ pc' = "test"
  /\ head' = IF IsEmpty THEN head ELSE After(head)
  /\ UNCHANGED <<enabled, slot, tail, handlers, pstMBX, called, pfTEPMEventCB, boTransferComplete>>

Dispatcher == Dispatch \/ TestEmpty \/ Call \/ RemoveItem

Next == Interrupt \/ (\E p \in Producer : Handle(p)) \/ Dispatcher

(* A handler runs on to its end, and interrupts, however many, leave the   *)
(* dispatcher the time to get on.                                          *)
Spec == /\ Init /\ [][Next]_vars
        /\ \A p \in Producer : WF_vars(Handle(p))
        /\ SF_vars(Dispatcher)

-----------------------------------------------------------------------------
Waiting == (tail - head) % QueueSize
Queued(k) == slot[(head + k - 1) % QueueSize]
QueuedMailboxes == [k \in 1..Waiting |-> Queued(k).pstMBX]

(* The ring of slots is a queue: an item appears when its handler adds it  *)
(* and no step of another handler or of the dispatcher disturbs it.        *)
Fifo == INSTANCE CallbackFifo WITH
          fifo <- QueuedMailboxes, Mailbox <- Producer, Capacity <- QueueSize - 1
ImplementsFifo == Fifo!Spec

(* The buffer of the diagnostic write belongs to one request from its      *)
(* acceptance until its callback has returned: a later request cannot put  *)
(* other data under a callback still to come.                              *)
Requests(n) == {k \in 1..n : Queued(k).pstMBX = Diag}
WriteDataKept ==
  LET yet == IF pc = "remove" THEN Requests(Waiting) \ {1} ELSE Requests(Waiting)
  IN /\ yet # {} => ~boTransferComplete
     /\ \A j, k \in yet : j = k
=============================================================================
