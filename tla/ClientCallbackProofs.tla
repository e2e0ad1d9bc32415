------------------------ MODULE ClientCallbackProofs ------------------------
(***************************************************************************)
(* The callback queue keeps what it promises, for every size and every set *)
(* of producers, as long as no handler interrupts another one in the       *)
(* middle of a post: as long as all that are enabled have one level.  At   *)
(* the end, the results that one of the producers, the converter's         *)
(* interrupt, has to post are those of the right queue (ConversionQueue).  *)
(***************************************************************************)
EXTENDS ClientCallback, ConversionQueue, TLAPS, SequenceTheorems, FiniteSetTheorems

(* The levels of the interrupts a client has enabled.  The converter's     *)
(* differs from the others' (PERADC.c, TEPM.c, CAN), so this excludes its  *)
(* use with them, where the queue does lose its order.                     *)
OneLevelEach == \A s \in Setups : \A p, q \in s : Level[p] = Level[q]

Mailbox == Producer \cup {Null}
Step == {"test", "callback", "mailbox", "add"}

Types ==
  /\ enabled \in Setups
  /\ slot \in [Index -> [pfCB : Mailbox, pstMBX : Mailbox]]
  /\ head \in Index /\ tail \in Index
  /\ pc \in {"idle", "test", "call", "remove"} /\ pstMBX \in Mailbox
  /\ pfTEPMEventCB \in BOOLEAN /\ boTransferComplete \in BOOLEAN

(* At most one handler is active.                                          *)
Alone ==
  \/ handlers = <<>>
  \/ \E p \in enabled, s \in Step, m \in BOOLEAN :
       handlers = <<[who |-> p, step |-> s, masked |-> m]>>

(* It has found a place, which nobody takes from it, and has written its   *)
(* mailbox there when it adds it.                                          *)
Posting ==
  handlers # <<>> =>
    /\ handlers[1].step # "test" => ~IsFull
    /\ handlers[1].step = "add" => slot[tail].pstMBX = handlers[1].who

(* The dispatcher has the message at the head in hand.                     *)
InHand == pc \in {"call", "remove"} => head # tail /\ pstMBX = slot[head].pstMBX

(* A diagnostic write is in a handler, or once in the queue, or nowhere,   *)
(* and in the first two cases it is not complete.                          *)
Writes(q) == {k \in 1..Len(q) : q[k] = Diag}
Yet == IF pc = "remove" THEN Writes(QueuedMailboxes) \ {1} ELSE Writes(QueuedMailboxes)
Underway == handlers # <<>> /\ handlers[1].who = Diag
OneWrite ==
  /\ Yet # {} \/ Underway => ~boTransferComplete
  /\ ~(Yet # {} /\ Underway)
  /\ \A j, k \in Yet : j = k

IInv == Types /\ Alone /\ Posting /\ InHand /\ OneWrite

-----------------------------------------------------------------------------
(* The arithmetic of the ring.                                             *)
LEMMA SizeFacts == QueueSize \in Nat /\ QueueSize >= 2
BY QueueSizeAssumption

LEMMA WrapsOnce ==
  ASSUME NEW n \in Nat, n > 0, NEW a \in 0..n - 1
  PROVE  (a + n) % n = a
BY SMT

LEMMA Wrapped ==
  ASSUME NEW x \in Int, -QueueSize <= x, x < 2 * QueueSize
  PROVE  x % QueueSize = IF x < 0 THEN x + QueueSize
                         ELSE IF x < QueueSize THEN x ELSE x - QueueSize
<1>1. CASE x < 0
  BY <1>1, SizeFacts, SMT
<1>2. CASE x >= 0 /\ x < QueueSize
  BY <1>2, SizeFacts, SMT
<1>3. CASE x >= QueueSize
  <2> DEFINE a == x - QueueSize
  <2>1. a \in 0..QueueSize - 1 /\ x = a + QueueSize
    BY <1>3, SizeFacts
  <2> HIDE DEF a
  <2>2. (a + QueueSize) % QueueSize = a
    BY <2>1, WrapsOnce, SizeFacts
  <2> QED BY <1>3, <2>1, <2>2, SizeFacts
<1> QED BY <1>1, <1>2, <1>3, SizeFacts

(* The place of the k-th message behind the head h, and how many there are.*)
Place(h, k) == (h + k - 1) % QueueSize
Between(h, t) == (t - h) % QueueSize

LEMMA PlaceIs ==
  ASSUME NEW h \in Index, NEW k \in 1..QueueSize
  PROVE  /\ Place(h, k) \in Index
         /\ Place(h, k) = IF h + k - 1 < QueueSize THEN h + k - 1 ELSE h + k - 1 - QueueSize
<1>1. h + k - 1 \in Int /\ -QueueSize <= h + k - 1 /\ h + k - 1 < 2 * QueueSize /\ h + k - 1 >= 0
  BY SizeFacts DEF Index
<1>2. Place(h, k) = IF h + k - 1 < QueueSize THEN h + k - 1 ELSE h + k - 1 - QueueSize
  <2> DEFINE x == h + k - 1
  <2>1. x \in Int /\ -QueueSize <= x /\ x < 2 * QueueSize /\ ~(x < 0)
    BY <1>1
  <2> HIDE DEF x
  <2>2. x % QueueSize = IF x < QueueSize THEN x ELSE x - QueueSize
    BY <2>1, Wrapped
  <2> QED BY <1>1, <2>2, SizeFacts DEF Place, x, Index
<1> QED BY <1>1, <1>2, SizeFacts DEF Index

LEMMA BetweenIs ==
  ASSUME NEW h \in Index, NEW t \in Index
  PROVE  /\ Between(h, t) \in Index
         /\ Between(h, t) = IF h <= t THEN t - h ELSE t - h + QueueSize
<1>1. t - h \in Int /\ -QueueSize <= t - h /\ t - h < 2 * QueueSize
  BY SizeFacts DEF Index
<1>2. Between(h, t) = IF h <= t THEN t - h ELSE t - h + QueueSize
  BY <1>1, Wrapped, SizeFacts DEF Between, Index
<1> QED BY <1>2, SizeFacts DEF Index

LEMMA AfterIs ==
  ASSUME NEW i \in Index
  PROVE  After(i) \in Index /\ After(i) = IF i + 1 = QueueSize THEN 0 ELSE i + 1
<1>1. i + 1 \in Int /\ -QueueSize <= i + 1 /\ i + 1 < 2 * QueueSize /\ i + 1 >= 0
  BY SizeFacts DEF Index
<1>2. After(i) = IF i + 1 < QueueSize THEN i + 1 ELSE i + 1 - QueueSize
  <2> DEFINE x == i + 1
  <2>1. x \in Int /\ -QueueSize <= x /\ x < 2 * QueueSize /\ ~(x < 0)
    BY <1>1
  <2> HIDE DEF x
  <2>2. x % QueueSize = IF x < QueueSize THEN x ELSE x - QueueSize
    BY <2>1, Wrapped
  <2> QED BY <1>1, <2>2, SizeFacts DEF After, x, Index
<1> QED BY <1>2, SizeFacts DEF Index

(* A message that is added lies behind those that wait.                    *)
LEMMA Added ==
  ASSUME NEW h \in Index, NEW t \in Index, h # After(t)
  PROVE  /\ Between(h, After(t)) = Between(h, t) + 1
         /\ Place(h, Between(h, t) + 1) = t
         /\ Between(h, t) + 1 \in 1..QueueSize
<1>1. After(t) \in Index /\ After(t) = IF t + 1 = QueueSize THEN 0 ELSE t + 1
  BY AfterIs
<1>2. Between(h, t) \in Index /\ Between(h, t) = IF h <= t THEN t - h ELSE t - h + QueueSize
  BY BetweenIs
<1>3. Between(h, After(t)) = IF h <= After(t) THEN After(t) - h ELSE After(t) - h + QueueSize
  BY <1>1, BetweenIs
<1>4. Between(h, t) + 1 \in 1..QueueSize
  BY <1>2, SizeFacts DEF Index
<1>5. Between(h, After(t)) = Between(h, t) + 1
  BY <1>1, <1>2, <1>3, SizeFacts DEF Index
<1>6. Place(h, Between(h, t) + 1) =
        IF h + Between(h, t) < QueueSize THEN h + Between(h, t) ELSE h + Between(h, t) - QueueSize
  BY <1>2, <1>4, PlaceIs DEF Index
<1>7. Place(h, Between(h, t) + 1) = t
  BY <1>2, <1>6, SizeFacts DEF Index
<1> QED BY <1>4, <1>5, <1>7

(* No message that waits lies at the tail.                                 *)
LEMMA NotAtTail ==
  ASSUME NEW h \in Index, NEW t \in Index, NEW k \in 1..Between(h, t)
  PROVE  k \in 1..QueueSize /\ Place(h, k) \in Index /\ Place(h, k) # t
<1>1. Between(h, t) \in Index /\ Between(h, t) = IF h <= t THEN t - h ELSE t - h + QueueSize
  BY BetweenIs
<1>2. k \in 1..QueueSize
  BY <1>1, SizeFacts DEF Index
<1>3. /\ Place(h, k) \in Index
      /\ Place(h, k) = IF h + k - 1 < QueueSize THEN h + k - 1 ELSE h + k - 1 - QueueSize
  BY <1>2, PlaceIs
<1> QED BY <1>1, <1>2, <1>3, SizeFacts DEF Index

(* When the head is taken off the others move up.                          *)
LEMMA Removed ==
  ASSUME NEW h \in Index, NEW t \in Index, h # t
  PROVE  /\ Between(h, t) >= 1
         /\ Between(After(h), t) = Between(h, t) - 1
         /\ \A k \in 1..Between(h, t) - 1 : Place(After(h), k) = Place(h, k + 1)
<1>1. After(h) \in Index /\ After(h) = IF h + 1 = QueueSize THEN 0 ELSE h + 1
  BY AfterIs
<1>2. Between(h, t) \in Index /\ Between(h, t) = IF h <= t THEN t - h ELSE t - h + QueueSize
  BY BetweenIs
<1>3. Between(After(h), t) = IF After(h) <= t THEN t - After(h) ELSE t - After(h) + QueueSize
  BY <1>1, BetweenIs
<1>4. Between(h, t) >= 1 /\ Between(After(h), t) = Between(h, t) - 1
  BY <1>1, <1>2, <1>3, SizeFacts DEF Index
<1>5. ASSUME NEW k \in 1..Between(h, t) - 1
      PROVE  Place(After(h), k) = Place(h, k + 1)
  <2>1. k \in 1..QueueSize /\ k + 1 \in 1..QueueSize
    BY <1>2, SizeFacts DEF Index
  <2>2. Place(After(h), k) = IF After(h) + k - 1 < QueueSize THEN After(h) + k - 1
                             ELSE After(h) + k - 1 - QueueSize
    BY <1>1, <2>1, PlaceIs
  <2>3. Place(h, k + 1) = IF h + (k + 1) - 1 < QueueSize THEN h + (k + 1) - 1
                          ELSE h + (k + 1) - 1 - QueueSize
    BY <2>1, PlaceIs
  <2> QED BY <1>1, <2>1, <2>2, <2>3, SizeFacts DEF Index
<1> QED BY <1>4, <1>5

LEMMA HeadIsFirst == ASSUME NEW h \in Index PROVE Place(h, 1) = h
BY PlaceIs, SizeFacts DEF Index

-----------------------------------------------------------------------------
(* What a step may do to the queue: it writes at the tail, adds what is    *)
(* there, or takes the head off.                                           *)
LEMMA WaitingIs == Waiting = Between(head, tail) /\ \A k \in 1..Waiting : Queued(k) = slot[Place(head, k)]
BY DEF Waiting, Between, Queued, Place

LEMMA QueueKept ==
  ASSUME Types, head' = head, tail' = tail, \A i \in Index \ {tail} : slot'[i] = slot[i]
  PROVE  QueuedMailboxes' = QueuedMailboxes
<1>1. Waiting' = Waiting
  BY DEF Waiting
<1>2. ASSUME NEW k \in 1..Waiting PROVE Queued(k)' = Queued(k)
  <2>1. Place(head, k) \in Index \ {tail}
    BY WaitingIs, NotAtTail DEF Types
  <2> QED BY <2>1 DEF Queued, Place
<1> QED BY <1>1, <1>2 DEF QueuedMailboxes

LEMMA MailboxesAreSequence ==
  ASSUME Types
  PROVE  /\ Waiting \in Index /\ QueuedMailboxes \in Seq(Mailbox) /\ Len(QueuedMailboxes) = Waiting
         /\ Requests(Waiting) = Writes(QueuedMailboxes)
<1>1. Waiting \in Index
  BY WaitingIs, BetweenIs DEF Types
<1>2. ASSUME NEW k \in 1..Waiting PROVE Queued(k).pstMBX \in Mailbox
  <2>1. Queued(k) = slot[Place(head, k)] /\ Place(head, k) \in Index
    BY WaitingIs, NotAtTail DEF Types
  <2>2. slot[Place(head, k)] \in [pfCB : Mailbox, pstMBX : Mailbox]
    BY <2>1 DEF Types
  <2> QED BY <2>1, <2>2
<1>3. QueuedMailboxes \in [1..Waiting -> Mailbox] /\ Waiting \in Nat
  BY <1>1, <1>2, SizeFacts DEF QueuedMailboxes, Index
<1>4. QueuedMailboxes \in Seq(Mailbox) /\ Len(QueuedMailboxes) = Waiting
  BY <1>3, SeqDef
<1>5. Requests(Waiting) = Writes(QueuedMailboxes)
  BY <1>4 DEF Requests, QueuedMailboxes, Writes
<1> QED BY <1>1, <1>4, <1>5

LEMMA QueueAdds ==
  ASSUME Types, ~IsFull, slot' = slot, head' = head, tail' = After(tail)
  PROVE  /\ Waiting < QueueSize - 1 /\ Waiting' = Waiting + 1
         /\ QueuedMailboxes' = Append(QueuedMailboxes, slot[tail].pstMBX)
<1>1. /\ Between(head, After(tail)) = Between(head, tail) + 1
      /\ Place(head, Between(head, tail) + 1) = tail
      /\ Between(head, After(tail)) \in Index
  BY Added, BetweenIs, AfterIs DEF Types, IsFull
<1>2. Waiting \in Index /\ Waiting' = Waiting + 1 /\ Waiting' \in Index
  <2>1. Waiting' = Between(head, After(tail))
    BY DEF Waiting, Between
  <2> QED BY <1>1, <2>1, WaitingIs, MailboxesAreSequence
<1>3. Waiting < QueueSize - 1
  BY <1>2, SizeFacts DEF Index
<1>4. \A k \in Nat : Queued(k)' = Queued(k)
  BY DEF Queued
<1>5. Queued(Waiting + 1) = slot[tail]
  BY <1>1, WaitingIs DEF Queued, Place
<1>6. QueuedMailboxes' = [k \in 1..Waiting + 1 |-> Queued(k).pstMBX]
  BY <1>2, <1>4, SizeFacts DEF QueuedMailboxes, Index
<1>7. QueuedMailboxes \in Seq(Mailbox) /\ Len(QueuedMailboxes) = Waiting
  BY MailboxesAreSequence
<1>8. slot[tail].pstMBX \in Mailbox
  BY DEF Types
<1> DEFINE longer == Append(QueuedMailboxes, slot[tail].pstMBX)
<1>9. /\ longer \in Seq(Mailbox) /\ Len(longer) = Waiting + 1
      /\ longer[Waiting + 1] = slot[tail].pstMBX
      /\ \A k \in 1..Waiting : longer[k] = QueuedMailboxes[k]
  BY <1>7, <1>8
<1> HIDE DEF longer
<1>10. ASSUME NEW k \in 1..Waiting + 1 PROVE Queued(k).pstMBX = longer[k]
  <2>1. CASE k = Waiting + 1
    BY <1>5, <1>9, <2>1
  <2>2. CASE k \in 1..Waiting
    BY <1>9, <2>2 DEF QueuedMailboxes
  <2> QED BY <1>2, <2>1, <2>2, SizeFacts DEF Index
<1>11. QueuedMailboxes' = [k \in 1..Waiting + 1 |-> longer[k]]
  BY <1>6, <1>10
<1>12. longer = [k \in 1..Waiting + 1 |-> longer[k]]
  BY <1>9
<1> QED BY <1>2, <1>3, <1>11, <1>12 DEF longer

LEMMA QueueRemoves ==
  ASSUME Types, head # tail, slot' = slot, head' = After(head), tail' = tail
  PROVE  /\ QueuedMailboxes # <<>> /\ Waiting' = Waiting - 1
         /\ QueuedMailboxes' = Tail(QueuedMailboxes)
<1>1. /\ Between(head, tail) >= 1
      /\ Between(After(head), tail) = Between(head, tail) - 1
      /\ \A k \in 1..Between(head, tail) - 1 : Place(After(head), k) = Place(head, k + 1)
  BY Removed DEF Types
<1>2. Waiting \in Index /\ Waiting >= 1 /\ Waiting' = Waiting - 1
  <2>1. Waiting' = Between(After(head), tail)
    BY DEF Waiting, Between
  <2> QED BY <1>1, <2>1, WaitingIs, MailboxesAreSequence
<1>3. QueuedMailboxes \in Seq(Mailbox) /\ Len(QueuedMailboxes) = Waiting
  BY MailboxesAreSequence
<1>4. ASSUME NEW k \in 1..Waiting - 1
      PROVE  slot[Place(After(head), k)].pstMBX = QueuedMailboxes[k + 1]
  <2>1. k + 1 \in 1..Waiting
    BY <1>2, SizeFacts DEF Index
  <2>2. QueuedMailboxes[k + 1] = slot[Place(head, k + 1)].pstMBX
    BY <2>1, WaitingIs DEF QueuedMailboxes
  <2> QED BY <1>1, <2>2, WaitingIs
<1>5. QueuedMailboxes # <<>>
  BY <1>2, <1>3, SizeFacts DEF Index
<1> DEFINE rest == Tail(QueuedMailboxes)
<1>6. /\ rest \in Seq(Mailbox) /\ Len(rest) = Waiting - 1
      /\ \A k \in 1..Waiting - 1 : rest[k] = QueuedMailboxes[k + 1]
  BY <1>3, <1>5
<1> HIDE DEF rest
<1>7. QueuedMailboxes' = [k \in 1..Waiting - 1 |-> slot[Place(After(head), k)].pstMBX]
  BY <1>2 DEF QueuedMailboxes, Queued, Place
<1>8. QueuedMailboxes' = [k \in 1..Waiting - 1 |-> rest[k]]
  BY <1>4, <1>6, <1>7
<1>9. rest = [k \in 1..Waiting - 1 |-> rest[k]]
  BY <1>6
<1> QED BY <1>2, <1>5, <1>8, <1>9 DEF rest

LEMMA WritesAppend ==
  ASSUME NEW q \in Seq(Mailbox), NEW m \in Mailbox
  PROVE  Writes(Append(q, m)) = IF m = Diag THEN Writes(q) \cup {Len(q) + 1} ELSE Writes(q)
BY DEF Writes

LEMMA WritesTail ==
  ASSUME NEW q \in Seq(Mailbox), q # <<>>
  PROVE  \A k \in Writes(Tail(q)) : k + 1 \in Writes(q) \ {1} /\ k \in Nat
BY DEF Writes

-----------------------------------------------------------------------------
(* The handlers.                                                           *)
LEMMA NobodyInterrupts ==
  ASSUME OneLevelEach, Types, Alone, NEW p \in enabled, Preemptible(p)
  PROVE  handlers = <<>>
<1> SUFFICES ASSUME handlers # <<>> PROVE FALSE
  OBVIOUS
<1>1. PICK q \in enabled, s \in Step, m \in BOOLEAN :
        handlers = <<[who |-> q, step |-> s, masked |-> m]>>
  BY DEF Alone
<1>2. 1 \in DOMAIN handlers /\ handlers[1].who = q
  BY <1>1
<1>3. Level[p] > Level[q]
  BY <1>2 DEF Preemptible
<1>4. enabled \in Setups /\ enabled \subseteq Producer /\ Level[p] = Level[q] /\ Level[p] \in Nat
  BY ProducerAssumption DEF OneLevelEach, Types
<1> QED BY <1>3, <1>4

(* A handler that enters is then the only one, proceeds and leaves.        *)
LEMMA Enters ==
  ASSUME handlers = <<>>, NEW p \in enabled, NEW m \in BOOLEAN, Enter(p, m)
  PROVE  handlers' = <<[who |-> p, step |-> "test", masked |-> m]>>
BY DEF Enter

LEMMA Only ==
  ASSUME NEW p, NEW step, Alone, Active(p, step)
  PROVE  /\ p \in enabled /\ step \in Step
         /\ handlers # <<>> /\ handlers[1].who = p /\ handlers[1].step = step
         /\ Leave => handlers' = <<>>
         /\ \A next \in Step : Proceed(next) =>
              \E m \in BOOLEAN : handlers' = <<[who |-> p, step |-> next, masked |-> m]>>
<1>1. PICK q \in enabled, s \in Step, m \in BOOLEAN :
        handlers = <<[who |-> q, step |-> s, masked |-> m]>>
  BY DEF Alone, Active
<1>2. q = p /\ s = step
  BY <1>1 DEF Active
<1>3. Leave => handlers' = <<>>
  BY <1>1 DEF Leave
<1>4. ASSUME NEW next \in Step, Proceed(next)
      PROVE  handlers' = <<[who |-> p, step |-> next, masked |-> m]>>
  BY <1>1, <1>2, <1>4 DEF Proceed
<1> QED BY <1>1, <1>2, <1>3, <1>4

-----------------------------------------------------------------------------
(* One lemma for each kind of step.  Each also says what the step is to    *)
(* the queue of messages.                                                  *)
FifoStep == [Fifo!Next]_QueuedMailboxes

LEMMA KeptIsStutter == QueuedMailboxes' = QueuedMailboxes => FifoStep
BY DEF FifoStep

LEMMA EmptyYet ==
  ASSUME Types, pc' = pc, QueuedMailboxes' = QueuedMailboxes
  PROVE  Yet' = Yet
BY DEF Yet, Writes

LEMMA InterruptKeeps ==
  ASSUME OneLevelEach, IInv, Interrupt
  PROVE  IInv' /\ FifoStep
<1>1. PICK p \in enabled : ConversionDone(p) \/ OutputEvent(p) \/ WriteRequest(p)
  BY DEF Interrupt
<1>2. handlers = <<>>
  BY <1>1, NobodyInterrupts DEF ConversionDone, OutputEvent, WriteRequest, IInv
<1>3. /\ UNCHANGED <<enabled, queue, dispatcher>>
      /\ boTransferComplete' \in BOOLEAN
      /\ p = Diag => boTransferComplete /\ ~boTransferComplete'
      /\ p # Diag => boTransferComplete' = boTransferComplete
      /\ \/ handlers' = <<>>
         \/ \E m \in BOOLEAN : handlers' = <<[who |-> p, step |-> "test", masked |-> m]>>
  <2>1. CASE ConversionDone(p)
    BY <1>2, <2>1, Enters, ProducerAssumption DEF ConversionDone, IInv, Types, dispatcher
  <2>2. CASE OutputEvent(p)
    BY <1>2, <2>2, Enters, ProducerAssumption DEF OutputEvent, IInv, Types, dispatcher
  <2>3. CASE WriteRequest(p)
    BY <1>2, <2>3, Enters DEF WriteRequest
  <2> QED BY <1>1, <2>1, <2>2, <2>3
<1>4. QueuedMailboxes' = QueuedMailboxes
  BY <1>3, QueueKept DEF queue, IInv
<1>5. Types'
  BY <1>3 DEF queue, dispatcher, IInv, Types
<1>6. Alone'
  BY <1>3 DEF Alone, Step
<1>7. Posting'
  <2>1. handlers' # <<>> => handlers'[1].step = "test"
    BY <1>3
  <2> QED BY <2>1 DEF Posting
<1>8. InHand'
  BY <1>3 DEF InHand, queue, dispatcher, IInv
<1>9. Yet' = Yet
  BY <1>3, <1>4 DEF Yet, Writes, dispatcher
<1>10. OneWrite'
  <2>1. Underway' => p = Diag
    BY <1>3 DEF Underway
  <2>2. p = Diag => Yet = {}
    BY <1>3 DEF OneWrite, IInv
  <2> QED BY <1>3, <1>9, <2>1, <2>2 DEF OneWrite, IInv
<1> QED BY <1>4, <1>5, <1>6, <1>7, <1>8, <1>10, KeptIsStutter DEF IInv

LEMMA HandleKeeps ==
  ASSUME IInv, NEW p \in Producer, Handle(p)
  PROVE  IInv' /\ FifoStep
<1>1. /\ UNCHANGED <<enabled, head, dispatcher, boTransferComplete>>
      /\ pc' = pc /\ pstMBX' = pstMBX
  BY DEF Handle, TestFull, PutCallback, PutMailbox, AddItem, queue, dispatcher
<1>2. slot \in [Index -> [pfCB : Mailbox, pstMBX : Mailbox]] /\ head \in Index /\ tail \in Index
  BY DEF IInv, Types
<1>3. CASE TestFull(p)
  <2>1. /\ Active(p, "test") /\ UNCHANGED queue
        /\ IF IsFull THEN Leave ELSE Proceed("callback")
    BY <1>3 DEF TestFull
  <2>2. /\ handlers # <<>> /\ handlers[1].who = p /\ p \in enabled
        /\ \/ handlers' = <<>>
           \/ /\ ~IsFull
              /\ \E m \in BOOLEAN : handlers' = <<[who |-> p, step |-> "callback", masked |-> m]>>
    BY <2>1, Only DEF IInv, Step
  <2>3. QueuedMailboxes' = QueuedMailboxes
    BY <2>1, QueueKept DEF queue, IInv
  <2>4. Types' /\ Alone' /\ InHand'
    BY <1>1, <2>1, <2>2 DEF queue, dispatcher, IInv, Types, Alone, Step, InHand
  <2>5. Posting'
    BY <1>1, <2>1, <2>2 DEF queue, Posting, IsFull
  <2>6. Yet' = Yet /\ (Underway' => Underway)
    BY <1>1, <2>2, <2>3 DEF Yet, Writes, Underway
  <2>7. OneWrite'
    BY <1>1, <2>6 DEF OneWrite, IInv
  <2> QED BY <2>3, <2>4, <2>5, <2>7, KeptIsStutter DEF IInv
<1>4. ASSUME NEW next \in {"mailbox", "add"}, NEW step \in {"callback", "mailbox"},
             Active(p, step), Proceed(next), tail' = tail,
             slot' \in [Index -> [pfCB : Mailbox, pstMBX : Mailbox]],
             \A i \in Index \ {tail} : slot'[i] = slot[i],
             next = "add" => slot'[tail].pstMBX = p
      PROVE  IInv' /\ FifoStep
  <2>1. /\ handlers # <<>> /\ handlers[1].who = p /\ handlers[1].step = step /\ p \in enabled
        /\ \E m \in BOOLEAN : handlers' = <<[who |-> p, step |-> next, masked |-> m]>>
    BY <1>4, Only DEF IInv, Step
  <2>2. ~IsFull
    BY <2>1, <1>4 DEF IInv, Posting
  <2>3. QueuedMailboxes' = QueuedMailboxes
    BY <1>1, <1>4, QueueKept DEF IInv
  <2>4. Types' /\ Alone'
    BY <1>1, <1>4, <2>1 DEF dispatcher, IInv, Types, Alone, Step
  <2>5. InHand'
    BY <1>1, <1>2, <1>4 DEF IInv, InHand
  <2>6. Posting'
    <3>1. ~IsFull'
      BY <1>1, <1>4, <2>2 DEF IsFull
    <3>2. handlers'[1].who = p /\ handlers'[1].step = next
      BY <2>1
    <3> QED BY <1>4, <3>1, <3>2 DEF Posting
  <2>7. Yet' = Yet /\ (Underway' => Underway)
    BY <1>1, <2>1, <2>3 DEF Yet, Writes, Underway
  <2>8. OneWrite'
    BY <1>1, <2>7 DEF OneWrite, IInv
  <2> QED BY <2>3, <2>4, <2>5, <2>6, <2>8, KeptIsStutter DEF IInv
<1>5. CASE PutCallback(p)
  <2>1. CallbackOf(p) \in Mailbox
    BY DEF CallbackOf, Mailbox
  <2>2. slot' = [slot EXCEPT ![tail].pfCB = CallbackOf(p)] /\ tail' = tail
    BY <1>5 DEF PutCallback
  <2>3. slot' \in [Index -> [pfCB : Mailbox, pstMBX : Mailbox]]
    BY <1>2, <2>1, <2>2
  <2>4. \A i \in Index \ {tail} : slot'[i] = slot[i]
    BY <1>2, <2>2
  <2> QED BY <1>4, <1>5, <2>2, <2>3, <2>4 DEF PutCallback
<1>6. CASE PutMailbox(p)
  <2>1. slot' = [slot EXCEPT ![tail].pstMBX = p] /\ tail' = tail /\ p \in Mailbox
    BY <1>6 DEF PutMailbox, Mailbox
  <2>2. slot' \in [Index -> [pfCB : Mailbox, pstMBX : Mailbox]]
    BY <1>2, <2>1
  <2>3. (\A i \in Index \ {tail} : slot'[i] = slot[i]) /\ slot'[tail].pstMBX = p
    BY <1>2, <2>1
  <2> QED BY <1>4, <1>6, <2>1, <2>2, <2>3 DEF PutMailbox
<1>7. CASE AddItem(p)
  <2>1. Active(p, "add") /\ Leave /\ slot' = slot /\ tail' = After(tail)
    BY <1>7 DEF AddItem
  <2>2. handlers # <<>> /\ handlers[1].who = p /\ handlers[1].step = "add" /\ handlers' = <<>>
    BY <2>1, Only DEF IInv
  <2>3. ~IsFull /\ slot[tail].pstMBX = p
    BY <2>2 DEF IInv, Posting
  <2>4. /\ Waiting < QueueSize - 1
        /\ QueuedMailboxes' = Append(QueuedMailboxes, p)
    BY <1>1, <2>1, <2>3, QueueAdds DEF IInv
  <2>5. Types' /\ Alone' /\ Posting'
    BY <1>1, <2>1, <2>2, AfterIs DEF dispatcher, IInv, Types, Alone, Posting
  <2>6. InHand'
    BY <1>1, <2>1, <2>3 DEF IInv, InHand, IsFull
  <2>7. QueuedMailboxes \in Seq(Mailbox) /\ Len(QueuedMailboxes) = Waiting /\ p \in Mailbox
    BY MailboxesAreSequence DEF IInv, Mailbox
  <2>8. Writes(QueuedMailboxes)' =
          IF p = Diag THEN Writes(QueuedMailboxes) \cup {Len(QueuedMailboxes) + 1}
                      ELSE Writes(QueuedMailboxes)
    <3>1. Writes(QueuedMailboxes)' = Writes(Append(QueuedMailboxes, p))
      BY <2>4 DEF Writes
    <3> QED BY <2>7, <3>1, WritesAppend
  <2>9. OneWrite'
    <3>1. CASE p = Diag
      <4>1. Yet = {} /\ ~boTransferComplete
        BY <2>2, <3>1 DEF IInv, OneWrite, Underway
      <4>2. Yet' \subseteq {Len(QueuedMailboxes) + 1}
        BY <1>1, <2>8, <3>1, <4>1 DEF Yet
      <4> QED BY <1>1, <2>2, <4>1, <4>2 DEF OneWrite, Underway
    <3>2. CASE p # Diag
      <4>1. Yet' = Yet
        BY <1>1, <2>8, <3>2 DEF Yet
      <4> QED BY <1>1, <2>2, <4>1 DEF IInv, OneWrite, Underway
    <3> QED BY <3>1, <3>2
  <2>10. FifoStep
    BY <2>4, <2>7 DEF FifoStep, Fifo!Next, Fifo!Accept
  <2> QED BY <2>5, <2>6, <2>9, <2>10 DEF IInv
<1> QED BY <1>3, <1>5, <1>6, <1>7 DEF Handle

LEMMA DispatcherKeeps ==
  ASSUME IInv, Dispatcher
  PROVE  IInv' /\ FifoStep
<1>1. handlers = <<>> /\ UNCHANGED <<enabled, slot, tail, handlers>>
  BY DEF Dispatcher, Dispatch, TestEmpty, Call, RemoveItem, Dispatching, queue
<1>2. Alone' /\ Posting' /\ ~Underway'
  BY <1>1 DEF Alone, Posting, Underway
<1>3. slot \in [Index -> [pfCB : Mailbox, pstMBX : Mailbox]] /\ head \in Index /\ tail \in Index
  BY DEF IInv, Types
<1>4. CASE Dispatch
  <2>1. pc' = "test" /\ pc = "idle" /\ UNCHANGED <<queue, pstMBX, boTransferComplete>> /\ pfTEPMEventCB' = FALSE
    BY <1>4 DEF Dispatch, Dispatching
  <2>2. QueuedMailboxes' = QueuedMailboxes
    BY <2>1, QueueKept DEF queue, IInv
  <2>3. Types' /\ InHand'
    BY <1>1, <2>1 DEF queue, IInv, Types, InHand
  <2>4. Yet' = Yet
    BY <2>1, <2>2 DEF Yet, Writes
  <2> QED BY <1>2, <2>1, <2>2, <2>3, <2>4, KeptIsStutter DEF IInv, OneWrite
<1>5. CASE TestEmpty
  <2>1. /\ pc = "test" /\ UNCHANGED <<queue, boTransferComplete, pfTEPMEventCB>>
        /\ \/ pc' = "idle" /\ pstMBX' = pstMBX
           \/ pc' = "call" /\ pstMBX' = slot[head].pstMBX /\ head # tail
    BY <1>5 DEF TestEmpty, Dispatching, IsEmpty
  <2>2. QueuedMailboxes' = QueuedMailboxes
    BY <2>1, QueueKept DEF queue, IInv
  <2>3. slot[head].pstMBX \in Mailbox
    BY <1>3
  <2>4. Types' /\ InHand'
    BY <1>1, <2>1, <2>3 DEF queue, IInv, Types, InHand
  <2>5. Yet' = Yet
    BY <2>1, <2>2 DEF Yet, Writes
  <2> QED BY <1>2, <2>1, <2>2, <2>4, <2>5, KeptIsStutter DEF IInv, OneWrite
<1>6. CASE Call
  <2>1. /\ pc = "call" /\ pc' = "remove" /\ UNCHANGED <<queue, pstMBX>>
        /\ pfTEPMEventCB' \in BOOLEAN /\ boTransferComplete' \in BOOLEAN
        /\ boTransferComplete' = boTransferComplete \/ pstMBX = Diag
    <3>1. pfTEPMEventCB \in BOOLEAN /\ boTransferComplete \in BOOLEAN
      BY DEF IInv, Types
    <3> QED BY <1>6, <3>1 DEF Call, Dispatching
  <2>2. QueuedMailboxes' = QueuedMailboxes
    BY <2>1, QueueKept DEF queue, IInv
  <2>3. Types' /\ InHand'
    BY <1>1, <2>1 DEF queue, IInv, Types, InHand
  <2>4. Yet = Writes(QueuedMailboxes) /\ Yet' = Yet \ {1}
    BY <2>1, <2>2 DEF Yet, Writes
  <2>5. head # tail /\ pstMBX = slot[head].pstMBX
    BY <2>1 DEF IInv, InHand
  <2>6. pstMBX = Diag => 1 \in Yet
    <3>1. Between(head, tail) >= 1
      BY <1>3, <2>5, Removed
    <3>2. Waiting \in Index /\ Len(QueuedMailboxes) = Waiting /\ Waiting >= 1
      BY <3>1, WaitingIs, MailboxesAreSequence DEF IInv
    <3>3. 1 \in 1..Waiting
      BY <3>2, SizeFacts DEF Index
    <3>4. QueuedMailboxes[1] = slot[head].pstMBX
      BY <1>3, <3>3, WaitingIs, HeadIsFirst DEF QueuedMailboxes
    <3> QED BY <2>4, <2>5, <3>2, <3>3, <3>4 DEF Writes
  <2>7. OneWrite'
    <3>1. CASE pstMBX = Diag
      <4>1. Yet' = {}
        BY <2>4, <2>6, <3>1 DEF IInv, OneWrite
      <4> QED BY <1>2, <4>1 DEF OneWrite
    <3>2. CASE pstMBX # Diag
      <4>1. boTransferComplete' = boTransferComplete
        BY <2>1, <3>2 DEF IInv, Types
      <4> QED BY <1>2, <2>4, <4>1 DEF IInv, OneWrite
    <3> QED BY <3>1, <3>2
  <2> QED BY <1>2, <2>2, <2>3, <2>7, KeptIsStutter DEF IInv
<1>7. CASE RemoveItem
  <2>1. /\ pc = "remove" /\ pc' = "test" /\ UNCHANGED <<pstMBX, pfTEPMEventCB, boTransferComplete>>
        /\ head' = IF IsEmpty THEN head ELSE After(head)
    BY <1>7 DEF RemoveItem, Dispatching
  <2>2. head # tail /\ head' = After(head)
    BY <2>1 DEF IInv, InHand, IsEmpty
  <2>3. QueuedMailboxes # <<>> /\ QueuedMailboxes' = Tail(QueuedMailboxes)
    BY <1>1, <2>2, QueueRemoves DEF IInv
  <2>4. Types' /\ InHand'
    BY <1>1, <1>3, <2>1, <2>2, AfterIs DEF IInv, Types, InHand
  <2>5. QueuedMailboxes \in Seq(Mailbox)
    BY MailboxesAreSequence DEF IInv
  <2>6. \A k \in Yet' : k + 1 \in Yet /\ k \in Nat
    <3>1. Yet' = Writes(Tail(QueuedMailboxes))
      BY <2>1, <2>3 DEF Yet, Writes
    <3> QED BY <2>1, <2>3, <2>5, <3>1, WritesTail DEF Yet
  <2>7. OneWrite'
    <3>1. Yet' # {} => ~boTransferComplete'
      BY <2>1, <2>6 DEF IInv, OneWrite
    <3>2. ASSUME NEW j \in Yet', NEW k \in Yet' PROVE j = k
      <4>1. j + 1 = k + 1 /\ j \in Nat /\ k \in Nat
        BY <2>6 DEF IInv, OneWrite
      <4> QED BY <4>1
    <3> QED BY <1>2, <3>1, <3>2 DEF OneWrite
  <2>8. FifoStep
    BY <2>3 DEF FifoStep, Fifo!Next, Fifo!Release
  <2> QED BY <1>2, <2>4, <2>7, <2>8 DEF IInv
<1> QED BY <1>4, <1>5, <1>6, <1>7 DEF Dispatcher

-----------------------------------------------------------------------------
LEMMA Starts == Init => IInv /\ Fifo!Init
<1> SUFFICES ASSUME Init PROVE IInv /\ Fifo!Init
  OBVIOUS
<1>1. Types /\ Alone /\ Posting /\ InHand
  <2>1. 0 \in Index /\ Null \in Mailbox
    BY SizeFacts DEF Index, Mailbox
  <2>2. slot \in [Index -> [pfCB : Mailbox, pstMBX : Mailbox]]
    BY <2>1 DEF Init
  <2>3. Types
    BY <2>1, <2>2 DEF Init, Types
  <2>4. Alone /\ Posting /\ InHand
    BY DEF Init, Alone, Posting, InHand
  <2> QED BY <2>3, <2>4
<1>2. Waiting = 0
  BY SizeFacts, BetweenIs, WaitingIs DEF Init, Index
<1>3. QueuedMailboxes = <<>>
  BY <1>2 DEF QueuedMailboxes
<1>4. OneWrite
  BY <1>3 DEF Init, OneWrite, Yet, Writes, Underway
<1> QED BY <1>1, <1>3, <1>4 DEF IInv, Fifo!Init

LEMMA Keeps ==
  ASSUME OneLevelEach, IInv, [Next]_vars
  PROVE  IInv' /\ FifoStep
<1>1. CASE UNCHANGED vars
  <2>1. QueuedMailboxes' = QueuedMailboxes
    BY <1>1, QueueKept DEF vars, queue, IInv
  <2>2. Yet' = Yet
    BY <1>1, <2>1 DEF vars, dispatcher, Yet, Writes
  <2>3. Types' /\ Alone' /\ InHand'
    BY <1>1 DEF vars, queue, dispatcher, IInv, Types, Alone, InHand
  <2>4. Posting'
    BY <1>1 DEF vars, queue, IInv, Posting, IsFull
  <2>5. OneWrite'
    BY <1>1, <2>2 DEF vars, IInv, OneWrite, Underway
  <2> QED BY <2>1, <2>3, <2>4, <2>5, KeptIsStutter DEF IInv
<1> QED BY <1>1, InterruptKeeps, HandleKeeps, DispatcherKeeps DEF Next

(* The buffer of a diagnostic write (UDSAL.c:487-513) belongs to one       *)
(* request from its acceptance until its callback has returned, for every  *)
(* size of the queue, when all enabled interrupts have one level.          *)
THEOREM WriteDataIsKept == ASSUME OneLevelEach PROVE Spec => []WriteDataKept
<1>1. IInv => WriteDataKept
  <2> SUFFICES ASSUME IInv PROVE WriteDataKept
    OBVIOUS
  <2>1. Requests(Waiting) = Writes(QueuedMailboxes)
    BY MailboxesAreSequence DEF IInv
  <2> QED BY <2>1 DEF IInv, OneWrite, Yet, WriteDataKept
<1>2. IInv /\ [Next]_vars => IInv'
  BY Keeps
<1> QED BY <1>1, <1>2, Starts, PTL DEF Spec

(* Under the same condition the ring of slots (client.c, cqueue.h) is a    *)
(* queue of messages: every step of handlers and dispatcher is a step of   *)
(* CallbackFifo or leaves it alone.                                        *)
THEOREM RingIsFifo ==
  ASSUME OneLevelEach PROVE Spec => Fifo!Init /\ [][Fifo!Next]_QueuedMailboxes
<1>1. IInv /\ [Next]_vars => IInv' /\ [Fifo!Next]_QueuedMailboxes
  BY Keeps DEF FifoStep
<1> QED BY <1>1, Starts, PTL DEF Spec

-----------------------------------------------------------------------------
(* Every result is its own, for every set of queues and every limit of the *)
(* guard against a stuck queue.                                            *)
(*                                                                         *)
(* The invariant behind it follows a conversion from its start to its      *)
(* interrupt: unless a reset came too early, the queue in the converter,   *)
(* and then the one whose data lie in its registers, is the active one,    *)
(* still waits and keeps the converter busy, so that no trigger can start  *)
(* another.                                                                *)

ConversionTypes ==
  /\ waiting \subseteq Queues
  /\ active \in Queues \cup {None} /\ converter \in Queues \cup {None}
  /\ data \in Queues \cup {None}
  /\ busy \in BOOLEAN /\ pending \in BOOLEAN /\ early \in BOOLEAN
  /\ stuck \in Nat

\* The queue in the converter is the active one and waits.
ConvertingOwn == ~early /\ converter # None =>
  busy /\ ~pending /\ converter = active /\ active \in waiting

\* So is the one whose conversion has ended, until the interrupt has read it.
PendingOwn == pending /\ ~early =>
  busy /\ converter = None /\ data = active /\ active \in waiting

ConversionInv == ConversionTypes /\ ConvertingOwn /\ PendingOwn

\* The count of the queues that wait is a number.
LEMMA CountIsNumber ==
  ASSUME waiting \subseteq Queues
  PROVE  Cardinality(waiting) \in Nat
BY ConversionAssumption, FS_Subset, FS_CardinalityType

LEMMA ConversionStarts == ConversionInit => ConversionInv
<1> SUFFICES ASSUME ConversionInit PROVE ConversionInv
  OBVIOUS
<1>1. ConversionTypes
  BY DEF ConversionInit, ConversionTypes
<1>2. ConvertingOwn /\ PendingOwn
  BY DEF ConversionInit, ConvertingOwn, PendingOwn
<1> QED BY <1>1, <1>2 DEF ConversionInv

LEMMA ConversionKeeps == ConversionInv /\ [ConversionNext]_conversionVars => ConversionInv'
<1> SUFFICES ASSUME ConversionInv, [ConversionNext]_conversionVars PROVE ConversionInv'
  OBVIOUS
<1> USE ConversionAssumption
<1>1. ASSUME NEW q \in Queues, Trigger(q) PROVE ConversionInv'
  <2>1. ConversionTypes'
    BY <1>1 DEF ConversionInv, ConversionTypes, Trigger, RunConversionQueues
  <2>2. ConvertingOwn' /\ PendingOwn'
    BY <1>1 DEF ConversionInv, ConversionTypes, ConvertingOwn, PendingOwn, Trigger, AtTask, RunConversionQueues
  <2> QED BY <2>1, <2>2 DEF ConversionInv
<1>2. ASSUME NEW q \in Queues, TriggerLatched(q) PROVE ConversionInv'
  <2>1. ConversionTypes'
    BY <1>2 DEF ConversionInv, ConversionTypes, TriggerLatched, RunConversionQueues
  <2>2. early /\ early'  \* a free converter that converts has been reset too early
    BY <1>2 DEF ConversionInv, ConvertingOwn, TriggerLatched, AtTask
  <2> QED BY <2>1, <2>2 DEF ConversionInv, ConvertingOwn, PendingOwn
<1>3. ASSUME NEW q \in Queues, Converted(q) PROVE ConversionInv'
  BY <1>3 DEF ConversionInv, ConversionTypes, ConvertingOwn, PendingOwn, Converted
<1>4. CASE ConversionLost
  BY <1>4 DEF ConversionInv, ConversionTypes, ConvertingOwn, PendingOwn, ConversionLost
<1>5. CASE InterruptHandler
  <2>1. ConversionTypes'
    BY <1>5 DEF ConversionInv, ConversionTypes, InterruptHandler, RunConversionQueues
  <2>2. PendingOwn'
    BY <1>5 DEF ConversionInv, PendingOwn, InterruptHandler
  <2>3. ConvertingOwn'
    BY <1>5 DEF ConversionInv, ConversionTypes, ConvertingOwn, PendingOwn, InterruptHandler, RunConversionQueues
  <2> QED BY <2>1, <2>2, <2>3 DEF ConversionInv
<1>6. CASE RunCount
  BY <1>6, CountIsNumber DEF ConversionInv, ConversionTypes, ConvertingOwn, PendingOwn, RunCount
<1>7. CASE RunReset
  BY <1>7 DEF ConversionInv, ConversionTypes, ConvertingOwn, PendingOwn, RunReset
<1>8. CASE UNCHANGED conversionVars
  BY <1>8 DEF ConversionInv, conversionVars, ConversionTypes, ConvertingOwn, PendingOwn
<1> QED BY <1>1, <1>2, <1>3, <1>4, <1>5, <1>6, <1>7, <1>8 DEF ConversionNext

\* Whatever conversions are lost and whenever a queue is triggered, the results
\* the interrupt hands over are those of the queue that was converted, unless
\* ADC_vRun has freed the converter under it.
THEOREM ResultsAreOwn == ConversionSpec => []ResultsOwn
<1>1. ConversionInv => ResultsOwn
  BY DEF ConversionInv, PendingOwn, ResultsOwn
<1> QED BY <1>1, ConversionStarts, ConversionKeeps, PTL DEF ConversionSpec
=============================================================================
