-------------------------- MODULE DataLinkProofs --------------------------
(***************************************************************************)
(* DLL_vRun always works in the first buffer and gives it back, for every  *)
(* number of channels and buffers and every size of theirs, as long as the *)
(* strides of the release are not longer than the buffers; and with frames *)
(* of full length every channel is a queue of frames.                      *)
(***************************************************************************)
EXTENDS DataLink, TLAPS

(* DLL_vRun finds the first buffer free, and nobody takes it until it has. *)
FindsFirst == pc \in {"find", "mark"} \/ InBuffer => buffer = 1
IInv == TypeOK /\ FirstBufferReturns /\ FindsFirst

(* The modulus of an index is an index.                                    *)
\* What the proofs need of the sizes.
LEMMA Sizes ==
  /\ FrameBytes \in Nat /\ FrameBytes > 0
  /\ QueueSize \in Nat /\ QueueSize > 0 /\ QueueSize > FrameBytes
  BY SizeAssumption

LEMMA ModIndex == ASSUME NEW n \in Nat PROVE n % QueueSize \in Index
  BY SizeAssumption DEF Index

(* However full the ring is, the counts of bytes in it and of free places  *)
(* are less than its size.                                                 *)
LEMMA CountsInRange ==
  ASSUME NEW h \in Index, NEW t \in Index, NEW v,
         v = IF h <= t THEN QueueSize - (t - h) - 1 ELSE h - t - 1
  PROVE  v \in Index /\ QueueSize - v - 1 \in Index
<1>1. QueueSize \in Nat /\ QueueSize > 0 /\ h \in 0..QueueSize - 1 /\ t \in 0..QueueSize - 1
  BY SizeAssumption DEF Index
<1>2. v \in 0..QueueSize - 1
  BY <1>1
<1> QED
  BY <1>1, <1>2 DEF Index

(* So the types of the indices are what is left to show of the rings.      *)
LEMMA IndicesSuffice ==
  ASSUME head \in [Channel -> Index], tail \in [Channel -> Index], NEW c \in Channel
  PROVE  Vacant(c) \in Index /\ Queued(c) \in Index
<1>1. head[c] \in Index /\ tail[c] \in Index
  OBVIOUS
<1> QED
  BY <1>1, CountsInRange DEF Vacant, Queued
LEMMA NextIndicesSuffice ==
  ASSUME head' \in [Channel -> Index], tail' \in [Channel -> Index], NEW c \in Channel
  PROVE  Vacant(c)' \in Index /\ Queued(c)' \in Index
<1>1. head'[c] \in Index /\ tail'[c] \in Index
  OBVIOUS
<1> QED
  BY <1>1, CountsInRange DEF Vacant, Queued

(* The first buffer is found by its address, and no other is taken for it. *)
LEMMA FirstReleased ==
  /\ 1 \in Released(1)
  /\ \A b \in Buffer \ {1} : 1 \notin Released(b)
<1>1. 1 \in Released(1)
  BY SizeAssumption DEF Released, Buffer
<1>2. ASSUME NEW b \in Buffer \ {1} PROVE 1 \notin Released(b)
  <2>1. b \in Nat /\ b >= 2 /\ BufferBytes \in Nat /\ ScanBytes \in Nat
    BY SizeAssumption DEF Buffer
  <2>2. (b - 1) * BufferBytes >= BufferBytes
    BY <2>1
  <2>3. ~((b - 1) * BufferBytes < 1 * ScanBytes)
    BY <2>1, <2>2, StrideAssumption
  <2> QED
    BY <2>3 DEF Released
<1> QED
  BY <1>1, <1>2

(* Releasing a buffer leaves every entry of the table a client's or free.  *)
LEMMA WithoutType ==
  ASSUME NEW owners \in [Buffer -> Channel \cup {Invalid}], NEW b \in Buffer
  PROVE  Without(owners, b) \in [Buffer -> Channel \cup {Invalid}]
  BY DEF Without

LEMMA Element == ASSUME NEW S, NEW s \in Seq(S), NEW i \in 1..Len(s) PROVE s[i] \in S
  OBVIOUS

(* What is queued is a sequence, so that the tail moves by its length.     *)
Byte(f, n) == [frame : {f}, length : {n}, place : 1..n]
LEMMA BytesType ==
  ASSUME NEW f, NEW n \in 1..FrameBytes
  PROVE  Bytes(f, n) \in Seq(Byte(f, n))
<1>1. n \in Nat
  BY SizeAssumption
<1>2. Bytes(f, n) \in [1..n -> Byte(f, n)]
  BY <1>1 DEF Bytes, Byte
<1> QED
  BY <1>1, <1>2

LEMMA QueueBytesType ==
  ASSUME NEW c \in Channel, NEW S, NEW data \in Seq(S),
         TypeOK, QueueBytes(c, data)
  PROVE  head' \in [Channel -> Index] /\ tail' \in [Channel -> Index]
<1>1. CASE Len(data) <= Vacant(c)
  <2>1. (tail[c] + Len(data)) \in Nat
    BY Sizes DEF TypeOK, Index
  <2>2. (tail[c] + Len(data)) % QueueSize \in Index
    BY <2>1, ModIndex
  <2>3. head' = head /\ tail' = [tail EXCEPT ![c] = (@ + Len(data)) % QueueSize]
    BY <1>1 DEF QueueBytes
  <2> QED
    BY <2>2, <2>3 DEF TypeOK
<1>2. CASE ~(Len(data) <= Vacant(c))
  BY <1>2 DEF QueueBytes, queue, TypeOK
<1> QED
  BY <1>1, <1>2

-----------------------------------------------------------------------------
LEMMA Initially == Init => IInv
<1> SUFFICES ASSUME Init PROVE IInv
  OBVIOUS
<1>1. 0 \in Index
  BY SizeAssumption DEF Index
<1>2. head \in [Channel -> Index] /\ tail \in [Channel -> Index]
  BY <1>1 DEF Init
<1>3. \A c \in Channel : Vacant(c) \in Index /\ Queued(c) \in Index
  BY <1>2, IndicesSuffice
<1>4. channel \in Channel /\ buffer \in Buffer /\ bytes \in 0..FrameBytes
  BY SizeAssumption DEF Init, Channel, Buffer
<1>5. client \in [Buffer -> Channel \cup {Invalid}] /\ client[1] = Invalid
  BY <1>4 DEF Init, Buffer
<1>6. pc = "idle"
  BY DEF Init
<1> QED
  BY <1>2, <1>3, <1>4, <1>5, <1>6
  DEF IInv, TypeOK, FirstBufferReturns, FindsFirst, InBuffer

(* An answer is built in a buffer other than the one DLL_vRun works in,    *)
(* and its release leaves that one's entry alone.                          *)
LEMMA ReceiveFrameKeeps ==
  ASSUME IInv, NEW c \in Channel, ReceiveFrame(c)
  PROVE  IInv'
<1>1. PICK b \in Buffer :
        /\ FirstFree(b)
        /\ \/ UNCHANGED <<content, queue>>
           \/ \E lengths \in AnswerLength : \E fs \in [DOMAIN lengths -> Frame[c]] :
                LET part(i) == Bytes(fs[i], lengths[i])
                    answer == IF Len(lengths) = 1 THEN part(1) ELSE part(1) \o part(2)
                IN QueueBytes(c, answer)
        /\ client' = Without([client EXCEPT ![b] = c], b)
        /\ UNCHANGED <<run, sent>>
  BY DEF ReceiveFrame
<1>2. head' \in [Channel -> Index] /\ tail' \in [Channel -> Index]
  <2>1. CASE UNCHANGED <<content, queue>>
    BY <2>1 DEF queue, IInv, TypeOK
  <2>2. ASSUME NEW lengths \in AnswerLength, NEW fs \in [DOMAIN lengths -> Frame[c]],
               QueueBytes(c, IF Len(lengths) = 1 THEN Bytes(fs[1], lengths[1])
                             ELSE Bytes(fs[1], lengths[1]) \o Bytes(fs[2], lengths[2]))
        PROVE  head' \in [Channel -> Index] /\ tail' \in [Channel -> Index]
    <3> DEFINE B(i) == Byte(fs[i], lengths[i])
               one == Bytes(fs[1], lengths[1])
               two == Bytes(fs[2], lengths[2])
    <3>1. lengths \in Seq(1..FrameBytes) /\ Len(lengths) \in {1, 2}
      BY SizeAssumption
    <3>2. one \in Seq(B(1))
      <4>1. 1 \in 1..Len(lengths)
        BY <3>1
      <4>2. lengths[1] \in 1..FrameBytes
        BY <3>1, <4>1, Element
      <4> QED
        BY <4>2, BytesType
    <3>3. CASE Len(lengths) = 1
      BY <2>2, <3>2, <3>3, QueueBytesType DEF IInv
    <3>4. CASE Len(lengths) = 2
      <4>1. two \in Seq(B(2))
        <5>1. 2 \in 1..Len(lengths)
          BY <3>4
        <5>2. lengths[2] \in 1..FrameBytes
          BY <3>1, <5>1, Element
        <5> QED
          BY <5>2, BytesType
      <4>2. one \o two \in Seq(B(1) \cup B(2))
        <5> HIDE DEF one, two, B
        <5> QED
          BY <3>2, <4>1
      <4>3. QueueBytes(c, one \o two)
        BY <2>2, <3>4
      <4> HIDE DEF one, two, B
      <4> QED
        BY <4>2, <4>3, QueueBytesType DEF IInv
    <3> QED
      BY <3>1, <3>3, <3>4
  <2> QED
    BY <1>1, <2>1, <2>2
<1>3. \A d \in Channel : Vacant(d)' \in Index /\ Queued(d)' \in Index
  BY <1>2, NextIndicesSuffice
<1> DEFINE owners == [client EXCEPT ![b] = c]
<1>4. owners \in [Buffer -> Channel \cup {Invalid}] /\ client' = Without(owners, b)
  BY <1>1 DEF IInv, TypeOK
<1>5. client' \in [Buffer -> Channel \cup {Invalid}]
  BY <1>4, WithoutType
<1>6. UNCHANGED <<pc, channel, buffer, bytes>>
  BY <1>1 DEF run
<1>7. client'[1] = client[1]
  <2>1. 1 \in Buffer
    BY SizeAssumption DEF Buffer
  <2>2. CASE b = 1
    <3>1. client[1] = Invalid
      BY <1>1, <2>2 DEF FirstFree, Free
    <3>2. client'[1] = Invalid
      BY <1>4, <2>1, <2>2, FirstReleased DEF Without
    <3> QED
      BY <3>1, <3>2
  <2>3. CASE b # 1
    <3>1. 1 \notin Released(b)
      BY <2>3, FirstReleased
    <3>2. client'[1] = owners[1]
      BY <1>4, <2>1, <3>1 DEF Without
    <3> QED
      BY <2>1, <2>3, <3>2 DEF IInv, TypeOK
  <2> QED
    BY <2>2, <2>3
<1> QED
  BY <1>2, <1>3, <1>5, <1>6, <1>7
  DEF IInv, TypeOK, FirstBufferReturns, FindsFirst, InBuffer

(* A client's frame moves a tail and nothing else.                         *)
LEMMA QueueCANMessageKeeps ==
  ASSUME IInv, NEW c \in Channel, QueueCANMessage(c)
  PROVE  IInv'
<1>1. PICK f \in Frame[c] : QueueBytes(c, Bytes(f, FrameBytes))
  BY DEF QueueCANMessage
<1>2. Bytes(f, FrameBytes) \in Seq(Byte(f, FrameBytes))
  <2>1. FrameBytes \in 1..FrameBytes
    BY SizeAssumption
  <2> QED
    BY <2>1, BytesType
<1>3. head' \in [Channel -> Index] /\ tail' \in [Channel -> Index]
  BY <1>1, <1>2, QueueBytesType DEF IInv
<1>4. \A d \in Channel : Vacant(d)' \in Index /\ Queued(d)' \in Index
  BY <1>3, NextIndicesSuffice
<1>5. UNCHANGED <<client, pc, channel, buffer, bytes>>
  BY DEF QueueCANMessage, run
<1> QED
  BY <1>3, <1>4, <1>5 DEF IInv, TypeOK, FirstBufferReturns, FindsFirst, InBuffer

(* What every step of DLL_vRun but one leaves of the rings.                *)
LEMMA QueuesUnchanged ==
  ASSUME IInv, UNCHANGED <<head, tail>>
  PROVE  /\ head' \in [Channel -> Index] /\ tail' \in [Channel -> Index]
         /\ \A c \in Channel : Vacant(c)' \in Index /\ Queued(c)' \in Index
  BY DEF IInv, TypeOK, Vacant, Queued

LEMMA NextChannelType ==
  ASSUME IInv, NextChannel
  PROVE  channel' \in Channel /\ pc' \in {"channel", "idle"}
  BY SizeAssumption DEF IInv, TypeOK, NextChannel, Channel

(* DLL_vRun finds the first buffer free whenever it looks for one, marks   *)
(* it, and releases it in its last step for the channel.                   *)
LEMMA RunKeeps == ASSUME IInv, Run PROVE IInv'
<1> USE DEF IInv
<1>1. 1 \in Channel /\ 1 \in Buffer /\ FrameBytes \in Nat
  BY SizeAssumption DEF Channel, Buffer
<1>2. CASE Start
  <2>1. head' \in [Channel -> Index] /\ tail' \in [Channel -> Index]
          /\ \A c \in Channel : Vacant(c)' \in Index /\ Queued(c)' \in Index
    BY <1>2, QueuesUnchanged DEF Start, queue
  <2> QED
    BY <1>1, <1>2, <2>1
    DEF Start, TypeOK, FirstBufferReturns, FindsFirst, InBuffer
<1>3. CASE LookAtChannel
  <2>1. head' \in [Channel -> Index] /\ tail' \in [Channel -> Index]
          /\ \A c \in Channel : Vacant(c)' \in Index /\ Queued(c)' \in Index
    BY <1>3, QueuesUnchanged DEF LookAtChannel, queue
  <2>2. channel' \in Channel /\ buffer' \in Buffer /\ pc' \in {"find", "channel", "idle"}
    BY <1>1, <1>3, NextChannelType DEF LookAtChannel, TypeOK
  <2>3. pc' = "find" => buffer' = 1
    BY <1>3 DEF LookAtChannel, NextChannel
  <2>4. UNCHANGED <<client, bytes>> /\ client[1] = Invalid
    BY <1>3 DEF LookAtChannel, FirstBufferReturns, InBuffer
  <2> QED
    BY <2>1, <2>2, <2>3, <2>4 DEF TypeOK, FirstBufferReturns, FindsFirst, InBuffer
<1>4. CASE FindBuffer
  <2>1. head' \in [Channel -> Index] /\ tail' \in [Channel -> Index]
          /\ \A c \in Channel : Vacant(c)' \in Index /\ Queued(c)' \in Index
    BY <1>4, QueuesUnchanged DEF FindBuffer, queue
  <2>2. buffer = 1 /\ client[1] = Invalid
    BY <1>4 DEF FindBuffer, FindsFirst, FirstBufferReturns, InBuffer
  <2>3. pc' = "mark" /\ UNCHANGED <<client, channel, buffer, bytes>>
    BY <1>4, <2>2 DEF FindBuffer
  <2> QED
    BY <2>1, <2>2, <2>3 DEF TypeOK, FirstBufferReturns, FindsFirst, InBuffer
<1>5. CASE MarkBuffer
  <2>1. head' \in [Channel -> Index] /\ tail' \in [Channel -> Index]
          /\ \A c \in Channel : Vacant(c)' \in Index /\ Queued(c)' \in Index
    BY <1>5, QueuesUnchanged DEF MarkBuffer, queue
  <2>2. buffer = 1 /\ client' = [client EXCEPT ![1] = channel]
    BY <1>5 DEF MarkBuffer, FindsFirst
  <2> QED
    BY <1>1, <1>5, <2>1, <2>2
    DEF MarkBuffer, TypeOK, FirstBufferReturns, FindsFirst, InBuffer
<1>6. CASE CountBytes
  <2>1. head' \in [Channel -> Index] /\ tail' \in [Channel -> Index]
          /\ \A c \in Channel : Vacant(c)' \in Index /\ Queued(c)' \in Index
    BY <1>6, QueuesUnchanged DEF CountBytes, queue
  <2>2. bytes' \in 0..FrameBytes
    BY <1>1, <1>6 DEF CountBytes, Smaller, TypeOK, Index
  <2> QED
    BY <1>6, <2>1, <2>2 DEF CountBytes, TypeOK, FirstBufferReturns, FindsFirst, InBuffer
<1>7. CASE CopyBytes
  <2>1. head' \in [Channel -> Index] /\ tail' \in [Channel -> Index]
          /\ \A c \in Channel : Vacant(c)' \in Index /\ Queued(c)' \in Index
    BY <1>7, QueuesUnchanged DEF CopyBytes, queue
  <2> QED
    BY <1>7, <2>1 DEF CopyBytes, TypeOK, FirstBufferReturns, FindsFirst, InBuffer
<1>8. CASE AdvanceHead
  <2>1. (head[channel] + bytes) % QueueSize \in Index
    <3>1. head[channel] + bytes \in Nat
      BY SizeAssumption DEF TypeOK, Index
    <3> QED
      BY <3>1, ModIndex
  <2>2. head' \in [Channel -> Index] /\ tail' \in [Channel -> Index]
    BY <1>8, <2>1 DEF AdvanceHead, TypeOK
  <2>3. \A c \in Channel : Vacant(c)' \in Index /\ Queued(c)' \in Index
    BY <2>2, NextIndicesSuffice
  <2> QED
    BY <1>8, <2>2, <2>3 DEF AdvanceHead, TypeOK, FirstBufferReturns, FindsFirst, InBuffer
<1>9. CASE SendFrame
  <2>1. head' \in [Channel -> Index] /\ tail' \in [Channel -> Index]
          /\ \A c \in Channel : Vacant(c)' \in Index /\ Queued(c)' \in Index
    BY <1>9, QueuesUnchanged DEF SendFrame, queue
  <2> QED
    BY <1>9, <2>1 DEF SendFrame, TypeOK, FirstBufferReturns, FindsFirst, InBuffer
<1>10. CASE ReleaseBuffer
  <2>1. head' \in [Channel -> Index] /\ tail' \in [Channel -> Index]
          /\ \A c \in Channel : Vacant(c)' \in Index /\ Queued(c)' \in Index
    BY <1>10, QueuesUnchanged DEF ReleaseBuffer, queue
  <2>2. channel' \in Channel /\ pc' \in {"channel", "idle"}
    BY <1>10, NextChannelType DEF ReleaseBuffer
  <2>3. buffer = 1 /\ client' = Without(client, 1)
    BY <1>10 DEF ReleaseBuffer, FindsFirst, InBuffer
  <2>4. client' \in [Buffer -> Channel \cup {Invalid}] /\ client'[1] = Invalid
    BY <1>1, <2>3, WithoutType, FirstReleased DEF Without, TypeOK
  <2> QED
    BY <1>10, <2>1, <2>2, <2>4
    DEF ReleaseBuffer, TypeOK, FirstBufferReturns, FindsFirst, InBuffer
<1> QED
  BY <1>2, <1>3, <1>4, <1>5, <1>6, <1>7, <1>8, <1>9, <1>10 DEF Run

LEMMA StutterKeeps == ASSUME IInv, UNCHANGED vars PROVE IInv'
<1>1. UNCHANGED <<head, tail, client, pc, channel, buffer, bytes>>
  BY DEF vars, queue, run
<1>2. head' \in [Channel -> Index] /\ tail' \in [Channel -> Index]
        /\ \A c \in Channel : Vacant(c)' \in Index /\ Queued(c)' \in Index
  BY <1>1, QueuesUnchanged
<1> QED
  BY <1>1, <1>2 DEF IInv, TypeOK, FirstBufferReturns, FindsFirst, InBuffer

(* The types hold, and DLL_vRun finds the first buffer, whenever the       *)
(* interrupts come.                                                        *)
THEOREM Invariance == Spec => []IInv
<1>1. IInv /\ [Next]_vars => IInv'
  BY ReceiveFrameKeeps, QueueCANMessageKeeps, RunKeeps, StutterKeeps DEF Next
<1> QED
  BY Initially, <1>1, PTL DEF Spec

(* The indices of the rings stay in range and the counts do not wrap.      *)
THEOREM TypeCorrect == Spec => []TypeOK
<1>1. IInv => TypeOK
  BY DEF IInv
<1> QED
  BY Invariance, <1>1, PTL

(* DLL_vRun owns the buffer it works in, and the first buffer comes back   *)
(* although others are lost.                                               *)
THEOREM RunNeverWithoutBuffer == Spec => []FirstBufferReturns
<1>1. IInv => FirstBufferReturns
  BY DEF IInv
<1> QED
  BY Invariance, <1>1, PTL

-----------------------------------------------------------------------------
(* The queues of frames.  Places on the ring, counted from its head.       *)
LEMMA Place ==
  ASSUME NEW h \in Index, NEW j \in Index
  PROVE  (h + j) % QueueSize = IF h + j < QueueSize THEN h + j ELSE h + j - QueueSize
<1>1. QueueSize \in Nat \ {0} /\ h + j \in Nat /\ h + j < 2 * QueueSize
  BY SizeAssumption DEF Index
<1>2. CASE h + j < QueueSize
  BY <1>1, <1>2, SMT DEF Index
<1>3. CASE ~(h + j < QueueSize)
  BY <1>1, <1>3, SMT DEF Index
<1> QED BY <1>2, <1>3

LEMMA Apart ==
  ASSUME NEW i \in Index, NEW t \in Index
  PROVE  (i - t) % QueueSize = IF t <= i THEN i - t ELSE i - t + QueueSize
<1>1. QueueSize \in Nat \ {0} /\ i - t \in Int
  BY SizeAssumption DEF Index
<1>2. CASE t <= i
  BY <1>1, <1>2, SMT DEF Index
<1>3. CASE ~(t <= i)
  BY <1>1, <1>3, SMT DEF Index
<1> QED BY <1>2, <1>3

LEMMA Between ==
  ASSUME NEW h \in Index, NEW m \in Index, NEW j \in Index
  PROVE  (((h + j) % QueueSize) - ((h + m) % QueueSize)) % QueueSize
           = IF m <= j THEN j - m ELSE j - m + QueueSize
<1> DEFINE a == (h + j) % QueueSize
           b == (h + m) % QueueSize
<1>1. /\ a = IF h + j < QueueSize THEN h + j ELSE h + j - QueueSize
      /\ b = IF h + m < QueueSize THEN h + m ELSE h + m - QueueSize
  BY Place
<1> HIDE DEF a, b
<1>2. QueueSize \in Nat /\ a \in Index /\ b \in Index
  BY <1>1, SizeAssumption DEF Index
<1>3. (a - b) % QueueSize = IF b <= a THEN a - b ELSE a - b + QueueSize
  BY <1>2, Apart
<1>4. (a - b) % QueueSize = IF m <= j THEN j - m ELSE j - m + QueueSize
  <2>1. /\ h \in 0..QueueSize - 1 /\ m \in 0..QueueSize - 1 /\ j \in 0..QueueSize - 1
        /\ a \in Int /\ b \in Int /\ QueueSize \in Nat
    BY <1>2 DEF Index
  <2>2. (IF b <= a THEN a - b ELSE a - b + QueueSize)
          = IF m <= j THEN j - m ELSE j - m + QueueSize
    BY <1>1, <2>1
  <2> QED BY <1>3, <2>2
<1> QED BY <1>4 DEF a, b

LEMMA Further ==
  ASSUME NEW h \in Index, NEW m \in Index, NEW j \in Nat, m + j \in Index
  PROVE  (((h + m) % QueueSize) + j) % QueueSize = (h + (m + j)) % QueueSize
<1> DEFINE a == (h + m) % QueueSize
           b == (h + (m + j)) % QueueSize
<1>1. /\ a = IF h + m < QueueSize THEN h + m ELSE h + m - QueueSize
      /\ b = IF h + (m + j) < QueueSize THEN h + (m + j) ELSE h + (m + j) - QueueSize
  BY Place
<1> HIDE DEF a, b
<1>2. QueueSize \in Nat /\ a \in Index /\ j \in Index
  BY <1>1, SizeAssumption DEF Index
<1>3. (a + j) % QueueSize = IF a + j < QueueSize THEN a + j ELSE a + j - QueueSize
  BY <1>2, Place
<1>4. (a + j) % QueueSize = b
  BY <1>1, <1>2, <1>3, SizeAssumption DEF Index
<1> QED BY <1>4 DEF a, b

(* How many bytes there are between a head and a tail.                     *)
Count(h, t) == IF h <= t THEN t - h ELSE t - h + QueueSize

LEMMA CountIs ==
  ASSUME NEW h \in Index, NEW t \in Index
  PROVE  Count(h, t) \in Index /\ t = (h + Count(h, t)) % QueueSize
<1>1. Count(h, t) \in Index
  BY SizeAssumption DEF Index, Count
<1>2. (h + Count(h, t)) % QueueSize = IF h + Count(h, t) < QueueSize THEN h + Count(h, t)
                                      ELSE h + Count(h, t) - QueueSize
  BY <1>1, Place
<1>3. t = IF h + Count(h, t) < QueueSize THEN h + Count(h, t) ELSE h + Count(h, t) - QueueSize
  BY SizeAssumption DEF Count, Index
<1> QED BY <1>1, <1>2, <1>3

LEMMA CountGrows ==
  ASSUME NEW h \in Index, NEW t \in Index, NEW n \in Nat, n <= QueueSize - 1 - Count(h, t)
  PROVE  Count(h, (t + n) % QueueSize) = Count(h, t) + n
<1>1. n \in Index /\ QueueSize \in Nat
  BY SizeAssumption DEF Index, Count
<1>2. (t + n) % QueueSize = IF t + n < QueueSize THEN t + n ELSE t + n - QueueSize
  BY <1>1, Place
<1> QED BY <1>1, <1>2 DEF Count, Index

LEMMA CountShrinks ==
  ASSUME NEW h \in Index, NEW t \in Index, NEW n \in Nat, n <= Count(h, t)
  PROVE  Count((h + n) % QueueSize, t) = Count(h, t) - n
<1>1. n \in Index /\ QueueSize \in Nat
  BY SizeAssumption DEF Index, Count
<1>2. (h + n) % QueueSize = IF h + n < QueueSize THEN h + n ELSE h + n - QueueSize
  BY <1>1, Place
<1> QED BY <1>1, <1>2 DEF Count, Index

LEMMA QueuedIs ==
  ASSUME NEW c \in Channel, head[c] \in Index, tail[c] \in Index
  PROVE  Queued(c) = Count(head[c], tail[c]) /\ Vacant(c) = QueueSize - 1 - Count(head[c], tail[c])
<1> DEFINE h == head[c]
           t == tail[c]
<1>1. /\ Queued(c) = QueueSize - Vacant(c) - 1
      /\ Vacant(c) = IF h <= t THEN QueueSize - (t - h) - 1 ELSE h - t - 1
  BY DEF Queued, Vacant
<1>2. h \in Index /\ t \in Index
  OBVIOUS
<1> HIDE DEF h, t
<1>3. Queued(c) = Count(h, t) /\ Vacant(c) = QueueSize - 1 - Count(h, t)
  BY <1>1, <1>2, SizeAssumption DEF Count, Index
<1> QED BY <1>3 DEF h, t
LEMMA NextQueuedIs ==
  ASSUME NEW c \in Channel, head'[c] \in Index, tail'[c] \in Index
  PROVE  Queued(c)' = Count(head'[c], tail'[c])
<1> DEFINE h == head'[c]
           t == tail'[c]
<1>1. Queued(c)' = QueueSize - (IF h <= t THEN QueueSize - (t - h) - 1 ELSE h - t - 1) - 1
  BY DEF Queued, Vacant
<1>2. h \in Index /\ t \in Index
  OBVIOUS
<1> HIDE DEF h, t
<1>3. Queued(c)' = Count(h, t)
  BY <1>1, <1>2, SizeAssumption DEF Count, Index
<1> QED BY <1>3 DEF h, t


-----------------------------------------------------------------------------
(* The bytes of a ring, or of an answer, are those of the frames w, of     *)
(* full length and one behind the other.                                   *)
Offset(k, i) == (k - 1) * FrameBytes + i - 1
Unit(f, i) == [frame |-> f, length |-> FrameBytes, place |-> i]
Holds(r, h, count, w) ==
  /\ count = Len(w) * FrameBytes
  /\ \A k \in 1..Len(w), i \in 1..FrameBytes :
       r[(h + Offset(k, i)) % QueueSize] = Unit(w[k], i)
MadeOf(data, fs) ==
  /\ Len(data) = Len(fs) * FrameBytes
  /\ \A k \in 1..Len(fs), i \in 1..FrameBytes : data[Offset(k, i) + 1] = Unit(fs[k], i)

LEMMA OffsetIn ==
  ASSUME NEW n \in Nat, NEW k \in 1..n, NEW i \in 1..FrameBytes
  PROVE  Offset(k, i) \in 0..n * FrameBytes - 1
<1>1. FrameBytes \in Nat \ {0}
  BY SizeAssumption
<1>2. (k - 1) * FrameBytes \in Nat /\ n * FrameBytes \in Nat
  BY <1>1
<1>3. (k - 1) * FrameBytes <= n * FrameBytes - FrameBytes
  BY <1>1
<1> QED BY <1>1, <1>2, <1>3 DEF Offset

LEMMA OffsetAfter ==
  ASSUME NEW n \in Nat, NEW k \in Nat, NEW i \in 1..FrameBytes
  PROVE  Offset(n + k, i) = n * FrameBytes + Offset(k, i)
BY SizeAssumption DEF Offset

LEMMA Quotient ==
  ASSUME NEW n \in Nat, NEW b \in Nat \ {0}
  PROVE  (n * b + b - 1) \div b = n
OBVIOUS

LEMMA AtMost ==
  ASSUME NEW n \in Nat, NEW b \in Nat \ {0}, NEW m \in Nat, n * b <= m
  PROVE  n <= m \div b
OBVIOUS

LEMMA FrameOfBytes ==
  ASSUME NEW f
  PROVE  FrameOf(Bytes(f, FrameBytes)) = f
<1> DEFINE data == Bytes(f, FrameBytes)
<1>1. 1 \in 1..FrameBytes
  BY SizeAssumption
<1>2. data[1].frame = f /\ data[1].length = FrameBytes
  BY <1>1 DEF Bytes
<1>3. data # <<>>
  <2>1. data \in Seq(Byte(f, FrameBytes)) /\ DOMAIN data = 1..FrameBytes
    BY <1>1, BytesType, SizeAssumption DEF Bytes
  <2>2. \A s \in Seq(Byte(f, FrameBytes)) : 1 \in DOMAIN s => s # <<>>
    OBVIOUS
  <2> HIDE DEF data
  <2> QED BY <1>1, <2>1, <2>2
<1> HIDE DEF data
<1>4. Whole(data)
  BY <1>2, <1>3 DEF Whole, data
<1>5. FrameOf(data) = f
  BY <1>2, <1>4 DEF FrameOf
<1> QED BY <1>5 DEF data

(* Cutting the bytes into frames finds those they are.                     *)
Cut(r, h, count) ==
  [k \in 1..(count + FrameBytes - 1) \div FrameBytes |->
     FrameOf([i \in 1..Smaller(FrameBytes, count - (k - 1) * FrameBytes) |->
                r[(h + (k - 1) * FrameBytes + i - 1) % QueueSize]])]

LEMMA CutIs ==
  ASSUME NEW r, NEW h \in Index, NEW count, NEW S, NEW w \in Seq(S), Holds(r, h, count, w)
  PROVE  Cut(r, h, count) = w
<1>1. FrameBytes \in Nat \ {0} /\ Len(w) \in Nat /\ count = Len(w) * FrameBytes /\ h \in Nat
  BY SizeAssumption DEF Holds, Index
<1>2. (count + FrameBytes - 1) \div FrameBytes = Len(w)
  BY <1>1, Quotient
<1>3. ASSUME NEW k \in 1..Len(w)
      PROVE  [i \in 1..Smaller(FrameBytes, count - (k - 1) * FrameBytes) |->
                r[(h + (k - 1) * FrameBytes + i - 1) % QueueSize]] = Bytes(w[k], FrameBytes)
  <2>1. Smaller(FrameBytes, count - (k - 1) * FrameBytes) = FrameBytes
    <3>1. (k - 1) * FrameBytes <= count - FrameBytes
      BY <1>1
    <3>2. (k - 1) * FrameBytes \in Nat /\ count \in Nat
      BY <1>1
    <3> DEFINE a == (k - 1) * FrameBytes
    <3> HIDE DEF a
    <3>3. a \in Nat /\ a <= count - FrameBytes => Smaller(FrameBytes, count - a) = FrameBytes
      BY <1>1, <3>2 DEF Smaller
    <3> QED BY <3>1, <3>2, <3>3 DEF a
  <2>2. ASSUME NEW i \in 1..FrameBytes
        PROVE  r[(h + (k - 1) * FrameBytes + i - 1) % QueueSize] = Unit(w[k], i)
    <3>1. (k - 1) * FrameBytes \in Nat
      BY <1>1
    <3>2. h + (k - 1) * FrameBytes + i - 1 = h + Offset(k, i)
      BY <1>1, <3>1 DEF Offset
    <3> QED BY <3>2 DEF Holds
  <2> QED BY <2>1, <2>2 DEF Bytes, Unit
<1>4. Cut(r, h, count) = [k \in 1..Len(w) |-> w[k]]
  <2>1. Cut(r, h, count) = [k \in 1..Len(w) |-> FrameOf(Bytes(w[k], FrameBytes))]
    BY <1>2, <1>3 DEF Cut
  <2> QED BY <2>1, FrameOfBytes
<1> QED BY <1>4

(* Frames queued are behind those there were.                              *)
Overlaid(r, t, data) ==
  [i \in Index |-> LET k == ((i - t) % QueueSize) + 1 IN IF k <= Len(data) THEN data[k] ELSE r[i]]

LEMMA Appended ==
  ASSUME NEW r, NEW h \in Index, NEW count \in Index, NEW S, NEW w \in Seq(S), NEW fs \in Seq(S),
         NEW data, Holds(r, h, count, w), MadeOf(data, fs), count + Len(data) \in Index
  PROVE  Holds(Overlaid(r, (h + count) % QueueSize, data), h, count + Len(data), w \o fs)
<1> DEFINE r2 == Overlaid(r, (h + count) % QueueSize, data)
           lw == Len(w)
           lf == Len(fs)
           n == Len(data)
<1>1. /\ lw \in Nat /\ lf \in Nat /\ FrameBytes \in Nat \ {0} /\ QueueSize \in Nat \ {0}
      /\ count = lw * FrameBytes /\ n = lf * FrameBytes /\ n \in Nat
      /\ Len(w \o fs) = lw + lf
  BY Sizes DEF Holds, MadeOf
<1>2. count + n = (lw + lf) * FrameBytes
  BY <1>1
<1>3. ASSUME NEW k \in 1..lw + lf, NEW i \in 1..FrameBytes
      PROVE  r2[(h + Offset(k, i)) % QueueSize] = Unit((w \o fs)[k], i)
  <2> DEFINE j == Offset(k, i)
             pos == (h + j) % QueueSize
             d == (pos - ((h + count) % QueueSize)) % QueueSize
  <2>1. j \in Index /\ j \in 0..count + n - 1
    <3>0. lw + lf \in Nat
      BY <1>1
    <3>1. j \in 0..(lw + lf) * FrameBytes - 1
      <4> HIDE DEF lw, lf
      <4> QED BY <3>0, OffsetIn
    <3> HIDE DEF j
    <3> QED BY <1>1, <1>2, <3>1 DEF Index
  <2>2. pos \in Index /\ d = IF count <= j THEN j - count ELSE j - count + QueueSize
    <3> HIDE DEF j
    <3>1. pos \in Index
      <4>1. h + j \in Nat
        BY <2>1, Sizes DEF Index
      <4> QED BY <4>1, ModIndex
    <3>2. d = IF count <= j THEN j - count ELSE j - count + QueueSize
      BY <2>1, Between
    <3> QED BY <3>1, <3>2
  <2>3. r2[pos] = IF d + 1 <= n THEN data[d + 1] ELSE r[pos]
    <3>1. r2[pos] = LET k2 == ((pos - ((h + count) % QueueSize)) % QueueSize) + 1
                    IN IF k2 <= Len(data) THEN data[k2] ELSE r[pos]
      <4> HIDE DEF pos
      <4> QED BY <2>2 DEF Overlaid
    <3> QED BY <3>1
  <2>4. CASE k <= lw
    <3>1. j \in 0..count - 1
      BY <1>1, <2>4, OffsetIn
    <3>2. ~(d + 1 <= n)
      <4>1. j \in Nat /\ count \in Nat /\ j < count /\ n \in Nat /\ QueueSize \in Nat
            /\ d = j - count + QueueSize /\ count + n <= QueueSize - 1
        <5>1. j \in Nat /\ j < count /\ count \in Nat /\ count + n <= QueueSize - 1
          <6>1. count + n \in Index /\ count \in Index
            OBVIOUS
          <6> HIDE DEF j, n
          <6>2. count \in Nat
            BY <6>1 DEF Index
          <6> QED BY <3>1, <6>1, <6>2 DEF Index
        <5>2. d = j - count + QueueSize
          BY <2>2, <5>1
        <5> QED BY <1>1, <5>1, <5>2
      <4> HIDE DEF j, d, n
      <4> QED BY <4>1
    <3>3. r[pos] = Unit(w[k], i) /\ (w \o fs)[k] = w[k]
      BY <2>4, <1>1 DEF Holds
    <3> QED BY <2>3, <3>2, <3>3
  <2>5. CASE ~(k <= lw)
    <3>1. k - lw \in 1..lf /\ k = lw + (k - lw)
      <4>1. lw \in Nat /\ lf \in Nat /\ k \in 1..lw + lf /\ k > lw
        BY <1>1, <2>5
      <4> HIDE DEF lw, lf
      <4> QED BY <4>1
    <3>2. j = count + Offset(k - lw, i)
      <4>1. Offset(lw + (k - lw), i) = lw * FrameBytes + Offset(k - lw, i)
        BY <1>1, <3>1, OffsetAfter
      <4> QED BY <1>1, <3>1, <4>1
    <3>3. Offset(k - lw, i) \in 0..n - 1
      BY <1>1, <3>1, OffsetIn
    <3>4. d = Offset(k - lw, i)
      <4> DEFINE o == Offset(k - lw, i)
      <4>1. j = count + o /\ o \in 0..n - 1
        BY <3>2, <3>3
      <4>2. d = IF count <= j THEN j - count ELSE j - count + QueueSize
        BY <2>2
      <4> HIDE DEF o, j, d, n
      <4>3. d = o
        BY <1>1, <4>1, <4>2 DEF Index
      <4> QED BY <4>3 DEF o
    <3>5. data[Offset(k - lw, i) + 1] = Unit(fs[k - lw], i)
      BY <3>1 DEF MadeOf
    <3>6. (w \o fs)[k] = fs[k - lw]
      <4>1. k > Len(w) /\ k <= Len(w) + Len(fs) /\ k \in Nat
        BY <1>1, <2>5, <3>1
      <4> QED BY <4>1
    <3>7. d + 1 <= n
      <4> HIDE DEF d
      <4> QED BY <1>1, <3>3, <3>4
    <3> QED BY <2>3, <3>4, <3>5, <3>6, <3>7
  <2> QED BY <2>4, <2>5
<1> HIDE DEF r2
<1> QED BY <1>1, <1>2, <1>3 DEF Holds, r2

(* What DLL_vRun takes is the first frame.                                 *)
First(r, h) == [i \in 1..FrameBytes |-> r[(h + i - 1) % QueueSize]]
Cleared(r, h) == [i \in Index |-> IF (i - h) % QueueSize < FrameBytes THEN Nothing ELSE r[i]]

LEMMA Taken ==
  ASSUME NEW r, NEW h \in Index, NEW count \in Index, NEW S, NEW w \in Seq(S), w # <<>>,
         Holds(r, h, count, w)
  PROVE  /\ FrameBytes <= count
         /\ First(r, h) = Bytes(w[1], FrameBytes)
         /\ Holds(Cleared(r, h), (h + FrameBytes) % QueueSize, count - FrameBytes, Tail(w))
<1> DEFINE r2 == Cleared(r, h)
           h2 == (h + FrameBytes) % QueueSize
           lw == Len(w)
<1>1. /\ lw \in Nat \ {0} /\ FrameBytes \in Nat \ {0} /\ QueueSize \in Nat \ {0} /\ h \in Nat
      /\ count = lw * FrameBytes /\ Len(Tail(w)) = lw - 1 /\ Tail(w) \in Seq(S)
      /\ FrameBytes \in Index /\ 0 \in Index
  BY SizeAssumption DEF Holds, Index
<1>2. FrameBytes <= count /\ count - FrameBytes = (lw - 1) * FrameBytes
  BY <1>1
<1>3. First(r, h) = Bytes(w[1], FrameBytes)
  <2>1. ASSUME NEW i \in 1..FrameBytes
        PROVE  r[(h + i - 1) % QueueSize] = Unit(w[1], i)
    <3>1. h + i - 1 = h + Offset(1, i)
      BY <1>1 DEF Offset
    <3>2. 1 \in 1..lw
      BY <1>1
    <3> QED BY <3>1, <3>2 DEF Holds
  <2> QED BY <2>1 DEF Bytes, Unit, First
<1>4. ASSUME NEW k \in 1..lw - 1, NEW i \in 1..FrameBytes
      PROVE  r2[(h2 + Offset(k, i)) % QueueSize] = Unit(Tail(w)[k], i)
  <2> DEFINE o == Offset(k, i)
             j == Offset(k + 1, i)
             pos == (h + j) % QueueSize
  <2>1. j = FrameBytes + o /\ o \in Nat /\ j \in Index
    <3>0. lw - 1 \in Nat
      BY <1>1
    <3>1. o \in 0..(lw - 1) * FrameBytes - 1
      <4> HIDE DEF lw
      <4> QED BY <3>0, OffsetIn
    <3>2. j = FrameBytes + o
      <4>1. Offset(1 + k, i) = 1 * FrameBytes + Offset(k, i)
        BY OffsetAfter
      <4> QED BY <1>1, <4>1
    <3> HIDE DEF o, j
    <3>3. o \in 0..count - FrameBytes - 1
      BY <1>2, <3>1
    <3> QED BY <1>1, <3>2, <3>3 DEF Index
  <2>2. (h2 + o) % QueueSize = pos
    <3> HIDE DEF o, j
    <3>1. FrameBytes \in Index /\ o \in Nat /\ FrameBytes + o \in Index /\ j = FrameBytes + o
      BY <1>1, <2>1
    <3>2. (h2 + o) % QueueSize = (h + (FrameBytes + o)) % QueueSize
      BY <3>1, Further
    <3> QED BY <3>1, <3>2
  <2>3. pos \in Index /\ (pos - h) % QueueSize = j
    <3> HIDE DEF j
    <3>1. (h + 0) % QueueSize = h
      <4>1. (h + 0) % QueueSize = IF h + 0 < QueueSize THEN h + 0 ELSE h + 0 - QueueSize
        BY <1>1, Place
      <4> QED BY <1>1, <4>1 DEF Index
    <3>2. (pos - ((h + 0) % QueueSize)) % QueueSize = IF 0 <= j THEN j - 0 ELSE j - 0 + QueueSize
      BY <1>1, <2>1, Between
    <3>3. pos \in Index
      <4>1. h + j \in Nat
        BY <2>1, Sizes DEF Index
      <4> QED BY <4>1, ModIndex
    <3>4. j \in Nat
      BY <2>1 DEF Index
    <3> HIDE DEF pos
    <3> QED BY <3>1, <3>2, <3>3, <3>4
  <2>4. r2[pos] = r[pos]
    <3> HIDE DEF o, j, pos
    <3> QED BY <1>1, <2>1, <2>3 DEF Cleared
  <2>5. r[pos] = Unit(w[k + 1], i) /\ Tail(w)[k] = w[k + 1]
    <3>1. k + 1 \in 1..lw
      BY <1>1
    <3> QED BY <1>1, <3>1 DEF Holds
  <2> QED BY <2>2, <2>4, <2>5
<1> HIDE DEF r2, h2
<1>5. Holds(r2, h2, count - FrameBytes, Tail(w))
  BY <1>1, <1>2, <1>4 DEF Holds
<1> QED BY <1>2, <1>3, <1>5 DEF r2, h2


-----------------------------------------------------------------------------
(* The frames of the answers have the length DLL_vRun takes off the ring.  *)
FullAnswers == \A lengths \in AnswerLength : \A i \in DOMAIN lengths : lengths[i] = FrameBytes

(* The ring of a channel is full of whole frames of its own, and what      *)
(* DLL_vRun has in hand is the first of them or, once the head has moved   *)
(* on, was it.                                                             *)
RingHolds(c) ==
  FramesIn(c) \in Seq(Frame[c]) /\ Holds(ring[c], head[c], Queued(c), FramesIn(c))
RingsHold == DOMAIN ring = Channel /\ \A c \in Channel : RingHolds(c)
HandHolds ==
  /\ pc \in {"find", "mark", "count", "copy", "advance"} => FramesIn(channel) # <<>>
  /\ pc \in {"copy", "advance", "send"} => bytes = FrameBytes
  /\ pc = "advance" => content = Bytes(FramesIn(channel)[1], FrameBytes)
  /\ pc = "send" => \E f \in Frame[channel] : content = Bytes(f, FrameBytes)
LinkInv == IInv /\ RingsHold /\ HandHolds


LEMMA FramesCut ==
  ASSUME NEW c \in Channel
  PROVE  /\ FramesIn(c) = Cut(ring[c], head[c], Queued(c))
         /\ FramesIn(c)' = Cut(ring'[c], head'[c], Queued(c)')
BY DEF FramesIn, Cut

LEMMA NewFrames ==
  ASSUME NEW c \in Channel, NEW w \in Seq(Frame[c]), head'[c] \in Index,
         Holds(ring'[c], head'[c], Queued(c)', w)
  PROVE  FramesIn(c)' = w /\ RingHolds(c)'
<1>1. FramesIn(c)' = w
  BY FramesCut, CutIs
<1> QED BY <1>1 DEF RingHolds

LEMMA SameFrames ==
  ASSUME NEW c \in Channel, ring'[c] = ring[c], head'[c] = head[c], tail'[c] = tail[c]
  PROVE  /\ Queued(c)' = Queued(c) /\ FramesIn(c)' = FramesIn(c)
         /\ RingHolds(c) => RingHolds(c)'
<1>1. Queued(c)' = Queued(c)
  BY DEF Queued, Vacant
<1>2. FramesIn(c)' = FramesIn(c)
  BY <1>1, FramesCut
<1> QED BY <1>1, <1>2 DEF RingHolds

(* Frames are queued behind those there are, all or none of them, and no   *)
(* more than the ring takes.                                               *)
Grown(c) ==
  /\ RingsHold'
  /\ \A other \in Channel \ {c} : FramesIn(other)' = FramesIn(other)
  /\ \E more \in Seq(Frame[c]) :
       /\ FramesIn(c)' = FramesIn(c) \o more
       /\ more = <<>> \/ Len(FramesIn(c)') <= (QueueSize - 1) \div FrameBytes

LEMMA NoneGrown ==
  ASSUME RingsHold, NEW c \in Channel, UNCHANGED queue
  PROVE  Grown(c)
<1>1. UNCHANGED <<ring, head, tail>>
  BY DEF queue
<1>2. \A d \in Channel : FramesIn(d)' = FramesIn(d) /\ RingHolds(d)'
  BY <1>1, SameFrames DEF RingsHold
<1>3. <<>> \in Seq(Frame[c]) /\ FramesIn(c) \o <<>> = FramesIn(c)
  BY DEF RingsHold, RingHolds
<1> QED BY <1>1, <1>2, <1>3 DEF Grown, RingsHold

LEMMA QueueGrows ==
  ASSUME RingsHold, TypeOK, NEW c \in Channel, NEW S, NEW data \in Seq(S),
         NEW fs \in Seq(Frame[c]), MadeOf(data, fs), QueueBytes(c, data)
  PROVE  Grown(c)
<1>1. CASE ~(Len(data) <= Vacant(c))
  <2>1. UNCHANGED queue
    BY <1>1 DEF QueueBytes
  <2> QED BY <2>1, NoneGrown
<1>2. CASE Len(data) <= Vacant(c)
  <2> DEFINE h == head[c]
             t == tail[c]
             count == Queued(c)
             w == FramesIn(c)
             n == Len(data)
  <2>1. h \in Index /\ t \in Index /\ n \in Nat
    BY DEF TypeOK
  <2>2. count = Count(h, t) /\ Vacant(c) = QueueSize - 1 - Count(h, t)
    BY <2>1, QueuedIs
  <2>3. count \in Index /\ t = (h + count) % QueueSize /\ n <= QueueSize - 1 - count
    BY <1>2, <2>1, <2>2, CountIs
  <2>4. /\ ring' = [ring EXCEPT ![c] = [i \in Index |->
              LET k == ((i - t) % QueueSize) + 1 IN IF k <= n THEN data[k] ELSE @[i]]]
        /\ tail' = [tail EXCEPT ![c] = (t + n) % QueueSize]
        /\ head' = head
    BY <1>2 DEF QueueBytes
  <2>5. /\ ring'[c] = [i \in Index |-> LET k == ((i - t) % QueueSize) + 1
                                      IN IF k <= n THEN data[k] ELSE ring[c][i]]
        /\ DOMAIN ring' = Channel
        /\ tail'[c] = (t + n) % QueueSize /\ head'[c] = h
        /\ \A d \in Channel \ {c} :
             ring'[d] = ring[d] /\ head'[d] = head[d] /\ tail'[d] = tail[d]
    BY <2>4 DEF RingsHold, TypeOK
  <2>6. Queued(c)' = count + n
    <3>1. (t + n) % QueueSize \in Index
      <4>1. t + n \in Nat
        BY <2>1, SizeAssumption DEF Index
      <4> QED BY <4>1, ModIndex
    <3>2. Queued(c)' = Count(h, (t + n) % QueueSize)
      BY <2>1, <2>5, <3>1, NextQueuedIs
    <3> QED BY <2>1, <2>2, <2>3, <3>2, CountGrows
  <2>7. w \in Seq(Frame[c]) /\ Holds(ring[c], h, count, w)
    BY DEF RingsHold, RingHolds
  <2>8. count + n \in Index
    BY <2>1, <2>3, Sizes DEF Index
  <2>9. w \o fs \in Seq(Frame[c]) /\ Holds(ring'[c], h, count + n, w \o fs)
    <3> HIDE DEF h, t, count, w, n
    <3>1. Holds(Overlaid(ring[c], t, data), h, count + Len(data), w \o fs)
      BY <2>1, <2>3, <2>7, <2>8, Appended DEF n
    <3>2. ring'[c] = Overlaid(ring[c], t, data)
      BY <2>5 DEF n, Overlaid
    <3> QED BY <2>7, <3>1, <3>2 DEF n
  <2>10. FramesIn(c)' = w \o fs /\ RingHolds(c)'
    <3>1. head'[c] \in Index /\ Holds(ring'[c], head'[c], Queued(c)', w \o fs)
      BY <2>1, <2>5, <2>6, <2>9
    <3> QED BY <2>9, <3>1, NewFrames
  <2>11. \A d \in Channel \ {c} : FramesIn(d)' = FramesIn(d) /\ RingHolds(d)'
    BY <2>5, SameFrames DEF RingsHold
  <2>12. Len(w \o fs) <= (QueueSize - 1) \div FrameBytes
    <3>1. Len(w \o fs) * FrameBytes = count + n /\ Len(w \o fs) \in Nat
      BY <2>9 DEF Holds
    <3>2. count + n <= QueueSize - 1 /\ QueueSize - 1 \in Nat
      BY <2>1, <2>3, SizeAssumption DEF Index
    <3>3. FrameBytes \in Nat \ {0}
      BY SizeAssumption
    <3> HIDE DEF count, n, w
    <3> QED BY <3>1, <3>2, <3>3, AtMost
  <2> QED BY <2>5, <2>10, <2>11, <2>12 DEF Grown, RingsHold
<1> QED BY <1>1, <1>2


LEMMA ShortSeq ==
  ASSUME NEW S, NEW f \in S, NEW g \in S
  PROVE  <<f>> \in Seq(S) /\ <<f, g>> \in Seq(S)
OBVIOUS

LEMMA OneMade ==
  ASSUME NEW f
  PROVE  Bytes(f, FrameBytes) \in Seq(Byte(f, FrameBytes)) /\ MadeOf(Bytes(f, FrameBytes), <<f>>)
<1> DEFINE data == Bytes(f, FrameBytes)
<1>1. FrameBytes \in Nat \ {0}
  BY SizeAssumption
<1>2. /\ data \in Seq(Byte(f, FrameBytes)) /\ DOMAIN data = 1..FrameBytes
      /\ \A i \in 1..FrameBytes : data[i] = Unit(f, i)
  BY <1>1, BytesType DEF Bytes, Unit
<1> HIDE DEF data
<1>3. Len(data) = FrameBytes
  BY <1>1, <1>2
<1>4. \A i \in 1..FrameBytes : Offset(1, i) + 1 = i
  BY <1>1 DEF Offset
<1>5. Len(<<f>>) = 1 /\ <<f>>[1] = f
  OBVIOUS
<1>6. MadeOf(data, <<f>>)
  BY <1>1, <1>2, <1>3, <1>4, <1>5 DEF MadeOf
<1> QED BY <1>2, <1>6 DEF data

LEMMA TwoMade ==
  ASSUME NEW f, NEW g
  PROVE  LET data == Bytes(f, FrameBytes) \o Bytes(g, FrameBytes)
         IN  data \in Seq(Byte(f, FrameBytes) \cup Byte(g, FrameBytes)) /\ MadeOf(data, <<f, g>>)
<1> DEFINE one == Bytes(f, FrameBytes)
           two == Bytes(g, FrameBytes)
           S == Byte(f, FrameBytes) \cup Byte(g, FrameBytes)
<1>1. FrameBytes \in Nat \ {0}
  BY SizeAssumption
<1>2. /\ one \in Seq(Byte(f, FrameBytes)) /\ two \in Seq(Byte(g, FrameBytes))
      /\ Len(one) = FrameBytes /\ Len(two) = FrameBytes
  <2>1. /\ one \in Seq(Byte(f, FrameBytes)) /\ MadeOf(one, <<f>>)
        /\ two \in Seq(Byte(g, FrameBytes)) /\ MadeOf(two, <<g>>)
    BY OneMade
  <2>2. Len(<<f>>) = 1 /\ Len(<<g>>) = 1
    OBVIOUS
  <2> HIDE DEF one, two
  <2> QED BY <1>1, <2>1, <2>2 DEF MadeOf
<1>3. \A i \in 1..FrameBytes : one[i] = Unit(f, i) /\ two[i] = Unit(g, i)
  BY DEF Bytes, Unit
<1>4. one \in Seq(S) /\ two \in Seq(S)
  <2> HIDE DEF one, two
  <2>1. Byte(f, FrameBytes) \subseteq S /\ Byte(g, FrameBytes) \subseteq S
    OBVIOUS
  <2> HIDE DEF S
  <2> QED BY <1>2, <2>1
<1> HIDE DEF one, two, S
<1>5. one \o two \in Seq(S) /\ Len(one \o two) = 2 * FrameBytes
  BY <1>1, <1>2, <1>4
<1>6. ASSUME NEW i \in 1..FrameBytes
      PROVE  (one \o two)[i] = Unit(f, i) /\ (one \o two)[FrameBytes + i] = Unit(g, i)
  BY <1>1, <1>2, <1>3, <1>4
<1>7. \A i \in 1..FrameBytes : Offset(1, i) + 1 = i /\ Offset(2, i) + 1 = FrameBytes + i
  BY <1>1 DEF Offset
<1>8. Len(<<f, g>>) = 2 /\ <<f, g>>[1] = f /\ <<f, g>>[2] = g
  OBVIOUS
<1>9. MadeOf(one \o two, <<f, g>>)
  <2>1. \A k \in 1..2 : k = 1 \/ k = 2
    OBVIOUS
  <2> QED BY <1>1, <1>5, <1>6, <1>7, <1>8, <2>1 DEF MadeOf
<1> QED BY <1>5, <1>9 DEF one, two, S

(* What the two kinds of interrupts and clients put on a ring are frames.  *)
LEMMA AnswerGrows ==
  ASSUME FullAnswers, LinkInv, NEW c \in Channel, ReceiveFrame(c)
  PROVE  Grown(c)
<1>1. CASE UNCHANGED queue
  BY <1>1, NoneGrown DEF LinkInv
<1>2. ASSUME NEW lengths \in AnswerLength, NEW fs \in [DOMAIN lengths -> Frame[c]],
             QueueBytes(c, IF Len(lengths) = 1 THEN Bytes(fs[1], lengths[1])
                           ELSE Bytes(fs[1], lengths[1]) \o Bytes(fs[2], lengths[2]))
      PROVE  Grown(c)
  <2>1. lengths \in Seq(1..FrameBytes) /\ Len(lengths) \in {1, 2}
    BY SizeAssumption
  <2>2. 1 \in DOMAIN lengths /\ lengths[1] = FrameBytes /\ fs[1] \in Frame[c]
    BY <2>1 DEF FullAnswers
  <2>3. CASE Len(lengths) = 1
    <3>1. QueueBytes(c, Bytes(fs[1], FrameBytes))
      BY <1>2, <2>2, <2>3
    <3>2. <<fs[1]>> \in Seq(Frame[c])
      BY <2>2, ShortSeq
    <3> QED BY <3>1, <3>2, OneMade, QueueGrows DEF LinkInv, IInv
  <2>4. CASE Len(lengths) = 2
    <3>1. lengths[2] = FrameBytes /\ fs[2] \in Frame[c]
      BY <2>1, <2>4 DEF FullAnswers
    <3>2. QueueBytes(c, Bytes(fs[1], FrameBytes) \o Bytes(fs[2], FrameBytes))
      BY <1>2, <2>2, <2>4, <3>1
    <3>3. <<fs[1], fs[2]>> \in Seq(Frame[c])
      BY <2>2, <3>1, ShortSeq
    <3> QED BY <3>2, <3>3, TwoMade, QueueGrows DEF LinkInv, IInv
  <2> QED BY <2>1, <2>3, <2>4
<1> QED BY <1>1, <1>2 DEF ReceiveFrame

LEMMA MessageGrows ==
  ASSUME LinkInv, NEW c \in Channel, QueueCANMessage(c)
  PROVE  Grown(c)
<1>1. PICK f \in Frame[c] : QueueBytes(c, Bytes(f, FrameBytes))
  BY DEF QueueCANMessage
<1>2. <<f>> \in Seq(Frame[c])
  BY ShortSeq
<1> QED BY <1>1, <1>2, OneMade, QueueGrows DEF LinkInv, IInv

-----------------------------------------------------------------------------
(* The queues the rings make, and the steps of the abstract queues.        *)
Fifo(c) == InHand(c) \o FramesIn(c)
Seen == IF sent = Nothing THEN Nothing
        ELSE [channel |-> sent.channel, frame |-> FrameOf(sent.data)]
Capacity == (QueueSize - 1) \div FrameBytes + 1

LEMMA Stutters ==
  ASSUME \A c \in Channel : Fifo(c)' = Fifo(c), sent' = sent
  PROVE  UNCHANGED Queues!vars
BY DEF Queues!vars, Fifo

LEMMA Accepts ==
  ASSUME NEW c \in Channel, Fifo(c) \in Seq(Frame[c]), NEW more \in Seq(Frame[c]), more # <<>>,
         Fifo(c)' = Fifo(c) \o more, Len(Fifo(c)') <= Capacity,
         \A other \in Channel \ {c} : Fifo(other)' = Fifo(other), sent' = sent
  PROVE  Queues!Next
<1> DEFINE old == Fifo(c)
           new == Fifo(c)'
<1>1. old \in Seq(Frame[c]) /\ new = old \o more /\ more \in Seq(Frame[c]) /\ more # <<>>
  OBVIOUS
<1>2. /\ Len(old) < Len(new) /\ SubSeq(new, 1, Len(old)) = old
      /\ Queues!Range(new) \subseteq Frame[c]
  <2> HIDE DEF old, new
  <2>1. new \in Seq(Frame[c]) /\ Len(old) < Len(new)
    BY <1>1
  <2>2. SubSeq(new, 1, Len(old)) = old
    BY <1>1
  <2>3. Queues!Range(new) \subseteq Frame[c]
    BY <2>1 DEF Queues!Range
  <2> QED BY <2>1, <2>2, <2>3
<1>3. Queues!Accept(c)
  BY <1>2 DEF Queues!Accept, Fifo, Capacity
<1> QED BY <1>3 DEF Queues!Next

LEMMA Sends ==
  ASSUME NEW c \in Channel, Fifo(c) # <<>>, Fifo(c)' = Tail(Fifo(c)),
         Seen' = [channel |-> c, frame |-> Head(Fifo(c))],
         \A other \in Channel \ {c} : Fifo(other)' = Fifo(other)
  PROVE  Queues!Next
<1>1. Queues!Send(c)
  BY DEF Queues!Send, Fifo, Seen
<1> QED BY <1>1 DEF Queues!Next


LEMMA SubSeqAll == ASSUME NEW S, NEW s \in Seq(S) PROVE SubSeq(s, 1, Len(s)) = s
OBVIOUS

LEMMA BytesAll ==
  ASSUME NEW f
  PROVE  SubSeq(Bytes(f, FrameBytes), 1, FrameBytes) = Bytes(f, FrameBytes)
<1> DEFINE data == Bytes(f, FrameBytes)
<1>1. data \in Seq(Byte(f, FrameBytes)) /\ MadeOf(data, <<f>>)
  BY OneMade
<1>2. Len(<<f>>) = 1 /\ FrameBytes \in Nat
  BY SizeAssumption
<1> HIDE DEF data
<1>3. Len(data) = FrameBytes
  BY <1>1, <1>2 DEF MadeOf
<1>4. SubSeq(data, 1, FrameBytes) = data
  BY <1>1, <1>3, SubSeqAll
<1> QED BY <1>4 DEF data

\* The frame in hand, when the controller is about to be given it.
LEMMA HandIs ==
  ASSUME HandHolds, NEW c \in Channel
  PROVE  /\ InHand(c) \in Seq(Frame[c]) /\ Len(InHand(c)) <= 1
         /\ pc = "send" /\ channel = c =>
              \E f \in Frame[c] : /\ SubSeq(content, 1, bytes) = Bytes(f, FrameBytes)
                                  /\ InHand(c) = <<f>>
<1>1. CASE ~(pc = "send" /\ channel = c)
  <2>1. InHand(c) = <<>>
    BY <1>1 DEF InHand
  <2> QED BY <1>1, <2>1
<1>2. CASE pc = "send" /\ channel = c
  <2>1. PICK f \in Frame[c] : content = Bytes(f, FrameBytes)
    BY <1>2 DEF HandHolds
  <2>2. bytes = FrameBytes
    BY <1>2 DEF HandHolds
  <2>4. SubSeq(content, 1, bytes) = Bytes(f, FrameBytes)
    BY <2>1, <2>2, BytesAll
  <2>5. InHand(c) = <<f>>
    BY <1>2, <2>4, FrameOfBytes DEF InHand
  <2>6. <<f>> \in Seq(Frame[c]) /\ Len(<<f>>) <= 1
    <3>1. Len(<<f>>) <= 1
      OBVIOUS
    <3> QED BY <3>1, ShortSeq
  <2>7. InHand(c) \in Seq(Frame[c]) /\ Len(InHand(c)) <= 1
    BY <2>5, <2>6
  <2> QED BY <2>4, <2>5, <2>7
<1> QED BY <1>1, <1>2

\* Frames come while DLL_vRun stays where it is.
LEMMA GrowthRefines ==
  ASSUME LinkInv, IInv', NEW c \in Channel, Grown(c), UNCHANGED <<pc, channel, bytes, sent>>,
         pc \in {"advance", "send"} => content' = content
  PROVE  LinkInv' /\ [Queues!Next]_(Queues!vars)
<1>1. PICK more \in Seq(Frame[c]) :
        /\ FramesIn(c)' = FramesIn(c) \o more
        /\ more = <<>> \/ Len(FramesIn(c)') <= (QueueSize - 1) \div FrameBytes
  BY DEF Grown
<1>2. \A d \in Channel : FramesIn(d) \in Seq(Frame[d]) /\ InHand(d)' = InHand(d)
  <2>1. \A d \in Channel : FramesIn(d) \in Seq(Frame[d])
    BY DEF LinkInv, RingsHold, RingHolds
  <2>2. \A d \in Channel : InHand(d)' = InHand(d)
    BY DEF InHand
  <2> QED BY <2>1, <2>2
<1>3. \A d \in Channel : FramesIn(d) # <<>> =>
        FramesIn(d)' # <<>> /\ FramesIn(d)'[1] = FramesIn(d)[1]
  <2>1. FramesIn(c) # <<>> => FramesIn(c)' # <<>> /\ FramesIn(c)'[1] = FramesIn(c)[1]
    <3> DEFINE w == FramesIn(c)
    <3>1. w \in Seq(Frame[c])
      BY <1>2
    <3> HIDE DEF w
    <3>2. w # <<>> => w \o more # <<>> /\ (w \o more)[1] = w[1]
      BY <1>1, <3>1
    <3> QED BY <1>1, <3>2 DEF w
  <2> QED BY <2>1 DEF Grown
<1>4. HandHolds'
  <2>1. channel \in Channel
    BY DEF LinkInv, IInv, TypeOK
  <2>2. /\ pc \in {"find", "mark", "count", "copy", "advance"} =>
             FramesIn(channel) # <<>> /\ FramesIn(channel)' # <<>>
        /\ pc = "advance" => FramesIn(channel)'[1] = FramesIn(channel)[1]
    BY <1>3, <2>1 DEF LinkInv, HandHolds
  <2> QED BY <2>2 DEF LinkInv, HandHolds
<1>5. LinkInv'
  BY <1>4 DEF LinkInv, Grown
<1>6. \A other \in Channel \ {c} : Fifo(other)' = Fifo(other)
  BY <1>2 DEF Grown, Fifo
<1>7. Fifo(c) \in Seq(Frame[c]) /\ Fifo(c)' = Fifo(c) \o more
  <2> DEFINE w == FramesIn(c)
             hand == InHand(c)
  <2>1. w \in Seq(Frame[c]) /\ hand \in Seq(Frame[c]) /\ more \in Seq(Frame[c])
    BY <1>2, HandIs DEF LinkInv
  <2>2. hand \o w \in Seq(Frame[c]) /\ hand \o (w \o more) = (hand \o w) \o more
    <3> HIDE DEF w, hand
    <3> QED BY <2>1
  <2> QED BY <1>1, <1>2, <2>2 DEF Fifo
<1>8. CASE more = <<>>
  <2>1. Fifo(c)' = Fifo(c)
    <3>1. \A s \in Seq(Frame[c]) : s \o <<>> = s
      OBVIOUS
    <3> QED BY <1>7, <1>8, <3>1
  <2>2. UNCHANGED Queues!vars
    BY <1>6, <2>1, Stutters
  <2> QED BY <1>5, <2>2
<1>9. CASE more # <<>>
  <2>1. Len(Fifo(c)') <= Capacity
    <3> DEFINE w == FramesIn(c)'
               hand == InHand(c)
               room == (QueueSize - 1) \div FrameBytes
    <3>1. w \in Seq(Frame[c]) /\ hand \in Seq(Frame[c]) /\ Len(hand) <= 1 /\ Len(w) <= room
      BY <1>1, <1>9, HandIs DEF LinkInv, Grown, RingsHold, RingHolds
    <3>2. room \in Nat
      <4> DEFINE q == QueueSize - 1
             f == FrameBytes
      <4>1. q \in Nat /\ f \in Nat /\ f > 0
        BY Sizes
      <4> HIDE DEF q, f
      <4>2. q \div f \in Nat
        BY <4>1
      <4> QED BY <4>2 DEF q, f
    <3>3. Fifo(c)' = hand \o w
      BY <1>2 DEF Fifo
    <3>4. Len(hand \o w) <= room + 1
      <4> HIDE DEF w, hand, room
      <4> QED BY <3>1, <3>2
    <3> QED BY <3>3, <3>4 DEF Capacity
  <2>2. Queues!Next
    BY <1>6, <1>7, <1>9, <2>1, Accepts
  <2> QED BY <1>5, <2>2
<1> QED BY <1>8, <1>9

\* The interrupts build no answer in the buffer DLL_vRun works in.
LEMMA ReceiveRefines ==
  ASSUME FullAnswers, LinkInv, IInv', NEW c \in Channel, ReceiveFrame(c)
  PROVE  LinkInv' /\ [Queues!Next]_(Queues!vars)
<1>1. UNCHANGED <<pc, channel, bytes, sent>>
  BY DEF ReceiveFrame, run
<1>2. InBuffer => content' = content
  <2> SUFFICES ASSUME InBuffer PROVE content' = content
    OBVIOUS
  <2>1. client[buffer] = channel /\ channel # Invalid
    BY SizeAssumption DEF LinkInv, IInv, FirstBufferReturns, TypeOK, Channel, Invalid
  <2>2. \A b \in Buffer : FirstFree(b) => b # buffer
    BY <2>1 DEF FirstFree, Free
  <2> QED BY <2>2 DEF ReceiveFrame
<1> QED BY <1>1, <1>2, AnswerGrows, GrowthRefines DEF InBuffer

LEMMA MessageRefines ==
  ASSUME LinkInv, IInv', NEW c \in Channel, QueueCANMessage(c)
  PROVE  LinkInv' /\ [Queues!Next]_(Queues!vars)
<1>1. UNCHANGED <<pc, channel, bytes, sent, content>>
  BY DEF QueueCANMessage, run
<1> QED BY <1>1, MessageGrows, GrowthRefines

\* The steps of DLL_vRun but two leave the queues alone.
LEMMA QuietRefines ==
  ASSUME LinkInv, IInv', UNCHANGED <<queue, sent>>, pc # "send", pc' # "send", HandHolds'
  PROVE  LinkInv' /\ [Queues!Next]_(Queues!vars)
<1>1. UNCHANGED <<ring, head, tail>>
  BY DEF queue
<1>2. \A d \in Channel : FramesIn(d)' = FramesIn(d) /\ RingHolds(d)'
  BY <1>1, SameFrames DEF LinkInv, RingsHold
<1>3. LinkInv'
  BY <1>1, <1>2 DEF LinkInv, RingsHold
<1>4. \A d \in Channel : Fifo(d)' = Fifo(d)
  BY <1>2 DEF Fifo, InHand
<1>5. UNCHANGED Queues!vars
  BY <1>4, Stutters
<1> QED BY <1>3, <1>5


LEMMA QueuedFrames ==
  ASSUME LinkInv, NEW c \in Channel
  PROVE  /\ head[c] \in Index /\ tail[c] \in Index
         /\ Queued(c) \in Index /\ Queued(c) = Count(head[c], tail[c])
         /\ FramesIn(c) \in Seq(Frame[c])
         /\ Holds(ring[c], head[c], Queued(c), FramesIn(c))
         /\ FramesIn(c) # <<>> <=> Queued(c) > 0
         /\ FramesIn(c) # <<>> =>
              /\ FrameBytes <= Queued(c)
              /\ First(ring[c], head[c]) = Bytes(FramesIn(c)[1], FrameBytes)
              /\ Holds(Cleared(ring[c], head[c]),
                       (head[c] + FrameBytes) % QueueSize, Queued(c) - FrameBytes,
                       Tail(FramesIn(c)))
<1> DEFINE r == ring[c]
           h == head[c]
           t == tail[c]
           count == Queued(c)
           w == FramesIn(c)
<1>1. /\ h \in Index /\ t \in Index
      /\ w \in Seq(Frame[c]) /\ Holds(r, h, count, w)
  BY DEF LinkInv, IInv, TypeOK, RingsHold, RingHolds
<1>2. count \in Index /\ count = Count(h, t)
  BY <1>1, QueuedIs, CountIs
<1> HIDE DEF r, h, t, count, w
<1>3. w # <<>> <=> count > 0
  <2>1. count = Len(w) * FrameBytes /\ FrameBytes \in Nat \ {0}
    BY <1>1, SizeAssumption DEF Holds
  <2>2. Len(w) \in Nat /\ (w # <<>> <=> Len(w) > 0)
    BY <1>1
  <2> QED BY <2>1, <2>2
<1>4. w # <<>> => /\ FrameBytes <= count /\ First(r, h) = Bytes(w[1], FrameBytes)
                  /\ Holds(Cleared(r, h), (h + FrameBytes) % QueueSize, count - FrameBytes, Tail(w))
  BY <1>1, <1>2, Taken
<1> QED BY <1>1, <1>2, <1>3, <1>4 DEF r, h, t, count, w

\* DLL_vRun moves the head past the frame it has copied: the frame is now in
\* hand and no more on the ring.
LEMMA AdvanceRefines ==
  ASSUME LinkInv, IInv', AdvanceHead, NEW c \in Channel, c = channel
  PROVE  LinkInv' /\ [Queues!Next]_(Queues!vars)
<1> DEFINE r == ring[c]
           h == head[c]
           t == tail[c]
           count == Queued(c)
           w == FramesIn(c)
           f == w[1]
<1>1. /\ pc = "advance" /\ pc' = "send" /\ UNCHANGED <<tail, content, bytes, sent>> /\ channel' = c
      /\ w # <<>> /\ bytes = FrameBytes /\ content = Bytes(f, FrameBytes)
  BY DEF AdvanceHead, LinkInv, HandHolds
<1>2. /\ h \in Index /\ t \in Index /\ count = Count(h, t)
      /\ w \in Seq(Frame[c]) /\ FrameBytes <= count
      /\ Holds(Cleared(r, h), (h + FrameBytes) % QueueSize, count - FrameBytes, Tail(w))
  BY <1>1, QueuedFrames
<1>3. /\ ring'[c] = Cleared(r, h) /\ head'[c] = (h + FrameBytes) % QueueSize
      /\ tail'[c] = t /\ DOMAIN ring' = Channel
      /\ \A d \in Channel \ {c} :
           ring'[d] = ring[d] /\ head'[d] = head[d] /\ tail'[d] = tail[d]
  BY <1>1, <1>2 DEF AdvanceHead, LinkInv, IInv, TypeOK, RingsHold, Cleared
<1>4. head'[c] \in Index /\ tail'[c] \in Index
  BY <1>1, <1>2 DEF IInv, TypeOK
<1>5. Queued(c)' = count - FrameBytes
  <2>1. Queued(c)' = Count(head'[c], tail'[c])
    BY <1>4, NextQueuedIs
  <2>2. Count((h + FrameBytes) % QueueSize, t) = Count(h, t) - FrameBytes
    BY <1>2, CountShrinks, SizeAssumption
  <2> QED BY <1>2, <1>3, <2>1, <2>2
<1>6. Tail(w) \in Seq(Frame[c]) /\ w = <<f>> \o Tail(w) /\ f \in Frame[c]
  <2> HIDE DEF w
  <2> QED BY <1>1, <1>2
<1>7. FramesIn(c)' = Tail(w) /\ RingHolds(c)'
  <2>1. head'[c] \in Index /\ Holds(ring'[c], head'[c], Queued(c)', Tail(w))
    BY <1>1, <1>2, <1>3, <1>4, <1>5
  <2> QED BY <1>6, <2>1, NewFrames
<1>8. \A d \in Channel \ {c} : FramesIn(d)' = FramesIn(d) /\ RingHolds(d)'
  BY <1>3, SameFrames DEF LinkInv, RingsHold
<1>9. HandHolds'
  BY <1>1, <1>6 DEF HandHolds
<1>10. RingsHold'
  BY <1>1, <1>3, <1>7, <1>8 DEF RingsHold
<1>11. \A d \in Channel : Fifo(d)' = Fifo(d)
  <2>1. Fifo(c)' = Fifo(c)
    <3>1. Fifo(c) = <<>> \o w
      BY <1>1 DEF Fifo, InHand
    <3>2. InHand(c)' = <<f>>
      BY <1>1, BytesAll, FrameOfBytes DEF InHand
    <3> QED BY <1>6, <1>7, <3>1, <3>2 DEF Fifo
  <2>2. \A d \in Channel \ {c} : Fifo(d)' = Fifo(d)
    BY <1>1, <1>8 DEF Fifo, InHand
  <2> QED BY <2>1, <2>2
<1>12. UNCHANGED Queues!vars
  BY <1>1, <1>11, Stutters
<1> QED BY <1>9, <1>10, <1>12 DEF LinkInv


\* The frame in hand leaves.
LEMMA SendRefines ==
  ASSUME LinkInv, IInv', SendFrame, NEW c \in Channel, c = channel
  PROVE  LinkInv' /\ [Queues!Next]_(Queues!vars)
<1>1. /\ pc = "send" /\ pc' = "release" /\ UNCHANGED <<ring, head, tail>>
      /\ sent' = [channel |-> c, data |-> SubSeq(content, 1, bytes)]
  BY DEF SendFrame, queue
<1>2. PICK f \in Frame[c] : SubSeq(content, 1, bytes) = Bytes(f, FrameBytes) /\ InHand(c) = <<f>>
  BY <1>1, HandIs DEF LinkInv
<1>3. Seen' = [channel |-> c, frame |-> f]
  <2>1. sent' = [channel |-> c, data |-> Bytes(f, FrameBytes)]
    BY <1>1, <1>2
  <2>2. Bytes(f, FrameBytes) \in
          [1..FrameBytes -> [frame : UNION {Frame[d] : d \in Channel},
                             length : {FrameBytes}, place : 1..FrameBytes]]
    BY DEF Bytes
  <2>3. sent' # Nothing
    BY <2>1, <2>2, NothingAssumption
  <2> QED BY <2>1, <2>3, FrameOfBytes DEF Seen
<1>4. \A d \in Channel : FramesIn(d)' = FramesIn(d) /\ RingHolds(d)' /\ InHand(d)' = <<>>
  <2>1. \A d \in Channel : InHand(d)' = <<>>
    BY <1>1 DEF InHand
  <2> QED BY <1>1, <2>1, SameFrames DEF LinkInv, RingsHold
<1>5. LinkInv'
  BY <1>1, <1>4 DEF LinkInv, RingsHold, HandHolds
<1>6. \A d \in Channel : FramesIn(d) \in Seq(Frame[d]) /\ Fifo(d)' = FramesIn(d)
  <2>1. ASSUME NEW d \in Channel
        PROVE  FramesIn(d) \in Seq(Frame[d]) /\ Fifo(d)' = <<>> \o FramesIn(d)
    BY <1>4 DEF LinkInv, RingsHold, RingHolds, Fifo
  <2>2. \A S : \A s \in Seq(S) : <<>> \o s = s
    OBVIOUS
  <2> QED BY <2>1, <2>2
<1>7. Fifo(c) # <<>> /\ Head(Fifo(c)) = f /\ Tail(Fifo(c)) = FramesIn(c)
  <2> DEFINE w == FramesIn(c)
  <2>1. w \in Seq(Frame[c]) /\ Fifo(c) = <<f>> \o w
    BY <1>2, <1>6 DEF Fifo
  <2> HIDE DEF w
  <2>2. <<f>> \o w # <<>> /\ Head(<<f>> \o w) = f /\ Tail(<<f>> \o w) = w
    BY <2>1
  <2> QED BY <2>1, <2>2 DEF w
<1>8. \A d \in Channel \ {c} : Fifo(d)' = Fifo(d)
  <2>1. ASSUME NEW d \in Channel \ {c} PROVE Fifo(d) = <<>> \o FramesIn(d)
    BY DEF Fifo, InHand
  <2>2. \A S : \A s \in Seq(S) : <<>> \o s = s
    OBVIOUS
  <2> QED BY <1>6, <2>1, <2>2
<1>9. Queues!Next
  BY <1>3, <1>6, <1>7, <1>8, Sends
<1> QED BY <1>5, <1>9

\* DLL_vRun, step by step.
LEMMA RunRefines ==
  ASSUME LinkInv, IInv', Run
  PROVE  LinkInv' /\ [Queues!Next]_(Queues!vars)
<1>0. /\ channel \in Channel /\ HandHolds
      /\ UNCHANGED queue => \A d \in Channel : FramesIn(d)' = FramesIn(d)
  BY SameFrames DEF LinkInv, IInv, TypeOK, queue
<1>1. ASSUME UNCHANGED <<queue, sent>>, pc # "send", pc' \in {"idle", "channel", "release"}
      PROVE  LinkInv' /\ [Queues!Next]_(Queues!vars)
  <2>1. HandHolds'
    BY <1>1 DEF HandHolds
  <2> QED BY <1>1, <2>1, QuietRefines
<1>2. CASE Start
  BY <1>1, <1>2 DEF Start
<1>3. CASE LookAtChannel
  <2>1. CASE Queued(channel) > 0
    <3>1. FramesIn(channel) # <<>>
      BY <1>0, <2>1, QueuedFrames
    <3>2. UNCHANGED <<queue, channel, sent>> /\ pc = "channel" /\ pc' = "find"
      BY <1>3, <2>1 DEF LookAtChannel
    <3>3. HandHolds'
      BY <1>0, <3>1, <3>2 DEF HandHolds
    <3> QED BY <3>2, <3>3, QuietRefines
  <2>2. CASE ~(Queued(channel) > 0)
    BY <1>1, <1>3, <2>2 DEF LookAtChannel, NextChannel
  <2> QED BY <2>1, <2>2
<1>4. CASE FindBuffer
  <2>1. CASE pc' \in {"find", "mark"}
    <3>1. UNCHANGED <<queue, sent>> /\ pc = "find" /\ channel' = channel
      BY <1>4, <2>1 DEF FindBuffer, NextChannel
    <3>2. HandHolds'
      BY <1>0, <2>1, <3>1 DEF HandHolds
    <3> QED BY <2>1, <3>1, <3>2, QuietRefines
  <2>2. CASE pc' \notin {"find", "mark"}
    <3>1. UNCHANGED <<queue, sent>> /\ pc = "find" /\ pc' \in {"idle", "channel"}
      BY <1>4, <2>2 DEF FindBuffer, NextChannel
    <3> QED BY <1>1, <3>1
  <2> QED BY <2>1, <2>2
<1>5. CASE MarkBuffer
  <2>1. UNCHANGED <<queue, channel, sent>> /\ pc = "mark" /\ pc' = "count"
    BY <1>5 DEF MarkBuffer
  <2>2. HandHolds'
    BY <1>0, <2>1 DEF HandHolds
  <2> QED BY <2>1, <2>2, QuietRefines
<1>6. CASE CountBytes
  <2>1. /\ UNCHANGED <<queue, channel, sent>> /\ pc = "count" /\ pc' = "copy"
        /\ bytes' = Smaller(FrameBytes, Queued(channel))
    BY <1>6 DEF CountBytes
  <2>2. FramesIn(channel) # <<>> /\ FrameBytes <= Queued(channel) /\ Queued(channel) \in Index
    BY <1>0, <2>1, QueuedFrames DEF HandHolds
  <2>3. bytes' = FrameBytes
    BY <2>1, <2>2, SizeAssumption DEF Smaller, Index
  <2>4. HandHolds'
    BY <1>0, <2>1, <2>2, <2>3 DEF HandHolds
  <2> QED BY <2>1, <2>4, QuietRefines
<1>7. CASE CopyBytes
  <2>1. /\ UNCHANGED <<queue, channel, bytes, sent>> /\ pc = "copy" /\ pc' = "advance"
        /\ bytes = FrameBytes /\ FramesIn(channel) # <<>>
    BY <1>0, <1>7 DEF CopyBytes, HandHolds
  <2>2. content' = First(ring[channel], head[channel])
    BY <1>7, <2>1 DEF CopyBytes, First
  <2>3. content' = Bytes(FramesIn(channel)[1], FrameBytes)
    BY <1>0, <2>1, <2>2, QueuedFrames
  <2>4. HandHolds'
    BY <1>0, <2>1, <2>3 DEF HandHolds
  <2> QED BY <2>1, <2>4, QuietRefines
<1>8. CASE AdvanceHead
  BY <1>0, <1>8, AdvanceRefines
<1>9. CASE SendFrame
  BY <1>0, <1>9, SendRefines
<1>10. CASE ReleaseBuffer
  BY <1>1, <1>10 DEF ReleaseBuffer, NextChannel
<1> QED BY <1>2, <1>3, <1>4, <1>5, <1>6, <1>7, <1>8, <1>9, <1>10 DEF Run

LEMMA LinkStarts == Init => LinkInv /\ Queues!Init
<1> SUFFICES ASSUME Init PROVE LinkInv /\ Queues!Init
  OBVIOUS
<1>1. IInv
  BY Initially
<1>2. ASSUME NEW c \in Channel
      PROVE  FramesIn(c) = <<>> /\ Holds(ring[c], head[c], Queued(c), <<>>)
  <2>1. head[c] = 0 /\ tail[c] = 0 /\ 0 \in Index
    BY SizeAssumption DEF Init, Index
  <2>2. Queued(c) = 0
    BY <2>1, QueuedIs DEF Count
  <2>3. <<>> \in Seq({}) /\ Len(<<>>) = 0
    OBVIOUS
  <2>4. Holds(ring[c], head[c], Queued(c), <<>>)
    BY <2>2, <2>3, SizeAssumption DEF Holds
  <2>5. Cut(ring[c], head[c], Queued(c)) = <<>>
    <3> DEFINE w == <<>>
    <3>1. w \in Seq({}) /\ head[c] \in Index /\ Holds(ring[c], head[c], Queued(c), w)
      BY <2>1, <2>3, <2>4
    <3> HIDE DEF w
    <3>2. Cut(ring[c], head[c], Queued(c)) = w
      BY <3>1, CutIs
    <3> QED BY <3>2 DEF w
  <2> QED BY <2>4, <2>5, FramesCut
<1>3. RingsHold /\ HandHolds
  <2>1. \A c \in Channel : RingHolds(c)
    <3>1. \A S : <<>> \in Seq(S)
      OBVIOUS
    <3> QED BY <1>2, <3>1 DEF RingHolds
  <2> QED BY <2>1 DEF Init, RingsHold, HandHolds
<1>4. \A c \in Channel : InHand(c) \o FramesIn(c) = <<>>
  <2>1. \A c \in Channel : InHand(c) = <<>> /\ FramesIn(c) = <<>>
    BY <1>2 DEF Init, InHand
  <2> QED BY <2>1
<1>5. Queues!Init
  BY <1>4 DEF Queues!Init, Init
<1> QED BY <1>1, <1>3, <1>5 DEF LinkInv

(* With frames of full length, the rings, the buffers and DLL_vRun         *)
(* (DLL.c:94-243, 380-420, 774-848) make queues of whole frames: none is   *)
(* lost, repeated, torn, mixed with another or sent on another channel,    *)
(* wherever the interrupts come and the end of the ring cuts a frame.      *)
THEOREM FramesInOrder == FullAnswers => (Spec => ImplementsQueues)
<1> SUFFICES ASSUME FullAnswers PROVE Spec => ImplementsQueues
  OBVIOUS
<1>1. LinkInv /\ IInv' /\ [Next]_vars => LinkInv' /\ [Queues!Next]_(Queues!vars)
  <2> SUFFICES ASSUME LinkInv, IInv', [Next]_vars
               PROVE  LinkInv' /\ [Queues!Next]_(Queues!vars)
    OBVIOUS
  <2>1. ASSUME NEW c \in Channel, ReceiveFrame(c)
        PROVE  LinkInv' /\ [Queues!Next]_(Queues!vars)
    BY <2>1, ReceiveRefines
  <2>2. ASSUME NEW c \in Channel, QueueCANMessage(c)
        PROVE  LinkInv' /\ [Queues!Next]_(Queues!vars)
    BY <2>2, MessageRefines
  <2>3. CASE Run
    BY <2>3, RunRefines
  <2>4. CASE UNCHANGED vars
    <3>1. UNCHANGED <<ring, head, tail, pc, channel, bytes, content, sent>>
      BY <2>4 DEF vars, queue, run
    <3>2. \A d \in Channel : FramesIn(d)' = FramesIn(d) /\ RingHolds(d)'
      BY <3>1, SameFrames DEF LinkInv, RingsHold
    <3>3. channel \in Channel
      BY DEF LinkInv, IInv, TypeOK
    <3>4. LinkInv'
      BY <3>1, <3>2, <3>3 DEF LinkInv, RingsHold, HandHolds
    <3>5. \A d \in Channel : Fifo(d)' = Fifo(d)
      BY <3>1, <3>2 DEF Fifo, InHand
    <3> QED BY <3>1, <3>4, <3>5, Stutters
  <2> QED BY <2>1, <2>2, <2>3, <2>4 DEF Next
<1> QED BY <1>1, LinkStarts, Invariance, PTL DEF Spec, ImplementsQueues, Queues!Spec
=============================================================================
