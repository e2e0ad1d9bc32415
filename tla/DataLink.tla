------------------------------ MODULE DataLink ------------------------------
(***************************************************************************)
(* The way out of the data link layer (DLL.c) on the CAN channels: a ring  *)
(* of bytes for each, filled by the CAN interrupts with the answers to     *)
(* requests and by clients with single frames, and emptied by the cyclic   *)
(* task DLL_vRun, a frame for each channel at a time; and the few work     *)
(* buffers that the interrupts build answers in and DLL_vRun builds frames *)
(* in.                                                                     *)
(*                                                                         *)
(* The CAN interrupts have one level and so are atomic towards each other; *)
(* they may come between any two steps of DLL_vRun.  Client code runs only *)
(* between the cyclic tasks, and its system calls are not interrupted.     *)
(* A byte of a frame is known by the frame, its length and its place.      *)
(* Bytes that have left the ring or a buffer are forgotten, so that to     *)
(* read one again would yield Nothing; of the buffers' contents only that  *)
(* of the one DLL_vRun works in is kept track of.                          *)
(***************************************************************************)
EXTENDS Integers, Sequences

CONSTANTS
  NChannel,     \* DLL_nCANVirtualChannelCount
  NBuffer,      \* DLL_nCANTXWorkBuffCount
  BufferBytes,  \* DLL_nCANTXWorkBuffMaxBytes
  ScanBytes,    \* the size DLL_vReleaseTXClientBuffer takes, of the UART's
  FrameBytes,   \* the channels' entries in DLL_rau16TXFrameMaxBytes
  QueueSize,    \* DLL_nCANTXQueueByteCount
  Frame,        \* what tells the frames apart that each channel may carry
  Nothing,
  AnswerLength  \* the lengths of the frames of the answers there may be

ASSUME SizeAssumption ==
  /\ {NChannel, NBuffer, BufferBytes, ScanBytes, FrameBytes} \subseteq Nat \ {0}
  /\ \A c \in 1..NChannel : Nothing \notin Frame[c]
  /\ QueueSize \in Nat /\ QueueSize > FrameBytes
  /\ AnswerLength \subseteq Seq(1..FrameBytes)
  /\ \A lengths \in AnswerLength : Len(lengths) \in {1, 2}
ASSUME StrideAssumption == ScanBytes <= BufferBytes

Channel == 1..NChannel
Buffer == 1..NBuffer
Index == 0..QueueSize - 1
Invalid == 0

\* No frame that is sent is taken for none.
ASSUME NothingAssumption == Nothing \notin
  [channel : Channel,
   data : [1..FrameBytes -> [frame : UNION {Frame[c] : c \in Channel},
                             length : {FrameBytes}, place : 1..FrameBytes]]]

VARIABLES
  ring, head, tail, \* DLL_astTXDLLByteQueue
  client,           \* DLL_aenDLLTXBufferClient
  content,          \* what is in the buffer DLL_vRun works in
  pc, channel, buffer, bytes, \* DLL_vRun: its step and its locals
  sent              \* the bytes last handed to the controller

queue == <<ring, head, tail>>
run == <<pc, channel, buffer, bytes>>
vars == <<queue, client, content, run, sent>>

Init ==
  /\ ring = [c \in Channel |-> [i \in Index |-> Nothing]]
  /\ head = [c \in Channel |-> 0] /\ tail = [c \in Channel |-> 0]
  /\ client = [b \in Buffer |-> Invalid]
  /\ content = <<>>
  /\ pc = "idle" /\ channel = 1 /\ buffer = 1 /\ bytes = 0
  /\ sent = Nothing

-----------------------------------------------------------------------------
(* DLLBYTEQUEUE_u32GetVacantCount: one byte of the ring stays empty.       *)
Vacant(c) ==
  IF head[c] <= tail[c] THEN QueueSize - (tail[c] - head[c]) - 1 ELSE head[c] - tail[c] - 1
Queued(c) == QueueSize - Vacant(c) - 1

(* DLLBYTEQUEUE_vQueueBytes, all of the bytes or none.                     *)
QueueBytes(c, data) ==
  IF Len(data) <= Vacant(c)
  THEN /\ ring' = [ring EXCEPT ![c] = [i \in Index |->
             LET k == ((i - tail[c]) % QueueSize) + 1
             IN IF k <= Len(data) THEN data[k] ELSE @[i]]]
       /\ tail' = [tail EXCEPT ![c] = (@ + Len(data)) % QueueSize]
       /\ UNCHANGED head
  ELSE UNCHANGED queue

(* DLL_pu8GetTXClientBuffer takes the first free buffer.                   *)
Free == {b \in Buffer : client[b] = Invalid}
\* a mutant: the first is taken, free or not
FirstFreeOrNot(b) == b = 1
FirstFree(b) == b \in Free /\ \A other \in Free : b <= other

(* DLL_vReleaseTXClientBuffer looks for the buffer by its address, in      *)
(* strides of another buffer size.                                         *)
\* a mutant: the first of the strides is left out
ReleasedLater(b) ==
  {k \in Buffer \ {1} : LET at == (b - 1) * BufferBytes
                        IN (k - 1) * ScanBytes <= at /\ at < k * ScanBytes}
Released(b) ==
  {k \in Buffer : LET at == (b - 1) * BufferBytes
                  IN (k - 1) * ScanBytes <= at /\ at < k * ScanBytes}
Without(owners, b) == [k \in Buffer |-> IF k \in Released(b) THEN Invalid ELSE owners[k]]

InBuffer == pc \in {"count", "copy", "advance", "send", "release"}
Bytes(f, length) == [i \in 1..length |-> [frame |-> f, length |-> length, place |-> i]]

-----------------------------------------------------------------------------
(* DLL_vFrameRXCB: without a buffer the request is dropped, else the       *)
(* answer, if there is one, is built in it and queued if it fits.          *)
ReceiveFrame(c) == \E b \in Buffer :
  /\ FirstFree(b)
  /\ \/ UNCHANGED <<content, queue>>
     \/ \E lengths \in AnswerLength : \E fs \in [DOMAIN lengths -> Frame[c]] :
          LET part(i) == Bytes(fs[i], lengths[i])
              answer == IF Len(lengths) = 1 THEN part(1) ELSE part(1) \o part(2)
          IN /\ content' = IF InBuffer /\ buffer = b THEN answer ELSE content
             /\ QueueBytes(c, answer)
  /\ client' = Without([client EXCEPT ![b] = c], b)
  /\ UNCHANGED <<run, sent>>

(* DLL_vQueueCANMessage, by system call of a client.                       *)
QueueCANMessage(c) ==
  /\ pc = "idle"
  /\ \E f \in Frame[c] : QueueBytes(c, Bytes(f, FrameBytes))
  /\ UNCHANGED <<client, content, run, sent>>

-----------------------------------------------------------------------------
(* DLL_vRun.                                                               *)
Start ==
  /\ pc = "idle" /\ pc' = "channel" /\ channel' = 1
  /\ UNCHANGED <<queue, client, content, buffer, bytes, sent>>

NextChannel ==
  IF channel < NChannel THEN channel' = channel + 1 /\ pc' = "channel"
                        ELSE pc' = "idle" /\ UNCHANGED channel

LookAtChannel ==
  /\ pc = "channel"
  /\ IF Queued(channel) > 0 THEN pc' = "find" /\ buffer' = 1 /\ UNCHANGED channel
                            ELSE NextChannel /\ UNCHANGED buffer
  /\ UNCHANGED <<queue, client, content, bytes, sent>>

(* A buffer found free is marked in a step of its own.                     *)
FindBuffer ==
  /\ pc = "find"
  /\ IF client[buffer] = Invalid THEN pc' = "mark" /\ UNCHANGED <<channel, buffer>>
     ELSE IF buffer < NBuffer THEN buffer' = buffer + 1 /\ UNCHANGED <<pc, channel>>
     ELSE NextChannel /\ UNCHANGED buffer
  /\ UNCHANGED <<queue, client, content, bytes, sent>>

MarkBuffer ==
  /\ pc = "mark" /\ pc' = "count"
  /\ client' = [client EXCEPT ![buffer] = channel]
  /\ UNCHANGED <<queue, content, channel, buffer, bytes, sent>>

Smaller(m, n) == IF m < n THEN m ELSE n
CountBytes ==
  /\ pc = "count" /\ pc' = "copy"
  /\ bytes' = Smaller(FrameBytes, Queued(channel))
  /\ UNCHANGED <<queue, client, content, channel, buffer, sent>>

\* a mutant: the bytes behind the end of the ring are not fetched
CopyBytesStraight ==
  /\ pc = "copy" /\ pc' = "advance"
  /\ content' = [i \in 1..bytes |->
       ring[channel][Smaller(head[channel] + i - 1, QueueSize - 1)]]
  /\ UNCHANGED <<queue, client, channel, buffer, bytes, sent>>
CopyBytes ==
  /\ pc = "copy" /\ pc' = "advance"
  /\ content' = [i \in 1..bytes |->
       ring[channel][(head[channel] + i - 1) % QueueSize]]
  /\ UNCHANGED <<queue, client, channel, buffer, bytes, sent>>

AdvanceHead ==
  /\ pc = "advance" /\ pc' = "send"
  /\ head' = [head EXCEPT ![channel] = (@ + bytes) % QueueSize]
  /\ ring' = [ring EXCEPT ![channel] = [i \in Index |->
       IF (i - head[channel]) % QueueSize < bytes THEN Nothing ELSE @[i]]]
  /\ UNCHANGED <<tail, client, content, channel, buffer, bytes, sent>>

(* DLL_boSendFrame; whether the controller has a mailbox free is its       *)
(* affair.                                                                 *)
SendFrame ==
  /\ pc = "send" /\ pc' = "release"
  /\ sent' = [channel |-> channel, data |-> SubSeq(content, 1, bytes)]
  /\ UNCHANGED <<queue, client, content, channel, buffer, bytes>>

ReleaseBuffer ==
  /\ pc = "release"
  /\ client' = Without(client, buffer)
  /\ NextChannel /\ content' = <<>>
  /\ UNCHANGED <<queue, buffer, bytes, sent>>

Run == \/ Start \/ LookAtChannel \/ FindBuffer \/ MarkBuffer \/ CountBytes
       \/ CopyBytes \/ AdvanceHead \/ SendFrame \/ ReleaseBuffer
Next == Run \/ \E c \in Channel : ReceiveFrame(c) \/ QueueCANMessage(c)

(* DLL_vRun is a cyclic task, and interrupts leave it time.                *)
Spec == Init /\ [][Next]_vars /\ WF_vars(Run)

-----------------------------------------------------------------------------
TypeOK ==
  /\ head \in [Channel -> Index] /\ tail \in [Channel -> Index]
  /\ \A c \in Channel : Vacant(c) \in Index /\ Queued(c) \in Index
  /\ client \in [Buffer -> Channel \cup {Invalid}]
  /\ pc \in {"idle", "channel", "find", "mark", "count", "copy", "advance", "send", "release"}
  /\ channel \in Channel /\ buffer \in Buffer /\ bytes \in 0..FrameBytes

(* The buffer that DLL_vRun works in is marked as its own all the while,   *)
(* and outside that time the first buffer is free: although the second is  *)
(* never released, DLL_vRun cannot find itself without one.                *)
FirstBufferReturns ==
  /\ InBuffer => client[buffer] = channel
  /\ client[1] # Invalid => InBuffer /\ buffer = 1

(* The frame that some bytes are, if they are exactly one.                 *)
Whole(data) == data # <<>> /\ data = Bytes(data[1].frame, data[1].length)
FrameOf(data) == IF Whole(data) THEN data[1].frame ELSE Nothing

(* The bytes still in the ring, cut into frames of full length, and behind *)
(* them none that are not a frame's.                                       *)
FramesIn(c) ==
  [k \in 1..(Queued(c) + FrameBytes - 1) \div FrameBytes |->
     FrameOf([i \in 1..Smaller(FrameBytes, Queued(c) - (k - 1) * FrameBytes) |->
                ring[c][(head[c] + (k - 1) * FrameBytes + i - 1) % QueueSize]])]
InHand(c) ==
  IF pc = "send" /\ channel = c THEN <<FrameOf(SubSeq(content, 1, bytes))>> ELSE <<>>

(* The rings, the buffers and DLL_vRun make queues of whole frames: none   *)
(* is lost, repeated, mixed with another or sent on another channel,       *)
(* wherever the interrupts come and the end of the ring cuts a frame.      *)
Queues == INSTANCE FrameQueue WITH
  fifo <- [c \in Channel |-> InHand(c) \o FramesIn(c)],
  sent <- IF sent = Nothing THEN Nothing
          ELSE [channel |-> sent.channel, frame |-> FrameOf(sent.data)],
  Capacity <- (QueueSize - 1) \div FrameBytes + 1
ImplementsQueues == Queues!Spec

(* Bytes do not stay in a ring for good: however many answers and frames   *)
(* come, and although buffers are lost, each channel has its turn.         *)
QueuesMove ==
  \A c \in Channel : <>[](Queued(c) > 0) => []<><<head'[c] # head[c]>>_vars
=============================================================================
