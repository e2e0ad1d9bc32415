------------------------- MODULE DiagnosticReceive -------------------------
(***************************************************************************)
(* The network layer of the diagnostics (UDSNL.c): requests that come in   *)
(* one frame or in a first frame and consecutive ones, from testers on     *)
(* several CAN channels, of which one is served at a time until it has     *)
(* been silent for a timeout (an alarm of timer.c, whose only user this    *)
(* is).                                                                    *)
(*                                                                         *)
(* The CAN interrupts and the tick have the same level, so a frame is      *)
(* received in one step.  A message is cut into parts: part 0 is the first *)
(* frame's 6 bytes, part k the k-th consecutive frame's 7.  A part is      *)
(* known by its tester and its number, and the buffer being filled is the  *)
(* sequence of the parts copied to it.                                     *)
(***************************************************************************)
EXTENDS Integers, Sequences, FiniteSets, Functions

CONSTANTS
  Resource,     \* the CAN channels, each with a tester
  Invalid,      \* EH_IO_Invalid
  Timeout,      \* UDSNL_nActiveResourceTimeout
  CounterWidth, \* u32AlarmCounter counts modulo this
  SmallSize,    \* COMMONNL_RX_BUFF_SMALL_SIZE
  U8,           \* the values of a uint8
  SeqMod,       \* the sequence numbers there are, 16
  SingleLength, \* the lengths of requests in one frame
  Traffics      \* what the testers may be doing: the lengths of requests
                \* in several frames and of downloaded blocks, the frames
                \* in a row that may be lost, and the parts of a buffer that
                \* are kept track of

ASSUME TimeAssumption == Timeout \in Nat \ {0} /\ CounterWidth \in Nat /\ Timeout < CounterWidth
ASSUME ResourceAssumption == Invalid \notin Resource
ASSUME LengthAssumption == SingleLength \subseteq 1..7
ASSUME TrafficAssumption == \A t \in Traffics :
  /\ t.small \cup t.large \subseteq Nat \ 0..7
  /\ SeqMod \in Nat /\ t.loss \in Nat /\ t.loss < SeqMod
ASSUME BufferAssumption == U8 \in Nat /\ SmallSize \in 0..U8 - 1 /\ SeqMod > 1
ASSUME TrackAssumption == \A t \in Traffics :
  t.parts \in Nat /\ \A length \in t.small \cup t.large : length \div 7 < t.parts

VARIABLES
  traffic,       \* what the testers are doing in this behaviour
  sending,       \* the message each tester is in the middle of
  u32AlarmCounter,
  alarm,         \* the entry of TIMER_stTimer
  active,        \* UDSNL_enActiveEHIOResource
  mode,          \* UDSNL_enSegRXMode
  small, large,  \* the counts of UDSNL_stRXSmallBuffer and UDSNL_stRXLargeBuffer
  assembly,      \* what the mode's buffer has been filled with, and what
                 \* has happened meanwhile
  served         \* the request the last step handed to the session layer

timer == <<u32AlarmCounter, alarm>>
buffers == <<small, large, assembly>>
vars == <<traffic, sending, timer, active, mode, buffers, served>>

Longer(parts, part) == IF Len(parts) < traffic.parts THEN Append(parts, part) ELSE parts
Empty == [parts |-> <<>>, length |-> 0, events |-> {}]
Nothing == [kind |-> "none", message |-> Empty]
Single == "single"

Silent == [next |-> 1, last |-> 0, lost |-> 0]
(* An event that may spoil the message being received.                     *)
Noting(event, message) ==
  IF message = Empty THEN message ELSE [message EXCEPT !.events = @ \cup {event}]

Init ==
  /\ traffic \in Traffics
  /\ sending = [r \in Resource |-> Silent]
  /\ u32AlarmCounter = 0
  /\ alarm = [enState |-> "reset", u32AlarmPoint |-> 0]
  /\ active = Invalid
  /\ mode = "invalid"
  /\ small = [requested |-> 0, received |-> 0]
  /\ large = [requested |-> 0, received |-> 0, seq |-> 0,
              biRXErr |-> FALSE, biRXOK |-> FALSE]
  /\ assembly = Empty
  /\ served = Nothing

-----------------------------------------------------------------------------
(* TIMER_vRun, with the only callback, UDSNL_vActiveResourceTimeout.       *)
\* a mutant: an alarm goes off only once its point has passed
TickLate ==
  LET now == (u32AlarmCounter + 1) % CounterWidth IN
  /\ u32AlarmCounter' = now
  /\ IF alarm.enState = "pending" /\ now > alarm.u32AlarmPoint
     THEN /\ alarm' = [alarm EXCEPT !.enState = "expired"] /\ active' = Invalid
          /\ assembly' = Noting("expired", assembly)
     ELSE UNCHANGED <<alarm, active, assembly>>
  /\ served' = Nothing
  /\ UNCHANGED <<traffic, sending, mode, small, large>>
Tick ==
  LET now == (u32AlarmCounter + 1) % CounterWidth IN
  /\ u32AlarmCounter' = now
  /\ IF alarm.enState = "pending" /\ now = alarm.u32AlarmPoint
     THEN /\ alarm' = [alarm EXCEPT !.enState = "expired"] /\ active' = Invalid
          /\ assembly' = Noting("expired", assembly)
     ELSE UNCHANGED <<alarm, active, assembly>>
  /\ served' = Nothing
  /\ UNCHANGED <<traffic, sending, mode, small, large>>

(* UDSNL_boCheckActiveResource, when it lets the frame pass.               *)
\* mutants: any channel passes; the alarm is only set at the first frame
CheckActiveResourceAny(r) ==
  /\ active' = r
  /\ alarm' = [enState |-> "pending",
               u32AlarmPoint |-> (u32AlarmCounter + Timeout) % CounterWidth]
  /\ UNCHANGED <<traffic, u32AlarmCounter>>
CheckActiveResourceOnce(r) ==
  /\ active \in {Invalid, r} /\ active' = r
  /\ alarm' = IF alarm.enState # "reset" THEN alarm
              ELSE [enState |-> "pending",
                    u32AlarmPoint |-> (u32AlarmCounter + Timeout) % CounterWidth]
  /\ UNCHANGED <<traffic, u32AlarmCounter>>
CheckActiveResource(r) ==
  /\ active \in {Invalid, r} /\ active' = r
  /\ alarm' = [enState |-> "pending",
               u32AlarmPoint |-> (u32AlarmCounter + Timeout) % CounterWidth]
  /\ UNCHANGED <<traffic, u32AlarmCounter>>

-----------------------------------------------------------------------------
(* UDSNL_vReceiveFrame, by kind of frame.  An unsegmented one is written   *)
(* over the first nine bytes of the small buffer and its count.            *)
ReceiveUnsegmented(r) ==
  /\ \E length \in SingleLength : small' = [small EXCEPT !.received = 1 + length]
  /\ assembly' = Noting("disturbed", IF mode # "small" THEN assembly ELSE
       [assembly EXCEPT !.parts =
          [i \in DOMAIN @ |-> IF i <= 2 THEN <<Single, 0>> ELSE @[i]]])
  /\ served' = Nothing
  /\ UNCHANGED <<mode, large>>

StartAssembly(r, length) ==
  assembly' = [parts |-> <<<<r, 0>>>>, length |-> length, events |-> {}]
ReceiveFirstSmall(r, length) ==
  /\ small' = [requested |-> length % U8, received |-> 6]
  /\ StartAssembly(r, length) /\ mode' = "small" /\ served' = Nothing
  /\ UNCHANGED large
ReceiveFirstLarge(r, length) ==
  /\ large' = [requested |-> length, received |-> 6, seq |-> 0,
               biRXErr |-> FALSE, biRXOK |-> FALSE]
  /\ StartAssembly(r, length) /\ mode' = "large" /\ served' = Nothing
  /\ UNCHANGED small

(* A part is added, and the message handed over if that completes it; a    *)
(* frame the tester sends again is an event.                               *)
Extend(r, k, again, done, kind) ==
  LET longer == [assembly EXCEPT !.parts = Longer(@, <<r, k>>)]
      message == IF again THEN Noting("disturbed", longer) ELSE longer
  IN /\ mode' = IF done THEN "invalid" ELSE kind
     /\ assembly' = IF done THEN Empty ELSE message
     /\ served' = IF done THEN [kind |-> kind, message |-> message] ELSE Nothing

(* A consecutive frame of a request: its number is not looked at.          *)
HasRoom == small.requested > small.received /\ SmallSize - 7 >= small.received
\* a mutant: the request is handed over one byte short
ReceiveNextSmallShort(r, k, again) ==
  LET received == (small.received + 7) % U8 IN
  /\ mode = "small"
  /\ IF HasRoom
     THEN /\ small' = [small EXCEPT !.received = received]
          /\ Extend(r, k, again, received + 1 >= small.requested, "small")
     ELSE mode' = "error" /\ assembly' = Empty /\ served' = Nothing /\ UNCHANGED small
  /\ UNCHANGED large
ReceiveNextSmall(r, k, again) ==
  LET received == (small.received + 7) % U8 IN
  /\ mode = "small"
  /\ IF HasRoom
     THEN /\ small' = [small EXCEPT !.received = received]
          /\ Extend(r, k, again, received >= small.requested, "small")
     ELSE mode' = "error" /\ assembly' = Empty /\ served' = Nothing /\ UNCHANGED small
  /\ UNCHANGED large

(* A consecutive frame of a block must have the next number; one that has  *)
(* not is noted and left out.  The completed block is handed over as the   *)
(* request it belongs to, made up again in the small buffer.               *)
\* a mutant: a repeated frame is taken, as it is of a short request
IsNextOrSame(k) ==
  k % SeqMod \in {large.seq, (large.seq + 1) % SeqMod} /\ large.requested > large.received
IsNext(k) == (large.seq + 1) % SeqMod = k % SeqMod /\ large.requested > large.received
ReceiveNextLarge(r, k, again) ==
  LET received == large.received + 7
      done == received >= large.requested
  IN /\ mode = "large"
     /\ IF IsNext(k)
        THEN /\ large' = [large EXCEPT !.received = received, !.seq = k % SeqMod,
                            !.biRXOK = @ \/ done]
             /\ Extend(r, k, again, done, "large")
        ELSE /\ large' = [large EXCEPT !.biRXErr = TRUE, !.biRXOK = FALSE]
             /\ served' = Nothing /\ UNCHANGED <<mode, assembly>>
     /\ UNCHANGED small

ReceiveNextIgnored ==
  /\ mode \in {"invalid", "error"} /\ served' = Nothing
  /\ UNCHANGED <<mode, buffers>>

(* A frame from a channel other than the active one is not looked at.      *)
Refuse(r) ==
  /\ active \notin {Invalid, r} /\ served' = Nothing
  /\ UNCHANGED <<traffic, timer, active, mode, buffers>>

-----------------------------------------------------------------------------
(* The testers: each begins a message at any time and sends its            *)
(* consecutive frames in order; a frame may be sent twice, or be lost, at  *)
(* most traffic.loss in a row.                                             *)
SendUnsegmented(r) ==
  /\ (CheckActiveResource(r) /\ ReceiveUnsegmented(r)) \/ Refuse(r)
  /\ UNCHANGED sending

Begin(r, length, lost) ==
  sending' = [sending EXCEPT ![r] = [next |-> 1, last |-> length \div 7, lost |-> lost]]
SendFirstSmall(r) ==
  \E length \in traffic.small :
    /\ Begin(r, length, 0)
    /\ (CheckActiveResource(r) /\ ReceiveFirstSmall(r, length)) \/ Refuse(r)
SendFirstLarge(r) ==
  \E length \in traffic.large :
    /\ Begin(r, length, 0)
    /\ (CheckActiveResource(r) /\ ReceiveFirstLarge(r, length)) \/ Refuse(r)

ReceiveNext(r, k, again) ==
  /\ CheckActiveResource(r)
  /\ ReceiveNextSmall(r, k, again) \/ ReceiveNextLarge(r, k, again) \/ ReceiveNextIgnored
HasMore(r) == sending[r].next <= sending[r].last
SendNext(r) ==
  /\ HasMore(r)
  /\ sending' = [sending EXCEPT ![r] = [next |-> @.next + 1, last |-> @.last, lost |-> 0]]
  /\ ReceiveNext(r, sending[r].next, FALSE) \/ Refuse(r)
SendAgain(r) ==
  /\ sending[r].next > 1 /\ sending[r].lost = 0
  /\ ReceiveNext(r, sending[r].next - 1, TRUE) \/ Refuse(r)
  /\ UNCHANGED sending

Miss(r, event) ==
  /\ assembly' = IF active = r THEN Noting(event, assembly) ELSE assembly
  /\ served' = Nothing
  /\ UNCHANGED <<traffic, timer, active, mode, small, large>>
LoseFirst(r) ==
  /\ traffic.loss > 0
  /\ \E length \in traffic.small \cup traffic.large : Begin(r, length, 1)
  /\ Miss(r, "first lost")
LoseNext(r) ==
  /\ HasMore(r) /\ sending[r].lost < traffic.loss
  /\ sending' = [sending EXCEPT ![r].next = @ + 1, ![r].lost = @ + 1]
  /\ Miss(r, "disturbed")

Frame(r) == \/ SendUnsegmented(r) \/ SendFirstSmall(r) \/ SendFirstLarge(r)
            \/ SendNext(r) \/ SendAgain(r)
Next == Tick \/ \E r \in Resource : Frame(r) \/ LoseFirst(r) \/ LoseNext(r)
Spec == Init /\ [][Next]_vars /\ WF_vars(Tick)

-----------------------------------------------------------------------------
(* While a channel is active the alarm that ends it is set, and near: no   *)
(* sequence of frames, time-outs and counter wraps leaves it locked with   *)
(* an alarm gone by, or open with one to come.                             *)
LockHasAlarm ==
  /\ (active # Invalid) <=> (alarm.enState = "pending")
  /\ active # Invalid =>
       (alarm.u32AlarmPoint - u32AlarmCounter) % CounterWidth \in 1..Timeout

Whole(message) ==
  LET parts == message.parts
      before == 6 + 7 * (Len(parts) - 2)
  IN /\ \E r \in Resource : \A i \in DOMAIN parts : parts[i] = <<r, i - 1>>
     /\ before < message.length /\ message.length <= before + 7

(* A segmented request is handed over when it is complete, with its parts  *)
(* in order and all from one tester, when nothing went wrong in between.   *)
RequestWhole ==
  served.kind = "small" /\ served.message.events = {} /\ served.message.length < U8
    => Whole(served.message)

(* A downloaded block is handed over whole even when frames of it were     *)
(* lost or repeated and others came in between, as long as the channel     *)
(* stayed the tester's own and it was not begun again unheard.             *)
BlockWhole ==
  served.kind = "large" /\ served.message.events \subseteq {"disturbed"}
    => Whole(served.message)

(* The parts of a request come from one tester, unless its time ran out in *)
(* between.                                                                *)
OneTester ==
  "expired" \notin assembly.events =>
    Cardinality({part[1] : part \in Range(assembly.parts)} \ {Single}) <= 1

(* A tester that has gone silent does not keep the others out for ever.    *)
LockReleased ==
  \A r \in Resource : <>[][~Frame(r)]_vars => []<>(active # r)
=============================================================================
