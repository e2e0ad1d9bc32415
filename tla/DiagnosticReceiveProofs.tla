---------------------- MODULE DiagnosticReceiveProofs ----------------------
(***************************************************************************)
(* The lock of the network layer and its alarm belong together, the parts  *)
(* of a request come from the tester that holds the lock, and requests and *)
(* blocks are handed over whole: for every number of channels, every       *)
(* timeout shorter than the counter's range, every size of the buffer that *)
(* its byte can count and all traffic.                                     *)
(***************************************************************************)
EXTENDS DiagnosticReceive, TLAPS, FiniteSetTheorems, SequenceTheorems

Stamp == 0..CounterWidth - 1
Event == {"expired", "first lost", "disturbed"}
Part == (Resource \cup {Single}) \X Nat
Message == [parts : Seq(Part), length : Nat, events : SUBSET Event]

TimerTypes ==
  /\ u32AlarmCounter \in Stamp
  /\ alarm \in [enState : {"reset", "pending", "expired"}, u32AlarmPoint : Stamp]
  /\ active \in Resource \cup {Invalid}
TrafficTypes ==
  /\ traffic \in Traffics
  /\ sending \in [Resource -> [next : Nat, last : Nat, lost : Nat]]
  /\ assembly \in Message

(* Only an expiry takes the lock from a tester in the middle of a message: *)
(* until then all parts but those an unsegmented request has overwritten   *)
(* are those of the tester that holds it.                                  *)
FromHolder(message, holder) ==
  \A i \in DOMAIN message.parts :
    \/ message.parts[i][1] = Single
    \/ holder # Invalid /\ message.parts[i][1] = holder
HeldByOne == "expired" \notin assembly.events => FromHolder(assembly, active)

LockInv == TimerTypes /\ LockHasAlarm

-----------------------------------------------------------------------------
(* The lock and the alarm: a step is a tick, a frame that passes the test  *)
(* of the active channel, or leaves both alone.                            *)
LEMMA StepKinds ==
  ASSUME Next
  PROVE  \/ Tick
         \/ \E r \in Resource : CheckActiveResource(r)
         \/ UNCHANGED <<timer, active>>
BY DEF Next, Frame, SendUnsegmented, SendFirstSmall, SendFirstLarge, SendNext, SendAgain,
       ReceiveNext, Refuse, LoseFirst, LoseNext, Miss

(* The distance to a point on the counter's circle.                        *)
LEMMA Distance ==
  ASSUME NEW p \in Stamp, NEW c \in Stamp
  PROVE  (p - c) % CounterWidth = IF c <= p THEN p - c ELSE p - c + CounterWidth
<1>1. CounterWidth \in Nat \ {0} /\ p - c \in Int
  BY TimeAssumption DEF Stamp
<1>2. CASE c <= p
  BY <1>1, <1>2, SMT DEF Stamp
<1>3. CASE ~(c <= p)
  BY <1>1, <1>3, SMT DEF Stamp
<1> QED BY <1>2, <1>3

LEMMA Later ==
  ASSUME NEW c \in Stamp, NEW n \in 0..CounterWidth
  PROVE  (c + n) % CounterWidth = IF c + n < CounterWidth THEN c + n ELSE c + n - CounterWidth
<1>1. CounterWidth \in Nat \ {0} /\ c + n \in Nat /\ c + n < 2 * CounterWidth
  BY TimeAssumption DEF Stamp
<1>2. CASE c + n < CounterWidth
  BY <1>1, <1>2, SMT DEF Stamp
<1>3. CASE ~(c + n < CounterWidth)
  BY <1>1, <1>3, SMT DEF Stamp
<1> QED BY <1>2, <1>3

LEMMA LockKept == LockInv /\ [Next]_vars => LockInv'
<1> SUFFICES ASSUME LockInv, [Next]_vars PROVE LockInv'
  OBVIOUS
<1> USE DEF LockInv
<1>1. ASSUME NEW r \in Resource, CheckActiveResource(r) PROVE LockInv'
  <2> DEFINE point == (u32AlarmCounter + Timeout) % CounterWidth
  <2>1. u32AlarmCounter \in Stamp /\ Timeout \in 1..CounterWidth - 1
    BY TimeAssumption DEF TimerTypes
  <2>2. /\ point \in Stamp
        /\ point = IF u32AlarmCounter + Timeout < CounterWidth THEN u32AlarmCounter + Timeout
                   ELSE u32AlarmCounter + Timeout - CounterWidth
    BY <2>1, Later, TimeAssumption DEF Stamp
  <2>3. (point - u32AlarmCounter) % CounterWidth = Timeout
    <3> HIDE DEF point
    <3> QED BY <2>1, <2>2, Distance, TimeAssumption DEF Stamp
  <2>4. /\ active' = r /\ u32AlarmCounter' = u32AlarmCounter
        /\ alarm' = [enState |-> "pending", u32AlarmPoint |-> point]
    BY <1>1 DEF CheckActiveResource
  <2>5. TimerTypes'
    <3> HIDE DEF point
    <3> QED BY <2>1, <2>2, <2>4 DEF TimerTypes
  <2>6. LockHasAlarm'
    <3> HIDE DEF point
    <3>1. active' # Invalid /\ alarm.enState' = "pending"
      BY <2>4, ResourceAssumption
    <3>2. alarm.u32AlarmPoint' = point
      BY <2>4
    <3> QED BY <2>3, <2>4, <3>1, <3>2, TimeAssumption DEF LockHasAlarm
  <2> QED BY <2>5, <2>6
<1>2. CASE Tick
  <2> DEFINE now == (u32AlarmCounter + 1) % CounterWidth
             point == alarm.u32AlarmPoint
  <2>1. u32AlarmCounter \in Stamp /\ point \in Stamp /\ 1 \in 0..CounterWidth
    BY TimeAssumption DEF TimerTypes
  <2>2. /\ now \in Stamp
        /\ now = IF u32AlarmCounter + 1 < CounterWidth THEN u32AlarmCounter + 1 ELSE 0
    <3>1. now = IF u32AlarmCounter + 1 < CounterWidth THEN u32AlarmCounter + 1
                ELSE u32AlarmCounter + 1 - CounterWidth
      BY <2>1, Later
    <3> HIDE DEF now
    <3> QED BY <2>1, <3>1, TimeAssumption DEF Stamp
  <2>3. u32AlarmCounter' = now
    BY <1>2 DEF Tick
  <2>4. CASE alarm.enState = "pending" /\ now = point
    <3>1. alarm' = [alarm EXCEPT !.enState = "expired"] /\ active' = Invalid
      BY <1>2, <2>4 DEF Tick
    <3> HIDE DEF now
    <3>2. TimerTypes'
      BY <2>2, <2>3, <3>1 DEF TimerTypes
    <3>3. LockHasAlarm'
      BY <3>1 DEF TimerTypes, LockHasAlarm
    <3> QED BY <3>2, <3>3
  <2>5. CASE ~(alarm.enState = "pending" /\ now = point)
    <3>1. UNCHANGED <<alarm, active>>
      BY <1>2, <2>5 DEF Tick
    <3>2. ASSUME active # Invalid
          PROVE  (point - now) % CounterWidth \in 1..Timeout
      <4>1. now # point /\ (point - u32AlarmCounter) % CounterWidth \in 1..Timeout
        BY <2>5, <3>2 DEF LockHasAlarm
      <4> HIDE DEF now, point
      <4>2. (point - now) % CounterWidth = ((point - u32AlarmCounter) % CounterWidth) - 1
        BY <2>1, <2>2, <4>1, Distance, TimeAssumption DEF Stamp
      <4>3. (point - now) % CounterWidth \in Nat
        BY <2>1, <2>2, Distance, TimeAssumption DEF Stamp
      <4>4. (point - now) % CounterWidth # 0
        BY <2>1, <2>2, <4>1, Distance, TimeAssumption DEF Stamp
      <4> QED BY <4>1, <4>2, <4>3, <4>4, TimeAssumption
    <3> HIDE DEF now
    <3>3. TimerTypes'
      BY <2>2, <2>3, <3>1 DEF TimerTypes
    <3>4. LockHasAlarm'
      BY <2>3, <3>1, <3>2 DEF LockHasAlarm
    <3> QED BY <3>3, <3>4
  <2> QED BY <2>4, <2>5
<1>3. CASE UNCHANGED <<timer, active>>
  BY <1>3 DEF timer, TimerTypes, LockHasAlarm
<1>4. CASE UNCHANGED vars
  BY <1>3, <1>4 DEF vars
<1> QED BY <1>1, <1>2, <1>3, <1>4, StepKinds

LEMMA LockStarts == Init => LockInv
BY TimeAssumption, ResourceAssumption DEF Init, LockInv, TimerTypes, LockHasAlarm, Stamp

(* While a channel is active the alarm that ends it is set and near, and   *)
(* no other alarm is (UDSNL.c:196-226, timer.c): no sequence of frames,    *)
(* time-outs and counter wraps leaves the layer locked for good.           *)
THEOREM LockAlwaysHasAlarm == Spec => []LockHasAlarm
<1>1. LockInv => LockHasAlarm
  BY DEF LockInv
<1> QED BY <1>1, LockStarts, LockKept, PTL DEF Spec

-----------------------------------------------------------------------------
(* What an event does to the message that is being received.               *)
LEMMA NotingKeeps ==
  ASSUME NEW m \in Message, NEW e \in Event
  PROVE  /\ Noting(e, m) \in Message
         /\ Noting(e, m).parts = m.parts
         /\ m.events \subseteq Noting(e, m).events
         /\ e \in Noting(e, m).events \/ m = Empty
BY DEF Noting, Message

LEMMA EmptyIsMessage == Empty \in Message
BY DEF Empty, Message, Event

(* What a frame of the tester r may do to it: every part is one the tester *)
(* has sent, or that of an unsegmented request, or was there before and    *)
(* any expiry is still known.                                              *)
Taken(r) ==
  /\ assembly' \in Message
  /\ \A i \in DOMAIN assembly'.parts :
       \/ assembly'.parts[i][1] \in {Single, r}
       \/ /\ i \in DOMAIN assembly.parts /\ assembly'.parts[i] = assembly.parts[i]
          /\ "expired" \in assembly.events => "expired" \in assembly'.events

LEMMA UntouchedTaken ==
  ASSUME assembly \in Message, NEW r, UNCHANGED assembly
  PROVE  Taken(r)
BY DEF Taken

LEMMA EmptyTaken ==
  ASSUME NEW r, assembly' = Empty
  PROVE  Taken(r)
BY EmptyIsMessage DEF Taken, Empty

LEMMA ExtendTaken ==
  ASSUME assembly \in Message, NEW r \in Resource, NEW k \in Nat, NEW again, NEW done,
         NEW kind, Extend(r, k, again, done, kind)
  PROVE  Taken(r)
<1> DEFINE longer == [assembly EXCEPT !.parts = Longer(@, <<r, k>>)]
           message == IF again THEN Noting("disturbed", longer) ELSE longer
<1>1. /\ assembly.parts \in Seq(Part) /\ <<r, k>> \in Part
      /\ Append(assembly.parts, <<r, k>>) \in Seq(Part)
  BY DEF Message, Part
<1>2. /\ longer \in Message
      /\ longer.parts \in {assembly.parts, Append(assembly.parts, <<r, k>>)}
      /\ longer.events = assembly.events
  BY <1>1 DEF Message, Longer
<1> HIDE DEF longer
<1>3. message \in Message /\ message.parts = longer.parts /\ assembly.events \subseteq message.events
  BY <1>2, NotingKeeps DEF Event
<1>4. CASE done
  BY <1>4, EmptyTaken DEF Extend
<1>5. CASE ~done
  <2>1. assembly' = message
    BY <1>5 DEF Extend, longer
  <2>2. ASSUME NEW i \in DOMAIN message.parts
        PROVE  \/ message.parts[i][1] = r
               \/ i \in DOMAIN assembly.parts /\ message.parts[i] = assembly.parts[i]
    <3> HIDE DEF message
    <3>1. CASE message.parts = assembly.parts
      BY <3>1
    <3>2. CASE message.parts = Append(assembly.parts, <<r, k>>)
      <4>1. DOMAIN assembly.parts = 1..Len(assembly.parts) /\ Len(assembly.parts) \in Nat
        BY <1>1
      <4>2. i \in 1..Len(assembly.parts) + 1
        BY <1>1, <3>2
      <4>3. CASE i = Len(assembly.parts) + 1
        <5>1. message.parts[i] = <<r, k>>
          BY <1>1, <3>2, <4>3
        <5> QED BY <5>1
      <4>4. CASE i \in 1..Len(assembly.parts)
        BY <1>1, <3>2, <4>1, <4>4
      <4> QED BY <4>1, <4>2, <4>3, <4>4
    <3> QED BY <1>2, <1>3, <3>1, <3>2
  <2> HIDE DEF message
  <2> QED BY <1>3, <2>1, <2>2 DEF Taken
<1> QED BY <1>4, <1>5

LEMMA UnsegmentedTaken ==
  ASSUME assembly \in Message, NEW r \in Resource, ReceiveUnsegmented(r)
  PROVE  Taken(r)
<1> DEFINE over == [assembly EXCEPT !.parts =
                      [i \in DOMAIN @ |-> IF i <= 2 THEN <<Single, 0>> ELSE @[i]]]
           message == IF mode # "small" THEN assembly ELSE over
<1>1. assembly' = Noting("disturbed", message)
  BY DEF ReceiveUnsegmented
<1>2. assembly.parts \in Seq(Part) /\ <<Single, 0>> \in Part
  BY DEF Message, Part
<1>3. [i \in DOMAIN assembly.parts |-> IF i <= 2 THEN <<Single, 0>> ELSE assembly.parts[i]]
        \in Seq(Part)
  <2>1. PICK n \in Nat : assembly.parts \in [1..n -> Part]
    BY <1>2, SeqDef
  <2>2. [i \in DOMAIN assembly.parts |-> IF i <= 2 THEN <<Single, 0>> ELSE assembly.parts[i]]
          \in [1..n -> Part]
    BY <1>2, <2>1
  <2> QED BY <2>2, SeqDef
<1>4. over \in Message
  BY <1>3 DEF Message
<1>5. /\ message \in Message /\ message.events = assembly.events
      /\ \A i \in DOMAIN message.parts :
           \/ message.parts[i][1] = Single
           \/ i \in DOMAIN assembly.parts /\ message.parts[i] = assembly.parts[i]
  BY <1>4 DEF Message
<1> HIDE DEF message
<1> QED BY <1>1, <1>5, NotingKeeps DEF Taken, Event

LEMMA FirstTaken ==
  ASSUME NEW r \in Resource, NEW length \in Nat, StartAssembly(r, length)
  PROVE  Taken(r)
<1>1. <<r, 0>> \in Part
  BY DEF Part
<1>2. assembly' \in Message
  BY <1>1 DEF StartAssembly, Message
<1>3. assembly'.parts = <<<<r, 0>>>>
  BY DEF StartAssembly
<1> QED BY <1>2, <1>3 DEF Taken

LEMMA NextTaken ==
  ASSUME assembly \in Message, NEW r \in Resource, NEW k \in Nat, NEW again,
         ReceiveNext(r, k, again)
  PROVE  Taken(r)
<1>1. CASE ReceiveNextSmall(r, k, again)
  BY <1>1, ExtendTaken, EmptyTaken DEF ReceiveNextSmall
<1>2. CASE ReceiveNextLarge(r, k, again)
  BY <1>2, ExtendTaken, UntouchedTaken DEF ReceiveNextLarge
<1>3. CASE ReceiveNextIgnored
  BY <1>3, UntouchedTaken DEF ReceiveNextIgnored, buffers
<1> QED BY <1>1, <1>2, <1>3 DEF ReceiveNext

(* A frame that passes the test finds the lock free or its tester's own.   *)
LEMMA HolderKept ==
  ASSUME HeldByOne, NEW r \in Resource, Taken(r), active \in {Invalid, r}, active' = r
  PROVE  HeldByOne'
BY ResourceAssumption DEF HeldByOne, FromHolder, Taken

-----------------------------------------------------------------------------
(* The steps of a frame, one by one: it is refused or taken.               *)
LEMMA FrameKept ==
  ASSUME TrafficTypes, HeldByOne, NEW r \in Resource, Frame(r)
  PROVE  TrafficTypes' /\ HeldByOne'
<1> USE DEF TrafficTypes
<1>1. CASE UNCHANGED <<traffic, sending, assembly, active>>
  BY <1>1 DEF HeldByOne, FromHolder
<1>2. ASSUME sending' \in [Resource -> [next : Nat, last : Nat, lost : Nat]],
             CheckActiveResource(r), Taken(r)
      PROVE  TrafficTypes' /\ HeldByOne'
  BY <1>2, HolderKept DEF CheckActiveResource, Taken
<1>3. ASSUME sending' \in [Resource -> [next : Nat, last : Nat, lost : Nat]], Refuse(r)
      PROVE  TrafficTypes' /\ HeldByOne'
  BY <1>3 DEF Refuse, buffers, HeldByOne, FromHolder
<1>4. CASE SendUnsegmented(r)
  BY <1>2, <1>3, <1>4, UnsegmentedTaken DEF SendUnsegmented
<1>5. ASSUME NEW length \in traffic.small \cup traffic.large, NEW lost \in {0, 1},
             Begin(r, length, lost)
      PROVE  length \in Nat /\ sending' \in [Resource -> [next : Nat, last : Nat, lost : Nat]]
  <2>1. length \in Nat /\ length \div 7 \in Nat
    BY TrafficAssumption
  <2> QED BY <1>5, <2>1 DEF Begin
<1>6. CASE SendFirstSmall(r)
  <2>1. PICK length \in traffic.small :
          /\ Begin(r, length, 0)
          /\ (CheckActiveResource(r) /\ ReceiveFirstSmall(r, length)) \/ Refuse(r)
    BY <1>6 DEF SendFirstSmall
  <2>2. length \in Nat /\ sending' \in [Resource -> [next : Nat, last : Nat, lost : Nat]]
    BY <1>5, <2>1
  <2> QED BY <1>2, <1>3, <2>1, <2>2, FirstTaken DEF ReceiveFirstSmall
<1>7. CASE SendFirstLarge(r)
  <2>1. PICK length \in traffic.large :
          /\ Begin(r, length, 0)
          /\ (CheckActiveResource(r) /\ ReceiveFirstLarge(r, length)) \/ Refuse(r)
    BY <1>7 DEF SendFirstLarge
  <2>2. length \in Nat /\ sending' \in [Resource -> [next : Nat, last : Nat, lost : Nat]]
    BY <1>5, <2>1
  <2> QED BY <1>2, <1>3, <2>1, <2>2, FirstTaken DEF ReceiveFirstLarge
<1>8. CASE SendNext(r)
  <2>1. sending[r].next \in Nat
    BY <1>8
  <2>2. sending' \in [Resource -> [next : Nat, last : Nat, lost : Nat]]
    BY <1>8 DEF SendNext
  <2> QED BY <1>2, <1>3, <1>8, <2>1, <2>2, NextTaken DEF SendNext, ReceiveNext
<1>9. CASE SendAgain(r)
  <2>1. /\ sending[r].next - 1 \in Nat
        /\ sending' \in [Resource -> [next : Nat, last : Nat, lost : Nat]]
    BY <1>9 DEF SendAgain
  <2> QED BY <1>2, <1>3, <1>9, <2>1, NextTaken DEF SendAgain, ReceiveNext
<1> QED BY <1>4, <1>6, <1>7, <1>8, <1>9 DEF Frame

LEMMA HeldStarts == Init => TrafficTypes /\ HeldByOne
<1> SUFFICES ASSUME Init PROVE TrafficTypes /\ HeldByOne
  OBVIOUS
<1>1. TrafficTypes
  BY EmptyIsMessage DEF Init, TrafficTypes, Silent
<1>2. HeldByOne
  BY DEF Init, HeldByOne, FromHolder, Empty
<1> QED BY <1>1, <1>2

LEMMA HeldKept == TrafficTypes /\ HeldByOne /\ [Next]_vars => TrafficTypes' /\ HeldByOne'
<1> SUFFICES ASSUME TrafficTypes, HeldByOne, [Next]_vars PROVE TrafficTypes' /\ HeldByOne'
  OBVIOUS
<1>1. CASE Tick
  <2>1. UNCHANGED <<traffic, sending>>
    BY <1>1 DEF Tick
  <2>2. CASE UNCHANGED <<active, assembly>>
    BY <2>1, <2>2 DEF TrafficTypes, HeldByOne, FromHolder
  <2>3. CASE assembly' = Noting("expired", assembly)
    <3>1. assembly' \in Message /\ ("expired" \in assembly'.events \/ assembly' = Empty)
      BY <2>3, NotingKeeps DEF TrafficTypes, Event, Noting
    <3> QED BY <2>1, <3>1 DEF TrafficTypes, HeldByOne, FromHolder, Empty
  <2> QED BY <1>1, <2>2, <2>3 DEF Tick
<1>2. ASSUME NEW r \in Resource, Frame(r) PROVE TrafficTypes' /\ HeldByOne'
  BY <1>2, FrameKept
<1>3. ASSUME NEW r \in Resource, NEW event \in Event, Miss(r, event),
             sending' \in [Resource -> [next : Nat, last : Nat, lost : Nat]]
      PROVE  TrafficTypes' /\ HeldByOne'
  <2>1. /\ assembly' \in Message /\ assembly'.parts = assembly.parts
        /\ assembly.events \subseteq assembly'.events
    BY <1>3, NotingKeeps DEF Miss, TrafficTypes
  <2>2. traffic' = traffic /\ active' = active
    BY <1>3 DEF Miss
  <2> QED BY <1>3, <2>1, <2>2 DEF TrafficTypes, HeldByOne, FromHolder
<1>4. ASSUME NEW r \in Resource, LoseFirst(r) PROVE TrafficTypes' /\ HeldByOne'
  <2>1. PICK length \in traffic.small \cup traffic.large : Begin(r, length, 1)
    BY <1>4 DEF LoseFirst
  <2>2. length \div 7 \in Nat
    BY TrafficAssumption DEF TrafficTypes
  <2>3. sending' \in [Resource -> [next : Nat, last : Nat, lost : Nat]]
    BY <2>1, <2>2 DEF Begin, TrafficTypes
  <2> QED BY <1>3, <1>4, <2>3 DEF LoseFirst, Event
<1>5. ASSUME NEW r \in Resource, LoseNext(r) PROVE TrafficTypes' /\ HeldByOne'
  <2>1. sending' \in [Resource -> [next : Nat, last : Nat, lost : Nat]]
    BY <1>5 DEF LoseNext, TrafficTypes
  <2> QED BY <1>3, <1>5, <2>1 DEF LoseNext, Event
<1>6. CASE UNCHANGED vars
  BY <1>6 DEF vars, buffers, TrafficTypes, HeldByOne, FromHolder
<1> QED BY <1>1, <1>2, <1>4, <1>5, <1>6 DEF Next

(* The parts of a request come from one tester unless its time ran out in  *)
(* between (UDSNL.c:82-158), whatever frames of whatever testers are lost, *)
(* repeated or refused.                                                    *)
THEOREM RequestOfOneTester == Spec => []OneTester
<1>1. TrafficTypes /\ HeldByOne => OneTester
  <2> SUFFICES ASSUME TrafficTypes, HeldByOne, "expired" \notin assembly.events
               PROVE  Cardinality({part[1] : part \in Range(assembly.parts)} \ {Single}) <= 1
    BY DEF OneTester
  <2> DEFINE testers == {part[1] : part \in Range(assembly.parts)} \ {Single}
  <2>1. testers \subseteq {active}
    BY DEF HeldByOne, FromHolder, Range
  <2>2. IsFiniteSet({active}) /\ Cardinality({active}) = 1
    BY FS_Singleton
  <2> HIDE DEF testers
  <2>3. Cardinality(testers) <= 1
    BY <2>1, <2>2, FS_Subset
  <2> QED BY <2>3 DEF testers
<1> QED BY <1>1, HeldStarts, HeldKept, PTL DEF Spec

-----------------------------------------------------------------------------
(* Messages are handed over whole.  The parts of a message are frames of   *)
(* the tester r, each later than the one before it, from the first frame   *)
(* on and none of them still to be sent; s is how far the tester has come. *)
Sent(message, r, s, tracked) ==
  LET parts == message.parts IN
  /\ parts # <<>> /\ parts[1] = <<r, 0>>
  /\ \A i \in 1..Len(parts) : parts[i][1] = r
  /\ \A i, j \in 1..Len(parts) : i <= j => parts[j][2] - parts[i][2] >= j - i
  /\ parts[Len(parts)][2] < s.next
  /\ s.next <= s.last + 1 /\ s.last = message.length \div 7 /\ s.last < tracked

Filled(parts) == 6 + 7 * (Len(parts) - 1)

\* A buffer that is being filled is not empty.
Begun == mode \in {"small", "large"} => assembly.parts # <<>>

\* An undisturbed request has had every frame sent so far.
RequestIs(message, r, s, tracked, counts) ==
  /\ Sent(message, r, s, tracked) /\ s.next = Len(message.parts)
  /\ counts.requested = message.length % U8 /\ counts.received = Filled(message.parts)
RequestGrows ==
  mode = "small" /\ assembly.events = {} =>
    active \in Resource /\ RequestIs(assembly, active, sending[active], traffic.parts, small)

\* A block may have missed frames, but only to take later ones for them.
BlockIs(message, r, s, tracked, counts) ==
  /\ Sent(message, r, s, tracked)
  /\ counts.seq = message.parts[Len(message.parts)][2] % SeqMod
  /\ counts.requested = message.length /\ counts.received = Filled(message.parts)
BlockGrows ==
  mode = "large" /\ assembly.events \subseteq {"disturbed"} =>
    active \in Resource /\ BlockIs(assembly, active, sending[active], traffic.parts, large)

CountTypes ==
  /\ small \in [requested : Nat, received : Nat]
  /\ large \in [requested : Nat, received : Nat, seq : Nat, biRXErr : BOOLEAN, biRXOK : BOOLEAN]

Growing == CountTypes /\ Begun /\ RequestGrows /\ BlockGrows
WholeInv == TrafficTypes /\ Growing /\ RequestWhole /\ BlockWhole

Progress == [next : Nat, last : Nat, lost : Nat]

LEMMA PartIs ==
  ASSUME NEW m \in Message, NEW i \in 1..Len(m.parts)
  PROVE  /\ m.parts[i] \in Part /\ m.parts[i] = <<m.parts[i][1], m.parts[i][2]>>
         /\ m.parts[i][2] \in Nat
<1>1. m.parts[i] \in Part
  BY DEF Message
<1> QED BY <1>1 DEF Part

\* The tester has gone on.
LEMMA SentMore ==
  ASSUME NEW m \in Message, NEW n \in Message, NEW r, NEW s \in Progress, NEW t \in Progress,
         NEW tracked, Sent(m, r, s, tracked), n.parts = m.parts, n.length = m.length,
         t.last = s.last, t.next >= s.next, t.next <= t.last + 1
  PROVE  Sent(n, r, t, tracked)
<1>1. m.parts[Len(m.parts)][2] < t.next
  <2>1. m.parts \in Seq(Part) /\ m.parts # <<>>
    BY DEF Message, Sent
  <2>2. Len(m.parts) \in 1..Len(m.parts)
    BY <2>1
  <2>3. m.parts[Len(m.parts)][2] \in Nat
    BY <2>2, PartIs
  <2>4. m.parts[Len(m.parts)][2] < s.next /\ s.next \in Nat /\ t.next \in Nat
    BY DEF Sent, Progress
  <2> QED BY <2>3, <2>4
<1> QED BY <1>1 DEF Sent

LEMMA SentFirst ==
  ASSUME NEW r \in Resource, NEW length \in Nat, length > 7, NEW tracked \in Nat,
         length \div 7 < tracked
  PROVE  LET m == [parts |-> <<<<r, 0>>>>, length |-> length, events |-> {}]
         IN  /\ m \in Message /\ Len(m.parts) = 1 /\ m.parts[1][2] = 0
             /\ Sent(m, r, [next |-> 1, last |-> length \div 7, lost |-> 0], tracked)
<1> DEFINE parts == <<<<r, 0>>>>
           m == [parts |-> parts, length |-> length, events |-> {}]
           s == [next |-> 1, last |-> length \div 7, lost |-> 0]
<1>1. parts \in Seq(Part) /\ parts # <<>> /\ Len(parts) = 1 /\ parts[1] = <<r, 0>>
  BY DEF Part
<1>2. length \div 7 \in Nat /\ 1 <= length \div 7 + 1
  OBVIOUS
<1>3. m.parts = parts /\ m.length = length /\ m.events = {} /\ s.next = 1 /\ s.last = length \div 7
  OBVIOUS
<1>4. m \in Message
  BY <1>1 DEF Message
<1> HIDE DEF parts, m, s
<1>5. Sent(m, r, s, tracked)
  <2>1. parts[1][1] = r /\ parts[1][2] = 0
    BY <1>1
  <2>2. \A i \in 1..Len(parts) : i = 1
    BY <1>1
  <2>3. \A i, j \in 1..Len(parts) : parts[i][1] = r /\ parts[j][2] - parts[i][2] >= j - i
    BY <2>1, <2>2
  <2> QED BY <1>1, <1>2, <1>3, <2>1, <2>3 DEF Sent
<1> QED BY <1>1, <1>3, <1>4, <1>5 DEF parts, m, s

\* The frames of a message are no fewer than its parts.
LEMMA LastPart ==
  ASSUME NEW m \in Message, NEW r, NEW s \in Progress, NEW tracked \in Nat, Sent(m, r, s, tracked)
  PROVE  /\ Len(m.parts) \in Nat \ {0} /\ m.parts[Len(m.parts)][2] \in Nat
         /\ m.parts[Len(m.parts)][2] >= Len(m.parts) - 1
<1>1. m.parts \in Seq(Part) /\ m.parts # <<>>
  BY DEF Message, Sent
<1>2. Len(m.parts) \in Nat \ {0} /\ 1 \in 1..Len(m.parts) /\ Len(m.parts) \in 1..Len(m.parts)
  BY <1>1
<1>3. m.parts[Len(m.parts)][2] \in Nat
  BY <1>2, PartIs
<1>4. m.parts[1][2] = 0 /\ m.parts[Len(m.parts)][2] - m.parts[1][2] >= Len(m.parts) - 1
  BY <1>2 DEF Sent
<1> QED BY <1>2, <1>3, <1>4

\* A later frame is added.
LEMMA AppendIs ==
  ASSUME NEW p \in Seq(Part), NEW x \in Part, NEW q, q = Append(p, x)
  PROVE  /\ q \in Seq(Part) /\ Len(q) = Len(p) + 1 /\ q[Len(p) + 1] = x
         /\ \A i \in 1..Len(p) : q[i] = p[i]
OBVIOUS

Adds(m, n, r, k) ==
  /\ n.parts = Append(m.parts, <<r, k>>) /\ n.length = m.length
  /\ k > m.parts[Len(m.parts)][2]
\* It is the k-th frame, and the tester has not yet sent more than the message has.
Continues(m, n, r, s, t, tracked, k) ==
  /\ m \in Message /\ n \in Message /\ s \in Progress /\ t \in Progress
  /\ tracked \in Nat /\ k \in Nat
  /\ Sent(m, r, s, tracked) /\ Adds(m, n, r, k)
  /\ k < t.next /\ t.next <= t.last + 1 /\ t.last = s.last
LEMMA SentNext ==
  ASSUME NEW m, NEW n, NEW r, NEW s, NEW t, NEW tracked, NEW k,
         Continues(m, n, r, s, t, tracked, k)
  PROVE  /\ Sent(n, r, t, tracked)
         /\ Len(n.parts) = Len(m.parts) + 1 /\ n.parts[Len(n.parts)] = <<r, k>>
<1> SUFFICES ASSUME m \in Message, n \in Message, s \in Progress, t \in Progress,
                    tracked \in Nat, k \in Nat, Sent(m, r, s, tracked), Adds(m, n, r, k),
                    k < t.next, t.next <= t.last + 1, t.last = s.last
             PROVE  /\ Sent(n, r, t, tracked)
                    /\ Len(n.parts) = Len(m.parts) + 1 /\ n.parts[Len(n.parts)] = <<r, k>>
  BY DEF Continues
<1> DEFINE parts == m.parts
           l == Len(m.parts)
<1>1. /\ parts \in Seq(Part) /\ parts # <<>> /\ l \in Nat \ {0} /\ n.parts \in Seq(Part)
      /\ Len(n.parts) = l + 1 /\ n.parts[l + 1] = <<r, k>>
      /\ \A i \in 1..l : n.parts[i] = parts[i]
  <2>1. parts \in Seq(Part) /\ parts # <<>> /\ n.parts \in Seq(Part) /\ l \in Nat \ {0}
    BY LastPart DEF Message, Sent
  <2>2. n.parts = Append(parts, <<r, k>>)
    BY DEF Adds
  <2> HIDE DEF parts
  <2>3. <<r, k>> \in Part
    <3>1. m.parts[1] = <<r, 0>>
      BY DEF Sent
    <3>2. 1 \in 1..Len(m.parts)
      BY <2>1 DEF parts
    <3>3. m.parts[1] \in Part
      BY <3>2, PartIs
    <3> QED BY <3>1, <3>3 DEF Part
  <2>4. /\ Len(n.parts) = Len(parts) + 1 /\ n.parts[Len(parts) + 1] = <<r, k>>
        /\ \A i \in 1..Len(parts) : n.parts[i] = parts[i]
    <3> DEFINE q == n.parts
               x == <<r, k>>
    <3>1. q = Append(parts, x) /\ x \in Part
      BY <2>2, <2>3
    <3> HIDE DEF q, x
    <3>2. /\ Len(q) = Len(parts) + 1 /\ q[Len(parts) + 1] = x
          /\ \A i \in 1..Len(parts) : q[i] = parts[i]
      BY <2>1, <3>1, AppendIs
    <3> QED BY <3>2 DEF q, x
  <2> QED BY <2>1, <2>4 DEF parts
<1>2. \A i \in 1..l : parts[i][2] \in Nat /\ parts[l][2] - parts[i][2] >= l - i
  <2> SUFFICES ASSUME NEW i \in 1..l
               PROVE  parts[i][2] \in Nat /\ parts[l][2] - parts[i][2] >= l - i
    OBVIOUS
  <2>1. i <= l /\ l \in 1..l
    BY <1>1
  <2> QED BY <2>1, PartIs DEF Sent
<1>3. ASSUME NEW i \in 1..l + 1, NEW j \in 1..l + 1, i <= j
      PROVE  n.parts[j][2] - n.parts[i][2] >= j - i
  <2>1. CASE j = l + 1 /\ i \in 1..l
    <3>1. n.parts[j][2] = k /\ n.parts[i][2] = parts[i][2]
      BY <1>1, <2>1
    <3>2. parts[l][2] \in Nat /\ k > parts[l][2]
      BY <1>1, <1>2 DEF Adds
    <3>3. parts[i][2] \in Nat /\ parts[l][2] - parts[i][2] >= l - i
      BY <1>2, <2>1
    <3>4. l \in Nat
      BY <1>1
    <3> HIDE DEF l
    <3>5. \A a, b \in Nat : a - b >= l - i /\ k > a => k - b >= (l + 1) - i
      BY <3>4
    <3>6. k - parts[i][2] >= (l + 1) - i
      BY <3>2, <3>3, <3>5
    <3> QED BY <2>1, <3>1, <3>6
  <2>2. CASE i = l + 1
    <3>1. j = l + 1 /\ n.parts[j][2] = k
      BY <1>1, <1>3, <2>2
    <3> QED BY <1>1, <2>2, <3>1
  <2>3. CASE i \in 1..l /\ j \in 1..l
    BY <1>1, <1>3, <2>3 DEF Sent
  <2> QED BY <1>1, <1>3, <2>1, <2>2, <2>3
<1>4. ASSUME NEW i \in 1..l + 1 PROVE n.parts[i][1] = r
  <2>1. CASE i = l + 1
    BY <1>1, <2>1
  <2>2. CASE i \in 1..l
    <3>1. n.parts[i] = m.parts[i]
      BY <1>1, <2>2
    <3> QED BY <2>2, <3>1 DEF Sent
  <2> QED BY <1>1, <2>1, <2>2
<1>5. n.parts # <<>> /\ n.parts[1] = <<r, 0>> /\ n.parts[l + 1][2] = k
  <2>1. 1 \in 1..l /\ parts[1] = <<r, 0>> /\ <<r, k>>[2] = k
    BY <1>1 DEF Sent
  <2>2. n.parts # <<>>
    BY <1>1
  <2> QED BY <1>1, <2>1, <2>2
<1> HIDE DEF parts, l
<1>6. Sent(n, r, t, tracked)
  BY <1>1, <1>3, <1>4, <1>5 DEF Sent, Adds
<1> QED BY <1>1, <1>6 DEF l

\* A message whose parts are as many as its frames is whole.
LEMMA SentWhole ==
  ASSUME NEW m \in Message, NEW r \in Resource, NEW s \in Progress, NEW tracked \in Nat,
         Sent(m, r, s, tracked), m.parts[Len(m.parts)][2] <= Len(m.parts) - 1,
         6 + 7 * (Len(m.parts) - 2) < m.length, m.length <= 6 + 7 * (Len(m.parts) - 2) + 7
  PROVE  Whole(m)
<1> DEFINE l == Len(m.parts)
<1>1. m.parts \in Seq(Part) /\ l \in Nat \ {0} /\ DOMAIN m.parts = 1..l
  BY LastPart DEF Message
<1>2. ASSUME NEW i \in 1..l PROVE m.parts[i] = <<r, i - 1>>
  <2>1. /\ m.parts[i] = <<m.parts[i][1], m.parts[i][2]>> /\ m.parts[i][2] \in Nat
        /\ m.parts[l][2] \in Nat /\ m.parts[l][2] <= l - 1
    <3>1. l \in 1..l
      BY <1>1
    <3> QED BY <3>1, PartIs
  <2>2. m.parts[i][1] = r /\ m.parts[1][2] = 0
    BY DEF Sent
  <2>3. m.parts[i][2] - 0 >= i - 1 /\ m.parts[l][2] - m.parts[i][2] >= l - i
    <3>1. 1 \in 1..l /\ l \in 1..l /\ 1 <= i /\ i <= l
      BY <1>1
    <3> QED BY <2>2, <3>1 DEF Sent
  <2>4. m.parts[i][2] = i - 1
    <3>1. l \in Nat
      BY <1>1
    <3> HIDE DEF l
    <3>2. \A a, b \in Nat : a - 0 >= i - 1 /\ b - a >= l - i /\ b <= l - 1 => a = i - 1
      BY <3>1
    <3> QED BY <2>1, <2>3, <3>2
  <2> QED BY <2>1, <2>2, <2>4
<1> QED BY <1>1, <1>2 DEF Whole


-----------------------------------------------------------------------------
LEMMA Unserved == served' = Nothing => RequestWhole' /\ BlockWhole'
BY DEF Nothing, RequestWhole, BlockWhole

LEMMA NotingLength ==
  ASSUME NEW m \in Message, NEW e \in Event
  PROVE  Noting(e, m).length = m.length
BY DEF Noting, Message

LEMMA SendingTypes ==
  ASSUME TrafficTypes, NEW r \in Resource
  PROVE  /\ sending[r] \in Progress
         /\ sending[r].next \in Nat /\ sending[r].last \in Nat /\ traffic.parts \in Nat
         /\ SeqMod \in Nat \ {0, 1}
<1>1. sending[r] \in Progress /\ traffic \in Traffics
  BY DEF TrafficTypes, Progress
<1> QED BY <1>1, TrafficAssumption, BufferAssumption, TrackAssumption DEF Progress

\* The tester is where it was or has gone on within its message.
Further(s, t) == t = s \/ (t.last = s.last /\ t.next >= s.next /\ t.next <= t.last + 1)

\* A step that adds nothing to the message.
LEMMA Aside ==
  ASSUME TrafficTypes, TrafficTypes', Growing, CountTypes', Begun',
         UNCHANGED <<traffic, mode, small>>, large'.requested = large.requested,
         large'.received = large.received, large'.seq = large.seq,
         active' = active \/ active = Invalid, assembly.events \subseteq assembly'.events,
         mode = "large" => assembly'.parts = assembly.parts /\ assembly'.length = assembly.length,
         mode = "small" /\ assembly'.events = {} =>
           assembly' = assembly /\ (active \in Resource => sending'[active] = sending[active]),
         active \in Resource => Further(sending[active], sending'[active])
  PROVE  Growing'
<1>1. RequestGrows'
  <2> SUFFICES ASSUME mode' = "small", assembly'.events = {}
               PROVE  active' \in Resource
                      /\ RequestIs(assembly', active', sending'[active'], traffic'.parts, small')
    BY DEF RequestGrows
  <2>1. active \in Resource /\ RequestIs(assembly, active, sending[active], traffic.parts, small)
    BY DEF Growing, RequestGrows
  <2>2. active' = active
    BY <2>1, ResourceAssumption
  <2> QED BY <2>1, <2>2
<1>2. BlockGrows'
  <2> SUFFICES ASSUME mode' = "large", assembly'.events \subseteq {"disturbed"}
               PROVE  active' \in Resource
                      /\ BlockIs(assembly', active', sending'[active'], traffic'.parts, large')
    BY DEF BlockGrows
  <2>1. active \in Resource /\ BlockIs(assembly, active, sending[active], traffic.parts, large)
    BY DEF Growing, BlockGrows
  <2>2. active' = active
    BY <2>1, ResourceAssumption
  <2>3. assembly \in Message /\ assembly' \in Message
    BY DEF TrafficTypes
  <2>4. sending[active] \in Progress /\ sending'[active] \in Progress
    BY <2>1, SendingTypes DEF TrafficTypes, Progress
  <2>5. Sent(assembly', active, sending'[active], traffic.parts)
    <3>1. CASE sending'[active] = sending[active]
      BY <2>1, <3>1 DEF BlockIs, Sent
    <3>2. CASE sending'[active] # sending[active]
      BY <2>1, <2>3, <2>4, <3>2, SentMore DEF BlockIs, Further
    <3> QED BY <3>1, <3>2
  <2> QED BY <2>1, <2>2, <2>5 DEF BlockIs, Filled
<1> QED BY <1>1, <1>2 DEF Growing

\* A step after which the message counts for nothing.
LEMMA Spoiled ==
  ASSUME CountTypes', Begun',
         mode' \in {"small", "large"} => "expired" \in assembly'.events \/ "first lost" \in assembly'.events
  PROVE  Growing'
BY DEF Growing, RequestGrows, BlockGrows

LEMMA TickGrows == TrafficTypes /\ TrafficTypes' /\ Growing /\ Tick => Growing'
<1> SUFFICES ASSUME TrafficTypes, TrafficTypes', Growing, Tick PROVE Growing'
  OBVIOUS
<1>1. UNCHANGED <<traffic, sending, mode, small, large>>
  BY DEF Tick
<1>2. CountTypes'
  BY <1>1 DEF Growing, CountTypes
<1>3. CASE UNCHANGED <<active, assembly>>
  <2>1. Begun'
    BY <1>1, <1>3 DEF Growing, Begun
  <2> QED BY <1>1, <1>2, <1>3, <2>1, Aside DEF Further
<1>4. CASE assembly' = Noting("expired", assembly)
  <2>1. assembly'.parts = assembly.parts /\ ("expired" \in assembly'.events \/ assembly = Empty)
    BY <1>4, NotingKeeps DEF TrafficTypes, Event
  <2>2. Begun' /\ (mode' \in {"small", "large"} => assembly # Empty)
    BY <1>1, <2>1 DEF Growing, Begun, Empty
  <2> QED BY <1>2, <2>1, <2>2, Spoiled
<1> QED BY <1>3, <1>4 DEF Tick

LEMMA RefusalGrows ==
  ASSUME TrafficTypes, TrafficTypes', Growing, NEW r \in Resource, Refuse(r),
         \A x \in Resource \ {r} : sending'[x] = sending[x]
  PROVE  Growing'
<1>1. UNCHANGED <<traffic, active, mode, small, large, assembly>> /\ active # r
  BY DEF Refuse, buffers
<1>2. CountTypes' /\ Begun'
  BY <1>1 DEF Growing, CountTypes, Begun
<1> QED BY <1>1, <1>2, Aside DEF Further

LEMMA MissGrows ==
  ASSUME TrafficTypes, TrafficTypes', Growing, NEW r \in Resource, NEW event \in Event,
         Miss(r, event), \A x \in Resource \ {r} : sending'[x] = sending[x],
         \/ event = "first lost"
         \/ event = "disturbed" /\ Further(sending[r], sending'[r])
  PROVE  Growing'
<1>1. UNCHANGED <<traffic, active, mode, small, large>>
  BY DEF Miss
<1>2. CountTypes'
  BY <1>1 DEF Growing, CountTypes
<1>3. CASE active # r
  <2>1. assembly' = assembly
    BY <1>3 DEF Miss
  <2>2. Begun'
    BY <1>1, <2>1 DEF Growing, Begun
  <2> QED BY <1>1, <1>2, <1>3, <2>1, <2>2, Aside DEF Further
<1>4. CASE active = r
  <2>1. assembly' = Noting(event, assembly)
    BY <1>4 DEF Miss
  <2>2. /\ assembly'.parts = assembly.parts /\ assembly'.length = assembly.length
        /\ assembly.events \subseteq assembly'.events
        /\ event \in assembly'.events \/ assembly = Empty
    BY <2>1, NotingKeeps, NotingLength DEF TrafficTypes
  <2>3. Begun' /\ (mode' \in {"small", "large"} => event \in assembly'.events)
    <3>1. mode \in {"small", "large"} => assembly.parts # <<>> /\ assembly # Empty
      <4>1. Empty.parts = <<>>
        BY DEF Empty
      <4> QED BY <4>1 DEF Growing, Begun
    <3>2. mode' = mode
      BY <1>1
    <3> QED BY <2>2, <3>1, <3>2 DEF Begun
  <2>4. CASE event = "first lost"
    BY <1>2, <2>3, <2>4, Spoiled
  <2>5. CASE event = "disturbed" /\ Further(sending[r], sending'[r])
    BY <1>1, <1>2, <1>4, <2>2, <2>3, <2>5, Aside
  <2> QED BY <2>4, <2>5
<1> QED BY <1>3, <1>4



LEMMA UnsegmentedGrows ==
  ASSUME TrafficTypes, TrafficTypes', Growing, NEW r \in Resource, CheckActiveResource(r),
         ReceiveUnsegmented(r), UNCHANGED sending
  PROVE  Growing'
<1> DEFINE over == [assembly EXCEPT !.parts =
                      [i \in DOMAIN @ |-> IF i <= 2 THEN <<Single, 0>> ELSE @[i]]]
           message == IF mode # "small" THEN assembly ELSE over
<1>1. /\ UNCHANGED <<traffic, mode, large>> /\ active \in {Invalid, r} /\ active' = r
      /\ assembly' = Noting("disturbed", message)
  BY DEF CheckActiveResource, ReceiveUnsegmented
<1>2. CountTypes'
  <2>1. PICK length \in SingleLength : small' = [small EXCEPT !.received = 1 + length]
    BY DEF ReceiveUnsegmented
  <2>2. 1 + length \in Nat
    BY LengthAssumption
  <2> QED BY <1>1, <2>1, <2>2 DEF Growing, CountTypes
<1>3. CASE mode \notin {"small", "large"}
  BY <1>1, <1>2, <1>3, Spoiled DEF Begun
<1>4. CASE mode = "small"
  <2>1. assembly.parts # <<>> /\ assembly.parts \in Seq(Part) /\ over.parts # <<>>
    BY <1>4 DEF Growing, Begun, TrafficTypes, Message
  <2>2. assembly' = [over EXCEPT !.events = @ \cup {"disturbed"}]
    BY <1>1, <1>4, <2>1 DEF Noting, Empty
  <2>3. "disturbed" \in assembly'.events /\ assembly'.parts # <<>>
    BY <2>1, <2>2 DEF TrafficTypes, Message
  <2>4. mode' = "small"
    BY <1>1, <1>4
  <2> QED BY <1>2, <2>3, <2>4 DEF Growing, Begun, RequestGrows, BlockGrows
<1>5. CASE mode = "large"
  <2>1. assembly' = Noting("disturbed", assembly)
    BY <1>1, <1>5
  <2>2. /\ assembly'.parts = assembly.parts /\ assembly'.length = assembly.length
        /\ assembly.events \subseteq assembly'.events
    BY <2>1, NotingKeeps, NotingLength DEF TrafficTypes, Event
  <2>3. Begun'
    BY <1>1, <2>2 DEF Growing, Begun
  <2>4. BlockGrows'
    <3> SUFFICES ASSUME assembly'.events \subseteq {"disturbed"}
                 PROVE  r \in Resource
                        /\ BlockIs(assembly', r, sending[r], traffic.parts, large)
      BY <1>1 DEF BlockGrows
    <3>1. active \in Resource /\ BlockIs(assembly, active, sending[active], traffic.parts, large)
      BY <1>5, <2>2 DEF Growing, BlockGrows
    <3>2. active = r
      BY <1>1, <3>1, ResourceAssumption
    <3> QED BY <2>2, <3>1, <3>2 DEF BlockIs, Sent, Filled
  <2>5. mode' = "large"
    BY <1>1, <1>5
  <2> QED BY <1>2, <2>3, <2>4, <2>5 DEF Growing, RequestGrows
<1> QED BY <1>3, <1>4, <1>5

LEMMA FirstGrows ==
  ASSUME TrafficTypes, Growing, NEW r \in Resource,
         NEW length \in traffic.small \cup traffic.large, Begin(r, length, 0),
         CheckActiveResource(r), ReceiveFirstSmall(r, length) \/ ReceiveFirstLarge(r, length)
  PROVE  Growing'
<1> DEFINE s == [next |-> 1, last |-> length \div 7, lost |-> 0]
           m == [parts |-> <<<<r, 0>>>>, length |-> length, events |-> {}]
<1>1. /\ active' = r /\ traffic' = traffic /\ sending'[r] = s
      /\ assembly' = m
  BY DEF CheckActiveResource, Begin, ReceiveFirstSmall, ReceiveFirstLarge, StartAssembly,
         TrafficTypes
<1>2. /\ length \in Nat /\ length > 7 /\ traffic.parts \in Nat /\ length \div 7 < traffic.parts
      /\ SeqMod \in Nat \ {0, 1} /\ U8 \in Nat \ {0}
  BY TrafficAssumption, TrackAssumption, BufferAssumption, SendingTypes DEF TrafficTypes
<1>3. /\ m \in Message /\ Len(m.parts) = 1 /\ m.parts[1][2] = 0 /\ Sent(m, r, s, traffic.parts)
  BY <1>2, SentFirst
<1>4. s.next = 1 /\ m.length = length /\ m.events = {} /\ m.parts # <<>>
  OBVIOUS
<1> HIDE DEF s, m
<1>5. Filled(m.parts) = 6
  BY <1>3 DEF Filled
<1>6. Begun'
  BY <1>1, <1>4 DEF Begun
<1>7. CASE ReceiveFirstSmall(r, length)
  <2>1. /\ small' = [requested |-> length % U8, received |-> 6] /\ large' = large
        /\ mode' = "small"
    BY <1>7 DEF ReceiveFirstSmall
  <2>2. length % U8 \in Nat
    BY <1>2
  <2>3. CountTypes'
    BY <2>1, <2>2 DEF Growing, CountTypes
  <2>4. RequestIs(m, r, s, traffic.parts, small')
    BY <1>3, <1>4, <1>5, <2>1 DEF RequestIs
  <2>5. RequestGrows' /\ BlockGrows'
    BY <1>1, <2>1, <2>4 DEF RequestGrows, BlockGrows
  <2> QED BY <1>6, <2>3, <2>5 DEF Growing
<1>8. CASE ReceiveFirstLarge(r, length)
  <2>1. /\ large' = [requested |-> length, received |-> 6, seq |-> 0,
                     biRXErr |-> FALSE, biRXOK |-> FALSE]
        /\ small' = small /\ mode' = "large"
    BY <1>8 DEF ReceiveFirstLarge
  <2>2. CountTypes'
    BY <1>2, <2>1 DEF Growing, CountTypes
  <2>3. 0 % SeqMod = 0
    BY <1>2
  <2>4. BlockIs(m, r, s, traffic.parts, large')
    BY <1>3, <1>4, <1>5, <2>1, <2>3 DEF BlockIs
  <2>5. RequestGrows' /\ BlockGrows'
    BY <1>1, <2>1, <2>4 DEF RequestGrows, BlockGrows
  <2> QED BY <1>6, <2>2, <2>5 DEF Growing
<1> QED BY <1>7, <1>8



\* What a consecutive frame makes of the message, and where that goes.
Longest(message, r, k, again) ==
  /\ message \in Message /\ message.parts # <<>>
  /\ message.parts = Longer(assembly.parts, <<r, k>>) /\ message.length = assembly.length
  /\ assembly.events \subseteq message.events /\ (again => "disturbed" \in message.events)
Handed(message, done, kind) ==
  /\ mode' = IF done THEN "invalid" ELSE kind
  /\ assembly' = IF done THEN Empty ELSE message
  /\ served' = IF done THEN [kind |-> kind, message |-> message] ELSE Nothing

LEMMA ExtendIs ==
  ASSUME assembly \in Message, NEW r \in Resource, NEW k \in Nat, NEW again \in BOOLEAN,
         NEW done, NEW kind, Extend(r, k, again, done, kind), assembly.parts # <<>>
  PROVE  \E message : Longest(message, r, k, again) /\ Handed(message, done, kind)
<1> DEFINE longer == [assembly EXCEPT !.parts = Longer(@, <<r, k>>)]
           message == IF again THEN Noting("disturbed", longer) ELSE longer
<1>1. Handed(message, done, kind)
  BY DEF Extend, Handed
<1>2. assembly.parts \in Seq(Part) /\ <<r, k>> \in Part
  BY DEF Message, Part
<1>3. Longer(assembly.parts, <<r, k>>) \in Seq(Part) /\ Longer(assembly.parts, <<r, k>>) # <<>>
  <2>1. ASSUME NEW p \in Seq(Part), NEW x \in Part
        PROVE  Append(p, x) \in Seq(Part) /\ Append(p, x) # <<>>
    BY <2>1
  <2> QED BY <1>2, <2>1 DEF Longer
<1>4. /\ longer.parts = Longer(assembly.parts, <<r, k>>) /\ longer.length = assembly.length
      /\ longer.events = assembly.events /\ longer \in Message
  BY <1>3 DEF Message
<1> HIDE DEF longer
<1>5. longer # Empty
  BY <1>3, <1>4 DEF Empty
<1>6. Longest(message, r, k, again)
  <2>1. CASE again = TRUE
    <3>1. message = Noting("disturbed", longer)
      BY <2>1
    <3>2. /\ message \in Message /\ message.parts = longer.parts
          /\ message.length = longer.length /\ longer.events \subseteq message.events
          /\ "disturbed" \in message.events
      BY <1>4, <1>5, <3>1, NotingKeeps, NotingLength DEF Event
    <3> QED BY <1>3, <1>4, <3>2 DEF Longest
  <2>2. CASE again = FALSE
    BY <1>3, <1>4, <2>2 DEF Longest
  <2> QED BY <2>1, <2>2
<1> HIDE DEF message
<1> QED BY <1>1, <1>6

\* A consecutive frame of a request.
LEMMA RequestExtends ==
  ASSUME TrafficTypes, TrafficTypes', Growing, NEW r \in Resource, NEW k \in Nat,
         NEW again \in BOOLEAN, CheckActiveResource(r), ReceiveNextSmall(r, k, again),
         again = FALSE => /\ k = sending[r].next /\ HasMore(r) /\ sending'[r].next = k + 1
                          /\ sending'[r].last = sending[r].last
  PROVE  Growing' /\ RequestWhole' /\ BlockWhole'
<1> DEFINE received == (small.received + 7) % U8
           done == received >= small.requested
<1>1. /\ active' = r /\ active \in {Invalid, r} /\ UNCHANGED <<traffic, large>> /\ mode = "small"
      /\ U8 \in Nat \ {0} /\ small.received \in Nat /\ small.requested \in Nat
      /\ assembly \in Message /\ traffic.parts \in Nat
      /\ sending[r] \in Progress /\ sending'[r] \in Progress
  BY BufferAssumption, SendingTypes
     DEF CheckActiveResource, ReceiveNextSmall, Growing, CountTypes, TrafficTypes, Progress
<1>2. received \in Nat
  BY <1>1
<1>3. assembly.parts # <<>>
  BY <1>1 DEF Growing, Begun
<1>4. CASE ~HasRoom
  <2>1. mode' = "error" /\ served' = Nothing /\ UNCHANGED small
    BY <1>4 DEF ReceiveNextSmall
  <2> QED BY <1>1, <2>1, Spoiled, Unserved DEF Growing, CountTypes, Begun
<1>5. CASE HasRoom
  <2>1. small' = [small EXCEPT !.received = received] /\ Extend(r, k, again, done, "small")
    BY <1>5 DEF ReceiveNextSmall
  <2> HIDE DEF received
  <2>2. CountTypes' /\ small'.requested = small.requested /\ small'.received = received
    BY <1>1, <1>2, <2>1 DEF Growing, CountTypes
  <2> HIDE DEF done
  <2>3. PICK message : Longest(message, r, k, again) /\ Handed(message, done, "small")
    BY <1>1, <1>3, <2>1, ExtendIs
  <2>4. Begun' /\ BlockGrows' /\ BlockWhole'
    BY <2>3 DEF Longest, Handed, Begun, BlockGrows, BlockWhole, Nothing
  <2>5. CASE message.events # {}
    <3>1. RequestGrows' /\ RequestWhole'
      BY <2>3, <2>5 DEF Handed, RequestGrows, RequestWhole, Nothing
    <3> QED BY <2>2, <2>4, <3>1 DEF Growing
  <2>6. CASE message.events = {}
    <3> DEFINE parts == assembly.parts
               l == Len(parts)
               s == sending[r]
               t == sending'[r]
    <3>1. again = FALSE /\ assembly.events = {}
      BY <2>3, <2>6 DEF Longest
    <3>2. /\ active = r /\ RequestIs(assembly, r, s, traffic.parts, small)
      BY <1>1, <3>1, ResourceAssumption DEF Growing, RequestGrows
    <3>3. /\ parts \in Seq(Part) /\ l \in Nat \ {0} /\ parts[l][2] \in Nat
          /\ k = l /\ s.next = l /\ s.next <= s.last /\ t.next = k + 1 /\ t.last = s.last
          /\ small.received = Filled(parts) /\ small.requested = assembly.length % U8
      BY <1>1, <3>1, <3>2, LastPart DEF RequestIs, HasMore, Message
    <3>4. parts[l][2] < k /\ s.last < traffic.parts /\ s.last \in Nat
      BY <1>1, <3>2, <3>3 DEF RequestIs, Sent, Progress
    <3>5. message.parts = Append(parts, <<r, k>>) /\ message.length = assembly.length
          /\ message \in Message
      <4>1. l < traffic.parts
        BY <1>1, <3>3, <3>4
      <4> QED BY <2>3, <4>1 DEF Longest, Longer
    <3>6. k < t.next /\ t.next <= t.last + 1
      BY <3>3, <3>4
    <3> HIDE DEF t, s, parts, l
    <3>7. /\ Sent(message, r, t, traffic.parts) /\ Len(message.parts) = l + 1
          /\ message.parts[Len(message.parts)] = <<r, k>>
      <4>1. Sent(assembly, r, s, traffic.parts) /\ s \in Progress /\ t \in Progress
        BY <1>1, <3>2 DEF RequestIs, s, t
      <4>2. Adds(assembly, message, r, k)
        BY <3>3, <3>4, <3>5 DEF l, parts, Adds
      <4>3. /\ assembly \in Message /\ message \in Message /\ traffic.parts \in Nat
            /\ t.last = s.last
        BY <1>1, <3>3, <3>5
      <4>4. Continues(assembly, message, r, s, t, traffic.parts, k)
        BY <3>6, <4>1, <4>2, <4>3 DEF Continues
      <4>5. /\ Sent(message, r, t, traffic.parts)
            /\ Len(message.parts) = Len(assembly.parts) + 1
            /\ message.parts[Len(message.parts)] = <<r, k>>
        BY <4>4, SentNext
      <4> QED BY <4>5 DEF l, parts
    <3>8. /\ small.received = 6 + 7 * (l - 1)
          /\ received = 6 + 7 * l /\ Filled(message.parts) = received
      <4>1. small.received = 6 + 7 * (l - 1)
        BY <3>3 DEF Filled, l, parts
      <4>2. small.received + 7 \in Nat /\ small.received + 7 <= SmallSize /\ SmallSize < U8
        BY <1>1, <1>5, BufferAssumption DEF HasRoom
      <4>3. received = small.received + 7
        BY <1>1, <4>2, BufferAssumption DEF received
      <4> QED BY <3>3, <3>7, <4>1, <4>3 DEF Filled
    <3>9. RequestGrows'
      <4> SUFFICES ASSUME mode' = "small"
                   PROVE  r \in Resource
                          /\ RequestIs(assembly', r, t, traffic.parts, small')
        BY <1>1 DEF RequestGrows, t
      <4>1. assembly' = message
        BY <2>3 DEF Handed
      <4> QED BY <2>2, <3>3, <3>5, <3>7, <3>8, <4>1 DEF RequestIs
    <3>10. RequestWhole'
      <4> SUFFICES ASSUME served'.kind = "small", served'.message.length < U8
                   PROVE  Whole(served'.message)
        BY DEF RequestWhole
      <4>1. done /\ served'.message = message
        BY <2>3 DEF Handed, Nothing
      <4>2. message.length \in Nat /\ message.length < U8
        BY <3>5, <4>1 DEF Message
      <4>3. small.requested = message.length
        <5>1. \A a \in Nat, b \in Nat \ {0} : a < b => a % b = a
          OBVIOUS
        <5>2. message.length % U8 = message.length
          BY <1>1, <4>2, <5>1
        <5> QED BY <3>3, <3>5, <5>2
      <4>4. message.length <= 6 + 7 * l /\ 6 + 7 * (l - 1) < message.length
        BY <1>1, <1>5, <3>8, <4>1, <4>3 DEF done, HasRoom
      <4>5. Len(message.parts) = l + 1 /\ message.parts[Len(message.parts)][2] = l
        BY <3>3, <3>7
      <4>6. /\ 6 + 7 * (Len(message.parts) - 2) < message.length
            /\ message.length <= 6 + 7 * (Len(message.parts) - 2) + 7
            /\ message.parts[Len(message.parts)][2] <= Len(message.parts) - 1
        BY <3>3, <4>4, <4>5
      <4>7. Whole(message)
        BY <1>1, <3>5, <3>7, <4>6, SentWhole DEF t
      <4> QED BY <4>1, <4>7
    <3> QED BY <2>2, <2>4, <3>9, <3>10 DEF Growing
  <2> QED BY <2>5, <2>6
<1> QED BY <1>4, <1>5



\* A frame with the number after another's is another frame.
LEMMA NextNumber ==
  ASSUME NEW a \in Nat, NEW modulus \in Nat \ {0, 1}
  PROVE  ((a % modulus) + 1) % modulus # a % modulus
<1> DEFINE b == a % modulus
<1>1. b \in 0..modulus - 1
  OBVIOUS
<1> HIDE DEF b
<1>2. CASE b = modulus - 1
  <2>1. (b + 1) % modulus = 0
    BY <1>2
  <2> QED BY <1>2, <2>1 DEF b
<1>3. CASE b # modulus - 1
  <2>1. b + 1 \in Nat /\ b + 1 < modulus
    BY <1>1, <1>3
  <2>2. (b + 1) % modulus = b + 1
    BY <2>1
  <2> QED BY <1>1, <2>2 DEF b
<1> QED BY <1>2, <1>3

\* A consecutive frame of a block, which is taken if its number is the next.
LEMMA BlockExtends ==
  ASSUME TrafficTypes, TrafficTypes', Growing, NEW r \in Resource, NEW k \in Nat,
         NEW again \in BOOLEAN, CheckActiveResource(r), ReceiveNextLarge(r, k, again),
         k >= sending[r].next - 1, k < sending'[r].next, Further(sending[r], sending'[r])
  PROVE  Growing' /\ RequestWhole' /\ BlockWhole'
<1> DEFINE received == large.received + 7
           done == received >= large.requested
<1>1. /\ active' = r /\ active \in {Invalid, r} /\ UNCHANGED <<traffic, small>> /\ mode = "large"
      /\ large.received \in Nat /\ large.requested \in Nat /\ large.seq \in Nat
      /\ assembly \in Message /\ traffic.parts \in Nat /\ SeqMod \in Nat \ {0, 1}
      /\ sending[r] \in Progress /\ sending'[r] \in Progress
      /\ sending[r].next \in Nat /\ sending'[r].next \in Nat
  BY SendingTypes
     DEF CheckActiveResource, ReceiveNextLarge, Growing, CountTypes, TrafficTypes, Progress
<1>2. assembly.parts # <<>>
  BY <1>1 DEF Growing, Begun
<1>3. CASE ~IsNext(k)
  <2>1. /\ large' = [large EXCEPT !.biRXErr = TRUE, !.biRXOK = FALSE]
        /\ served' = Nothing /\ UNCHANGED <<mode, assembly>>
    BY <1>3 DEF ReceiveNextLarge
  <2>2. /\ CountTypes' /\ large'.requested = large.requested
        /\ large'.received = large.received /\ large'.seq = large.seq
    BY <1>1, <2>1 DEF Growing, CountTypes
  <2>3. Begun' /\ RequestGrows'
    BY <1>1, <2>1 DEF Growing, Begun, RequestGrows
  <2>4. BlockGrows'
    <3> SUFFICES ASSUME assembly.events \subseteq {"disturbed"}
                 PROVE  BlockIs(assembly, r, sending'[r], traffic.parts, large')
      BY <1>1, <2>1 DEF BlockGrows
    <3>1. active = r /\ BlockIs(assembly, r, sending[r], traffic.parts, large)
      BY <1>1, ResourceAssumption DEF Growing, BlockGrows
    <3>2. Sent(assembly, r, sending'[r], traffic.parts)
      BY <1>1, <3>1, SentMore DEF BlockIs, Further
    <3> QED BY <2>2, <3>1, <3>2 DEF BlockIs
  <2> QED BY <2>1, <2>2, <2>3, <2>4, Unserved DEF Growing
<1>4. CASE IsNext(k)
  <2>1. /\ large' = [large EXCEPT !.received = received, !.seq = k % SeqMod, !.biRXOK = @ \/ done]
        /\ Extend(r, k, again, done, "large")
    BY <1>4 DEF ReceiveNextLarge
  <2>2. received \in Nat /\ k % SeqMod \in Nat /\ done \in BOOLEAN
    BY <1>1
  <2> HIDE DEF received, done
  <2>3. /\ CountTypes' /\ large'.requested = large.requested /\ large'.received = received
        /\ large'.seq = k % SeqMod
    BY <1>1, <2>1, <2>2 DEF Growing, CountTypes
  <2>4. PICK message : Longest(message, r, k, again) /\ Handed(message, done, "large")
    BY <1>1, <1>2, <2>1, ExtendIs
  <2>5. Begun' /\ RequestGrows' /\ RequestWhole'
    BY <2>4 DEF Longest, Handed, Begun, RequestGrows, RequestWhole, Nothing
  <2>6. CASE ~(message.events \subseteq {"disturbed"})
    <3>1. BlockGrows' /\ BlockWhole'
      BY <2>4, <2>6 DEF Handed, BlockGrows, BlockWhole, Nothing
    <3> QED BY <2>3, <2>5, <3>1 DEF Growing
  <2>7. CASE message.events \subseteq {"disturbed"}
    <3> DEFINE parts == assembly.parts
               l == Len(parts)
               p == parts[l][2]
               s == sending[r]
               t == sending'[r]
    <3>1. assembly.events \subseteq {"disturbed"}
      BY <2>4, <2>7 DEF Longest
    <3>2. active = r /\ BlockIs(assembly, r, s, traffic.parts, large)
      BY <1>1, <3>1, ResourceAssumption DEF Growing, BlockGrows
    <3>3. /\ parts \in Seq(Part) /\ l \in Nat \ {0} /\ p \in Nat /\ p >= l - 1
          /\ p < s.next /\ s.next <= s.last + 1 /\ s.last < traffic.parts
          /\ s.last = assembly.length \div 7 /\ s.last \in Nat
          /\ large.seq = p % SeqMod /\ large.received = 6 + 7 * (l - 1)
          /\ large.requested = assembly.length /\ assembly.length \in Nat
      BY <1>1, <3>2, LastPart DEF BlockIs, Sent, Filled, Message, Progress
    <3>4. k > p
      <4>1. k >= p
        <5>1. s.next \in Nat /\ p \in Nat /\ p < s.next /\ k >= s.next - 1
          BY <1>1, <3>3
        <5>2. \A a, b \in Nat : a < b /\ k >= b - 1 => k >= a
          OBVIOUS
        <5> HIDE DEF s, p
        <5> QED BY <5>1, <5>2
      <4>2. ((p % SeqMod) + 1) % SeqMod = k % SeqMod
        BY <1>4, <3>3 DEF IsNext
      <4>3. k # p
        BY <1>1, <3>3, <4>2, NextNumber
      <4> QED BY <3>3, <4>1, <4>3
    <3>5. t.last = s.last /\ t.next <= t.last + 1 /\ k <= s.last
      <4>1. s.next \in Nat /\ s.last \in Nat /\ t.next \in Nat /\ s.next <= s.last + 1 /\ k < t.next
        BY <1>1, <3>3
      <4> HIDE DEF s, t
      <4>2. Further(s, t)
        BY <1>1 DEF s, t
      <4> QED BY <4>1, <4>2 DEF Further
    <3>6. Adds(assembly, message, r, k) /\ message \in Message /\ message.length = assembly.length
      <4>1. l < traffic.parts
        <5>1. /\ l \in Nat /\ p \in Nat /\ s.last \in Nat /\ traffic.parts \in Nat
              /\ p >= l - 1 /\ k > p /\ k <= s.last /\ s.last < traffic.parts
          BY <1>1, <3>3, <3>4, <3>5
        <5>2. \A a, b, c, d \in Nat : b >= a - 1 /\ k > b /\ k <= c /\ c < d => a < d
          OBVIOUS
        <5> HIDE DEF l, p, s
        <5> QED BY <5>1, <5>2
      <4> QED BY <2>4, <3>4, <4>1 DEF Longest, Longer, Adds
    <3>7. /\ Sent(message, r, t, traffic.parts)
          /\ Len(message.parts) = Len(assembly.parts) + 1
          /\ message.parts[Len(message.parts)] = <<r, k>>
      <4>1. /\ Sent(assembly, r, s, traffic.parts) /\ s \in Progress /\ t \in Progress
            /\ assembly \in Message /\ traffic.parts \in Nat
        BY <1>1, <3>2 DEF BlockIs
      <4> HIDE DEF s, t, p, parts, l
      <4>2. k < t.next
        BY DEF t
      <4>3. Continues(assembly, message, r, s, t, traffic.parts, k)
        BY <3>5, <3>6, <4>1, <4>2 DEF Continues
      <4> QED BY <4>3, SentNext
    <3>8. Len(message.parts) = l + 1 /\ message.parts[l + 1][2] = k
      BY <3>7
    <3> HIDE DEF s, t, p, parts, l
    <3>9. received = 6 + 7 * l /\ Filled(message.parts) = received
      BY <3>3, <3>8 DEF Filled, received
    <3>10. BlockGrows'
      <4> SUFFICES ASSUME mode' = "large"
                   PROVE  r \in Resource /\ BlockIs(assembly', r, t, traffic.parts, large')
        BY <1>1 DEF BlockGrows, t
      <4>1. assembly' = message
        BY <2>4 DEF Handed
      <4> QED BY <2>3, <3>3, <3>6, <3>7, <3>8, <3>9, <4>1 DEF BlockIs
    <3>11. BlockWhole'
      <4> SUFFICES ASSUME served'.kind = "large" PROVE Whole(served'.message)
        BY DEF BlockWhole
      <4>1. done /\ served'.message = message
        BY <2>4 DEF Handed, Nothing
      <4>2. message.length <= 6 + 7 * l /\ 6 + 7 * (l - 1) < message.length
        BY <1>1, <1>4, <3>3, <3>6, <3>9, <4>1 DEF done, IsNext
      <4>3. k <= l
        <5>1. \A a \in Nat : a <= 6 + 7 * l => a \div 7 <= l
          BY <3>3
        <5>2. assembly.length \div 7 <= l
          BY <3>3, <3>6, <4>2, <5>1
        <5>3. k <= assembly.length \div 7
          BY <3>3, <3>5
        <5>4. \A a \in Nat : a \div 7 \in Nat
          OBVIOUS
        <5>5. l \in Nat /\ assembly.length \div 7 \in Nat
          BY <3>3, <5>4
        <5> QED BY <5>2, <5>3, <5>5
      <4>4. /\ 6 + 7 * (Len(message.parts) - 2) < message.length
            /\ message.length <= 6 + 7 * (Len(message.parts) - 2) + 7
            /\ message.parts[Len(message.parts)][2] <= Len(message.parts) - 1
        BY <3>3, <3>8, <4>2, <4>3
      <4>5. Whole(message)
        BY <1>1, <3>6, <3>7, <4>4, SentWhole DEF t
      <4> QED BY <4>1, <4>5
    <3> QED BY <2>3, <2>5, <3>10, <3>11 DEF Growing
  <2> QED BY <2>6, <2>7
<1> QED BY <1>3, <1>4



\* A consecutive frame, in whatever mode it finds the layer.
LEMMA NextGrows ==
  ASSUME TrafficTypes, TrafficTypes', Growing, NEW r \in Resource, NEW k \in Nat,
         NEW again \in BOOLEAN, ReceiveNext(r, k, again), \A x \in Resource \ {r} : sending'[x] = sending[x],
         again = FALSE => k = sending[r].next /\ HasMore(r) /\ sending'[r].next = k + 1,
         k >= sending[r].next - 1, k < sending'[r].next, Further(sending[r], sending'[r])
  PROVE  Growing' /\ RequestWhole' /\ BlockWhole'
<1>1. CheckActiveResource(r)
  BY DEF ReceiveNext
<1>2. CASE ReceiveNextSmall(r, k, again)
  <2>1. sending'[r].last = sending[r].last
    BY DEF Further
  <2> QED BY <1>1, <1>2, <2>1, RequestExtends
<1>3. CASE ReceiveNextLarge(r, k, again)
  BY <1>1, <1>3, BlockExtends
<1>4. CASE ReceiveNextIgnored
  <2>1. UNCHANGED <<mode, small, large, assembly>> /\ mode \notin {"small", "large"} /\ served' = Nothing
    BY <1>4 DEF ReceiveNextIgnored, buffers
  <2> QED BY <2>1, Spoiled, Unserved DEF Growing, CountTypes, Begun
<1> QED BY <1>2, <1>3, <1>4 DEF ReceiveNext

LEMMA FrameGrows ==
  ASSUME TrafficTypes, TrafficTypes', Growing, NEW r \in Resource, Frame(r)
  PROVE  Growing' /\ RequestWhole' /\ BlockWhole'
<1>1. /\ sending[r] \in Progress /\ sending[r].next \in Nat /\ sending[r].last \in Nat
      /\ sending \in [Resource -> Progress]
  BY SendingTypes DEF TrafficTypes, Progress
<1>2. ASSUME Refuse(r), \A x \in Resource \ {r} : sending'[x] = sending[x]
      PROVE  Growing' /\ RequestWhole' /\ BlockWhole'
  <2>1. served' = Nothing
    BY <1>2 DEF Refuse
  <2> QED BY <1>2, <2>1, RefusalGrows, Unserved
<1>3. CASE SendUnsegmented(r)
  <2>1. CASE Refuse(r)
    BY <1>2, <1>3, <2>1 DEF SendUnsegmented
  <2>2. CASE CheckActiveResource(r) /\ ReceiveUnsegmented(r)
    <3>1. served' = Nothing /\ UNCHANGED sending
      BY <1>3, <2>2 DEF SendUnsegmented, ReceiveUnsegmented
    <3> QED BY <2>2, <3>1, UnsegmentedGrows, Unserved
  <2> QED BY <1>3, <2>1, <2>2 DEF SendUnsegmented
<1>4. ASSUME NEW length \in traffic.small \cup traffic.large, Begin(r, length, 0),
             \/ CheckActiveResource(r) /\ ReceiveFirstSmall(r, length)
             \/ CheckActiveResource(r) /\ ReceiveFirstLarge(r, length)
             \/ Refuse(r)
      PROVE  Growing' /\ RequestWhole' /\ BlockWhole'
  <2>1. CASE Refuse(r)
    <3>1. \A x \in Resource \ {r} : sending'[x] = sending[x]
      BY <1>1, <1>4 DEF Begin
    <3> QED BY <1>2, <2>1, <3>1
  <2>2. CASE /\ CheckActiveResource(r)
             /\ ReceiveFirstSmall(r, length) \/ ReceiveFirstLarge(r, length)
    <3>1. served' = Nothing
      BY <2>2 DEF ReceiveFirstSmall, ReceiveFirstLarge
    <3> QED BY <1>4, <2>2, <3>1, FirstGrows, Unserved
  <2> QED BY <1>4, <2>1, <2>2
<1>5. CASE SendFirstSmall(r)
  BY <1>4, <1>5 DEF SendFirstSmall
<1>6. CASE SendFirstLarge(r)
  BY <1>4, <1>6 DEF SendFirstLarge
<1>7. CASE SendNext(r)
  <2> DEFINE k == sending[r].next
  <2>1. /\ \A x \in Resource \ {r} : sending'[x] = sending[x]
        /\ sending'[r] = [next |-> k + 1, last |-> sending[r].last, lost |-> 0]
    BY <1>1, <1>7 DEF SendNext
  <2>2. /\ k \in Nat /\ HasMore(r) /\ sending'[r].next = k + 1 /\ k >= k - 1 /\ k < k + 1
        /\ Further(sending[r], sending'[r])
    BY <1>1, <1>7, <2>1 DEF SendNext, HasMore, Further
  <2>3. CASE Refuse(r)
    BY <1>2, <2>1, <2>3
  <2>4. CASE ReceiveNext(r, k, FALSE)
    BY <2>1, <2>2, <2>4, NextGrows
  <2> QED BY <1>7, <2>3, <2>4 DEF SendNext
<1>8. CASE SendAgain(r)
  <2> DEFINE k == sending[r].next - 1
  <2>1. sending' = sending /\ k \in Nat /\ k >= k /\ k < sending[r].next
    BY <1>1, <1>8 DEF SendAgain
  <2>2. CASE Refuse(r)
    BY <1>2, <2>1, <2>2
  <2>3. CASE ReceiveNext(r, k, TRUE)
    BY <2>1, <2>3, NextGrows DEF Further
  <2> QED BY <1>8, <2>2, <2>3 DEF SendAgain
<1> QED BY <1>3, <1>5, <1>6, <1>7, <1>8 DEF Frame

LEMMA WholeStarts == Init => WholeInv
<1> SUFFICES ASSUME Init PROVE WholeInv
  OBVIOUS
<1>1. TrafficTypes
  BY HeldStarts
<1>2. CountTypes /\ mode = "invalid" /\ served.kind = "none"
  BY DEF Init, CountTypes, Nothing
<1> QED BY <1>1, <1>2 DEF WholeInv, Growing, Begun, RequestGrows, BlockGrows, RequestWhole, BlockWhole

LEMMA WholeKept == TrafficTypes' /\ WholeInv /\ [Next]_vars => WholeInv'
<1> SUFFICES ASSUME TrafficTypes', WholeInv, [Next]_vars
             PROVE  Growing' /\ RequestWhole' /\ BlockWhole'
  BY DEF WholeInv
<1>0. TrafficTypes /\ Growing
  BY DEF WholeInv
<1>1. CASE Tick
  <2>1. served' = Nothing
    BY <1>1 DEF Tick
  <2> QED BY <1>0, <1>1, <2>1, TickGrows, Unserved
<1>2. ASSUME NEW r \in Resource, Frame(r)
      PROVE  Growing' /\ RequestWhole' /\ BlockWhole'
  BY <1>0, <1>2, FrameGrows
<1>3. ASSUME NEW r \in Resource, LoseFirst(r)
      PROVE  Growing' /\ RequestWhole' /\ BlockWhole'
  <2>1. Miss(r, "first lost") /\ served' = Nothing
    BY <1>3 DEF LoseFirst, Miss
  <2>2. \A x \in Resource \ {r} : sending'[x] = sending[x]
    BY <1>0, <1>3 DEF LoseFirst, Begin, TrafficTypes
  <2> QED BY <1>0, <2>1, <2>2, MissGrows, Unserved DEF Event
<1>4. ASSUME NEW r \in Resource, LoseNext(r)
      PROVE  Growing' /\ RequestWhole' /\ BlockWhole'
  <2>1. Miss(r, "disturbed") /\ served' = Nothing
    BY <1>4 DEF LoseNext, Miss
  <2>2. /\ \A x \in Resource \ {r} : sending'[x] = sending[x]
        /\ sending'[r].last = sending[r].last /\ sending'[r].next = sending[r].next + 1
    BY <1>0, <1>4 DEF LoseNext, TrafficTypes
  <2>3. Further(sending[r], sending'[r])
    BY <1>0, <1>4, <2>2, SendingTypes DEF LoseNext, HasMore, Further
  <2> QED BY <1>0, <2>1, <2>2, <2>3, MissGrows, Unserved DEF Event
<1>5. CASE UNCHANGED vars
  BY <1>0, <1>5
     DEF vars, buffers, WholeInv, Growing, CountTypes, Begun, RequestGrows, BlockGrows,
         RequestWhole, BlockWhole
<1> QED BY <1>1, <1>2, <1>3, <1>4, <1>5 DEF Next

(* A segmented request is handed over when it is complete, its parts in    *)
(* order and all from one tester, when nothing went wrong in between       *)
(* (UDSNL.c:118-140): the count of bytes that ends it, kept in a byte,     *)
(* never runs past the buffer, and no frame is appended twice or missed.   *)
THEOREM RequestsWhole == Spec => []RequestWhole
<1>1. WholeInv => RequestWhole
  BY DEF WholeInv
<1>2. Init => TrafficTypes /\ HeldByOne /\ WholeInv
  BY HeldStarts, WholeStarts
<1>3. TrafficTypes /\ HeldByOne /\ WholeInv /\ [Next]_vars
        => (TrafficTypes /\ HeldByOne /\ WholeInv)'
  BY HeldKept, WholeKept
<1> QED BY <1>1, <1>2, <1>3, PTL DEF Spec

(* A downloaded block is handed over whole even when frames of it were     *)
(* lost or repeated and others came in between, as long as the channel     *)
(* stayed the tester's and the block was not begun again unheard           *)
(* (UDSNL.c:142-180): as the frames it takes are each later than the last  *)
(* and it ends after as many as it has, none of them is another.           *)
THEOREM BlocksWhole == Spec => []BlockWhole
<1>1. WholeInv => BlockWhole
  BY DEF WholeInv
<1>2. Init => TrafficTypes /\ HeldByOne /\ WholeInv
  BY HeldStarts, WholeStarts
<1>3. TrafficTypes /\ HeldByOne /\ WholeInv /\ [Next]_vars
        => (TrafficTypes /\ HeldByOne /\ WholeInv)'
  BY HeldKept, WholeKept
<1> QED BY <1>1, <1>2, <1>3, PTL DEF Spec
=============================================================================
