------------------------- MODULE WorkingPageProofs -------------------------
(***************************************************************************)
(* For every number of flash pages: the client never works with a torn     *)
(* page, nothing is saved twice, and the working page implements the store *)
(* of one calibration.  And for the outputs that are to end before it is   *)
(* saved: the first one's end is always ahead.                             *)
(***************************************************************************)
EXTENDS WorkingPage, OutputEvents, TLAPS

(* The inductive invariant: a checksum in flash was computed over a whole  *)
(* image, and over one only; while a save is under way the client has      *)
(* booted and the page in RAM is the one the checksum was computed over;   *)
(* and the pages already written are copies.                               *)
WholeChecksum ==
  /\ flashCrc \subseteq Image /\ (flashCrc # {} => fits)
  /\ \A i, j \in flashCrc : i = j
Booting ==
  /\ boot # "done" => since \leq MinRuns /\ save = "no"
  /\ boot = "setup" => ~page
  /\ boot = "load" => page = fits
  /\ page => fits
Saving ==
  /\ save # "no" => page /\ ramCrc = {ram}
  /\ save = "write" => \A p \in Page : p < next => flash[p] = ram[p]
SavedOff == ~rtos /\ save = "no" => since = 0
Inv == TypeOK /\ LoadsWhole /\ WholeChecksum /\ Booting /\ Saving /\ SavedOff

(* The parts of the invariant hold at power-up.                            *)
LEMMA InitInv == Init => Inv
<1> SUFFICES ASSUME Init PROVE Inv
  OBVIOUS
<1> USE WorkingPageAssumption DEF Init
<1>1. ram \in [Page -> Content] /\ flash \in [Page -> Content]
  BY DEF Content, Blank
<1>2. next \in Page /\ since \in 0..(MinRuns + 1)
  BY DEF Page
<1>3. TypeOK
  BY <1>1, <1>2 DEF TypeOK
<1>4. LoadsWhole /\ WholeChecksum /\ Booting /\ Saving /\ SavedOff
  BY DEF LoadsWhole, WholeChecksum, Booting, Saving, SavedOff
<1> QED
  BY <1>3, <1>4 DEF Inv

(* Every action keeps the invariant.                                       *)
LEMMA NextInv == Inv /\ [Next]_vars => Inv'
<1> SUFFICES ASSUME Inv, [Next]_vars PROVE Inv'
  OBVIOUS
<1> USE WorkingPageAssumption DEF Inv, TypeOK, LoadsWhole, WholeChecksum, Booting, Saving, SavedOff, power
<1>1. CASE SetWorkingData
  BY <1>1 DEF SetWorkingData, Thread
<1>2. CASE Load
  <2>1. ram' \in Image
    BY <1>2 DEF Load, ChecksumFits
  <2>2. ram' \in [Page -> Content]
    BY <2>1 DEF Image, Content
  <2> QED
    BY <1>2, <2>1, <2>2 DEF Load, Thread
<1>3. CASE Run
  BY <1>3 DEF Run, Thread
<1>4. CASE Change
  <2>1. PICK p \in Page, v \in Value : ram' = [ram EXCEPT ![p] = v]
    BY <1>4 DEF Change
  <2>2. ram' \in [Page -> Content]
    BY <2>1 DEF Content
  <2>3. boot = "done" => ram' \in Image
    BY <2>1 DEF Image
  <2> QED
    BY <1>4, <2>2, <2>3 DEF Change
<1>5. CASE BeginSave
  <2>1. boot = "done" /\ page
    BY <1>5 DEF BeginSave, MaySave
  <2>2. Booting'
    BY <1>5, <2>1 DEF BeginSave
  <2>3. TypeOK' /\ LoadsWhole' /\ WholeChecksum'
    BY <1>5 DEF BeginSave
  <2>4. Saving' /\ SavedOff'
    BY <1>5, <2>1 DEF BeginSave
  <2> QED
    BY <2>2, <2>3, <2>4
<1>6. CASE EraseAll
  <2>1. flash' \in [Page -> Content] /\ 1 \in Page
    BY <1>6 DEF EraseAll, Content, Blank, Page
  <2>2. \A p \in Page : ~(p < 1)
    BY DEF Page
  <2> QED
    BY <1>6, <2>1, <2>2 DEF EraseAll
<1>7. CASE WritePage
  <2>1. boot = "done" /\ ram \in Image /\ ramCrc = {ram} /\ page
    BY <1>7 DEF WritePage
  <2>2. flash' \in [Page -> Content]
    BY <1>7 DEF WritePage
  <2>3. next' \in Page
    BY <1>7 DEF WritePage, Page
  <2>4. since' \in 0..(MinRuns + 1) /\ (next = NumPages => since' = 0)
    BY <1>7 DEF WritePage, SinceAfter
  <2>5. flashCrc' \subseteq Image /\ (flashCrc' # {} => fits')
        /\ \A i, j \in flashCrc' : i = j
    BY <1>7, <2>1 DEF WritePage
  <2>6. save' = "write" => \A p \in Page : p < next' => flash'[p] = ram'[p]
    BY <1>7 DEF WritePage, Page
  <2> QED
    BY <1>7, <2>1, <2>2, <2>3, <2>4, <2>5, <2>6 DEF WritePage
<1>8. CASE PowerLoss
  <2>1. PICK half \in HalfDone :
          /\ flash' = [p \in Page |-> IF p \in half THEN "torn" ELSE flash[p]]
          /\ flashCrc' = IF NumPages \in half THEN {} ELSE flashCrc
    BY <1>8 DEF PowerLoss
  <2>2. flash' \in [Page -> Content] /\ ram' \in [Page -> Content]
    BY <1>8, <2>1 DEF PowerLoss, PowerUp, Content, Blank
  <2>3. next' \in Page
    BY <1>8 DEF PowerLoss, PowerUp, Page
  <2>4. TypeOK'
    <3>1. page' \in BOOLEAN /\ rtos' \in BOOLEAN /\ fits' \in BOOLEAN
      BY <1>8, Zenon DEF PowerLoss, PowerUp
    <3>2. since' \in 0..(MinRuns + 1)
      BY <1>8 DEF PowerLoss, PowerUp
    <3>3. boot' = "setup" /\ save' = "no"
      BY <1>8, Zenon DEF PowerLoss, PowerUp
    <3> QED
      BY <2>2, <2>3, <3>1, <3>2, <3>3
  <2>5. WholeChecksum'
    <3>1. flashCrc' = {} \/ flashCrc' = flashCrc
      BY <2>1, Zenon
    <3>2. fits' = fits
      BY <1>8 DEF PowerLoss
    <3> QED
      BY <3>1, <3>2
  <2>6. Booting'
    <3>1. boot' = "setup" /\ ~page' /\ since' = 0 /\ save' = "no"
      BY <1>8, Zenon DEF PowerLoss, PowerUp
    <3> QED
      BY <3>1
  <2>7. LoadsWhole' /\ Saving' /\ SavedOff'
    BY <1>8 DEF PowerLoss, PowerUp
  <2> QED
    BY <2>4, <2>5, <2>6, <2>7
<1>9. CASE EraseRefused
  <2>1. 1 \in Page /\ \A p \in Page : ~(p < 1)
    BY DEF Page
  <2> QED
    BY <1>9, <2>1 DEF EraseRefused
<1>10. CASE WriteRefused
  <2>1. 1 \in Page /\ since' = 0
    BY <1>10 DEF WriteRefused, SinceAfter, Page
  <2>2. /\ UNCHANGED <<fits, boot, page, rtos, ram, ramCrc, flash, flashCrc>>
        /\ save' = "no" /\ next' = 1 /\ boot = "done"
    BY <1>10 DEF WriteRefused
  <2>3. TypeOK' /\ LoadsWhole' /\ WholeChecksum'
    BY <2>1, <2>2
  <2>4. Booting' /\ Saving' /\ SavedOff'
    BY <2>1, <2>2
  <2> QED
    BY <2>3, <2>4
<1>11. CASE UNCHANGED vars
  BY <1>11 DEF vars
<1> QED
  BY <1>1, <1>2, <1>3, <1>4, <1>5, <1>6, <1>7, <1>8, <1>9, <1>10, <1>11 DEF Next

(* The invariant of every behaviour.                                       *)
LEMMA Invariant == Spec => []Inv
  BY InitInv, NextInv, PTL DEF Spec

(* Type correctness.                                                       *)
THEOREM TypeCorrect == Spec => []TypeOK
  BY Invariant, PTL DEF Inv

(* The client never works with a torn or unwritten page.                   *)
THEOREM NeverTorn == Spec => []LoadsWhole
  BY Invariant, PTL DEF Inv

(* Nothing is saved a second time before power is lost.                    *)
THEOREM SavedOnce == Spec => SavesOnce
<1>1. Inv /\ [Next]_vars => [~rtos /\ save = "no" => (save' = "no" /\ flash' = flash)]_vars
  <2> SUFFICES ASSUME Inv, Next, ~rtos, save = "no"
               PROVE  save' = "no" /\ flash' = flash
    OBVIOUS
  <2> USE WorkingPageAssumption DEF Inv, TypeOK, SavedOff
  <2>1. CASE SetWorkingData \/ Load \/ Run \/ Change
    BY <2>1 DEF SetWorkingData, Load, Run, Change
  <2>2. CASE BeginSave
    BY <2>2 DEF BeginSave, MaySave
  <2>3. CASE EraseAll \/ EraseRefused \/ WritePage \/ WriteRefused
    BY <2>3 DEF EraseAll, EraseRefused, WritePage, WriteRefused
  <2>4. CASE PowerLoss
    <3>1. flash' = [p \in Page |-> flash[p]] /\ save' = "no"
      BY <2>4 DEF PowerLoss, PowerUp, HalfDone
    <3> QED
      BY <3>1
  <2> QED
    BY <2>1, <2>2, <2>3, <2>4 DEF Next
<1> QED
  BY <1>1, Invariant, PTL DEF Spec, SavesOnce

(* What power-up would bring back is the image of the checksum or none.    *)
LEMMA OneImage ==
  ASSUME NEW f, NEW crc, \A i, j \in crc : i = j
  PROVE  {f} \cap crc \in {crc, {}}
<1>1. CASE f \in crc
  BY <1>1
<1>2. CASE f \notin crc
  BY <1>2
<1> QED
  BY <1>1, <1>2

(* In the midst of a save a power loss leaves the checksum there was or    *)
(* none; at any other time it leaves the flash alone.                      *)
LEMMA PowerLossLoses ==
  ASSUME Inv, PowerLoss
  PROVE  /\ flashCrc' \in {flashCrc, {}}
         /\ save = "no" => flash' = flash /\ flashCrc' = flashCrc
<1> USE WorkingPageAssumption DEF Inv, TypeOK, WholeChecksum
<1>1. PICK half \in HalfDone :
        /\ flash' = [p \in Page |-> IF p \in half THEN "torn" ELSE flash[p]]
        /\ flashCrc' = IF NumPages \in half THEN {} ELSE flashCrc
  BY DEF PowerLoss
<1>2. half \subseteq Page /\ (save = "no" => half = {})
  BY DEF HalfDone
<1>3. CASE half = {}
  <2>1. flash' = [p \in Page |-> flash[p]] /\ flashCrc' = flashCrc
    BY <1>1, <1>3
  <2> QED
    BY <2>1
<1>4. CASE half # {}
  BY <1>1, <1>2, <1>4
<1> QED
  BY <1>3, <1>4

(* The working page implements the store of one calibration.               *)
THEOREM Implements == Spec => ImplementsStore
<1> USE WorkingPageAssumption
<1>1. Init => Store!Init
  BY DEF Init, Store!Init
<1>2. Inv /\ Inv' /\ [Next]_vars =>
        [Store!Next]_<<IF boot = "done" THEN {ram} ELSE {}, {flash} \cap flashCrc, flashCrc, save # "no">>
  <2> SUFFICES ASSUME Inv, Inv', [Next]_vars
               PROVE  [Store!Next]_<<IF boot = "done" THEN {ram} ELSE {}, {flash} \cap flashCrc, flashCrc, save # "no">>
    OBVIOUS
  <2> USE DEF Inv, TypeOK
  <2>1. CASE SetWorkingData
    BY <2>1 DEF SetWorkingData
  <2>2. CASE Load
    <3>1. Store!PowerUp
      BY <2>2 DEF Load, ChecksumFits, Store!PowerUp, Booting, WholeChecksum, Thread
    <3> QED
      BY <3>1 DEF Store!Next
  <2>3. CASE Run
    BY <2>3 DEF Run
  <2>4. CASE Change
    <3>1. CASE boot = "done"
      <4>1. Store!Change
        BY <2>4, <3>1 DEF Change, power, Store!Change, LoadsWhole
      <4> QED
        BY <4>1 DEF Store!Next
    <3>2. CASE boot # "done"
      BY <2>4, <3>2 DEF Change, power
    <3> QED
      BY <3>1, <3>2
  <2>5. CASE BeginSave
    <3>1. Store!Begin
      BY <2>5 DEF BeginSave, MaySave, Store!Begin, Booting
    <3> QED
      BY <3>1 DEF Store!Next
  <2>6. CASE EraseAll
    <3>1. Store!Overwrite
      BY <2>6 DEF EraseAll, power, Store!Overwrite, Store!Overwritten
    <3> QED
      BY <3>1 DEF Store!Next
  <2>7. CASE WritePage
    <3>1. CASE next = NumPages
      <4>1. flash' = ram /\ flashCrc' = {ram}
        <5>1. \A p \in Page : flash'[p] = ram[p]
          BY <2>7, <3>1 DEF WritePage, Saving, Page
        <5> QED
          BY <5>1, <2>7, <3>1 DEF WritePage, Saving
      <4>2. boot = "done"
        BY <2>7 DEF WritePage, Booting
      <4>3. Store!Finish
        BY <2>7, <3>1, <4>1, <4>2 DEF WritePage, Store!Finish
      <4> QED
        BY <4>3 DEF Store!Next
    <3>2. CASE next # NumPages
      <4>1. save = "write" /\ save' = "write" /\ UNCHANGED <<boot, ram, flashCrc>>
        BY <2>7, <3>2 DEF WritePage
      <4>2. {flash'} \cap flashCrc' \in {flashCrc', {}}
        BY OneImage DEF WholeChecksum
      <4>3. Store!Overwrite
        BY <4>1, <4>2 DEF Store!Overwrite, Store!Overwritten
      <4> QED
        BY <4>3 DEF Store!Next
    <3> QED
      BY <3>1, <3>2
  <2>8. CASE EraseRefused
    BY <2>8 DEF EraseRefused, power
  <2>9. CASE WriteRefused
    <3>1. Store!Fail
      BY <2>9 DEF WriteRefused, Store!Fail
    <3> QED
      BY <3>1 DEF Store!Next
  <2>10. CASE PowerLoss
    <3>1. boot' = "setup" /\ save' = "no"
      BY <2>10 DEF PowerLoss, PowerUp
    <3>2. {flash'} \cap flashCrc' \in {flashCrc', {}}
      BY OneImage DEF WholeChecksum
    <3>3. /\ flashCrc' \in {flashCrc, {}}
          /\ save = "no" => flash' = flash /\ flashCrc' = flashCrc
      BY <2>10, PowerLossLoses
    <3>4. Store!PowerLoss
      BY <3>1, <3>2, <3>3 DEF Store!PowerLoss, Store!Overwritten
    <3> QED
      BY <3>4 DEF Store!Next
  <2>11. CASE UNCHANGED vars
    BY <2>11 DEF vars, power
  <2> QED
    BY <2>1, <2>2, <2>3, <2>4, <2>5, <2>6, <2>7, <2>8, <2>9, <2>10, <2>11 DEF Next
<1> QED
  BY <1>1, <1>2, Invariant, PTL DEF Spec, ImplementsStore, Store!Spec

-----------------------------------------------------------------------------
(* The timed outputs, whatever kinds the two are of.  The queues and the   *)
(* timer as a record, and the types of the rest.                           *)
Timer == [head : [Channel -> 0..Tail], armed : [Channel -> {"none", "low", "high"}],
          output : [Channel -> {"low", "high"}], flag : [Channel -> BOOLEAN]]
OutputTypes ==
  /\ Now \in Timer
  /\ edge \in Edges /\ event \in 0..Tail
  /\ start \in [Channel -> {0, 2}] /\ start["A"] = 0
  /\ kind \in [Channel -> {"time", "tooth", "mixed"}]

(* The inductive invariant, for the first output on an engine that gives   *)
(* the outputs the time to end.  At the beginning of the queue it is low   *)
(* with nothing to come.  Behind the first event a compare is to come or   *)
(* has to be seen.  Behind the second that compare is the one that clears  *)
(* it, or it has just done so: the handler, which resets the queue at the  *)
(* next flag, cannot take the flag of the first event for that of the      *)
(* second.                                                                 *)
AtRest == output["A"] = "low" /\ armed["A"] = "none" /\ ~flag["A"]
ToBeSeen == armed["A"] = "none" /\ flag["A"]
Ending == armed["A"] = "low" \/ (ToBeSeen /\ output["A"] = "low")
EndByTime ==
  /\ head["A"] = 0 => AtRest
  /\ head["A"] = 1 => armed["A"] # "none" \/ ToBeSeen
  /\ head["A"] = 2 => Ending

(* An output whose second event has a tooth is behind the first from the   *)
(* first tooth on, stands at the end of its queue with nothing written     *)
(* once the handler has seen the first event, and ends from the second     *)
(* tooth on.                                                               *)
EndByTooth ==
  /\ head["A"] = 0 => edge \in {0, 3} /\ AtRest
  /\ head["A"] = 1 => edge \in {1, 2} /\ (armed["A"] = "high" \/ ToBeSeen)
  /\ head["A"] = 2 =>
       \/ edge \in {1, 2} /\ armed["A"] = "none" /\ ~flag["A"]
       \/ edge = 3 /\ Ending
EndInPlace == IF kind["A"] = "tooth" THEN EndByTooth ELSE EndByTime
OutputInv == orderly => OutputTypes /\ EndInPlace

(* The end is ahead wherever the invariant holds.                          *)
LEMMA EndInPlaceAhead == OutputInv => EndAheadIfOrderly
<1> SUFFICES ASSUME OutputInv, orderly PROVE EndAhead("A")
  BY DEF EndAheadIfOrderly
<1> USE DEF OutputInv, OutputTypes, Now, Timer, Channel, Tail, Edges
<1>1. head["A"] \in 0..2 /\ edge \in 0..3
  OBVIOUS
<1>2. CASE kind["A"] = "tooth"
  <2>1. Since("A", edge) = edge
    BY <1>1 DEF Since
  <2> QED
    BY <1>1, <1>2, <2>1 DEF EndInPlace, EndByTooth, EndAhead, AtRest, ToBeSeen, Ending
<1>3. CASE kind["A"] # "tooth"
  BY <1>1, <1>3 DEF EndInPlace, EndByTime, EndAhead, AtRest, ToBeSeen, Ending
<1> QED
  BY <1>2, <1>3

(* The parts of the invariant hold at the start.                           *)
LEMMA OutputInitInv == OutputInit => OutputInv
<1> SUFFICES ASSUME OutputInit PROVE OutputInv
  OBVIOUS
<1> USE KindsAssumption DEF OutputInit
<1>1. OutputTypes
  BY DEF OutputTypes, Now, Timer, Channel, Tail, Edges
<1>2. EndInPlace
  BY DEF EndInPlace, EndByTooth, EndByTime, AtRest, Channel
<1> QED
  BY <1>1, <1>2 DEF OutputInv

(* What the operations on a queue return is a timer, and they leave the    *)
(* other output alone, with its flag, if they have not to recover.         *)
Alone(s, r, c) ==
  /\ r \in Timer /\ r.output = s.output /\ r.flag = s.flag
  /\ \A x \in Channel \ {c} : r.head[x] = s.head[x] /\ r.armed[x] = s.armed[x]

LEMMA CapComAlone ==
  ASSUME NEW s \in Timer, NEW c \in Channel, NEW a \in {"none", "low", "high"}
  PROVE  /\ Alone(s, CapCom(s, c, a), c)
         /\ CapCom(s, c, a).head = s.head /\ CapCom(s, c, a).armed[c] = a
BY DEF CapCom, Alone, Timer

LEMMA RemoveItemAlone ==
  ASSUME NEW s \in Timer, NEW c \in Channel
  PROVE  /\ Alone(s, RemoveItem(s, c), c)
         /\ RemoveItem(s, c).armed = s.armed
         /\ RemoveItem(s, c).head[c] = IF s.head[c] # Tail THEN s.head[c] + 1 ELSE s.head[c]
<1>1. s.head \in [Channel -> 0..2]
  BY DEF Timer, Tail
<1>2. CASE s.head[c] = Tail
  BY <1>2 DEF RemoveItem, Alone
<1>3. CASE s.head[c] # Tail
  <2>1. s.head[c] + 1 \in 0..2
    BY <1>1, <1>3 DEF Tail
  <2>2. RemoveItem(s, c) = [s EXCEPT !.head[c] = s.head[c] + 1]
    BY <1>3 DEF RemoveItem
  <2> QED
    BY <1>1, <1>3, <2>1, <2>2 DEF Alone, Timer, Tail
<1> QED
  BY <1>2, <1>3

LEMMA AloneTwice ==
  ASSUME NEW s, NEW r, NEW t, NEW c \in Channel, Alone(s, r, c), Alone(r, t, c)
  PROVE  Alone(s, t, c)
BY DEF Alone

LEMMA AloneSame == ASSUME NEW s \in Timer, NEW c \in Channel PROVE Alone(s, s, c)
BY DEF Alone

LEMMA ActionType == ASSUME NEW i PROVE Action(i) \in {"low", "high"}
BY DEF Action

LEMMA WrittenAlone ==
  ASSUME NEW s \in Timer, NEW c \in Channel, NEW i
  PROVE  Alone(s, Written(s, c, i), c) /\ Written(s, c, i).head = s.head
BY CapComAlone, AloneSame, ActionType DEF Written

LEMMA RunEventAlone ==
  ASSUME NEW s \in Timer, NEW c \in Channel
  PROVE  Alone(s, RunEvent(s, c), c)
<1>1. CASE s.head[c] = Tail
  <2>1. RunEvent(s, c) = [s EXCEPT !.head[c] = 0]
    BY <1>1 DEF RunEvent
  <2> QED
    BY <2>1 DEF Alone, Timer, Tail
<1>2. CASE s.head[c] # Tail /\ s.head[c] = 0 /\ kind[c] # "time"
  BY <1>2, AloneSame DEF RunEvent
<1>3. CASE s.head[c] # Tail /\ ~(s.head[c] = 0 /\ kind[c] # "time")
  <2> DEFINE w == Written(s, c, s.head[c])
  <2>1. RunEvent(s, c) = RemoveItem(w, c)
    BY <1>3 DEF RunEvent
  <2>2. Alone(s, w, c)
    BY WrittenAlone
  <2>3. Alone(w, RemoveItem(w, c), c)
    BY <2>2, RemoveItemAlone DEF Alone
  <2> HIDE DEF w
  <2> QED
    BY <2>1, <2>2, <2>3, AloneTwice
<1> QED
  BY <1>1, <1>2, <1>3

(* The first step of an output at its origin or at its first tooth, the    *)
(* moving of its first event, and the crank edge as a whole.               *)
LEMMA StartedAlone ==
  ASSUME NEW s \in Timer, NEW c \in Channel, NEW ranOut, s.head[c] # Tail
  PROVE  Alone(s, Started(s, c, ranOut), c)
<1>1. Recover(s, c, ranOut) = s
  BY DEF Recover
<1>2. CASE s.head[c] = 0 /\ kind[c] = "time"
  <2> DEFINE r == CapCom(s, c, Action(0))
  <2>1. Started(s, c, ranOut) = RemoveItem(r, c)
    BY <1>1, <1>2 DEF Started
  <2>2. Alone(s, r, c)
    BY CapComAlone, ActionType
  <2>3. Alone(r, RemoveItem(r, c), c)
    BY <2>2, RemoveItemAlone DEF Alone
  <2> HIDE DEF r
  <2> QED
    BY <2>1, <2>2, <2>3, AloneTwice
<1>3. CASE ~(s.head[c] = 0 /\ kind[c] = "time")
  BY <1>1, <1>3, AloneSame DEF Started
<1> QED
  BY <1>2, <1>3

LEMMA FirstToothAlone ==
  ASSUME NEW s \in Timer, NEW c \in Channel, NEW ranOut, s.head[c] # Tail
  PROVE  Alone(s, FirstTooth(s, c, ranOut), c)
<1>1. Recover(s, c, ranOut) = s
  BY DEF Recover
<1>2. CASE s.head[c] = 0
  <2> DEFINE r == CapCom(s, c, "high")
  <2>1. FirstTooth(s, c, ranOut) = RemoveItem(r, c)
    BY <1>1, <1>2 DEF FirstTooth
  <2>2. Alone(s, r, c)
    BY CapComAlone
  <2>3. Alone(r, RemoveItem(r, c), c)
    BY <2>2, RemoveItemAlone DEF Alone
  <2> HIDE DEF r
  <2> QED
    BY <2>1, <2>2, <2>3, AloneTwice
<1>3. CASE s.head[c] # 0
  BY <1>1, <1>3, AloneSame DEF FirstTooth
<1> QED
  BY <1>2, <1>3

LEMMA SecondToothAlone ==
  ASSUME NEW s \in Timer, NEW c \in Channel
  PROVE  Alone(s, SecondTooth(s, c), c)
<1> DEFINE r == CapCom(s, c, "low")
<1>1. SecondTooth(s, c) = RemoveItem(r, c)
  BY DEF SecondTooth
<1>2. Alone(s, r, c)
  BY CapComAlone
<1>3. Alone(r, RemoveItem(r, c), c)
  BY <1>2, RemoveItemAlone DEF Alone
<1> HIDE DEF r
<1> QED
  BY <1>1, <1>2, <1>3, AloneTwice

LEMMA SynchronisedAlone ==
  ASSUME NEW s \in Timer, NEW c \in Channel, NEW late
  PROVE  Alone(s, Synchronised(s, c, late), c) /\ Synchronised(s, c, late).head = s.head
BY CapComAlone, AloneSame, ActionType DEF Synchronised

LEMMA AtEdgeAlone ==
  ASSUME NEW s \in Timer, NEW c \in Channel, NEW e \in Edges, NEW ranOut, NEW late,
         start \in [Channel -> {0, 2}], Starts(c, e) => s.head[c] # Tail
  PROVE  Alone(s, AtEdge(s, c, e, ranOut, late), c)
<1> DEFINE begun == IF e = start[c] THEN Started(s, c, ranOut) ELSE s
           moved == IF e \in {0, 2} THEN Synchronised(begun, c, late) ELSE begun
<1>1. Since(c, start[c]) = 0
  BY DEF Since
<1>2. Alone(s, begun, c)
  <2>1. CASE e = start[c]
    BY <1>1, <2>1, StartedAlone DEF Starts
  <2>2. CASE e # start[c]
    BY <2>2, AloneSame
  <2> QED
    BY <2>1, <2>2
<1>3. begun \in Timer
  BY <1>2 DEF Alone
<1>4. Alone(begun, moved, c) /\ moved.head = begun.head
  <2> HIDE DEF begun
  <2> QED
    BY <1>3, SynchronisedAlone, AloneSame
<1>5. moved \in Timer
  BY <1>4 DEF Alone
<1>6. Alone(s, moved, c)
  <2> HIDE DEF begun, moved
  <2> QED
    BY <1>2, <1>4, AloneTwice
<1>7. CASE kind[c] # "time" /\ Since(c, e) = 1
  <2>1. s.head[c] # Tail
    BY <1>7 DEF Starts
  <2>2. moved.head[c] # Tail
    BY <1>1, <1>4, <1>7, <2>1
  <2>3. AtEdge(s, c, e, ranOut, late) = FirstTooth(moved, c, ranOut)
    BY <1>7 DEF AtEdge
  <2> HIDE DEF begun, moved
  <2> QED
    BY <1>5, <1>6, <2>2, <2>3, FirstToothAlone, AloneTwice
<1>8. CASE ~(kind[c] # "time" /\ Since(c, e) = 1) /\ kind[c] = "tooth" /\ Since(c, e) = 3
  <2>1. AtEdge(s, c, e, ranOut, late) = SecondTooth(moved, c)
    BY <1>8 DEF AtEdge
  <2> HIDE DEF begun, moved
  <2> QED
    BY <1>5, <1>6, <2>1, SecondToothAlone, AloneTwice
<1>9. CASE ~(kind[c] # "time" /\ Since(c, e) = 1) /\ ~(kind[c] = "tooth" /\ Since(c, e) = 3)
  <2>1. AtEdge(s, c, e, ranOut, late) = moved
    BY <1>9 DEF AtEdge
  <2> QED
    BY <1>6, <2>1
<1> QED
  BY <1>7, <1>8, <1>9

(* What the crank edge does to the first output, which is back at the      *)
(* beginning of its queue where it is started.                             *)
FirstMoved(r, e) ==
  /\ kind["A"] = "time" =>
       IF e = 0 THEN r.head["A"] = 1 /\ r.armed["A"] # "none"
       ELSE /\ r.head["A"] = head["A"]
            /\ r.armed["A"] = armed["A"] \/ (head["A"] = 1 /\ r.armed["A"] # "none")
  /\ kind["A"] # "time" =>
       IF e = 1 THEN r.head["A"] = 1 /\ r.armed["A"] = "high"
       ELSE IF kind["A"] = "tooth" /\ e = 3
       THEN /\ r.head["A"] = IF head["A"] = Tail THEN Tail ELSE head["A"] + 1
            /\ r.armed["A"] = "low"
       ELSE r.head["A"] = head["A"] /\ r.armed["A"] = armed["A"]

LEMMA FirstAtEdge ==
  ASSUME OutputTypes, NEW e \in Edges, NEW ranOut, NEW late, e # 0 \/ ~late,
         Starts("A", e) => head["A"] = 0
  PROVE  FirstMoved(AtEdge(Now, "A", e, ranOut, late), e)
<1> DEFINE r == AtEdge(Now, "A", e, ranOut, late)
<1> DEFINE begun == IF e = start["A"] THEN Started(Now, "A", ranOut) ELSE Now
           moved == IF e \in {0, 2} THEN Synchronised(begun, "A", late) ELSE begun
<1>0. Now \in Timer /\ start["A"] = 0 /\ head["A"] \in 0..2 /\ "A" \in Channel
      /\ Now.head = head /\ Now.armed = armed
  BY DEF OutputTypes, Now, Timer, Channel, Tail
<1>1. Since("A", e) = e
  BY <1>0 DEF Since, Edges
<1> SUFFICES FirstMoved(r, e)
  OBVIOUS
<1> USE DEF FirstMoved
<1>2. CASE kind["A"] = "time"
  <2>1. r = moved
    BY <1>2 DEF AtEdge
  <2>2. CASE e = 0
    <3>1. head["A"] = 0
      BY <1>1, <1>2, <2>2 DEF Starts
    <3>2. Recover(Now, "A", ranOut) = Now
      BY <1>0, <3>1 DEF Recover, Tail
    <3> DEFINE t == CapCom(Now, "A", Action(0))
    <3>3. begun = RemoveItem(t, "A")
      BY <1>0, <1>2, <2>2, <3>1, <3>2 DEF Started
    <3>4. t \in Timer /\ t.head = head /\ t.armed["A"] # "none"
      <4>1. Action(0) \in {"low", "high"}
        BY ActionType
      <4> HIDE DEF Action
      <4>2. Alone(Now, t, "A") /\ t.head = Now.head /\ t.armed["A"] = Action(0)
        BY <1>0, <4>1, CapComAlone
      <4> QED
        BY <1>0, <4>1, <4>2 DEF Alone
    <3>5. begun \in Timer /\ begun.head["A"] = 1 /\ begun.armed["A"] # "none"
      <4> HIDE DEF begun, t
      <4> QED
        BY <1>0, <3>1, <3>3, <3>4, RemoveItemAlone DEF Alone, Tail
    <3>6. moved = Synchronised(begun, "A", late)
      BY <2>2
    <3> HIDE DEF begun, moved
    <3>7. moved.head = begun.head
      BY <1>0, <3>5, <3>6, SynchronisedAlone
    <3>8. CASE moved = CapCom(begun, "A", Action(0))
      BY <1>0, <1>2, <2>1, <2>2, <3>5, <3>7, <3>8, CapComAlone, ActionType
    <3>9. CASE moved = begun
      BY <1>2, <2>1, <2>2, <3>5, <3>7, <3>9
    <3> QED
      BY <3>6, <3>8, <3>9 DEF Synchronised
  <2>3. CASE e # 0
    <3>1. begun = Now
      BY <1>0, <2>3
    <3> HIDE DEF begun
    <3>2. CASE moved = Now
      BY <1>0, <1>2, <2>1, <2>3, <3>2
    <3>3. CASE moved = CapCom(Now, "A", Action(0)) /\ head["A"] \notin {0, Tail}
      <4>1. moved.head = head /\ moved.armed["A"] # "none"
        BY <1>0, <3>3, CapComAlone, ActionType
      <4>2. head["A"] = 1
        BY <1>0, <3>3 DEF Tail
      <4> QED
        BY <1>2, <2>1, <2>3, <4>1, <4>2
    <3> QED
      BY <1>0, <3>1, <3>2, <3>3 DEF Synchronised
  <2> QED
    BY <2>2, <2>3
<1>3. CASE kind["A"] # "time"
  <2>1. begun = Now
    <3>1. CASE e = 0
      <4>1. head["A"] = 0
        BY <1>1, <1>3, <3>1 DEF Starts
      <4>2. Recover(Now, "A", ranOut) = Now
        BY <1>0, <4>1 DEF Recover, Tail
      <4> QED
        BY <1>3, <4>2 DEF Started
    <3> QED
      BY <1>0, <3>1
  <2>2. moved = Now
    BY <1>3, <2>1 DEF Synchronised
  <2> HIDE DEF begun, moved
  <2>3. CASE e = 1
    <3>1. head["A"] = 0
      BY <1>1, <1>3, <2>3 DEF Starts
    <3>2. Recover(Now, "A", ranOut) = Now
      BY <1>0, <3>1 DEF Recover, Tail
    <3> DEFINE t == CapCom(Now, "A", "high")
    <3>3. r = RemoveItem(t, "A")
      BY <1>0, <1>1, <1>3, <2>2, <2>3, <3>1, <3>2 DEF AtEdge, FirstTooth, moved, begun
    <3>4. t \in Timer /\ t.head = head /\ t.armed["A"] = "high"
      BY <1>0, CapComAlone DEF Alone
    <3> HIDE DEF t
    <3>5. r.head["A"] = 1 /\ r.armed["A"] = "high"
      BY <1>0, <3>1, <3>3, <3>4, RemoveItemAlone DEF Tail
    <3> QED
      BY <1>3, <2>3, <3>5
  <2>4. CASE kind["A"] = "tooth" /\ e = 3
    <3> DEFINE t == CapCom(Now, "A", "low")
    <3>1. r = RemoveItem(t, "A")
      BY <1>1, <1>3, <2>2, <2>4 DEF AtEdge, SecondTooth, moved, begun
    <3>2. t \in Timer /\ t.head = head /\ t.armed["A"] = "low"
      BY <1>0, CapComAlone DEF Alone
    <3> HIDE DEF t
    <3>3. r.head["A"] = (IF head["A"] # Tail THEN head["A"] + 1 ELSE head["A"]) /\ r.armed["A"] = "low"
      BY <1>0, <3>1, <3>2, RemoveItemAlone
    <3> QED
      BY <1>3, <2>4, <3>3
  <2>5. CASE e # 1 /\ ~(kind["A"] = "tooth" /\ e = 3)
    <3>1. r = Now
      BY <1>1, <1>3, <2>2, <2>5 DEF AtEdge, moved, begun
    <3> QED
      BY <1>0, <1>3, <2>5, <3>1
  <2> QED
    BY <2>3, <2>4, <2>5
<1> QED
  BY <1>2, <1>3

(* The crank edge leaves the end of the first output in its place.         *)
LEMMA EdgeOutputInv == OutputInv /\ orderly /\ Edge => OutputInv'
<1> SUFFICES ASSUME OutputInv, orderly, Edge PROVE OutputInv'
  OBVIOUS
<1> DEFINE e == (edge + 1) % 4
<1>1. OutputTypes /\ EndInPlace /\ e \in Edges /\ edge' = e
      /\ UNCHANGED <<kind, start, orderly, event>>
  BY DEF OutputInv, OutputTypes, Edges, Edge, engine, isr
<1>2. edge \in 0..3 /\ start["A"] = 0 /\ start \in [Channel -> {0, 2}] /\ Now \in Timer
      /\ "A" \in Channel /\ "B" \in Channel /\ head["A"] \in 0..2 /\ Now.head = head
      /\ Now.armed = armed /\ Now.output = output /\ Now.flag = flag
      /\ kind["A"] \in {"time", "tooth", "mixed"}
  BY <1>1 DEF OutputTypes, Edges, Channel, Now, Timer, Tail
<1>3. InTime(e)
  BY DEF Edge
<1>4. PICK ranOut \in BOOLEAN, late \in SUBSET {c \in Channel : e # start[c]} :
        Become(AtEdge(AtEdge(Now, "A", e, ranOut, "A" \in late), "B", e, ranOut, "B" \in late))
  BY DEF Edge
<1> DEFINE s == AtEdge(Now, "A", e, ranOut, "A" \in late)
           r == AtEdge(s, "B", e, ranOut, "B" \in late)
<1>5. Become(r)
  BY <1>4
<1>6. Starts("A", e) => head["A"] = 0
  BY <1>3 DEF InTime
<1>7. Starts("B", e) => head["B"] # Tail
  BY <1>2, <1>3 DEF InTime
<1>8. e # 0 \/ ~("A" \in late)
  BY <1>2
<1>9. Alone(Now, s, "A")
  BY <1>1, <1>2, <1>6, AtEdgeAlone DEF Tail
<1>10. s \in Timer /\ s.head["B"] = head["B"]
  BY <1>2, <1>9 DEF Alone, Channel
<1>11. Alone(s, r, "B")
  <2> HIDE DEF e, s
  <2> QED
    BY <1>1, <1>2, <1>7, <1>10, AtEdgeAlone
<1>12. /\ r \in Timer /\ r.output = output /\ r.flag = flag
       /\ r.head["A"] = s.head["A"] /\ r.armed["A"] = s.armed["A"]
  BY <1>2, <1>9, <1>11 DEF Alone, Channel
<1>13. /\ head' = r.head /\ armed' = r.armed /\ output' = output /\ flag' = flag
  BY <1>5, <1>12 DEF Become
<1>14. OutputTypes'
  <2>1. Now' = r
    BY <1>5, <1>12 DEF Now, Become, Timer
  <2> HIDE DEF e, r
  <2> QED
    BY <1>1, <1>12, <2>1 DEF OutputTypes, Timer
<1>15. /\ FirstMoved(s, e)
       /\ head'["A"] = s.head["A"] /\ armed'["A"] = s.armed["A"]
  <2>1. FirstMoved(s, e)
    <3> HIDE DEF e
    <3> QED
      BY <1>1, <1>6, <1>8, FirstAtEdge
  <2> HIDE DEF e, r, s
  <2> QED
    BY <1>12, <1>13, <2>1
<1>16. e = IF edge = 3 THEN 0 ELSE edge + 1
  BY <1>2
<1> HIDE DEF e, r, s
<1>17. EndInPlace'
  <2>1. CASE kind["A"] = "tooth"
    <3>1. EndByTooth
      BY <1>1, <2>1 DEF EndInPlace
    <3>2. e \in {0, 1} => head["A"] = 0
      BY <1>2, <1>6, <1>16, <2>1 DEF Starts, Since
    <3>3. EndByTooth'
      BY <1>1, <1>2, <1>13, <1>15, <1>16, <2>1, <3>1, <3>2
      DEF FirstMoved, EndByTooth, AtRest, ToBeSeen, Ending, Tail
    <3> QED
      BY <1>1, <2>1, <3>3 DEF EndInPlace
  <2>2. CASE kind["A"] # "tooth"
    <3>1. EndByTime
      BY <1>1, <2>2 DEF EndInPlace
    <3>2. EndByTime'
      BY <1>1, <1>2, <1>13, <1>15, <2>2, <3>1
      DEF FirstMoved, EndByTime, AtRest, ToBeSeen, Ending, Tail
    <3> QED
      BY <1>1, <2>2, <3>2 DEF EndInPlace
  <2> QED
    BY <2>1, <2>2
<1> QED
  BY <1>14, <1>17 DEF OutputInv

(* The compare of the first output is seen later, that of the second does  *)
(* not touch it.                                                           *)
LEMMA CompareOutputInv == OutputInv /\ orderly /\ (\E c \in Channel : Compare(c)) => OutputInv'
<1> SUFFICES ASSUME OutputInv, orderly, NEW c \in Channel, Compare(c) PROVE OutputInv'
  OBVIOUS
<1>1. OutputTypes /\ EndInPlace
      /\ UNCHANGED <<kind, start, orderly, event, edge, head>>
  BY DEF OutputInv, Compare, engine, isr
<1>2. /\ head \in [Channel -> 0..2] /\ armed \in [Channel -> {"none", "low", "high"}]
      /\ output \in [Channel -> {"low", "high"}] /\ flag \in [Channel -> BOOLEAN]
  BY <1>1 DEF OutputTypes, Now, Timer, Tail
<1>3. /\ armed[c] # "none"
      /\ output' = [output EXCEPT ![c] = armed[c]]
      /\ armed' = [armed EXCEPT ![c] = "none"] /\ flag' = [flag EXCEPT ![c] = TRUE]
  BY DEF Compare
<1>4. Now' \in Timer
  BY <1>1, <1>2, <1>3 DEF Now, Timer, Tail
<1>5. OutputTypes'
  BY <1>1, <1>4 DEF OutputTypes
<1>6. EndInPlace'
  <2>1. CASE c = "A"
    BY <1>1, <1>2, <1>3, <2>1 DEF EndInPlace, EndByTooth, EndByTime, AtRest, ToBeSeen, Ending, Channel
  <2>2. CASE c # "A"
    BY <1>1, <1>2, <1>3, <2>2 DEF EndInPlace, EndByTooth, EndByTime, AtRest, ToBeSeen, Ending, Channel
  <2> QED
    BY <2>1, <2>2
<1> QED
  BY <1>5, <1>6 DEF OutputInv

(* The handler moves the queue of the first output on when its compare has *)
(* been seen.                                                              *)
LEMMA FirstOutputInv == OutputInv /\ orderly /\ HandleFirst => OutputInv'
<1> SUFFICES ASSUME OutputInv, orderly, HandleFirst PROVE OutputInv'
  OBVIOUS
<1>1. OutputTypes /\ EndInPlace
      /\ UNCHANGED <<kind, start, orderly, event, edge>>
  BY DEF OutputInv, HandleFirst, engine
<1>2. Now \in Timer /\ Unflagged \in Timer /\ "A" \in Channel /\ start["A"] = 0
      /\ edge \in 0..3 /\ head["A"] \in 0..2 /\ kind["A"] \in {"time", "tooth", "mixed"}
      /\ Unflagged.head = head /\ Unflagged.armed = armed /\ Unflagged.output = output
      /\ Unflagged.flag["A"] = FALSE
  BY <1>1 DEF OutputTypes, Now, Unflagged, Timer, Channel, Tail, Edges
<1>3. CASE "A" \in cached' /\ ~FalseAlarm("A")
  <2> DEFINE r == RunEvent(Unflagged, "A")
  <2>1. Become(r) /\ flag["A"] /\ armed["A"] = "none"
    BY <1>3 DEF HandleFirst, FalseAlarm
  <2>2. Alone(Unflagged, r, "A")
    BY <1>2, RunEventAlone
  <2>3. r \in Timer /\ output' = output /\ flag'["A"] = FALSE /\ head' = r.head /\ armed' = r.armed
    BY <1>2, <2>1, <2>2 DEF Alone, Become
  <2>4. Now' = r
    BY <2>1, <2>3 DEF Now, Become, Timer
  <2>5. OutputTypes'
    <3> HIDE DEF r
    <3> QED
      BY <1>1, <2>3, <2>4 DEF OutputTypes
  <2>6. CASE head["A"] = 0
    BY <1>1, <2>1, <2>6 DEF EndInPlace, EndByTooth, EndByTime, AtRest
  <2>7. CASE head["A"] = 1
    <3> DEFINE w == Written(Unflagged, "A", 1)
    <3>1. r = RemoveItem(w, "A")
      BY <1>2, <2>7 DEF RunEvent, Tail
    <3>2. w \in Timer /\ w.head = head
      BY <1>2, WrittenAlone DEF Alone
    <3>3. w.armed["A"] = IF kind["A"] # "tooth" \/ edge = 0 THEN "low" ELSE "none"
      <4>1. Action(1) = "low"
        BY DEF Action
      <4>2. AtOrigin("A") <=> edge = 0
        BY <1>2 DEF AtOrigin
      <4>3. w = IF kind["A"] # "tooth" \/ edge = 0 THEN CapCom(Unflagged, "A", "low") ELSE Unflagged
        BY <4>1, <4>2 DEF Written, Tail
      <4>4. CapCom(Unflagged, "A", "low").armed["A"] = "low"
        BY <1>2, CapComAlone
      <4> QED
        BY <1>2, <2>1, <4>3, <4>4
    <3> HIDE DEF w, r
    <3>4. head'["A"] = 2 /\ armed'["A"] = IF kind["A"] # "tooth" \/ edge = 0 THEN "low" ELSE "none"
      BY <1>2, <2>3, <2>7, <3>1, <3>2, <3>3, RemoveItemAlone DEF Tail
    <3>5. EndInPlace'
      BY <1>1, <2>3, <2>7, <3>4 DEF EndInPlace, EndByTooth, EndByTime, Ending
    <3> QED
      BY <2>5, <3>5 DEF OutputInv
  <2>8. CASE head["A"] = 2
    <3>1. r = [Unflagged EXCEPT !.head["A"] = 0]
      BY <1>2, <2>8 DEF RunEvent, Tail
    <3>2. r.head["A"] = 0 /\ r.armed = armed
      BY <1>2, <3>1 DEF Timer
    <3> HIDE DEF r
    <3>3. EndInPlace'
      BY <1>1, <2>1, <2>3, <2>8, <3>2
      DEF EndInPlace, EndByTooth, EndByTime, Ending, ToBeSeen, AtRest
    <3> QED
      BY <2>5, <3>3 DEF OutputInv
  <2> QED
    BY <1>2, <2>6, <2>7, <2>8
<1>4. CASE ~("A" \in cached' /\ ~FalseAlarm("A"))
  <2>1. Become(Unflagged)
    BY <1>4 DEF HandleFirst
  <2>2. flag["A"] => armed["A"] # "none"
    BY <1>2, <1>4 DEF HandleFirst, FalseAlarm
  <2>3. Now' = Unflagged
    <3>1. Unflagged = [Now EXCEPT !.flag = Unflagged.flag]
      BY <1>2 DEF Unflagged, Timer
    <3> QED
      BY <1>2, <2>1, <3>1 DEF Now, Become, Timer
  <2>4. OutputTypes'
    BY <1>1, <1>2, <2>3 DEF OutputTypes
  <2>5. head' = head /\ armed' = armed /\ output' = output /\ flag'["A"] = FALSE
    BY <1>2, <2>1 DEF Become
  <2>6. EndInPlace'
    BY <1>1, <2>2, <2>5 DEF EndInPlace, EndByTooth, EndByTime, AtRest, ToBeSeen, Ending
  <2> QED
    BY <2>4, <2>6 DEF OutputInv
<1> QED
  BY <1>3, <1>4

(* A step of the handler for the second output leaves the first alone.     *)
LEMMA AloneOutputInv ==
  ASSUME OutputInv, orderly, NEW r, Become(r), Alone(Now, r, "B"),
         event' \in 0..Tail, UNCHANGED <<engine, edge>>
  PROVE  OutputInv'
<1>1. OutputTypes /\ EndInPlace /\ UNCHANGED <<kind, start, orderly, edge>>
  BY DEF OutputInv, engine
<1>2. r \in Timer /\ r.output = output /\ r.flag = flag
      /\ r.head["A"] = head["A"] /\ r.armed["A"] = armed["A"]
  BY DEF Alone, Now, Channel
<1>3. Now' = r
  BY <1>2 DEF Now, Become, Timer
<1>4. OutputTypes'
  BY <1>1, <1>2, <1>3 DEF OutputTypes
<1>5. output' = output /\ flag' = flag /\ head'["A"] = head["A"] /\ armed'["A"] = armed["A"]
  BY <1>2 DEF Become
<1>6. EndInPlace'
  BY <1>1, <1>5 DEF EndInPlace, EndByTooth, EndByTime, AtRest, ToBeSeen, Ending
<1> QED
  BY <1>4, <1>6 DEF OutputInv

LEMMA HandlerOutputInv == OutputInv /\ orderly /\ Handler => OutputInv'
<1> SUFFICES ASSUME OutputInv, orderly, Handler PROVE OutputInv'
  OBVIOUS
<1>1. Now \in Timer /\ "B" \in Channel /\ event \in 0..Tail /\ head["B"] \in 0..Tail
  BY DEF OutputInv, OutputTypes, Now, Timer, Channel
<1>2. Alone(Now, Now, "B")
  BY <1>1, AloneSame
<1>3. CASE HandleSecond
  <2>1. UNCHANGED <<engine, edge, event>>
    BY <1>3 DEF HandleSecond, Second
  <2>2. CASE FalseAlarm("B")
    BY <1>1, <1>2, <1>3, <2>1, <2>2, AloneOutputInv DEF HandleSecond
  <2>3. CASE ~FalseAlarm("B")
    <3>1. Become(RunEvent(Now, "B"))
      BY <1>3, <2>3 DEF HandleSecond
    <3>2. Alone(Now, RunEvent(Now, "B"), "B")
      BY <1>1, RunEventAlone
    <3> QED
      BY <1>1, <2>1, <3>1, <3>2, AloneOutputInv
  <2> QED
    BY <2>2, <2>3
<1>4. CASE CheckSecond \/ TestSecond
  <2>1. Become(Now) /\ UNCHANGED <<engine, edge, event>>
    BY <1>4 DEF CheckSecond, TestSecond, Second
  <2> QED
    BY <1>1, <1>2, <2>1, AloneOutputInv
<1>5. CASE ReadSecond
  <2>1. Become(Now) /\ UNCHANGED <<engine, edge>> /\ event' = head["B"]
    BY <1>5 DEF ReadSecond, Second
  <2> QED
    BY <1>1, <1>2, <2>1, AloneOutputInv
<1>6. CASE WriteSecond
  <2>1. Become(Written(Now, "B", event)) /\ UNCHANGED <<engine, edge, event>>
    BY <1>6 DEF WriteSecond, Second
  <2>2. Alone(Now, Written(Now, "B", event), "B")
    BY <1>1, WrittenAlone
  <2> QED
    BY <1>1, <2>1, <2>2, AloneOutputInv
<1>7. CASE RemoveSecond
  <2>1. Become(RemoveItem(Now, "B")) /\ UNCHANGED <<engine, edge, event>>
    BY <1>7 DEF RemoveSecond, Second
  <2>2. Alone(Now, RemoveItem(Now, "B"), "B")
    BY <1>1, RemoveItemAlone
  <2> QED
    BY <1>1, <2>1, <2>2, AloneOutputInv
<1>8. CASE ResetSecond
  <2> DEFINE r == [Now EXCEPT !.head["B"] = 0]
  <2>1. Become(r) /\ UNCHANGED <<engine, edge, event>>
    BY <1>8 DEF ResetSecond, Second
  <2>2. Alone(Now, r, "B")
    BY <1>1 DEF Alone, Timer, Tail
  <2> HIDE DEF r
  <2> QED
    BY <1>1, <2>1, <2>2, AloneOutputInv
<1> QED
  BY <1>3, <1>4, <1>5, <1>6, <1>7, <1>8 DEF Handler

(* Every step keeps the invariant.                                         *)
LEMMA OutputNextInv == OutputInv /\ [OutputNext]_outputVars => OutputInv'
<1> SUFFICES ASSUME OutputInv, [OutputNext]_outputVars PROVE OutputInv'
  OBVIOUS
<1>1. CASE ~orderly
  <2>1. orderly' = orderly
    BY DEF OutputNext, Edge, Compare, HandleFirst, Handler, HandleSecond, CheckSecond,
           TestSecond, ReadSecond, WriteSecond, RemoveSecond, ResetSecond, Second,
           DisableSequences, engine, outputVars
  <2> QED
    BY <1>1, <2>1 DEF OutputInv
<1>2. CASE orderly /\ DisableSequences
  BY <1>2 DEF DisableSequences, engine, isr, OutputInv, OutputTypes, Now, EndInPlace,
              EndByTooth, EndByTime, AtRest, ToBeSeen, Ending
<1>3. CASE orderly /\ UNCHANGED outputVars
  BY <1>3 DEF outputVars, engine, isr, OutputInv, OutputTypes, Now, EndInPlace,
              EndByTooth, EndByTime, AtRest, ToBeSeen, Ending
<1> QED
  BY <1>1, <1>2, <1>3, EdgeOutputInv, CompareOutputInv, FirstOutputInv, HandlerOutputInv
  DEF OutputNext

(* On an engine that gives the outputs the time to end, the first output   *)
(* is never left high with nothing ahead that would switch it, whatever    *)
(* kinds the two outputs are of and whenever the sequences are disabled    *)
(* (TEPM_vRunEventProgramKernelQueue, TEPM_vInterruptHandler).             *)
THEOREM EndStaysAhead == OutputSpec => []EndAheadIfOrderly
<1>1. OutputSpec => []OutputInv
  BY OutputInitInv, OutputNextInv, PTL DEF OutputSpec
<1> QED
  BY <1>1, EndInPlaceAhead, PTL
=============================================================================
