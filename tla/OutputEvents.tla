---------------------------- MODULE OutputEvents ----------------------------
(***************************************************************************)
(* The timed outputs (UserServices/TEPM.c and TEPMHA.c): two outputs that  *)
(* share a timer, its status register and its interrupt.                   *)
(*                                                                         *)
(* An output has a fixed queue of two events, one that sets it and one     *)
(* that clears it.  The crank edge at the origin of its sequence starts    *)
(* the queue: the first event is written to the output's compare register. *)
(* When the counter gets there the hardware switches the output, sets the  *)
(* output's flag and interrupts, and TEPM_vInterruptHandler writes the     *)
(* next event, or resets the queue behind the last one.  The crank edge's  *)
(* interrupt preempts this handler (levels 3 and 15).                      *)
(*                                                                         *)
(* The handler enters a critical section, but the queue macro it runs for  *)
(* the first output leaves it: the first output is handled in one piece    *)
(* and the second step by step with interrupts enabled.                    *)
(***************************************************************************)
EXTENDS Integers

Channel == {"A", "B"}
Other(c) == IF c = "A" THEN "B" ELSE "A"
Tail == 2        \* u32Tail of every queue: an event that sets, one that clears
Edges == 0..3    \* the crank edges of a cycle, of which the even are origins

CONSTANT Kinds   \* the kinds the two channels may be of

ASSUME KindsAssumption == Kinds \subseteq [Channel -> {"time", "tooth", "mixed"}]

VARIABLES
  kind,     \* whether a channel's events are scheduled to teeth (boToothScheduled):
            \*   none ("time"), both ("tooth") or the first ("mixed")
  start,    \* the origin of each channel's sequence
  orderly,  \* the engine gives the outputs the time to end
  syncOn,   \* TEPM_aboSynchroniseEnable: the engine is below u32SyncRPMLimit
  edge,     \* the crank edge that came last
  disabled, \* TEPM_boDisableSequences
  head,     \* u32Head of each queue
  armed,    \* what a compare still to come does to the output
  output, flag, \* the output and its flag in the status register
  pc, cached, \* where TEPM_vInterruptHandler is, and its copy of the flags
  open,     \* interrupts are enabled while it handles the second channel
  event     \* the event it is about to write for the second channel

engine == <<kind, start, orderly, syncOn>>
isr == <<pc, cached, open, event>>
outputVars == <<engine, edge, disabled, head, armed, output, flag, isr>>

OutputInit ==
  /\ kind \in Kinds /\ orderly \in BOOLEAN /\ syncOn \in BOOLEAN
  /\ start \in {s \in [Channel -> {0, 2}] : s["A"] = 0}
  /\ edge = 3 /\ disabled = FALSE
  /\ head = [c \in Channel |-> 0] /\ armed = [c \in Channel |-> "none"]
  /\ output = [c \in Channel |-> "low"] /\ flag = [c \in Channel |-> FALSE]
  /\ pc = "idle" /\ cached = {} /\ open = FALSE /\ event = 0

-----------------------------------------------------------------------------
(* The queues and the timer as a record, for handlers of several steps.    *)
Now == [head |-> head, armed |-> armed, output |-> output, flag |-> flag]
Become(s) ==
  head' = s.head /\ armed' = s.armed /\ output' = s.output /\ flag' = s.flag

(* TEPMHA_vCapComAction.                                                   *)
CapCom(s, c, action) == [s EXCEPT !.armed[c] = action]

(* The action of an event, unless the sequences are disabled.              *)
\* a mutant: disabled sequences are not asked for
ActionAlways(i) == IF i = 0 THEN "high" ELSE "low"
Action(i) == IF i = 0 /\ ~disabled THEN "high" ELSE "low"

RemoveItem(s, c) == IF s.head[c] # Tail THEN [s EXCEPT !.head[c] = s.head[c] + 1] ELSE s
AtOrigin(c) == edge = start[c]

(* TEPMHA_vForceQueueTerminate: the output is cleared ten counts ahead and *)
(* waited for by reading the status register, which clears the flags of    *)
(* both channels.  For channel A the wait is bounded by a number of reads, *)
(* which may run out.                                                      *)
ForceTerminate(s, c, ranOut) ==
  [CapCom(s, c, IF c = "A" /\ ranOut THEN "low" ELSE "none") EXCEPT
    !.output[c] = IF c = "A" /\ ranOut THEN @ ELSE "low",
    !.flag = [x \in Channel |-> FALSE]]

(* A queue that was not run to its end is put back to its beginning.       *)
Recover(s, c, ranOut) ==
  IF s.head[c] = Tail THEN [ForceTerminate(s, c, ranOut) EXCEPT !.head[c] = 0] ELSE s

(* TEPM_vStartEventProgramKernelQueues, for a channel of the sequence.     *)
Started(s, c, ranOut) ==
  LET r == Recover(s, c, ranOut) IN
  IF r.head[c] = 0 /\ kind[c] = "time"
  THEN RemoveItem(CapCom(r, c, Action(0)), c) ELSE r

(* TEPM_vSynchroniseEventProgramKernelQueues: the first event is written   *)
(* again with the speed known now, unless its time is past.                *)
\* a mutant: the second event is moved as well
SynchronisedAll(s, c, late) ==
  IF s.head[c] \notin {0, Tail} \/ s.armed[c] = "low"
  THEN CapCom(s, c, Action(0)) ELSE s
Synchronised(s, c, late) ==
  IF s.head[c] \notin {0, Tail} /\ kind[c] = "time" /\ syncOn /\ ~late
  THEN CapCom(s, c, Action(0)) ELSE s

(* TEPM_vRunEventToothProgramKernelQueues, at the tooth of the first and   *)
(* at that of the second event; it does not ask for disabled sequences.    *)
FirstTooth(s, c, ranOut) ==
  LET r == Recover(s, c, ranOut) IN
  IF r.head[c] = 0 THEN RemoveItem(CapCom(r, c, "high"), c) ELSE r
SecondTooth(s, c) == RemoveItem(CapCom(s, c, "low"), c)

\* how far the cycle of a channel has come at an edge
Since(c, e) == (e - start[c]) % 4
AtEdge(s, c, e, ranOut, late) ==
  LET begun == IF e = start[c] THEN Started(s, c, ranOut) ELSE s
      moved == IF e \in {0, 2} THEN Synchronised(begun, c, late) ELSE begun IN
  IF kind[c] # "time" /\ Since(c, e) = 1 THEN FirstTooth(moved, c, ranOut)
  ELSE IF kind[c] = "tooth" /\ Since(c, e) = 3 THEN SecondTooth(moved, c)
  ELSE moved

(* On an engine that gives the outputs the time to end no edge that starts *)
(* a queue finds it at its end, to be recovered, and the first output's is *)
(* back at its beginning.                                                  *)
Starts(c, e) == Since(c, e) \in IF kind[c] = "time" THEN {0} ELSE {0, 1}
InTime(e) ==
  /\ \A c \in Channel : Starts(c, e) => head[c] # Tail
  /\ Starts("A", e) => head["A"] = 0

(* The crank edge's interrupt.  At a channel's own origin the first event  *)
(* is a full event time ahead and so not too late to be moved.             *)
Edge ==
  LET e == (edge + 1) % 4 IN
  /\ orderly => InTime(e)
  /\ edge' = e
  /\ \E ranOut \in BOOLEAN, late \in SUBSET {c \in Channel : e # start[c]} :
       LET s == AtEdge(Now, "A", e, ranOut, "A" \in late)
       IN Become(AtEdge(s, "B", e, ranOut, "B" \in late))
  /\ UNCHANGED <<engine, disabled, isr>>

(* The counter reaches a compare register.                                 *)
Compare(c) ==
  /\ armed[c] # "none"
  /\ output' = [output EXCEPT ![c] = armed[c]]
  /\ armed' = [armed EXCEPT ![c] = "none"] /\ flag' = [flag EXCEPT ![c] = TRUE]
  /\ UNCHANGED <<engine, edge, disabled, head, isr>>

-----------------------------------------------------------------------------
(* TEPM_vInterruptHandler at level 15.                                     *)

\* TEPMHA_boCheckFalseAlarm: the compare is still to come
FalseAlarm(c) == armed[c] # "none"

(* What TEPM_vRunEventProgramKernelQueue writes for event i.  A fraction of*)
(* the cycle counts from the origin and is not written at any other edge.  *)
(* Behind the tail is an empty item, without an action of its own.         *)
Written(s, c, i) ==
  IF i = Tail THEN IF disabled THEN CapCom(s, c, "low") ELSE s
  ELSE IF i = 1 /\ kind[c] # "tooth" THEN CapCom(s, c, "low")
  ELSE IF AtOrigin(c) THEN CapCom(s, c, Action(i))
  ELSE s

\* a mutant: the queue moves on without the next event being written
RunNoWrite(s, c) ==
  IF s.head[c] = Tail THEN [s EXCEPT !.head[c] = 0] ELSE RemoveItem(s, c)
RunEvent(s, c) ==
  IF s.head[c] = Tail THEN [s EXCEPT !.head[c] = 0]
  ELSE IF s.head[c] = 0 /\ kind[c] # "time" THEN s
  ELSE RemoveItem(Written(s, c, s.head[c]), c)

Unflagged == [Now EXCEPT !.flag = [c \in Channel |-> FALSE]]

(* The status register is read, which clears it, and channel A handled in  *)
(* the critical section.  Removing an item leaves the section, and so does *)
(* the user callback behind a reset, when there is one.                    *)
HandleFirst ==
  /\ pc = "idle" /\ \E c \in Channel : flag[c]
  /\ cached' = {c \in Channel : flag[c]}
  /\ IF "A" \in cached' /\ ~FalseAlarm("A")
     THEN /\ Become(RunEvent(Unflagged, "A"))
          /\ open' \in IF head["A"] = Tail THEN BOOLEAN ELSE {TRUE}
     ELSE Become(Unflagged) /\ open' = FALSE
  /\ pc' = IF "B" \in cached' THEN "second" ELSE "idle"
  /\ UNCHANGED <<engine, edge, disabled, event>>

Second(from, to) == pc = from /\ pc' = to /\ UNCHANGED <<engine, edge, disabled, cached, open>>

(* Channel B while interrupts are still disabled.                          *)
HandleSecond ==
  /\ ~open /\ Second("second", "idle")
  /\ Become(IF FalseAlarm("B") THEN Now ELSE RunEvent(Now, "B"))
  /\ UNCHANGED event

(* Channel B with interrupts enabled.                                      *)
CheckSecond ==
  /\ open /\ Second("second", IF FalseAlarm("B") THEN "idle" ELSE "test")
  /\ Become(Now) /\ UNCHANGED event
TestSecond ==
  /\ Second("test", IF head["B"] = Tail THEN "reset" ELSE "read")
  /\ Become(Now) /\ UNCHANGED event
ReadSecond ==
  /\ Second("read", IF head["B"] = 0 /\ kind["B"] # "time" THEN "idle" ELSE "write")
  /\ event' = head["B"]
  /\ Become(Now)
WriteSecond ==
  /\ Second("write", "remove")
  /\ Become(Written(Now, "B", event)) /\ UNCHANGED event
RemoveSecond ==
  /\ Second("remove", "idle")
  /\ Become(RemoveItem(Now, "B")) /\ UNCHANGED event
ResetSecond ==
  /\ Second("reset", "idle")
  /\ Become([Now EXCEPT !.head["B"] = 0]) /\ UNCHANGED event

Handler == HandleSecond \/ CheckSecond \/ TestSecond \/ ReadSecond \/ WriteSecond
             \/ RemoveSecond \/ ResetSecond

(* TEPM_vEnableSequences, called when the working page is saved.           *)
DisableSequences ==
  /\ ~disabled /\ disabled' = TRUE
  /\ UNCHANGED <<engine, edge, head, armed, output, flag, isr>>

OutputNext ==
  Edge \/ (\E c \in Channel : Compare(c)) \/ HandleFirst \/ Handler \/ DisableSequences

(* The crank turns, the counter counts, and the interrupt is served in the *)
(* long run before the next edge moves the compare again.                  *)
Served == HandleFirst /\ \A c \in cached' : ~FalseAlarm(c)
OutputFairness ==
  /\ WF_outputVars(Edge)
  /\ \A c \in Channel : WF_outputVars(Compare(c))
  /\ SF_outputVars(Served)
  /\ WF_outputVars(Handler)
OutputSpec == OutputInit /\ [][OutputNext]_outputVars /\ OutputFairness

-----------------------------------------------------------------------------
(* An output that is high will be switched: a compare is to come, or the   *)
(* handler has still to see the last one, or the tooth of the second event *)
(* is ahead.                                                               *)
EndAhead(c) ==
  output[c] = "high" =>
    \/ armed[c] # "none" \/ flag[c]
    \/ kind[c] = "tooth" /\ Since(c, edge) \in {1, 2}

(* On an engine that gives the outputs the time to end, the first output   *)
(* is never left high with nothing ahead that would switch it              *)
(* (TEPM_vRunEventProgramKernelQueue, TEPM_vInterruptHandler).             *)
EndAheadIfOrderly == orderly => EndAhead("A")

(* Once the sequences are disabled two outputs scheduled by time go low for*)
(* good, on an engine that gives them the time to end or turns slowly      *)
(* enough to be synchronised (TEPM_vEnableSequences, on which the saving of*)
(* the working page relies).                                               *)
TimedAndDisabled == disabled /\ (syncOn \/ orderly) /\ \A c \in Channel : kind[c] = "time"
AllLow == \A c \in Channel : output[c] = "low"
DisabledLow == TimedAndDisabled ~> []AllLow

(* On an engine that gives the outputs the time to end, the first output   *)
(* does not stay high (TEPM_vInterruptHandler: a coil is not left charging,*)
(* an injector not left open).                                             *)
HighA == orderly /\ output["A"] = "high"
OutputFalls == HighA ~> ~HighA
=============================================================================
