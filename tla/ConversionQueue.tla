-------------------------- MODULE ConversionQueue --------------------------
(***************************************************************************)
(* The triggered queues of analogue conversions (PERADC.c): a system call  *)
(* triggers a queue, the converter runs through its channels, and the      *)
(* interrupt at the end hands every result to the client it belongs to and *)
(* starts the next queue.  ADC_vRun frees a converter that hangs.          *)
(*                                                                         *)
(* A queue is a fixed list: its head is moved back to 0 to have it         *)
(* converted and ends at its tail when its results are read.  It is in     *)
(* "waiting" from the one to the other.  The cyclic queue stays out: what  *)
(* is put into it is removed at once, and nothing ever starts it.          *)
(***************************************************************************)
EXTENDS Naturals, FiniteSets

CONSTANTS
  Queues,   \* the triggered queues that have conversions, by number
  None,     \* no queue
  StuckMax  \* what u32ADCQueueStuckCount must exceed for a reset (5)

ASSUME ConversionAssumption ==
  /\ Queues \subseteq Nat \ {0} /\ IsFiniteSet(Queues)
  /\ None \notin Queues /\ StuckMax \in Nat

VARIABLES
  waiting,   \* the queues whose head is not at their tail
  busy,      \* ADCHA_aboModuleBusy[0]
  active,    \* ADC_astADCActiveQueue[0]
  stuck,     \* u32ADCQueueStuckCount
  converter, \* the queue whose channels the hardware is converting
  data,      \* the queue whose channels it converted last: its data registers are new
  pending,   \* the converter's interrupt has been latched
  early      \* a reset has hit a conversion under way and its effects last

conversionVars == <<waiting, busy, active, stuck, converter, data, pending, early>>

ConversionInit ==
  /\ waiting = {} /\ busy = FALSE /\ active = None /\ stuck = 0
  /\ converter = None /\ data = None /\ pending = FALSE /\ early = FALSE

First(q, queues) == \A p \in queues: q <= p

\* a mutant: the queue that has the converter is not remembered
RunUnremembered(queues, taken) ==
  \/ \E q \in queues:
       /\ First(q, queues) /\ ~taken
       /\ busy' = TRUE /\ converter' = q
       /\ active' = IF active = None THEN q ELSE active
  \/ /\ queues = {} \/ taken
     /\ busy' = taken /\ UNCHANGED <<active, converter>>

\* ADC_vRunConversionQueues with the queues that wait and the busy flag after
\* the caller's own changes: the first queue gets a free converter, which the
\* others then find busy.
RunConversionQueues(queues, taken) ==
  \/ \E q \in queues:
       /\ First(q, queues) /\ ~taken
       /\ busy' = TRUE /\ converter' = q /\ active' = q
  \/ /\ queues = {} \/ taken
     /\ busy' = taken /\ UNCHANGED <<active, converter>>

\* Tasks and threads run when no interrupt is pending and ADC_vRun is not at it.
AtTask == ~pending /\ stuck <= StuckMax

\* ADC_vTriggerQueue, from a task or thread by system call: refused while the
\* converter is busy.
Trigger(q) ==
  /\ AtTask /\ ~busy
  /\ waiting' = waiting \cup {q}
  /\ RunConversionQueues(waiting', busy)
  /\ UNCHANGED <<stuck, data, pending, early>>

\* The same when a conversion ends during the system call, which the
\* converter's interrupt cannot preempt: it is latched and finds the new queue.
TriggerLatched(q) ==
  /\ AtTask /\ ~busy /\ converter # None
  /\ data' = converter /\ pending' = TRUE
  /\ waiting' = waiting \cup {q}
  /\ RunConversionQueues(waiting', busy)
  /\ UNCHANGED <<stuck, early>>

\* The converter ends the last channel of the queue and raises its interrupt.
Converted(q) ==
  /\ converter = q
  /\ converter' = None /\ data' = q /\ pending' = TRUE
  /\ UNCHANGED <<waiting, busy, active, stuck, early>>

\* A fault: the converter never ends.
ConversionLost ==
  /\ converter # None
  /\ converter' = None
  /\ UNCHANGED <<waiting, busy, active, stuck, data, pending, early>>

\* ADC_vInterruptHandler: every result of the active queue is read, its head
\* comes to its tail, and the next queue that waits is started.
InterruptHandler ==
  /\ pending /\ pending' = FALSE
  /\ waiting' = waiting \ {active}
  /\ RunConversionQueues(waiting', FALSE)
  /\ early' = (early /\ converter' # None)
  /\ UNCHANGED <<stuck, data>>

\* ADC_vRun counts the queues that wait when it looks, over any number of runs ...
RunCount ==
  /\ AtTask
  /\ stuck' = stuck + Cardinality(waiting)
  /\ UNCHANGED <<waiting, busy, active, converter, data, pending, early>>

\* a mutant: only the count is reset
RunResetCount ==
  /\ ~pending /\ stuck > StuckMax
  /\ stuck' = 0
  /\ UNCHANGED <<waiting, busy, active, converter, data, pending, early>>

\* ... and frees the converter (ADCHA_vReset) when it has counted enough.  The
\* interrupt may come between the count and the reset.
RunReset ==
  /\ ~pending /\ stuck > StuckMax
  /\ stuck' = 0 /\ busy' = FALSE
  /\ early' = (early \/ converter # None)
  /\ UNCHANGED <<waiting, active, converter, data, pending>>

ConversionNext ==
  \/ \E q \in Queues: Trigger(q)
  \/ \E q \in Queues: TriggerLatched(q)
  \/ \E q \in Queues: Converted(q)
  \/ ConversionLost
  \/ InterruptHandler
  \/ RunCount
  \/ RunReset

\* The processor takes its interrupts.  The kernel runs ADC_vRun every 20 ms and
\* the clients trigger their queues turn by turn: an interrupt delays them, and no
\* more.  A queue that is started over and over is not lost every time.
Fairness ==
  /\ WF_conversionVars(InterruptHandler) /\ SF_conversionVars(RunCount) /\ SF_conversionVars(RunReset)
  /\ \A q \in Queues: SF_conversionVars(Trigger(q)) /\ SF_conversionVars(Converted(q))

ConversionSpec == ConversionInit /\ [][ConversionNext]_conversionVars /\ Fairness
-----------------------------------------------------------------------------
\* The interrupt takes the place and the client of a result from the queue that
\* is active when it runs, not from the converter.  They are those of the
\* conversion that ended, still waiting to be read, unless ADC_vRun has freed
\* the converter under a conversion that was doing well.
ResultsOwn == pending /\ ~early => active = data /\ active \in waiting

\* No queue waits for ever: whatever conversions are lost, whatever queues are
\* triggered meanwhile and whatever a reset too early mixes up, the interrupt
\* or the count of ADC_vRun brings it back to its tail.
EachServed == \A q \in Queues: q \in waiting ~> q \notin waiting
=============================================================================
