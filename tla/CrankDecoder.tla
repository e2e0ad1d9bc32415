---------------------------- MODULE CrankDecoder ----------------------------
(***************************************************************************)
(* The crank and cam decoder, UserServices/CEM.c: CEM_vPrimaryEventCB for  *)
(* wheels with one group of missing teeth (CEM_enOneGroupMissing and       *)
(* CEM_enToyota2NFE), CEM_vSequenceReset, CEM_vRun, and the missing-tooth  *)
(* timer of TEPM.c and TEPMHA.c.  The wheel, the two sensors and the speed *)
(* of the engine are external.                                             *)
(*                                                                         *)
(* Angles are the 16-bit fractions of a revolution that the calibration    *)
(* uses.  Times are in ticks, of which a tooth takes one of the few        *)
(* numbers the calibration allows, so that the engine may speed up and     *)
(* slow down from edge to edge.                                            *)
(***************************************************************************)
EXTENDS Integers, Sequences, FiniteSets

CONSTANT Calibrations  \* the wheels, each with the disturbances it meets

VARIABLES
    cal,       \* the calibration the client set at its start
    pos,       \* external: the last edge of the wheel that passed the sensor
    half,      \* external: the revolution of the engine cycle, 0 or 1
    into,      \* external: ticks since that edge
    since,     \* ticks since CEM_tEventTimeLast
    edgeCount, \* CEM_u32EdgeCount, up to the number of edges
    counter,   \* CEM_u32CrankEdgeCounter
    prev,      \* the last entry of au32InputArray
    smallest,  \* CEM_u32SmallestToothTime
    tooth,     \* CEM_u32ToothEdgeCounter
    cycle,     \* CEM_u32CycleToothEdgeCounter
    fraction,  \* CEM_u32GlobalCycleFraction
    origins,   \* CEM_u32GlobalCycleOriginCount, see CountOrigin
    running,   \* CEM_u32CamRunningErrorCounts
    late,      \* boLatePhase
    sequence,  \* u32SequenceIDX
    timer,     \* the missing-tooth timer: ticks to its match, gap, repeats
    held,      \* the timer has matched and its handler is held up
    started,   \* the sequence this step started, or -1
    ran,       \* the teeth this step ran the tooth-scheduled outputs for
    clean,     \* edges since the last disturbance of the crank signal
    calm,      \* revolutions since the last disturbance of either sensor
    restarted, \* no disturbance since the decoder was started or restarted
    budget     \* the disturbances still to come

wheelVars == <<pos, half, into>>
decoderVars == <<edgeCount, counter, prev, smallest, tooth, cycle, fraction, origins, running, late, sequence>>
vars == <<cal, wheelVars, since, decoderVars, timer, held, started, ran, clean, calm, restarted, budget>>

-----------------------------------------------------------------------------
(* The calibration: the table of edges and what CEM_boPopulateCrankEdge-   *)
(* Arrays makes of it.                                                     *)

Revolution == 256 * 256 \* 0x10000

N(c) == Len(c.table)

\* The gap behind each edge, as a fraction of a revolution.
AllEdge(c) == [i \in 0 .. N(c) - 1 |->
                 IF i < N(c) - 1 THEN c.table[i + 2] - c.table[i + 1] ELSE Revolution - c.table[N(c)]]

\* The last edge whose gap is larger than the one before.
LastLarger(gap, n) == CHOOSE i \in 1 .. n - 1 : /\ gap[i] - gap[i - 1] > 1
                                                /\ \A j \in i + 1 .. n - 1 : gap[j] - gap[j - 1] <= 1

SimpleMissingSync(gap, n) == (LastLarger(gap, n) + 1) % n
MissingToothCountMax(gap, n) == (gap[LastLarger(gap, n)] + 10) \div gap[LastLarger(gap, n) - 1] - 1

\* What is read of the calibration at every edge, worked out once.
Wheel == [c \in Calibrations |->
            LET gap == AllEdge(c)
            IN  [n |-> N(c), gap |-> gap,
                 sync |-> SimpleMissingSync(gap, N(c)),
                 missing |-> MissingToothCountMax(gap, N(c)),
                 all |-> N(c) + MissingToothCountMax(gap, N(c))]]
wheel == Wheel[cal]

\* (0 - 1) % n in unsigned arithmetic of 32 bits, 0xffffffff being 0xffff * 0x10001.
MinusOneBy(n) == (((Revolution - 1) % n) * ((Revolution + 1) % n)) % n

\* The edge at which the cam is read.
SampleToothOf(c) == IF c.trigger = "Toyota2NFE" THEN 10 ELSE c.sampleTooth
SampleTooth == SampleToothOf(cal)

LongAgo == 1000 \* more ticks than any gap

\* Some calibration to write with: every edge is of the configured polarity, there is one group of missing
\* teeth, not in front of the first edge, and the speed changes less between two edges than a gap amounts to.
WellCalibrated(c) ==
    LET w == Wheel[c]
    IN  /\ c.trigger \in {"OneGroupMissing", "Toyota2NFE"} /\ c.phaseRepeats \in {1, 2}
        \* the edges of a revolution in their order, of which edge 0 is the origin
        /\ c.table \in Seq(0 .. Revolution - 1) /\ c.table[1] = 0
        /\ \A i, j \in 1 .. N(c) : i < j => c.table[i] < c.table[j]
        /\ c.speeds \subseteq Nat /\ IsFiniteSet(c.speeds) /\ c.speeds # {}
        /\ c.crankErrors \in Nat /\ c.camErrors \in Nat
        /\ Cardinality({i \in 1 .. w.n - 1 : w.gap[i] - w.gap[i - 1] > 1}) = 1
        /\ w.sync # 0
        /\ w.missing \in {1, 2}
        /\ \A p, q \in c.speeds : 2 * (w.missing + 1) * p > (w.missing + 2) * q
        /\ c.trigger = "Toyota2NFE" => w.missing = 2
        \* the cam is read in the course of a revolution
        /\ SampleToothOf(c) \in 1 .. w.n - 1
        \* four sync points, of which the first is edge 0; the others are edges too
        /\ Cardinality(c.syncPoints) = 3 /\ c.syncPoints \subseteq {c.table[i] : i \in 2 .. w.n}
        \* what stands for the gap in front of edge 0 is as good as as large
        /\ w.gap[MinusOneBy(w.n)] - w.gap[w.n - 1] \in {0, 1}
ASSUME CalibrationsAssumption == \A c \in Calibrations : WellCalibrated(c)

-----------------------------------------------------------------------------
(* The wheel.                                                              *)

TeethAfter(i) == IF i = wheel.sync - 1 THEN wheel.missing + 1 ELSE 1
ToothOf(i) == IF i < wheel.sync THEN i ELSE i + wheel.missing
NextPos == (pos + 1) % wheel.n
NextHalf == IF NextPos = 0 THEN (half + 1) % cal.phaseRepeats ELSE half

\* The ticks to the next edge at a speed.
Ahead(p) == p * TeethAfter(pos) - into

-----------------------------------------------------------------------------
(* Decoding.                                                               *)

\* The edge before; in front of edge 0 the code has the wrong one, see MinusOneBy.
EdgeBefore(i) == IF i = 0 THEN MinusOneBy(wheel.n) ELSE (i - 1) % wheel.n

\* CEM_u32GetMissingThreshold, and the fixed threshold of the other type of wheel.
MissingThreshold(gap) == IF cal.trigger = "OneGroupMissing" /\ wheel.missing = 1 THEN (3 * gap) \div 2 ELSE 2 * gap

\* The cycle's tooth after a gap: with a cam it keeps the revolution it is in.
CycleToothAfterGap(t) == IF cal.phaseRepeats = 2 /\ cycle \in {t, t + wheel.all} THEN cycle ELSE t

\* Of the number of origins the code asks whether it is more than 1, and its remainder by 8.
CountOrigin(n) == IF cal.phaseRepeats = 1 THEN (IF n < 2 THEN n + 1 ELSE 2)
                  ELSE IF n < 9 THEN n + 1 ELSE 2

Least(a, b) == IF a < b THEN a ELSE b

\* An engine cycle has eight sequences, and no output is given one beyond them.
NextSequence == Least(sequence + 1, 8)

\* CEM_vSequenceReset at the origin, of the fraction f and the cam's phase l: with the counters of errors it
\* decides which half of the engine cycle begins.
CamError(f, l) == f > Revolution + 1 /\ ~l
ErrorsAtOrigin(f, l) == IF CamError(f, l) THEN Least(running + 1, 5) ELSE running
SwapsPhase(f, l) == ErrorsAtOrigin(f, l) = 5 /\ origins % 8 = 0
KeepsPhase(f, l) == ErrorsAtOrigin(f, l) = 5 /\ origins % 8 # 0

\* a mutant: the cam is not asked
StartsFirstHalfBlind(f, l) == f >= Revolution

StartsFirstHalf(f, l) ==
    \/ SwapsPhase(f, l) /\ f < Revolution
    \/ KeepsPhase(f, l) /\ f >= Revolution
    \/ ErrorsAtOrigin(f, l) # 5 /\ f >= Revolution /\ l

\* a mutant: the first half does not begin with sequence 0
SequenceAtOriginOn(f, l) == NextSequence

SequenceAtOrigin(f, l) ==
    IF StartsFirstHalf(f, l) THEN 0
    ELSE IF ErrorsAtOrigin(f, l) = 5 THEN 4 ELSE NextSequence

RunningAfterOrigin(f, l) ==
    LET r == IF SwapsPhase(f, l) THEN 0 ELSE ErrorsAtOrigin(f, l)
    IN  IF (origins + 1) % 8 = 0 /\ r > 0 THEN r - 1 ELSE r

OriginReset(f, l) ==
    /\ origins' = CountOrigin(origins)
    /\ IF cal.phaseRepeats = 1
         THEN sequence' = 0 /\ fraction' = 0 /\ UNCHANGED running
         ELSE /\ sequence' = SequenceAtOrigin(f, l)
              /\ fraction' = IF StartsFirstHalf(f, l) THEN 0 ELSE Revolution
              /\ running' = RunningAfterOrigin(f, l)

SyncPointReset(f) ==
    /\ sequence' = NextSequence
    /\ fraction' = f
    /\ UNCHANGED <<origins, running>>

\* a mutant: the second revolution has no sync points
AtSyncPointFirst(f) == f \in cal.syncPoints

AtSyncPoint(f) == (IF cal.phaseRepeats = 1 THEN f ELSE f % Revolution) \in cal.syncPoints

\* a mutant: one origin is enough
StartSequenceEarly(seq, n) == started' = IF n > 0 THEN seq ELSE -1

\* TEPM_vStartEventProgramKernelQueues, if two origins have been seen.
StartSequence(seq, n) == started' = IF n > 1 THEN seq ELSE -1

\* CEM_vSequenceReset where the edge calls for it.
SequenceReset(here, f, l) ==
    \/ /\ here = 0
       /\ OriginReset(f, l)
       /\ StartSequence(sequence', origins')
    \/ /\ here # 0 /\ AtSyncPoint(f)
       /\ SyncPointReset(f)
       /\ StartSequence(sequence', origins)
    \/ /\ here # 0 /\ ~AtSyncPoint(f)
       /\ fraction' = f
       /\ started' = -1
       /\ UNCHANGED <<origins, running, sequence>>

-----------------------------------------------------------------------------
(* The missing-tooth timer, TEPMHA_u32SetNextMissingToothInterrupt.        *)

Off == [match |-> 0, gap |-> 0, repeats |-> 0]
\* a mutant: one match too many
ArmedTwice(g) == [match |-> g, gap |-> g, repeats |-> wheel.missing]

Armed(g) == [match |-> g, gap |-> g, repeats |-> wheel.missing - 1]

\* The match comes nearer as time passes; one that has passed comes no more.
Passed(t, d) == IF t.match > d THEN [t EXCEPT !.match = @ - d] ELSE [t EXCEPT !.match = 0]

\* The handler sets the next match a gap behind the last, which is o ticks ahead (or -o ticks ago), if one is to
\* come, and else stops the timer.  A match set in the past is lost.
Rearmed(o) == IF timer.repeats > 0 /\ o + timer.gap > 0
                THEN [timer EXCEPT !.match = o + timer.gap, !.repeats = @ - 1]
                ELSE [timer EXCEPT !.match = 0, !.repeats = 0]

\* TEPM_vMissingToothInterruptHandler: the outputs of the missing tooth, whose number it does not reduce.
MissingToothHandler(o) ==
    /\ timer' = Rearmed(o)
    /\ ran' = cycle
    /\ tooth' = tooth + 1
    /\ cycle' = cycle + 1
    /\ started' = -1
    /\ UNCHANGED <<cal, pos, half, edgeCount, counter, prev, smallest, fraction, origins, running, late, sequence>>

-----------------------------------------------------------------------------
(* The whole handler of an edge, d ticks after the last event.             *)


CEM_vRunToothSchedulingOnTooth(t, c) ==
    /\ ran' = c
    /\ tooth' = (t + 1) % wheel.all
    /\ cycle' = IF cal.phaseRepeats = 1 THEN (t + 1) % wheel.all ELSE (c + 1) % (2 * wheel.all)

\* a mutant: the threshold of one missing tooth is that of two
IsGapFixed(gap) == gap > 2 * prev

IsGap(gap) == gap > MissingThreshold(prev)
Here(gap) == IF IsGap(gap) THEN wheel.sync ELSE counter

Decode(gap, reading, d) ==
    LET isGap == IsGap(gap)
        here == Here(gap)
        toothHere == IF isGap THEN (wheel.sync + wheel.missing) % wheel.all ELSE tooth
        cycleHere == IF isGap THEN (IF cal.phaseRepeats = 1 THEN toothHere ELSE CycleToothAfterGap(toothHere))
                              ELSE cycle
        shortest == IF isGap THEN smallest ELSE gap
        lateHere == IF here = SampleTooth THEN reading ELSE late
    IN  /\ smallest' = shortest
        /\ late' = lateHere
        /\ SequenceReset(here, fraction + wheel.gap[EdgeBefore(counter)], lateHere)
        /\ counter' = (here + 1) % wheel.n
        /\ CEM_vRunToothSchedulingOnTooth(toothHere, cycleHere)
        /\ timer' = IF wheel.sync = (here + 1) % wheel.all THEN Armed(shortest) ELSE Passed(timer, d)

\* Until as many edges have come as the wheel has, only their gaps are kept.
CEM_vPrimaryEventCB(gap, reading, d) ==
    /\ edgeCount' = Least(edgeCount + 1, wheel.n)
    /\ prev' = gap
    /\ since' = 0
    /\ IF edgeCount' < wheel.n
         THEN /\ started' = -1 /\ ran' = -1
              /\ timer' = Passed(timer, d)
              /\ UNCHANGED <<counter, smallest, tooth, cycle, fraction, origins, running, late, sequence>>
         ELSE Decode(gap, reading, d)

-----------------------------------------------------------------------------
(* The engine.                                                             *)

Slowest(S) == CHOOSE p \in S : \A q \in S : p >= q

Init ==
    /\ cal \in Calibrations
    /\ pos \in 0 .. wheel.n - 1 /\ half \in 0 .. cal.phaseRepeats - 1 /\ into = 0
    /\ since \in {0, LongAgo}
    /\ edgeCount = 0 /\ counter = 255
    /\ prev = 0 /\ smallest = 0
    /\ tooth = 0 /\ cycle = 0
    /\ fraction = 0 /\ origins = 0 /\ running = 0 /\ late = FALSE /\ sequence = 0
    /\ timer = Off /\ held = -1
    /\ started = -1 /\ ran = -1
    /\ clean = 0 /\ calm = 0 /\ restarted = TRUE
    /\ budget = [crank |-> cal.crankErrors, cam |-> cal.camErrors]

\* How far back the history of disturbances is kept.
EdgesToLock == 2 * wheel.n
EdgesToSettle == 3 * wheel.n
RevolutionsToSync == 12
Clean == clean' = Least(clean + 1, EdgesToSettle)
Calm == calm' = IF pos' = 0 THEN Least(calm + 1, RevolutionsToSync) ELSE calm
Disturbed ==
    /\ budget.crank > 0
    /\ clean' = 0 /\ calm' = 0 /\ restarted' = FALSE
    /\ budget' = [budget EXCEPT !.crank = @ - 1]

\* Time passes up to the timer's match and no further, and a handler that is held up comes first.
TimerFirst(d) == held = -1 /\ (timer.match = 0 \/ d <= timer.match)

NextEdgePasses == pos' = NextPos /\ half' = NextHalf /\ into' = 0

\* The cam is read where the wheel shows the sample tooth, and shows the revolution, or is read wrongly.
Sampled(gap) == edgeCount >= wheel.n - 1 /\ Here(gap) = SampleTooth
RightReading == half' = 1

CrankEdge(p) ==
    /\ Ahead(p) >= 0 /\ TimerFirst(Ahead(p))
    /\ NextEdgePasses
    /\ CEM_vPrimaryEventCB(since + Ahead(p), RightReading, Ahead(p))
    /\ Clean /\ Calm
    /\ UNCHANGED <<cal, held, restarted, budget>>

CrankEdgeWrongCam(p) ==
    /\ budget.cam > 0
    /\ Ahead(p) >= 0 /\ TimerFirst(Ahead(p))
    /\ NextEdgePasses
    /\ Sampled(since + Ahead(p))
    /\ CEM_vPrimaryEventCB(since + Ahead(p), ~RightReading, Ahead(p))
    /\ Clean /\ calm' = 0
    /\ budget' = [budget EXCEPT !.cam = @ - 1]
    /\ UNCHANGED <<cal, held, restarted>>

\* An edge passes and is not captured.
LostEdge(p) ==
    /\ Disturbed
    /\ Ahead(p) >= 0 /\ TimerFirst(Ahead(p))
    /\ NextEdgePasses
    /\ since' = since + Ahead(p)
    /\ timer' = Passed(timer, Ahead(p))
    /\ started' = -1 /\ ran' = -1
    /\ UNCHANGED <<cal, decoderVars, held>>

\* An edge is captured between two of the wheel's.
FalseEdge(d) ==
    /\ Disturbed
    /\ d < Ahead(Slowest(cal.speeds)) /\ TimerFirst(d)
    /\ into' = into + d
    /\ CEM_vPrimaryEventCB(since + d, half = 1, d)
    /\ UNCHANGED <<cal, pos, half, held>>

\* An edge of the wrong polarity is counted, although nothing else is done with it.
RejectedEdge ==
    /\ Disturbed
    /\ edgeCount < wheel.n
    /\ edgeCount' = edgeCount + 1
    /\ started' = -1 /\ ran' = -1
    /\ UNCHANGED <<cal, wheelVars, since, counter, prev, smallest, tooth, cycle, fraction, origins, running, late,
                   sequence, timer, held>>

MissingTooth ==
    /\ timer.match > 0 /\ held = -1
    /\ timer.match <= Ahead(Slowest(cal.speeds))
    /\ into' = into + timer.match /\ since' = since + timer.match
    /\ MissingToothHandler(0)
    /\ UNCHANGED <<held, clean, calm, restarted, budget>>

\* The handler of the timer is held up by another of its level, or a system call, until the next edge has come.
HeldUp(p) ==
    /\ Disturbed
    /\ held = -1 /\ timer.match > 0 /\ timer.match < Ahead(p)
    /\ held' = Ahead(p) - timer.match
    /\ NextEdgePasses
    /\ CEM_vPrimaryEventCB(since + Ahead(p), RightReading, Ahead(p))
    /\ UNCHANGED <<cal>>

MissingToothLate ==
    /\ held >= 0
    /\ MissingToothHandler(IF timer.match > 0 THEN timer.match ELSE -held)
    /\ held' = -1
    /\ UNCHANGED <<into, since, clean, calm, restarted, budget>>

\* CEM_vRun more than ten times without an edge: the engine stands, and the next gap means nothing.
CEM_vRun ==
    /\ budget.crank > 0 /\ budget' = [budget EXCEPT !.crank = @ - 1]
    /\ clean' = 0 /\ calm' = 0 /\ restarted' = TRUE
    /\ timer.match = 0 /\ held = -1
    /\ edgeCount' = 0 /\ origins' = 0
    /\ since' \in {0, LongAgo} /\ into' = 0
    /\ started' = -1 /\ ran' = -1
    /\ UNCHANGED <<cal, pos, half, counter, prev, smallest, tooth, cycle, fraction, running, late, sequence, timer,
                   held>>

Edge == \E p \in cal.speeds : CrankEdge(p)

Next ==
    \/ Edge
    \/ \E p \in cal.speeds : CrankEdgeWrongCam(p)
    \/ \E p \in cal.speeds : LostEdge(p)
    \/ \E d \in 1 .. Slowest(cal.speeds) * (wheel.missing + 1) - 1 : FalseEdge(d)
    \/ RejectedEdge
    \/ MissingTooth
    \/ \E p \in cal.speeds : HeldUp(p)
    \/ MissingToothLate
    \/ CEM_vRun

Fairness == WF_vars(Edge) /\ WF_vars(MissingTooth) /\ WF_vars(MissingToothLate)
Spec == Init /\ [][Next]_vars /\ Fairness

-----------------------------------------------------------------------------
\* The edge counter stands where the wheel does.
InStep == counter = NextPos

\* Whatever has been lost, invented or counted wrongly, and wherever the engine was restarted: after twice the
\* edges of the wheel without a disturbance the edge counter is in step with the wheel (CEM.c:789).
Locked == clean >= EdgesToLock => InStep

\* ... and once twelve revolutions have passed in which the cam was read rightly, the angle is the engine's, the
\* right revolution of the cycle included (CEM.c:1069-1119): three to be in step for a revolution, up to eight
\* until the errors counted before are forgotten, and one more for the count of the sequences to begin anew.
Angle == half * Revolution + cal.table[pos + 1]
InPhase == clean >= EdgesToLock /\ calm >= RevolutionsToSync
PhaseRight == (InPhase /\ into = 0) => fraction = Angle

\* ... and the sequence started at a sync point is the one of that quarter and revolution (CEM.c:1049-1119).
Quarter == Cardinality({s \in cal.syncPoints : s <= cal.table[pos + 1]})
SequencesInPlace == (InPhase /\ started # -1) => started = 4 * half + Quarter

\* After a start, or a stop of the engine that cost the decoder its count of edges, no sequence is started before
\* the edge counter is in step, although it is never checked: two origins are enough (CEM.c:1134).
StartsInStep == (restarted /\ started # -1) => InStep

\* The outputs scheduled to the tooth are run at their tooth: the timer has counted the missing ones exactly once
\* (TEPM.c:421, CEM.c:877-888).  That takes a revolution longer: a match that was set too far ahead while edges
\* were lost is only replaced in front of the next gap.
ToothRight == (clean >= EdgesToSettle /\ into = 0 /\ ran # -1) => ran % wheel.all = ToothOf(pos)

\* Disturbances come to an end, and each of the sequences of the engine cycle is started again and again.
Starts(q) == cal.phaseRepeats * 4 > q => started = q
SequencesGoOn == \A q \in 0 .. 7 : []<>Starts(q)
=============================================================================
