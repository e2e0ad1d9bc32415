------------------------- MODULE CrankDecoderProofs -------------------------
(***************************************************************************)
(* The decoder falls into step with the wheel, for every calibration,      *)
(* every speed it allows and any number of disturbances of either sensor.  *)
(*                                                                         *)
(* The inductive invariant, beside the types, counts from the last         *)
(* disturbance, as the code cannot.  Lock: a gap between two edges is      *)
(* measured whole and recognised (Measured), the first one behind which    *)
(* the wheel has turned once brings the edge counter into step (FallsIn),  *)
(* and after a start at most one origin is seen before (Starting).  Teeth: *)
(* the timer, armed in step, comes to its end within the gap (TimerRight), *)
(* and the teeth are right behind it (TeethRight).  Phase: in step from    *)
(* origin to origin the cam has been read at its edge and the angle is     *)
(* that of the edge in one of the two revolutions, which the decisions at  *)
(* the origins make the right one (Converges) and so the sequences.        *)
(***************************************************************************)
EXTENDS CrankDecoder, TLAPS, FiniteSetTheorems

EngineTypes ==
    /\ cal \in Calibrations
    /\ pos \in 0 .. wheel.n - 1 /\ half \in 0 .. cal.phaseRepeats - 1 /\ into \in Nat
    /\ held \in Int
    /\ clean \in 0 .. EdgesToSettle /\ calm \in 0 .. RevolutionsToSync
    /\ restarted \in BOOLEAN
    /\ budget \in [crank : Int, cam : Int]
DecoderTypes ==
    /\ since \in Nat
    /\ edgeCount \in 0 .. wheel.n /\ counter \in Nat
    /\ prev \in Nat /\ smallest \in Nat /\ tooth \in Nat /\ cycle \in Nat
    /\ fraction \in Nat /\ origins \in 0 .. 9 /\ running \in 0 .. 5 /\ late \in BOOLEAN
    /\ sequence \in 0 .. 8
    /\ timer \in [match : Nat, gap : Nat, repeats : Int]
    /\ started \in Int /\ ran \in Int
Types == EngineTypes /\ DecoderTypes

\* How many edges ago the wheel showed the gap.
Ago(i, s, n) == (i - s) % n
Behind(i) == Ago(i, wheel.sync, wheel.n)

\* With the disturbances an edge behind, the decoder's time is the wheel's and the timer is served; with two
\* edges, the last gap is a tooth's, or the gap itself.
Measured ==
    /\ clean >= 1 => held = -1 /\ since = into
    /\ Least(clean, wheel.n) <= edgeCount
    /\ clean >= 2 => \E q \in cal.speeds : prev = q \/ (pos = wheel.sync /\ prev = q * (wheel.missing + 1))

\* The first gap the decoder sees brings it into step.
FallsIn == clean > wheel.n + Behind(pos) => InStep

\* After a start it has seen one origin at the most before the first gap.
Starting ==
    /\ restarted => edgeCount = Least(clean, wheel.n)
    /\ restarted /\ clean < wheel.n => origins = 0
    /\ restarted /\ clean >= wheel.n /\ ~InStep =>
         /\ clean - wheel.n < Behind(pos)
         /\ origins <= 1
         /\ origins = 1 => counter \in 1 .. clean - wheel.n + 1
    /\ started # -1 => origins > 1

-----------------------------------------------------------------------------
(* The wheel.                                                              *)

GoodWheel(w, c) ==
    /\ w.n = Len(c.table) /\ w.n \in Nat /\ w.n >= 4
    /\ w.sync \in 1 .. w.n - 1
    /\ w.missing \in {1, 2} /\ w.all = w.n + w.missing
    /\ \A i \in 0 .. w.n - 2 : w.gap[i] = c.table[i + 2] - c.table[i + 1]
    /\ w.gap[w.n - 1] = Revolution - c.table[w.n]
    /\ MinusOneBy(w.n) \in 0 .. w.n - 1
    /\ w.gap[MinusOneBy(w.n)] - w.gap[w.n - 1] \in {0, 1}

LEMMA RevolutionIs == Revolution \in Nat /\ Revolution > 1
BY DEF Revolution

LEMMA Calibrated == ASSUME NEW c \in Calibrations PROVE WellCalibrated(c)
BY CalibrationsAssumption

\* Three sync points beside edge 0 are three edges more.
LEMMA FourEdges ==
    ASSUME NEW c \in Calibrations
    PROVE  N(c) \in Nat /\ N(c) >= 4
<1>1. c.table \in Seq(0 .. Revolution - 1) /\ Cardinality(c.syncPoints) = 3
      /\ c.syncPoints \subseteq {c.table[i] : i \in 2 .. Wheel[c].n}
  BY Calibrated DEF WellCalibrated
<1>2. Wheel[c].n = N(c)
  BY DEF Wheel
<1>3. N(c) \in Nat
  BY <1>1 DEF N
<1>4. ASSUME N(c) < 4 PROVE FALSE
  <2> DEFINE T == {c.table[2]} \cup {c.table[3]}
  <2>1. c.syncPoints \subseteq T
    BY <1>1, <1>2, <1>3, <1>4
  <2>2. IsFiniteSet({c.table[2]}) /\ Cardinality({c.table[2]}) = 1
    BY FS_Singleton
  <2>3. IsFiniteSet(T) /\ Cardinality(T) \in {1, 2}
    BY <2>2, FS_AddElement
  <2> HIDE DEF T
  <2>4. Cardinality(c.syncPoints) <= Cardinality(T)
    BY <2>1, <2>3, FS_Subset
  <2> QED BY <1>1, <2>3, <2>4
<1> QED BY <1>3, <1>4

LEMMA ElementOf == ASSUME NEW S, NEW t \in Seq(S), NEW i \in 1 .. Len(t) PROVE t[i] \in S
OBVIOUS

\* What the table of edges makes of the wheel.
LEMMA WheelIsGood ==
    ASSUME NEW c \in Calibrations
    PROVE  GoodWheel(Wheel[c], c)
<1> DEFINE w == Wheel[c]
           gap == AllEdge(c)
           L == {i \in 1 .. w.n - 1 : w.gap[i] - w.gap[i - 1] > 1}
<1>1. w.n = N(c) /\ w.gap = gap /\ w.sync = SimpleMissingSync(gap, N(c))
      /\ w.missing = MissingToothCountMax(gap, N(c)) /\ w.all = N(c) + MissingToothCountMax(gap, N(c))
  BY DEF Wheel
<1>2. N(c) \in Nat /\ N(c) >= 4
  BY FourEdges
<1>3. /\ c.table \in Seq(0 .. Revolution - 1)
      /\ Cardinality(L) = 1 /\ w.sync # 0 /\ w.missing \in {1, 2}
      /\ w.gap[MinusOneBy(w.n)] - w.gap[w.n - 1] \in {0, 1}
  BY Calibrated DEF WellCalibrated
<1>4. ASSUME NEW i \in 1 .. N(c) PROVE c.table[i] \in 0 .. Revolution - 1
  <2>1. c.table \in Seq(0 .. Revolution - 1)
    BY <1>3
  <2>2. i \in 1 .. Len(c.table)
    BY DEF N
  <2> QED BY <2>1, <2>2, ElementOf
<1>5. \A i \in 0 .. N(c) - 2 : gap[i] = c.table[i + 2] - c.table[i + 1]
  BY <1>2 DEF AllEdge
<1>6. gap[N(c) - 1] = Revolution - c.table[N(c)]
  BY <1>2 DEF AllEdge
<1>7. ASSUME NEW i \in 0 .. N(c) - 1 PROVE gap[i] \in Int
  <2>1. CASE i < N(c) - 1
    <3>1. gap[i] = c.table[i + 2] - c.table[i + 1] /\ i + 2 \in 1 .. N(c) /\ i + 1 \in 1 .. N(c)
      BY <2>1, <1>2, <1>5
    <3>2. c.table[i + 2] \in 0 .. Revolution - 1 /\ c.table[i + 1] \in 0 .. Revolution - 1
      BY <3>1, <1>4
    <3> QED BY <3>1, <3>2, RevolutionIs
  <2>2. CASE i = N(c) - 1
    <3>1. c.table[N(c)] \in 0 .. Revolution - 1
      BY <1>2, <1>4
    <3> QED BY <2>2, <3>1, <1>6, RevolutionIs
  <2> QED BY <2>1, <2>2, <1>2
<1>8. w.sync \in 1 .. w.n - 1
  <2>1. IsFiniteSet(L)
    <3>1. IsFiniteSet(1 .. w.n - 1)
      BY <1>1, <1>2, FS_Interval
    <3> QED BY <3>1, FS_Subset
  <2>2. PICK x : L = {x}
    BY <2>1, <1>3, FS_Singleton
  <2>3. x \in 1 .. N(c) - 1 /\ gap[x] - gap[x - 1] > 1
        /\ \A j \in 1 .. N(c) - 1 : j # x => ~(gap[j] - gap[j - 1] > 1)
    <3>1. x \in L /\ \A j \in L : j = x
      BY <2>2
    <3> QED BY <3>1, <1>1
  <2>4. \A j \in x + 1 .. N(c) - 1 : gap[j] - gap[j - 1] <= 1
    BY <2>3, <1>2, <1>7
  <2>5. LastLarger(gap, N(c)) \in 1 .. N(c) - 1
    <3> HIDE DEF gap
    <3> QED BY <2>3, <2>4 DEF LastLarger
  <2>6. \A x1 \in 1 .. N(c) - 1 : (x1 + 1) % N(c) \in 0 .. N(c) - 1
    BY <1>2
  <2>7. w.sync = (LastLarger(gap, N(c)) + 1) % N(c)
    BY <1>1 DEF SimpleMissingSync
  <2> HIDE DEF w, gap
  <2> QED BY <2>5, <2>6, <2>7, <1>1, <1>2, <1>3
<1>9. MinusOneBy(w.n) \in 0 .. w.n - 1
  BY <1>1, <1>2, RevolutionIs DEF MinusOneBy
<1> HIDE DEF w, gap
<1>10. w.n = Len(c.table)
  BY <1>1 DEF N
<1> QED BY <1>1, <1>2, <1>3, <1>5, <1>6, <1>8, <1>9, <1>10 DEF GoodWheel, w

LEMMA WheelNumbers ==
    ASSUME cal \in Calibrations
    PROVE  /\ wheel.n \in Nat /\ wheel.n >= 4 /\ wheel.sync \in 1 .. wheel.n - 1
           /\ wheel.missing \in {1, 2} /\ wheel.all = wheel.n + wheel.missing
           /\ EdgesToLock = 2 * wheel.n /\ EdgesToSettle = 3 * wheel.n
<1>1. GoodWheel(wheel, cal)
  BY WheelIsGood DEF wheel
<1> QED BY <1>1 DEF GoodWheel, EdgesToLock, EdgesToSettle

LEMMA SpeedFacts ==
    ASSUME cal \in Calibrations
    PROVE  /\ cal.speeds \subseteq Nat
           /\ \A p, q \in cal.speeds : 2 * (wheel.missing + 1) * p > (wheel.missing + 2) * q
           /\ cal.trigger \in {"OneGroupMissing", "Toyota2NFE"}
           /\ cal.trigger = "Toyota2NFE" => wheel.missing = 2
           /\ cal.phaseRepeats \in {1, 2}
BY Calibrated DEF WellCalibrated, wheel

LEMMA SameWheel == ASSUME cal' = cal PROVE wheel' = wheel
BY DEF wheel

\* Round a wheel of n edges.
LEMMA Round ==
    ASSUME NEW n \in Nat, n >= 2, NEW s \in 1 .. n - 1, NEW i \in 0 .. n - 1
    PROVE  /\ (i + 1) % n = IF i = n - 1 THEN 0 ELSE i + 1
           /\ Ago(i, s, n) = IF i >= s THEN i - s ELSE i - s + n
<1>1. i + 1 < n => (i + 1) % n = i + 1
  BY SMT
<1>2. n % n = 0
  BY SMT
<1>3. i >= s => (i - s) % n = i - s
  BY SMT
<1>4. i < s => (i - s) % n = i - s + n
  BY SMT
<1> QED BY <1>1, <1>2, <1>3, <1>4 DEF Ago

\* The wheel's next edge, and how far behind it the gap is then.
LEMMA Turning ==
    ASSUME cal \in Calibrations, pos \in 0 .. wheel.n - 1, NextEdgePasses, cal' = cal
    PROVE  /\ pos' \in 0 .. wheel.n - 1 /\ pos' = IF pos = wheel.n - 1 THEN 0 ELSE pos + 1
           /\ pos' = NextPos
           /\ Behind(pos) \in 0 .. wheel.n - 1
           /\ Behind(pos') = IF pos = wheel.sync - 1 THEN 0 ELSE Behind(pos) + 1
           /\ pos = wheel.sync - 1 => Behind(pos) = wheel.n - 1
           /\ Behind(pos)' = Behind(pos')
<1>1. wheel' = wheel
  BY SameWheel
<1>2. pos' = (pos + 1) % wheel.n /\ pos' = NextPos
  BY DEF NextEdgePasses, NextPos
<1>3. wheel.n \in Nat /\ wheel.n >= 4 /\ wheel.sync \in 1 .. wheel.n - 1
  BY WheelNumbers
<1>4. pos' = IF pos = wheel.n - 1 THEN 0 ELSE pos + 1
  <2>1. wheel.n - 1 \in Nat /\ wheel.n >= 2 /\ pos \in 0 .. wheel.n - 1
    BY <1>3
  <2>2. (pos + 1) % wheel.n = IF pos = wheel.n - 1 THEN 0 ELSE pos + 1
    BY <1>3, <2>1, Round
  <2> QED BY <1>2, <2>2
<1>5. pos' \in 0 .. wheel.n - 1
  BY <1>3, <1>4
<1>a. \A n \in Nat : n >= 2 => \A s \in 1 .. n - 1, i \in 0 .. n - 1 :
        Ago(i, s, n) = IF i >= s THEN i - s ELSE i - s + n
  BY Round
<1>6. Behind(pos) = IF pos >= wheel.sync THEN pos - wheel.sync ELSE pos - wheel.sync + wheel.n
  BY <1>3, <1>a DEF Behind
<1>7. Behind(pos') = IF pos' >= wheel.sync THEN pos' - wheel.sync ELSE pos' - wheel.sync + wheel.n
  BY <1>3, <1>5, <1>a DEF Behind
<1>8. Behind(pos)' = Behind(pos')
  BY <1>1 DEF Behind
<1> QED BY <1>2, <1>3, <1>4, <1>5, <1>6, <1>7, <1>8

-----------------------------------------------------------------------------
(* An edge of the wheel that is captured and handled in time.              *)

QuietEdge(p, r) ==
    /\ Ahead(p) >= 0 /\ TimerFirst(Ahead(p)) /\ NextEdgePasses
    /\ CEM_vPrimaryEventCB(since + Ahead(p), r, Ahead(p))
    /\ Clean
    /\ UNCHANGED <<cal, held, restarted>>

\* The edge counter at the edge, put right behind the gap.
HereInTime == IF pos = wheel.sync - 1 THEN wheel.sync ELSE counter
ToothInTime(t) == IF pos = wheel.sync - 1 THEN (wheel.sync + wheel.missing) % wheel.all ELSE t
CycleInTime == IF pos = wheel.sync - 1
                 THEN IF cal.phaseRepeats = 1 THEN ToothInTime(tooth) ELSE CycleToothAfterGap(ToothInTime(tooth))
                 ELSE cycle

LEMMA GapTimes ==
    ASSUME NEW p \in Nat, NEW q \in Nat
    PROVE  /\ 4 * p > 3 * q /\ 4 * q > 3 * p =>
                /\ p * 2 > (3 * q) \div 2
                /\ ~(p > (3 * q) \div 2) /\ ~(p > (3 * (q * 2)) \div 2)
           /\ 6 * p > 4 * q /\ 6 * q > 4 * p =>
                /\ p * 3 > 2 * q
                /\ ~(p > 2 * q) /\ ~(p > 2 * (q * 3))
BY SMT

\* The gap between two edges, measured whole, and only that one, is taken for the gap of the missing teeth.
LEMMA Recognises ==
    ASSUME Types, Measured, clean >= 2, NEW p \in cal.speeds
    PROVE  /\ since + Ahead(p) = p * TeethAfter(pos)
           /\ p * TeethAfter(pos) \in Nat
           /\ IsGap(p * TeethAfter(pos)) <=> pos = wheel.sync - 1
<1>1. since = into /\ into \in Nat /\ cal \in Calibrations
  BY DEF Types, EngineTypes, Measured
<1>2. PICK q \in cal.speeds : prev = q \/ (pos = wheel.sync /\ prev = q * (wheel.missing + 1))
  BY DEF Measured
<1>3. p \in Nat /\ q \in Nat /\ wheel.missing \in {1, 2} /\ wheel.sync \in Nat
  BY <1>1, SpeedFacts, WheelNumbers
<1>4. /\ 2 * (wheel.missing + 1) * p > (wheel.missing + 2) * q
      /\ 2 * (wheel.missing + 1) * q > (wheel.missing + 2) * p
  BY <1>1, SpeedFacts
<1>5. \/ wheel.missing = 1 /\ cal.trigger = "OneGroupMissing"
      \/ wheel.missing = 2
  BY <1>1, <1>3, SpeedFacts
<1>6. TeethAfter(pos) = IF pos = wheel.sync - 1 THEN wheel.missing + 1 ELSE 1
  BY DEF TeethAfter
<1>7. p * TeethAfter(pos) \in Nat /\ since + Ahead(p) = p * TeethAfter(pos)
  <2>1. p * TeethAfter(pos) \in Nat
    BY <1>3, <1>6
  <2> QED BY <2>1, <1>1 DEF Ahead
<1>8. CASE wheel.missing = 1 /\ cal.trigger = "OneGroupMissing"
  <2>1. 4 * p > 3 * q /\ 4 * q > 3 * p
    BY <1>3, <1>4, <1>8
  <2>2. IsGap(p * TeethAfter(pos)) <=> p * TeethAfter(pos) > (3 * prev) \div 2
    BY <1>8 DEF IsGap, MissingThreshold
  <2>3. p * 2 > (3 * q) \div 2 /\ ~(p > (3 * q) \div 2) /\ ~(p > (3 * (q * 2)) \div 2)
    BY <2>1, <1>3, GapTimes
  <2>4. CASE pos = wheel.sync - 1
    <3>1. prev = q /\ p * TeethAfter(pos) = p * 2
      BY <2>4, <1>2, <1>3, <1>6, <1>8
    <3> QED BY <2>2, <2>3, <2>4, <3>1, <1>3, <1>7
  <2>5. CASE pos # wheel.sync - 1
    <3>1. prev \in {q, q * 2} /\ p * TeethAfter(pos) = p
      BY <2>5, <1>2, <1>3, <1>6, <1>8
    <3> QED BY <2>2, <2>3, <2>5, <3>1, <1>3, <1>7
  <2> QED BY <2>4, <2>5
<1>9. CASE wheel.missing = 2
  <2>1. 6 * p > 4 * q /\ 6 * q > 4 * p
    BY <1>3, <1>4, <1>9
  <2>2. IsGap(p * TeethAfter(pos)) <=> p * TeethAfter(pos) > 2 * prev
    BY <1>9 DEF IsGap, MissingThreshold
  <2>3. p * 3 > 2 * q /\ ~(p > 2 * q) /\ ~(p > 2 * (q * 3))
    BY <2>1, <1>3, GapTimes
  <2>4. CASE pos = wheel.sync - 1
    <3>1. prev = q /\ p * TeethAfter(pos) = p * 3
      BY <2>4, <1>2, <1>3, <1>6, <1>9
    <3> QED BY <2>2, <2>3, <2>4, <3>1, <1>3, <1>7
  <2>5. CASE pos # wheel.sync - 1
    <3>1. prev \in {q, q * 3} /\ p * TeethAfter(pos) = p
      BY <2>5, <1>2, <1>3, <1>6, <1>9
    <3> QED BY <2>2, <2>3, <2>5, <3>1, <1>3, <1>7
  <2> QED BY <2>4, <2>5
<1> QED BY <1>5, <1>7, <1>8, <1>9

\* What an edge does once as many have come as the wheel has.
LEMMA Decodes ==
    ASSUME Types, Measured, NEW p \in cal.speeds, NEW r \in BOOLEAN, QuietEdge(p, r), clean >= wheel.n - 1
    PROVE  /\ edgeCount' = wheel.n
           /\ counter' = (HereInTime + 1) % wheel.n
           /\ late' = IF HereInTime = SampleTooth THEN r ELSE late
           /\ SequenceReset(HereInTime, fraction + wheel.gap[EdgeBefore(counter)], late')
           /\ CEM_vRunToothSchedulingOnTooth(ToothInTime(tooth), CycleInTime)
           /\ timer' = IF wheel.sync = (HereInTime + 1) % wheel.all
                         THEN Armed(IF pos = wheel.sync - 1 THEN smallest ELSE p) ELSE Passed(timer, Ahead(p))
<1> DEFINE gap == p * TeethAfter(pos)
<1>1. /\ wheel.n \in Nat /\ wheel.n >= 4 /\ clean \in Nat /\ edgeCount \in 0 .. wheel.n
      /\ Least(clean, wheel.n) <= edgeCount /\ p \in Nat
  <2>1. cal \in Calibrations
    BY DEF Types, EngineTypes
  <2> QED BY <2>1, WheelNumbers, SpeedFacts DEF Types, EngineTypes, DecoderTypes, Measured
<1>2. clean >= 2 /\ Least(edgeCount + 1, wheel.n) = wheel.n
  BY <1>1 DEF Least
<1>3. since + Ahead(p) = gap /\ (IsGap(gap) <=> pos = wheel.sync - 1)
  BY <1>2, Recognises
<1>4. CEM_vPrimaryEventCB(gap, r, Ahead(p))
  BY <1>3 DEF QuietEdge
<1>5. edgeCount' = wheel.n /\ Decode(gap, r, Ahead(p))
  BY <1>1, <1>2, <1>4 DEF CEM_vPrimaryEventCB
<1>6. pos # wheel.sync - 1 => gap = p
  BY <1>1 DEF TeethAfter
<1> HIDE DEF gap
<1>7. Here(gap) = HereInTime
  BY <1>3 DEF Here, HereInTime
<1>8. counter' = (HereInTime + 1) % wheel.n /\ late' = IF HereInTime = SampleTooth THEN r ELSE late
  BY <1>5, <1>7 DEF Decode
<1>9. SequenceReset(HereInTime, fraction + wheel.gap[EdgeBefore(counter)], late')
  <2>1. SequenceReset(HereInTime, fraction + wheel.gap[EdgeBefore(counter)],
                      IF HereInTime = SampleTooth THEN r ELSE late)
    BY <1>5, <1>7 DEF Decode
  <2> QED BY <2>1, <1>8
<1>10. CEM_vRunToothSchedulingOnTooth(ToothInTime(tooth), CycleInTime)
  BY <1>3, <1>5 DEF Decode, ToothInTime, CycleInTime
<1>11. timer' = IF wheel.sync = (HereInTime + 1) % wheel.all
                  THEN Armed(IF pos = wheel.sync - 1 THEN smallest ELSE p) ELSE Passed(timer, Ahead(p))
  BY <1>3, <1>5, <1>6, <1>7 DEF Decode
<1> QED BY <1>5, <1>8, <1>9, <1>10, <1>11

-----------------------------------------------------------------------------
(* Types.                                                                  *)

LEMMA Remainder == ASSUME NEW m \in Int, NEW n \in Nat, n > 0 PROVE m % n \in 0 .. n - 1
BY SMT

LEMMA GapsAreNumbers ==
    ASSUME cal \in Calibrations
    PROVE  /\ \A i \in 0 .. wheel.n - 1 : wheel.gap[i] \in Nat
           /\ \A i \in Nat : EdgeBefore(i) \in 0 .. wheel.n - 1
<1>1. /\ cal.table \in Seq(0 .. Revolution - 1)
      /\ \A i, j \in 1 .. Len(cal.table) : i < j => cal.table[i] < cal.table[j]
  BY Calibrated DEF WellCalibrated, N
<1>2. /\ wheel.n = Len(cal.table) /\ wheel.n \in Nat /\ wheel.n >= 4
      /\ \A i \in 0 .. wheel.n - 2 : wheel.gap[i] = cal.table[i + 2] - cal.table[i + 1]
      /\ wheel.gap[wheel.n - 1] = Revolution - cal.table[wheel.n]
      /\ MinusOneBy(wheel.n) \in 0 .. wheel.n - 1
  BY WheelIsGood DEF GoodWheel, wheel
<1>3. ASSUME NEW i \in 1 .. wheel.n PROVE cal.table[i] \in 0 .. Revolution - 1
  BY <1>1, <1>2, ElementOf
<1>4. ASSUME NEW i \in 0 .. wheel.n - 1 PROVE wheel.gap[i] \in Nat
  <2>1. CASE i < wheel.n - 1
    <3>1. i + 1 \in 1 .. wheel.n /\ i + 2 \in 1 .. wheel.n /\ i + 1 < i + 2 /\ i \in 0 .. wheel.n - 2
      BY <2>1, <1>2
    <3>2. cal.table[i + 1] < cal.table[i + 2]
      BY <3>1, <1>1, <1>2
    <3>3. cal.table[i + 1] \in Nat /\ cal.table[i + 2] \in Nat
      BY <3>1, <1>3, RevolutionIs
    <3>4. wheel.gap[i] = cal.table[i + 2] - cal.table[i + 1]
      BY <3>1, <1>2
    <3> QED BY <3>2, <3>3, <3>4
  <2>2. CASE i = wheel.n - 1
    <3>1. cal.table[wheel.n] \in 0 .. Revolution - 1
      BY <1>2, <1>3
    <3> QED BY <2>2, <3>1, <1>2, RevolutionIs
  <2> QED BY <2>1, <2>2, <1>2
<1>5. ASSUME NEW i \in Nat PROVE EdgeBefore(i) \in 0 .. wheel.n - 1
  <2>1. \A m \in Nat : m % wheel.n \in 0 .. wheel.n - 1
    <3>1. wheel.n \in Nat /\ wheel.n > 0
      BY <1>2
    <3> HIDE <1>2
    <3> QED BY <3>1, Remainder
  <2>2. i # 0 => i - 1 \in Nat
    OBVIOUS
  <2> QED BY <2>1, <2>2, <1>2 DEF EdgeBefore
<1> QED BY <1>4, <1>5

LEMMA SequenceTypes ==
    ASSUME Types, NEW here \in Nat, NEW f \in Nat, NEW l \in BOOLEAN, SequenceReset(here, f, l)
    PROVE  fraction' \in Nat /\ origins' \in 0 .. 9 /\ running' \in 0 .. 5 /\ sequence' \in 0 .. 8 /\ started' \in Int
<1>1. origins \in 0 .. 9 /\ running \in 0 .. 5 /\ sequence \in 0 .. 8
  BY DEF Types, DecoderTypes
<1>2. NextSequence \in 0 .. 8 /\ CountOrigin(origins) \in 0 .. 9
  BY <1>1 DEF NextSequence, Least, CountOrigin
<1>3. ErrorsAtOrigin(f, l) \in 0 .. 5
  BY <1>1 DEF ErrorsAtOrigin, Least
<1>4. SequenceAtOrigin(f, l) \in 0 .. 8 /\ RunningAfterOrigin(f, l) \in 0 .. 5
  BY <1>2, <1>3 DEF SequenceAtOrigin, RunningAfterOrigin
<1>5. CASE here = 0
  BY <1>1, <1>2, <1>4, <1>5, RevolutionIs DEF SequenceReset, OriginReset, StartSequence
<1>6. CASE here # 0
  BY <1>1, <1>2, <1>6 DEF SequenceReset, SyncPointReset, StartSequence
<1> QED BY <1>5, <1>6

LEMMA TimerSet ==
    ASSUME NEW t \in [match : Nat, gap : Nat, repeats : Int], NEW m \in Nat, NEW k \in Int
    PROVE  [t EXCEPT !.match = m, !.repeats = k] \in [match : Nat, gap : Nat, repeats : Int]
OBVIOUS

LEMMA TimerTypes ==
    ASSUME Types
    PROVE  /\ \A d \in Nat : Passed(timer, d) \in [match : Nat, gap : Nat, repeats : Int]
           /\ \A g \in Nat : Armed(g) \in [match : Nat, gap : Nat, repeats : Int]
           /\ \A o \in Int : Rearmed(o) \in [match : Nat, gap : Nat, repeats : Int]
<1>1. timer \in [match : Nat, gap : Nat, repeats : Int] /\ wheel.missing \in {1, 2}
  BY WheelNumbers DEF Types, EngineTypes, DecoderTypes
<1>2. ASSUME NEW d \in Nat PROVE Passed(timer, d) \in [match : Nat, gap : Nat, repeats : Int]
  BY <1>1 DEF Passed
<1>3. ASSUME NEW g \in Nat PROVE Armed(g) \in [match : Nat, gap : Nat, repeats : Int]
  BY <1>1 DEF Armed
<1>4. ASSUME NEW o \in Int PROVE Rearmed(o) \in [match : Nat, gap : Nat, repeats : Int]
  <2>1. CASE timer.repeats > 0 /\ o + timer.gap > 0
    <3>1. o + timer.gap \in Nat /\ timer.repeats - 1 \in Int
      BY <2>1, <1>1
    <3>2. Rearmed(o) = [timer EXCEPT !.match = o + timer.gap, !.repeats = timer.repeats - 1]
      BY <2>1, <1>1 DEF Rearmed
    <3> QED BY <3>1, <3>2, <1>1, TimerSet
  <2>2. CASE ~(timer.repeats > 0 /\ o + timer.gap > 0)
    <3>1. Rearmed(o) = [timer EXCEPT !.match = 0, !.repeats = 0]
      BY <2>2 DEF Rearmed
    <3>2. 0 \in Nat /\ 0 \in Int /\ timer \in [match : Nat, gap : Nat, repeats : Int]
      BY <1>1
    <3>3. [timer EXCEPT !.match = 0, !.repeats = 0] \in [match : Nat, gap : Nat, repeats : Int]
      BY <3>2, TimerSet
    <3> QED BY <3>1, <3>3
  <2> QED BY <2>1, <2>2
<1> QED BY <1>2, <1>3, <1>4

LEMMA EventTypes ==
    ASSUME Types, cal' = cal, NEW gap \in Nat, NEW r \in BOOLEAN, NEW d \in Nat, CEM_vPrimaryEventCB(gap, r, d)
    PROVE  DecoderTypes'
<1>1. wheel' = wheel
  BY SameWheel
<1>2. /\ wheel.n \in Nat /\ wheel.n >= 4 /\ wheel.sync \in 1 .. wheel.n - 1
      /\ wheel.missing \in {1, 2} /\ wheel.all = wheel.n + wheel.missing
      /\ \A i \in 0 .. wheel.n - 1 : wheel.gap[i] \in Nat
      /\ \A i \in Nat : EdgeBefore(i) \in 0 .. wheel.n - 1
  BY WheelNumbers, GapsAreNumbers DEF Types, EngineTypes
<1>3. edgeCount' \in 0 .. wheel.n /\ prev' \in Nat /\ since' \in Nat
  BY <1>2 DEF CEM_vPrimaryEventCB, Least, Types, DecoderTypes
<1>4. CASE edgeCount' < wheel.n
  <2>1. /\ started' = -1 /\ ran' = -1 /\ timer' = Passed(timer, d)
        /\ UNCHANGED <<counter, smallest, tooth, cycle, fraction, origins, running, late, sequence>>
    BY <1>4 DEF CEM_vPrimaryEventCB
  <2> QED BY <2>1, <1>1, <1>3, TimerTypes DEF Types, DecoderTypes
<1>5. CASE ~(edgeCount' < wheel.n)
  <2> DEFINE l == IF Here(gap) = SampleTooth THEN r ELSE late
             f == fraction + wheel.gap[EdgeBefore(counter)]
             t == IF IsGap(gap) THEN (wheel.sync + wheel.missing) % wheel.all ELSE tooth
             c == IF IsGap(gap) THEN (IF cal.phaseRepeats = 1 THEN t ELSE CycleToothAfterGap(t)) ELSE cycle
             s == IF IsGap(gap) THEN smallest ELSE gap
  <2>1. Decode(gap, r, d)
    BY <1>5 DEF CEM_vPrimaryEventCB
  <2>2. Here(gap) \in Nat /\ l \in BOOLEAN /\ s \in Nat
    BY <1>2 DEF Here, Types, DecoderTypes
  <2>3. f \in Nat
    BY <1>2 DEF Types, DecoderTypes
  <2>4. t \in Nat /\ c \in Nat
    <3>1. t \in Nat
      BY <1>2 DEF Types, DecoderTypes
    <3> QED BY <3>1 DEF CycleToothAfterGap, Types, DecoderTypes
  <2>5. /\ smallest' = s /\ late' = l /\ SequenceReset(Here(gap), f, l)
        /\ counter' = (Here(gap) + 1) % wheel.n
        /\ CEM_vRunToothSchedulingOnTooth(t, c)
        /\ timer' = IF wheel.sync = (Here(gap) + 1) % wheel.all THEN Armed(s) ELSE Passed(timer, d)
    BY <2>1 DEF Decode
  <2> HIDE DEF l, f, t, c, s
  <2>6. fraction' \in Nat /\ origins' \in 0 .. 9 /\ running' \in 0 .. 5 /\ sequence' \in 0 .. 8 /\ started' \in Int
    BY <2>2, <2>3, <2>5, SequenceTypes
  <2>7. counter' \in Nat
    BY <2>2, <2>5, <1>2
  <2>8. ran' \in Int /\ tooth' \in Nat /\ cycle' \in Nat
    BY <2>4, <2>5, <1>2 DEF CEM_vRunToothSchedulingOnTooth
  <2>9. timer' \in [match : Nat, gap : Nat, repeats : Int]
    BY <2>2, <2>5, TimerTypes
  <2> QED BY <1>1, <1>3, <2>2, <2>5, <2>6, <2>7, <2>8, <2>9 DEF DecoderTypes
<1> QED BY <1>4, <1>5

LEMMA PassTypes ==
    ASSUME Types, cal' = cal, NextEdgePasses
    PROVE  pos' \in 0 .. wheel'.n - 1 /\ half' \in 0 .. cal'.phaseRepeats - 1 /\ into' \in Nat
<1>1. cal \in Calibrations /\ pos \in 0 .. wheel.n - 1 /\ half \in 0 .. cal.phaseRepeats - 1
  BY DEF Types, EngineTypes
<1>2. pos' \in 0 .. wheel.n - 1 /\ wheel' = wheel
  BY <1>1, Turning, SameWheel
<1>3. cal.phaseRepeats \in {1, 2}
  BY <1>1, SpeedFacts
<1>4. NextHalf \in 0 .. cal.phaseRepeats - 1
  <2>1. half + 1 \in Int /\ cal.phaseRepeats \in Nat /\ cal.phaseRepeats > 0
    BY <1>1, <1>3
  <2>2. (half + 1) % cal.phaseRepeats \in 0 .. cal.phaseRepeats - 1
    BY <2>1, Remainder
  <2> QED BY <2>2, <1>1 DEF NextHalf
<1> QED BY <1>2, <1>4 DEF NextEdgePasses

LEMMA AheadIsInteger ==
    ASSUME Types, NEW p \in cal.speeds
    PROVE  Ahead(p) \in Int /\ p \in Nat
<1>1. cal \in Calibrations /\ into \in Nat
  BY DEF Types, EngineTypes
<1>2. p \in Nat /\ wheel.missing \in {1, 2}
  BY <1>1, SpeedFacts, WheelNumbers
<1>3. TeethAfter(pos) \in Nat
  BY <1>2 DEF TeethAfter
<1>4. p * TeethAfter(pos) \in Int
  BY <1>2, <1>3
<1> QED BY <1>1, <1>2, <1>4 DEF Ahead

LEMMA CleanTypes ==
    ASSUME Types, cal' = cal
    PROVE  /\ Clean => clean' \in 0 .. EdgesToSettle'
           /\ Calm => calm' \in 0 .. RevolutionsToSync
           /\ 0 \in 0 .. EdgesToSettle' /\ clean \in 0 .. EdgesToSettle'
<1>1. wheel' = wheel /\ cal \in Calibrations
  BY SameWheel DEF Types, EngineTypes
<1>2. EdgesToSettle' = EdgesToSettle /\ EdgesToSettle \in Nat
  BY <1>1, WheelNumbers DEF EdgesToSettle
<1> QED BY <1>2 DEF Clean, Calm, Least, RevolutionsToSync, Types, EngineTypes

LEMMA QuietTypes ==
    ASSUME Types, NEW p \in cal.speeds, NEW r \in BOOLEAN, QuietEdge(p, r),
           calm' \in 0 .. RevolutionsToSync, budget' \in [crank : Int, cam : Int]
    PROVE  Types'
<1>1. since + Ahead(p) \in Nat /\ Ahead(p) \in Nat
  BY AheadIsInteger DEF QuietEdge, Types, DecoderTypes
<1>2. cal' = cal
  BY DEF QuietEdge
<1>3. DecoderTypes'
  BY <1>1, <1>2, EventTypes DEF QuietEdge
<1> QED BY <1>2, <1>3, PassTypes, CleanTypes DEF QuietEdge, Types, EngineTypes

\* An edge as the wheel has it, its cam read rightly or wrongly.
LEMMA CrankEdgeIsQuiet ==
    ASSUME NEW p \in cal.speeds
    PROVE  /\ CrankEdge(p) => QuietEdge(p, RightReading) /\ Calm /\ budget' = budget
           /\ CrankEdgeWrongCam(p) => QuietEdge(p, ~RightReading) /\ calm' = 0
                                      /\ budget' = [budget EXCEPT !.cam = @ - 1]
BY DEF CrankEdge, CrankEdgeWrongCam, QuietEdge, RightReading

LEMMA HandlerTypes ==
    ASSUME Types, NEW o \in Int, MissingToothHandler(o)
    PROVE  /\ since' \in Nat => DecoderTypes'
           /\ cal' = cal /\ pos' = pos /\ half' = half /\ wheel' = wheel
<1>1. cal' = cal /\ pos' = pos /\ half' = half
  BY DEF MissingToothHandler
<1>2. wheel' = wheel
  BY <1>1, SameWheel
<1>3. timer' \in [match : Nat, gap : Nat, repeats : Int]
  BY TimerTypes DEF MissingToothHandler
<1> QED BY <1>1, <1>2, <1>3 DEF MissingToothHandler, Types, DecoderTypes

\* A disturbance of the crank's signal.
Disturbance ==
    \/ \E p \in cal.speeds : LostEdge(p)
    \/ \E d \in 1 .. Slowest(cal.speeds) * (wheel.missing + 1) - 1 : FalseEdge(d)
    \/ RejectedEdge
    \/ \E p \in cal.speeds : HeldUp(p)
    \/ CEM_vRun

LEMMA DisturbedAll ==
    ASSUME Types, Disturbance
    PROVE  /\ cal' = cal /\ clean' = 0 /\ calm' = 0
           /\ restarted' = FALSE \/ CEM_vRun
BY DEF Disturbance, LostEdge, FalseEdge, RejectedEdge, HeldUp, CEM_vRun, Disturbed

LEMMA DisturbedTypes == ASSUME Types, Disturbance PROVE Types'
<1>1. cal' = cal /\ clean' = 0 /\ calm' = 0 /\ wheel' = wheel
  BY DisturbedAll, SameWheel
<1>2. clean' \in 0 .. EdgesToSettle' /\ calm' \in 0 .. RevolutionsToSync
  BY <1>1, CleanTypes DEF RevolutionsToSync
<1>3. budget \in [crank : Int, cam : Int] /\ cal \in Calibrations /\ held \in Int /\ into \in Nat /\ since \in Nat
      /\ edgeCount \in 0 .. wheel.n /\ timer.match \in Nat
  BY DEF Types, EngineTypes, DecoderTypes
<1>4. wheel.n \in Nat /\ wheel.n >= 4
  BY <1>3, WheelNumbers
<1>5. Disturbed => budget' \in [crank : Int, cam : Int] /\ restarted' \in BOOLEAN
  <2>1. [budget EXCEPT !.crank = budget.crank - 1] \in [crank : Int, cam : Int]
    BY <1>3
  <2> QED BY <2>1 DEF Disturbed
<1>6. ASSUME NEW p \in cal.speeds, LostEdge(p) PROVE Types'
  <2>1. Ahead(p) \in Nat
    BY <1>6, AheadIsInteger DEF LostEdge
  <2>2. since' \in Nat /\ timer' \in [match : Nat, gap : Nat, repeats : Int]
    <3>1. since' = since + Ahead(p) /\ timer' = Passed(timer, Ahead(p))
      BY <1>6 DEF LostEdge
    <3>2. Passed(timer, Ahead(p)) \in [match : Nat, gap : Nat, repeats : Int]
      BY <2>1, TimerTypes
    <3> QED BY <3>1, <3>2, <2>1, <1>3
  <2>3. DecoderTypes'
    BY <1>6, <1>1, <2>2 DEF LostEdge, decoderVars, Types, DecoderTypes
  <2>4. EngineTypes'
    BY <1>6, <1>1, <1>2, <1>3, <1>5, PassTypes DEF LostEdge, EngineTypes
  <2> QED BY <2>3, <2>4 DEF Types
<1>7. ASSUME NEW d \in 1 .. Slowest(cal.speeds) * (wheel.missing + 1) - 1, FalseEdge(d) PROVE Types'
  <2>1. d \in Nat /\ since + d \in Nat /\ into + d \in Nat
    BY <1>3
  <2>2. DecoderTypes'
    <3>1. (half = 1) \in BOOLEAN
      OBVIOUS
    <3> QED BY <1>7, <1>1, <2>1, <3>1, EventTypes DEF FalseEdge
  <2>3. EngineTypes'
    BY <1>7, <1>1, <1>2, <1>3, <1>5, <2>1 DEF FalseEdge, Types, EngineTypes
  <2> QED BY <2>2, <2>3 DEF Types
<1>8. CASE RejectedEdge
  <2>1. DecoderTypes'
    BY <1>8, <1>1, <1>3, <1>4 DEF RejectedEdge, Types, DecoderTypes
  <2>2. EngineTypes'
    BY <1>8, <1>1, <1>2, <1>3, <1>5 DEF RejectedEdge, wheelVars, Types, EngineTypes
  <2> QED BY <2>1, <2>2 DEF Types
<1>9. ASSUME NEW p \in cal.speeds, HeldUp(p) PROVE Types'
  <2>1. Ahead(p) \in Int /\ Ahead(p) > timer.match
    BY <1>9, <1>3, AheadIsInteger DEF HeldUp
  <2>2. Ahead(p) \in Nat /\ since + Ahead(p) \in Nat /\ Ahead(p) - timer.match \in Int
    BY <2>1, <1>3
  <2>3. DecoderTypes'
    <3>1. RightReading \in BOOLEAN
      BY DEF RightReading
    <3> QED BY <1>9, <1>1, <2>2, <3>1, EventTypes DEF HeldUp
  <2>4. EngineTypes'
    BY <1>9, <1>1, <1>2, <1>3, <1>5, <2>2, PassTypes DEF HeldUp, EngineTypes
  <2> QED BY <2>3, <2>4 DEF Types
<1>10. CASE CEM_vRun
  <2>1. DecoderTypes'
    BY <1>10, <1>1, <1>3, <1>4 DEF CEM_vRun, LongAgo, Types, DecoderTypes
  <2>2. budget' \in [crank : Int, cam : Int]
    BY <1>10, <1>3 DEF CEM_vRun
  <2>3. EngineTypes'
    BY <1>10, <1>1, <1>2, <2>2 DEF CEM_vRun, Types, EngineTypes
  <2> QED BY <2>1, <2>3 DEF Types
<1> QED BY <1>6, <1>7, <1>8, <1>9, <1>10 DEF Disturbance

LEMMA MissingToothTypes ==
    ASSUME Types, MissingTooth \/ MissingToothLate
    PROVE  /\ Types' /\ cal' = cal /\ pos' = pos /\ half' = half /\ wheel' = wheel
           /\ UNCHANGED <<clean, calm, restarted, budget>>
<1>1. /\ timer.match \in Nat /\ held \in Int /\ into \in Nat /\ since \in Nat
  BY DEF Types, EngineTypes, DecoderTypes
<1>2. CASE MissingTooth
  <2>1. since' \in Nat /\ into' \in Nat /\ held' = held /\ UNCHANGED <<clean, calm, restarted, budget>>
        /\ MissingToothHandler(0)
    BY <1>1, <1>2 DEF MissingTooth
  <2>2. DecoderTypes' /\ cal' = cal /\ pos' = pos /\ half' = half /\ wheel' = wheel
    BY <2>1, HandlerTypes
  <2> QED BY <2>1, <2>2, CleanTypes DEF Types, EngineTypes
<1>3. CASE MissingToothLate
  <2> DEFINE o == IF timer.match > 0 THEN timer.match ELSE -held
  <2>1. since' = since /\ into' = into /\ held' = -1 /\ UNCHANGED <<clean, calm, restarted, budget>>
        /\ MissingToothHandler(o)
    BY <1>3 DEF MissingToothLate
  <2>2. o \in Int
    BY <1>1
  <2> HIDE DEF o
  <2>3. DecoderTypes' /\ cal' = cal /\ pos' = pos /\ half' = half /\ wheel' = wheel
    BY <2>1, <2>2, <1>1, HandlerTypes
  <2> QED BY <2>1, <2>3, <1>1, CleanTypes DEF Types, EngineTypes
<1> QED BY <1>2, <1>3

-----------------------------------------------------------------------------
(* Into step.                                                              *)

\* What the lemmas below need of the numbers, at a quiet edge.
LEMMA QuietFacts ==
    ASSUME Types, NEW p \in cal.speeds, NEW r \in BOOLEAN, QuietEdge(p, r)
    PROVE  /\ wheel' = wheel /\ cal' = cal /\ cal \in Calibrations
           /\ wheel.n \in Nat /\ wheel.n >= 4 /\ wheel.sync \in 1 .. wheel.n - 1
           /\ clean \in 0 .. 3 * wheel.n /\ clean' = Least(clean + 1, 3 * wheel.n)
           /\ pos \in 0 .. wheel.n - 1 /\ pos' \in 0 .. wheel.n - 1 /\ pos' = NextPos
           /\ pos' = IF pos = wheel.n - 1 THEN 0 ELSE pos + 1
           /\ Behind(pos) \in 0 .. wheel.n - 1 /\ Behind(pos)' = Behind(pos')
           /\ Behind(pos') = IF pos = wheel.sync - 1 THEN 0 ELSE Behind(pos) + 1
           /\ pos = wheel.sync - 1 => Behind(pos) = wheel.n - 1
           /\ counter \in Nat /\ held = -1
<1>1. cal' = cal /\ cal \in Calibrations /\ NextEdgePasses /\ clean \in 0 .. EdgesToSettle
      /\ clean' = Least(clean + 1, EdgesToSettle) /\ pos \in 0 .. wheel.n - 1 /\ counter \in Nat /\ held = -1
  BY DEF QuietEdge, TimerFirst, Clean, Types, EngineTypes, DecoderTypes
<1> QED BY <1>1, SameWheel, WheelNumbers, Turning

LEMMA MeasuredKeptQuiet ==
    ASSUME Types, Measured, NEW p \in cal.speeds, NEW r \in BOOLEAN, QuietEdge(p, r)
    PROVE  Measured'
<1>1. /\ wheel' = wheel /\ cal' = cal /\ cal \in Calibrations
      /\ wheel.n \in Nat /\ wheel.n >= 4 /\ wheel.sync \in 1 .. wheel.n - 1
      /\ clean \in 0 .. 3 * wheel.n /\ clean' = Least(clean + 1, 3 * wheel.n)
      /\ pos \in 0 .. wheel.n - 1 /\ pos' = IF pos = wheel.n - 1 THEN 0 ELSE pos + 1
  BY QuietFacts
<1>2. /\ edgeCount' = Least(edgeCount + 1, wheel.n) /\ prev' = since + Ahead(p) /\ since' = 0 /\ into' = 0
      /\ held' = -1
  BY DEF QuietEdge, CEM_vPrimaryEventCB, NextEdgePasses, TimerFirst
<1>3. Least(clean', wheel.n) <= edgeCount'
  <2>1. edgeCount \in 0 .. wheel.n /\ Least(clean, wheel.n) <= edgeCount
    BY DEF Types, DecoderTypes, Measured
  <2> QED BY <2>1, <1>1, <1>2 DEF Least
<1>4. ASSUME clean' >= 2 PROVE prev' = p \/ (pos' = wheel.sync /\ prev' = p * (wheel.missing + 1))
  <2>1. clean >= 1
    BY <1>1, <1>4 DEF Least
  <2>2. p \in Nat /\ wheel.missing \in {1, 2} /\ since = into /\ into \in Nat
    BY <2>1, <1>1, SpeedFacts, WheelNumbers DEF Measured, Types, EngineTypes
  <2>3. CASE pos = wheel.sync - 1
    <3>1. pos' = wheel.sync /\ Ahead(p) = p * (wheel.missing + 1) - into
      BY <2>3, <1>1 DEF Ahead, TeethAfter
    <3>2. p * (wheel.missing + 1) \in Nat
      BY <2>2
    <3> QED BY <3>1, <3>2, <2>2, <1>2
  <2>4. CASE pos # wheel.sync - 1
    <3>1. Ahead(p) = p * 1 - into
      BY <2>4 DEF Ahead, TeethAfter
    <3> QED BY <3>1, <2>2, <1>2
  <2> QED BY <2>3, <2>4
<1> QED BY <1>1, <1>2, <1>3, <1>4 DEF Measured

LEMMA FallsInKeptQuiet ==
    ASSUME Types, Measured, FallsIn, NEW p \in cal.speeds, NEW r \in BOOLEAN, QuietEdge(p, r)
    PROVE  /\ FallsIn'
           /\ clean >= wheel.n - 1 /\ (InStep \/ pos = wheel.sync - 1) => InStep'
<1>1. /\ wheel' = wheel
      /\ wheel.n \in Nat /\ wheel.n >= 4 /\ wheel.sync \in 1 .. wheel.n - 1
      /\ clean \in 0 .. 3 * wheel.n /\ clean' = Least(clean + 1, 3 * wheel.n)
      /\ pos \in 0 .. wheel.n - 1 /\ pos' = NextPos
      /\ pos' = IF pos = wheel.n - 1 THEN 0 ELSE pos + 1
      /\ Behind(pos) \in 0 .. wheel.n - 1 /\ Behind(pos)' = Behind(pos')
      /\ Behind(pos') = IF pos = wheel.sync - 1 THEN 0 ELSE Behind(pos) + 1
  BY QuietFacts
<1>2. NextPos' = (pos' + 1) % wheel.n
  BY <1>1 DEF NextPos
<1>3. ASSUME clean >= wheel.n - 1, InStep \/ pos = wheel.sync - 1 PROVE InStep'
  <2>1. counter' = (HereInTime + 1) % wheel.n
    BY <1>3, Decodes
  <2>2. HereInTime = pos'
    BY <1>1, <1>3 DEF HereInTime, InStep
  <2> QED BY <2>1, <2>2, <1>2 DEF InStep
<1>4. ASSUME clean' > wheel.n + Behind(pos)' PROVE InStep'
  <2>1. clean >= wheel.n - 1
    BY <1>1, <1>4 DEF Least
  <2>2. CASE pos # wheel.sync - 1
    <3>1. clean > wheel.n + Behind(pos)
      BY <2>2, <1>1, <1>4 DEF Least
    <3> QED BY <3>1, <2>1, <1>3 DEF FallsIn
  <2> QED BY <2>1, <2>2, <1>3
<1>5. FallsIn'
  BY <1>1, <1>4 DEF FallsIn
<1> QED BY <1>3, <1>5

LEMMA OriginsCounted ==
    ASSUME NEW here, NEW f, NEW l, SequenceReset(here, f, l)
    PROVE  /\ origins' = IF here = 0 THEN CountOrigin(origins) ELSE origins
           /\ started' # -1 => origins' > 1 /\ started' = sequence'
BY DEF SequenceReset, OriginReset, SyncPointReset, StartSequence

LEMMA EventStarts ==
    ASSUME NEW gap, NEW r, NEW d, CEM_vPrimaryEventCB(gap, r, d)
    PROVE  started' # -1 => origins' > 1 /\ started' = sequence'
<1>1. CASE edgeCount' < wheel.n
  BY <1>1 DEF CEM_vPrimaryEventCB
<1>2. CASE ~(edgeCount' < wheel.n)
  <2>1. PICK here, f, l : SequenceReset(here, f, l)
    BY <1>2 DEF CEM_vPrimaryEventCB, Decode
  <2> QED BY <2>1, OriginsCounted
<1> QED BY <1>1, <1>2

LEMMA StartingKeptQuiet ==
    ASSUME Types, Measured, FallsIn, Starting, NEW p \in cal.speeds, NEW r \in BOOLEAN, QuietEdge(p, r)
    PROVE  Starting'
<1>1. /\ wheel' = wheel /\ restarted' = restarted
      /\ wheel.n \in Nat /\ wheel.n >= 4 /\ wheel.sync \in 1 .. wheel.n - 1
      /\ clean \in 0 .. 3 * wheel.n /\ clean' = Least(clean + 1, 3 * wheel.n)
      /\ Behind(pos) \in 0 .. wheel.n - 1 /\ Behind(pos)' = Behind(pos')
      /\ Behind(pos') = IF pos = wheel.sync - 1 THEN 0 ELSE Behind(pos) + 1
      /\ pos = wheel.sync - 1 => Behind(pos) = wheel.n - 1
      /\ counter \in Nat /\ origins \in Nat /\ edgeCount \in 0 .. wheel.n
  BY QuietFacts DEF QuietEdge, Types, DecoderTypes
<1>2. edgeCount' = Least(edgeCount + 1, wheel.n)
  BY DEF QuietEdge, CEM_vPrimaryEventCB
<1>3. restarted' => edgeCount' = Least(clean', wheel.n)
  BY <1>1, <1>2 DEF Starting, Least
<1>4. ASSUME restarted', clean' < wheel.n PROVE origins' = 0
  <2>1. origins = 0 /\ edgeCount' < wheel.n
    BY <1>1, <1>2, <1>3, <1>4 DEF Starting, Least
  <2> QED BY <2>1 DEF QuietEdge, CEM_vPrimaryEventCB
<1>5. ASSUME restarted', clean' >= wheel.n, ~InStep'
      PROVE  /\ clean' - wheel.n < Behind(pos)'
             /\ origins' <= 1
             /\ origins' = 1 => counter' \in 1 .. clean' - wheel.n + 1
  <2>1. clean >= wheel.n - 1
    BY <1>1, <1>5 DEF Least
  <2>2. ~InStep /\ pos # wheel.sync - 1
    BY <2>1, <1>5, FallsInKeptQuiet
  <2>3. HereInTime = counter
    BY <2>2 DEF HereInTime
  <2>4. counter' = (counter + 1) % wheel.n
        /\ origins' = IF counter = 0 THEN CountOrigin(origins) ELSE origins
    BY <2>1, <2>3, Decodes, OriginsCounted
  <2>5. \A c \in 0 .. wheel.n - 2 : (c + 1) % wheel.n = c + 1
    BY <1>1
  <2>6. CountOrigin(0) = 1
    BY DEF CountOrigin
  <2>7. Behind(pos) <= wheel.n - 2
    <3>1. Behind(pos) + 1 # wheel.n
      <4>1. Behind(pos') \in 0 .. wheel.n - 1
        <5>1. Behind(pos') = (pos' - wheel.sync) % wheel.n
          BY DEF Behind, Ago
        <5>2. pos' - wheel.sync \in Int /\ wheel.n > 0
          BY <1>1, QuietFacts
        <5> QED BY <5>1, <5>2, <1>1, Remainder
      <4> QED BY <4>1, <2>2, <1>1
    <3> QED BY <3>1, <1>1
  <2>8. CASE clean = wheel.n - 1
    <3>1. origins = 0 /\ clean' = wheel.n
      BY <2>8, <1>1, <1>5 DEF Starting, Least
    <3>2. origins' = IF counter = 0 THEN 1 ELSE 0
      BY <3>1, <2>4, <2>6
    <3>3. counter = 0 => counter' = 1
      BY <2>4, <2>5, <1>1
    <3> QED BY <3>1, <3>2, <3>3, <2>2, <1>1
  <2>9. CASE clean >= wheel.n
    <3>1. /\ clean - wheel.n < Behind(pos)
          /\ origins <= 1
          /\ origins = 1 => counter \in 1 .. clean - wheel.n + 1
      BY <2>2, <2>9, <1>1, <1>5 DEF Starting
    <3>2. clean' = clean + 1
      BY <3>1, <2>7, <1>1 DEF Least
    <3>3. clean' - wheel.n < Behind(pos)'
      BY <3>1, <3>2, <2>2, <1>1
    <3>4. CASE origins = 1
      <4>1. counter \in 1 .. wheel.n - 2 /\ counter \in 1 .. clean - wheel.n + 1
        BY <3>1, <3>4, <2>7, <1>1
      <4>2. counter' = counter + 1 /\ origins' = 1
        BY <4>1, <3>4, <2>4, <2>5
      <4> QED BY <4>1, <4>2, <3>2, <3>3, <1>1
    <3>5. CASE origins = 0
      <4>1. origins' = IF counter = 0 THEN 1 ELSE 0
        BY <3>5, <2>4, <2>6
      <4>2. counter = 0 => counter' = 1
        BY <2>4, <2>5, <1>1
      <4> QED BY <4>1, <4>2, <3>2, <3>3, <2>9, <1>1
    <3> QED BY <3>1, <3>4, <3>5, <1>1
  <2> QED BY <2>1, <2>8, <2>9, <1>1
<1>6. started' # -1 => origins' > 1
  BY EventStarts DEF QuietEdge
<1> QED BY <1>1, <1>3, <1>4, <1>5, <1>6 DEF Starting

Lock == Measured /\ FallsIn /\ Starting

LEMMA LockKeptByTimer ==
    ASSUME Types, Lock, MissingTooth \/ MissingToothLate
    PROVE  Lock'
<1>1. /\ cal' = cal /\ pos' = pos /\ wheel' = wheel
      /\ UNCHANGED <<clean, restarted, edgeCount, counter, prev, origins>> /\ started' = -1
  BY MissingToothTypes DEF MissingTooth, MissingToothLate, MissingToothHandler
<1>2. InStep' <=> InStep
  BY <1>1 DEF InStep, NextPos
<1>3. Behind(pos)' = Behind(pos)
  BY <1>1 DEF Behind
<1>4. clean' >= 1 => held' = -1 /\ since' = into'
  <2>1. CASE MissingTooth
    BY <2>1, <1>1 DEF MissingTooth, Lock, Measured, Types, EngineTypes, DecoderTypes
  <2>2. CASE MissingToothLate
    BY <2>2, <1>1 DEF MissingToothLate, Lock, Measured, Types, EngineTypes
  <2> QED BY <2>1, <2>2
<1>5. Measured'
  BY <1>1, <1>4 DEF Lock, Measured
<1> QED BY <1>1, <1>2, <1>3, <1>5 DEF Lock, FallsIn, Starting

LEMMA LockKeptByDisturbance ==
    ASSUME Types, Lock, Disturbance
    PROVE  Lock'
<1>1. Types' /\ clean' = 0 /\ wheel' = wheel /\ (restarted' = FALSE \/ CEM_vRun)
  BY DisturbedAll, DisturbedTypes, SameWheel
<1>2. /\ wheel.n \in Nat /\ wheel.n >= 4 /\ edgeCount' \in 0 .. wheel.n
      /\ pos' \in 0 .. wheel.n - 1 /\ wheel.sync \in 1 .. wheel.n - 1
  <2>1. cal \in Calibrations
    BY DEF Types, EngineTypes
  <2> QED BY <2>1, <1>1, WheelNumbers DEF Types, EngineTypes, DecoderTypes
<1>3. Measured'
  BY <1>1, <1>2 DEF Measured, Least
<1>4. FallsIn'
  <2>1. Behind(pos)' \in 0 .. wheel.n - 1
    <3>1. Behind(pos)' = (pos' - wheel.sync) % wheel.n
      BY <1>1 DEF Behind, Ago
    <3>2. pos' - wheel.sync \in Int /\ wheel.n > 0
      BY <1>2
    <3> QED BY <3>1, <3>2, <1>2, Remainder
  <2> QED BY <2>1, <1>1, <1>2 DEF FallsIn
<1>5. started' # -1 => origins' > 1
  <2>1. ASSUME NEW p \in cal.speeds, HeldUp(p) PROVE started' # -1 => origins' > 1
    BY <2>1, EventStarts DEF HeldUp
  <2>2. ASSUME NEW d \in 1 .. Slowest(cal.speeds) * (wheel.missing + 1) - 1, FalseEdge(d)
        PROVE  started' # -1 => origins' > 1
    BY <2>2, EventStarts DEF FalseEdge
  <2> QED BY <2>1, <2>2 DEF Disturbance, LostEdge, RejectedEdge, CEM_vRun
<1>6. CEM_vRun => edgeCount' = 0 /\ origins' = 0
  BY DEF CEM_vRun
<1>7. Starting'
  BY <1>1, <1>2, <1>5, <1>6 DEF Starting, Least
<1> QED BY <1>3, <1>4, <1>7 DEF Lock

-----------------------------------------------------------------------------
(* Every step is an edge handled in time, a disturbance of the crank's     *)
(* signal, or a match of the missing-tooth timer.                          *)

LEMMA EveryStep ==
    ASSUME Types, Next
    PROVE  \/ \E p \in cal.speeds, r \in BOOLEAN :
                /\ QuietEdge(p, r)
                /\ (Calm /\ r = RightReading) \/ calm' = 0
                /\ budget' \in [crank : Int, cam : Int]
           \/ Disturbance
           \/ MissingTooth \/ MissingToothLate
<1>1. RightReading \in BOOLEAN /\ (~RightReading) \in BOOLEAN
  BY DEF RightReading
<1>2. budget \in [crank : Int, cam : Int]
  BY DEF Types, EngineTypes
<1>3. [budget EXCEPT !.cam = budget.cam - 1] \in [crank : Int, cam : Int]
  BY <1>2
<1>4. ASSUME NEW p \in cal.speeds, CrankEdge(p)
      PROVE  \E r \in BOOLEAN : QuietEdge(p, r) /\ ((Calm /\ r = RightReading) \/ calm' = 0)
                                /\ budget' \in [crank : Int, cam : Int]
  BY <1>1, <1>2, <1>4, CrankEdgeIsQuiet
<1>5. ASSUME NEW p \in cal.speeds, CrankEdgeWrongCam(p)
      PROVE  \E r \in BOOLEAN : QuietEdge(p, r) /\ ((Calm /\ r = RightReading) \/ calm' = 0)
                                /\ budget' \in [crank : Int, cam : Int]
  BY <1>1, <1>3, <1>5, CrankEdgeIsQuiet
<1> QED BY <1>4, <1>5 DEF Next, Edge, Disturbance

LEMMA InitTypes == Init => Types
<1> SUFFICES ASSUME Init PROVE Types
  OBVIOUS
<1>1. /\ cal \in Calibrations /\ wheel.n \in Nat /\ wheel.n >= 4 /\ EdgesToSettle \in Nat
      /\ cal.crankErrors \in Nat /\ cal.camErrors \in Nat
  <2>1. cal \in Calibrations
    BY DEF Init
  <2>2. cal.crankErrors \in Nat /\ cal.camErrors \in Nat
    BY <2>1, Calibrated DEF WellCalibrated
  <2> QED BY <2>1, <2>2, WheelNumbers
<1>2. EngineTypes
  BY <1>1 DEF Init, EngineTypes, RevolutionsToSync
<1>3. DecoderTypes
  <2>1. timer \in [match : Nat, gap : Nat, repeats : Int]
    BY DEF Init, Off
  <2>2. since \in Nat /\ late \in BOOLEAN
    <3>1. since \in {0, LongAgo} /\ late = FALSE
      BY DEF Init
    <3>2. LongAgo \in Nat
      BY SMT DEF LongAgo
    <3>3. since \in Nat
      BY <3>1, <3>2
    <3>4. late \in BOOLEAN
      BY <3>1, Zenon
    <3> QED BY <3>3, <3>4
  <2>3. /\ edgeCount = 0 /\ counter = 255 /\ prev = 0 /\ smallest = 0 /\ tooth = 0 /\ cycle = 0 /\ fraction = 0
        /\ origins = 0 /\ running = 0 /\ sequence = 0 /\ started = -1 /\ ran = -1
    BY DEF Init
  <2> QED BY <1>1, <2>1, <2>2, <2>3 DEF DecoderTypes
<1> QED BY <1>2, <1>3 DEF Types

LEMMA InitLock == Init => Lock
<1> SUFFICES ASSUME Init PROVE Lock
  OBVIOUS
<1>1. Types
  BY InitTypes
<1>2. /\ cal \in Calibrations /\ wheel.n \in Nat /\ wheel.n >= 4 /\ pos \in 0 .. wheel.n - 1
      /\ wheel.sync \in Nat
  BY <1>1, WheelNumbers DEF Types, EngineTypes
<1>3. /\ clean = 0 /\ edgeCount = 0 /\ origins = 0 /\ started = -1
  BY DEF Init
<1>4. Behind(pos) \in 0 .. wheel.n - 1
  <2>1. pos - wheel.sync \in Int /\ wheel.n > 0
    BY <1>2
  <2> QED BY <2>1, <1>2, Remainder DEF Behind, Ago
<1>5. Measured /\ Starting
  BY <1>2, <1>3 DEF Measured, Starting, Least
<1>6. FallsIn
  BY <1>2, <1>3, <1>4 DEF FallsIn
<1> QED BY <1>5, <1>6 DEF Lock

LEMMA TypesKept == ASSUME Types, [Next]_vars PROVE Types'
<1>1. CASE Next
  <2>1. ASSUME NEW p \in cal.speeds, NEW r \in BOOLEAN, QuietEdge(p, r),
               (Calm /\ r = RightReading) \/ calm' = 0, budget' \in [crank : Int, cam : Int]
        PROVE  Types'
    <3>1. cal' = cal
      BY <2>1 DEF QuietEdge
    <3>2. calm' \in 0 .. RevolutionsToSync
      BY <2>1, <3>1, CleanTypes DEF RevolutionsToSync
    <3> QED BY <2>1, <3>2, QuietTypes
  <2> QED BY <1>1, <2>1, EveryStep, DisturbedTypes, MissingToothTypes
<1>2. CASE UNCHANGED vars
  BY <1>2 DEF vars, wheelVars, decoderVars, Types, EngineTypes, DecoderTypes, wheel, EdgesToSettle
<1> QED BY <1>1, <1>2

LEMMA LockKept == ASSUME Types, Lock, [Next]_vars PROVE Lock'
<1>1. CASE Next
  <2>1. ASSUME NEW p \in cal.speeds, NEW r \in BOOLEAN, QuietEdge(p, r) PROVE Lock'
    BY <2>1, MeasuredKeptQuiet, FallsInKeptQuiet, StartingKeptQuiet DEF Lock
  <2> QED BY <1>1, <2>1, EveryStep, LockKeptByDisturbance, LockKeptByTimer
<1>2. CASE UNCHANGED vars
  BY <1>2 DEF vars, wheelVars, decoderVars, Lock, Measured, FallsIn, Starting, InStep, NextPos, Behind, wheel
<1> QED BY <1>1, <1>2

LEMMA Locks == ASSUME Types, Lock PROVE Locked /\ StartsInStep
<1>1. /\ wheel.n \in Nat /\ wheel.n >= 4 /\ clean \in Nat /\ pos \in 0 .. wheel.n - 1 /\ wheel.sync \in Nat
      /\ EdgesToLock = 2 * wheel.n
  <2>1. cal \in Calibrations /\ pos \in 0 .. wheel.n - 1
    BY DEF Types, EngineTypes
  <2>2. wheel.n \in Nat /\ wheel.n >= 4 /\ wheel.sync \in Nat /\ EdgesToLock = 2 * wheel.n /\ EdgesToSettle \in Nat
    BY <2>1, WheelNumbers
  <2> QED BY <2>1, <2>2 DEF Types, EngineTypes
<1>2. Behind(pos) \in 0 .. wheel.n - 1
  <2>1. pos - wheel.sync \in Int /\ wheel.n > 0
    BY <1>1
  <2> QED BY <2>1, <1>1, Remainder DEF Behind, Ago
<1>3. Locked
  BY <1>1, <1>2 DEF Locked, Lock, FallsIn
<1>4. StartsInStep
  <2>1. SUFFICES ASSUME restarted, started # -1 PROVE InStep
    BY DEF StartsInStep
  <2>2. origins > 1 /\ origins \in Nat
    BY <2>1 DEF Lock, Starting, Types, DecoderTypes
  <2> QED BY <1>1, <2>1, <2>2 DEF Lock, Starting
<1> QED BY <1>3, <1>4

\* Whatever was lost, invented or read wrongly before, the edge counter is in step once twice the edges of the
\* wheel have come without a disturbance of the crank's signal.
THEOREM InStepAfterTwoRevolutions == Spec => []Locked
<1>1. Init => Types /\ Lock
  BY InitTypes, InitLock
<1>2. Types /\ Lock /\ [Next]_vars => (Types /\ Lock)'
  BY TypesKept, LockKept
<1>3. Types /\ Lock => Locked
  BY Locks
<1> QED BY <1>1, <1>2, <1>3, PTL DEF Spec

\* After a start or a stop of the engine no sequence is started before the edge counter is in step, although
\* the decoder only counts two origins and never asks whether it has seen the gap.
THEOREM NothingStartsOutOfStep == Spec => []StartsInStep
<1>1. Init => Types /\ Lock
  BY InitTypes, InitLock
<1>2. Types /\ Lock /\ [Next]_vars => (Types /\ Lock)'
  BY TypesKept, LockKept
<1>3. Types /\ Lock => StartsInStep
  BY Locks
<1> QED BY <1>1, <1>2, <1>3, PTL DEF Spec

-----------------------------------------------------------------------------
(* The missing teeth.                                                      *)

\* Armed in step in front of the gap, the timer has come to its end with it.
TimerRight ==
    /\ clean >= 2 * wheel.n /\ pos = wheel.sync - 1 =>
         \E q \in cal.speeds, k \in 0 .. wheel.missing :
            /\ timer.gap = q /\ into = k * q
            /\ IF k < wheel.missing THEN timer.match = q /\ timer.repeats = wheel.missing - 1 - k
               ELSE timer.match = 0
    /\ clean > 2 * wheel.n + Behind(pos) /\ pos # wheel.sync - 1 => timer.match = 0

\* From the edge behind the gap on the teeth are counted as the wheel has them.
NextToothOf(i) == (ToothOf(i) + 1) % wheel.all
TeethRight ==
    clean > 2 * wheel.n + Behind(pos) =>
       /\ pos # wheel.sync - 1 => tooth % wheel.all = NextToothOf(pos) /\ cycle % wheel.all = NextToothOf(pos)
       /\ into = 0 /\ ran # -1 => ran % wheel.all = ToothOf(pos)

LEMMA Division ==
    ASSUME NEW a \in Nat, NEW n \in Nat, n > 0
    PROVE  a \div n \in Nat /\ a % n \in 0 .. n - 1 /\ a = n * (a \div n) + (a % n)
BY SMT

LEMMA RemainderOf ==
    ASSUME NEW k \in Nat, NEW r \in Nat, NEW n \in Nat, r < n
    PROVE  (n * k + r) % n = r
BY SMT

LEMMA Distribute ==
    ASSUME NEW a \in Nat, NEW b \in Nat, NEW c \in Nat
    PROVE  a * (b + c) = a * b + a * c
BY SMT

\* One more, modulo n.
LEMMA NextRemainder ==
    ASSUME NEW a \in Nat, NEW n \in Nat, n > 0
    PROVE  (a + 1) % n = IF a % n = n - 1 THEN 0 ELSE (a % n) + 1
<1>1. PICK k \in Nat, r \in 0 .. n - 1 : a = n * k + r /\ r = a % n
  BY Division
<1>2. CASE r = n - 1
  <2>1. a + 1 = n * (k + 1) + 0
    BY <1>1, <1>2
  <2>2. (n * (k + 1) + 0) % n = 0
    BY RemainderOf, k + 1 \in Nat
  <2> QED BY <1>1, <1>2, <2>1, <2>2
<1>3. CASE r # n - 1
  <2>1. a + 1 = n * k + (r + 1)
    BY <1>1
  <2>2. (n * k + (r + 1)) % n = r + 1
    BY <1>1, <1>3, RemainderOf
  <2> QED BY <1>1, <1>3, <2>1, <2>2
<1> QED BY <1>2, <1>3

\* Two revolutions are a revolution, modulo n.
LEMMA RemainderOfTwice ==
    ASSUME NEW a \in Nat, NEW n \in Nat, n > 0
    PROVE  (a % (2 * n)) % n = a % n
<1>1. PICK m \in Nat : m = 2 * n
  OBVIOUS
<1>2. PICK k \in Nat, r \in 0 .. m - 1 : a = m * k + r /\ r = a % m
  <2>1. m > 0
    BY <1>1
  <2> QED BY <2>1, Division
<1>3. r \in Nat /\ k \in Nat
  BY <1>2
<1>4. PICK j \in Nat, q \in 0 .. n - 1 : r = n * j + q /\ q = r % n
  BY <1>3, Division
<1>5. PICK i \in Nat : i = 2 * k + j
  BY <1>3, <1>4
<1>6. a = n * i + q
  <2> DEFINE x == m * k
             y == n * j
             z == n * i
  <2>1. x = n * (2 * k)
    BY <1>1, <1>3
  <2>2. z = n * (2 * k) + y
    <3>1. 2 * k \in Nat /\ j \in Nat
      BY <1>3, <1>4
    <3>2. n * (2 * k + j) = n * (2 * k) + n * j
      BY <3>1, Distribute
    <3> QED BY <3>2, <1>5
  <2>3. z = x + y
    BY <2>1, <2>2
  <2>4. x \in Nat /\ y \in Nat
    BY <1>1, <1>3, <1>4
  <2>5. r = y + q /\ a = x + r
    BY <1>2, <1>4, Zenon
  <2> HIDE DEF x, y, z
  <2>6. x + r = z + q
    BY <1>3, <1>4, <2>3, <2>4, <2>5
  <2> QED BY <2>5, <2>6 DEF z
<1>7. (n * i + q) % n = q
  BY <1>4, <1>5, RemainderOf
<1> QED BY <1>1, <1>2, <1>4, <1>6, <1>7

LEMMA OnceRound ==
    ASSUME NEW n \in Nat, NEW x \in 0 .. n - 1
    PROVE  x % n = x /\ (x + n) % n = x
BY SMT

LEMMA CountsOn ==
    ASSUME NEW t \in Nat, NEW n \in Nat, n >= 2, NEW x \in 0 .. n - 1, t % n = x
    PROVE  /\ (t + 1) % n = (x + 1) % n
           /\ ((t + 1) % n) % n = (x + 1) % n
           /\ ((t + 1) % (2 * n)) % n = (x + 1) % n
<1>1. (x + 1) % n = IF x = n - 1 THEN 0 ELSE x + 1
  BY Round, 1 \in 1 .. n - 1
<1>2. (t + 1) % n = (x + 1) % n
  <2>1. (t + 1) % n = IF t % n = n - 1 THEN 0 ELSE (t % n) + 1
    BY NextRemainder, n > 0
  <2> QED BY <1>1, <2>1
<1>3. \A y \in 0 .. n - 1 : y % n = y
  BY SMT
<1>4. ((t + 1) % n) % n = (x + 1) % n
  BY <1>1, <1>2, <1>3
<1>5. ((t + 1) % (2 * n)) % n = (t + 1) % n
  <2>1. t + 1 \in Nat /\ n > 0
    OBVIOUS
  <2> QED BY <2>1, RemainderOfTwice
<1> QED BY <1>2, <1>4, <1>5

\* The teeth of the wheel, of which the gap takes some.
LEMMA TeethTurn ==
    ASSUME cal \in Calibrations, NEW i \in 0 .. wheel.n - 1, NEW j,
           j = IF i = wheel.n - 1 THEN 0 ELSE i + 1
    PROVE  /\ ToothOf(i) \in 0 .. wheel.all - 1 /\ ToothOf(j) \in 0 .. wheel.all - 1
           /\ NextToothOf(i) \in 0 .. wheel.all - 1
           /\ i # wheel.sync - 1 => NextToothOf(i) = ToothOf(j)
           /\ i = wheel.sync - 1 => j = wheel.sync /\ ToothOf(j) = wheel.sync + wheel.missing
                                    /\ (wheel.sync + wheel.missing) % wheel.all = wheel.sync + wheel.missing
<1>1. /\ wheel.n \in Nat /\ wheel.n >= 4 /\ wheel.sync \in 1 .. wheel.n - 1
      /\ wheel.missing \in {1, 2} /\ wheel.all = wheel.n + wheel.missing
  BY WheelNumbers
<1>2. ToothOf(i) \in 0 .. wheel.all - 1 /\ ToothOf(j) \in 0 .. wheel.all - 1
  BY <1>1 DEF ToothOf
<1>3. NextToothOf(i) = IF ToothOf(i) = wheel.all - 1 THEN 0 ELSE ToothOf(i) + 1
  <2>1. wheel.all \in Nat /\ wheel.all >= 2 /\ 1 \in 1 .. wheel.all - 1
    BY <1>1
  <2> QED BY <1>2, <2>1, Round DEF NextToothOf
<1>4. ASSUME i # wheel.sync - 1 PROVE NextToothOf(i) = ToothOf(j)
  BY <1>1, <1>3, <1>4 DEF ToothOf
<1>5. ASSUME i = wheel.sync - 1 PROVE j = wheel.sync /\ ToothOf(j) = wheel.sync + wheel.missing
  BY <1>1, <1>5 DEF ToothOf
<1>6. \A y \in 0 .. wheel.all - 1 : y % wheel.all = y
  BY <1>1
<1>7. NextToothOf(i) \in 0 .. wheel.all - 1
  BY <1>1, <1>2, <1>3
<1> QED BY <1>1, <1>2, <1>4, <1>5, <1>6, <1>7

\* A gap outlasts the matches of the timer, at whatever speeds.
LEMMA GapOutlasts ==
    ASSUME NEW p \in Nat, NEW q \in Nat, NEW m \in {1, 2}, NEW k \in 0 .. m - 1,
           2 * (m + 1) * p > (m + 2) * q, 2 * (m + 1) * q > (m + 2) * q
    PROVE  p * (m + 1) - k * q > q
<1>1. CASE m = 1
  <2>1. k = 0 /\ 4 * p > 3 * q /\ q > 0
    BY <1>1
  <2> QED BY <1>1, <2>1
<1>2. CASE m = 2
  <2>1. k \in {0, 1} /\ 6 * p > 4 * q /\ q > 0
    BY <1>2
  <2> QED BY <1>2, <2>1
<1> QED BY <1>1, <1>2

LEMMA PassedAndOver ==
    ASSUME timer \in [match : Nat, gap : Nat, repeats : Int], timer.match = 0, NEW d \in Nat
    PROVE  Passed(timer, d).match = 0
BY DEF Passed

\* In step, an edge in time decodes what the wheel shows.
LEMMA HereIsThere ==
    ASSUME Types, FallsIn, NEW p \in cal.speeds, NEW r \in BOOLEAN, QuietEdge(p, r), clean > wheel.n + Behind(pos)
    PROVE  HereInTime = pos'
<1>1. InStep /\ pos' = NextPos
  BY QuietFacts DEF FallsIn
<1>2. CASE pos = wheel.sync - 1
  BY <1>2, QuietFacts DEF HereInTime
<1>3. CASE pos # wheel.sync - 1
  BY <1>1, <1>3 DEF HereInTime, InStep
<1> QED BY <1>2, <1>3

LEMMA TimerRightKeptQuiet ==
    ASSUME Types, Measured, FallsIn, TimerRight, NEW p \in cal.speeds, NEW r \in BOOLEAN, QuietEdge(p, r)
    PROVE  TimerRight'
<1>1. /\ wheel' = wheel /\ cal' = cal /\ cal \in Calibrations
      /\ wheel.n \in Nat /\ wheel.n >= 4 /\ wheel.sync \in 1 .. wheel.n - 1
      /\ clean \in 0 .. 3 * wheel.n /\ clean' = Least(clean + 1, 3 * wheel.n)
      /\ pos \in 0 .. wheel.n - 1 /\ pos' \in 0 .. wheel.n - 1
      /\ pos' = IF pos = wheel.n - 1 THEN 0 ELSE pos + 1
      /\ Behind(pos) \in 0 .. wheel.n - 1 /\ Behind(pos)' = Behind(pos')
      /\ Behind(pos') = IF pos = wheel.sync - 1 THEN 0 ELSE Behind(pos) + 1
      /\ pos = wheel.sync - 1 => Behind(pos) = wheel.n - 1
  BY QuietFacts
<1>2. wheel.missing \in {1, 2} /\ wheel.all = wheel.n + wheel.missing /\ p \in Nat
  BY <1>1, WheelNumbers, AheadIsInteger
<1>3. into' = 0 /\ Ahead(p) >= 0 /\ Ahead(p) \in Nat /\ TimerFirst(Ahead(p))
  BY AheadIsInteger DEF QuietEdge, NextEdgePasses
<1>4. timer \in [match : Nat, gap : Nat, repeats : Int]
  BY DEF Types, DecoderTypes
<1>5. ASSUME clean >= wheel.n - 1
      PROVE  timer' = IF wheel.sync = (HereInTime + 1) % wheel.all
                        THEN Armed(IF pos = wheel.sync - 1 THEN smallest ELSE p) ELSE Passed(timer, Ahead(p))
  BY <1>5, Decodes
<1>6. \A i \in 0 .. wheel.n - 1 : (i + 1) % wheel.all = i + 1
  BY <1>1, <1>2
<1>7. ASSUME clean' >= 2 * wheel.n, pos' = wheel.sync - 1
      PROVE  \E q \in cal.speeds, k \in 0 .. wheel.missing :
               /\ timer'.gap = q /\ into' = k * q
               /\ IF k < wheel.missing THEN timer'.match = q /\ timer'.repeats = wheel.missing - 1 - k
                  ELSE timer'.match = 0
  <2>1. pos # wheel.sync - 1 /\ clean > wheel.n + Behind(pos) /\ clean >= wheel.n - 1
    <3>1. Behind(pos') \in 0 .. wheel.n - 1
      <4>1. Behind(pos') = (pos' - wheel.sync) % wheel.n
        BY DEF Behind, Ago
      <4>2. pos' - wheel.sync \in Int /\ wheel.n > 0
        BY <1>1
      <4> QED BY <4>1, <4>2, <1>1, Remainder
    <3>2. pos # wheel.sync - 1
      BY <1>1, <1>7
    <3>3. clean >= 2 * wheel.n - 1
      BY <1>1, <1>7 DEF Least
    <3> QED BY <3>1, <3>2, <3>3, <1>1
  <2>2. HereInTime = wheel.sync - 1
    BY <2>1, <1>7, HereIsThere
  <2>3. timer' = Armed(p)
    BY <2>1, <2>2, <1>1, <1>2, <1>5, <1>6
  <2>4. timer'.gap = p /\ timer'.match = p /\ timer'.repeats = wheel.missing - 1
    BY <2>3 DEF Armed
  <2>5. 0 \in 0 .. wheel.missing /\ 0 < wheel.missing /\ into' = 0 * p /\ wheel.missing - 1 = wheel.missing - 1 - 0
    BY <1>2, <1>3
  <2> QED BY <2>4, <2>5
<1>8. ASSUME clean' > 2 * wheel.n + Behind(pos'), pos' # wheel.sync - 1
      PROVE  timer'.match = 0
  <2>1. clean >= 2 * wheel.n /\ clean >= wheel.n - 1 /\ clean > wheel.n + Behind(pos)
    BY <1>1, <1>8 DEF Least
  <2>2. HereInTime = pos'
    BY <2>1, HereIsThere
  <2>3. (HereInTime + 1) % wheel.all # wheel.sync
    BY <2>2, <1>1, <1>6, <1>8
  <2>4. timer' = Passed(timer, Ahead(p))
    BY <2>1, <2>3, <1>5
  <2>5. timer.match = 0
    <3>1. CASE pos = wheel.sync - 1
      <4>1. PICK q \in cal.speeds, k \in 0 .. wheel.missing :
              /\ into = k * q
              /\ IF k < wheel.missing THEN timer.match = q ELSE timer.match = 0
        BY <3>1, <2>1 DEF TimerRight
      <4>2. SUFFICES ASSUME k < wheel.missing PROVE FALSE
        BY <4>1
      <4>3. q \in Nat /\ k \in 0 .. wheel.missing - 1
            /\ 2 * (wheel.missing + 1) * p > (wheel.missing + 2) * q
            /\ 2 * (wheel.missing + 1) * q > (wheel.missing + 2) * q
        BY <4>2, <1>1, <1>2, SpeedFacts
      <4>4. p * (wheel.missing + 1) - k * q > q
        BY <4>3, <1>2, GapOutlasts
      <4>5. Ahead(p) = p * (wheel.missing + 1) - k * q
        BY <4>1, <3>1 DEF Ahead, TeethAfter
      <4>6. timer.match = q /\ (q = 0 \/ Ahead(p) <= q)
        BY <4>1, <4>2, <1>3 DEF TimerFirst
      <4>7. q # 0
        BY <4>3, <1>2
      <4>8. p * (wheel.missing + 1) - k * q \in Int
        BY <4>5, <1>3
      <4> QED BY <4>3, <4>4, <4>5, <4>6, <4>7, <4>8
    <3>2. CASE pos # wheel.sync - 1
      <4>1. clean > 2 * wheel.n + Behind(pos)
        BY <3>2, <1>1, <1>8 DEF Least
      <4> QED BY <4>1, <3>2 DEF TimerRight
    <3> QED BY <3>1, <3>2
  <2> QED BY <2>4, <2>5, <1>3, <1>4, PassedAndOver
<1> QED BY <1>1, <1>7, <1>8 DEF TimerRight

LEMMA TeethRightKeptQuiet ==
    ASSUME Types, Measured, FallsIn, TeethRight, NEW p \in cal.speeds, NEW r \in BOOLEAN, QuietEdge(p, r)
    PROVE  TeethRight'
<1>1. /\ wheel' = wheel /\ cal' = cal /\ cal \in Calibrations
      /\ wheel.n \in Nat /\ wheel.n >= 4 /\ wheel.sync \in 1 .. wheel.n - 1
      /\ clean \in 0 .. 3 * wheel.n /\ clean' = Least(clean + 1, 3 * wheel.n)
      /\ pos \in 0 .. wheel.n - 1 /\ pos' \in 0 .. wheel.n - 1
      /\ pos' = IF pos = wheel.n - 1 THEN 0 ELSE pos + 1
      /\ Behind(pos) \in 0 .. wheel.n - 1 /\ Behind(pos)' = Behind(pos')
      /\ Behind(pos') = IF pos = wheel.sync - 1 THEN 0 ELSE Behind(pos) + 1
  BY QuietFacts
<1>2. /\ wheel.missing \in {1, 2} /\ wheel.all = wheel.n + wheel.missing
      /\ tooth \in Nat /\ cycle \in Nat
  BY <1>1, WheelNumbers DEF Types, DecoderTypes
<1>3. /\ ToothOf(pos') \in 0 .. wheel.all - 1
      /\ pos # wheel.sync - 1 => NextToothOf(pos) = ToothOf(pos')
      /\ pos = wheel.sync - 1 => ToothOf(pos') = wheel.sync + wheel.missing
                                 /\ (wheel.sync + wheel.missing) % wheel.all = wheel.sync + wheel.missing
  BY <1>1, TeethTurn
<1>4. NextToothOf(pos)' = NextToothOf(pos') /\ ToothOf(pos)' = ToothOf(pos')
      /\ NextToothOf(pos') = (ToothOf(pos') + 1) % wheel.all
  BY <1>1 DEF NextToothOf, ToothOf
<1>5. SUFFICES ASSUME clean' > 2 * wheel.n + Behind(pos')
               PROVE  /\ tooth' % wheel.all = NextToothOf(pos')
                      /\ cycle' % wheel.all = NextToothOf(pos')
                      /\ ran' % wheel.all = ToothOf(pos')
  BY <1>1, <1>4 DEF TeethRight
<1>6. /\ clean >= 2 * wheel.n /\ clean >= wheel.n - 1
      /\ pos # wheel.sync - 1 => clean > 2 * wheel.n + Behind(pos)
  BY <1>1, <1>5 DEF Least
<1>7. /\ ran' = CycleInTime
      /\ tooth' = (ToothInTime(tooth) + 1) % wheel.all
      /\ cycle' = IF cal.phaseRepeats = 1 THEN (ToothInTime(tooth) + 1) % wheel.all
                  ELSE (CycleInTime + 1) % (2 * wheel.all)
  <2>1. CEM_vRunToothSchedulingOnTooth(ToothInTime(tooth), CycleInTime)
    BY <1>6, Decodes
  <2> QED BY <2>1 DEF CEM_vRunToothSchedulingOnTooth
<1>8. /\ ToothInTime(tooth) \in Nat /\ CycleInTime \in Nat
      /\ ToothInTime(tooth) % wheel.all = ToothOf(pos') /\ CycleInTime % wheel.all = ToothOf(pos')
  <2>1. CASE pos = wheel.sync - 1
    <3>1. ToothInTime(tooth) = wheel.sync + wheel.missing
      BY <2>1, <1>3 DEF ToothInTime
    <3>2. CycleInTime \in {wheel.sync + wheel.missing, wheel.sync + wheel.missing + wheel.all}
      BY <2>1, <3>1 DEF CycleInTime, CycleToothAfterGap
    <3>3. \A x \in 0 .. wheel.all - 1 : x % wheel.all = x /\ (x + wheel.all) % wheel.all = x
      BY <1>1, <1>2, OnceRound
    <3>4. wheel.sync + wheel.missing = ToothOf(pos')
      BY <2>1, <1>3
    <3>5. ToothInTime(tooth) = ToothOf(pos') /\ CycleInTime \in {ToothOf(pos'), ToothOf(pos') + wheel.all}
      BY <3>1, <3>2, <3>4
    <3>6. wheel.all \in Nat /\ ToothOf(pos') \in 0 .. wheel.all - 1
      BY <1>1, <1>2, <1>3
    <3> QED BY <3>3, <3>5, <3>6
  <2>2. CASE pos # wheel.sync - 1
    <3>1. tooth % wheel.all = NextToothOf(pos) /\ cycle % wheel.all = NextToothOf(pos)
      BY <2>2, <1>6 DEF TeethRight
    <3>2. ToothInTime(tooth) = tooth /\ CycleInTime = cycle
      BY <2>2 DEF ToothInTime, CycleInTime
    <3> QED BY <2>2, <3>1, <3>2, <1>2, <1>3
  <2> QED BY <2>1, <2>2
<1>9. wheel.all \in Nat /\ wheel.all >= 2
  BY <1>1, <1>2
<1>10. /\ ((ToothInTime(tooth) + 1) % wheel.all) % wheel.all = (ToothOf(pos') + 1) % wheel.all
       /\ ((CycleInTime + 1) % (2 * wheel.all)) % wheel.all = (ToothOf(pos') + 1) % wheel.all
  BY <1>3, <1>8, <1>9, CountsOn
<1> QED BY <1>4, <1>7, <1>8, <1>10

Teeth == TimerRight /\ TeethRight

LEMMA TeethKeptByTimer ==
    ASSUME Types, Measured, Teeth, MissingTooth \/ MissingToothLate
    PROVE  Teeth'
<1>1. /\ cal' = cal /\ pos' = pos /\ wheel' = wheel /\ clean' = clean /\ Behind(pos)' = Behind(pos)
      /\ cal \in Calibrations /\ timer \in [match : Nat, gap : Nat, repeats : Int] /\ into \in Nat
  BY MissingToothTypes DEF Behind, Types, EngineTypes, DecoderTypes
<1>2. /\ wheel.n \in Nat /\ wheel.n >= 4 /\ wheel.missing \in {1, 2} /\ pos \in 0 .. wheel.n - 1
      /\ Behind(pos) \in 0 .. wheel.n - 1
  <2>1. wheel.n \in Nat /\ wheel.n >= 4 /\ wheel.missing \in {1, 2} /\ pos \in 0 .. wheel.n - 1 /\ wheel.sync \in Nat
    BY <1>1, WheelNumbers DEF Types, EngineTypes
  <2>2. pos - wheel.sync \in Int /\ wheel.n > 0
    BY <2>1
  <2> QED BY <2>1, <2>2, Remainder DEF Behind, Ago
<1>3. CASE clean = 0
  <2>1. clean' = 0 /\ ~(0 >= 2 * wheel.n) /\ ~(0 > 2 * wheel.n + Behind(pos))
    BY <1>1, <1>2, <1>3
  <2>2. wheel'.n = wheel.n /\ Behind(pos)' = Behind(pos)
    BY <1>1
  <2> QED BY <2>1, <2>2 DEF Teeth, TimerRight, TeethRight
<1>4. CASE clean # 0
  <2>1. clean \in Nat /\ held = -1
    BY <1>1, <1>4, WheelNumbers DEF Measured, Types, EngineTypes
  <2>2. timer.match > 0 /\ into' = into + timer.match /\ timer' = Rearmed(0)
    BY <2>1 DEF MissingTooth, MissingToothLate, MissingToothHandler
  <2>3. ASSUME clean > 2 * wheel.n + Behind(pos) PROVE pos = wheel.sync - 1
    BY <2>2, <2>3, <1>1 DEF Teeth, TimerRight
  <2>4. into' # 0
    BY <2>2, <1>1
  <2>5. TeethRight'
    BY <2>3, <2>4, <1>1 DEF TeethRight
  <2>6. ASSUME clean >= 2 * wheel.n, pos = wheel.sync - 1
        PROVE  \E q \in cal.speeds, k \in 0 .. wheel.missing :
                 /\ timer'.gap = q /\ into' = k * q
                 /\ IF k < wheel.missing THEN timer'.match = q /\ timer'.repeats = wheel.missing - 1 - k
                    ELSE timer'.match = 0
    <3>1. PICK q \in cal.speeds, k \in 0 .. wheel.missing :
             /\ timer.gap = q /\ into = k * q
             /\ IF k < wheel.missing THEN timer.match = q /\ timer.repeats = wheel.missing - 1 - k
                ELSE timer.match = 0
      BY <2>6 DEF Teeth, TimerRight
    <3>2. k < wheel.missing /\ timer.match = q /\ timer.repeats = wheel.missing - 1 - k /\ q \in Nat /\ q > 0
      BY <3>1, <2>2, <1>1
    <3>3. into' = (k + 1) * q /\ k + 1 \in 0 .. wheel.missing
      BY <3>1, <3>2, <2>2, <1>2
    <3>4. CASE k + 1 < wheel.missing
      <4>1. timer.repeats > 0 /\ 0 + timer.gap > 0 /\ 0 + timer.gap = q
        BY <3>1, <3>2, <3>4, <1>2
      <4>2. timer' = [timer EXCEPT !.match = 0 + timer.gap, !.repeats = timer.repeats - 1]
        BY <4>1, <2>2 DEF Rearmed
      <4>3. timer'.gap = q /\ timer'.match = q /\ timer'.repeats = wheel.missing - 1 - (k + 1)
        BY <4>1, <4>2, <3>1, <3>2, <1>1, <1>2
      <4> QED BY <3>3, <3>4, <4>3
    <3>5. CASE ~(k + 1 < wheel.missing)
      <4>1. ~(timer.repeats > 0)
        BY <3>2, <3>5, <1>2
      <4>2. timer' = [timer EXCEPT !.match = 0, !.repeats = 0]
        BY <4>1, <2>2 DEF Rearmed
      <4>3. timer'.gap = q /\ timer'.match = 0
        BY <4>2, <3>1, <1>1
      <4> QED BY <3>3, <3>5, <4>3
    <3> QED BY <3>4, <3>5
  <2>7. TimerRight'
    BY <2>3, <2>6, <1>1 DEF TimerRight
  <2> QED BY <2>5, <2>7 DEF Teeth
<1> QED BY <1>3, <1>4

LEMMA TeethKeptByDisturbance ==
    ASSUME Types, Disturbance
    PROVE  Teeth'
<1>1. Types' /\ clean' = 0 /\ wheel' = wheel /\ wheel.n \in Nat /\ wheel.n >= 4 /\ wheel.sync \in Nat
      /\ pos' \in 0 .. wheel.n - 1
  <2>1. Types' /\ clean' = 0 /\ wheel' = wheel /\ cal \in Calibrations
    BY DisturbedAll, DisturbedTypes, SameWheel DEF Types, EngineTypes
  <2>2. pos' \in 0 .. wheel.n - 1
    BY <2>1 DEF Types, EngineTypes
  <2> QED BY <2>1, <2>2, WheelNumbers
<1>2. Behind(pos)' \in 0 .. wheel.n - 1
  <2>1. Behind(pos)' = (pos' - wheel.sync) % wheel.n
    BY <1>1 DEF Behind, Ago
  <2>2. pos' - wheel.sync \in Int /\ wheel.n > 0
    BY <1>1
  <2> QED BY <2>1, <2>2, <1>1, Remainder
<1>3. ~(clean' >= 2 * wheel'.n) /\ ~(clean' > 2 * wheel'.n + Behind(pos)')
  BY <1>1, <1>2
<1> QED BY <1>3 DEF Teeth, TimerRight, TeethRight

LEMMA TeethKept == ASSUME Types, Lock, Teeth, [Next]_vars PROVE Teeth'
<1>1. CASE Next
  <2>1. ASSUME NEW p \in cal.speeds, NEW r \in BOOLEAN, QuietEdge(p, r) PROVE Teeth'
    BY <2>1, TimerRightKeptQuiet, TeethRightKeptQuiet DEF Lock, Teeth
  <2> QED BY <1>1, <2>1, EveryStep, TeethKeptByDisturbance, TeethKeptByTimer DEF Lock
<1>2. CASE UNCHANGED vars
  <2>1. wheel' = wheel /\ Behind(pos)' = Behind(pos) /\ NextToothOf(pos)' = NextToothOf(pos)
        /\ ToothOf(pos)' = ToothOf(pos)
    BY <1>2 DEF vars, wheelVars, wheel, Behind, NextToothOf, ToothOf
  <2> QED BY <1>2, <2>1 DEF vars, wheelVars, decoderVars, Teeth, TimerRight, TeethRight
<1> QED BY <1>1, <1>2

LEMMA InitTeeth == Init => Teeth
<1> SUFFICES ASSUME Init PROVE Teeth
  OBVIOUS
<1>1. wheel.n \in Nat /\ wheel.n >= 4 /\ clean = 0 /\ wheel.sync \in Nat /\ pos \in 0 .. wheel.n - 1
  BY InitTypes, WheelNumbers DEF Types, EngineTypes, Init
<1>2. Behind(pos) \in 0 .. wheel.n - 1
  <2>1. pos - wheel.sync \in Int /\ wheel.n > 0
    BY <1>1
  <2> QED BY <2>1, <1>1, Remainder DEF Behind, Ago
<1>3. ~(clean >= 2 * wheel.n) /\ ~(clean > 2 * wheel.n + Behind(pos))
  BY <1>1, <1>2
<1> QED BY <1>3 DEF Teeth, TimerRight, TeethRight

\* The outputs scheduled to a tooth are run at their tooth once three times the edges of the wheel have come
\* without a disturbance of the crank's signal: the timer counts the missing teeth exactly once, whatever the
\* engine's speeds, and a match that was set too far ahead has been replaced by then.
THEOREM TeethRunInPlace == Spec => []ToothRight
<1> DEFINE Inv == Types /\ Lock /\ Teeth
<1>1. Init => Inv
  BY InitTypes, InitLock, InitTeeth
<1>2. Inv /\ [Next]_vars => Inv'
  BY TypesKept, LockKept, TeethKept
<1>3. Inv => ToothRight
  <2> SUFFICES ASSUME Inv PROVE ToothRight
    OBVIOUS
  <2>1. wheel.n \in Nat /\ wheel.n >= 4 /\ clean \in Nat /\ pos \in 0 .. wheel.n - 1 /\ wheel.sync \in Nat
        /\ EdgesToSettle = 3 * wheel.n
    BY WheelNumbers DEF Types, EngineTypes
  <2>2. Behind(pos) \in 0 .. wheel.n - 1
    <3>1. pos - wheel.sync \in Int /\ wheel.n > 0
      BY <2>1
    <3> QED BY <3>1, <2>1, Remainder DEF Behind, Ago
  <2>3. clean >= 3 * wheel.n => clean > 2 * wheel.n + Behind(pos)
    BY <2>1, <2>2
  <2> QED BY <2>1, <2>3 DEF ToothRight, Teeth, TeethRight
<1> HIDE DEF Inv
<1> QED BY <1>1, <1>2, <1>3, PTL DEF Spec

-----------------------------------------------------------------------------
(* The angle and the sequences.                                            *)

\* The revolutions are counted with the edges.
Revolutions ==
    /\ calm = 1 => clean > pos
    /\ calm = 2 => clean > wheel.n + pos
    /\ calm >= 3 => clean > 2 * wheel.n + pos

\* In step from origin to origin, the cam has been read at its edge, and the angle is that of the edge, in one
\* revolution of the cycle or the other.
CamRead == calm >= 3 /\ pos >= SampleTooth => (late <=> half = 1)
AngleIn(h) == IF h = 0 THEN cal.table[pos + 1] ELSE Revolution + cal.table[pos + 1]
EdgeRight == calm >= 3 => \E h \in 0 .. cal.phaseRepeats - 1 : fraction = AngleIn(h)
Right == fraction = AngleIn(half)

\* From then on the revolution is right at every origin, except that five errors counted before are kept until
\* the origins counted are a multiple of eight, and that the phase may then be swapped once.
Converges == calm >= 4 /\ cal.phaseRepeats = 2 =>
    \/ running < 5 /\ Right
    \/ running < 5 /\ calm <= 10 /\ (running = 4 => fraction = AngleIn(0))
    \/ running = 5 /\ origins \in calm - 2 .. 7

\* The sequences are counted from the first origin behind which the first half of the cycle begins.
SequencesCounted == calm >= 11 /\ (half = 0 \/ calm = 12) => sequence = 4 * half + Quarter
StartsSequence == calm >= 11 /\ started # -1 => started = sequence

Phase == Revolutions /\ CamRead /\ EdgeRight /\ Converges /\ SequencesCounted /\ StartsSequence

LEMMA NotCalm == ASSUME calm' = 0 PROVE Phase'
BY DEF Phase, Revolutions, CamRead, EdgeRight, Converges, SequencesCounted, StartsSequence

\* The angles of the edges.
LEMMA Angles ==
    ASSUME cal \in Calibrations
    PROVE  /\ wheel.n \in Nat /\ wheel.n >= 4
           /\ \A i \in 1 .. wheel.n : cal.table[i] \in 0 .. Revolution - 1
           /\ \A i, j \in 1 .. wheel.n : i < j => cal.table[i] < cal.table[j]
           /\ cal.table[1] = 0
           /\ \A i \in 1 .. wheel.n - 1 : EdgeBefore(i) = i - 1 /\ wheel.gap[i - 1] = cal.table[i + 1] - cal.table[i]
           /\ wheel.gap[EdgeBefore(0)] \in {Revolution - cal.table[wheel.n], Revolution - cal.table[wheel.n] + 1}
           /\ SampleTooth \in 1 .. wheel.n - 1
<1>1. /\ cal.table \in Seq(0 .. Revolution - 1) /\ cal.table[1] = 0
      /\ \A i, j \in 1 .. Len(cal.table) : i < j => cal.table[i] < cal.table[j]
      /\ SampleTooth \in 1 .. wheel.n - 1
  BY Calibrated DEF WellCalibrated, N, SampleTooth, wheel
<1>2. /\ wheel.n = Len(cal.table) /\ wheel.n \in Nat /\ wheel.n >= 4
      /\ \A i \in 0 .. wheel.n - 2 : wheel.gap[i] = cal.table[i + 2] - cal.table[i + 1]
      /\ wheel.gap[wheel.n - 1] = Revolution - cal.table[wheel.n]
      /\ MinusOneBy(wheel.n) \in 0 .. wheel.n - 1
      /\ wheel.gap[MinusOneBy(wheel.n)] - wheel.gap[wheel.n - 1] \in {0, 1}
  BY WheelIsGood DEF GoodWheel, wheel
<1>3. ASSUME NEW i \in 1 .. wheel.n PROVE cal.table[i] \in 0 .. Revolution - 1
  BY <1>1, <1>2, ElementOf
<1>4. ASSUME NEW i \in 1 .. wheel.n - 1
      PROVE  EdgeBefore(i) = i - 1 /\ wheel.gap[i - 1] = cal.table[i + 1] - cal.table[i]
  <2>1. (i - 1) % wheel.n = i - 1
    BY <1>2, OnceRound, i - 1 \in 0 .. wheel.n - 1
  <2>2. EdgeBefore(i) = i - 1
    BY <2>1 DEF EdgeBefore
  <2>3. i - 1 \in 0 .. wheel.n - 2 /\ (i - 1) + 2 = i + 1 /\ (i - 1) + 1 = i
    BY <1>2
  <2>4. wheel.gap[i - 1] = cal.table[(i - 1) + 2] - cal.table[(i - 1) + 1]
    BY <1>2, <2>3
  <2> QED BY <2>2, <2>3, <2>4
<1>5. wheel.gap[EdgeBefore(0)] \in {Revolution - cal.table[wheel.n], Revolution - cal.table[wheel.n] + 1}
  <2>1. EdgeBefore(0) = MinusOneBy(wheel.n)
    BY DEF EdgeBefore
  <2>2. wheel.gap[MinusOneBy(wheel.n)] \in Nat /\ wheel.gap[wheel.n - 1] \in Nat
    <3>1. wheel.n - 1 \in 0 .. wheel.n - 1 /\ MinusOneBy(wheel.n) \in 0 .. wheel.n - 1
      BY <1>2
    <3>2. \A i \in 0 .. wheel.n - 1 : wheel.gap[i] \in Nat
      BY GapsAreNumbers
    <3> QED BY <3>1, <3>2, Zenon
  <2>3. \A x, y \in Nat : x - y \in {0, 1} => x \in {y, y + 1}
    OBVIOUS
  <2> QED BY <2>1, <2>2, <2>3, <1>2
<1>6. \A i, j \in 1 .. wheel.n : i < j => cal.table[i] < cal.table[j]
  BY <1>1, <1>2
<1> QED BY <1>1, <1>2, <1>3, <1>4, <1>5, <1>6

LEMMA HalfTurns ==
    ASSUME Types, NextEdgePasses
    PROVE  /\ pos' # 0 => half' = half
           /\ pos' = 0 => half' = IF cal.phaseRepeats = 1 THEN 0 ELSE 1 - half
           /\ half \in {0, 1} /\ (cal.phaseRepeats = 1 => half = 0)
<1>1. half \in 0 .. cal.phaseRepeats - 1 /\ cal.phaseRepeats \in {1, 2}
  BY SpeedFacts DEF Types, EngineTypes
<1>2. half' = IF pos' = 0 THEN (half + 1) % cal.phaseRepeats ELSE half
  BY DEF NextEdgePasses, NextHalf
<1>3. (0 + 1) % 1 = 0 /\ (0 + 1) % 2 = 1 /\ (1 + 1) % 2 = 0
  BY SMT
<1>4. CASE cal.phaseRepeats = 1
  <2>1. half = 0
    BY <1>1, <1>4
  <2> QED BY <2>1, <1>2, <1>3, <1>4
<1>5. CASE cal.phaseRepeats = 2
  <2>1. half \in {0, 1}
    BY <1>1, <1>5
  <2> QED BY <2>1, <1>2, <1>3, <1>5
<1> QED BY <1>1, <1>4, <1>5

LEMMA RevolutionsKept ==
    ASSUME Types, Revolutions, NEW p \in cal.speeds, NEW r \in BOOLEAN, QuietEdge(p, r), Calm
    PROVE  /\ Revolutions'
           /\ calm' >= 3 => clean >= 2 * wheel.n
           /\ calm \in 0 .. 12 /\ calm' = IF pos' = 0 THEN Least(calm + 1, 12) ELSE calm
<1>1. /\ wheel' = wheel /\ wheel.n \in Nat /\ wheel.n >= 4
      /\ clean \in 0 .. 3 * wheel.n /\ clean' = Least(clean + 1, 3 * wheel.n)
      /\ pos \in 0 .. wheel.n - 1 /\ pos' = IF pos = wheel.n - 1 THEN 0 ELSE pos + 1
  BY QuietFacts
<1>2. calm \in 0 .. 12 /\ calm' = IF pos' = 0 THEN Least(calm + 1, 12) ELSE calm
  BY DEF Calm, RevolutionsToSync, Types, EngineTypes
<1>3. ASSUME calm' >= 3 PROVE clean >= 2 * wheel.n
  BY <1>1, <1>2, <1>3 DEF Revolutions, Least
<1>4. /\ calm' = 1 => clean' > pos'
      /\ calm' = 2 => clean' > wheel.n + pos'
      /\ calm' >= 3 => clean' > 2 * wheel.n + pos'
  BY <1>1, <1>2 DEF Revolutions, Least
<1> QED BY <1>1, <1>2, <1>3, <1>4 DEF Revolutions

\* What an edge in step decodes.
LEMMA DecodesInStep ==
    ASSUME Types, Lock, NEW p \in cal.speeds, NEW r \in BOOLEAN, QuietEdge(p, r), clean >= 2 * wheel.n
    PROVE  /\ late' = IF pos' = SampleTooth THEN r ELSE late
           /\ SequenceReset(pos', fraction + wheel.gap[EdgeBefore(pos')], late')
<1>1. /\ wheel.n \in Nat /\ wheel.n >= 4 /\ Behind(pos) \in 0 .. wheel.n - 1 /\ clean \in 0 .. 3 * wheel.n
  BY QuietFacts
<1>2. clean > wheel.n + Behind(pos) /\ clean >= wheel.n - 1
  BY <1>1
<1>3. HereInTime = pos' /\ counter = pos'
  BY <1>2, HereIsThere, QuietFacts DEF Lock, FallsIn, InStep
<1>4. /\ late' = IF HereInTime = SampleTooth THEN r ELSE late
      /\ SequenceReset(HereInTime, fraction + wheel.gap[EdgeBefore(counter)], late')
  BY <1>2, Decodes DEF Lock
<1> QED BY <1>3, <1>4

\* ... between two origins: the angle of the next edge, and the next sequence at a sync point.
LEMMA BetweenOrigins ==
    ASSUME Types, Lock, NEW p \in cal.speeds, NEW r \in BOOLEAN, QuietEdge(p, r), clean >= 2 * wheel.n,
           pos' # 0, NEW h \in 0 .. cal.phaseRepeats - 1, fraction = AngleIn(h)
    PROVE  /\ fraction' = AngleIn(h)' /\ origins' = origins /\ running' = running
           /\ sequence' = IF cal.table[pos' + 1] \in cal.syncPoints THEN NextSequence ELSE sequence
<1>1. /\ cal' = cal /\ wheel.n \in Nat /\ wheel.n >= 4 /\ pos \in 0 .. wheel.n - 1
      /\ pos' = pos + 1 /\ pos' \in 1 .. wheel.n - 1 /\ cal \in Calibrations
  BY QuietFacts
<1>2. /\ EdgeBefore(pos') = pos' - 1 /\ pos' - 1 = pos
      /\ wheel.gap[pos' - 1] = cal.table[pos' + 1] - cal.table[pos']
      /\ cal.table[pos + 1] \in Nat /\ cal.table[pos' + 1] \in 0 .. Revolution - 1 /\ Revolution \in Nat
      /\ cal.phaseRepeats \in {1, 2}
  <2>1. EdgeBefore(pos') = pos' - 1 /\ wheel.gap[pos' - 1] = cal.table[pos' + 1] - cal.table[pos']
    BY <1>1, Angles
  <2>2. pos + 1 \in 1 .. wheel.n /\ pos' + 1 \in 1 .. wheel.n
    BY <1>1
  <2>3. cal.table[pos + 1] \in 0 .. Revolution - 1 /\ cal.table[pos' + 1] \in 0 .. Revolution - 1
    BY <1>1, <2>2, Angles
  <2>4. Revolution \in Nat /\ cal.phaseRepeats \in {1, 2}
    BY <1>1, RevolutionIs, SpeedFacts
  <2> QED BY <1>1, <2>1, <2>3, <2>4
<1> DEFINE f == fraction + wheel.gap[EdgeBefore(pos')]
<1>3. f = IF h = 0 THEN cal.table[pos' + 1] ELSE Revolution + cal.table[pos' + 1]
  <2>1. wheel.gap[EdgeBefore(pos')] = cal.table[pos' + 1] - cal.table[pos + 1]
    BY <1>1, <1>2
  <2>2. fraction = IF h = 0 THEN cal.table[pos + 1] ELSE Revolution + cal.table[pos + 1]
    BY DEF AngleIn
  <2> QED BY <2>1, <2>2, <1>2
<1>4. f = AngleIn(h)'
  BY <1>1, <1>3 DEF AngleIn
<1>5. AtSyncPoint(f) <=> cal.table[pos' + 1] \in cal.syncPoints
  <2>1. CASE cal.phaseRepeats = 1
    <3>1. h = 0
      BY <2>1
    <3> HIDE DEF f
    <3> QED BY <2>1, <3>1, <1>3 DEF AtSyncPoint
  <2>2. CASE cal.phaseRepeats # 1
    <3>1. f % Revolution = cal.table[pos' + 1]
      <4>1. cal.table[pos' + 1] % Revolution = cal.table[pos' + 1]
            /\ (cal.table[pos' + 1] + Revolution) % Revolution = cal.table[pos' + 1]
        BY <1>2, OnceRound
      <4>2. Revolution + cal.table[pos' + 1] = cal.table[pos' + 1] + Revolution
        BY <1>2
      <4> HIDE DEF f
      <4> QED BY <4>1, <4>2, <1>3
    <3> HIDE DEF f
    <3> QED BY <2>2, <3>1 DEF AtSyncPoint
  <2> QED BY <2>1, <2>2
<1>6. SequenceReset(pos', f, late')
  BY DecodesInStep
<1> HIDE DEF f
<1> QED BY <1>4, <1>5, <1>6 DEF SequenceReset, SyncPointReset

\* ... and at an origin of an engine with a cam, whose phase decides how the cycle goes on.
ErrorsNow(h) == IF h = 1 /\ ~late THEN Least(running + 1, 5) ELSE running

LEMMA AtOrigin ==
    ASSUME Types, Lock, NEW p \in cal.speeds, NEW r \in BOOLEAN, QuietEdge(p, r), clean >= 2 * wheel.n,
           pos' = 0, cal.phaseRepeats = 2, NEW h \in {0, 1}, fraction = AngleIn(h)
    PROVE  /\ origins' = CountOrigin(origins)
           /\ ErrorsNow(h) = 5 /\ origins % 8 = 0 => fraction' = Revolution /\ running' = 0
           /\ ErrorsNow(h) = 5 /\ origins % 8 # 0 =>
                fraction' = 0 /\ running' = IF (origins + 1) % 8 = 0 THEN 4 ELSE 5
           /\ ErrorsNow(h) # 5 =>
                /\ fraction' = IF late THEN 0 ELSE Revolution
                /\ sequence' = IF late THEN 0 ELSE NextSequence
                /\ running' \in 0 .. ErrorsNow(h)
<1>1. /\ wheel.n \in Nat /\ wheel.n >= 4 /\ pos = wheel.n - 1 /\ cal \in Calibrations
      /\ Revolution \in Nat /\ Revolution > 1
  BY QuietFacts, RevolutionIs
<1>2. /\ wheel.gap[EdgeBefore(0)] \in {Revolution - cal.table[wheel.n], Revolution - cal.table[wheel.n] + 1}
      /\ cal.table[wheel.n] \in 0 .. Revolution - 1 /\ SampleTooth # 0 /\ pos + 1 = wheel.n
  BY <1>1, Angles, wheel.n \in 1 .. wheel.n
<1>3. running \in 0 .. 5 /\ origins \in 0 .. 9 /\ late \in BOOLEAN
  BY DEF Types, DecoderTypes
<1> DEFINE f == fraction + wheel.gap[EdgeBefore(0)]
<1>4. f \in Int /\ f >= Revolution /\ (f > Revolution + 1 <=> h = 1)
  <2>1. fraction = IF h = 0 THEN cal.table[wheel.n] ELSE Revolution + cal.table[wheel.n]
    BY <1>2 DEF AngleIn
  <2> QED BY <2>1, <1>1, <1>2
<1>5. late' = late /\ SequenceReset(0, f, late)
  BY <1>2, DecodesInStep
<1> HIDE DEF f
<1>6. ErrorsAtOrigin(f, late) = ErrorsNow(h)
  BY <1>4 DEF ErrorsAtOrigin, ErrorsNow, CamError
<1>7. ErrorsNow(h) \in 0 .. 5
  BY <1>3 DEF ErrorsNow, Least
<1>8. OriginReset(f, late)
  BY <1>5 DEF SequenceReset
<1>9. /\ origins' = CountOrigin(origins)
      /\ sequence' = SequenceAtOrigin(f, late)
      /\ fraction' = IF StartsFirstHalf(f, late) THEN 0 ELSE Revolution
      /\ running' = RunningAfterOrigin(f, late)
  BY <1>8 DEF OriginReset
<1>10. ASSUME ErrorsNow(h) = 5, origins % 8 = 0 PROVE fraction' = Revolution /\ running' = 0
  <2>1. ~StartsFirstHalf(f, late)
    BY <1>4, <1>6, <1>1, <1>10 DEF StartsFirstHalf, SwapsPhase, KeepsPhase
  <2>2. RunningAfterOrigin(f, late) = 0
    BY <1>6, <1>10 DEF RunningAfterOrigin, SwapsPhase
  <2> QED BY <2>1, <2>2, <1>9
<1>11. ASSUME ErrorsNow(h) = 5, origins % 8 # 0
       PROVE  fraction' = 0 /\ running' = IF (origins + 1) % 8 = 0 THEN 4 ELSE 5
  <2>1. StartsFirstHalf(f, late)
    BY <1>4, <1>6, <1>11 DEF StartsFirstHalf, SwapsPhase, KeepsPhase
  <2>2. RunningAfterOrigin(f, late) = IF (origins + 1) % 8 = 0 THEN 4 ELSE 5
    BY <1>6, <1>11 DEF RunningAfterOrigin, SwapsPhase
  <2> QED BY <2>1, <2>2, <1>9
<1>12. ASSUME ErrorsNow(h) # 5
       PROVE  /\ fraction' = IF late THEN 0 ELSE Revolution
              /\ sequence' = IF late THEN 0 ELSE NextSequence
              /\ running' \in 0 .. ErrorsNow(h)
  <2>1. StartsFirstHalf(f, late) <=> late
    BY <1>4, <1>6, <1>12 DEF StartsFirstHalf, SwapsPhase, KeepsPhase
  <2>2. RunningAfterOrigin(f, late) \in 0 .. ErrorsNow(h)
    BY <1>6, <1>7, <1>12 DEF RunningAfterOrigin, SwapsPhase
  <2> QED BY <2>1, <2>2, <1>6, <1>9, <1>12 DEF SequenceAtOrigin
<1> QED BY <1>9, <1>10, <1>11, <1>12

LEMMA CamReadKept ==
    ASSUME Types, Lock, Phase, NEW p \in cal.speeds, QuietEdge(p, RightReading), Calm
    PROVE  CamRead'
<1>1. RightReading \in BOOLEAN /\ cal' = cal /\ cal \in Calibrations /\ SampleTooth' = SampleTooth
  BY DEF RightReading, QuietEdge, SampleTooth, SampleToothOf, Types, EngineTypes
<1>2. /\ wheel.n \in Nat /\ wheel.n >= 4 /\ pos \in 0 .. wheel.n - 1
      /\ pos' = IF pos = wheel.n - 1 THEN 0 ELSE pos + 1
      /\ SampleTooth \in 1 .. wheel.n - 1
  BY <1>1, QuietFacts, Angles
<1>3. SUFFICES ASSUME calm' >= 3, pos' >= SampleTooth PROVE late' <=> half' = 1
  BY <1>1 DEF CamRead
<1>4. clean >= 2 * wheel.n /\ (pos' # 0 => calm' = calm)
  BY <1>1, <1>3, RevolutionsKept DEF Phase
<1>5. late' = IF pos' = SampleTooth THEN RightReading ELSE late
  BY <1>1, <1>4, DecodesInStep
<1>6. CASE pos' = SampleTooth
  BY <1>5, <1>6 DEF RightReading
<1>7. CASE pos' # SampleTooth
  <2>1. pos >= SampleTooth /\ pos' # 0
    BY <1>2, <1>3, <1>7
  <2>2. half' = half
    BY <2>1, HalfTurns DEF QuietEdge
  <2>3. late <=> half = 1
    BY <2>1, <1>3, <1>4 DEF Phase, CamRead
  <2> QED BY <2>2, <2>3, <1>5, <1>7
<1> QED BY <1>6, <1>7

\* The angle in front of an origin whose revolution counts.
LEMMA EdgeRightKept ==
    ASSUME Types, Lock, Phase, NEW p \in cal.speeds, NEW r \in BOOLEAN, QuietEdge(p, r), Calm
    PROVE  EdgeRight'
<1>1. /\ cal' = cal /\ cal \in Calibrations /\ cal.phaseRepeats \in {1, 2} /\ cal.table[1] = 0
      /\ Revolution \in Nat
  BY QuietFacts, SpeedFacts, Angles, RevolutionIs
<1>2. SUFFICES ASSUME calm' >= 3 PROVE \E h \in 0 .. cal.phaseRepeats - 1 : fraction' = AngleIn(h)'
  BY <1>1 DEF EdgeRight
<1>3. clean >= 2 * wheel.n /\ (pos' # 0 => calm' = calm)
  BY <1>2, RevolutionsKept DEF Phase
<1>4. CASE pos' # 0
  <2>1. PICK h \in 0 .. cal.phaseRepeats - 1 : fraction = AngleIn(h)
    BY <1>2, <1>3, <1>4 DEF Phase, EdgeRight
  <2> QED BY <2>1, <1>3, <1>4, BetweenOrigins
<1>5. CASE pos' = 0
  <2>1. fraction' = 0 \/ (cal.phaseRepeats = 2 /\ fraction' = Revolution)
    <3> DEFINE f == fraction + wheel.gap[EdgeBefore(pos')]
    <3>1. SequenceReset(0, f, late')
      BY <1>3, <1>5, DecodesInStep
    <3> HIDE DEF f
    <3>2. OriginReset(f, late')
      BY <3>1 DEF SequenceReset
    <3> QED BY <3>2, <1>1 DEF OriginReset
  <2>2. cal'.table[pos' + 1] = 0
    BY <1>1, <1>5
  <2>3. AngleIn(0)' = 0 /\ AngleIn(1)' = Revolution
    BY <2>2, <1>1 DEF AngleIn
  <2>4. 0 \in 0 .. cal.phaseRepeats - 1 /\ (cal.phaseRepeats = 2 => 1 \in 0 .. cal.phaseRepeats - 1)
    BY <1>1
  <2> QED BY <2>1, <2>3, <2>4
<1> QED BY <1>4, <1>5

\* At an origin that is calm, the errors are not five unless they were counted before.
LEMMA ErrorsWhenRight ==
    ASSUME Types, calm >= 3, cal.phaseRepeats = 2, NEW h \in {0, 1}, late <=> half = 1
    PROVE  /\ ErrorsNow(h) \in 0 .. 5
           /\ running < 5 /\ h = half => ErrorsNow(h) < 5
           /\ running < 5 /\ (running = 4 => h = 0) => ErrorsNow(h) < 5
           /\ running = 5 => ErrorsNow(h) = 5
<1>1. running \in 0 .. 5 /\ half \in 0 .. 1
  BY DEF Types, DecoderTypes, EngineTypes
<1> QED BY <1>1 DEF ErrorsNow, Least

LEMMA AnglesDiffer ==
    ASSUME Types, NEW h \in {0, 1}, NEW g \in {0, 1}, AngleIn(h) = AngleIn(g)
    PROVE  h = g
<1>1. cal \in Calibrations /\ pos \in 0 .. wheel.n - 1
  BY DEF Types, EngineTypes
<1>2. pos + 1 \in 1 .. wheel.n
  BY <1>1, WheelNumbers
<1>3. cal.table[pos + 1] \in 0 .. Revolution - 1 /\ Revolution \in Nat /\ Revolution > 1
  BY <1>1, <1>2, Angles, RevolutionIs
<1> QED BY <1>3 DEF AngleIn

LEMMA ConvergesKept ==
    ASSUME Types, Lock, Phase, NEW p \in cal.speeds, NEW r \in BOOLEAN, QuietEdge(p, r), Calm
    PROVE  Converges'
<1>1. /\ cal' = cal /\ cal \in Calibrations /\ cal.table[1] = 0 /\ Revolution \in Nat
      /\ pos \in 0 .. wheel.n - 1 /\ wheel.n \in Nat
      /\ pos' = IF pos = wheel.n - 1 THEN 0 ELSE pos + 1
      /\ running \in 0 .. 5 /\ origins \in 0 .. 9 /\ SampleTooth \in 1 .. wheel.n - 1
  BY QuietFacts, SpeedFacts, Angles, RevolutionIs DEF Types, DecoderTypes
<1>2. SUFFICES ASSUME calm' >= 4, cal.phaseRepeats = 2
               PROVE  \/ running' < 5 /\ Right'
                      \/ running' < 5 /\ calm' <= 10 /\ (running' = 4 => fraction' = AngleIn(0)')
                      \/ running' = 5 /\ origins' \in calm' - 2 .. 7
  BY <1>1 DEF Converges
<1>3. /\ clean >= 2 * wheel.n
      /\ calm \in 0 .. 12 /\ calm' = IF pos' = 0 THEN Least(calm + 1, 12) ELSE calm
  <2>1. /\ calm' >= 3 => clean >= 2 * wheel.n
        /\ calm \in 0 .. 12 /\ calm' = IF pos' = 0 THEN Least(calm + 1, 12) ELSE calm
    BY RevolutionsKept DEF Phase
  <2>2. calm' >= 3
    BY <1>2, <2>1 DEF Least
  <2> QED BY <2>1, <2>2
<1>4. calm >= 3
  BY <1>2, <1>3 DEF Least
<1>5. PICK h \in {0, 1} : fraction = AngleIn(h)
  BY <1>2, <1>4 DEF Phase, EdgeRight
<1>6. NextEdgePasses
  BY DEF QuietEdge
<1>7. Right' <=> fraction' = IF half' = 0 THEN AngleIn(0)' ELSE AngleIn(1)'
  BY DEF Right, AngleIn
<1>8. CASE pos' # 0
  <2>1. fraction' = AngleIn(h)' /\ origins' = origins /\ running' = running
    BY <1>2, <1>3, <1>5, <1>8, BetweenOrigins
  <2>2. half' = half /\ half \in {0, 1} /\ calm' = calm
    BY <1>3, <1>6, <1>8, HalfTurns
  <2>3. \/ running < 5 /\ Right
        \/ running < 5 /\ calm <= 10 /\ (running = 4 => fraction = AngleIn(0))
        \/ running = 5 /\ origins \in calm - 2 .. 7
    BY <1>2, <2>2 DEF Phase, Converges
  <2>4. Right => h = half
    <3>1. Right => AngleIn(h) = AngleIn(half)
      BY <1>5, Zenon DEF Right
    <3> QED BY <2>2, <3>1, AnglesDiffer
  <2>5. fraction = AngleIn(0) => h = 0
    BY <1>5, AnglesDiffer
  <2>6. Right => Right'
    <3>1. Right => fraction' = IF half' = 0 THEN AngleIn(0)' ELSE AngleIn(1)'
      BY <2>1, <2>2, <2>4
    <3> QED BY <3>1, <1>7
  <2> QED BY <2>1, <2>2, <2>3, <2>5, <2>6
<1>9. CASE pos' = 0
  <2>1. /\ half \in {0, 1} /\ half' = 1 - half /\ pos = wheel.n - 1 /\ pos >= SampleTooth
        /\ (late <=> half = 1)
    BY <1>1, <1>2, <1>4, <1>6, <1>9, HalfTurns DEF Phase, CamRead
  <2>2. AngleIn(0)' = 0 /\ AngleIn(1)' = Revolution
    BY <1>1, <1>9 DEF AngleIn
  <2>3. /\ origins' = CountOrigin(origins)
        /\ ErrorsNow(h) = 5 /\ origins % 8 = 0 => fraction' = Revolution /\ running' = 0
        /\ ErrorsNow(h) = 5 /\ origins % 8 # 0 =>
             fraction' = 0 /\ running' = IF (origins + 1) % 8 = 0 THEN 4 ELSE 5
        /\ ErrorsNow(h) # 5 => fraction' = (IF late THEN 0 ELSE Revolution) /\ running' \in 0 .. ErrorsNow(h)
    BY <1>2, <1>3, <1>5, <1>9, AtOrigin
  <2>4. /\ ErrorsNow(h) \in 0 .. 5
        /\ running < 5 /\ h = half => ErrorsNow(h) < 5
        /\ running < 5 /\ (running = 4 => h = 0) => ErrorsNow(h) < 5
        /\ running = 5 => ErrorsNow(h) = 5
    BY <1>2, <1>4, <2>1, ErrorsWhenRight
  <2>5. ASSUME ErrorsNow(h) < 5 PROVE running' < 5 /\ Right'
    <3>1. fraction' = (IF late THEN 0 ELSE Revolution) /\ running' \in 0 .. ErrorsNow(h)
      BY <2>3, <2>4, <2>5
    <3>2. half' = 0 <=> late
      BY <2>1
    <3>3. fraction' = IF half' = 0 THEN AngleIn(0)' ELSE AngleIn(1)'
      BY <2>1, <2>2, <3>1, <3>2
    <3> QED BY <3>1, <3>3, <2>4, <2>5, <1>7
  <2>6. calm' = Least(calm + 1, 12)
    BY <1>3, <1>9
  <2>7. CASE ErrorsNow(h) = 5 /\ calm = 3
    <3>1. CASE origins % 8 = 0
      BY <2>3, <2>6, <2>7, <3>1 DEF Least
    <3>2. CASE origins % 8 # 0
      <4>1. origins \in 1 .. 9 /\ origins # 8
        BY <3>2, <1>1
      <4>2. origins' = IF origins < 9 THEN origins + 1 ELSE 2
        BY <2>3, <1>2 DEF CountOrigin
      <4>3. calm' = 4
        BY <2>6, <2>7 DEF Least
      <4>4. CASE origins = 7
        BY <4>3, <4>4, <2>2, <2>3, <2>7, <3>2
      <4>5. CASE origins # 7
        <5>1. (origins + 1) % 8 # 0 /\ origins' \in 2 .. 7
          BY <4>1, <4>2, <4>5
        <5>2. running' = 5
          BY <5>1, <2>3, <2>7, <3>2
        <5> QED BY <5>1, <5>2, <4>3
      <4> QED BY <4>4, <4>5
    <3> QED BY <3>1, <3>2
  <2>8. CASE ErrorsNow(h) = 5 /\ calm >= 4
    <3>1. \/ running < 5 /\ Right
          \/ running < 5 /\ (running = 4 => fraction = AngleIn(0))
          \/ running = 5 /\ origins \in calm - 2 .. 7
      BY <1>2, <2>8 DEF Phase, Converges
    <3>2. running = 5 /\ origins \in calm - 2 .. 7
      <4>1. Right => h = half
        <5>1. Right => AngleIn(h) = AngleIn(half)
          BY <1>5, Zenon DEF Right
        <5> QED BY <2>1, <5>1, AnglesDiffer
      <4>2. fraction = AngleIn(0) => h = 0
        BY <1>5, AnglesDiffer
      <4> QED BY <3>1, <4>1, <4>2, <2>4, <2>8
    <3>3. calm \in 4 .. 9 /\ calm' = calm + 1 /\ origins \in 2 .. 7 /\ origins' = origins + 1
      BY <3>2, <2>3, <2>6, <2>8, <1>2, <1>3 DEF Least, CountOrigin
    <3>4. origins % 8 # 0
      BY <3>3
    <3>5. CASE origins = 7
      BY <3>3, <3>4, <3>5, <2>2, <2>3, <2>8
    <3>6. CASE origins # 7
      <4>1. (origins + 1) % 8 # 0
        BY <3>3, <3>6
      <4>2. running' = 5
        BY <4>1, <3>4, <2>3, <2>8
      <4> QED BY <4>2, <3>2, <3>3, <3>6
    <3> QED BY <3>5, <3>6
  <2> QED BY <2>4, <2>5, <2>7, <2>8, <1>3, <1>4
<1> QED BY <1>8, <1>9

\* The sync points up to an edge: none at the origin, three at the last edge, and one more at a sync point.
PointsUpTo(i) == {s \in cal.syncPoints : s <= cal.table[i + 1]}

LEMMA Quarters ==
    ASSUME cal \in Calibrations
    PROVE  /\ Cardinality(PointsUpTo(0)) = 0
           /\ Cardinality(PointsUpTo(wheel.n - 1)) = 3
           /\ \A i \in 0 .. wheel.n - 1 : Cardinality(PointsUpTo(i)) \in 0 .. 3
           /\ \A i \in 1 .. wheel.n - 1 :
                Cardinality(PointsUpTo(i)) =
                  Cardinality(PointsUpTo(i - 1)) + IF cal.table[i + 1] \in cal.syncPoints THEN 1 ELSE 0
<1>1. /\ Cardinality(cal.syncPoints) = 3
      /\ cal.syncPoints \subseteq {cal.table[i] : i \in 2 .. wheel.n}
  BY Calibrated DEF WellCalibrated, wheel
<1>2. /\ wheel.n \in Nat /\ wheel.n >= 4 /\ cal.table[1] = 0 /\ Revolution \in Nat
      /\ \A i \in 1 .. wheel.n : cal.table[i] \in 0 .. Revolution - 1
      /\ \A i, j \in 1 .. wheel.n : i < j => cal.table[i] < cal.table[j]
  BY Angles, RevolutionIs
<1>3. ASSUME NEW s \in cal.syncPoints
      PROVE  \E j \in 2 .. wheel.n : s = cal.table[j] /\ s \in 0 .. Revolution - 1
  <2>1. PICK j \in 2 .. wheel.n : s = cal.table[j]
    BY <1>1
  <2>2. j \in 1 .. wheel.n
    BY <2>1
  <2> QED BY <2>1, <2>2, <1>2
<1>4. IsFiniteSet(cal.syncPoints)
  <2>1. cal.syncPoints \in SUBSET Nat /\ \A s \in cal.syncPoints : s <= Revolution
    BY <1>2, <1>3
  <2> QED BY <2>1, <1>2, FS_BoundedSetOfNaturals
<1>5. \A i : PointsUpTo(i) \in SUBSET cal.syncPoints
  BY DEF PointsUpTo
<1>6. ASSUME NEW i \in 0 .. wheel.n - 1
      PROVE  IsFiniteSet(PointsUpTo(i)) /\ Cardinality(PointsUpTo(i)) \in 0 .. 3
  <2>1. IsFiniteSet(PointsUpTo(i)) /\ Cardinality(PointsUpTo(i)) <= 3
    BY <1>1, <1>4, <1>5, FS_Subset
  <2>2. Cardinality(PointsUpTo(i)) \in Nat
    BY <2>1, FS_CardinalityType
  <2> QED BY <2>1, <2>2
<1>7. PointsUpTo(0) = {}
  <2>1. ASSUME NEW s \in cal.syncPoints PROVE ~(s <= cal.table[0 + 1])
    <3>1. PICK j \in 2 .. wheel.n : s = cal.table[j] /\ s \in 0 .. Revolution - 1
      BY <1>3
    <3>2. 1 \in 1 .. wheel.n /\ j \in 1 .. wheel.n /\ 1 < j
      BY <1>2
    <3>3. cal.table[1] < cal.table[j]
      BY <3>2, <1>2
    <3> QED BY <3>1, <3>3, <1>2
  <2> QED BY <2>1 DEF PointsUpTo
<1>8. PointsUpTo(wheel.n - 1) = cal.syncPoints
  <2>1. ASSUME NEW s \in cal.syncPoints PROVE s <= cal.table[(wheel.n - 1) + 1]
    <3>1. PICK j \in 2 .. wheel.n : s = cal.table[j] /\ s \in 0 .. Revolution - 1
      BY <1>3
    <3>2. j \in 1 .. wheel.n /\ wheel.n \in 1 .. wheel.n /\ (wheel.n - 1) + 1 = wheel.n
      BY <1>2
    <3>3. cal.table[wheel.n] \in 0 .. Revolution - 1 /\ (j < wheel.n => cal.table[j] < cal.table[wheel.n])
      BY <3>2, <1>2
    <3>4. j = wheel.n \/ j < wheel.n
      BY <3>2
    <3> QED BY <3>1, <3>2, <3>3, <3>4, <1>2
  <2> QED BY <2>1 DEF PointsUpTo
<1>9. ASSUME NEW i \in 1 .. wheel.n - 1
      PROVE  Cardinality(PointsUpTo(i)) =
               Cardinality(PointsUpTo(i - 1)) + IF cal.table[i + 1] \in cal.syncPoints THEN 1 ELSE 0
  <2>1. i \in 1 .. wheel.n /\ i + 1 \in 1 .. wheel.n /\ i < i + 1 /\ (i - 1) + 1 = i /\ i - 1 \in 0 .. wheel.n - 1
    BY <1>2
  <2>2. /\ cal.table[i] \in 0 .. Revolution - 1 /\ cal.table[i + 1] \in 0 .. Revolution - 1
        /\ cal.table[i] < cal.table[i + 1]
    BY <2>1, <1>2
  <2>3. ASSUME NEW s \in cal.syncPoints
        PROVE  s <= cal.table[i + 1] <=> (s <= cal.table[i] \/ s = cal.table[i + 1])
    <3>1. PICK j \in 2 .. wheel.n : s = cal.table[j] /\ s \in 0 .. Revolution - 1
      BY <1>3
    <3>2. j \in 1 .. wheel.n
      BY <3>1
    <3>3. (j < i => cal.table[j] < cal.table[i]) /\ (i + 1 < j => cal.table[i + 1] < cal.table[j])
      BY <2>1, <3>2, <1>2
    <3>4. j < i \/ j = i \/ j = i + 1 \/ i + 1 < j
      BY <2>1, <3>2
    <3>5. CASE j < i \/ j = i
      BY <3>1, <3>3, <3>5, <2>2, <1>2
    <3>6. CASE j = i + 1
      BY <3>1, <3>6, <2>2, <1>2
    <3>7. CASE i + 1 < j
      BY <3>1, <3>3, <3>7, <2>2, <1>2
    <3> QED BY <3>4, <3>5, <3>6, <3>7
  <2>4. PointsUpTo(i - 1) = {s \in cal.syncPoints : s <= cal.table[i]}
    BY <2>1 DEF PointsUpTo
  <2>5. cal.table[i + 1] \notin PointsUpTo(i - 1)
    BY <2>2, <2>4, <1>2
  <2>6. IsFiniteSet(PointsUpTo(i - 1)) /\ Cardinality(PointsUpTo(i - 1)) \in 0 .. 3
    BY <2>1, <1>6
  <2>7. CASE cal.table[i + 1] \in cal.syncPoints
    <3>1. PointsUpTo(i) = PointsUpTo(i - 1) \cup {cal.table[i + 1]}
      BY <2>3, <2>4, <2>7 DEF PointsUpTo
    <3>2. Cardinality(PointsUpTo(i - 1) \cup {cal.table[i + 1]}) = Cardinality(PointsUpTo(i - 1)) + 1
      BY <2>5, <2>6, FS_AddElement
    <3> QED BY <3>1, <3>2, <2>7
  <2>8. CASE cal.table[i + 1] \notin cal.syncPoints
    <3>1. PointsUpTo(i) = PointsUpTo(i - 1)
      BY <2>3, <2>4, <2>8 DEF PointsUpTo
    <3> QED BY <3>1, <2>6, <2>8
  <2> QED BY <2>7, <2>8
<1>10. Cardinality(PointsUpTo(0)) = 0 /\ Cardinality(PointsUpTo(wheel.n - 1)) = 3
  BY <1>1, <1>7, <1>8, FS_EmptySet
<1> QED BY <1>6, <1>9, <1>10

LEMMA SequencesKept ==
    ASSUME Types, Lock, Phase, NEW p \in cal.speeds, NEW r \in BOOLEAN, QuietEdge(p, r), Calm
    PROVE  SequencesCounted'
<1>1. /\ cal' = cal /\ cal \in Calibrations /\ cal.phaseRepeats \in {1, 2}
      /\ pos \in 0 .. wheel.n - 1 /\ wheel.n \in Nat /\ wheel.n >= 4
      /\ pos' = IF pos = wheel.n - 1 THEN 0 ELSE pos + 1
      /\ running \in 0 .. 5 /\ SampleTooth \in 1 .. wheel.n - 1 /\ sequence \in 0 .. 8
  BY QuietFacts, SpeedFacts, Angles DEF Types, DecoderTypes
<1>2. Quarter = Cardinality(PointsUpTo(pos)) /\ Quarter' = Cardinality(PointsUpTo(pos'))
  BY <1>1 DEF Quarter, PointsUpTo
<1>3. SUFFICES ASSUME calm' >= 11, half' = 0 \/ calm' = 12
               PROVE  sequence' = 4 * half' + Cardinality(PointsUpTo(pos'))
  BY <1>2 DEF SequencesCounted
<1>4. /\ clean >= 2 * wheel.n
      /\ calm \in 0 .. 12 /\ calm' = IF pos' = 0 THEN Least(calm + 1, 12) ELSE calm
  <2>1. /\ calm' >= 3 => clean >= 2 * wheel.n
        /\ calm \in 0 .. 12 /\ calm' = IF pos' = 0 THEN Least(calm + 1, 12) ELSE calm
    BY RevolutionsKept DEF Phase
  <2>2. calm' >= 3
    BY <1>3, <2>1 DEF Least
  <2> QED BY <2>1, <2>2
<1>5. calm \in 10 .. 12
  BY <1>3, <1>4 DEF Least
<1>6. PICK h \in 0 .. cal.phaseRepeats - 1 : fraction = AngleIn(h)
  BY <1>5 DEF Phase, EdgeRight
<1>7. /\ pos' # 0 => half' = half
      /\ pos' = 0 => half' = IF cal.phaseRepeats = 1 THEN 0 ELSE 1 - half
      /\ half \in {0, 1} /\ (cal.phaseRepeats = 1 => half = 0)
  BY HalfTurns DEF QuietEdge
<1>8. CASE pos' # 0
  <2>1. sequence' = IF cal.table[pos' + 1] \in cal.syncPoints THEN NextSequence ELSE sequence
    BY <1>4, <1>6, <1>8, BetweenOrigins
  <2>2. calm' = calm /\ half' = half /\ pos' \in 1 .. wheel.n - 1 /\ pos' - 1 = pos
    BY <1>1, <1>4, <1>7, <1>8
  <2>3. sequence = 4 * half + Cardinality(PointsUpTo(pos))
    BY <1>2, <1>3, <2>2 DEF Phase, SequencesCounted
  <2>4. Cardinality(PointsUpTo(pos')) =
          Cardinality(PointsUpTo(pos' - 1)) + IF cal.table[pos' + 1] \in cal.syncPoints THEN 1 ELSE 0
    BY <1>1, <2>2, Quarters
  <2>5. Cardinality(PointsUpTo(pos)) \in 0 .. 3
    BY <1>1, Quarters
  <2> QED BY <1>7, <2>1, <2>2, <2>3, <2>4, <2>5 DEF NextSequence, Least
<1>9. CASE pos' = 0
  <2>1. Cardinality(PointsUpTo(pos')) = 0 /\ Cardinality(PointsUpTo(pos)) = 3
    BY <1>1, <1>9, Quarters
  <2>2. CASE cal.phaseRepeats = 1
    <3> DEFINE f == fraction + wheel.gap[EdgeBefore(pos')]
    <3>1. SequenceReset(0, f, late')
      BY <1>4, <1>9, DecodesInStep
    <3> HIDE DEF f
    <3>2. sequence' = 0
      BY <3>1, <2>2 DEF SequenceReset, OriginReset
    <3> QED BY <3>2, <2>1, <2>2, <1>7, <1>9
  <2>3. CASE cal.phaseRepeats = 2
    <3>1. h \in {0, 1}
      BY <2>3
    <3>2. late <=> half = 1
      BY <1>1, <1>5, <1>9 DEF Phase, CamRead
    <3>3. ErrorsNow(h) # 5
      <4>1. \/ running < 5 /\ Right
            \/ running < 5 /\ (running = 4 => fraction = AngleIn(0))
        BY <1>5, <2>3 DEF Phase, Converges
      <4>2. Right => h = half
        <5>1. Right => AngleIn(h) = AngleIn(half)
          BY <1>6, Zenon DEF Right
        <5> QED BY <3>1, <5>1, <1>7, AnglesDiffer
      <4>3. fraction = AngleIn(0) => h = 0
        BY <3>1, <1>6, AnglesDiffer
      <4>4. /\ ErrorsNow(h) \in 0 .. 5
            /\ running < 5 /\ h = half => ErrorsNow(h) < 5
            /\ running < 5 /\ (running = 4 => h = 0) => ErrorsNow(h) < 5
        BY <1>5, <2>3, <3>1, <3>2, ErrorsWhenRight
      <4> QED BY <4>1, <4>2, <4>3, <4>4
    <3>4. sequence' = IF late THEN 0 ELSE NextSequence
      BY <1>4, <1>6, <1>9, <2>3, <3>1, <3>3, AtOrigin
    <3>5. half' = 1 - half
      BY <1>7, <1>9, <2>3
    <3>6. CASE half = 1
      BY <2>1, <3>2, <3>4, <3>5, <3>6
    <3>7. CASE half = 0
      <4>1. calm' = 12 /\ calm >= 11
        BY <1>3, <1>4, <1>9, <3>5, <3>7 DEF Least
      <4>2. sequence = 4 * half + Quarter
        BY <4>1, <3>7 DEF Phase, SequencesCounted
      <4>3. sequence = 3
        BY <4>2, <2>1, <1>2, <3>7
      <4>4. sequence' = 4
        BY <4>3, <3>2, <3>4, <3>7 DEF NextSequence, Least
      <4> QED BY <4>4, <2>1, <3>5, <3>7
    <3> QED BY <3>6, <3>7, <1>7
  <2> QED BY <2>2, <2>3, <1>1
<1> QED BY <1>8, <1>9

LEMMA StartsSequenceKept ==
    ASSUME Types, Lock, Phase, NEW p \in cal.speeds, NEW r \in BOOLEAN, QuietEdge(p, r), Calm
    PROVE  StartsSequence'
<1>1. SUFFICES ASSUME calm' >= 11 PROVE started' # -1 => started' = sequence'
  BY DEF StartsSequence
<1>2. clean >= 2 * wheel.n
  <2>1. calm' >= 3 /\ calm' \in 0 .. 12
    <3>1. calm \in 0 .. 12 /\ calm' = IF pos' = 0 THEN Least(calm + 1, 12) ELSE calm
      BY RevolutionsKept DEF Phase
    <3> QED BY <3>1, <1>1 DEF Least
  <2> QED BY <2>1, RevolutionsKept DEF Phase
<1> DEFINE f == fraction + wheel.gap[EdgeBefore(pos')]
<1>3. SequenceReset(pos', f, late')
  BY <1>2, DecodesInStep
<1> HIDE DEF f
<1> QED BY <1>3 DEF SequenceReset, StartSequence

LEMMA PhaseKeptByTimer ==
    ASSUME Types, Phase, MissingTooth \/ MissingToothLate
    PROVE  Phase'
<1>1. /\ cal' = cal /\ pos' = pos /\ half' = half /\ clean' = clean /\ calm' = calm
      /\ wheel' = wheel /\ started' = -1
      /\ UNCHANGED <<fraction, origins, running, late, sequence>>
  BY MissingToothTypes DEF MissingTooth, MissingToothLate, MissingToothHandler
<1>2. Right' = Right /\ SampleTooth' = SampleTooth /\ Quarter' = Quarter
      /\ AngleIn(0)' = AngleIn(0) /\ \A h \in {0, 1} : AngleIn(h)' = AngleIn(h)
  BY <1>1 DEF Right, SampleTooth, SampleToothOf, Quarter, AngleIn
<1>3. Revolutions'
  BY <1>1 DEF Phase, Revolutions
<1>4. CamRead'
  BY <1>1, <1>2 DEF Phase, CamRead
<1>5. EdgeRight'
  BY <1>1 DEF Phase, EdgeRight, AngleIn
<1>6. Converges'
  BY <1>1, <1>2 DEF Phase, Converges
<1>7. SequencesCounted' /\ StartsSequence'
  BY <1>1, <1>2 DEF Phase, SequencesCounted, StartsSequence
<1> QED BY <1>3, <1>4, <1>5, <1>6, <1>7 DEF Phase

LEMMA PhaseKept == ASSUME Types, Lock, Phase, [Next]_vars PROVE Phase'
<1>1. CASE Next
  <2>1. ASSUME NEW p \in cal.speeds, NEW r \in BOOLEAN, QuietEdge(p, r), Calm, r = RightReading
        PROVE  Phase'
    <3>1. Revolutions'
      BY <2>1, RevolutionsKept DEF Phase
    <3>2. CamRead'
      BY <2>1, CamReadKept
    <3>3. EdgeRight' /\ Converges'
      BY <2>1, EdgeRightKept, ConvergesKept
    <3>4. SequencesCounted' /\ StartsSequence'
      BY <2>1, SequencesKept, StartsSequenceKept
    <3> QED BY <3>1, <3>2, <3>3, <3>4 DEF Phase
  <2>2. Disturbance => Phase'
    BY DisturbedAll, NotCalm
  <2> QED BY <1>1, <2>1, <2>2, EveryStep, NotCalm, PhaseKeptByTimer
<1>2. CASE UNCHANGED vars
  <2>1. /\ UNCHANGED <<cal, pos, half, clean, calm, fraction, origins, running, late, sequence, started>>
        /\ wheel' = wheel
    BY <1>2 DEF vars, wheelVars, decoderVars, wheel
  <2>2. SampleTooth' = SampleTooth /\ Quarter' = Quarter
    BY <2>1 DEF SampleTooth, SampleToothOf, Quarter
  <2>3. Revolutions' /\ CamRead'
    BY <2>1, <2>2 DEF Phase, Revolutions, CamRead
  <2>4. EdgeRight'
    BY <2>1 DEF Phase, EdgeRight, AngleIn
  <2>5. Converges'
    BY <2>1 DEF Phase, Converges, Right, AngleIn
  <2>6. SequencesCounted' /\ StartsSequence'
    BY <2>1, <2>2 DEF Phase, SequencesCounted, StartsSequence
  <2> QED BY <2>3, <2>4, <2>5, <2>6 DEF Phase
<1> QED BY <1>1, <1>2

LEMMA InitPhase == Init => Phase
BY DEF Init, Phase, Revolutions, CamRead, EdgeRight, Converges, SequencesCounted, StartsSequence

LEMMA PhaseIsRight == ASSUME Types, Phase PROVE PhaseRight /\ SequencesInPlace
<1>1. /\ cal \in Calibrations /\ cal.phaseRepeats \in {1, 2} /\ half \in 0 .. cal.phaseRepeats - 1
      /\ pos + 1 \in 1 .. wheel.n
  BY SpeedFacts, WheelNumbers DEF Types, EngineTypes
<1>2. cal.table[pos + 1] \in Nat /\ Revolution \in Nat
  BY <1>1, Angles, RevolutionIs
<1>3. Angle = AngleIn(half)
  <2>1. half \in {0, 1} /\ 0 * Revolution = 0 /\ 1 * Revolution = Revolution
    BY <1>1, <1>2
  <2> QED BY <2>1, <1>2 DEF Angle, AngleIn
<1>4. ASSUME InPhase PROVE fraction = Angle /\ sequence = 4 * half + Quarter /\ (started # -1 => started = sequence)
  <2>1. calm = 12
    BY <1>4 DEF InPhase, RevolutionsToSync, Types, EngineTypes
  <2>2. fraction = AngleIn(half)
    <3>1. CASE cal.phaseRepeats = 1
      <4>1. half = 0 /\ \A h \in 0 .. cal.phaseRepeats - 1 : h = 0
        BY <3>1, <1>1
      <4> QED BY <2>1, <4>1 DEF Phase, EdgeRight
    <3>2. CASE cal.phaseRepeats = 2
      BY <2>1, <3>2 DEF Phase, Converges, Right
    <3> QED BY <3>1, <3>2, <1>1
  <2>3. sequence = 4 * half + Quarter /\ (started # -1 => started = sequence)
    BY <2>1 DEF Phase, SequencesCounted, StartsSequence
  <2> QED BY <2>2, <2>3, <1>3
<1> QED BY <1>4 DEF PhaseRight, SequencesInPlace

\* Whatever cam edges were misread and crank edges lost, the angle is the engine's, the revolution of the cycle
\* included, after twelve revolutions in which the cam was read rightly.
THEOREM AngleIsTheEngines == Spec => []PhaseRight
<1> DEFINE Inv == Types /\ Lock /\ Phase
<1>1. Init => Inv
  BY InitTypes, InitLock, InitPhase
<1>2. Inv /\ [Next]_vars => Inv'
  BY TypesKept, LockKept, PhaseKept
<1>3. Inv => PhaseRight
  BY PhaseIsRight
<1> HIDE DEF Inv
<1> QED BY <1>1, <1>2, <1>3, PTL DEF Spec

\* ... and the sequence started at a sync point is that of the quarter and the revolution.
THEOREM SequencesAreInPlace == Spec => []SequencesInPlace
<1> DEFINE Inv == Types /\ Lock /\ Phase
<1>1. Init => Inv
  BY InitTypes, InitLock, InitPhase
<1>2. Inv /\ [Next]_vars => Inv'
  BY TypesKept, LockKept, PhaseKept
<1>3. Inv => SequencesInPlace
  BY PhaseIsRight
<1> HIDE DEF Inv
<1> QED BY <1>1, <1>2, <1>3, PTL DEF Spec
=============================================================================
