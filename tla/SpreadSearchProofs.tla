------------------------- MODULE SpreadSearchProofs -------------------------
(***************************************************************************)
(* For spreads of any size: the search stays inside the spread, and what   *)
(* it returns is the cell of the source and the fraction of it.  That it   *)
(* returns at all depends on the size, and is left to the model checker.   *)
(* For tables and maps over them, data of every value: what is calculated  *)
(* lies between the data of the cell, meets them on a breakpoint, and is   *)
(* their weighted mean but for the digits that halving costs.              *)
(***************************************************************************)
EXTENDS TableLookup, WellFoundedInduction, TLAPS

(* The source has passed the two checks before the search.                 *)
Between == call.kind \in Searched /\ sp(0) <= source /\ source < sp(n - 1)
SearchedBetween == pc \in {"search", "found", "divide"} => Between
(* What has been found is the cell of the source.                          *)
FoundCell ==
  pc \in {"found", "divide"} => InCell(u16SpreadIndex) /\ boResultFound
(* Unless the cell is wide, what is divided is what was measured.          *)
Measured ==
  pc = "divide" =>
    /\ call.kind # "uint16"
    /\ width < Scale => s32Step = width /\ s32Increment = source - sp(u16SpreadIndex)
FoundAtEnd == pc = "start" => ~boResultFound
DoneBetween == pc = "done" /\ boResultFound => InCell(u16SpreadIndex)

IInv ==
  /\ TypeOK /\ SearchedBetween /\ FoundCell /\ Measured
  /\ FoundAtEnd /\ DoneBetween /\ Located /\ OffsetIsFraction

-----------------------------------------------------------------------------
(* A spread has at least two breakpoints, integers that rise.              *)
LEMMA SpreadOfCall ==
  ASSUME NEW c \in Calls
  PROVE  /\ c.spread.size \in Nat /\ c.spread.size >= 2 /\ c.source \in Int
         /\ \A i \in 0..c.spread.size - 1 : c.spread.at[i] \in Int
         /\ \A i \in 0..c.spread.size - 2 : c.spread.at[i] < c.spread.at[i + 1]
         /\ \A i, j \in 0..c.spread.size - 1 : i < j => c.spread.at[i] < c.spread.at[j]
<1>1. c.spread \in Spreads /\ c.source \in Sources
  BY DEF Calls
<1>2. /\ c.spread.size \in Nat \ {0, 1} /\ c.spread.at \in [0..c.spread.size - 1 -> Int]
      /\ \A i, j \in 0..c.spread.size - 1 : i < j => c.spread.at[i] < c.spread.at[j]
  BY <1>1, SpreadsAssumption
<1>3. c.source \in Int
  BY <1>1, SourcesAssumption
<1>4. ASSUME NEW i \in 0..c.spread.size - 1  PROVE c.spread.at[i] \in Int
  BY <1>2
<1>5. c.spread.size >= 2
  BY <1>2
<1>6. ASSUME NEW i \in 0..c.spread.size - 2  PROVE c.spread.at[i] < c.spread.at[i + 1]
  <2>1. i \in 0..c.spread.size - 1 /\ i + 1 \in 0..c.spread.size - 1 /\ i < i + 1
    BY <1>5, <1>2
  <2> QED
    BY <1>2, <2>1
<1> QED
  BY <1>2, <1>3, <1>4, <1>5, <1>6

(* The quotient that is stored is the fraction rounded down.               *)
LEMMA Quotient ==
  ASSUME NEW a \in Nat, NEW b \in Nat \ {0}
  PROVE  /\ a \div b \in Nat
         /\ (a \div b) * b <= a /\ a < ((a \div b) + 1) * b
OBVIOUS

LEMMA QuotientBelowScale ==
  ASSUME NEW x \in Nat, NEW b \in Nat \ {0}, x < b
  PROVE  (Scale * x) \div b \in 0..Scale - 1
<1>1. Scale \in Nat /\ Scale * x \in Nat
  BY ScaleAssumption
<1>2. (Scale * x) \div b \in Nat /\ ((Scale * x) \div b) * b <= Scale * x
  BY <1>1, Quotient
<1>3. Scale * x < Scale * b
  BY <1>1, ScaleAssumption
<1>4. SUFFICES ASSUME (Scale * x) \div b >= Scale  PROVE FALSE
  BY <1>1, <1>2
<1>5. Scale * b <= ((Scale * x) \div b) * b
  BY <1>1, <1>2, <1>4
<1> QED
  BY <1>1, <1>2, <1>3, <1>5

LEMMA QuotientWhole ==
  ASSUME NEW b \in Nat \ {0}
  PROVE  (Scale * b) \div b = Scale
<1>1. Scale \in Nat /\ Scale * b \in Nat
  BY ScaleAssumption
<1> DEFINE q == (Scale * b) \div b
<1>2. q \in Nat /\ q * b <= Scale * b /\ Scale * b < (q + 1) * b
  BY <1>1, Quotient
<1> HIDE DEF q
<1>3. ~(q > Scale)
  <2> SUFFICES ASSUME q > Scale PROVE FALSE
    OBVIOUS
  <2>1. (Scale + 1) * b <= q * b
    BY <1>1, <1>2
  <2>2. (Scale + 1) * b = Scale * b + b
    BY <1>1
  <2> QED
    BY <1>1, <1>2, <2>1, <2>2
<1>4. ~(q < Scale)
  <2> SUFFICES ASSUME q < Scale PROVE FALSE
    OBVIOUS
  <2>1. (q + 1) * b <= Scale * b
    BY <1>1, <1>2
  <2> QED
    BY <1>1, <1>2, <2>1
<1>5. q = Scale
  BY <1>1, <1>2, <1>3, <1>4
<1> QED
  BY <1>5 DEF q

-----------------------------------------------------------------------------
LEMMA InitIInv == Init => IInv
<1> SUFFICES ASSUME Init PROVE IInv
  OBVIOUS
<1>1. call \in Calls
  BY DEF Init
<1>2. n \in Nat /\ n >= 2
  BY <1>1, SpreadOfCall DEF n
<1>3. TypeOK
  <2>1. /\ u16SpreadIDX \in 0..n - 1 /\ u16OldSpreadIDX \in 0..n - 1
        /\ u16SpreadIndex \in 0..n - 2 /\ u16SpreadOffset \in 0..Scale - 1
        /\ s32Step \in Nat \ {0} /\ s32Increment \in Nat
    BY <1>2, ScaleAssumption DEF Init
  <2>2. boResultFound \in BOOLEAN
    BY Zenon DEF Init
  <2>3. pc \in {"start", "search", "found", "divide", "done"}
    BY DEF Init
  <2> QED
    BY <1>1, <2>1, <2>2, <2>3, Zenon DEF TypeOK
<1> QED
  BY <1>3 DEF Init, IInv, SearchedBetween, FoundCell, Measured, FoundAtEnd, DoneBetween,
              Located, OffsetIsFraction

(* What the steps below need to know of the call at hand.                  *)
LEMMA Call ==
  ASSUME TypeOK
  PROVE  /\ n \in Nat /\ n >= 2 /\ source \in Int
         /\ \A i \in 0..n - 1 : sp(i) \in Int
         /\ \A i \in 0..n - 2 : sp(i) < sp(i + 1)
         /\ \A i, j \in 0..n - 1 : i < j => sp(i) < sp(j)
BY SpreadOfCall DEF TypeOK, n, source, sp

(* Wherever the search is, it can look to both sides.                      *)
LEMMA CanLook == IInv => ReadsInside
<1> SUFFICES ASSUME IInv PROVE ReadsInside
  OBVIOUS
<1>1. TypeOK /\ SearchedBetween
  BY DEF IInv
<1>2. /\ n \in Nat /\ n >= 2 /\ source \in Int
      /\ \A i \in 0..n - 1 : sp(i) \in Int
  BY <1>1, Call
<1>3. cur \in 0..n - 1 /\ u16SpreadIndex \in 0..n - 2
  BY <1>1 DEF TypeOK, cur
<1>4. Left => cur - 1 \in 0..n - 1
  <2> SUFFICES ASSUME Left PROVE cur # 0
    BY <1>2, <1>3
  <2>1. sp(0) <= source /\ source < sp(cur)
    BY <1>1 DEF SearchedBetween, Between, Left
  <2>2. sp(0) \in Int
    BY <1>2
  <2> QED
    BY <1>2, <2>1, <2>2
<1>5. Right => cur + 1 \in 0..n - 1
  <2> SUFFICES ASSUME Right PROVE cur # n - 1
    BY <1>2, <1>3
  <2>1. source < sp(n - 1) /\ source > sp(cur)
    BY <1>1 DEF SearchedBetween, Between, Right
  <2>2. sp(n - 1) \in Int
    BY <1>2
  <2> QED
    BY <1>2, <2>1, <2>2
<1> QED
  BY <1>2, <1>3, <1>4, <1>5 DEF ReadsInside

(* The steps keep the types: the places stay within the spread, and so     *)
(* does the cell that is found.                                            *)
LEMMA TypeStep == IInv /\ Next => TypeOK'
<1> SUFFICES ASSUME IInv, Next PROVE TypeOK'
  OBVIOUS
<1>1. TypeOK /\ SearchedBetween /\ FoundCell /\ ReadsInside
  BY CanLook DEF IInv
<1>2. /\ n \in Nat /\ n >= 2 /\ source \in Int
      /\ \A i \in 0..n - 1 : sp(i) \in Int
      /\ \A i \in 0..n - 2 : sp(i) < sp(i + 1)
  BY <1>1, Call
<1>3. cur \in 0..n - 1 /\ old \in 0..n - 1 /\ u16SpreadIndex \in 0..n - 2
  BY <1>1 DEF TypeOK, cur, old
<1>4. call' = call
  BY DEF Next, NotSearched, Below, Above, Finish, BeginSearch, FoundExact, FoundLeft,
         FoundHere, Found, MoveLeft, MoveRight, Move, Measure, Halve, ComputeOffset,
         ComputeOffsetFromNull
<1>5. n' = n /\ call' \in Calls
  BY <1>1, <1>4 DEF n, TypeOK
<1>6. pc' \in {"start", "search", "found", "divide", "done"}
  BY <1>1 DEF TypeOK, Next, NotSearched, Below, Above, Finish, BeginSearch, FoundExact,
         FoundLeft, FoundHere, Found, MoveLeft, MoveRight, Move, Measure, Halve,
         ComputeOffset, ComputeOffsetFromNull
<1>7. boResultFound' \in BOOLEAN
  <2>1. boResultFound' = boResultFound \/ boResultFound' = TRUE
    BY Zenon DEF Next, NotSearched, Below, Above, Finish, BeginSearch, FoundExact,
           FoundLeft, FoundHere, Found, MoveLeft, MoveRight, Move, Measure, Halve,
           ComputeOffset, ComputeOffsetFromNull
  <2> QED
    BY <1>1, <2>1, Zenon DEF TypeOK
<1>8. u16SpreadIDX' \in 0..n - 1 /\ u16OldSpreadIDX' \in 0..n - 1
  <2>1. CASE BeginSearch
    BY <1>2, <2>1 DEF BeginSearch
  <2>2. CASE MoveLeft
    BY <1>2, <1>3, <2>2 DEF MoveLeft, Move
  <2>3. CASE MoveRight
    <3>1. cur + 1 \in 0..n - 1
      BY <1>1, <2>3 DEF MoveRight, ReadsInside
    <3> QED
      BY <1>2, <1>3, <2>3, <3>1 DEF MoveRight, Move
  <2>4. CASE ~(BeginSearch \/ MoveLeft \/ MoveRight)
    BY <1>1, <2>4 DEF TypeOK, places, Next, NotSearched, Below, Above, Finish, FoundExact,
           FoundLeft, FoundHere, Found, Measure, Halve, ComputeOffset, ComputeOffsetFromNull
  <2> QED
    BY <2>1, <2>2, <2>3, <2>4
<1>9. u16SpreadIndex' \in 0..n - 2
  <2>1. CASE NotSearched \/ Below \/ Above
    BY <1>2, <1>3, <2>1 DEF NotSearched, Below, Above, Finish
  <2>2. CASE FoundExact
    <3>1. source < sp(n - 1) /\ source = sp(cur)
      BY <1>1, <2>2 DEF FoundExact, AtCur, SearchedBetween, Between
    <3>2. cur # n - 1
      BY <1>2, <3>1
    <3> QED
      BY <1>2, <1>3, <2>2, <3>2 DEF FoundExact, Found
  <2>3. CASE FoundLeft
    <3>1. cur - 1 \in 0..n - 1
      BY <1>1, <2>3 DEF FoundLeft, ReadsInside
    <3> QED
      BY <1>2, <1>3, <2>3, <3>1 DEF FoundLeft, Found
  <2>4. CASE FoundHere
    <3>1. cur + 1 \in 0..n - 1
      BY <1>1, <2>4 DEF FoundHere, ReadsInside
    <3> QED
      BY <1>2, <1>3, <2>4, <3>1 DEF FoundHere, Found
  <2>5. CASE ~(NotSearched \/ Below \/ Above \/ FoundExact \/ FoundLeft \/ FoundHere)
    BY <1>3, <2>5 DEF Next, BeginSearch, MoveLeft, MoveRight, Move, Measure, Halve,
           ComputeOffset, ComputeOffsetFromNull
  <2> QED
    BY <2>1, <2>2, <2>3, <2>4, <2>5
<1>10. s32Step' \in Nat \ {0} /\ s32Increment' \in Nat
  <2>1. CASE Measure
    <3>1. InCell(u16SpreadIndex)
      BY <1>1, <2>1 DEF Measure, FoundCell
    <3>2. sp(u16SpreadIndex) \in Int /\ sp(u16SpreadIndex + 1) \in Int
      BY <1>2, <1>3
    <3>3. sp(u16SpreadIndex) < sp(u16SpreadIndex + 1)
      BY <1>2, <1>3
    <3> QED
      BY <1>2, <2>1, <3>1, <3>2, <3>3 DEF Measure, width, InCell
  <2>2. CASE Halve
    BY <1>1, <2>2, ScaleAssumption DEF Halve, TooWide, TypeOK
  <2>3. CASE ~(Measure \/ Halve)
    BY <1>1, <2>3 DEF TypeOK, Next, NotSearched, Below, Above, Finish, BeginSearch,
           FoundExact, FoundLeft, FoundHere, Found, MoveLeft, MoveRight, Move,
           ComputeOffset, ComputeOffsetFromNull
  <2> QED
    BY <2>1, <2>2, <2>3
<1>11. u16SpreadOffset' \in 0..Scale - 1
  <2>1. CASE ComputeOffset
    <3>1. s32Step \in Nat \ {0} /\ s32Increment \in Nat /\ Scale \in Nat \ {0, 1}
      BY <1>1, ScaleAssumption DEF TypeOK
    <3>2. Scale * s32Increment \in Nat
      BY <3>1
    <3>3. Fraction \in Nat
      BY <3>1, <3>2, Quotient DEF Fraction
    <3> QED
      BY <2>1, <3>1, <3>3 DEF ComputeOffset
  <2>2. CASE ~ComputeOffset
    BY <1>1, <2>2, ScaleAssumption DEF TypeOK, Next, NotSearched, Below, Above, Finish,
           BeginSearch, FoundExact, FoundLeft, FoundHere, Found, MoveLeft, MoveRight, Move,
           Measure, Halve, ComputeOffsetFromNull
  <2> QED
    BY <2>1, <2>2
<1> QED
  BY <1>5, <1>6, <1>7, <1>8, <1>9, <1>10, <1>11, Zenon DEF TypeOK

-----------------------------------------------------------------------------
(* The request is not changed, and with it what is said about it.          *)
LEMMA SameCall ==
  ASSUME Next
  PROVE  /\ call' = call /\ n' = n /\ source' = source
         /\ Between' <=> Between
<1>1. call' = call
  BY DEF Next, NotSearched, Below, Above, Finish, BeginSearch, FoundExact, FoundLeft,
         FoundHere, Found, MoveLeft, MoveRight, Move, Measure, Halve, ComputeOffset,
         ComputeOffsetFromNull
<1> QED
  BY <1>1 DEF n, source, sp, Between

(* Each way of ending the search ends in the cell of the source.           *)
LEMMA FoundStep ==
  ASSUME IInv, FoundExact \/ FoundLeft \/ FoundHere
  PROVE  InCell(u16SpreadIndex')
<1>1. TypeOK /\ SearchedBetween /\ ReadsInside
  BY CanLook DEF IInv
<1>2. /\ n \in Nat /\ n >= 2 /\ source \in Int
      /\ \A i \in 0..n - 1 : sp(i) \in Int
      /\ \A i \in 0..n - 2 : sp(i) < sp(i + 1)
  BY <1>1, Call
<1>3. cur \in 0..n - 1
  BY <1>1 DEF TypeOK, cur
<1>4. CASE FoundExact
  <2>1. source = sp(cur) /\ source < sp(n - 1)
    BY <1>1, <1>4 DEF FoundExact, AtCur, SearchedBetween, Between
  <2>2. cur \in 0..n - 2
    BY <1>2, <1>3, <2>1
  <2>3. sp(cur) \in Int /\ sp(cur) < sp(cur + 1)
    BY <1>2, <1>3, <2>2
  <2> QED
    BY <1>4, <2>1, <2>3 DEF FoundExact, Found, InCell
<1>5. CASE FoundLeft
  <2>1. cur - 1 \in 0..n - 1 /\ u16SpreadIndex' = cur - 1
    BY <1>1, <1>5 DEF FoundLeft, Found, ReadsInside
  <2>2. sp(cur - 1) <= source /\ source < sp((cur - 1) + 1)
    BY <1>2, <1>3, <1>5, <2>1 DEF FoundLeft, Left
  <2> QED
    BY <2>1, <2>2 DEF InCell
<1>6. CASE FoundHere
  BY <1>2, <1>3, <1>6 DEF FoundHere, Right, IsHere, Found, InCell
<1> QED
  BY <1>4, <1>5, <1>6

LEMMA SearchStep ==
  IInv /\ Next => SearchedBetween' /\ FoundCell' /\ FoundAtEnd' /\ DoneBetween'
<1> SUFFICES ASSUME IInv, Next
             PROVE  SearchedBetween' /\ FoundCell' /\ FoundAtEnd' /\ DoneBetween'
  OBVIOUS
<1>1. /\ TypeOK /\ SearchedBetween /\ FoundCell /\ FoundAtEnd /\ DoneBetween
      /\ call' = call
  BY SameCall DEF IInv
<1>2. SearchedBetween'
  <2>1. CASE BeginSearch
    <3>1. n \in Nat /\ n >= 2 /\ source \in Int /\ sp(n - 1) \in Int
      BY <1>1, Call
    <3>2. Between
      BY <2>1, <3>1 DEF BeginSearch, Between, AtOrPastLast
    <3> QED
      BY <3>2, SameCall DEF SearchedBetween
  <2>2. CASE ~BeginSearch
    <3>1. pc' \in {"search", "found", "divide"} => pc \in {"search", "found", "divide"}
      BY <2>2 DEF Next, NotSearched, Below, Above, Finish, FoundExact, FoundLeft,
             FoundHere, Found, AtCur, Left, Right, MoveLeft, MoveRight, Move, Measure,
             Halve, ComputeOffset, ComputeOffsetFromNull
    <3> QED
      BY <1>1, <3>1, SameCall DEF SearchedBetween
  <2> QED
    BY <2>1, <2>2
<1>3. FoundCell'
  <2>1. CASE FoundExact \/ FoundLeft \/ FoundHere
    <3>1. InCell(u16SpreadIndex') /\ boResultFound'
      BY <2>1, FoundStep DEF FoundExact, FoundLeft, FoundHere, Found
    <3> QED
      BY <1>1, <3>1 DEF FoundCell, InCell, sp, source
  <2>2. CASE Measure \/ Halve
    BY <1>1, <2>2 DEF Measure, Halve, FoundCell, InCell, sp, source
  <2>3. CASE ~(FoundExact \/ FoundLeft \/ FoundHere \/ Measure \/ Halve)
    <3>1. pc' \notin {"found", "divide"}
      BY <2>3 DEF Next, NotSearched, Below, Above, Finish, BeginSearch, MoveLeft, MoveRight,
             Left, Right, Move, ComputeOffset, ComputeOffsetFromNull
    <3> QED
      BY <3>1 DEF FoundCell
  <2> QED
    BY <2>1, <2>2, <2>3
<1>4. FoundAtEnd'
  <2>1. pc' # "start"
    BY DEF Next, NotSearched, Below, Above, Finish, BeginSearch, FoundExact, FoundLeft,
           FoundHere, Found, AtCur, Left, Right, MoveLeft, MoveRight, Move, Measure, Halve,
           ComputeOffset, ComputeOffsetFromNull
  <2> QED
    BY <2>1 DEF FoundAtEnd
<1>5. DoneBetween'
  <2>1. CASE NotSearched \/ Below \/ Above
    BY <1>1, <2>1, Zenon DEF NotSearched, Below, Above, Finish, FoundAtEnd, DoneBetween
  <2>2. CASE ComputeOffset \/ ComputeOffsetFromNull
    BY <1>1, <2>2 DEF ComputeOffset, ComputeOffsetFromNull, FoundCell, DoneBetween, InCell,
           sp, source
  <2>3. CASE ~(NotSearched \/ Below \/ Above \/ ComputeOffset \/ ComputeOffsetFromNull)
    <3>1. pc' # "done"
      BY <2>3 DEF Next, BeginSearch, FoundExact, FoundLeft, FoundHere, Found, AtCur, Left,
             Right, MoveLeft, MoveRight, Move, Measure, Halve
    <3> QED
      BY <3>1 DEF DoneBetween
  <2> QED
    BY <2>1, <2>2, <2>3
<1> QED
  BY <1>2, <1>3, <1>4, <1>5

-----------------------------------------------------------------------------
LEMMA MeasuredStep == IInv /\ Next => Measured'
<1> SUFFICES ASSUME IInv, Next PROVE Measured'
  OBVIOUS
<1>1. TypeOK /\ Measured /\ call' = call
  BY SameCall DEF IInv
<1>2. CASE Measure
  BY <1>1, <1>2 DEF Measure, Measured, width, sp, source
<1>3. CASE Halve
  <2>1. pc = "divide" /\ TooWide /\ u16SpreadIndex' = u16SpreadIndex
    BY <1>3 DEF Halve
  <2>2. s32Step \in Nat /\ Scale \in Nat /\ s32Step >= Scale
    BY <1>1, <2>1, ScaleAssumption DEF TypeOK, TooWide
  <2>3. ~(width < Scale)
    BY <1>1, <2>1, <2>2 DEF Measured
  <2>4. width' = width
    BY <1>1, <2>1 DEF width, sp
  <2> QED
    BY <1>1, <2>1, <2>3, <2>4 DEF Measured
<1>4. CASE ~(Measure \/ Halve)
  <2>1. pc' # "divide"
    BY <1>4 DEF Next, NotSearched, Below, Above, Finish, BeginSearch, FoundExact, FoundLeft,
           FoundHere, Found, AtCur, Left, Right, MoveLeft, MoveRight, Move, ComputeOffset,
           ComputeOffsetFromNull
  <2> QED
    BY <2>1 DEF Measured
<1> QED
  BY <1>2, <1>3, <1>4

(* The calls that end without a search are those whose result is an end of *)
(* the spread; the others end in the cell they have found.                 *)
LEMMA LocatedStep == IInv /\ Next => Located'
<1> SUFFICES ASSUME IInv, Next PROVE Located'
  OBVIOUS
<1>1. /\ TypeOK /\ SearchedBetween /\ FoundCell
      /\ call' = call
  BY SameCall DEF IInv
<1>2. n \in Nat /\ source \in Int /\ sp(0) \in Int /\ sp(n - 1) \in Int
  BY <1>1, Call
<1>3. CASE NotSearched \/ Below \/ Above
  BY <1>1, <1>2, <1>3 DEF NotSearched, Below, Above, Finish, Located, AtOrPastLast, n, sp,
                          source
<1>4. CASE ComputeOffset \/ ComputeOffsetFromNull
  <2>1. Between /\ InCell(u16SpreadIndex) /\ u16SpreadIndex' = u16SpreadIndex
    BY <1>1, <1>4 DEF ComputeOffset, ComputeOffsetFromNull, SearchedBetween, FoundCell
  <2>2. ~(source < sp(0)) /\ ~(source >= sp(n - 1))
    BY <1>2, <2>1 DEF Between
  <2> QED
    BY <1>1, <2>1, <2>2 DEF Located, InCell, n, sp, source
<1>5. CASE ~(NotSearched \/ Below \/ Above \/ ComputeOffset \/ ComputeOffsetFromNull)
  <2>1. pc' # "done"
    BY <1>5 DEF Next, BeginSearch, FoundExact, FoundLeft, FoundHere, Found, AtCur, Left,
           Right, MoveLeft, MoveRight, Move, Measure, Halve
  <2> QED
    BY <2>1 DEF Located
<1> QED
  BY <1>3, <1>4, <1>5

LEMMA OffsetStep == IInv /\ Next => OffsetIsFraction'
<1> SUFFICES ASSUME IInv, Next PROVE OffsetIsFraction'
  OBVIOUS
<1>1. /\ TypeOK /\ FoundCell /\ Measured /\ FoundAtEnd
      /\ call' = call
  BY SameCall DEF IInv
<1>2. CASE ComputeOffset
  <2> DEFINE l == sp(u16SpreadIndex)
             r == sp(u16SpreadIndex + 1)
  <2>1. /\ u16SpreadIndex' = u16SpreadIndex /\ width' = width
        /\ u16SpreadOffset' = Fraction % Scale
    BY <1>1, <1>2 DEF ComputeOffset, width, sp
  <2> SUFFICES ASSUME width < Scale
               PROVE  IF source = r THEN u16SpreadOffset' = 0
                      ELSE /\ u16SpreadOffset' * width <= Scale * (source - l)
                           /\ Scale * (source - l) < (u16SpreadOffset' + 1) * width
    BY <1>1, <2>1 DEF OffsetIsFraction, sp, source
  <2>2. s32Step = width /\ s32Increment = source - l /\ InCell(u16SpreadIndex)
    BY <1>1, <1>2 DEF ComputeOffset, Measured, FoundCell
  <2>3. /\ l \in Int /\ r \in Int /\ source \in Int /\ l <= source /\ source <= r
        /\ s32Step \in Nat \ {0} /\ s32Increment \in Nat /\ width = r - l
        /\ Scale \in Nat \ {0, 1}
    <3>1. u16SpreadIndex \in 0..n - 1 /\ u16SpreadIndex + 1 \in 0..n - 1
      BY <1>1, Call DEF TypeOK
    <3>2. l \in Int /\ r \in Int /\ source \in Int
      BY <1>1, <3>1, Call
    <3>3. l <= source /\ source <= r
      BY <2>2, <3>2 DEF InCell
    <3> QED
      BY <1>1, <3>2, <3>3, ScaleAssumption DEF TypeOK, width
  <2> HIDE DEF l, r
  <2>4. CASE source = r
    <3>1. s32Increment = s32Step
      BY <2>2, <2>3, <2>4
    <3>2. Fraction = Scale
      BY <2>3, <3>1, QuotientWhole DEF Fraction
    <3> QED
      BY <2>1, <2>3, <2>4, <3>2
  <2>5. CASE source # r
    <3>1. s32Increment < s32Step
      BY <2>2, <2>3, <2>5
    <3>2. Fraction \in 0..Scale - 1
      BY <2>3, <3>1, QuotientBelowScale DEF Fraction
    <3>3. Fraction % Scale = Fraction
      BY <2>3, <3>2
    <3>4. Scale * s32Increment \in Nat
      BY <2>3
    <3>5. /\ Fraction * s32Step <= Scale * s32Increment
          /\ Scale * s32Increment < (Fraction + 1) * s32Step
      BY <2>3, <3>4, Quotient DEF Fraction
    <3> QED
      BY <2>1, <2>2, <2>5, <3>3, <3>5
  <2> QED
    BY <2>4, <2>5
<1>3. CASE ComputeOffsetFromNull
  BY <1>1, <1>3 DEF ComputeOffsetFromNull, OffsetIsFraction
<1>4. CASE NotSearched \/ Below \/ Above
  <2>1. ~boResultFound'
    BY <1>1, <1>4, Zenon DEF NotSearched, Below, Above, Finish, FoundAtEnd
  <2> QED
    BY <2>1 DEF OffsetIsFraction
<1>5. CASE ~(NotSearched \/ Below \/ Above \/ ComputeOffset \/ ComputeOffsetFromNull)
  <2>1. pc' # "done"
    BY <1>5 DEF Next, BeginSearch, FoundExact, FoundLeft, FoundHere, Found, AtCur, Left,
           Right, MoveLeft, MoveRight, Move, Measure, Halve
  <2> QED
    BY <2>1 DEF OffsetIsFraction
<1> QED
  BY <1>2, <1>3, <1>4, <1>5

-----------------------------------------------------------------------------
LEMMA StutterIInv == IInv /\ UNCHANGED vars => IInv'
<1> SUFFICES ASSUME IInv, UNCHANGED vars PROVE IInv'
  OBVIOUS
<1>1. TypeOK'
  BY Zenon DEF IInv, TypeOK, vars, places, n
<1>2. SearchedBetween' /\ FoundCell' /\ Measured'
  BY DEF IInv, SearchedBetween, Between, FoundCell, Measured, InCell, width, vars, places,
         n, sp, source
<1>3. FoundAtEnd' /\ DoneBetween' /\ Located'
  BY DEF IInv, FoundAtEnd, DoneBetween, Located, InCell, vars, places, n, sp, source
<1>4. OffsetIsFraction'
  BY DEF IInv, OffsetIsFraction, width, vars, places, sp, source
<1> QED
  BY <1>1, <1>2, <1>3, <1>4 DEF IInv

LEMMA Invariance == Spec => []IInv
<1>1. IInv /\ [Next]_vars => IInv'
  BY TypeStep, SearchStep, MeasuredStep, LocatedStep, OffsetStep, StutterIInv DEF IInv
<1> QED
  BY <1>1, InitIInv, PTL DEF Spec

(* The places and the result stay within the spread of the call, whatever  *)
(* its size.                                                               *)
THEOREM TypeCorrect == Spec => []TypeOK
<1>1. IInv => TypeOK
  BY DEF IInv
<1> QED
  BY <1>1, Invariance, PTL

(* SPREAD_vCalculate reads no breakpoint outside the spread, whatever its  *)
(* size and wherever the bisection has come to.                            *)
THEOREM NeverReadsOutside == Spec => []ReadsInside
BY CanLook, Invariance, PTL

(* When SPREAD_vCalculate returns, the result is the cell of the source.   *)
THEOREM FindsTheCell == Spec => []Located
<1>1. IInv => Located
  BY DEF IInv
<1> QED
  BY <1>1, Invariance, PTL

(* And the offset is the fraction of the cell, unless the cell is wide.    *)
THEOREM FindsTheFraction == Spec => []OffsetIsFraction
<1>1. IInv => OffsetIsFraction
  BY DEF IInv
<1> QED
  BY <1>1, Invariance, PTL
-----------------------------------------------------------------------------
(* TABLE_vCalculate and MAP_vCalculate.  What they make of a result needs  *)
(* more of the search: at the start of a cell the offset is 0, and the     *)
(* calls that end without a search are at an end of the spread.            *)
StartOfCell ==
  call.kind # "uint16" /\ source = sp(u16SpreadIndex) =>
    /\ pc = "divide" => s32Increment = 0
    /\ pc = "done" /\ boResultFound => u16SpreadOffset = 0
EndOfSpread ==
  pc = "done" /\ ~boResultFound /\ call.kind \in Searched /\ source >= sp(0) =>
    u16SpreadIndex = n - 2 /\ u16SpreadOffset = Scale - 1 /\ source >= sp(n - 1)
(* A lookup is of the spread of the call, and its result the one computed. *)
Calculated ==
  \/ lookup = NotYet
  \/ /\ pc = "done"
     /\ \E t \in Tables :
          /\ t.spread = call.spread
          /\ lookup = [of |-> "table", table |-> t, out |-> TableResult(t)]
  \/ /\ pc = "done"
     /\ \E m \in Maps : \E column \in 0..m.row - 2, offset \in ColumnOffsets :
          /\ m.spread = call.spread
          /\ lookup = [of |-> "map", map |-> m, column |-> column, offset |-> offset,
                       out |-> MapResult(m, column, offset)]
LookupInv == IInv /\ StartOfCell /\ EndOfSpread /\ Calculated

LEMMA InitLookup == LookupInit => LookupInv
<1> SUFFICES ASSUME LookupInit PROVE LookupInv
  OBVIOUS
<1>1. IInv /\ pc = "start" /\ lookup = NotYet
  BY InitIInv DEF LookupInit, Init
<1> QED
  BY <1>1 DEF LookupInv, StartOfCell, EndOfSpread, Calculated

LEMMA StartStep == IInv /\ StartOfCell /\ Next => StartOfCell'
<1> SUFFICES ASSUME IInv, StartOfCell, Next PROVE StartOfCell'
  OBVIOUS
<1>1. TypeOK /\ FoundAtEnd /\ call' = call
  BY SameCall DEF IInv
<1>2. CASE Measure
  <2>1. /\ pc' = "divide" /\ u16SpreadIndex' = u16SpreadIndex
        /\ s32Increment' = source - sp(u16SpreadIndex)
    BY <1>2 DEF Measure
  <2>2. source \in Int
    BY <1>1, Call
  <2> QED
    BY <1>1, <2>1, <2>2 DEF StartOfCell, sp, source
<1>3. CASE Halve
  <2>1. /\ pc = "divide" /\ pc' = "divide" /\ u16SpreadIndex' = u16SpreadIndex
        /\ s32Increment' = s32Increment \div 2
    BY <1>3 DEF Halve
  <2>2. s32Increment = 0 => s32Increment' = 0
    BY <2>1
  <2> QED
    BY <1>1, <2>1, <2>2 DEF StartOfCell, sp, source
<1>4. CASE ComputeOffset
  <2>1. /\ pc = "divide" /\ pc' = "done" /\ u16SpreadIndex' = u16SpreadIndex
        /\ u16SpreadOffset' = Fraction % Scale
    BY <1>4 DEF ComputeOffset
  <2>2. ASSUME s32Increment = 0  PROVE u16SpreadOffset' = 0
    <3>1. s32Step \in Nat \ {0} /\ Scale \in Nat \ {0, 1}
      BY <1>1, ScaleAssumption DEF TypeOK
    <3>2. Fraction = 0
      <4>1. Scale * s32Increment = 0
        BY <2>2, <3>1
      <4> QED
        BY <3>1, <4>1 DEF Fraction
    <3> QED
      BY <2>1, <3>1, <3>2
  <2> QED
    BY <1>1, <2>1, <2>2 DEF StartOfCell, sp, source
<1>5. CASE ComputeOffsetFromNull
  BY <1>1, <1>5 DEF ComputeOffsetFromNull, StartOfCell
<1>6. CASE NotSearched \/ Below \/ Above
  <2>1. ~boResultFound'
    BY <1>1, <1>6, Zenon DEF NotSearched, Below, Above, Finish, FoundAtEnd
  <2>2. pc' = "done"
    BY <1>6 DEF NotSearched, Below, Above, Finish
  <2> QED
    BY <2>1, <2>2 DEF StartOfCell
<1>7. CASE ~(\/ NotSearched \/ Below \/ Above \/ Measure \/ Halve
             \/ ComputeOffset \/ ComputeOffsetFromNull)
  <2>1. pc' # "done" /\ pc' # "divide"
    BY <1>7 DEF Next, BeginSearch, FoundExact, FoundLeft, FoundHere, Found, AtCur, Left,
           Right, MoveLeft, MoveRight, Move
  <2> QED
    BY <2>1 DEF StartOfCell
<1> QED
  BY <1>2, <1>3, <1>4, <1>5, <1>6, <1>7

LEMMA EndStep == IInv /\ EndOfSpread /\ Next => EndOfSpread'
<1> SUFFICES ASSUME IInv, EndOfSpread, Next PROVE EndOfSpread'
  OBVIOUS
<1>1. TypeOK /\ FoundAtEnd /\ FoundCell /\ call' = call
  BY SameCall DEF IInv
<1>2. source \in Int /\ sp(0) \in Int
  BY <1>1, Call
<1>3. CASE NotSearched \/ Below
  <2>1. call.kind \notin Searched \/ ~(source >= sp(0))
    BY <1>2, <1>3 DEF NotSearched, Below
  <2> QED
    BY <1>1, <2>1 DEF EndOfSpread, source, sp
<1>4. CASE Above
  BY <1>1, <1>4 DEF Above, Finish, AtOrPastLast, EndOfSpread, n, source, sp
<1>5. CASE ComputeOffset \/ ComputeOffsetFromNull
  <2>1. boResultFound'
    BY <1>1, <1>5, Zenon DEF ComputeOffset, ComputeOffsetFromNull, FoundCell
  <2> QED
    BY <2>1 DEF EndOfSpread
<1>6. CASE ~(NotSearched \/ Below \/ Above \/ ComputeOffset \/ ComputeOffsetFromNull)
  <2>1. pc' # "done"
    BY <1>6 DEF Next, BeginSearch, FoundExact, FoundLeft, FoundHere, Found, AtCur, Left,
           Right, MoveLeft, MoveRight, Move, Measure, Halve
  <2> QED
    BY <2>1 DEF EndOfSpread
<1> QED
  BY <1>3, <1>4, <1>5, <1>6

(* A call that has returned is not taken up again.                         *)
LEMMA Returned == Next => pc # "done"
BY DEF Next, NotSearched, Below, Above, Finish, BeginSearch, FoundExact, FoundLeft,
       FoundHere, Found, AtCur, Left, Right, MoveLeft, MoveRight, Move, Measure, Halve,
       ComputeOffset, ComputeOffsetFromNull

LEMMA SameResult ==
  ASSUME UNCHANGED vars
  PROVE  /\ \A t : TableResult(t)' = TableResult(t)
         /\ \A m, column, offset : MapResult(m, column, offset)' = MapResult(m, column, offset)
BY DEF vars, places, TableResult, MapResult, Int32MapResult

LEMMA LookupStep == LookupInv /\ [LookupNext]_lookupVars => LookupInv'
<1> SUFFICES ASSUME LookupInv, [LookupNext]_lookupVars PROVE LookupInv'
  OBVIOUS
<1>1. IInv /\ StartOfCell /\ EndOfSpread /\ Calculated
  BY DEF LookupInv
<1>2. CASE Next /\ UNCHANGED lookup
  <2>1. IInv'
    BY <1>1, <1>2, TypeStep, SearchStep, MeasuredStep, LocatedStep, OffsetStep DEF IInv
  <2>2. lookup = NotYet /\ lookup' = lookup
    BY <1>1, <1>2, Returned DEF Calculated
  <2> QED
    BY <1>1, <1>2, <2>1, <2>2, StartStep, EndStep DEF LookupInv, Calculated, NotYet
<1>3. CASE UNCHANGED vars
  <2>1. IInv'
    BY <1>1, <1>3, StutterIInv
  <2>2. StartOfCell' /\ EndOfSpread'
    BY <1>1, <1>3 DEF StartOfCell, EndOfSpread, vars, places, n, sp, source
  <2>3. pc' = pc /\ call' = call
    BY <1>3 DEF vars
  <2>4. Calculated'
    <3>1. CASE TableCalculate
      <4>1. PICK t \in Tables :
              /\ pc = "done" /\ t.spread = call.spread
              /\ lookup' = [of |-> "table", table |-> t, out |-> TableResult(t)]
        BY <3>1 DEF TableCalculate
      <4> QED
        BY <1>3, <2>3, <4>1, SameResult DEF Calculated
    <3>2. CASE MapCalculate
      <4>1. PICK m \in Maps : \E column \in 0..m.row - 2, offset \in ColumnOffsets :
              /\ pc = "done" /\ m.spread = call.spread
              /\ lookup' = [of |-> "map", map |-> m, column |-> column,
                            offset |-> offset, out |-> MapResult(m, column, offset)]
        BY <3>2 DEF MapCalculate
      <4> QED
        BY <1>3, <2>3, <4>1, SameResult DEF Calculated
    <3>3. CASE UNCHANGED lookup
      BY <1>1, <1>3, <2>3, <3>3, SameResult DEF Calculated, NotYet
    <3> QED
      BY <3>1, <3>2, <3>3 DEF LookupNext, lookupVars
  <2> QED
    BY <2>1, <2>2, <2>4 DEF LookupInv
<1> QED
  BY <1>2, <1>3 DEF LookupNext, lookupVars, TableCalculate, MapCalculate

LEMMA LookupInvariance == LookupSpec => []LookupInv
BY InitLookup, LookupStep, PTL DEF LookupSpec
-----------------------------------------------------------------------------
(* The arithmetic of the interpolations.                                   *)
LEMMA Widths ==
  /\ Scale \in Nat /\ Scale >= 8 /\ Half \in Nat \ {0} /\ Scale = 4 * Half /\ Half % 2 = 0
  /\ ones \in Nat /\ ones >= 7 /\ ones = Scale - 1
  /\ Long \in Nat /\ Long = Scale * Scale /\ Long = ones * ones + 2 * ones + 1
<1>1. Scale \in Nat \ {0, 1} /\ Scale % 8 = 0
  BY ScaleAssumption, WidthAssumption
<1>2. Half \in Nat \ {0} /\ Scale = 4 * Half /\ Half % 2 = 0 /\ Scale >= 8
  BY <1>1 DEF Half
<1>3. ones \in Nat /\ ones >= 7 /\ ones = Scale - 1
  BY <1>1, <1>2 DEF ones
<1>4. Long \in Nat /\ Long = Scale * Scale
  BY <1>1 DEF Long
<1>5. Scale * Scale = (ones + 1) * (ones + 1) /\ (ones + 1) * (ones + 1) = ones * ones + 2 * ones + 1
  BY <1>1, <1>3
<1> QED
  BY <1>1, <1>2, <1>3, <1>4, <1>5

LEMMA QuotientOf ==
  ASSUME NEW a \in Int, NEW b \in Nat \ {0}
  PROVE  /\ a \div b \in Int
         /\ (a \div b) * b <= a /\ a < (a \div b) * b + b
OBVIOUS

LEMMA QuotientIs ==
  ASSUME NEW a \in Int, NEW b \in Nat \ {0}, NEW q \in Int, q * b <= a, a < q * b + b
  PROVE  a \div b = q
<1> DEFINE p == a \div b
<1>1. p \in Int /\ p * b <= a /\ a < p * b + b
  BY QuotientOf
<1> HIDE DEF p
<1>2. ASSUME p < q PROVE FALSE
  <2>1. (p + 1) * b <= q * b /\ (p + 1) * b = p * b + b
    BY <1>1, <1>2
  <2> QED
    BY <1>1, <2>1
<1>3. ASSUME q < p PROVE FALSE
  <2>1. (q + 1) * b <= p * b /\ (q + 1) * b = q * b + b
    BY <1>1, <1>3
  <2> QED
    BY <1>1, <2>1
<1>4. p = q
  BY <1>1, <1>2, <1>3
<1> QED
  BY <1>4 DEF p

(* A quotient lies where the dividend does.                                *)
LEMMA QuotientIn ==
  ASSUME NEW a \in Int, NEW b \in Nat \ {0}, NEW lo \in Int, NEW hi \in Int,
         lo * b <= a, a < hi * b + b
  PROVE  a \div b \in lo..hi
<1> DEFINE p == a \div b
<1>1. p \in Int /\ p * b <= a /\ a < p * b + b
  BY QuotientOf
<1> HIDE DEF p
<1>2. ASSUME p < lo PROVE FALSE
  <2>1. (p + 1) * b <= lo * b /\ (p + 1) * b = p * b + b
    BY <1>1, <1>2
  <2> QED
    BY <1>1, <2>1
<1>3. ASSUME hi < p PROVE FALSE
  <2>1. (hi + 1) * b <= p * b /\ (hi + 1) * b = hi * b + b
    BY <1>1, <1>3
  <2> QED
    BY <1>1, <2>1
<1>4. p \in lo..hi
  BY <1>1, <1>2, <1>3
<1> QED
  BY <1>4 DEF p

LEMMA QuotientRises ==
  ASSUME NEW a \in Int, NEW c \in Int, NEW b \in Nat \ {0}, a <= c
  PROVE  a \div b <= c \div b
<1>1. /\ a \div b \in Int /\ (a \div b) * b <= a /\ c \div b \in Int /\ c < (c \div b) * b + b
  BY QuotientOf
<1> DEFINE p == a \div b
           q == c \div b
<1> HIDE DEF p, q
<1>2. p \in Int /\ q \in Int /\ p * b <= a /\ c < q * b + b
  BY <1>1 DEF p, q
<1>3. ASSUME q < p PROVE FALSE
  <2>1. (q + 1) * b <= p * b /\ (q + 1) * b = q * b + b
    BY <1>2, <1>3
  <2> QED
    BY <1>2, <2>1
<1>4. p <= q
  BY <1>2, <1>3
<1> QED
  BY <1>4 DEF p, q

(* What fits the width is kept, and what is one round off comes back.      *)
LEMMA RemainderIs ==
  ASSUME NEW m \in Nat \ {0}, NEW x \in Int, NEW k \in Int, k * m <= x, x < k * m + m
  PROVE  x % m = x - k * m
<1>1. x \div m = k
  BY QuotientIs
<1>2. x % m = x - m * (x \div m)
  OBVIOUS
<1>3. m * k = k * m
  OBVIOUS
<1> QED
  BY <1>1, <1>2, <1>3

LEMMA Kept ==
  ASSUME NEW m \in Nat \ {0}, NEW x \in Int, 0 <= x, x < m
  PROVE  x % m = x
BY RemainderIs

LEMMA SignKept ==
  ASSUME NEW m \in Nat \ {0}, m % 2 = 0, NEW x \in Int, NEW k \in Int,
         -(m \div 2) <= x, x < m \div 2
  PROVE  Signed(k * m + x, m) = x
<1>1. m \div 2 \in Nat /\ 2 * (m \div 2) = m
  OBVIOUS
<1>2. k * m \in Int
  OBVIOUS
<1>3. CASE x >= 0
  <2>1. (k * m + x) % m = (k * m + x) - k * m
    BY <1>1, <1>2, <1>3, RemainderIs
  <2> QED
    BY <1>1, <1>2, <1>3, <2>1 DEF Signed
<1>4. CASE x < 0
  <2>1. k - 1 \in Int /\ (k - 1) * m = k * m - m
    OBVIOUS
  <2>2. k * m + x \in Int /\ (k - 1) * m <= k * m + x /\ k * m + x < (k - 1) * m + m
    BY <1>1, <1>2, <1>4, <2>1
  <2>3. (k * m + x) % m = (k * m + x) - (k - 1) * m
    BY <2>1, <2>2, RemainderIs
  <2> QED
    BY <1>1, <1>2, <1>4, <2>1, <2>3 DEF Signed
<1> QED
  BY <1>3, <1>4

LEMMA SignKeptHere ==
  ASSUME NEW m \in Nat \ {0}, m % 2 = 0, NEW x \in Int, -(m \div 2) <= x, x < m \div 2
  PROVE  Signed(x, m) = x
<1>1. PICK k \in Int : k = 0
  OBVIOUS
<1>2. Signed(k * m + x, m) = x
  BY SignKept, Zenon
<1>3. k * m + x = x
  BY <1>1
<1> QED
  BY <1>2, <1>3

(* A weighted mean lies between its two values.                            *)
LEMMA Mean ==
  ASSUME NEW all \in Nat, NEW offset \in 0..all, NEW a \in Int, NEW b \in Int,
         NEW lo \in Int, NEW hi \in Int, lo <= a, a <= hi, lo <= b, b <= hi
  PROVE  /\ b * offset + a * (all - offset) \in Int
         /\ lo * all <= b * offset + a * (all - offset)
         /\ b * offset + a * (all - offset) <= hi * all
<1>1. offset \in Nat /\ all - offset \in Nat
  OBVIOUS
<1>2. b * offset \in Int /\ a * (all - offset) \in Int
  BY <1>1
<1>3. lo * offset <= b * offset /\ b * offset <= hi * offset
  BY <1>1
<1>4. lo * (all - offset) <= a * (all - offset) /\ a * (all - offset) <= hi * (all - offset)
  BY <1>1
<1>5. lo * offset + lo * (all - offset) = lo * all /\ hi * offset + hi * (all - offset) = hi * all
  BY <1>1
<1>6. /\ lo * offset \in Int /\ hi * offset \in Int /\ lo * all \in Int /\ hi * all \in Int
      /\ lo * (all - offset) \in Int /\ hi * (all - offset) \in Int
  BY <1>1
<1> QED
  BY <1>2, <1>3, <1>4, <1>5, <1>6

(* Halving until both ends of the cell fit: the factor that does it, which *)
(* no smaller one does.                                                    *)
LEMMA FactorIs ==
  ASSUME NEW l, NEW r, \E f \in Powers : Fits(l, f) /\ Fits(r, f)
  PROVE  /\ Factor(l, r) \in Powers /\ Fits(l, Factor(l, r)) /\ Fits(r, Factor(l, r))
         /\ \A g \in Powers : Fits(l, g) /\ Fits(r, g) => Factor(l, r) <= g
<1> DEFINE T == {f \in Powers : Fits(l, f) /\ Fits(r, f)}
<1>1. Powers \subseteq Nat
  BY DEF Powers
<1>2. T \subseteq Nat /\ T # {}
  BY <1>1
<1>3. \E f \in T : \A g \in T : ~(<<g, f>> \in OpToRel(<, Nat))
  BY <1>2, NatLessThanWellFounded, WFMin, Zenon
<1>4. PICK f \in T : \A g \in T : ~(<<g, f>> \in OpToRel(<, Nat))
  BY <1>3
<1>5. ASSUME NEW g \in T  PROVE f <= g
  <2>1. f \in Nat /\ g \in Nat
    BY <1>2
  <2>2. ~(<<g, f>> \in {ss \in Nat \X Nat : ss[1] < ss[2]})
    BY <1>4 DEF OpToRel
  <2>3. ~(g < f)
    BY <2>1, <2>2
  <2> QED
    BY <2>1, <2>3
<1> QED
  BY <1>4, <1>5 DEF Factor

LEMMA PowersArePositive == Powers \subseteq Nat \ {0} /\ 1 \in Powers /\ 2 \in Powers /\ 4 \in Powers
BY DEF Powers

LEMMA SmallPowers == \A f \in Powers : f <= 4 => f \in {1, 2, 4}
BY DEF Powers

LEMMA FitsIs ==
  ASSUME NEW x \in Int, NEW f \in Nat \ {0}
  PROVE  Fits(x, f) <=> Magnitude(x) \div f < Half
<1>1. CASE x >= 0
  <2>1. x \div f \in Int /\ x \div f >= 0
    BY <1>1, QuotientIn, QuotientOf
  <2> QED
    BY <1>1, <2>1 DEF Fits, Trunc, Magnitude
<1>2. CASE x < 0
  <2>1. (-x) \div f \in Int /\ (-x) \div f >= 0
    BY <1>2
  <2> QED
    BY <1>2, <2>1 DEF Fits, Trunc, Magnitude
<1> QED
  BY <1>1, <1>2

(* Each type has a factor that is large enough; small data need none.      *)
LEMMA LongFits ==
  ASSUME NEW x \in Int, Magnitude(x) < Long
  PROVE  4 * Scale \in Powers /\ Fits(x, 4 * Scale)
<1>1. 4 * Scale \in Powers /\ 4 * Scale \in Nat \ {0}
  BY Widths, WidthAssumption
<1>2. Magnitude(x) \in Nat
  BY DEF Magnitude
<1>3. (Half - 1) * (4 * Scale) + 4 * Scale = Long
  <2>1. (Half - 1) * (4 * Scale) + 4 * Scale = (4 * Half) * Scale
    BY Widths
  <2> QED
    BY <2>1, Widths
<1>4. Magnitude(x) \div (4 * Scale) \in 0..Half - 1
  <2>1. 0 * (4 * Scale) <= Magnitude(x)
    BY <1>1, <1>2
  <2>2. Half - 1 \in Int
    BY Widths
  <2> QED
    BY <1>1, <1>2, <1>3, <2>1, <2>2, QuotientIn
<1> QED
  BY <1>1, <1>4, FitsIs, Widths

LEMMA ShortFits ==
  ASSUME NEW x \in Data("short")
  PROVE  x \in Int /\ -2 * Half <= x /\ x <= 2 * Half - 1 /\ Fits(x, 4)
<1>1. x \in Int /\ -2 * Half <= x /\ x <= 2 * Half - 1
  BY Widths DEF Data
<1>2. Magnitude(x) \in Nat /\ Magnitude(x) <= 2 * Half
  BY <1>1, Widths DEF Magnitude
<1>3. Magnitude(x) \div 4 < Half
  BY <1>2, Widths
<1> QED
  BY <1>1, <1>3, FitsIs

LEMMA SmallFits ==
  ASSUME NEW x \in 0..Half - 1
  PROVE  Fits(x, 1)
<1>1. x \in Int /\ Magnitude(x) = x /\ x < Half /\ x \div 1 = x
  BY Widths DEF Magnitude
<1> QED
  BY <1>1, FitsIs

LEMMA FactorOfSmall ==
  ASSUME NEW l \in 0..Half - 1, NEW r \in 0..Half - 1
  PROVE  Factor(l, r) = 1
<1>1. Fits(l, 1) /\ Fits(r, 1)
  BY SmallFits
<1>2. Factor(l, r) \in Powers /\ Factor(l, r) <= 1
  BY <1>1, FactorIs, PowersArePositive
<1>3. Factor(l, r) \in Nat \ {0}
  BY <1>2, PowersArePositive
<1> QED
  BY <1>2, <1>3

LEMMA FactorOfShort ==
  ASSUME NEW l \in Data("short"), NEW r \in Data("short")
  PROVE  /\ Factor(l, r) \in {1, 2, 4}
         /\ Fits(l, Factor(l, r)) /\ Fits(r, Factor(l, r))
<1>1. Fits(l, 4) /\ Fits(r, 4)
  BY ShortFits
<1>2. /\ Factor(l, r) \in Powers /\ Factor(l, r) <= 4
      /\ Fits(l, Factor(l, r)) /\ Fits(r, Factor(l, r))
  BY <1>1, FactorIs, PowersArePositive
<1> QED
  BY <1>2, SmallPowers

LEMMA FactorOfLong ==
  ASSUME NEW l \in Int, NEW r \in Int, Magnitude(l) < Long, Magnitude(r) < Long
  PROVE  /\ Factor(l, r) \in Powers /\ Factor(l, r) \in Nat \ {0}
         /\ Fits(l, Factor(l, r)) /\ Fits(r, Factor(l, r))
<1>1. 4 * Scale \in Powers /\ Fits(l, 4 * Scale) /\ Fits(r, 4 * Scale)
  BY LongFits
<1> QED
  BY <1>1, FactorIs, PowersArePositive

(* What is lost by halving: nothing above, less than the factor below.     *)
LEMMA Halved ==
  ASSUME NEW x \in Int, NEW f \in Nat \ {0}
  PROVE  /\ x \div f \in Int /\ (x \div f) * f \in Int
         /\ x - (f - 1) <= (x \div f) * f /\ (x \div f) * f <= x
<1>1. x \div f \in Int /\ (x \div f) * f <= x /\ x < (x \div f) * f + f
  BY QuotientOf
<1>2. (x \div f) * f \in Int
  BY <1>1
<1> QED
  BY <1>1, <1>2

LEMMA MeanQuotient ==
  ASSUME NEW all \in Nat \ {0}, NEW offset \in 0..all, NEW a \in Int, NEW b \in Int
  PROVE  LET w == b * offset + a * (all - offset) IN
         /\ w \in Int /\ w \div all \in Int
         /\ (w \div all >= a \/ w \div all >= b)
         /\ (w \div all <= a \/ w \div all <= b)
<1> DEFINE w == b * offset + a * (all - offset)
<1>1. PICK lo \in {a, b} : lo <= a /\ lo <= b
  OBVIOUS
<1>2. PICK hi \in {a, b} : a <= hi /\ b <= hi
  OBVIOUS
<1>3. lo \in Int /\ hi \in Int
  OBVIOUS
<1>4. w \in Int /\ lo * all <= w /\ w <= hi * all
  BY <1>1, <1>2, <1>3, Mean
<1> HIDE DEF w
<1>5. w < hi * all + all
  BY <1>3, <1>4
<1>6. w \div all \in lo..hi
  BY <1>3, <1>4, <1>5, QuotientIn
<1> QED
  BY <1>1, <1>2, <1>3, <1>4, <1>6 DEF w

(* The sum of the two products is far from the width of the products.      *)
LEMMA SumFits ==
  ASSUME NEW a \in Int, NEW b \in Int, NEW offset \in 0..ones,
         -Half <= a, a <= Half, -Half <= b, b <= Half
  PROVE  /\ Weighted(a, b, offset) \in Int
         /\ -(Half * ones) <= Weighted(a, b, offset)
         /\ Weighted(a, b, offset) <= Half * ones
<1>1. Half \in Int /\ -Half \in Int /\ ones \in Nat
  BY Widths
<1>2. (-Half) * ones = -(Half * ones)
  BY <1>1
<1>3. LET w == b * offset + a * (ones - offset) IN
      w \in Int /\ (-Half) * ones <= w /\ w <= Half * ones
  BY <1>1, Mean
<1> QED
  BY <1>2, <1>3 DEF Weighted

LEMMA Room == Half * ones \in Nat /\ 4 * (Half * ones) < Long /\ Long \div 2 \in Nat
              /\ Long % 2 = 0 /\ 2 * (Half * ones) < Long \div 2 /\ Long = 2 * (Long \div 2)
<1>1. Half * ones \in Nat /\ 4 * (Half * ones) = Scale * ones
  BY Widths
<1>2. Scale * ones = Scale * Scale - Scale
  BY Widths
<1>3. Long = 2 * (2 * Half * Scale)
  <2>1. Long = (4 * Half) * Scale
    BY Widths
  <2> QED
    BY <2>1, Widths
<1>4. 2 * Half * Scale \in Nat /\ Scale \in Nat /\ Scale > 0 /\ Long \in Nat /\ Long = Scale * Scale
  BY Widths
<1> QED
  BY <1>1, <1>2, <1>3, <1>4

-----------------------------------------------------------------------------
(* The three interpolations of a table.  What comes out is as far from the *)
(* ends of the cell as halving takes it.                                   *)
NotBelow(out, l, r, lost) == out >= l - lost \/ out >= r - lost
NotAbove(out, l, r, lost) == out <= l + lost \/ out <= r + lost

LEMMA UInt32IsBetween ==
  ASSUME NEW l \in Data("uint32"), NEW r \in Data("uint32"), NEW offset \in 0..ones
  PROVE  LET f == Factor(l, r)
             out == UInt32Interp(l, r, offset)
         IN /\ out \in Int /\ f \in Nat \ {0}
            /\ NotBelow(out, l, r, f - 1) /\ NotAbove(out, l, r, 0)
            /\ out = (Weighted(l \div f, r \div f, offset) \div ones) * f
<1> DEFINE f == Factor(l, r)
           a == l \div f
           b == r \div f
           w == Weighted(a, b, offset)
           q == w \div ones
<1>1. l \in Int /\ r \in Int /\ 0 <= l /\ l < Long /\ 0 <= r /\ r < Long
  BY Widths DEF Data
<1>2. Magnitude(l) = l /\ Magnitude(r) = r
  BY <1>1 DEF Magnitude
<1>3. f \in Nat \ {0} /\ a < Half /\ b < Half
  BY <1>1, <1>2, FactorOfLong, FitsIs
<1> HIDE DEF f
<1>4. /\ a \in Int /\ b \in Int /\ 0 <= a /\ 0 <= b
  <2>1. a \in Int /\ b \in Int
    BY <1>1, <1>3, Halved
  <2>2. 0 \div f = 0
    BY <1>3
  <2>3. 0 \div f <= a /\ 0 \div f <= b
    BY <1>1, <1>3, QuotientRises
  <2> QED
    BY <2>1, <2>2, <2>3
<1>5. l - (f - 1) <= a * f /\ a * f <= l /\ r - (f - 1) <= b * f /\ b * f <= r
  BY <1>1, <1>3, Halved
<1> HIDE DEF a, b
<1>6. ones \in Nat \ {0} /\ Half \in Nat
  BY Widths
<1>7. w \in Int /\ q \in Int /\ (q >= a \/ q >= b) /\ (q <= a \/ q <= b)
  BY <1>4, <1>6, MeanQuotient DEF Weighted
<1>8. 0 <= w /\ w <= Half * ones
  <2>1. 0 * ones <= w /\ w <= Half * ones
    BY <1>3, <1>4, <1>6, Mean DEF Weighted
  <2> QED
    BY <1>6, <2>1
<1>9. w % Long = w
  BY <1>7, <1>8, Room, Widths, Kept
<1> HIDE DEF w, q
<1>10. /\ q * f \in Int
       /\ q * f >= a * f \/ q * f >= b * f
       /\ q * f <= a * f \/ q * f <= b * f
       /\ a * f \in Int /\ b * f \in Int /\ 0 <= a * f /\ 0 <= b * f
  BY <1>3, <1>4, <1>7
<1>11. 0 <= q * f /\ q * f < Long
  BY <1>1, <1>5, <1>10, Widths
<1>12. (q * f) % Long = q * f
  BY <1>10, <1>11, Widths, Kept
<1>13. UInt32Interp(l, r, offset) = q * f
  BY <1>9, <1>12 DEF UInt32Interp, f, a, b, w, q
<1>14. NotBelow(q * f, l, r, f - 1) /\ NotAbove(q * f, l, r, 0)
  BY <1>1, <1>3, <1>5, <1>10 DEF NotBelow, NotAbove
<1> QED
  BY <1>3, <1>10, <1>13, <1>14 DEF f, a, b, w, q

(* Division that rounds towards zero.                                      *)
LEMMA TruncOf ==
  ASSUME NEW x \in Int, NEW d \in Nat \ {0}
  PROVE  /\ Trunc(x, d) \in Int /\ Trunc(x, d) * d \in Int
         /\ x - (d - 1) <= Trunc(x, d) * d /\ Trunc(x, d) * d <= x + (d - 1)
         /\ x >= 0 => 0 <= Trunc(x, d) * d /\ Trunc(x, d) * d <= x
         /\ x <= 0 => Trunc(x, d) * d <= 0 /\ x <= Trunc(x, d) * d
<1>1. CASE x >= 0
  <2>1. x \div d \in Int /\ (x \div d) * d <= x /\ x < (x \div d) * d + d /\ x \div d >= 0
    BY <1>1, QuotientOf
  <2>2. (x \div d) * d \in Int /\ (x \div d) * d >= 0
    BY <2>1
  <2> QED
    BY <1>1, <2>1, <2>2 DEF Trunc
<1>2. CASE x < 0
  <2>1. (-x) \div d \in Int /\ ((-x) \div d) * d <= -x /\ -x < ((-x) \div d) * d + d
        /\ (-x) \div d >= 0
    BY <1>2, QuotientOf
  <2>2. ((-x) \div d) * d \in Int /\ ((-x) \div d) * d >= 0
        /\ (-((-x) \div d)) * d = -(((-x) \div d) * d)
    BY <2>1
  <2> QED
    BY <1>2, <2>1, <2>2 DEF Trunc
<1> QED
  BY <1>1, <1>2

LEMMA TruncBetween ==
  ASSUME NEW d \in Nat \ {0}, NEW lo \in Int, NEW hi \in Int, NEW x \in Int,
         lo * d <= x, x <= hi * d
  PROVE  Trunc(x, d) \in lo..hi
<1>1. CASE x >= 0
  <2>1. x < hi * d + d
    OBVIOUS
  <2> QED
    BY <1>1, <2>1, QuotientIn DEF Trunc
<1>2. CASE x < 0
  <2>1. (-hi) * d = -(hi * d) /\ (-lo) * d = -(lo * d)
    OBVIOUS
  <2>2. (-hi) * d <= -x /\ -x < (-lo) * d + d
    BY <2>1
  <2>3. (-x) \div d \in (-hi)..(-lo)
    BY <2>2, QuotientIn
  <2> QED
    BY <1>2, <2>3 DEF Trunc
<1> QED
  BY <1>1, <1>2

LEMMA MeanTrunc ==
  ASSUME NEW all \in Nat \ {0}, NEW offset \in 0..all, NEW a \in Int, NEW b \in Int
  PROVE  LET w == b * offset + a * (all - offset) IN
         /\ w \in Int /\ Trunc(w, all) \in Int
         /\ (Trunc(w, all) >= a \/ Trunc(w, all) >= b)
         /\ (Trunc(w, all) <= a \/ Trunc(w, all) <= b)
<1> DEFINE w == b * offset + a * (all - offset)
<1>1. PICK lo \in {a, b} : lo <= a /\ lo <= b
  OBVIOUS
<1>2. PICK hi \in {a, b} : a <= hi /\ b <= hi
  OBVIOUS
<1>3. lo \in Int /\ hi \in Int
  OBVIOUS
<1>4. w \in Int /\ lo * all <= w /\ w <= hi * all
  BY <1>1, <1>2, <1>3, Mean
<1> HIDE DEF w
<1>5. Trunc(w, all) \in lo..hi
  BY <1>3, <1>4, TruncBetween
<1> QED
  BY <1>1, <1>2, <1>3, <1>4, <1>5 DEF w

LEMMA Int32IsBetween ==
  ASSUME NEW l \in Data("int32"), NEW r \in Data("int32"), NEW offset \in 0..ones
  PROVE  LET f == Factor(l, r)
             out == Int32Interp(l, r, offset)
         IN /\ out \in Int /\ f \in Nat \ {0}
            /\ NotBelow(out, l, r, f - 1) /\ NotAbove(out, l, r, f - 1)
            /\ out = Trunc(Weighted(Trunc(l, f), Trunc(r, f), offset), ones) * f
<1> DEFINE f == Factor(l, r)
           a == Trunc(l, f)
           b == Trunc(r, f)
           w == Weighted(a, b, offset)
           q == Trunc(w, ones)
<1>1. /\ l \in Int /\ r \in Int /\ -(Long \div 2) <= l /\ l < Long \div 2
      /\ -(Long \div 2) <= r /\ r < Long \div 2
  BY Room DEF Data
<1>2. Long \in Nat /\ Long \div 2 \in Nat /\ Long \div 2 < Long
  BY Room, Widths
<1>3. Magnitude(l) < Long /\ Magnitude(r) < Long
  BY <1>1, <1>2 DEF Magnitude
<1>4. f \in Nat \ {0} /\ Magnitude(a) < Half /\ Magnitude(b) < Half
  BY <1>1, <1>3, FactorOfLong DEF Fits
<1> HIDE DEF f
<1>5. /\ a \in Int /\ a * f \in Int /\ l - (f - 1) <= a * f /\ a * f <= l + (f - 1)
      /\ l >= 0 => 0 <= a * f /\ a * f <= l
      /\ l <= 0 => a * f <= 0 /\ l <= a * f
  BY <1>1, <1>4, TruncOf
<1>6. /\ b \in Int /\ b * f \in Int /\ r - (f - 1) <= b * f /\ b * f <= r + (f - 1)
      /\ r >= 0 => 0 <= b * f /\ b * f <= r
      /\ r <= 0 => b * f <= 0 /\ r <= b * f
  BY <1>1, <1>4, TruncOf
<1> HIDE DEF a, b
<1>7. ones \in Nat \ {0} /\ Half \in Nat
  BY Widths
<1>8. -Half <= a /\ a <= Half /\ -Half <= b /\ b <= Half
  BY <1>4, <1>5, <1>6, <1>7 DEF Magnitude
<1>9. w \in Int /\ q \in Int /\ (q >= a \/ q >= b) /\ (q <= a \/ q <= b)
  BY <1>5, <1>6, <1>7, MeanTrunc DEF Weighted
<1>10. -(Half * ones) <= w /\ w <= Half * ones
  BY <1>5, <1>6, <1>8, SumFits
<1>11. Signed(w, Long) = w
  <2>1. -(Long \div 2) <= w /\ w < Long \div 2
    BY <1>9, <1>10, Room
  <2>2. Long \in Nat \ {0} /\ Long % 2 = 0
    BY <1>2, Room
  <2> QED
    BY <1>9, <2>1, <2>2, SignKeptHere
<1> HIDE DEF w, q
<1>12. /\ q * f \in Int
       /\ q * f >= a * f \/ q * f >= b * f
       /\ q * f <= a * f \/ q * f <= b * f
  BY <1>4, <1>5, <1>6, <1>9
<1>13. -(Long \div 2) <= q * f /\ q * f < Long \div 2
  <2>1. -(Long \div 2) <= a * f /\ a * f < Long \div 2
    BY <1>1, <1>2, <1>5
  <2>2. -(Long \div 2) <= b * f /\ b * f < Long \div 2
    BY <1>1, <1>2, <1>6
  <2> QED
    BY <1>2, <1>5, <1>6, <1>12, <2>1, <2>2
<1>14. Signed(q * f, Long) = q * f
  <2>1. Long \in Nat \ {0} /\ Long % 2 = 0
    BY <1>2, Room
  <2> QED
    BY <1>12, <1>13, <2>1, SignKeptHere
<1>15. Int32Interp(l, r, offset) = q * f
  BY <1>11, <1>14 DEF Int32Interp, f, a, b, w, q
<1>16. NotBelow(q * f, l, r, f - 1) /\ NotAbove(q * f, l, r, f - 1)
  BY <1>1, <1>4, <1>5, <1>6, <1>12 DEF NotBelow, NotAbove
<1> QED
  BY <1>4, <1>12, <1>15, <1>16 DEF f, a, b, w, q

(* Short data are divided as numbers of 32 bits and cut to 16: the division*)
(* rounds down.                                                            *)
LEMMA ShortPart ==
  ASSUME NEW x \in Data("short"), NEW f \in {1, 2, 4}, Fits(x, f)
  PROVE  /\ Signed((x % Long) \div f, Scale) = x \div f
         /\ x \div f \in -Half..Half - 1
         /\ (x \div f) * f \in -(Scale \div 2)..x
<1> DEFINE a == x \div f
           c == Scale \div f
<1>1. x \in Int /\ -2 * Half <= x /\ x <= 2 * Half - 1
  BY ShortFits
<1>2. f \in Nat \ {0} /\ c \in Nat /\ c * f = Scale
  BY Widths
<1>3. Scale \in Nat \ {0} /\ Scale % 2 = 0 /\ Scale \div 2 = 2 * Half /\ Half \in Nat \ {0}
  BY Widths
<1>4. a \in Int /\ a * f \in Int /\ x - (f - 1) <= a * f /\ a * f <= x
  BY <1>1, <1>2, Halved
<1>5. a * f >= -2 * Half
  BY <1>1, Widths
<1>6. Magnitude(x) \div f < Half /\ Magnitude(x) \in Nat
  BY <1>1, <1>2, FitsIs DEF Magnitude
<1>7. a \in -Half..Half - 1
  <2>1. CASE x >= 0
    <3>1. a < Half
      BY <1>1, <1>6, <2>1 DEF Magnitude
    <3>2. a >= 0
      BY <2>1, <1>1, <1>2
    <3> QED
      BY <1>3, <1>4, <3>1, <3>2
  <2>2. CASE x < 0
    <3>1. (-x) \div f < Half /\ (-x) \div f \in Int /\ -x < ((-x) \div f) * f + f
      BY <1>1, <1>2, <1>6, <2>2, QuotientOf DEF Magnitude
    <3>2. ((-x) \div f) + 1 <= Half
      BY <1>3, <3>1
    <3>3. (((-x) \div f) + 1) * f <= Half * f
      BY <1>2, <1>3, <3>1, <3>2
    <3>4. (((-x) \div f) + 1) * f = ((-x) \div f) * f + f
      BY <1>2, <3>1
    <3>5. -x < Half * f
      BY <1>1, <1>2, <1>3, <3>1, <3>3, <3>4
    <3>6. (-Half) * f <= x /\ x < (-1) * f + f
      BY <1>1, <1>2, <1>3, <2>2, <3>5
    <3>7. a \in -Half..-1
      BY <1>1, <1>2, <1>3, <3>6, QuotientIn
    <3> QED
      BY <1>3, <3>7
  <2> QED
    BY <1>1, <2>1, <2>2
<1> HIDE DEF a, c
<1>8. -(Scale \div 2) <= a /\ a < Scale \div 2
  BY <1>3, <1>7
<1>9. CASE x >= 0
  <2>1. x % Long = x
    BY <1>1, <1>9, Room, Widths, Kept
  <2>2. Signed(a, Scale) = a
    BY <1>3, <1>4, <1>8, SignKeptHere
  <2> QED
    BY <1>3, <1>4, <1>5, <1>7, <2>1, <2>2 DEF a
<1>10. CASE x < 0
  <2>1. x % Long = x + Long
    <3>1. Long \in Nat \ {0} /\ (-1) * Long = -Long /\ 2 * Half < Long
      <4>1. 2 * Half < Scale /\ Scale <= Scale * Scale
        BY Widths
      <4> QED
        BY <4>1, Widths
    <3>2. (-1) * Long <= x /\ x < (-1) * Long + Long
      <4>1. -Long <= x
        BY <1>1, <1>3, <3>1
      <4> QED
        BY <1>1, <1>10, <3>1, <4>1
    <3>3. x % Long = x - (-1) * Long
      BY <1>1, <3>1, <3>2, RemainderIs
    <3> QED
      BY <1>1, <3>1, <3>3
  <2>2. (a + c * Scale) * f = a * f + Long
    <3>1. (a + c * Scale) * f = a * f + (c * f) * Scale
      BY <1>2, <1>3, <1>4
    <3> QED
      BY <1>2, <3>1, Widths
  <2>3. c * Scale \in Int /\ a + c * Scale \in Int
    BY <1>2, <1>3, <1>4
  <2>4. (x + Long) \div f = a + c * Scale
    <3>1. x + Long \in Int /\ Long \in Nat
      BY <1>1, Widths
    <3>2. (a + c * Scale) * f <= x + Long /\ x + Long < (a + c * Scale) * f + f
      BY <1>1, <1>2, <1>4, <2>2, <3>1
    <3> QED
      BY <1>2, <2>3, <3>1, <3>2, QuotientIs
  <2>5. Signed(c * Scale + a, Scale) = a
    <3>1. c \in Int /\ a \in Int
      BY <1>2, <1>4
    <3> QED
      BY <1>3, <1>8, <3>1, SignKept, Zenon
  <2>6. a + c * Scale = c * Scale + a
    BY <1>4, <2>3
  <2> QED
    BY <1>3, <1>4, <1>5, <1>7, <2>1, <2>4, <2>5, <2>6 DEF a
<1> QED
  BY <1>1, <1>9, <1>10

(* The sum of the products is kept, scaled up and divided without its sign:*)
(* sums below 0 come out one too high.                                     *)
LEMMA UnsignedQuotient ==
  ASSUME NEW f \in {1, 2, 4}, NEW a \in -Half..Half, NEW b \in -Half..Half,
         NEW offset \in 0..ones,
         -(Scale \div 2) <= a * f, a * f < Scale \div 2,
         -(Scale \div 2) <= b * f, b * f < Scale \div 2
  PROVE  LET w == Weighted(a, b, offset)
             out == Signed((((w % Long) * f) % Long) \div ones, Scale)
         IN /\ w \in Int /\ out \in Int
            /\ w >= 0 => /\ out = (w * f) \div ones
                         /\ (out >= a * f \/ out >= b * f)
                         /\ (out <= a * f \/ out <= b * f)
            /\ w < 0  => /\ (out >= a * f + 1 \/ out >= b * f + 1)
                         /\ (out <= a * f + 1 \/ out <= b * f + 1)
<1> DEFINE w == Weighted(a, b, offset)
           q == (w * f) \div ones
           p == (w * f + 1) \div ones
<1>1. f \in Nat \ {0} /\ f <= 4 /\ a \in Int /\ b \in Int /\ a * f \in Int /\ b * f \in Int
  BY Widths
<1>2. /\ ones \in Nat \ {0} /\ ones >= 7 /\ Long \in Nat \ {0} /\ Half * ones \in Nat
      /\ Scale \in Nat \ {0} /\ Scale % 2 = 0 /\ Scale \div 2 \in Nat /\ Scale = ones + 1
  BY Widths
<1>3. w \in Int /\ -(Half * ones) <= w /\ w <= Half * ones
  BY <1>1, SumFits
<1>4. w * f \in Int /\ -Long < w * f /\ w * f < Long
  <2>1. -(4 * (Half * ones)) <= w * f /\ w * f <= 4 * (Half * ones)
    BY <1>2, <1>3
  <2> QED
    BY <1>1, <1>2, <1>3, <2>1, Room
<1>5. w * f = (b * f) * offset + (a * f) * (ones - offset)
  <2>1. (b * offset + a * (ones - offset)) * f = (b * f) * offset + (a * f) * (ones - offset)
    <3>1. \A u, v, x, y \in Int : (u * x + v * y) * f = (u * f) * x + (v * f) * y
      BY <1>1
    <3>2. offset \in Int /\ ones - offset \in Int
      BY <1>2
    <3> QED
      BY <1>1, <3>1, <3>2
  <2> QED
    BY <2>1 DEF Weighted
<1>6. /\ q \in Int
      /\ (q >= a * f \/ q >= b * f) /\ (q <= a * f \/ q <= b * f)
  BY <1>1, <1>2, <1>5, MeanQuotient
<1> HIDE DEF w
<1>7. CASE w >= 0
  <2>1. w % Long = w
    <3>1. w < Long
      BY <1>2, <1>3, Room
    <3> QED
      BY <1>2, <1>3, <1>7, <3>1, Kept
  <2>2. w * f >= 0 /\ (w * f) % Long = w * f
    <3>1. w * f >= 0
      BY <1>1, <1>3, <1>7
    <3> QED
      BY <1>2, <1>4, <3>1, Kept
  <2>3. q < Scale \div 2 /\ -(Scale \div 2) <= q
    BY <1>1, <1>2, <1>6
  <2>4. Signed(q, Scale) = q
    BY <1>2, <1>6, <2>3, SignKeptHere
  <2> QED
    BY <1>3, <1>6, <1>7, <2>1, <2>2, <2>4 DEF w
<1>8. CASE w < 0
  <2>1. w % Long = w + Long
    <3>1. (-1) * Long = -Long /\ -1 \in Int
      BY <1>2
    <3>2. (-1) * Long <= w /\ w < (-1) * Long + Long
      BY <1>2, <1>3, <1>8, <3>1, Room
    <3>3. w % Long = w - (-1) * Long
      BY <1>2, <1>3, <3>1, <3>2, RemainderIs
    <3> QED
      BY <1>2, <1>3, <3>1, <3>3
  <2>2. ((w + Long) * f) % Long = w * f + Long
    <3>1. w * f < 0
      BY <1>1, <1>3, <1>8
    <3>2. (w + Long) * f = w * f + f * Long /\ (f - 1) * Long = f * Long - Long
      BY <1>1, <1>2, <1>3
    <3>3. f * Long \in Int /\ f - 1 \in Int /\ (w + Long) * f \in Int
      BY <1>1, <1>2, <1>3
    <3>4. (f - 1) * Long <= (w + Long) * f /\ (w + Long) * f < (f - 1) * Long + Long
      BY <1>2, <1>4, <3>1, <3>2, <3>3
    <3>5. ((w + Long) * f) % Long = (w + Long) * f - (f - 1) * Long
      BY <1>2, <3>3, <3>4, RemainderIs
    <3> QED
      BY <1>2, <1>4, <3>2, <3>3, <3>5
  <2>3. p \in Int /\ p * ones <= w * f + 1 /\ w * f + 1 < p * ones + ones
    <3>1. w * f + 1 \in Int
      BY <1>4
    <3> QED
      BY <1>2, <3>1, QuotientOf
  <2>4. /\ p >= a * f \/ p >= b * f
        /\ p <= a * f \/ p <= b * f
        /\ p <= 0
    <3>1. PICK lo \in {a * f, b * f} : lo <= a * f /\ lo <= b * f
      BY <1>1
    <3>2. PICK hi \in {a * f, b * f} : a * f <= hi /\ b * f <= hi
      BY <1>1
    <3>3. lo \in Int /\ hi \in Int
      BY <1>1
    <3>4. lo * ones <= w * f /\ w * f <= hi * ones
      BY <1>1, <1>2, <1>5, <3>1, <3>2, <3>3, Mean
    <3>5. lo * ones \in Int /\ hi * ones \in Int
      BY <1>2, <3>3
    <3>6. w * f + 1 \in Int /\ lo * ones <= w * f + 1 /\ w * f + 1 < hi * ones + ones
      BY <1>2, <1>4, <3>4, <3>5
    <3>7. p \in lo..hi
      BY <1>2, <3>3, <3>6, QuotientIn
    <3>8. w * f < 0
      BY <1>1, <1>3, <1>8
    <3>9. ~(p >= 1)
      <4> SUFFICES ASSUME p >= 1 PROVE FALSE
        OBVIOUS
      <4>1. 1 * ones <= p * ones
        BY <1>2, <2>3
      <4>2. p * ones \in Int
        BY <1>2, <2>3
      <4> QED
        BY <1>2, <1>4, <2>3, <3>8, <4>1, <4>2
    <3> QED
      BY <2>3, <3>1, <3>2, <3>3, <3>7, <3>9
  <2> HIDE DEF p, q
  <2>5. (w * f + Long) \div ones = ones + 2 + p
    <3>1. Long = ones * ones + 2 * ones + 1
      BY Widths
    <3>2. (ones + 2 + p) * ones = ones * ones + 2 * ones + p * ones
      BY <1>2, <2>3
    <3>3. p * ones \in Int /\ ones * ones \in Int /\ w * f + Long \in Int /\ ones + 2 + p \in Int
      BY <1>2, <1>4, <2>3
    <3>4. /\ (ones + 2 + p) * ones <= w * f + Long
          /\ w * f + Long < (ones + 2 + p) * ones + ones
      BY <1>2, <1>4, <2>3, <3>1, <3>2, <3>3
    <3> QED
      BY <1>2, <3>3, <3>4, QuotientIs
  <2>6. Signed(ones + 2 + p, Scale) = p + 1
    <3>1. -(Scale \div 2) <= p + 1 /\ p + 1 < Scale \div 2 /\ p + 1 \in Int
      BY <1>1, <1>2, <2>3, <2>4
    <3>2. PICK k \in Int : k = 1
      OBVIOUS
    <3>3. Signed(k * Scale + (p + 1), Scale) = p + 1
      BY <1>2, <3>1, SignKept, Zenon
    <3>4. k * Scale + (p + 1) = ones + 2 + p
      BY <1>2, <2>3, <3>2
    <3> QED
      BY <3>3, <3>4
  <2>7. Signed((((w % Long) * f) % Long) \div ones, Scale) = p + 1
    BY <2>1, <2>2, <2>5, <2>6
  <2>8. p + 1 >= a * f + 1 \/ p + 1 >= b * f + 1
    BY <1>1, <2>3, <2>4
  <2>9. p + 1 <= a * f + 1 \/ p + 1 <= b * f + 1
    BY <1>1, <2>3, <2>4
  <2> QED
    BY <1>3, <1>8, <2>3, <2>7, <2>8, <2>9 DEF w
<1> QED
  BY <1>3, <1>7, <1>8

LEMMA ShortIsBetween ==
  ASSUME NEW l \in Data("short"), NEW r \in Data("short"), NEW offset \in 0..ones
  PROVE  LET f == Factor(l, r)
             out == ShortInterp(l, r, offset)
         IN /\ out \in Int /\ f \in {1, 2, 4} /\ NotBelow(out, l, r, f - 1)
            /\ \/ NotAbove(out, l, r, 0)
               \/ (l < 0 \/ r < 0) /\ NotAbove(out, l, r, 1)
            /\ l >= 0 /\ r >= 0 =>
                 out = (Weighted(l \div f, r \div f, offset) * f) \div ones
<1> DEFINE f == Factor(l, r)
           a == l \div f
           b == r \div f
           w == Weighted(a, b, offset)
           out == Signed((((w % Long) * f) % Long) \div ones, Scale)
<1>1. f \in {1, 2, 4} /\ Fits(l, f) /\ Fits(r, f)
  BY FactorOfShort
<1>2. l \in Int /\ r \in Int /\ l < Scale \div 2 /\ r < Scale \div 2
  BY ShortFits, Widths
<1>3. f \in Nat \ {0}
  BY <1>1
<1> HIDE DEF f
<1>4. /\ Signed((l % Long) \div f, Scale) = a /\ a \in -Half..Half - 1
      /\ a * f \in -(Scale \div 2)..l /\ l - (f - 1) <= a * f
  BY <1>1, <1>2, <1>3, ShortPart, Halved
<1>5. /\ Signed((r % Long) \div f, Scale) = b /\ b \in -Half..Half - 1
      /\ b * f \in -(Scale \div 2)..r /\ r - (f - 1) <= b * f
  BY <1>1, <1>2, <1>3, ShortPart, Halved
<1>6. ShortInterp(l, r, offset) = out
  BY <1>4, <1>5 DEF ShortInterp, f
<1>7. l >= 0 /\ r >= 0 => a >= 0 /\ b >= 0
  BY <1>1, <1>2
<1> HIDE DEF a, b
<1>8. /\ a \in Int /\ b \in Int /\ a * f \in Int /\ b * f \in Int
      /\ Half \in Nat /\ Scale \div 2 \in Nat /\ ones \in Nat
      /\ a \in -Half..Half /\ b \in -Half..Half
  BY <1>3, <1>4, <1>5, Widths
<1>9. /\ -(Scale \div 2) <= a * f /\ a * f < Scale \div 2
      /\ -(Scale \div 2) <= b * f /\ b * f < Scale \div 2
  BY <1>2, <1>4, <1>5, <1>8
<1>10. /\ w \in Int /\ out \in Int
       /\ w >= 0 => /\ out = (w * f) \div ones
                    /\ (out >= a * f \/ out >= b * f)
                    /\ (out <= a * f \/ out <= b * f)
       /\ w < 0  => /\ (out >= a * f + 1 \/ out >= b * f + 1)
                    /\ (out <= a * f + 1 \/ out <= b * f + 1)
  BY <1>1, <1>8, <1>9, UnsignedQuotient
<1>11. a >= 0 /\ b >= 0 => w >= 0
  <2> SUFFICES ASSUME a >= 0, b >= 0 PROVE w >= 0
    OBVIOUS
  <2>1. 0 * ones <= b * offset + a * (ones - offset)
    <3>1. PICK hi \in {a, b} : a <= hi /\ b <= hi
      BY <1>8
    <3> QED
      BY <1>8, <3>1, Mean
  <2> QED
    BY <1>8, <2>1 DEF Weighted
<1> HIDE DEF w, out
<1>12. NotBelow(out, l, r, f - 1)
  BY <1>2, <1>3, <1>4, <1>5, <1>8, <1>10 DEF NotBelow
<1>13. \/ NotAbove(out, l, r, 0)
       \/ (l < 0 \/ r < 0) /\ NotAbove(out, l, r, 1)
  <2>1. CASE w >= 0
    BY <1>2, <1>4, <1>5, <1>8, <1>10, <2>1 DEF NotAbove
  <2>2. CASE w < 0
    <3>1. l < 0 \/ r < 0
      BY <1>2, <1>7, <1>8, <1>10, <1>11, <2>2
    <3> QED
      BY <1>2, <1>4, <1>5, <1>8, <1>10, <2>2, <3>1 DEF NotAbove
  <2> QED
    BY <1>10, <2>1, <2>2
<1>14. l >= 0 /\ r >= 0 => out = (w * f) \div ones
  BY <1>2, <1>7, <1>10, <1>11
<1> QED
  BY <1>1, <1>6, <1>10, <1>12, <1>13, <1>14 DEF f, a, b, w

-----------------------------------------------------------------------------
LEMMA SmallestOfTwo ==
  ASSUME NEW l \in Int, NEW r \in Int
  PROVE  /\ Smallest({l, r}) \in {l, r} /\ Smallest({l, r}) <= l /\ Smallest({l, r}) <= r
         /\ Largest({l, r}) \in {l, r} /\ Largest({l, r}) >= l /\ Largest({l, r}) >= r
<1>1. \E x \in {l, r} : \A y \in {l, r} : x <= y
  OBVIOUS
<1>2. \E x \in {l, r} : \A y \in {l, r} : x >= y
  OBVIOUS
<1>3. Smallest({l, r}) \in {l, r} /\ \A y \in {l, r} : Smallest({l, r}) <= y
  BY <1>1 DEF Smallest
<1>4. Largest({l, r}) \in {l, r} /\ \A y \in {l, r} : Largest({l, r}) >= y
  BY <1>2 DEF Largest
<1> QED
  BY <1>3, <1>4

(* What a table lookup has found in the tables.                            *)
LEMMA TableLookedUp ==
  ASSUME LookupInv, lookup.of = "table"
  PROVE  LET t == lookup.table IN
         /\ pc = "done" /\ t \in Tables /\ t.spread = call.spread
         /\ lookup.out = TableResult(t) /\ t.kind \in Kinds
         /\ \A i \in 0..n - 1 : t.data[i] \in Data(t.kind)
         /\ u16SpreadIndex \in 0..n - 1 /\ u16SpreadIndex + 1 \in 0..n - 1
         /\ u16SpreadOffset \in 0..ones
<1>1. /\ pc = "done"
      /\ \E t \in Tables :
           /\ t.spread = call.spread
           /\ lookup = [of |-> "table", table |-> t, out |-> TableResult(t)]
  BY DEF LookupInv, Calculated, NotYet
<1>2. PICK t \in Tables :
        /\ t.spread = call.spread
        /\ lookup = [of |-> "table", table |-> t, out |-> TableResult(t)]
  BY <1>1
<1>3. lookup.table = t /\ lookup.out = TableResult(t)
  BY <1>2
<1>4. t.kind \in Kinds /\ t.data \in [0..n - 1 -> Data(t.kind)]
  BY <1>2, TablesAssumption DEF n
<1>5. TypeOK
  BY DEF LookupInv, IInv
<1>6. u16SpreadIndex \in 0..n - 1 /\ u16SpreadIndex + 1 \in 0..n - 1
  BY <1>5, Call DEF TypeOK
<1>7. u16SpreadOffset \in 0..ones
  BY <1>5 DEF TypeOK, ones
<1> QED
  BY <1>1, <1>2, <1>3, <1>4, <1>6, <1>7

LEMMA DataAreIntegers ==
  ASSUME NEW kind \in Kinds, NEW x \in Data(kind)
  PROVE  x \in Int
<1>1. CASE kind = "short"
  BY <1>1 DEF Data
<1>2. CASE kind = "int32"
  BY <1>2 DEF Data
<1>3. CASE kind = "uint32"
  BY <1>3 DEF Data
<1> QED
  BY <1>1, <1>2, <1>3 DEF Kinds

LEMMA LookupBetween == LookupInv => TableBetween
<1> SUFFICES ASSUME LookupInv, lookup.of = "table"
             PROVE  LET t == lookup.table
                        l == t.data[u16SpreadIndex]
                        r == t.data[u16SpreadIndex + 1]
                        lost == Factor(l, r) - 1
                        high == IF t.kind = "short" /\ Smallest({l, r}) < 0 THEN 1 ELSE 0
                    IN lookup.out \in Smallest({l, r}) - lost .. Largest({l, r}) + lost + high
  BY DEF TableBetween
<1> DEFINE t == lookup.table
           l == t.data[u16SpreadIndex]
           r == t.data[u16SpreadIndex + 1]
           f == Factor(l, r)
           low == Smallest({l, r})
           top == Largest({l, r})
           high == IF t.kind = "short" /\ low < 0 THEN 1 ELSE 0
<1>1. /\ lookup.out = TableResult(t) /\ t.kind \in Kinds
      /\ l \in Data(t.kind) /\ r \in Data(t.kind) /\ u16SpreadOffset \in 0..ones
  BY TableLookedUp
<1>2. l \in Int /\ r \in Int
  BY <1>1, DataAreIntegers
<1>3. /\ low \in {l, r} /\ low <= l /\ low <= r
      /\ top \in {l, r} /\ top >= l /\ top >= r
  BY <1>2, SmallestOfTwo
<1> SUFFICES lookup.out \in low - (f - 1) .. top + (f - 1) + high
  OBVIOUS
<1>4. CASE t.kind = "uint32"
  <2>1. lookup.out = UInt32Interp(l, r, u16SpreadOffset)
    BY <1>1, <1>4 DEF TableResult
  <2>2. /\ lookup.out \in Int /\ f \in Nat \ {0}
        /\ NotBelow(lookup.out, l, r, f - 1) /\ NotAbove(lookup.out, l, r, 0)
    BY <1>1, <1>4, <2>1, UInt32IsBetween
  <2>3. high = 0
    BY <1>4
  <2> HIDE DEF t, l, r, f, low, top, high
  <2> QED
    BY <1>2, <1>3, <2>2, <2>3 DEF NotBelow, NotAbove
<1>5. CASE t.kind = "int32"
  <2>1. lookup.out = Int32Interp(l, r, u16SpreadOffset)
    BY <1>1, <1>5 DEF TableResult
  <2>2. /\ lookup.out \in Int /\ f \in Nat \ {0}
        /\ NotBelow(lookup.out, l, r, f - 1) /\ NotAbove(lookup.out, l, r, f - 1)
    BY <1>1, <1>5, <2>1, Int32IsBetween
  <2>3. high = 0
    BY <1>5
  <2> HIDE DEF t, l, r, f, low, top, high
  <2> QED
    BY <1>2, <1>3, <2>2, <2>3 DEF NotBelow, NotAbove
<1>6. CASE t.kind = "short"
  <2>1. lookup.out = ShortInterp(l, r, u16SpreadOffset)
    BY <1>1, <1>6 DEF TableResult
  <2>2. /\ lookup.out \in Int /\ f \in {1, 2, 4} /\ NotBelow(lookup.out, l, r, f - 1)
        /\ \/ NotAbove(lookup.out, l, r, 0)
           \/ (l < 0 \/ r < 0) /\ NotAbove(lookup.out, l, r, 1)
    BY <1>1, <1>6, <2>1, ShortIsBetween
  <2>3. high = IF low < 0 THEN 1 ELSE 0
    BY <1>6
  <2>4. f \in Nat \ {0}
    BY <2>2
  <2> HIDE DEF t, l, r, f, low, top, high
  <2>5. lookup.out >= low - (f - 1)
    BY <1>2, <1>3, <2>2, <2>4 DEF NotBelow
  <2>6. lookup.out <= top + high
    BY <1>2, <1>3, <2>2, <2>3 DEF NotAbove
  <2>7. high \in {0, 1} /\ low \in Int /\ top \in Int
    BY <1>2, <1>3, <2>3
  <2> QED
    BY <2>2, <2>4, <2>5, <2>6, <2>7
<1> QED
  BY <1>1, <1>4, <1>5, <1>6 DEF Kinds

(* What a table gives lies between the data at the ends of the cell, but   *)
(* for the digits lost by halving: for data of every type and every value, *)
(* and spreads of every size.                                              *)
THEOREM TablesStayBetween == LookupSpec => []TableBetween
BY LookupBetween, LookupInvariance, PTL

-----------------------------------------------------------------------------
Interpolated(kind, l, r, offset) ==
  CASE kind = "short" -> ShortInterp(l, r, offset)
    [] kind = "int32" -> Int32Interp(l, r, offset)
    [] kind = "uint32" -> UInt32Interp(l, r, offset)

(* At the ends of a cell of small data nothing is lost.                    *)
LEMMA EndsAreExact ==
  ASSUME NEW kind \in Kinds, NEW l \in 0..Half - 1, NEW r \in 0..Half - 1
  PROVE  /\ l \in Data(kind) /\ r \in Data(kind)
         /\ Interpolated(kind, l, r, 0) = l /\ Interpolated(kind, l, r, ones) = r
<1>1. /\ ones \in Nat \ {0} /\ 0 \in 0..ones /\ ones \in 0..ones /\ Half \in Nat
      /\ l \in Nat /\ r \in Nat
  BY Widths
<1>2. l \in Data(kind) /\ r \in Data(kind)
  <2>1. Half <= Scale \div 2 /\ Half <= Long \div 2 /\ Half <= Long
    <3>1. Half * ones >= Half
      BY <1>1
    <3> QED
      BY <3>1, Widths, Room
  <2> QED
    BY <1>1, <2>1, Widths, Room DEF Kinds, Data
<1>3. Factor(l, r) = 1
  BY FactorOfSmall
<1>4. l \div 1 = l /\ r \div 1 = r /\ Trunc(l, 1) = l /\ Trunc(r, 1) = r
  BY <1>1 DEF Trunc
<1>5. Weighted(l, r, 0) = l * ones /\ Weighted(l, r, ones) = r * ones
  BY <1>1 DEF Weighted
<1>6. (l * ones) \div ones = l /\ (r * ones) \div ones = r
  <2>1. l * ones \in Int /\ r * ones \in Int
    BY <1>1
  <2>2. l * ones < l * ones + ones /\ r * ones < r * ones + ones
    BY <1>1, <2>1
  <2> QED
    BY <1>1, <2>1, <2>2, QuotientIs
<1>7. Trunc(l * ones, ones) = l /\ Trunc(r * ones, ones) = r
  <2>1. ~(l * ones < 0) /\ ~(r * ones < 0)
    BY <1>1
  <2> QED
    BY <1>6, <2>1 DEF Trunc
<1>8. CASE kind = "short"
  <2>1. ShortInterp(l, r, 0) = (Weighted(l \div 1, r \div 1, 0) * 1) \div ones
    BY <1>1, <1>2, <1>3, <1>8, ShortIsBetween
  <2>2. ShortInterp(l, r, ones) = (Weighted(l \div 1, r \div 1, ones) * 1) \div ones
    BY <1>1, <1>2, <1>3, <1>8, ShortIsBetween
  <2>3. (l * ones) * 1 = l * ones /\ (r * ones) * 1 = r * ones
    BY <1>1
  <2> QED
    BY <1>2, <1>4, <1>5, <1>6, <1>8, <2>1, <2>2, <2>3 DEF Interpolated
<1>9. CASE kind = "int32"
  <2>1. Int32Interp(l, r, 0) = Trunc(Weighted(Trunc(l, 1), Trunc(r, 1), 0), ones) * 1
    BY <1>1, <1>2, <1>3, <1>9, Int32IsBetween
  <2>2. Int32Interp(l, r, ones) = Trunc(Weighted(Trunc(l, 1), Trunc(r, 1), ones), ones) * 1
    BY <1>1, <1>2, <1>3, <1>9, Int32IsBetween
  <2>3. l * 1 = l /\ r * 1 = r
    BY <1>1
  <2> QED
    BY <1>2, <1>4, <1>5, <1>7, <1>9, <2>1, <2>2, <2>3 DEF Interpolated
<1>10. CASE kind = "uint32"
  <2>1. UInt32Interp(l, r, 0) = (Weighted(l \div 1, r \div 1, 0) \div ones) * 1
    BY <1>1, <1>2, <1>3, <1>10, UInt32IsBetween
  <2>2. UInt32Interp(l, r, ones) = (Weighted(l \div 1, r \div 1, ones) \div ones) * 1
    BY <1>1, <1>2, <1>3, <1>10, UInt32IsBetween
  <2>3. l * 1 = l /\ r * 1 = r
    BY <1>1
  <2> QED
    BY <1>2, <1>4, <1>5, <1>6, <1>10, <2>1, <2>2, <2>3 DEF Interpolated
<1> QED
  BY <1>8, <1>9, <1>10 DEF Kinds

(* On the breakpoint i the result is at the start of the cell i, or for    *)
(* the last breakpoint at the end of the last cell.                        *)
LEMMA OnBreakpoint ==
  ASSUME LookupInv, pc = "done", call.kind = "uint32",
         NEW i \in 0..n - 1, source = sp(i)
  PROVE  \/ u16SpreadIndex = i /\ u16SpreadOffset = 0
         \/ u16SpreadIndex + 1 = i /\ u16SpreadOffset = ones
<1>1. /\ TypeOK /\ DoneBetween /\ StartOfCell /\ EndOfSpread
  BY DEF LookupInv, IInv
<1>2. /\ n \in Nat /\ n >= 2 /\ source \in Int
      /\ \A j \in 0..n - 1 : sp(j) \in Int
      /\ \A j, k \in 0..n - 1 : j < k => sp(j) < sp(k)
  BY <1>1, Call
<1>3. u16SpreadIndex \in 0..n - 1 /\ u16SpreadIndex + 1 \in 0..n - 1
  BY <1>1, <1>2 DEF TypeOK
<1>4. CASE boResultFound
  <2>1. sp(u16SpreadIndex) <= source /\ source < sp(u16SpreadIndex + 1)
    BY <1>1, <1>4 DEF DoneBetween, InCell
  <2>2. ~(i < u16SpreadIndex)
    BY <1>2, <1>3, <2>1
  <2>3. ~(u16SpreadIndex + 1 < i) /\ u16SpreadIndex + 1 # i
    BY <1>2, <1>3, <2>1
  <2>4. u16SpreadIndex = i
    BY <1>2, <1>3, <2>2, <2>3
  <2>5. u16SpreadOffset = 0
    BY <1>1, <1>4, <2>4 DEF StartOfCell
  <2> QED
    BY <2>4, <2>5
<1>5. CASE ~boResultFound
  <2>1. source >= sp(0)
    BY <1>2
  <2>2. /\ u16SpreadIndex = n - 2 /\ u16SpreadOffset = Scale - 1 /\ source >= sp(n - 1)
    BY <1>1, <1>5, <2>1 DEF EndOfSpread, Searched
  <2>3. ~(i < n - 1)
    BY <1>2, <2>2
  <2> QED
    BY <1>2, <2>2, <2>3 DEF ones
<1> QED
  BY <1>4, <1>5

LEMMA LookupExact == LookupInv => TableExact
<1> DEFINE t == lookup.table
           l == t.data[u16SpreadIndex]
           r == t.data[u16SpreadIndex + 1]
<1> SUFFICES ASSUME LookupInv, lookup.of = "table", call.kind = "uint32",
                    NEW i \in 0..n - 1, source = sp(i),
                    l \in 0..Half - 1, r \in 0..Half - 1
             PROVE  lookup.out = t.data[i]
  BY DEF TableExact
<1>1. /\ pc = "done" /\ lookup.out = TableResult(t) /\ t.kind \in Kinds
  BY TableLookedUp
<1>2. \/ u16SpreadIndex = i /\ u16SpreadOffset = 0
      \/ u16SpreadIndex + 1 = i /\ u16SpreadOffset = ones
  BY <1>1, OnBreakpoint
<1>3. lookup.out = Interpolated(t.kind, l, r, u16SpreadOffset)
  BY <1>1 DEF TableResult, Interpolated
<1>4. Interpolated(t.kind, l, r, 0) = l /\ Interpolated(t.kind, l, r, ones) = r
  BY <1>1, EndsAreExact
<1>5. CASE u16SpreadIndex = i /\ u16SpreadOffset = 0
  BY <1>3, <1>4, <1>5
<1>6. CASE u16SpreadIndex + 1 = i /\ u16SpreadOffset = ones
  BY <1>3, <1>4, <1>6
<1> QED
  BY <1>2, <1>5, <1>6

(* On a breakpoint of a spread of uint32 a table of small data gives the   *)
(* breakpoint's own value, for spreads of every size.                      *)
THEOREM TablesAreExact == LookupSpec => []TableExact
BY LookupExact, LookupInvariance, PTL

-----------------------------------------------------------------------------
(* A map is two interpolations in the rows and one between their results.  *)
(* What each loses is bounded by its factor, and the factors by that of    *)
(* the highest corner.                                                     *)
MeanOf(l, r, offset, all) == r * offset + l * (all - offset)

LEMMA HalvedMean ==
  ASSUME NEW all \in Nat, NEW offset \in 0..all, NEW l \in Int, NEW r \in Int,
         NEW f \in Nat \ {0}
  PROVE  /\ MeanOf(l \div f, r \div f, offset, all) \in Int
         /\ MeanOf(l \div f, r \div f, offset, all) * f \in Int
         /\ MeanOf(l, r, offset, all) - MeanOf(l \div f, r \div f, offset, all) * f
              \in 0..(f - 1) * all
<1> DEFINE a == l \div f
           b == r \div f
           w == b * offset + a * (all - offset)
           c == l - a * f
           d == r - b * f
<1>1. /\ a \in Int /\ b \in Int /\ c \in Int /\ d \in Int
      /\ 0 <= c /\ c <= f - 1 /\ 0 <= d /\ d <= f - 1
      /\ l = c + a * f /\ r = d + b * f /\ a * f \in Int /\ b * f \in Int
  BY Halved
<1> HIDE DEF a, b, c, d
<1>2. /\ d * offset + c * (all - offset) \in Int
      /\ 0 * all <= d * offset + c * (all - offset)
      /\ d * offset + c * (all - offset) <= (f - 1) * all
  BY <1>1, Mean
<1>3. w \in Int /\ w * f \in Int
  BY <1>1
<1>4. r * offset + l * (all - offset) = (d * offset + c * (all - offset)) + w * f
  <2>1. offset \in Int /\ all - offset \in Int
    OBVIOUS
  <2>2. (d + b * f) * offset = d * offset + (b * offset) * f
    BY <1>1, <2>1
  <2>3. (c + a * f) * (all - offset) = c * (all - offset) + (a * (all - offset)) * f
    <3>1. \A v \in Int : (c + a * f) * v = c * v + (a * v) * f
      BY <1>1
    <3> QED
      BY <2>1, <3>1
  <2>4. (b * offset + a * (all - offset)) * f = (b * offset) * f + (a * (all - offset)) * f
    <3>1. b * offset \in Int /\ a * (all - offset) \in Int
      BY <1>1, <2>1
    <3>2. \A u, v \in Int : (u + v) * f = u * f + v * f
      OBVIOUS
    <3> QED
      BY <3>1, <3>2
  <2>5. /\ d * offset \in Int /\ (b * offset) * f \in Int
        /\ c * (all - offset) \in Int /\ (a * (all - offset)) * f \in Int
    <3>1. \A u, v \in Int : u * v \in Int
      OBVIOUS
    <3>2. b * offset \in Int /\ a * (all - offset) \in Int
      BY <1>1, <2>1, <3>1
    <3> QED
      BY <1>1, <2>1, <3>1, <3>2
  <2> QED
    BY <1>1, <2>2, <2>3, <2>4, <2>5
<1>5. 0 * all = 0 /\ (f - 1) * all \in Int
  OBVIOUS
<1> HIDE DEF w
<1>6. r * offset + l * (all - offset) - w * f \in 0..(f - 1) * all
  BY <1>2, <1>3, <1>4, <1>5
<1> QED
  BY <1>3, <1>6 DEF a, b, w, MeanOf

LEMMA ShortStage ==
  ASSUME NEW l \in 0..(Scale \div 2) - 1, NEW r \in 0..(Scale \div 2) - 1,
         NEW offset \in 0..ones
  PROVE  LET x == ShortMapInterp(l, r, offset)
             f == Factor(l, r)
         IN /\ x \in Int /\ 0 <= x /\ (x <= l \/ x <= r) /\ f \in Nat \ {0}
            /\ Weighted(l, r, offset) - x * ones \in 0..f * ones - 1
<1> DEFINE f == Factor(l, r)
           a == l \div f
           b == r \div f
           w == Weighted(a, b, offset)
           x == Signed((((w % Long) * f) % Long) \div ones, Scale)
<1>1. /\ l \in Int /\ r \in Int /\ 0 <= l /\ l < Scale \div 2 /\ 0 <= r /\ r < Scale \div 2
      /\ Scale \in Nat \ {0} /\ Scale % 2 = 0 /\ Scale \div 2 \in Nat /\ Scale \div 2 <= Scale
      /\ ones \in Nat \ {0} /\ Half \in Nat /\ Half < Scale \div 2
  BY Widths
<1>2. l \in Data("short") /\ r \in Data("short")
  BY <1>1 DEF Data
<1>3. f \in {1, 2, 4} /\ Fits(l, f) /\ Fits(r, f)
  BY <1>2, FactorOfShort
<1>4. Signed(l, Scale) = l /\ Signed(r, Scale) = r /\ l % Scale = l /\ r % Scale = r
  BY <1>1, SignKeptHere, Kept
<1>5. f \in Nat \ {0}
  BY <1>3
<1> HIDE DEF f
<1>6. /\ a \in Int /\ a * f \in Int /\ 0 <= a /\ a < Half /\ a * f <= l /\ 0 <= a * f
      /\ b \in Int /\ b * f \in Int /\ 0 <= b /\ b < Half /\ b * f <= r /\ 0 <= b * f
  <2>1. a \in -Half..Half - 1 /\ b \in -Half..Half - 1
    BY <1>2, <1>3, ShortPart
  <2>2. a >= 0 /\ b >= 0
    BY <1>1, <1>3
  <2>3. a * f \in Int /\ a * f <= l /\ b * f \in Int /\ b * f <= r
    BY <1>1, <1>5, Halved
  <2>4. a \in Int /\ b \in Int /\ a < Half /\ b < Half
    BY <1>1, <2>1
  <2> HIDE DEF a, b
  <2>5. 0 <= a * f /\ 0 <= b * f
    BY <1>5, <2>2, <2>4
  <2> QED
    BY <2>2, <2>3, <2>4, <2>5
<1>7. Signed(a, Scale) = a /\ Signed(b, Scale) = b
  BY <1>1, <1>6, SignKeptHere
<1>8. ShortMapInterp(l, r, offset) = x
  BY <1>4, <1>7 DEF ShortMapInterp, f
<1>9. /\ w \in Int /\ w * f \in Int
      /\ Weighted(l, r, offset) - w * f \in 0..(f - 1) * ones
  <2>1. ones \in Nat
    BY <1>1
  <2>2. /\ MeanOf(a, b, offset, ones) \in Int /\ MeanOf(a, b, offset, ones) * f \in Int
        /\ MeanOf(l, r, offset, ones) - MeanOf(a, b, offset, ones) * f \in 0..(f - 1) * ones
    BY <1>1, <1>5, <2>1, HalvedMean, Zenon
  <2>3. /\ MeanOf(a, b, offset, ones) = w
        /\ MeanOf(l, r, offset, ones) = Weighted(l, r, offset)
    BY DEF MeanOf, Weighted
  <2> HIDE DEF w, a, b
  <2> QED
    BY <2>2, <2>3, Zenon
<1> HIDE DEF a, b
<1>10. 0 <= w
  <2>1. PICK hi \in {a, b} : a <= hi /\ b <= hi
    BY <1>6
  <2>2. 0 * ones <= w
    BY <1>1, <1>6, <2>1, Mean DEF Weighted
  <2> QED
    BY <1>1, <2>2
<1>11. /\ x \in Int /\ x = (w * f) \div ones
       /\ (x >= a * f \/ x >= b * f) /\ (x <= a * f \/ x <= b * f)
  <2>1. a \in -Half..Half /\ b \in -Half..Half
    BY <1>1, <1>6
  <2>2. /\ -(Scale \div 2) <= a * f /\ a * f < Scale \div 2
        /\ -(Scale \div 2) <= b * f /\ b * f < Scale \div 2
    BY <1>1, <1>6
  <2> QED
    BY <1>3, <1>10, <2>1, <2>2, UnsignedQuotient
<1> HIDE DEF w, x
<1>12. x * ones \in Int /\ x * ones <= w * f /\ w * f < x * ones + ones
  <2>1. /\ ((w * f) \div ones) * ones <= w * f
        /\ w * f < ((w * f) \div ones) * ones + ones
    BY <1>1, <1>9, QuotientOf, Zenon
  <2> QED
    BY <1>1, <1>11, <2>1
<1>13. Weighted(l, r, offset) - x * ones \in 0..f * ones - 1
  <2>1. (f - 1) * ones = f * ones - ones /\ f * ones \in Int
    BY <1>1, <1>5
  <2>2. Weighted(l, r, offset) \in Int
    BY <1>1 DEF Weighted
  <2> QED
    BY <1>1, <1>9, <1>12, <2>1, <2>2
<1>14. 0 <= x /\ (x <= l \/ x <= r)
  BY <1>1, <1>6, <1>11
<1> QED
  BY <1>5, <1>8, <1>11, <1>13, <1>14 DEF f

LEMMA UInt32Stage ==
  ASSUME NEW l \in 0..Long - 1, NEW r \in 0..Long - 1, NEW offset \in 0..ones
  PROVE  LET x == UInt32MapInterp(l, r, offset)
             f == Factor(l, r)
             mean == r * offset + l * (Scale - offset)
         IN /\ x \in Int /\ 0 <= x /\ (x <= l \/ x <= r) /\ f \in Nat \ {0}
            /\ mean - x * Scale \in 0..2 * f * Scale - 1
<1> DEFINE f == Factor(l, r)
           a == l \div f
           b == r \div f
           w == b * offset + a * (Scale - offset)
           q == w \div Scale
           mean == r * offset + l * (Scale - offset)
<1>1. /\ l \in Int /\ r \in Int /\ 0 <= l /\ l < Long /\ 0 <= r /\ r < Long
      /\ Scale \in Nat \ {0} /\ Long \in Nat \ {0} /\ Half \in Nat /\ offset \in 0..Scale
  BY Widths
<1>2. Magnitude(l) = l /\ Magnitude(r) = r
  BY <1>1 DEF Magnitude
<1>3. f \in Nat \ {0} /\ a < Half /\ b < Half
  BY <1>1, <1>2, FactorOfLong, FitsIs
<1> HIDE DEF f
<1>4. a \in Int /\ b \in Int /\ 0 <= a /\ 0 <= b
  <2>1. a \in Int /\ b \in Int
    BY <1>1, <1>3, Halved
  <2>2. 0 \div f = 0
    BY <1>3
  <2>3. 0 \div f <= a /\ 0 \div f <= b
    BY <1>1, <1>3, QuotientRises
  <2> QED
    BY <2>1, <2>2, <2>3
<1>5. a * f \in Int /\ b * f \in Int /\ a * f <= l /\ b * f <= r
  BY <1>1, <1>3, Halved
<1>6. w \in Int /\ w * f \in Int /\ mean - w * f \in 0..(f - 1) * Scale
  <2>1. Scale \in Nat
    BY <1>1
  <2>2. /\ MeanOf(a, b, offset, Scale) \in Int /\ MeanOf(a, b, offset, Scale) * f \in Int
        /\ MeanOf(l, r, offset, Scale) - MeanOf(a, b, offset, Scale) * f \in 0..(f - 1) * Scale
    BY <1>1, <1>3, <2>1, HalvedMean, Zenon
  <2>3. MeanOf(a, b, offset, Scale) = w /\ MeanOf(l, r, offset, Scale) = mean
    BY DEF MeanOf
  <2> HIDE DEF w, mean, a, b
  <2> QED
    BY <2>2, <2>3, Zenon
<1> HIDE DEF a, b
<1>7. q \in Int /\ (q >= a \/ q >= b) /\ (q <= a \/ q <= b)
  BY <1>1, <1>4, MeanQuotient
<1>8. 0 <= w /\ w < Long
  <2>1. 0 * Scale <= w /\ w <= Half * Scale
    BY <1>1, <1>3, <1>4, Mean
  <2>2. Half * Scale < Long
    BY Widths
  <2> QED
    BY <1>1, <1>6, <2>1, <2>2
<1>9. w % Long = w
  BY <1>1, <1>6, <1>8, Kept
<1> HIDE DEF w
<1>10. q * Scale \in Int /\ q * Scale <= w /\ w < q * Scale + Scale
  <2>1. q * Scale <= w /\ w < q * Scale + Scale
    BY <1>1, <1>6, QuotientOf, Zenon
  <2> QED
    BY <1>1, <1>7, <2>1
<1> HIDE DEF q
<1>11. /\ q * f \in Int /\ 0 <= q * f
       /\ q * f <= a * f \/ q * f <= b * f
  BY <1>3, <1>4, <1>7
<1>12. (q * f) % Long = q * f
  BY <1>1, <1>5, <1>11, Kept
<1>13. UInt32MapInterp(l, r, offset) = q * f
  BY <1>9, <1>12 DEF UInt32MapInterp, f, a, b, w, q
<1>14. mean - (q * f) * Scale \in 0..2 * f * Scale - 1
  <2>1. (q * f) * Scale = (q * Scale) * f
    BY <1>1, <1>3, <1>7
  <2>2. (q * Scale) * f <= w * f /\ w * f <= (q * Scale + Scale - 1) * f
    BY <1>1, <1>3, <1>6, <1>10
  <2>3. (q * Scale + Scale - 1) * f = (q * Scale) * f + f * Scale - f
    BY <1>1, <1>3, <1>10
  <2>4. (f - 1) * Scale = f * Scale - Scale /\ f * Scale \in Int /\ (q * Scale) * f \in Int
    BY <1>1, <1>3, <1>10
  <2>5. 2 * f * Scale = f * Scale + f * Scale
    BY <1>1, <1>3
  <2>6. mean \in Int
    BY <1>1
  <2> HIDE DEF mean
  <2> QED
    BY <1>1, <1>3, <1>6, <2>1, <2>2, <2>3, <2>4, <2>5, <2>6
<1>15. q * f <= l \/ q * f <= r
  BY <1>1, <1>5, <1>11
<1> QED
  BY <1>3, <1>11, <1>13, <1>14, <1>15 DEF f

LEMMA FactorRises ==
  ASSUME NEW l \in 0..Long - 1, NEW r \in 0..Long - 1, NEW h \in 0..Long - 1,
         l <= h, r <= h
  PROVE  Factor(h, 0) \in Nat \ {0} /\ Factor(l, r) \in Nat /\ Factor(l, r) <= Factor(h, 0)
<1> DEFINE g == Factor(h, 0)
<1>1. /\ l \in Int /\ r \in Int /\ h \in Int /\ Half \in Nat
      /\ Magnitude(l) = l /\ Magnitude(r) = r /\ Magnitude(h) = h /\ Magnitude(0) = 0
      /\ l < Long /\ r < Long /\ h < Long /\ 0 < Long
  BY Widths DEF Magnitude
<1>2. g \in Powers /\ g \in Nat \ {0} /\ Fits(h, g)
  BY <1>1, FactorOfLong
<1> HIDE DEF g
<1>3. h \div g < Half /\ h \div g \in Int /\ l \div g \in Int /\ r \div g \in Int
  BY <1>1, <1>2, FitsIs, QuotientOf
<1>4. l \div g <= h \div g /\ r \div g <= h \div g
  BY <1>1, <1>2, QuotientRises
<1>5. Fits(l, g) /\ Fits(r, g)
  <2>1. l \div g < Half /\ r \div g < Half
    BY <1>1, <1>3, <1>4
  <2> QED
    BY <1>1, <1>2, <2>1, FitsIs
<1>6. Factor(l, r) \in Powers /\ Factor(l, r) <= g
  BY <1>2, <1>5, FactorIs
<1> QED
  BY <1>2, <1>6, PowersArePositive DEF g

(* The losses of the rows, weighted, and that of the column.               *)
LEMMA Bilinear ==
  ASSUME NEW all \in Nat \ {0}, NEW offset \in 0..all, NEW loss \in Nat \ {0},
         NEW x0 \in Int, NEW x1 \in Int, NEW x \in Int, NEW m0 \in Int, NEW m1 \in Int,
         m0 - x0 * all \in 0..loss - 1, m1 - x1 * all \in 0..loss - 1,
         MeanOf(x0, x1, offset, all) - x * all \in 0..loss - 1
  PROVE  MeanOf(m0, m1, offset, all) - x * all * all \in 0..2 * loss * all - 1
<1> DEFINE e0 == m0 - x0 * all
           e1 == m1 - x1 * all
           e == MeanOf(x0, x1, offset, all) - x * all
           v == all - offset
<1>1. /\ offset \in Int /\ v \in Int /\ x0 * all \in Int /\ x1 * all \in Int /\ x * all \in Int
  OBVIOUS
<1>2. MeanOf(x0, x1, offset, all) \in Int
  BY <1>1 DEF MeanOf
<1>3. e0 \in Int /\ e1 \in Int /\ e \in Int /\ m0 = x0 * all + e0 /\ m1 = x1 * all + e1
  BY <1>1, <1>2
<1>4. MeanOf(x0, x1, offset, all) = x * all + e
  BY <1>1, <1>2
<1>5. /\ e0 >= 0 /\ e0 <= loss - 1 /\ e1 >= 0 /\ e1 <= loss - 1 /\ e >= 0 /\ e <= loss - 1
  BY <1>1, <1>2
<1> HIDE DEF e0, e1, e
<1>6. /\ MeanOf(e0, e1, offset, all) \in Int
      /\ 0 <= MeanOf(e0, e1, offset, all)
      /\ MeanOf(e0, e1, offset, all) <= (loss - 1) * all
  <2>1. /\ e1 * offset + e0 * (all - offset) \in Int
        /\ 0 * all <= e1 * offset + e0 * (all - offset)
        /\ e1 * offset + e0 * (all - offset) <= (loss - 1) * all
    BY <1>3, <1>5, Mean
  <2> QED
    BY <2>1 DEF MeanOf
<1>7. MeanOf(m0, m1, offset, all)
        = MeanOf(x0, x1, offset, all) * all + MeanOf(e0, e1, offset, all)
  <2>1. \A y, z, u \in Int : (y * all + z) * u = (y * u) * all + z * u
    OBVIOUS
  <2>2. m1 * offset = (x1 * offset) * all + e1 * offset
    BY <1>1, <1>3, <2>1
  <2>3. m0 * v = (x0 * v) * all + e0 * v
    BY <1>1, <1>3, <2>1
  <2>4. \A y, z \in Int : (y + z) * all = y * all + z * all
    OBVIOUS
  <2>5. x1 * offset \in Int /\ x0 * v \in Int /\ e1 * offset \in Int /\ e0 * v \in Int
    BY <1>1, <1>3
  <2>6. (x1 * offset + x0 * v) * all = (x1 * offset) * all + (x0 * v) * all
    BY <2>4, <2>5
  <2>7. (x1 * offset) * all \in Int /\ (x0 * v) * all \in Int
    BY <2>5
  <2>8. m1 * offset + m0 * v = (x1 * offset + x0 * v) * all + (e1 * offset + e0 * v)
    BY <2>2, <2>3, <2>5, <2>6, <2>7
  <2> QED
    BY <2>8 DEF MeanOf
<1>8. MeanOf(x0, x1, offset, all) * all = (x * all) * all + e * all
  <2>1. \A y, z \in Int : (y + z) * all = y * all + z * all
    OBVIOUS
  <2> QED
    BY <1>1, <1>3, <1>4, <2>1
<1>9. 0 <= e * all /\ e * all <= (loss - 1) * all /\ e * all \in Int
  BY <1>3, <1>5
<1>10. /\ (loss - 1) * all = loss * all - all /\ loss * all \in Int
       /\ 2 * loss * all = loss * all + loss * all /\ (x * all) * all \in Int
  BY <1>1
<1> QED
  BY <1>6, <1>7, <1>8, <1>9, <1>10

LEMMA LargestOf ==
  ASSUME NEW S, NEW x \in S, \A y \in S : x >= y
  PROVE  Largest(S) \in S /\ \A y \in S : Largest(S) >= y
BY DEF Largest

LEMMA LargestOfFour ==
  ASSUME NEW a \in Int, NEW b \in Int, NEW c \in Int, NEW d \in Int
  PROVE  LET h == Largest({a, b, c, d}) IN
         h \in {a, b, c, d} /\ h >= a /\ h >= b /\ h >= c /\ h >= d
<1>1. \E x \in {a, b, c, d} : \A y \in {a, b, c, d} : x >= y
  <2>1. PICK p \in {a, b} : p >= a /\ p >= b
    OBVIOUS
  <2>2. PICK q \in {c, d} : q >= c /\ q >= d
    OBVIOUS
  <2>3. CASE p >= q
    BY <2>1, <2>2, <2>3
  <2>4. CASE q >= p
    BY <2>1, <2>2, <2>4
  <2>5. p \in Int /\ q \in Int
    OBVIOUS
  <2> QED
    BY <2>3, <2>4, <2>5
<1> QED
  BY <1>1, LargestOf

(* What a map lookup has found in the maps.                                *)
LEMMA MapLookedUp ==
  ASSUME LookupInv, lookup.of = "map"
  PROVE  LET m == lookup.map
             y == lookup.column
         IN /\ m \in Maps /\ m.kind \in Kinds
            /\ lookup.out = MapResult(m, y, lookup.offset)
            /\ lookup.offset \in 0..ones /\ u16SpreadOffset \in 0..ones
            /\ u16SpreadIndex \in Int /\ y \in Int
            /\ m.data[<<u16SpreadIndex, y>>] \in Data(m.kind)
            /\ m.data[<<u16SpreadIndex, y + 1>>] \in Data(m.kind)
            /\ m.data[<<u16SpreadIndex + 1, y>>] \in Data(m.kind)
            /\ m.data[<<u16SpreadIndex + 1, y + 1>>] \in Data(m.kind)
<1>1. \E m \in Maps : \E column \in 0..m.row - 2, offset \in ColumnOffsets :
        /\ m.spread = call.spread
        /\ lookup = [of |-> "map", map |-> m, column |-> column, offset |-> offset,
                     out |-> MapResult(m, column, offset)]
  BY DEF LookupInv, Calculated, NotYet
<1>2. PICK m \in Maps : \E column \in 0..m.row - 2, offset \in ColumnOffsets :
        /\ m.spread = call.spread
        /\ lookup = [of |-> "map", map |-> m, column |-> column, offset |-> offset,
                     out |-> MapResult(m, column, offset)]
  BY <1>1
<1>3. PICK column \in 0..m.row - 2, offset \in ColumnOffsets :
        /\ m.spread = call.spread
        /\ lookup = [of |-> "map", map |-> m, column |-> column, offset |-> offset,
                     out |-> MapResult(m, column, offset)]
  BY <1>2
<1>4. /\ lookup.map = m /\ lookup.column = column /\ lookup.offset = offset
      /\ lookup.out = MapResult(m, column, offset)
  BY <1>3
<1>5. /\ m.kind \in Kinds /\ m.row \in Nat \ {0, 1}
      /\ m.data \in [(0..n - 1) \X (0..m.row - 1) -> Data(m.kind)]
  BY <1>3, MapsAssumption DEF n
<1>6. TypeOK
  BY DEF LookupInv, IInv
<1>7. u16SpreadIndex \in 0..n - 1 /\ u16SpreadIndex + 1 \in 0..n - 1
  BY <1>6, Call DEF TypeOK
<1>8. column \in 0..m.row - 1 /\ column + 1 \in 0..m.row - 1
  BY <1>5
<1>9. u16SpreadOffset \in 0..ones /\ offset \in 0..ones
  BY <1>6, OffsetsAssumption DEF TypeOK, ones
<1>10. u16SpreadIndex \in Int /\ column \in Int
  BY <1>7, <1>8
<1>11. /\ m.data[<<u16SpreadIndex, column>>] \in Data(m.kind)
       /\ m.data[<<u16SpreadIndex, column + 1>>] \in Data(m.kind)
       /\ m.data[<<u16SpreadIndex + 1, column>>] \in Data(m.kind)
       /\ m.data[<<u16SpreadIndex + 1, column + 1>>] \in Data(m.kind)
  BY <1>5, <1>7, <1>8
<1> QED
  BY <1>4, <1>5, <1>9, <1>10, <1>11

LEMMA ShortBilinear ==
  ASSUME NEW a \in 0..(Scale \div 2) - 1, NEW b \in 0..(Scale \div 2) - 1,
         NEW c \in 0..(Scale \div 2) - 1, NEW d \in 0..(Scale \div 2) - 1,
         NEW h \in 0..(Scale \div 2) - 1, a <= h, b <= h, c <= h, d <= h,
         NEW column \in 0..ones, NEW row \in 0..ones
  PROVE  LET out == ShortMapInterp(ShortMapInterp(a, b, column),
                                   ShortMapInterp(c, d, column), row)
         IN MeanOf(MeanOf(a, b, column, ones), MeanOf(c, d, column, ones), row, ones)
              - out * ones * ones \in 0..2 * Factor(h, 0) * ones * ones - 1
<1> DEFINE x0 == ShortMapInterp(a, b, column)
           x1 == ShortMapInterp(c, d, column)
           x == ShortMapInterp(x0, x1, row)
           g == Factor(h, 0)
<1>1. /\ Scale \div 2 \in Nat /\ Scale \div 2 <= Long /\ ones \in Nat \ {0}
      /\ a \in Int /\ b \in Int /\ c \in Int /\ d \in Int /\ h \in Int
  <2>1. Scale \div 2 <= Scale /\ Scale <= Scale * Scale
    BY Widths
  <2> QED
    BY <2>1, Widths
<1>2. /\ x0 \in Int /\ 0 <= x0 /\ (x0 <= a \/ x0 <= b)
      /\ Weighted(a, b, column) - x0 * ones \in 0..Factor(a, b) * ones - 1
  BY ShortStage
<1>3. /\ x1 \in Int /\ 0 <= x1 /\ (x1 <= c \/ x1 <= d)
      /\ Weighted(c, d, column) - x1 * ones \in 0..Factor(c, d) * ones - 1
  BY ShortStage
<1> HIDE DEF x0, x1
<1>4. x0 \in 0..(Scale \div 2) - 1 /\ x1 \in 0..(Scale \div 2) - 1 /\ x0 <= h /\ x1 <= h
  BY <1>1, <1>2, <1>3
<1>5. x \in Int /\ Weighted(x0, x1, row) - x * ones \in 0..Factor(x0, x1) * ones - 1
  BY <1>4, ShortStage
<1> HIDE DEF x
<1>6. /\ a \in 0..Long - 1 /\ b \in 0..Long - 1 /\ c \in 0..Long - 1 /\ d \in 0..Long - 1
      /\ x0 \in 0..Long - 1 /\ x1 \in 0..Long - 1 /\ h \in 0..Long - 1
  BY <1>1, <1>4, Widths
<1>7. /\ g \in Nat \ {0} /\ Factor(a, b) \in Nat /\ Factor(a, b) <= g
      /\ Factor(c, d) \in Nat /\ Factor(c, d) <= g
      /\ Factor(x0, x1) \in Nat /\ Factor(x0, x1) <= g
  BY <1>4, <1>6, FactorRises
<1> HIDE DEF g
<1>8. \A f \in Nat : f <= g => f * ones \in Int /\ f * ones <= g * ones
  BY <1>1, <1>7
<1>9. g * ones \in Nat \ {0}
  BY <1>1, <1>7
<1>10. /\ Weighted(a, b, column) = MeanOf(a, b, column, ones)
       /\ Weighted(c, d, column) = MeanOf(c, d, column, ones)
       /\ Weighted(x0, x1, row) = MeanOf(x0, x1, row, ones)
       /\ MeanOf(a, b, column, ones) \in Int /\ MeanOf(c, d, column, ones) \in Int
  BY <1>1, <1>4 DEF Weighted, MeanOf
<1>11. /\ MeanOf(a, b, column, ones) - x0 * ones \in 0..g * ones - 1
       /\ MeanOf(c, d, column, ones) - x1 * ones \in 0..g * ones - 1
       /\ MeanOf(x0, x1, row, ones) - x * ones \in 0..g * ones - 1
  BY <1>2, <1>3, <1>5, <1>7, <1>8, <1>9, <1>10
<1>12. MeanOf(MeanOf(a, b, column, ones), MeanOf(c, d, column, ones), row, ones)
         - x * ones * ones \in 0..2 * (g * ones) * ones - 1
  BY <1>1, <1>2, <1>3, <1>5, <1>9, <1>10, <1>11, Bilinear
<1>13. 2 * (g * ones) * ones = 2 * g * ones * ones
  BY <1>1, <1>7
<1> QED
  BY <1>12, <1>13 DEF x, x0, x1, g

LEMMA UInt32Bilinear ==
  ASSUME NEW a \in 0..Long - 1, NEW b \in 0..Long - 1,
         NEW c \in 0..Long - 1, NEW d \in 0..Long - 1,
         NEW h \in 0..Long - 1, a <= h, b <= h, c <= h, d <= h,
         NEW column \in 0..ones, NEW row \in 0..ones
  PROVE  LET out == UInt32MapInterp(UInt32MapInterp(a, b, column),
                                    UInt32MapInterp(c, d, column), row)
         IN MeanOf(MeanOf(a, b, column, Scale), MeanOf(c, d, column, Scale), row, Scale)
              - out * Scale * Scale \in 0..4 * Factor(h, 0) * Scale * Scale - 1
<1> DEFINE x0 == UInt32MapInterp(a, b, column)
           x1 == UInt32MapInterp(c, d, column)
           x == UInt32MapInterp(x0, x1, row)
           g == Factor(h, 0)
<1>1. /\ Scale \in Nat \ {0} /\ Long \in Nat /\ row \in 0..Scale /\ column \in 0..Scale
      /\ a \in Int /\ b \in Int /\ c \in Int /\ d \in Int /\ h \in Int
  BY Widths
<1>2. /\ x0 \in Int /\ 0 <= x0 /\ (x0 <= a \/ x0 <= b)
      /\ MeanOf(a, b, column, Scale) - x0 * Scale \in 0..2 * Factor(a, b) * Scale - 1
  BY UInt32Stage DEF MeanOf
<1>3. /\ x1 \in Int /\ 0 <= x1 /\ (x1 <= c \/ x1 <= d)
      /\ MeanOf(c, d, column, Scale) - x1 * Scale \in 0..2 * Factor(c, d) * Scale - 1
  BY UInt32Stage DEF MeanOf
<1> HIDE DEF x0, x1
<1>4. x0 \in 0..Long - 1 /\ x1 \in 0..Long - 1 /\ x0 <= h /\ x1 <= h
  BY <1>1, <1>2, <1>3
<1>5. /\ x \in Int
      /\ MeanOf(x0, x1, row, Scale) - x * Scale \in 0..2 * Factor(x0, x1) * Scale - 1
  BY <1>4, UInt32Stage DEF MeanOf
<1> HIDE DEF x
<1>6. /\ g \in Nat \ {0} /\ Factor(a, b) \in Nat /\ Factor(a, b) <= g
      /\ Factor(c, d) \in Nat /\ Factor(c, d) <= g
      /\ Factor(x0, x1) \in Nat /\ Factor(x0, x1) <= g
  BY <1>4, FactorRises
<1> HIDE DEF g
<1>7. \A f \in Nat : f <= g => 2 * f * Scale \in Int /\ 2 * f * Scale <= 2 * g * Scale
  BY <1>1, <1>6
<1>8. 2 * g * Scale \in Nat \ {0}
  BY <1>1, <1>6
<1>9. MeanOf(a, b, column, Scale) \in Int /\ MeanOf(c, d, column, Scale) \in Int
  BY <1>1 DEF MeanOf
<1>10. /\ MeanOf(a, b, column, Scale) - x0 * Scale \in 0..2 * g * Scale - 1
       /\ MeanOf(c, d, column, Scale) - x1 * Scale \in 0..2 * g * Scale - 1
       /\ MeanOf(x0, x1, row, Scale) - x * Scale \in 0..2 * g * Scale - 1
  BY <1>2, <1>3, <1>5, <1>6, <1>7, <1>8
<1>11. MeanOf(MeanOf(a, b, column, Scale), MeanOf(c, d, column, Scale), row, Scale)
         - x * Scale * Scale \in 0..2 * (2 * g * Scale) * Scale - 1
  BY <1>1, <1>2, <1>3, <1>5, <1>8, <1>9, <1>10, Bilinear
<1>12. 2 * (2 * g * Scale) * Scale = 4 * g * Scale * Scale
  BY <1>1, <1>6
<1> QED
  BY <1>11, <1>12 DEF x, x0, x1, g

LEMMA LookupInterpolates == LookupInv => MapInterpolates
<1> DEFINE m == lookup.map
           y == lookup.column
           i == u16SpreadIndex
           corner(p, q) == m.data[<<u16SpreadIndex + p, y + q>>]
           a == m.data[<<i, y>>]
           b == m.data[<<i, y + 1>>]
           c == m.data[<<i + 1, y>>]
           d == m.data[<<i + 1, y + 1>>]
           highest == Largest({corner(p, q) : p, q \in {0, 1}})
           h == Largest({a, b, c, d})
           exact(all) == MeanOf(MeanOf(a, b, lookup.offset, all),
                                MeanOf(c, d, lookup.offset, all), u16SpreadOffset, all)
<1> SUFFICES ASSUME LookupInv, lookup.of = "map", m.kind # "int32",
                    \A p, q \in {0, 1} : corner(p, q) >= 0
             PROVE  LET all == IF m.kind = "short" THEN ones ELSE Scale
                        losses == IF m.kind = "short" THEN 2 ELSE 4
                        mean(l, r, offset) == r * offset + l * (all - offset)
                        sum == mean(mean(corner(0, 0), corner(0, 1), lookup.offset),
                                    mean(corner(1, 0), corner(1, 1), lookup.offset),
                                    u16SpreadOffset)
                    IN sum - lookup.out * all * all
                         \in 0 .. losses * Factor(highest, 0) * all * all - 1
  BY DEF MapInterpolates
<1>1. /\ m \in Maps /\ m.kind \in Kinds /\ lookup.out = MapResult(m, y, lookup.offset)
      /\ lookup.offset \in 0..ones /\ u16SpreadOffset \in 0..ones /\ i \in Int /\ y \in Int
      /\ a \in Data(m.kind) /\ b \in Data(m.kind) /\ c \in Data(m.kind) /\ d \in Data(m.kind)
  BY MapLookedUp
<1>2. a \in Int /\ b \in Int /\ c \in Int /\ d \in Int
  BY <1>1, DataAreIntegers
<1>3. corner(0, 0) = a /\ corner(0, 1) = b /\ corner(1, 0) = c /\ corner(1, 1) = d
  BY <1>1
<1>4. a >= 0 /\ b >= 0 /\ c >= 0 /\ d >= 0
  BY <1>3
<1>5. {corner(p, q) : p, q \in {0, 1}} = {a, b, c, d}
  BY <1>3
<1>6. highest = h
  BY <1>5
<1>7. h \in {a, b, c, d} /\ h >= a /\ h >= b /\ h >= c /\ h >= d
  BY <1>2, LargestOfFour
<1> HIDE DEF corner, highest, h
<1>8. CASE m.kind = "short"
  <2>1. lookup.out = ShortMapInterp(ShortMapInterp(a, b, lookup.offset),
                                    ShortMapInterp(c, d, lookup.offset), u16SpreadOffset)
    BY <1>1, <1>8 DEF MapResult, MapData
  <2>2. /\ a \in 0..(Scale \div 2) - 1 /\ b \in 0..(Scale \div 2) - 1
        /\ c \in 0..(Scale \div 2) - 1 /\ d \in 0..(Scale \div 2) - 1
        /\ h \in 0..(Scale \div 2) - 1
    BY <1>1, <1>2, <1>4, <1>7, <1>8 DEF Data
  <2>3. exact(ones) - lookup.out * ones * ones \in 0..2 * Factor(h, 0) * ones * ones - 1
    <3> HIDE DEF a, b, c, d
    <3> QED
      BY <1>1, <1>7, <2>1, <2>2, ShortBilinear
  <2> HIDE DEF a, b, c, d
  <2> QED
    BY <1>3, <1>6, <1>8, <2>3 DEF MeanOf
<1>9. CASE m.kind = "uint32"
  <2>1. lookup.out = UInt32MapInterp(UInt32MapInterp(a, b, lookup.offset),
                                     UInt32MapInterp(c, d, lookup.offset), u16SpreadOffset)
    BY <1>1, <1>9 DEF MapResult, MapData
  <2>2. /\ a \in 0..Long - 1 /\ b \in 0..Long - 1 /\ c \in 0..Long - 1 /\ d \in 0..Long - 1
        /\ h \in 0..Long - 1
    BY <1>1, <1>2, <1>4, <1>7, <1>9 DEF Data
  <2>3. exact(Scale) - lookup.out * Scale * Scale \in 0..4 * Factor(h, 0) * Scale * Scale - 1
    <3> HIDE DEF a, b, c, d
    <3> QED
      BY <1>1, <1>7, <2>1, <2>2, UInt32Bilinear
  <2> HIDE DEF a, b, c, d
  <2> QED
    BY <1>3, <1>6, <1>9, <2>3 DEF MeanOf
<1> QED
  BY <1>1, <1>8, <1>9 DEF Kinds

(* What a map gives is the weighted mean of the corners of its cell, but   *)
(* for the digits lost by halving: for every map of data that are not      *)
(* negative, every value of rows and columns.                              *)
THEOREM MapsAreMeans == LookupSpec => []MapInterpolates
BY LookupInterpolates, LookupInvariance, PTL
=============================================================================
