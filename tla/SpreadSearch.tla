---------------------------- MODULE SpreadSearch ----------------------------
(***************************************************************************)
(* SPREAD_vCalculate (spreads.c): the cell of a spread (a rising list of   *)
(* breakpoints) that a value lies in, and how far along the cell it is.    *)
(* Tables and maps are interpolated with the two numbers.  The cell is     *)
(* searched by bisection between two places, the current and the last one, *)
(* whose order tells the direction of the last move.                       *)
(*                                                                         *)
(* The routine runs in the system call handler, the highest level there    *)
(* is: nothing changes the spread meanwhile, and nothing else runs until   *)
(* it returns.  A behaviour is one call.  The branches for the three types *)
(* that are searched differ in one comparison (IsHere) and in the offset.  *)
(***************************************************************************)
EXTENDS Integers

CONSTANTS
  Spreads,  \* the spreads there may be: their sizes and breakpoints
  Sources,  \* the values looked up
  Scale     \* the offset counts a cell in so many steps, 0x10000

ASSUME ScaleAssumption == Scale \in Nat \ {0, 1}
ASSUME SourcesAssumption == Sources \subseteq Int
ASSUME SpreadsAssumption == \A s \in Spreads :
  /\ s.size \in Nat \ {0, 1} /\ s.at \in [0..s.size - 1 -> Int]
  /\ \A i, j \in 0..s.size - 1 : i < j => s.at[i] < s.at[j]

Searched == {"uint16", "uint32", "int32"}
Calls == [kind : Searched \cup {"other"}, spread : Spreads, source : Sources]

VARIABLES
  call, pc,
  u16SpreadIDX, u16OldSpreadIDX,  \* the current place and the last
  u16SpreadIndex, u16SpreadOffset, \* the result
  boResultFound,
  s32Step, s32Increment  \* the width of the cell and the source's way into it

places == <<u16SpreadIDX, u16OldSpreadIDX>>
vars == <<call, pc, places, u16SpreadIndex, u16SpreadOffset, boResultFound,
          s32Step, s32Increment>>

n == call.spread.size
source == call.source
sp(i) == call.spread.at[i]
cur == u16SpreadIDX
old == u16OldSpreadIDX

Init ==
  /\ call \in Calls /\ pc = "start" /\ boResultFound = FALSE
  /\ u16SpreadIDX = 0 /\ u16OldSpreadIDX = 0
  /\ u16SpreadIndex = 0 /\ u16SpreadOffset = 0
  /\ s32Step = 1 /\ s32Increment = 0

-----------------------------------------------------------------------------
(* Values outside the spread, and types that are not searched: the routine *)
(* returns FALSE, of which the system call makes BadArgument.              *)
Finish(index, offset) ==
  /\ pc = "start" /\ pc' = "done"
  /\ u16SpreadIndex' = index /\ u16SpreadOffset' = offset
  /\ UNCHANGED <<call, places, boResultFound, s32Step, s32Increment>>
NotSearched == call.kind \notin Searched /\ Finish(u16SpreadIndex, u16SpreadOffset)
Below == call.kind \in Searched /\ source < sp(0) /\ Finish(0, 0)
\* a mutant: the last breakpoint itself is left to the search
PastLast == source > sp(n - 1)
AtOrPastLast == source >= sp(n - 1)
\* a mutant: at the beginning of the last cell
AboveAtStart ==
  call.kind \in Searched /\ source >= sp(0) /\ AtOrPastLast /\ Finish(n - 2, 0)
Above ==
  call.kind \in Searched /\ source >= sp(0) /\ AtOrPastLast /\ Finish(n - 2, Scale - 1)

BeginSearch ==
  /\ pc = "start" /\ call.kind \in Searched /\ source >= sp(0) /\ ~AtOrPastLast
  /\ pc' = "search" /\ u16SpreadIDX' = n \div 2 /\ u16OldSpreadIDX' = n - 1
  /\ UNCHANGED <<call, u16SpreadIndex, u16SpreadOffset, boResultFound,
                 s32Step, s32Increment>>

-----------------------------------------------------------------------------
(* The search.                                                             *)
AtCur == pc = "search" /\ source = sp(cur)
Left == pc = "search" /\ source < sp(cur)
Right == pc = "search" /\ source > sp(cur)

Found(index, offset) ==
  /\ pc' = "found" /\ u16SpreadIndex' = index /\ u16SpreadOffset' = offset
  /\ boResultFound' = TRUE
  /\ UNCHANGED <<call, places, s32Step, s32Increment>>
FoundExact == AtCur /\ Found(cur, 0)
\* a mutant: the cell to the left is taken for the one to the right
FoundLeftHere == Left /\ source >= sp(cur - 1) /\ Found(cur, u16SpreadOffset)
FoundLeft == Left /\ source >= sp(cur - 1) /\ Found(cur - 1, u16SpreadOffset)
(* Only the branch for uint32 leaves the next breakpoint to the next cell. *)
IsHere == source < sp(cur + 1) \/ (call.kind # "uint32" /\ source = sp(cur + 1))
FoundHere == Right /\ IsHere /\ Found(cur, u16SpreadOffset)

Move(place) ==
  /\ u16OldSpreadIDX' = cur /\ u16SpreadIDX' = place
  /\ UNCHANGED <<call, pc, u16SpreadIndex, u16SpreadOffset, boResultFound,
                 s32Step, s32Increment>>
\* a mutant: every move to the left halves the way to the first breakpoint
MoveLeftFar == Left /\ source < sp(cur - 1) /\ Move(cur \div 2)
MoveLeft ==
  /\ Left /\ source < sp(cur - 1)
  /\ Move(IF old < cur THEN (cur + old) \div 2 ELSE cur \div 2)
MoveRight ==
  /\ Right /\ ~IsHere
  /\ Move(IF old > cur THEN (cur + old) \div 2 ELSE (cur + n) \div 2)

-----------------------------------------------------------------------------
(* The offset.  In wide cells the width is halved until it fits, and the   *)
(* increment as often.                                                     *)
width == sp(u16SpreadIndex + 1) - sp(u16SpreadIndex)
Measure ==
  /\ pc = "found" /\ call.kind # "uint16" /\ pc' = "divide"
  /\ s32Step' = width /\ s32Increment' = source - sp(u16SpreadIndex)
  /\ UNCHANGED <<call, places, u16SpreadIndex, u16SpreadOffset, boResultFound>>
TooWide == s32Step >= Scale
Halve ==
  /\ pc = "divide" /\ TooWide
  /\ s32Step' = s32Step \div 2 /\ s32Increment' = s32Increment \div 2
  /\ UNCHANGED <<call, pc, places, u16SpreadIndex, u16SpreadOffset, boResultFound>>
\* a mutant: the fraction is rounded up
FractionUp == (Scale * s32Increment) \div s32Step + 1
Fraction == (Scale * s32Increment) \div s32Step
ComputeOffset ==
  /\ pc = "divide" /\ ~TooWide /\ pc' = "done" /\ u16SpreadOffset' = Fraction % Scale
  /\ UNCHANGED <<call, places, u16SpreadIndex, boResultFound, s32Step, s32Increment>>
(* The branch for uint16 takes the width from behind a null pointer, and   *)
(* the source for 0.                                                       *)
ComputeOffsetFromNull ==
  /\ pc = "found" /\ call.kind = "uint16" /\ pc' = "done"
  /\ u16SpreadOffset' \in 0..Scale - 1
  /\ UNCHANGED <<call, places, u16SpreadIndex, boResultFound, s32Step, s32Increment>>

Next ==
  \/ NotSearched \/ Below \/ Above \/ BeginSearch
  \/ FoundExact \/ FoundLeft \/ FoundHere \/ MoveLeft \/ MoveRight
  \/ Measure \/ Halve \/ ComputeOffset \/ ComputeOffsetFromNull
Spec == Init /\ [][Next]_vars /\ WF_vars(Next)

-----------------------------------------------------------------------------
TypeOK ==
  /\ call \in Calls /\ pc \in {"start", "search", "found", "divide", "done"}
  /\ u16SpreadIDX \in 0..n - 1 /\ u16OldSpreadIDX \in 0..n - 1
  /\ u16SpreadIndex \in 0..n - 2 /\ u16SpreadOffset \in 0..Scale - 1
  /\ boResultFound \in BOOLEAN
  /\ s32Step \in Nat \ {0} /\ s32Increment \in Nat

(* The search never reads a breakpoint before the first or after the last, *)
(* although it tests neither: the two checks before it must rule that out  *)
(* wherever the two places have come to.                                   *)
ReadsInside ==
  /\ Left => cur - 1 \in 0..n - 1
  /\ Right => cur + 1 \in 0..n - 1
  /\ pc = "found" => u16SpreadIndex + 1 \in 0..n - 1

(* The result names the cell the source lies in; the types other than      *)
(* uint32 may take the breakpoint between two cells for the end of the     *)
(* first.                                                                  *)
InCell(i) ==
  sp(i) <= source /\ (source < sp(i + 1) \/ (call.kind # "uint32" /\ source = sp(i + 1)))
Located ==
  pc = "done" /\ call.kind \in Searched =>
    IF source < sp(0) THEN u16SpreadIndex = 0
    ELSE IF source >= sp(n - 1) THEN u16SpreadIndex = n - 2
    ELSE InCell(u16SpreadIndex)

(* The offset is the fraction of the cell that lies below the source,      *)
(* rounded down, in cells not wider than the scale; at a breakpoint taken  *)
(* for the end of a cell it would be the whole cell, and comes out as 0.   *)
OffsetIsFraction ==
  LET below == Scale * (source - sp(u16SpreadIndex)) IN
  pc = "done" /\ boResultFound /\ call.kind # "uint16" /\ width < Scale =>
    IF source = sp(u16SpreadIndex + 1) THEN u16SpreadOffset = 0
    ELSE u16SpreadOffset * width <= below /\ below < (u16SpreadOffset + 1) * width

(* Every call returns: the bisection does not go round in circles.         *)
Terminates == <>(pc = "done")
=============================================================================
