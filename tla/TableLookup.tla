----------------------------- MODULE TableLookup -----------------------------
(***************************************************************************)
(* TABLE_vCalculate (tables.c) and MAP_vCalculate (maps.c): the value of a *)
(* table or a map between the breakpoints that SPREAD_vCalculate has found *)
(* (SpreadSearch).  A client looks up its spreads and then its table, one  *)
(* system call after the other; the result of each spread stays in its     *)
(* control block.                                                          *)
(*                                                                         *)
(* The products must fit 32 bits: data of 15 bits or more are halved until *)
(* both ends of the cell fit, interpolated, and scaled up again.  Widths   *)
(* follow from Scale, so that they can be small: offsets and short data    *)
(* have the bits of Scale, long data and the products those of its square. *)
(***************************************************************************)
EXTENDS SpreadSearch

CONSTANTS
  Tables,  \* the tables there may be: spread, type of their data, data
  Maps,    \* the maps: the spread of their rows, size of a row, type, data
  ColumnOffsets  \* the offsets the spread of a map's columns may have come to

Kinds == {"short", "int32", "uint32"}
Long == Scale * Scale
ones == Scale - 1      \* 0xffff
Half == Scale \div 4   \* 0x4000

(* The values of each type.                                                *)
Data(kind) ==
  CASE kind = "short" -> -(Scale \div 2)..(Scale \div 2) - 1
    [] kind = "int32" -> -(Long \div 2)..(Long \div 2) - 1
    [] kind = "uint32" -> 0..Long - 1

(* The masks the code keeps in a table, as far as the halving can come.    *)
Powers == {1, 2, 4, 8, 16, 32, 64, 128, 256, 512, 1024, 2048, 4096, 8192, 16384, 32768,
           65536, 131072, 262144, 524288, 1048576}

ASSUME WidthAssumption == Scale % 8 = 0 /\ 4 * Scale \in Powers
ASSUME TablesAssumption == \A t \in Tables :
  /\ t.spread \in Spreads /\ t.kind \in Kinds
  /\ t.data \in [0..t.spread.size - 1 -> Data(t.kind)]
ASSUME MapsAssumption == \A m \in Maps :
  /\ m.spread \in Spreads /\ m.kind \in Kinds /\ m.row \in Nat \ {0, 1}
  /\ m.data \in [(0..m.spread.size - 1) \X (0..m.row - 1) -> Data(m.kind)]
ASSUME OffsetsAssumption == ColumnOffsets \subseteq 0..ones

VARIABLE lookup  \* the table or map calculated, the result, and the second offset
lookupVars == <<vars, lookup>>
NotYet == [of |-> "nothing"]

-----------------------------------------------------------------------------
(* The machine's arithmetic.                                               *)
Signed(x, m) == LET r == x % m IN IF r >= m \div 2 THEN r - m ELSE r
Trunc(x, d) == IF x < 0 THEN -((-x) \div d) ELSE x \div d
Magnitude(x) == IF x < 0 THEN -x ELSE x

(* The power of two that brings both ends of the cell below Half.          *)
Fits(x, f) == Magnitude(Trunc(x, f)) < Half
\* a mutant: only the beginning of the cell is looked at
LeftFactor(l, r) == CHOOSE f \in Powers : Fits(l, f) /\ \A g \in Powers : Fits(l, g) => f <= g
Factor(l, r) ==
  CHOOSE f \in Powers :
    /\ Fits(l, f) /\ Fits(r, f)
    /\ \A g \in Powers : Fits(l, g) /\ Fits(r, g) => f <= g

Weighted(l, r, offset) == r * offset + l * (ones - offset)

(* Data of 16 bits: divided, summed and scaled up as unsigned numbers.     *)
ShortInterp(l, r, offset) ==
  LET f == Factor(l, r)
      part(x) == Signed((x % Long) \div f, Scale)
  IN Signed((((Weighted(part(l), part(r), offset) % Long) * f) % Long) \div ones, Scale)
Int32Interp(l, r, offset) ==
  LET f == Factor(l, r) IN
  Signed(Trunc(Signed(Weighted(Trunc(l, f), Trunc(r, f), offset), Long), ones) * f, Long)
UInt32Interp(l, r, offset) ==
  LET f == Factor(l, r) IN
  (((Weighted(l \div f, r \div f, offset) % Long) \div ones) * f) % Long

(* A map reads data of 16 bits without their sign; the sign comes back     *)
(* only where nothing was halved.  Its weights of 32 bits add up to Scale. *)
ShortMapInterp(l, r, offset) ==
  LET f == Factor(Signed(l, Scale), Signed(r, Scale))
      part(x) == Signed((x % Scale) \div f, Scale)
  IN Signed((((Weighted(part(l), part(r), offset) % Long) * f) % Long) \div ones, Scale)
UInt32MapInterp(l, r, offset) ==
  LET f == Factor(l, r) IN
  (((((r \div f) * offset + (l \div f) * (Scale - offset)) % Long) \div Scale) * f) % Long

-----------------------------------------------------------------------------
TableResult(t) ==
  LET l == t.data[u16SpreadIndex]
      r == t.data[u16SpreadIndex + 1]
  IN CASE t.kind = "short" -> ShortInterp(l, r, u16SpreadOffset)
       [] t.kind = "int32" -> Int32Interp(l, r, u16SpreadOffset)
       [] t.kind = "uint32" -> UInt32Interp(l, r, u16SpreadOffset)

TableCalculate ==
  \E t \in Tables :
    /\ pc = "done" /\ lookup = NotYet /\ t.spread = call.spread
    /\ lookup' = [of |-> "table", table |-> t, out |-> TableResult(t)]
    /\ UNCHANGED vars

(* The spread of the columns has been looked up before; both rows are      *)
(* interpolated with its result, and the results with that of the rows.    *)
(* The branch for int32 knows neither the columns nor signs.               *)
Int32MapResult(m) ==
  LET at(i) == m.data[<<i \div m.row, i % m.row>>]
      l == at(u16SpreadIndex)
      r == at(u16SpreadIndex + 1)
      f == Factor(l, r)
      part(x) == Signed((x % Long) \div f, Long)
  IN Signed(((Weighted(part(l), part(r), u16SpreadOffset) % Long) \div ones) * f, Long)
\* a mutant: the rows are not told apart
MapDataFirst(m, row, column) == m.data[<<0, column>>]
MapData(m, row, column) == m.data[<<row, column>>]
MapResult(m, column, offset) ==
  LET between(Interp(_, _, _)) ==
        LET inRow(x) == Interp(MapData(m, x, column), MapData(m, x, column + 1), offset)
        IN Interp(inRow(u16SpreadIndex), inRow(u16SpreadIndex + 1), u16SpreadOffset)
  IN CASE m.kind = "short" -> between(ShortMapInterp)
       [] m.kind = "int32" -> Int32MapResult(m)
       [] m.kind = "uint32" -> between(UInt32MapInterp)

MapCalculate ==
  \E m \in Maps : \E column \in 0..m.row - 2, offset \in ColumnOffsets :
    /\ pc = "done" /\ lookup = NotYet /\ m.spread = call.spread
    /\ lookup' = [of |-> "map", map |-> m, column |-> column, offset |-> offset,
                  out |-> MapResult(m, column, offset)]
    /\ UNCHANGED vars

LookupInit == Init /\ lookup = NotYet
LookupNext == TableCalculate \/ MapCalculate \/ (Next /\ UNCHANGED lookup)
LookupSpec == LookupInit /\ [][LookupNext]_lookupVars /\ WF_vars(Next)

-----------------------------------------------------------------------------
Smallest(S) == CHOOSE x \in S : \A y \in S : x <= y
Largest(S) == CHOOSE x \in S : \A y \in S : x >= y

(* What a table gives for a source lies between the data at the ends of    *)
(* the source's cell, but for the digits lost by halving; negative sums,   *)
(* divided as unsigned numbers, come out one too high.                     *)
TableBetween ==
  lookup.of = "table" /\ call.kind \in Searched =>
    LET t == lookup.table
        l == t.data[u16SpreadIndex]
        r == t.data[u16SpreadIndex + 1]
        lost == Factor(l, r) - 1
        high == IF t.kind = "short" /\ Smallest({l, r}) < 0 THEN 1 ELSE 0
    IN lookup.out \in Smallest({l, r}) - lost .. Largest({l, r}) + lost + high

(* On a breakpoint of a spread of uint32 a table of small data gives the   *)
(* breakpoint's own value, the last one included.                          *)
TableExact ==
  lookup.of = "table" /\ call.kind = "uint32" =>
    LET t == lookup.table IN
    \A i \in 0..n - 1 :
      source = sp(i) /\ t.data[i] \in 0..Half - 1
        /\ t.data[u16SpreadIndex] \in 0..Half - 1 /\ t.data[u16SpreadIndex + 1] \in 0..Half - 1
      => lookup.out = t.data[i]

(* What a map gives is the mean of the four corners of its cell, weighted  *)
(* by the two offsets and rounded down, but for the digits lost by halving *)
(* in each of the two directions; long data lose as many again, because    *)
(* they are divided before they are scaled up.                             *)
MapInterpolates ==
  LET m == lookup.map
      all == IF m.kind = "short" THEN ones ELSE Scale
      losses == IF m.kind = "short" THEN 2 ELSE 4
      corner(x, y) == m.data[<<u16SpreadIndex + x, lookup.column + y>>]
      highest == Largest({corner(x, y) : x, y \in {0, 1}})
      mean(l, r, offset) == r * offset + l * (all - offset)
      exact == mean(mean(corner(0, 0), corner(0, 1), lookup.offset),
                    mean(corner(1, 0), corner(1, 1), lookup.offset), u16SpreadOffset)
  IN lookup.of = "map" /\ m.kind # "int32" /\ (\A x, y \in {0, 1} : corner(x, y) >= 0)
     => exact - lookup.out * all * all \in 0 .. losses * Factor(highest, 0) * all * all - 1
=============================================================================
