---------------------------- MODULE MCTableLookup ----------------------------
EXTENDS TableLookup

CONSTANT SizeMax

(* Breakpoints at even distances, below, at and above the scale, and at    *)
(* growing ones, for every size in use.                                    *)
Even(size, gap)  == [size |-> size, at |-> [i \in 0..size - 1 |-> 1 + gap * i]]
Growing(size)    == [size |-> size, at |-> [i \in 0..size - 1 |-> 1 + (i * i + i) \div 2]]
SpreadsInUse     == {Even(size, gap) : size \in 2..SizeMax, gap \in {1, 3}}
                      \cup {Even(size, gap) : size \in {2, 3}, gap \in {15, 16, 40}}
                      \cup {Growing(size) : size \in 2..SizeMax}
Values           == 0..4 * SizeMax

(* Data below, at and above the limit from which they are halved, negative *)
(* ones, and the largest.                                                  *)
ShortData  == {-8, -5, -4, -3, 0, 2, 3, 4, 7}
LongData   == {0, 1, 3, 4, 21, 255}
IntData    == {-128, -9, -3, 0, 3, 4, 127}
Cell(kind, spread, D) ==
  {[spread |-> spread, kind |-> kind, data |-> d] : d \in [0..spread.size - 1 -> D]}
TablesInUse ==
  Cell("short", Even(2, 15), ShortData) \cup Cell("int32", Even(2, 15), IntData)
    \cup Cell("uint32", Even(2, 15), LongData)
    \cup Cell("uint32", Even(2, 40), {1, 21})
    \cup Cell("uint32", Even(3, 3), {0, 3, 21}) \cup Cell("short", Even(3, 3), {-3, 0, 3})

Grid(kind, spread, D) ==
  {[spread |-> spread, kind |-> kind, row |-> 2, data |-> d] :
     d \in [(0..spread.size - 1) \X (0..1) -> D]}
MapsInUse ==
  Grid("short", Even(2, 3), {0, 3, 7}) \cup Grid("short", Even(2, 3), {-3, 2})
    \cup Grid("uint32", Even(2, 3), {3, 255}) \cup Grid("int32", Even(2, 3), {-9, 100})
=============================================================================
