-------------------------- MODULE PrioritiseQueue --------------------------
(***************************************************************************)
(* OS_vPrioritiseQueue (OS.c): the in-place bubble sort of a linked task   *)
(* queue that decides the order in which OS_vStart starts the modules.     *)
(*                                                                         *)
(* A task node is its position in OS_rastTaskStart, Null is 0.  The code   *)
(* casts the address of the queue's head pointer to a node, so the head is *)
(* the next field of the node List.                                        *)
(***************************************************************************)
EXTENDS Integers, Sequences

CONSTANTS NodeMax, PriorityMax

ASSUME SizeAssumption == NodeMax \in Nat \ {0} /\ PriorityMax \in Nat

Null == 0
List == -1

VARIABLES
  count,       \* tasks in the queue
  priority,    \* enTaskPriority of each
  next,        \* their next pointers, and the head's
  pc,
  u16NodeCount, u16I, u16J,
  pstNode1, pstNode2, pstNode3

sortVars == <<count, priority, next, pc, u16NodeCount, u16I, u16J,
              pstNode1, pstNode2, pstNode3>>
input == <<count, priority>>

(* The queue as OS_vStart pushed it: the last task of the table first.     *)
Pushed == [n \in {List} \cup 1..count |-> IF n = List THEN count ELSE n - 1]

SortInit ==
  /\ count \in 1..NodeMax
  /\ priority \in [1..count -> 0..PriorityMax]
  /\ next = Pushed
  /\ pc = "count" /\ u16NodeCount = 1 /\ u16I = 0 /\ u16J = 0
  /\ pstNode1 = next[List] /\ pstNode2 = Null /\ pstNode3 = Null

CountNode ==
  /\ pc = "count"
  /\ IF next[pstNode1] # Null
     THEN /\ u16NodeCount' = u16NodeCount + 1 /\ pstNode1' = next[pstNode1]
          /\ UNCHANGED pc
     ELSE pc' = "pass" /\ UNCHANGED <<u16NodeCount, pstNode1>>
  /\ UNCHANGED <<input, next, u16I, u16J, pstNode2, pstNode3>>

StartPass ==
  /\ pc = "pass" /\ u16I < u16NodeCount - 1
  /\ pc' = "inner" /\ u16J' = 0
  /\ pstNode1' = List /\ pstNode2' = next[List] /\ pstNode3' = next[next[List]]
  /\ UNCHANGED <<input, next, u16NodeCount, u16I>>

OutOfOrder == priority[pstNode2] > priority[pstNode3]

InLoop == pc = "inner" /\ u16J < u16NodeCount - u16I - 1

(* Two neighbours change places; on the first turn the node before them is *)
(* the head pointer itself.                                                *)
\* a mutant: the head pointer is not updated
ExchangeKeepsHead ==
  /\ InLoop /\ OutOfOrder
  /\ next' = [next EXCEPT ![pstNode2] = next[pstNode3], ![pstNode3] = pstNode2,
                          ![pstNode1] = IF u16J = 0 THEN @ ELSE pstNode3]
  /\ pstNode1' = pstNode3 /\ pstNode3' = next[pstNode3] /\ u16J' = u16J + 1
  /\ UNCHANGED <<input, pc, u16NodeCount, u16I, pstNode2>>
Exchange ==
  /\ InLoop /\ OutOfOrder
  /\ next' = [next EXCEPT ![pstNode2] = next[pstNode3], ![pstNode3] = pstNode2,
                          ![pstNode1] = pstNode3]
  /\ pstNode1' = pstNode3 /\ pstNode3' = next[pstNode3] /\ u16J' = u16J + 1
  /\ UNCHANGED <<input, pc, u16NodeCount, u16I, pstNode2>>

Advance ==
  /\ InLoop /\ ~OutOfOrder
  /\ pstNode1' = pstNode2 /\ pstNode2' = pstNode3 /\ pstNode3' = next[pstNode3]
  /\ u16J' = u16J + 1
  /\ UNCHANGED <<input, next, pc, u16NodeCount, u16I>>

EndPass ==
  /\ pc = "inner" /\ ~InLoop
  /\ pc' = "pass" /\ u16I' = u16I + 1
  /\ UNCHANGED <<input, next, u16NodeCount, u16J, pstNode1, pstNode2, pstNode3>>

Return ==
  /\ pc = "pass" /\ u16I >= u16NodeCount - 1
  /\ pc' = "done"
  /\ UNCHANGED <<input, next, u16NodeCount, u16I, u16J, pstNode1, pstNode2, pstNode3>>

SortNext == CountNode \/ StartPass \/ Exchange \/ Advance \/ EndPass \/ Return

-----------------------------------------------------------------------------
(* The order of starting: by priority, and among equals the one pushed     *)
(* last (further down the table) first.                                    *)
Before(m, n) == priority[m] < priority[n] \/ (priority[m] = priority[n] /\ m > n)

=============================================================================
