------------------------ MODULE MCDiagnosticReceive ------------------------
EXTENDS DiagnosticReceive

(* Requests that need two consecutive frames, and that do not fit the      *)
(* buffer; and a block of as many frames as make the sequence number wrap, *)
(* of which two in a row may be lost.                                      *)
Requests == [small |-> {14, 22}, large |-> {}, loss |-> 0, parts |-> 4]
Blocks   == [small |-> {}, large |-> {27}, loss |-> 2, parts |-> 5]
Either   == {Requests, Blocks}
=============================================================================
