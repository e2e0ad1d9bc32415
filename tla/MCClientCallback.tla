-------------------------- MODULE MCClientCallback --------------------------
EXTENDS ClientCallback

All == {Adc, Tepm, Diag}
(* The timers' and the CAN interrupt share a level (IRQ_enPRIO_15); the    *)
(* converter's (IRQ_enPRIO_8) preempts them, and is enabled on its own.    *)
OneLevel == {{Tepm, Diag}, {Adc}}
TwoLevels == {{Adc, Tepm}}
Urgency == [p \in All |-> IF p = Adc THEN 2 ELSE 1]
=============================================================================
