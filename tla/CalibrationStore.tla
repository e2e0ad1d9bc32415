-------------------------- MODULE CalibrationStore --------------------------
(***************************************************************************)
(* What the saving of the calibration promises: power-up brings back the   *)
(* image that was saved last, or the one in ROM when there is none; the    *)
(* saved image is only ever lost while another one is being saved, by a    *)
(* power loss or because the save fails, and it is the whole of what was   *)
(* being worked with: parts of two images are never taken for one.         *)
(***************************************************************************)
CONSTANTS Image, Rom

VARIABLES
  work,   \* the image worked with: none without power, else one
  saved,  \* the image that power-up would bring back: none or one
  last,   \* the image saved last, as long as it is known
  saving  \* a save is under way

Init == work = {} /\ saved = {} /\ last = {} /\ saving = FALSE

PowerUp ==
  /\ work = {}
  /\ work' = IF saved = {} THEN {Rom} ELSE saved
  /\ UNCHANGED <<saved, last, saving>>

Change ==
  /\ work # {} /\ ~saving
  /\ \E i \in Image : work' = {i}
  /\ UNCHANGED <<saved, last, saving>>

Begin == work # {} /\ ~saving /\ saving' = TRUE /\ UNCHANGED <<work, saved, last>>

\* While another is saved over it, the image saved last may be lost; what was
\* lost comes back whole or not at all.
Overwritten == last' \in {last, {}} /\ saved' \in {last', {}}
Overwrite == saving /\ Overwritten /\ UNCHANGED <<work, saving>>

Finish == saving /\ saving' = FALSE /\ saved' = work /\ last' = work /\ UNCHANGED work
Fail == saving /\ saving' = FALSE /\ UNCHANGED <<work, saved, last>>

PowerLoss ==
  /\ work' = {} /\ saving' = FALSE
  /\ IF saving THEN Overwritten ELSE UNCHANGED <<saved, last>>

Next == PowerUp \/ Change \/ Begin \/ Overwrite \/ Finish \/ Fail \/ PowerLoss
Spec == Init /\ [][Next]_<<work, saved, last, saving>>
=============================================================================
