------------------------- MODULE ValidatorRotation -------------------------
(***************************************************************************)
(* What the pallet octopus-lpos promises about the validators: the set of  *)
(* the next era is planned once, ahead of time, while the present era      *)
(* lasts; it takes office as it was planned, and nothing else ever         *)
(* changes the validators in office.                                       *)
(***************************************************************************)
CONSTANT Validators

VARIABLES
    inOffice,   \* the validators of the session
    planned     \* the set of the next era, {} while none is planned

rotationVars == <<inOffice, planned>>

Sets == (SUBSET Validators) \ {{}}

RotationInit == inOffice \in Sets /\ planned = {}

PlanEra ==
    /\ planned = {}
    /\ planned' \in Sets
    /\ UNCHANGED inOffice

ChangeEra ==
    /\ planned # {}
    /\ inOffice' = planned
    /\ planned' = {}

RotationNext == PlanEra \/ ChangeEra

RotationSpec == RotationInit /\ [][RotationNext]_rotationVars
=============================================================================
