-------------------------------- MODULE Ages --------------------------------
(***************************************************************************)
(* A receive time the code stores is modelled by its age in clock ticks.   *)
(* The code only ever compares an age with a timeout, so an age saturates  *)
(* at the first value the comparison can no longer tell apart.             *)
(***************************************************************************)
EXTENDS Integers

\* One tick older, saturating at `cap`.
Older(age, cap) == IF age < cap THEN age + 1 ELSE cap

=============================================================================
