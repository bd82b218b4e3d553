------------------------------- MODULE MCRamp -------------------------------
(***************************************************************************)
(* One user and two attempts at the TRY ramp, for TLC.                     *)
(***************************************************************************)
EXTENDS RampDialog, TLC

CONSTANT u1

=============================================================================
