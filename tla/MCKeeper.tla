------------------------------ MODULE MCKeeper ------------------------------
(***************************************************************************)
(* A small campaign, and a keeper, for TLC.                                *)
(***************************************************************************)
EXTENDS Keeper, TLC

CONSTANTS v1, ann

=============================================================================
