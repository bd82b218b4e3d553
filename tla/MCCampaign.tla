----------------------------- MODULE MCCampaign -----------------------------
(***************************************************************************)
(* Small campaigns for TLC.  The videos are interchangeable; so would the  *)
(* users be, but the instances name one of them as a challenger.           *)
(***************************************************************************)
EXTENDS CampaignEscrow, TLC

CONSTANTS v1, v2, ann, bob

Symmetry == Permutations({v1, v2})

=============================================================================
