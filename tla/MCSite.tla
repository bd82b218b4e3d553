------------------------------- MODULE MCSite -------------------------------
(***************************************************************************)
(* A small instance of Site for TLC.                                       *)
(***************************************************************************)
EXTENDS SiteProperties, TLC

CONSTANTS v1, v2, ann, bob

Symmetry == Permutations({v1, v2})

=============================================================================
