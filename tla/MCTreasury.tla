----------------------------- MODULE MCTreasury -----------------------------
(***************************************************************************)
(* A small treasury for TLC: campaigns in two tokens.                      *)
(***************************************************************************)
EXTENDS Treasury

CONSTANTS usdc, xlm

Terms(token, budget) ==
    [token |-> token, budget |-> budget, human |-> FALSE, start |-> 0, end |-> 1]

Offers == {Terms(usdc, 1), Terms(usdc, 2), Terms(xlm, 1)}

=============================================================================
