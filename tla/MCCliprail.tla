----------------------------- MODULE MCCliprail -----------------------------
(***************************************************************************)
(* A small instance of the whole contract for TLC: campaigns for humans,   *)
(* one token.  The wallets are interchangeable.                            *)
(***************************************************************************)
EXTENDS Cliprail, TLC

CONSTANT usdc

Offers ==
    {[token |-> usdc, budget |-> 1, human |-> TRUE, start |-> 0, end |-> 1]}

Symmetry == Permutations(Wallet)

=============================================================================
