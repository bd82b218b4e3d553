---------------------------- MODULE MCDelivery ----------------------------
(***************************************************************************)
(* A small instance of Delivery for TLC: two wallets whose owners claim to *)
(* be one person, one of whom has a video; up to two burns, of which the   *)
(* savings cover one.                                                      *)
(***************************************************************************)
EXTENDS Delivery

CONSTANTS ann, bob, pat, v1, usdc

Identities == [w \in Wallet |-> pat]
Use(a, b) == [w \in Wallet |-> IF w = ann THEN a ELSE b]
HabitSet ==
    {Use({}, {}), Use({"verify"}, {"verify"}), Use({"demo"}, {"demo"}),
     Use({"verify", "demo", "join"}, {}), Use({"verify", "join", "register"}, {}),
     Use({"demo", "join", "register"}, {})}
Videos == [w \in {ann} |-> v1]

Offered(budget, human) ==
    [token |-> usdc, budget |-> budget, human |-> human, start |-> 0, end |-> 1]
Home1 == Offered(1, TRUE)
Campaign1(budget) == Offered(budget, FALSE)
Offers == {Home1} \cup {Campaign1(b) : b \in {1, 2}}

=============================================================================
