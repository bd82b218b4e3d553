--------------------------- MODULE CampaignEscrow ---------------------------
(***************************************************************************)
(* A campaign keeps the promise of module Escrow.  Every post has up to    *)
(* two claims per epoch: the immediate part of its pay, fixed when the     *)
(* epoch is settled, and its share of the holdback, fixed once the epoch   *)
(* is settled and no proof can add to the survivors any more.              *)
(***************************************************************************)
EXTENDS CampaignProperties

Fixed(c) ==
    LET v == c[1]
        e == c[2]
    IN  /\ epoch[e].settled
        /\ clip[v].owner # Nobody
        /\ c[3] = "held" => e < Last /\ HoldbackReleaseEnd(e) <= now

Due(c) ==
    LET v == c[1]
        e == c[2]
    IN  IF c[3] = "now" THEN Immediate(v, e)
        ELSE IF clipEpoch[v][e].alive /\ epoch[e].heldSurvived # 0 THEN Share(v, e)
        ELSE 0

PaidOut(c) ==
    LET ce == clipEpoch[c[1]][c[2]]
    IN  IF c[3] = "now" THEN ce.claimed ELSE ce.holdbackClaimed

Entitlements == Video \X Epoch \X {"now", "held"}

Promise ==
    INSTANCE Escrow WITH
        Entitlement <- Entitlements,
        Pot <- Budget,
        fixed <- {c \in Entitlements : Fixed(c)},
        due <- [c \in Entitlements |-> IF Fixed(c) THEN Due(c) ELSE 0],
        paid <- {c \in Entitlements : PaidOut(c)},
        closed <- campaign.refunded,
        pot <- campaign.balance

\* Every step of a campaign is a step of the escrow or none: no claim changes
\* once fixed, none is paid twice or short, all of them fit into the budget, and
\* the brand gets what is left, once.
KeepsItsPromise == Promise!Spec

=============================================================================
