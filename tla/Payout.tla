------------------------------- MODULE Payout -------------------------------
(***************************************************************************)
(* The pure payout arithmetic of the escrow contract: weights from proven  *)
(* view counts, the settlement of an epoch, and the split of a clip's pay  *)
(* into an immediate and a held part.  All divisions round down, as Rust's *)
(* do on non-negative integers, except HeldOf, which rounds up.            *)
(***************************************************************************)
EXTENDS Timeline

CONSTANTS
    Budget,       \* escrowed by the brand at creation
    RateMax,      \* ceiling of the rate, in token units per 1000 views
    CapClip,      \* per clip and epoch
    CapHuman,     \* per participant and epoch
    MinViews,     \* growth below this counts as none
    HoldbackBps   \* held part of a pay, in basis points

ASSUME PayoutAssumption ==
    /\ Budget \in Nat \ {0}
    /\ RateMax \in Nat \ {0}
    /\ CapClip \in Nat
    /\ CapHuman \in Nat
    /\ MinViews \in Nat
    /\ HoldbackBps \in 0 .. 10000

Least(a, b) == IF a <= b THEN a ELSE b
Greatest(a, b) == IF a >= b THEN a ELSE b

-----------------------------------------------------------------------------
\* Growth over the baseline, capped, zeroed below MinViews.
ClipWeight(baseline, views) ==
    LET w == Least(views - baseline, CapClip)
    IN  IF views < baseline \/ w < MinViews THEN 0 ELSE w

HoldbackRate(e) == IF e >= Last THEN 0 ELSE HoldbackBps

BaseBudget(e) ==
    Budget \div Epochs + (IF e = Last THEN Budget % Epochs ELSE 0)

RateFor(budget, weight) ==
    IF weight = 0 THEN 0 ELSE Least((budget * 1000) \div weight, RateMax)

SpentAt(rate, weight) == (rate * weight) \div 1000

HeldTotalOf(e, spent) == (spent * HoldbackRate(e)) \div 10000

\* What a clip of weight w earns at the given rate, when its participant has
\* raw weight pe.raw, of which pe.weight counts.
ClipPay(rate, pe, w) ==
    IF pe.raw = 0 \/ w = 0
    THEN 0
    ELSE (rate * pe.weight * w) \div (pe.raw * 1000)

MutHeldOf(e, pay) == (pay * HoldbackRate(e)) \div 10000  \* rounds down

HeldOf(e, pay) == (pay * HoldbackRate(e) + 9999) \div 10000

\* A survivor's share of the holdback pot of an epoch.
ShareOf(held, heldTotal, heldSurvived) == (held * heldTotal) \div heldSurvived

=============================================================================
