------------------------------ MODULE Timeline ------------------------------
(***************************************************************************)
(* The timeline of one campaign: every instant at which an entry point of  *)
(* the escrow contract opens or closes, as a function of the parameters    *)
(* the brand fixed at creation.  Times are ledger timestamps (seconds).    *)
(***************************************************************************)
EXTENDS Integers

CONSTANTS
    Start,          \* first second of content epoch 0
    EpochLen,       \* length of a content epoch
    Epochs,         \* number of content epochs
    ProofWindow,    \* closing proofs are accepted this long after the epoch
    DisputeWindow,  \* challenge in its first half, respond in all of it
    ArbiterWindow,  \* time for the arbiter to rule after that
    ClaimGrace      \* time to claim after the last settlement date

(***************************************************************************)
(* What validate_params lets through.  The windows may be empty; the upper *)
(* bounds only keep the arithmetic inside u64 and are not needed here.     *)
(***************************************************************************)
ASSUME TimelineAssumption ==
    /\ Start \in Nat
    /\ EpochLen \in Nat \ {0}
    /\ Epochs \in Nat \ {0}
    /\ ProofWindow \in Nat
    /\ DisputeWindow \in Nat
    /\ ArbiterWindow \in Nat
    /\ ClaimGrace \in Nat
    /\ EpochLen >= ProofWindow + DisputeWindow + ArbiterWindow
    /\ ClaimGrace >= EpochLen

Epoch == 0 .. Epochs - 1
Last == Epochs - 1

ContentEnd(e) == Start + (e + 1) * EpochLen
ProofEnd(e) == ContentEnd(e) + ProofWindow
ChallengeEnd(e) == ProofEnd(e) + DisputeWindow \div 2
DisputeEnd(e) == ProofEnd(e) + DisputeWindow
SettleAt(e) == DisputeEnd(e) + ArbiterWindow
RefundAt == SettleAt(Last) + ClaimGrace

MutHoldbackReleaseEnd(e) == SettleAt(e)  \* opens before the proofs of e + 1

\* The holdback of e (never the last epoch) is claimable once no further
\* proof for e + 1 can be accepted.
HoldbackReleaseEnd(e) == ProofEnd(e + 1)

\* The content epoch in progress at t: 0 before the start, Epochs afterwards.
CurrentEpoch(t) ==
    IF t < Start THEN 0
    ELSE IF (t - Start) \div EpochLen >= Epochs THEN Epochs
    ELSE (t - Start) \div EpochLen

=============================================================================
