---------------------------- MODULE MockCampaign ----------------------------
(***************************************************************************)
(* One campaign of the in-memory API (mock.ts) that the web application    *)
(* runs on when no contract is configured.  It keeps the records of module *)
(* Campaign, without tokens, bonds and proofs, and rewrites the rules of   *)
(* the contract on its own: weights are summed afresh from the clips, an   *)
(* epoch's spending is the sum of the pays it stores, a clip is alive as   *)
(* soon as its next epoch has a proof, and no proof settles an epoch.      *)
(* Pays and holdbacks are fixed when the epoch settles and its weights are *)
(* by then final: MockPay and MockHeld compute them.                       *)
(***************************************************************************)
EXTENDS Campaign, FiniteSetsExt

CONSTANT MockViews  \* view counts the mock may draw

ASSUME MockViewsAssumption == MockViews \subseteq Nat

Recorded(v, e) == clipEpoch[v][e].status # "None"

\* The clips of u that count in an epoch, given the clips' records for it.
Counted(u, ces) ==
    {v \in Video : clip[v].owner = u /\ ces[v].status \notin {"None", "Excluded"}}

MockWeights(ces) ==
    [u \in User |->
        LET raw == MapThenSumSet(LAMBDA v : ces[v].weight, Counted(u, ces))
        IN  [raw |-> raw, weight |-> Least(raw, CapHuman)]]

\* The epoch's total, and the weights it is the sum of, after its clips'
\* records become ces.
Refreshed(st, e, ces) ==
    LET w == MockWeights(ces)
    IN  /\ partEpoch' = [u \in User |-> [partEpoch[u] EXCEPT ![e] = w[u]]]
        /\ epoch' = [epoch EXCEPT ![e] = [st EXCEPT !.totalWeight =
                        MapThenSumSet(LAMBDA u : w[u].weight, User)]]

-----------------------------------------------------------------------------
MockJoin(u) ==
    /\ now < ContentEnd(Last)
    /\ u \notin joined
    /\ joined' = joined \cup {u}
    /\ UNCHANGED <<now, campaign, clip, clipEpoch, partEpoch, epoch, dispute,
                   usedProof, token>>

\* The view counts are drawn at random: a baseline, then ever higher counts.
MockRegister(u, v, baseline) ==
    /\ u \in joined
    /\ now < ContentEnd(Last)
    /\ clip[v].owner = Nobody
    /\ clip' = [clip EXCEPT ![v] =
                  [owner |-> u, baseline |-> baseline, hwm |-> baseline,
                   firstEpoch |-> CurrentEpoch(now)]]
    /\ UNCHANGED <<now, campaign, joined, clipEpoch, partEpoch, epoch, dispute,
                   usedProof, token>>

\* Growth is counted from the record of the epoch before, if there is one.
MockBaseline(v, e) ==
    IF Recorded(v, e) THEN clipEpoch[v][e].baseline
    ELSE IF e > 0 /\ clipEpoch[v][e - 1].status # "None"
    THEN clipEpoch[v][e - 1].views
    ELSE clip[v].baseline

MockSubmit(v, e, views) ==
    LET ce == clipEpoch[v][e]
        best == Greatest(ce.views, views)
        new == [NoClipEpoch EXCEPT
                  !.baseline = MockBaseline(v, e), !.views = best,
                  !.weight = ClipWeight(MockBaseline(v, e), best),
                  !.status = IF Recorded(v, e) THEN ce.status ELSE "Active"]
    IN  /\ clip[v].owner # Nobody
        /\ ContentEnd(e) <= now /\ now < ProofEnd(e)
        /\ clip[v].firstEpoch <= e
        /\ clip[v].hwm < views
        /\ clip' = [clip EXCEPT ![v].hwm = views]
        /\ clipEpoch' =
              [clipEpoch EXCEPT ![v] =
                  [k \in Epoch |->
                      IF k = e THEN new
                      ELSE IF k = e - 1 /\ Recorded(v, k)
                      THEN [@[k] EXCEPT !.alive = TRUE]
                      ELSE @[k]]]
        /\ Refreshed(epoch[e], e, [w \in Video |->
              IF w = v THEN new ELSE clipEpoch[w][e]])
        /\ UNCHANGED <<now, campaign, joined, dispute, usedProof, token>>

-----------------------------------------------------------------------------
MockPayAt(rate, v, e) ==
    IF clipEpoch[v][e].status \in {"None", "Excluded"} THEN 0
    ELSE ClipPay(rate, partEpoch[clip[v].owner][e], clipEpoch[v][e].weight)

MockPay(v, e) == MockPayAt(epoch[e].rate, v, e)
MockHeld(v, e) == HeldOf(e, MockPay(v, e))

\* What the pot owes: the held parts of the clips that stayed alive.
MutMockSurvived(e) ==  \* only those whose first part was claimed
    MapThenSumSet(LAMBDA v : MockHeld(v, e),
        {v \in Video : clipEpoch[v][e].alive /\ clipEpoch[v][e].claimed})

MockSurvived(e) ==
    MapThenSumSet(LAMBDA v : MockHeld(v, e), {v \in Video : clipEpoch[v][e].alive})

MockSettle(e) ==
    LET budget == BaseBudget(e) + CarryIn(epoch, e)
        rate == RateFor(budget, epoch[e].totalWeight)
    IN  /\ ~epoch[e].settled
        /\ SettleAt(e) <= now
        /\ epoch[e].openDisputes = 0
        /\ e > 0 => epoch[e - 1].settled
        /\ epoch' = [epoch EXCEPT ![e] =
              [@ EXCEPT !.settled = TRUE, !.budget = budget, !.rate = rate,
                  !.spent = MapThenSumSet(
                      LAMBDA v : MockPayAt(rate, v, e), Video),
                  !.heldTotal = MapThenSumSet(
                      LAMBDA v : HeldOf(e, MockPayAt(rate, v, e)), Video)]]
        /\ campaign' = [campaign EXCEPT !.settledEpochs = @ + 1]
        /\ UNCHANGED <<now, joined, clip, clipEpoch, partEpoch, dispute,
                       usedProof, token>>

\* Pays are subtracted without looking at the balance.
MockClaim(v, e) ==
    /\ clip[v].owner # Nobody
    /\ epoch[e].settled
    /\ now < RefundAt
    /\ clipEpoch[v][e].status \notin {"None", "Excluded"}
    /\ ~clipEpoch[v][e].claimed
    /\ MockPay(v, e) > MockHeld(v, e)
    /\ clipEpoch' = [clipEpoch EXCEPT ![v][e].claimed = TRUE]
    /\ campaign' = [campaign EXCEPT !.balance = @ - (MockPay(v, e) - MockHeld(v, e))]
    /\ UNCHANGED <<now, joined, clip, partEpoch, epoch, dispute, usedProof, token>>

MockShare(v, e) ==
    IF MockSurvived(e) = 0 THEN 0
    ELSE ShareOf(MockHeld(v, e), epoch[e].heldTotal, MockSurvived(e))

MockClaimHoldback(v, e) ==
    /\ clip[v].owner # Nobody
    /\ epoch[e].settled
    /\ e < Last
    /\ HoldbackReleaseEnd(e) <= now /\ now < RefundAt
    /\ clipEpoch[v][e].alive
    /\ MockHeld(v, e) # 0
    /\ ~clipEpoch[v][e].holdbackClaimed
    /\ clipEpoch' = [clipEpoch EXCEPT ![v][e].holdbackClaimed = TRUE]
    /\ campaign' = [campaign EXCEPT !.balance = @ - MockShare(v, e)]
    /\ UNCHANGED <<now, joined, clip, partEpoch, epoch, dispute, usedProof, token>>

MockRefund ==
    /\ ~campaign.refunded
    /\ RefundAt <= now
    /\ campaign' = [campaign EXCEPT !.balance = 0, !.refunded = TRUE]
    /\ UNCHANGED <<now, joined, clip, clipEpoch, partEpoch, epoch, dispute,
                   usedProof, token>>

-----------------------------------------------------------------------------
\* A clip of weight 0 may be challenged, unlike on chain.
MockChallenge(v, e, a) ==
    /\ ProofEnd(e) <= now /\ now < ChallengeEnd(e)
    /\ clipEpoch[v][e].status = "Active"
    /\ clipEpoch' = [clipEpoch EXCEPT ![v][e].status = "Challenged"]
    /\ epoch' = [epoch EXCEPT ![e].openDisputes = @ + 1]
    /\ dispute' = [dispute EXCEPT ![v][e] =
                      [status |-> "Open", challenger |-> a]]
    /\ UNCHANGED <<now, campaign, joined, clip, partEpoch, usedProof, token>>

MockRespond(v, e) ==
    /\ dispute[v][e].status = "Open"
    /\ now < DisputeEnd(e)
    /\ dispute' = [dispute EXCEPT ![v][e].status = "Responded"]
    /\ clipEpoch' = [clipEpoch EXCEPT ![v][e].status = "Responded"]
    /\ UNCHANGED <<now, campaign, joined, clip, partEpoch, epoch, usedProof, token>>

\* An excluded clip keeps its weight and no longer counts.
MockClose(v, e, clipperWins) ==
    LET ces == [w \in Video |->
            IF w # v THEN clipEpoch[w][e]
            ELSE [clipEpoch[v][e] EXCEPT
                    !.status = IF clipperWins THEN "Active" ELSE "Excluded"]]
    IN  /\ dispute' = [dispute EXCEPT ![v][e].status =
                          IF clipperWins THEN "ClipperWon" ELSE "ChallengerWon"]
        /\ clipEpoch' = [clipEpoch EXCEPT ![v][e] = ces[v]]
        /\ Refreshed([epoch[e] EXCEPT !.openDisputes = @ - 1], e, ces)
        /\ UNCHANGED <<now, campaign, joined, clip, usedProof, token>>

MockResolve(v, e, clipperWins) ==
    /\ dispute[v][e].status = "Responded"
    /\ DisputeEnd(e) <= now /\ now < SettleAt(e)
    /\ MockClose(v, e, clipperWins)

MockFinalize(v, e) ==
    \E clipperWins \in BOOLEAN :
        /\ \/ dispute[v][e].status = "Open" /\ DisputeEnd(e) <= now /\ ~clipperWins
           \/ dispute[v][e].status = "Responded" /\ SettleAt(e) <= now /\ clipperWins
        /\ MockClose(v, e, clipperWins)

MockNext ==
    \/ Tick
    \/ \E u \in User : MockJoin(u)
    \/ \E u \in User, v \in Video, b \in MockViews : MockRegister(u, v, b)
    \/ \E v \in Video, e \in Epoch, n \in MockViews : MockSubmit(v, e, n)
    \/ \E e \in Epoch : MockSettle(e)
    \/ \E v \in Video, e \in Epoch : MockClaim(v, e)
    \/ \E v \in Video, e \in Epoch : MockClaimHoldback(v, e)
    \/ MockRefund
    \/ \E v \in Video, e \in Epoch : MockChallenge(v, e, Brand)
    \/ \E v \in Video, e \in Epoch : MockRespond(v, e)
    \/ \E v \in Video, e \in Epoch, w \in BOOLEAN : MockResolve(v, e, w)
    \/ \E v \in Video, e \in Epoch : MockFinalize(v, e)

=============================================================================
