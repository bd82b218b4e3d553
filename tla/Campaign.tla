------------------------------ MODULE Campaign ------------------------------
(***************************************************************************)
(* One brand campaign of the cliprail contract, from its creation to the   *)
(* end of its timeline.  Each action is one successful invocation of an    *)
(* entry point (an invocation that fails is reverted by the host and       *)
(* changes nothing), plus the passing of ledger time.                      *)
(*                                                                         *)
(* A storage entry that is absent is a record whose owner is Nobody or     *)
(* whose status is "None".  A dispute is named by the clip and epoch it is *)
(* about: the ActiveDispute entry is written once and never removed, so    *)
(* there is at most one per clip and epoch.  A clip is named by its video: *)
(* the VideoIndex entry makes the two one-to-one.                          *)
(***************************************************************************)
EXTENDS Payout, FiniteSets

CONSTANTS
    Video,         \* posts that may be registered
    User,          \* people: participants, challengers
    Brand,         \* the campaign's brand
    Contract,      \* the account of the contract itself
    Nobody,
    Challenger,    \* who can afford and cares to challenge
    Views,         \* view counts an attested response can show
    ProofTimes,    \* timestamps attested responses carry
    MaxProofAge,   \* an opening proof is at most this old
    FutureSkew,    \* a proof is at most this far ahead of the ledger
    CloseSlack,    \* a closing proof may precede the epoch's end by this
    Bond,          \* posted by a challenger
    Wallet,        \* what everybody owns at first
    Horizon        \* bound: the last instant considered

Account == User \cup {Brand, Contract}

ASSUME CampaignAssumption ==
    /\ Brand \notin User /\ Contract \notin User /\ Nobody \notin User
    /\ Brand # Contract /\ Brand # Nobody
    /\ IsFiniteSet(Video) /\ IsFiniteSet(User)
    /\ Challenger \subseteq User \cup {Brand}
    /\ Views \subseteq Nat
    /\ ProofTimes \subseteq Nat
    /\ MaxProofAge \in Nat /\ FutureSkew \in Nat /\ CloseSlack \in Nat
    /\ Bond \in Nat \ {0}
    /\ Wallet \in Nat
    /\ Horizon \in Nat

VARIABLES
    now,        \* ledger timestamp
    campaign,   \* its balance, count of settled epochs, refunded flag
    joined,     \* participants
    clip,       \* per video: owner, baseline, high-water mark, first epoch
    clipEpoch,  \* per video and epoch: the closing proof and what became of it
    partEpoch,  \* per participant and epoch: raw and capped weight
    epoch,      \* per epoch: totals and settlement
    dispute,    \* per video and epoch: status and challenger
    usedProof,  \* replay protection
    token       \* token balance of every account

vars == <<now, campaign, joined, clip, clipEpoch, partEpoch, epoch, dispute,
          usedProof, token>>

ClipStatus == {"None", "Active", "Challenged", "Responded", "Excluded"}
DisputeStatus == {"None", "Open", "Responded", "ChallengerWon", "ClipperWon"}

CampaignRecord ==
    [balance : Nat, settledEpochs : 0 .. Epochs, refunded : BOOLEAN]
Clip ==
    [owner : User \cup {Nobody}, baseline : Nat, hwm : Nat,
     firstEpoch : 0 .. Epochs]
ClipEpoch ==
    [baseline : Nat, views : Nat, weight : Nat, status : ClipStatus,
     claimed : BOOLEAN, alive : BOOLEAN, holdbackClaimed : BOOLEAN]
ParticipantEpoch == [raw : Nat, weight : Nat]
EpochState ==
    [totalWeight : Nat, openDisputes : Nat, settled : BOOLEAN, budget : Nat,
     rate : Nat, spent : Nat, heldTotal : Nat, heldSurvived : Nat]
Dispute == [status : DisputeStatus, challenger : User \cup {Brand, Nobody}]
Proof == [video : Video, views : Views, ts : ProofTimes]

NoClip == [owner |-> Nobody, baseline |-> 0, hwm |-> 0, firstEpoch |-> 0]
NoClipEpoch ==
    [baseline |-> 0, views |-> 0, weight |-> 0, status |-> "None",
     claimed |-> FALSE, alive |-> FALSE, holdbackClaimed |-> FALSE]
NoWeight == [raw |-> 0, weight |-> 0]
NewEpoch ==
    [totalWeight |-> 0, openDisputes |-> 0, settled |-> FALSE, budget |-> 0,
     rate |-> 0, spent |-> 0, heldTotal |-> 0, heldSurvived |-> 0]
NoDispute == [status |-> "None", challenger |-> Nobody]

\* The state escrow leaves: the budget has moved from the brand to the contract.
Init ==
    /\ now = 0
    /\ campaign =
          [balance |-> Budget, settledEpochs |-> 0, refunded |-> FALSE]
    /\ joined = {}
    /\ clip = [v \in Video |-> NoClip]
    /\ clipEpoch = [v \in Video |-> [e \in Epoch |-> NoClipEpoch]]
    /\ partEpoch = [u \in User |-> [e \in Epoch |-> NoWeight]]
    /\ epoch = [e \in Epoch |-> NewEpoch]
    /\ dispute = [v \in Video |-> [e \in Epoch |-> NoDispute]]
    /\ usedProof = {}
    /\ token = [a \in Account |-> IF a = Contract THEN Budget ELSE Wallet]

Transfer(from, to, amount) ==
    [token EXCEPT ![from] = @ - amount, ![to] = @ + amount]

-----------------------------------------------------------------------------
(***************************************************************************)
(* Participants and clips.                                                 *)
(***************************************************************************)
\* Whether the participant is a verified human is the registry's answer.
Join(u) ==
    /\ now < ContentEnd(Last)
    /\ u \notin joined
    /\ joined' = joined \cup {u}
    /\ UNCHANGED <<now, campaign, clip, clipEpoch, partEpoch, epoch, dispute,
                   usedProof, token>>

MutFresh(p) == TRUE  \* replay key not looked up
Fresh(p) == p \notin usedProof

RegisterClip(u, p) ==
    /\ now < ContentEnd(Last)
    /\ u \in joined
    /\ clip[p.video].owner = Nobody
    /\ p.ts <= now + FutureSkew
    /\ now - p.ts <= MaxProofAge
    /\ Fresh(p)
    /\ usedProof' = usedProof \cup {p}
    /\ clip' = [clip EXCEPT ![p.video] =
                  [owner |-> u, baseline |-> p.views, hwm |-> p.views,
                   firstEpoch |-> CurrentEpoch(now)]]
    /\ UNCHANGED <<now, campaign, joined, clipEpoch, partEpoch, epoch,
                   dispute, token>>

-----------------------------------------------------------------------------
(***************************************************************************)
(* Settlement.                                                             *)
(***************************************************************************)
\* Unspent budget of the epoch before e, in the epoch states es.
CarryIn(es, e) ==
    IF e = 0 \/ ~es[e - 1].settled THEN 0 ELSE es[e - 1].budget - es[e - 1].spent

Settlement(st, carry, e) ==
    LET budget == BaseBudget(e) + carry
        rate == RateFor(budget, st.totalWeight)
        spent == SpentAt(rate, st.totalWeight)
    IN  [st EXCEPT !.settled = TRUE, !.budget = budget, !.rate = rate,
                   !.spent = spent, !.heldTotal = HeldTotalOf(e, spent)]

MutReady(e) == now >= SettleAt(e)  \* does not wait for the disputes

\* Epoch e can be settled once its predecessor is.
Ready(e) == now >= SettleAt(e) /\ epoch[e].openDisputes = 0

Settled(es, e) == [es EXCEPT ![e] = Settlement(es[e], CarryIn(es, e), e)]

\* The loop of submit_proof: settle every pending epoch before e, in order.
AllReady(e) == \A k \in campaign.settledEpochs .. e - 1 : Ready(k)

MutSettledBefore(e) ==  \* only the epoch just before e
    IF campaign.settledEpochs < e THEN Settled(epoch, e - 1) ELSE epoch

SettledBefore(e) ==
    LET s == campaign.settledEpochs
        es[k \in s .. e] == IF k = s THEN epoch ELSE Settled(es[k - 1], k - 1)
    IN  IF s < e THEN es[e] ELSE epoch

SettleEpoch(e) ==
    /\ ~epoch[e].settled
    /\ e > 0 => epoch[e - 1].settled
    /\ Ready(e)
    /\ epoch' = Settled(epoch, e)
    /\ campaign' = [campaign EXCEPT !.settledEpochs = e + 1]
    /\ UNCHANGED <<now, joined, clip, clipEpoch, partEpoch, dispute,
                   usedProof, token>>

-----------------------------------------------------------------------------
(***************************************************************************)
(* Closing proofs.                                                         *)
(***************************************************************************)
\* A participant's weights, and an epoch state, after one clip's weight
\* changes from old to new.
MutReweighed(pe, old, new) ==  \* adds the new weight without removing the old
    LET raw == pe.raw + new
    IN  [raw |-> raw, weight |-> Least(raw, CapHuman)]

Reweighed(pe, old, new) ==
    LET raw == pe.raw - old + new
    IN  [raw |-> raw, weight |-> Least(raw, CapHuman)]

MutRetotalled(st, pe, newPe) ==  \* takes out what the cap had kept out
    [st EXCEPT !.totalWeight = @ - pe.raw + newPe.weight]

Retotalled(st, pe, newPe) ==
    [st EXCEPT !.totalWeight = @ - pe.weight + newPe.weight]

MutClosingBaseline(v) == clip[v].baseline  \* counts from the registration
ClosingBaseline(v) == clip[v].hwm

\* The stored record of the clip's epoch, or the one its first proof creates.
ClosingRecord(v, e) ==
    IF clipEpoch[v][e].status = "None"
    THEN [NoClipEpoch EXCEPT !.baseline = ClosingBaseline(v),
                             !.status = "Active"]
    ELSE clipEpoch[v][e]

MutRevives(v, e) ==  \* once per proof instead of once
    e \in Epoch /\ clipEpoch[v][e].weight > 0 /\ clipEpoch[v][e].status = "Active"

\* A proof for e + 1 shows that the clip paid in e is still live.
Revives(v, e) ==
    /\ e \in Epoch
    /\ clipEpoch[v][e].weight > 0
    /\ clipEpoch[v][e].status = "Active"
    /\ ~clipEpoch[v][e].alive

Held(v, e, rate) ==
    HeldOf(e, ClipPay(rate, partEpoch[clip[v].owner][e], clipEpoch[v][e].weight))

SubmitProof(e, p) ==
    LET v == p.video
        u == clip[v].owner
        ce == ClosingRecord(v, e)
        views == Greatest(ce.views, p.views)
        weight == ClipWeight(ce.baseline, views)
        pe == partEpoch[u][e]
        newPe == Reweighed(pe, ce.weight, weight)
        es == SettledBefore(e)
    IN  /\ u # Nobody
        /\ clip[v].firstEpoch <= e
        /\ ContentEnd(e) <= now /\ now < ProofEnd(e)
        /\ ContentEnd(e) <= p.ts + CloseSlack
        /\ p.ts <= now + FutureSkew
        /\ ce.status = "Active"
        /\ AllReady(e)
        /\ Fresh(p)
        /\ usedProof' = usedProof \cup {p}
        /\ campaign' =
              [campaign EXCEPT !.settledEpochs = Greatest(@, e)]
        /\ partEpoch' = [partEpoch EXCEPT ![u][e] = newPe]
        /\ clip' = [clip EXCEPT ![v].hwm = Greatest(@, p.views)]
        /\ clipEpoch' =
              [clipEpoch EXCEPT ![v] =
                  [k \in Epoch |->
                      IF k = e
                      THEN [ce EXCEPT !.views = views, !.weight = weight]
                      ELSE IF k = e - 1 /\ Revives(v, k)
                      THEN [@[k] EXCEPT !.alive = TRUE]
                      ELSE @[k]]]
        /\ epoch' =
              [k \in Epoch |->
                  IF k = e THEN Retotalled(es[k], pe, newPe)
                  ELSE IF k = e - 1 /\ Revives(v, k)
                  THEN [es[k] EXCEPT !.heldSurvived = @ + Held(v, k, es[k].rate)]
                  ELSE es[k]]
        /\ UNCHANGED <<now, joined, dispute, token>>

-----------------------------------------------------------------------------
(***************************************************************************)
(* Payouts.  Every outflow is clamped to what the campaign still holds.    *)
(***************************************************************************)
Pay(v, e) ==
    ClipPay(epoch[e].rate, partEpoch[clip[v].owner][e], clipEpoch[v][e].weight)

Immediate(v, e) == Pay(v, e) - HeldOf(e, Pay(v, e))

Share(v, e) ==
    ShareOf(HeldOf(e, Pay(v, e)), epoch[e].heldTotal, epoch[e].heldSurvived)

MutPayOut(to, amount) ==  \* leaves the campaign's ledger as it was
    LET paid == Least(amount, campaign.balance)
    IN  /\ paid <= token[Contract]
        /\ token' = Transfer(Contract, to, paid)
        /\ UNCHANGED campaign

PayOut(to, amount) ==
    LET paid == Least(amount, campaign.balance)
    IN  /\ paid <= token[Contract]
        /\ token' = Transfer(Contract, to, paid)
        /\ campaign' = [campaign EXCEPT !.balance = @ - paid]

ClaimsOpen == now < RefundAt /\ ~campaign.refunded

MutCanClaim(v, e) ==  \* forgets that a claim is made once
    /\ epoch[e].settled
    /\ ClaimsOpen
    /\ clipEpoch[v][e].status = "Active"
    /\ Pay(v, e) # 0

CanClaim(v, e) ==
    /\ epoch[e].settled
    /\ ClaimsOpen
    /\ clipEpoch[v][e].status = "Active"
    /\ ~clipEpoch[v][e].claimed
    /\ Pay(v, e) # 0

Claim(v, e) ==
    /\ clip[v].owner # Nobody
    /\ CanClaim(v, e)
    /\ clipEpoch' = [clipEpoch EXCEPT ![v][e].claimed = TRUE]
    /\ PayOut(clip[v].owner, Immediate(v, e))
    /\ UNCHANGED <<now, joined, clip, partEpoch, epoch, dispute, usedProof>>

ClaimHoldback(v, e) ==
    /\ clip[v].owner # Nobody
    /\ e < Last
    /\ epoch[e].settled
    /\ HoldbackReleaseEnd(e) <= now
    /\ ClaimsOpen
    /\ clipEpoch[v][e].status \notin {"None", "Excluded"}
    /\ ~clipEpoch[v][e].holdbackClaimed
    /\ clipEpoch[v][e].alive
    /\ epoch[e].heldSurvived # 0
    /\ Share(v, e) # 0
    /\ clipEpoch' = [clipEpoch EXCEPT ![v][e].holdbackClaimed = TRUE]
    /\ PayOut(clip[v].owner, Share(v, e))
    /\ UNCHANGED <<now, joined, clip, partEpoch, epoch, dispute, usedProof>>

Refund ==
    /\ ~campaign.refunded
    /\ RefundAt <= now
    /\ campaign.balance <= token[Contract]
    /\ token' = Transfer(Contract, Brand, campaign.balance)
    /\ campaign' = [campaign EXCEPT !.balance = 0, !.refunded = TRUE]
    /\ UNCHANGED <<now, joined, clip, clipEpoch, partEpoch, epoch, dispute,
                   usedProof>>

-----------------------------------------------------------------------------
(***************************************************************************)
(* Disputes.  Bonds are held by the contract beside the campaign balance.  *)
(***************************************************************************)
Challenge(v, e, a) ==
    /\ clip[v].owner # Nobody
    /\ ProofEnd(e) <= now /\ now < ChallengeEnd(e)
    /\ clipEpoch[v][e].status = "Active"
    /\ clipEpoch[v][e].weight # 0
    /\ dispute[v][e].status = "None"
    /\ Bond <= token[a]
    /\ token' = Transfer(a, Contract, Bond)
    /\ dispute' = [dispute EXCEPT ![v][e] =
                      [status |-> "Open", challenger |-> a]]
    /\ clipEpoch' = [clipEpoch EXCEPT ![v][e].status = "Challenged"]
    /\ epoch' = [epoch EXCEPT ![e].openDisputes = @ + 1]
    /\ UNCHANGED <<now, campaign, joined, clip, partEpoch, usedProof>>

MutAnswered(v, e) == clipEpoch  \* only the dispute records the answer
Answered(v, e) == [clipEpoch EXCEPT ![v][e].status = "Responded"]

Respond(v, e) ==
    /\ dispute[v][e].status = "Open"
    /\ now < DisputeEnd(e)
    /\ dispute' = [dispute EXCEPT ![v][e].status = "Responded"]
    /\ clipEpoch' = Answered(v, e)
    /\ UNCHANGED <<now, campaign, joined, clip, partEpoch, epoch, usedProof,
                   token>>

\* The bond goes to the winner; if that is the challenger, the clip's weight
\* leaves its participant's and the epoch's totals.
Close(v, e, clipperWins) ==
    LET u == clip[v].owner
        pe == partEpoch[u][e]
        newPe == Reweighed(pe, clipEpoch[v][e].weight, 0)
        st == [epoch[e] EXCEPT !.openDisputes = @ - 1]
    IN  /\ Bond <= token[Contract]
        /\ IF clipperWins
           THEN /\ token' = Transfer(Contract, u, Bond)
                /\ dispute' = [dispute EXCEPT ![v][e].status = "ClipperWon"]
                /\ clipEpoch' = [clipEpoch EXCEPT ![v][e].status = "Active"]
                /\ epoch' = [epoch EXCEPT ![e] = st]
                /\ UNCHANGED partEpoch
           ELSE /\ token' = Transfer(Contract, dispute[v][e].challenger, Bond)
                /\ dispute' = [dispute EXCEPT ![v][e].status = "ChallengerWon"]
                /\ clipEpoch' =
                      [clipEpoch EXCEPT ![v][e] =
                          [@ EXCEPT !.status = "Excluded", !.weight = 0]]
                /\ epoch' = [epoch EXCEPT ![e] = Retotalled(st, pe, newPe)]
                /\ partEpoch' = [partEpoch EXCEPT ![u][e] = newPe]
        /\ UNCHANGED <<now, campaign, joined, clip, usedProof>>

Resolve(v, e, clipperWins) ==
    /\ dispute[v][e].status = "Responded"
    /\ DisputeEnd(e) <= now /\ now < SettleAt(e)
    /\ Close(v, e, clipperWins)

\* Who wins a dispute by default, once the deadline of the other side is past.
MutDefaultRuling(v, e, clipperWins) ==  \* leaves an arbiter's silence undecided
    /\ dispute[v][e].status = "Open"
    /\ DisputeEnd(e) <= now
    /\ ~clipperWins

DefaultRuling(v, e, clipperWins) ==
    \/ dispute[v][e].status = "Open" /\ DisputeEnd(e) <= now /\ ~clipperWins
    \/ dispute[v][e].status = "Responded" /\ SettleAt(e) <= now /\ clipperWins

Finalize(v, e) ==
    \E clipperWins \in BOOLEAN :
        DefaultRuling(v, e, clipperWins) /\ Close(v, e, clipperWins)

-----------------------------------------------------------------------------
Tick ==
    /\ now < Horizon
    /\ now' = now + 1
    /\ UNCHANGED <<campaign, joined, clip, clipEpoch, partEpoch, epoch,
                   dispute, usedProof, token>>

Next ==
    \/ Tick
    \/ \E u \in User : Join(u)
    \/ \E u \in User, p \in Proof : RegisterClip(u, p)
    \/ \E e \in Epoch, p \in Proof : SubmitProof(e, p)
    \/ \E e \in Epoch : SettleEpoch(e)
    \/ \E v \in Video, e \in Epoch : Claim(v, e)
    \/ \E v \in Video, e \in Epoch : ClaimHoldback(v, e)
    \/ Refund
    \/ \E v \in Video, e \in Epoch, a \in Challenger : Challenge(v, e, a)
    \/ \E v \in Video, e \in Epoch : Respond(v, e)
    \/ \E v \in Video, e \in Epoch, w \in BOOLEAN : Resolve(v, e, w)
    \/ \E v \in Video, e \in Epoch : Finalize(v, e)

Spec == Init /\ [][Next]_vars

\* Settling and finalizing need no signature: anybody, the verifier's keeper
\* among them, can and does send them once they are due; time passes.
Fairness ==
    /\ WF_vars(Tick)
    /\ \A e \in Epoch : WF_vars(SettleEpoch(e))
    /\ \A v \in Video, e \in Epoch : WF_vars(Finalize(v, e))

FairSpec == Spec /\ Fairness

=============================================================================
