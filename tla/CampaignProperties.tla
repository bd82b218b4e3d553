------------------------- MODULE CampaignProperties -------------------------
(***************************************************************************)
(* What a campaign promises its brand, its participants and the people who *)
(* post bonds, stated over the state of module Campaign.  Its invariants   *)
(* and action properties are proved in CampaignProofs and SolvencyProofs.  *)
(***************************************************************************)
EXTENDS Campaign, FiniteSetsExt

(***************************************************************************)
(* Type invariant.                                                         *)
(***************************************************************************)
TypeOK ==
    /\ now \in 0 .. Horizon
    /\ campaign \in CampaignRecord
    /\ joined \in SUBSET User
    /\ clip \in [Video -> Clip]
    /\ clipEpoch \in [Video -> [Epoch -> ClipEpoch]]
    /\ partEpoch \in [User -> [Epoch -> ParticipantEpoch]]
    /\ epoch \in [Epoch -> EpochState]
    /\ dispute \in [Video -> [Epoch -> Dispute]]
    /\ usedProof \in SUBSET Proof
    /\ token \in [Account -> Nat]

-----------------------------------------------------------------------------
(***************************************************************************)
(* Money.                                                                  *)
(***************************************************************************)
VideoEpochs == Video \X Epoch
ClipsOf(u) == {v \in Video : clip[v].owner = u}
OpenDisputes ==
    {ve \in VideoEpochs : dispute[ve[1]][ve[2]].status \in {"Open", "Responded"}}

\* The payments that the claimed flags of the clips in vs stand for, each in
\* full, as if no payment had ever been clamped.
PaidFor(vs) ==
    MapThenSumSet(LAMBDA ve : Immediate(ve[1], ve[2]),
        {ve \in vs \X Epoch : clipEpoch[ve[1]][ve[2]].claimed})
    + MapThenSumSet(LAMBDA ve : Share(ve[1], ve[2]),
        {ve \in vs \X Epoch : clipEpoch[ve[1]][ve[2]].holdbackClaimed})

DisputesBy(a, statuses) ==
    {ve \in VideoEpochs : /\ dispute[ve[1]][ve[2]].challenger = a
                          /\ dispute[ve[1]][ve[2]].status \in statuses}
WonBy(u) ==
    {ve \in VideoEpochs : /\ clip[ve[1]].owner = u
                          /\ dispute[ve[1]][ve[2]].status = "ClipperWon"}

\* A wallet is what its owner had, plus every claim in full, plus the bonds won
\* as the owner of a challenged clip, less the bonds posted and not returned;
\* the brand has in addition what the refund left over.
\* (pay_out's clamp never bites, nothing is paid twice, each bond is paid once.)
EveryWalletReconciles ==
    /\ \A u \in User :
         token[u] = Wallet + PaidFor(ClipsOf(u)) + Bond * Cardinality(WonBy(u))
            - Bond * Cardinality(DisputesBy(u, {"Open", "Responded", "ClipperWon"}))
    /\ token[Brand] =
         Wallet + (IF campaign.refunded THEN Budget - PaidFor(Video) ELSE 0)
            - Bond * Cardinality(DisputesBy(Brand, {"Open", "Responded", "ClipperWon"}))

\* The contract holds exactly the campaign's balance and the bonds of the
\* disputes still open: neither ever pays for the other.
TokenBacking ==
    token[Contract] = campaign.balance + Bond * Cardinality(OpenDisputes)

\* What settled epochs may still have to pay: immediate parts not claimed yet,
\* and the holdback pot, of which only the survivors' unclaimed shares remain
\* once it is open.
OwedFor(e) ==
    MapThenSumSet(LAMBDA v : Immediate(v, e),
        {v \in Video : clip[v].owner # Nobody /\ ~clipEpoch[v][e].claimed})
    + IF e = Last THEN 0
      ELSE IF now < HoldbackReleaseEnd(e) THEN epoch[e].heldTotal
      ELSE MapThenSumSet(LAMBDA v : Share(v, e),
             {v \in Video : /\ clipEpoch[v][e].alive
                             /\ ~clipEpoch[v][e].holdbackClaimed
                             /\ epoch[e].heldSurvived # 0})

\* Until the refund the balance covers every claim still to come and leaves the
\* whole budget of the epochs to settle, carry included: however the divisions
\* round, no order of claims can make a later one come up short.
SolventToTheLast ==
    LET s == campaign.settledEpochs
        carry == IF s = 0 THEN 0 ELSE epoch[s - 1].budget - epoch[s - 1].spent
    IN  ~campaign.refunded =>
          campaign.balance >= MapThenSumSet(OwedFor, 0 .. s - 1)
                              + MapThenSumSet(BaseBudget, s .. Last) + carry

-----------------------------------------------------------------------------
(***************************************************************************)
(* Weights and settlement.                                                 *)
(***************************************************************************)
\* The incrementally maintained totals are the sums they stand for, through
\* resubmitted proofs, caps and exclusions.
WeightsAddUp ==
    \A e \in Epoch :
      /\ \A u \in User :
           LET raw == MapThenSumSet(LAMBDA v : clipEpoch[v][e].weight, ClipsOf(u))
           IN  partEpoch[u][e] = [raw |-> raw, weight |-> Least(raw, CapHuman)]
      /\ epoch[e].totalWeight =
           MapThenSumSet(LAMBDA u : partEpoch[u][e].weight, User)

\* A step leaves alone everything that the payouts of e are computed from, the
\* number of survivors apart.
KeepsPayoutsOf(e) ==
    /\ [epoch'[e] EXCEPT !.heldSurvived = 0] = [epoch[e] EXCEPT !.heldSurvived = 0]
    /\ \A u \in User : partEpoch'[u][e] = partEpoch[u][e]
    /\ \A v \in Video :
         /\ clipEpoch'[v][e].weight = clipEpoch[v][e].weight
         /\ clipEpoch'[v][e].status = clipEpoch[v][e].status

\* Once an epoch is settled no late proof, ruling or exclusion reaches it.
SettledIsFrozen == [][\A e \in Epoch : epoch[e].settled => KeepsPayoutsOf(e)]_vars

\* Epochs settle in order and without gaps, also inside a submit_proof.
SettledInOrder ==
    \A e \in Epoch : epoch[e].settled <=> e < campaign.settledEpochs

Undecided(e) ==
    {v \in Video : dispute[v][e].status \in {"Open", "Responded"}}

SameStory(clipStatus, disputeStatus) ==
    /\ clipStatus = "Challenged" <=> disputeStatus = "Open"
    /\ clipStatus = "Responded" <=> disputeStatus = "Responded"
    /\ clipStatus = "Excluded" <=> disputeStatus = "ChallengerWon"

\* The count that holds up the settlement is the number of disputes to close,
\* and the clip's status tells the same story as its dispute's.
DisputesAgree ==
    \A e \in Epoch :
      /\ epoch[e].openDisputes = Cardinality(Undecided(e))
      /\ \A v \in Video : SameStory(clipEpoch[v][e].status, dispute[v][e].status)

-----------------------------------------------------------------------------
(***************************************************************************)
(* Proofs and liveness of posts.                                           *)
(***************************************************************************)
\* A view is paid at most once: the ranges of views that a clip's epochs are
\* paid for do not overlap, whatever the counter did in between.
ViewsCountOnce ==
    \A v \in Video, e, f \in Epoch :
      LET a == clipEpoch[v][e]
          b == clipEpoch[v][f]
      IN  (e < f /\ a.status # "None" /\ b.status # "None") =>
            /\ clip[v].baseline <= a.baseline
            /\ a.views <= b.baseline
            /\ b.views <= clip[v].hwm

\* Every registration and every epoch of a clip took an attested response of
\* its own: a response already used for one of them never serves another.
EachEpochItsOwnProof ==
    \A v \in Video : clip[v].owner # Nobody =>
      Cardinality({p \in usedProof : p.video = v})
        >= 1 + Cardinality({e \in Epoch : clipEpoch[v][e].status # "None"})

\* The denominator of the holdback shares is the held pay of exactly the clips
\* that were proven again in the next epoch.
SurvivorsShareThePot ==
    \A e \in Epoch :
      /\ epoch[e].heldSurvived =
           MapThenSumSet(LAMBDA v : HeldOf(e, Pay(v, e)),
                         {v \in Video : clipEpoch[v][e].alive})
      /\ \A v \in Video : clipEpoch[v][e].alive =>
           epoch[e].settled /\ e < Last /\ clipEpoch[v][e + 1].status # "None"

\* The denominator no longer moves once a share has been computed from it.
PotFixedOnceShared ==
    [][\A v \in Video, e \in Epoch :
         clipEpoch[v][e].holdbackClaimed =>
           epoch'[e].heldSurvived = epoch[e].heldSurvived]_vars

-----------------------------------------------------------------------------
(***************************************************************************)
(* Liveness, under FairSpec.                                               *)
(***************************************************************************)
\* A missed deadline stalls nothing: every dispute is closed in the end,
\* whatever the clipper and the arbiter fail to do.
EveryDisputeCloses ==
    \A v \in Video, e \in Epoch :
      dispute[v][e].status = "Open"
        ~> dispute[v][e].status \in {"ChallengerWon", "ClipperWon"}

\* Every epoch is settled in the end.
EveryEpochSettles == <>(campaign.settledEpochs = Epochs)

-----------------------------------------------------------------------------
(***************************************************************************)
(* README.md says of an excluded clip that its weight "is redistributed to *)
(* other clippers through the rate. It does not return to the brand".      *)
(***************************************************************************)
ProjectedSpent(e) ==
    Settlement(epoch[e], CarryIn(epoch, e), e).spent

\* What an epoch of this weight may lose to the two divisions of its settlement.
Rounding(weight) == 1 + weight \div 1000

\* Closing a dispute for the challenger, when other clippers have weight in the
\* epoch to whom the excluded one's can go, leaves what the epoch will pay its
\* clippers as it was, but for rounding.
ExcludedWeightStaysWithClippers ==
    [][\A v \in Video, e \in Epoch :
         (/\ dispute[v][e].status # "ChallengerWon"
          /\ dispute'[v][e].status = "ChallengerWon"
          /\ \E u \in User \ {clip[v].owner} : partEpoch[u][e].weight > 0)
         => ProjectedSpent(e)' + Rounding(epoch'[e].totalWeight) >= ProjectedSpent(e)]_vars

=============================================================================
