-------------------------------- MODULE Site --------------------------------
(***************************************************************************)
(* The pages of the web application over one campaign: what they compute   *)
(* from the records the API returns, and which buttons they enable.  The   *)
(* API is the contract (module Campaign) or the in-memory one (module      *)
(* MockCampaign); the pages are the same over both.  They repeat the       *)
(* contract's arithmetic and its windows on their own, to show amounts     *)
(* before they are paid and to grey out what would be refused.             *)
(*                                                                         *)
(* The pages refresh every few seconds and after each write.  What a page  *)
(* shows is a function of the current records here; that an offer made     *)
(* from them stays good while others act is property OffersStand.          *)
(***************************************************************************)
EXTENDS MockCampaign

VARIABLE api  \* "chain" or "mock", fixed by the deployment

siteVars == <<vars, api>>

-----------------------------------------------------------------------------
(***************************************************************************)
(* The timeline.                                                           *)
(***************************************************************************)
EpochStart(e) == Start + e * EpochLen

\* The phases of an epoch in order: name, first instant, and end.
PhasesOf(e) ==
    {[epoch |-> e, phase |-> "content", from |-> EpochStart(e), to |-> ContentEnd(e)],
     [epoch |-> e, phase |-> "proof", from |-> ContentEnd(e), to |-> ProofEnd(e)],
     [epoch |-> e, phase |-> "challenge", from |-> ProofEnd(e), to |-> ChallengeEnd(e)],
     [epoch |-> e, phase |-> "response", from |-> ChallengeEnd(e), to |-> DisputeEnd(e)],
     [epoch |-> e, phase |-> "arbiter", from |-> DisputeEnd(e), to |-> SettleAt(e)]}

MutHighlighted(r) ==  \* the first to start
    /\ r.from <= now /\ now < r.to
    /\ \A s \in UNION {PhasesOf(k) : k \in Epoch} :
         s.from <= now /\ now < s.to /\ s # r
            => r.from < s.from \/ (s.from = r.from /\ s.epoch > r.epoch)

\* The phase the bar highlights: of those in progress the last to start, the
\* earlier epoch's when two start together.
Highlighted(r) ==
    /\ r.from <= now /\ now < r.to
    /\ \A s \in UNION {PhasesOf(k) : k \in Epoch} :
         s.from <= now /\ now < s.to /\ s # r
            => s.from < r.from \/ (s.from = r.from /\ s.epoch > r.epoch)

Shows(e, phase) == \E r \in PhasesOf(e) : r.phase = phase /\ Highlighted(r)

-----------------------------------------------------------------------------
(***************************************************************************)
(* The numbers of an epoch and of a clip in it.                            *)
(***************************************************************************)
\* What the API says survived of an epoch's holdback pot.
SurvivedRead(e) ==
    IF api = "mock" THEN MockSurvived(e) ELSE epoch[e].heldSurvived

CarryShown(e) ==
    IF e > 0 /\ epoch[e - 1].settled THEN epoch[e - 1].budget - epoch[e - 1].spent
    ELSE 0

MutEstimate(e) ==  \* forgets the carry
    IF epoch[e].settled
    THEN [budget |-> epoch[e].budget, rate |-> epoch[e].rate,
          spent |-> epoch[e].spent, heldTotal |-> epoch[e].heldTotal]
    ELSE LET rate == RateFor(BaseBudget(e), epoch[e].totalWeight)
             spent == SpentAt(rate, epoch[e].totalWeight)
         IN  [budget |-> BaseBudget(e), rate |-> rate, spent |-> spent,
              heldTotal |-> HeldTotalOf(e, spent)]

\* The epoch's figures: final once settled, otherwise what settling it now
\* would give.
Estimate(e) ==
    IF epoch[e].settled
    THEN [budget |-> epoch[e].budget, rate |-> epoch[e].rate,
          spent |-> epoch[e].spent, heldTotal |-> epoch[e].heldTotal]
    ELSE LET budget == BaseBudget(e) + CarryShown(e)
             rate == RateFor(budget, epoch[e].totalWeight)
             spent == SpentAt(rate, epoch[e].totalWeight)
         IN  [budget |-> budget, rate |-> rate, spent |-> spent,
              heldTotal |-> HeldTotalOf(e, spent)]

\* A participant's weights, summed from the clips on the page.
MutCellWeights(u, e) ==  \* counts the excluded clips
    LET raw == MapThenSumSet(LAMBDA v : clipEpoch[v][e].weight,
                   {v \in Video : clip[v].owner = u})
    IN  [raw |-> raw, weight |-> Least(raw, CapHuman)]

CellWeights(u, e) ==
    LET raw == MapThenSumSet(LAMBDA v : clipEpoch[v][e].weight,
                   {v \in Video : clip[v].owner = u /\ clipEpoch[v][e].status # "Excluded"})
    IN  [raw |-> raw, weight |-> Least(raw, CapHuman)]

CellPay(v, e) ==
    IF clipEpoch[v][e].status = "Excluded" THEN 0
    ELSE ClipPay(Estimate(e).rate, CellWeights(clip[v].owner, e), clipEpoch[v][e].weight)
CellHeld(v, e) == HeldOf(e, CellPay(v, e))
CellImmediate(v, e) == CellPay(v, e) - CellHeld(v, e)

CellHoldback(v, e) ==
    IF epoch[e].settled /\ clipEpoch[v][e].alive /\ SurvivedRead(e) # 0
    THEN ShareOf(CellHeld(v, e), epoch[e].heldTotal, SurvivedRead(e))
    ELSE 0

-----------------------------------------------------------------------------
(***************************************************************************)
(* The buttons.  Each is enabled on its owner's, the brand's or the        *)
(* arbiter's page.                                                         *)
(***************************************************************************)
OffersJoin(u) == now < ContentEnd(Last) /\ ~campaign.refunded /\ u \notin joined

\* Clips of one participant, a row each; an epoch is a cell.
Row(v, e) == clip[v].owner # Nobody /\ clip[v].firstEpoch <= e

ProofOpen(e) == ContentEnd(e) <= now /\ now < ProofEnd(e)

OffersClose(v, e) ==
    /\ Row(v, e)
    /\ ProofOpen(e)
    /\ clipEpoch[v][e].status \in {"None", "Active"}

OffersRespond(v, e) ==
    /\ Row(v, e)
    /\ clipEpoch[v][e].status = "Challenged"
    /\ dispute[v][e].status = "Open"
    /\ now < DisputeEnd(e)

\* The cell of a clip that stands, once the epoch is settled.
Payable(v, e) ==
    /\ Row(v, e)
    /\ clipEpoch[v][e].status = "Active"
    /\ ~ProofOpen(e)
    /\ epoch[e].settled

OffersClaim(v, e) ==
    /\ Payable(v, e)
    /\ ~clipEpoch[v][e].claimed
    /\ CellPay(v, e) # 0
    /\ now < RefundAt

\* The holdback is offered after the immediate part was claimed.
OffersHoldback(v, e) ==
    /\ Payable(v, e)
    /\ clipEpoch[v][e].claimed /\ ~clipEpoch[v][e].holdbackClaimed
    /\ CellHeld(v, e) # 0 /\ e < Last
    /\ clipEpoch[v][e].alive
    /\ CellHoldback(v, e) # 0
    /\ HoldbackReleaseEnd(e) <= now /\ now < RefundAt

MutOffersChallenge(v, e) ==  \* until the responses close
    /\ clipEpoch[v][e].status = "Active"
    /\ clipEpoch[v][e].weight # 0
    /\ ProofEnd(e) <= now /\ now < DisputeEnd(e)

OffersChallenge(v, e) ==
    /\ clipEpoch[v][e].status = "Active"
    /\ clipEpoch[v][e].weight # 0
    /\ ProofEnd(e) <= now /\ now < ChallengeEnd(e)

OffersFinalize(v, e) ==
    \/ dispute[v][e].status = "Open" /\ DisputeEnd(e) <= now
    \/ dispute[v][e].status = "Responded" /\ SettleAt(e) <= now

OffersSettle(e) ==
    /\ ~epoch[e].settled
    /\ SettleAt(e) <= now
    /\ epoch[e].openDisputes = 0
    /\ e > 0 => epoch[e - 1].settled

OffersRefund == ~campaign.refunded /\ RefundAt <= now

OffersResolve(v, e) ==
    dispute[v][e].status = "Responded" /\ DisputeEnd(e) <= now /\ now < SettleAt(e)

\* What the dashboard adds up for a participant as received.
Earned(u) ==
    MapThenSumSet(LAMBDA ve :
        (IF clipEpoch[ve[1]][ve[2]].claimed THEN CellImmediate(ve[1], ve[2]) ELSE 0)
        + (IF clipEpoch[ve[1]][ve[2]].holdbackClaimed THEN CellHoldback(ve[1], ve[2]) ELSE 0),
        {ve \in Video \X Epoch : /\ Row(ve[1], ve[2])
                                  /\ clip[ve[1]].owner = u
                                  /\ clipEpoch[ve[1]][ve[2]].status \notin {"None", "Excluded"}})

-----------------------------------------------------------------------------
SiteInit == Init /\ api \in {"chain", "mock"}

SiteNext ==
    /\ UNCHANGED api
    /\ \/ api = "chain" /\ Next
       \/ api = "mock" /\ MockNext

SiteSpec == SiteInit /\ [][SiteNext]_siteVars

=============================================================================
