--------------------------- MODULE SiteProperties ---------------------------
(***************************************************************************)
(* What the pages promise their users, over both APIs.                     *)
(***************************************************************************)
EXTENDS Site

Top == CHOOSE n \in MockViews : \A k \in MockViews : k <= n

\* A closing proof is accepted unless a dispute of an earlier epoch is open,
\* which the pages do not look at.  The proof itself is the verifier's.
CloseAccepted(v, e) ==
    IF api = "mock" THEN ENABLED \E n \in MockViews : MockSubmit(v, e, n)
    ELSE \A p \in Proof :
           (/\ p.video = v /\ Fresh(p)
            /\ ContentEnd(e) <= p.ts + CloseSlack /\ p.ts <= now + FutureSkew)
              => ENABLED SubmitProof(e, p)

\* No enabled button asks for something the API refuses, for any participant,
\* the brand or the arbiter.  Not covered: a closing proof while an earlier
\* epoch has an open dispute, a challenger who cannot pay the bond, and, over
\* the mock only, a claim that is held back to the last unit.
\* (clipper.ts, BrandPanel and ArbiterPage rewrite the contract's conditions.)
OffersAccepted ==
    /\ \A u \in User : OffersJoin(u) =>
         IF api = "mock" THEN ENABLED MockJoin(u) ELSE ENABLED Join(u)
    /\ \A e \in Epoch : OffersSettle(e) =>
         IF api = "mock" THEN ENABLED MockSettle(e) ELSE ENABLED SettleEpoch(e)
    /\ OffersRefund => IF api = "mock" THEN ENABLED MockRefund ELSE ENABLED Refund
    /\ \A v \in Video, e \in Epoch :
         /\ OffersClose(v, e) =>
              IF api = "mock" THEN clip[v].hwm < Top => CloseAccepted(v, e)
              ELSE AllReady(e) => CloseAccepted(v, e)
         /\ OffersRespond(v, e) =>
              IF api = "mock" THEN ENABLED MockRespond(v, e) ELSE ENABLED Respond(v, e)
         /\ OffersChallenge(v, e) =>
              IF api = "mock" THEN ENABLED MockChallenge(v, e, Brand)
              ELSE Bond <= token[Brand] => ENABLED Challenge(v, e, Brand)
         /\ OffersResolve(v, e) =>
              \A w \in BOOLEAN :
                IF api = "mock" THEN ENABLED MockResolve(v, e, w)
                ELSE ENABLED Resolve(v, e, w)
         /\ OffersFinalize(v, e) =>
              IF api = "mock" THEN ENABLED MockFinalize(v, e)
              ELSE ENABLED Finalize(v, e)
         /\ OffersClaim(v, e) =>
              IF api = "mock" THEN CellImmediate(v, e) > 0 => ENABLED MockClaim(v, e)
              ELSE ENABLED Claim(v, e)
         /\ OffersHoldback(v, e) =>
              IF api = "mock" THEN ENABLED MockClaimHoldback(v, e)
              ELSE ENABLED ClaimHoldback(v, e)

\* Of all the phases in progress, those of the next epoch among them, the
\* timeline highlights the one that an enabled button belongs to: nobody is
\* told of another phase's time left (PhaseTimeline against the buttons of
\* clipper.ts, BrandPanel and ArbiterPage).
ButtonsFollowTheBar ==
    \A v \in Video, e \in Epoch :
      /\ OffersClose(v, e) => Shows(e, "proof")
      /\ OffersChallenge(v, e) => Shows(e, "challenge")
      /\ OffersRespond(v, e) => Shows(e, "challenge") \/ Shows(e, "response")
      /\ OffersResolve(v, e) => Shows(e, "arbiter")

\* An offered claim is good until it is taken or the refund opens: whatever
\* the others do, it stays offered at the amount first shown, and taking it
\* moves exactly that amount out of the campaign.
OffersStand ==
    [][\A v \in Video, e \in Epoch :
         /\ OffersClaim(v, e) =>
              \/ /\ clipEpoch'[v][e].claimed
                 /\ campaign.balance - campaign'.balance = CellImmediate(v, e)
              \/ OffersClaim(v, e)' /\ CellPay(v, e)' = CellPay(v, e)
              \/ now' >= RefundAt
         /\ OffersHoldback(v, e) =>
              \/ /\ clipEpoch'[v][e].holdbackClaimed
                 /\ campaign.balance - campaign'.balance = CellHoldback(v, e)
              \/ OffersHoldback(v, e)' /\ CellHoldback(v, e)' = CellHoldback(v, e)
              \/ now' >= RefundAt]_siteVars

\* The dashboards' "Earned" figures, recomputed from the records on every
\* refresh, add up to what has left the campaign, which is never overdrawn.
EarnedIsPaid ==
    /\ campaign.balance >= 0
    /\ ~campaign.refunded =>
         MapThenSumSet(Earned, User) + campaign.balance = Budget

\* An epoch whose predecessor is settled settles at the budget and rate the
\* pages last showed, and on chain at the very spending and holdback.
EstimatesHold ==
    [][\A e \in Epoch :
         /\ ~epoch[e].settled /\ epoch'[e].settled
         /\ e > 0 => epoch[e - 1].settled
         => LET shown == Estimate(e)
            IN  /\ epoch'[e].budget = shown.budget
                /\ epoch'[e].rate = shown.rate
                /\ epoch'[e].spent <= shown.spent
                /\ api = "chain" => /\ epoch'[e].spent = shown.spent
                                    /\ epoch'[e].heldTotal = shown.heldTotal
       ]_siteVars

=============================================================================
