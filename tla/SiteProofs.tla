----------------------------- MODULE SiteProofs -----------------------------
(***************************************************************************)
(* Theorems about the pages, for every campaign and over both APIs: what   *)
(* they show as earned is what was paid, an offered claim stays good, and  *)
(* epochs settle at the figures shown.  Over the contract they follow from *)
(* the invariants of CampaignProofs and SolvencyProofs; the in-memory API  *)
(* is proved here to keep its books, too.                                  *)
(***************************************************************************)
EXTENDS SiteProperties, SolvencyProofs

-----------------------------------------------------------------------------
(***************************************************************************)
(* The invariant of the in-memory API, in parts.  Of the contract's, types *)
(* (the balance apart, which nothing guards), settlement order and dates,  *)
(* budgets, disputes and entries hold here as well.                        *)
(***************************************************************************)
MockTypes ==
    /\ now \in 0 .. Horizon
    /\ campaign \in [balance : Int, settledEpochs : 0 .. Epochs, refunded : BOOLEAN]
    /\ joined \in SUBSET User
    /\ clip \in [Video -> Clip]
    /\ clipEpoch \in [Video -> [Epoch -> ClipEpoch]]
    /\ partEpoch \in [User -> [Epoch -> ParticipantEpoch]]
    /\ epoch \in [Epoch -> EpochState]
    /\ dispute \in [Video -> [Epoch -> Dispute]]
    /\ usedProof \in SUBSET Proof
    /\ token \in [Account -> Nat]

\* The weights are summed over the clips that count: an excluded one keeps its own.
Counts(v, e) == clipEpoch[v][e].status \notin {"None", "Excluded"}
CountedWeights(u, e) ==
    [v \in Video |->
       IF clip[v].owner = u /\ Counts(v, e) THEN clipEpoch[v][e].weight ELSE 0]

MockRawSum(u, e) ==
    /\ partEpoch[u][e].raw = SumOver(CountedWeights(u, e), Video)
    /\ partEpoch[u][e].weight = Least(partEpoch[u][e].raw, CapHuman)
MockSums ==
    /\ \A u \in User, e \in Epoch : MockRawSum(u, e)
    /\ \A e \in Epoch : TotalSum(e)

\* Only clips that count in settled epochs are marked as paid, and only live ones
\* as paid their holdback.
MockFlagsOf(v, e) ==
    /\ clipEpoch[v][e].claimed => epoch[e].settled /\ Counts(v, e)
    /\ clipEpoch[v][e].holdbackClaimed =>
         /\ epoch[e].settled /\ Counts(v, e)
         /\ clipEpoch[v][e].alive
         /\ HoldbackReleaseEnd(e) <= now
    /\ Recorded(v, e) => clip[v].firstEpoch <= e
MockFlags ==
    /\ \A v \in Video, e \in Epoch : MockFlagsOf(v, e)
    /\ campaign.refunded => RefundAt <= now

MockRecords ==
    /\ MockTypes
    /\ SettledInOrder
    /\ SettledWhenDue
    /\ SpentBounded
    /\ DisputesAgree
    /\ EntriesBelong
    /\ MockSums
    /\ MockFlags

\* Settlements stay as they were computed.
MockPaysAt(rate, e) == [v \in Video |-> MockPayAt(rate, v, e)]
MockPays(e) == [v \in Video |-> MockPay(v, e)]
MockHelds(e) == [v \in Video |-> MockHeld(v, e)]

MockAsComputed(e) ==
    epoch[e].settled =>
      /\ epoch[e].budget = BaseBudget(e) + CarryIn(epoch, e)
      /\ epoch[e].rate = RateFor(epoch[e].budget, epoch[e].totalWeight)
      /\ epoch[e].spent = SumOver(MockPays(e), Video)
      /\ epoch[e].heldTotal = SumOver(MockHelds(e), Video)
MockComputed == \A e \in Epoch : MockAsComputed(e)

\* What the flags say was paid, and the balance, make up the budget.
MockNow(v, e) == MockPay(v, e) - MockHeld(v, e)
MockPaidNow(e) == [v \in Video |-> IF clipEpoch[v][e].claimed THEN MockNow(v, e) ELSE 0]
MockPaidShares(e) ==
    [v \in Video |-> IF clipEpoch[v][e].holdbackClaimed THEN MockShare(v, e) ELSE 0]
MockPaidAt ==
    [ve \in VideoEpochs |-> MockPaidNow(ve[2])[ve[1]] + MockPaidShares(ve[2])[ve[1]]]

MockAccounted ==
    IF campaign.refunded THEN campaign.balance = 0
    ELSE campaign.balance + SumOver(MockPaidAt, VideoEpochs) = Budget

MockInv == MockRecords /\ MockComputed /\ MockAccounted

\* Of the contract's records the pages rely on what IInv, RInv and MInv leave out:
\* only clips that stand are paid, excluded ones weigh nothing, and no record is
\* from before its clip.
Standing ==
    \A v \in Video, e \in Epoch :
      /\ clipEpoch[v][e].claimed \/ clipEpoch[v][e].alive => clipEpoch[v][e].status = "Active"
      /\ clipEpoch[v][e].status = "Excluded" => clipEpoch[v][e].weight = 0
      /\ clipEpoch[v][e].status # "None" => clip[v].firstEpoch <= e

ChainInv == IInv /\ RInv /\ MInv /\ Standing

SiteInv ==
    /\ api \in {"chain", "mock"}
    /\ api = "chain" => ChainInv
    /\ api = "mock" => MockInv /\ campaign.balance >= 0

-----------------------------------------------------------------------------
(***************************************************************************)
(* The in-memory API: its sums.                                            *)
(***************************************************************************)
\* The weight of a participant in an epoch whose clips' records are ces.
WeightsGiven(ces, u) ==
    [v \in Video |->
       IF clip[v].owner = u /\ ces[v].status \notin {"None", "Excluded"}
       THEN ces[v].weight ELSE 0]

LEMMA CountedAddsUp ==
    ASSUME NEW ces, \A v \in Video : ces[v].weight \in Nat, NEW u
    PROVE  /\ MapThenSumSet(LAMBDA v : ces[v].weight, Counted(u, ces))
                = SumOver(WeightsGiven(ces, u), Video)
           /\ Naturals(WeightsGiven(ces, u), Video)
           /\ SumOver(WeightsGiven(ces, u), Video) \in Nat
<1> DEFINE T == Counted(u, ces)
           w == [v \in Video |-> ces[v].weight]
<1>1. T \in SUBSET Video
  BY DEF Counted
<1>2. MapThenSumSet(LAMBDA v : ces[v].weight, T) = SumOver(w, T)
  <2> HIDE DEF T
  <2>1. ASSUME NEW g
        PROVE  IsSum(g, w, T) <=>
                 g = [s \in SUBSET T |-> IF s = {} THEN 0
                        ELSE ces[CHOOSE x \in s : TRUE].weight
                               + g[s \ {CHOOSE x \in s : TRUE}]]
    BY <1>1 DEF IsSum, Chosen
  <2> QED
    BY <2>1, SumOverIs DEF MapThenSumSet, MapThenFoldSet
<1>3. Naturals(w, Video)
  BY DEF Naturals
<1>4. SumOver(w, T) = SumOver([v \in Video |-> IF v \in T THEN w[v] ELSE 0], Video)
  <2> HIDE DEF T, w
  <2> QED
    BY <1>1, <1>3, SumOfPart, CampaignAssumption
<1>5. [v \in Video |-> IF v \in T THEN w[v] ELSE 0] = WeightsGiven(ces, u)
  BY DEF WeightsGiven, Counted
<1>6. Naturals(WeightsGiven(ces, u), Video)
  BY DEF Naturals, WeightsGiven
<1> QED
  BY <1>2, <1>4, <1>5, <1>6, SumType, CampaignAssumption

LEMMA WeightsAdded ==
    ASSUME NEW w
    PROVE  MapThenSumSet(LAMBDA u : w[u].weight, User)
             = SumOver([u \in User |-> w[u].weight], User)
<1> DEFINE z == [u \in User |-> w[u].weight]
<1>1. ASSUME NEW g
      PROVE  IsSum(g, z, User) <=>
               g = [s \in SUBSET User |-> IF s = {} THEN 0
                      ELSE w[CHOOSE x \in s : TRUE].weight
                             + g[s \ {CHOOSE x \in s : TRUE}]]
  BY DEF IsSum, Chosen
<1> QED
  BY <1>1, SumOverIs DEF MapThenSumSet, MapThenFoldSet

\* A refresh makes the totals the sums of the records it is given.
LEMMA RefreshSums ==
    ASSUME MockTypes, MockSums, NEW e \in Epoch, NEW st \in EpochState,
           NEW ces, \A v \in Video : ces[v].weight \in Nat, Refreshed(st, e, ces),
           \A v \in Video :
             clip'[v].owner = clip[v].owner /\ clipEpoch'[v][e] = ces[v],
           \A v \in Video, k \in Epoch \ {e} :
             /\ clipEpoch'[v][k].weight = clipEpoch[v][k].weight
             /\ clipEpoch'[v][k].status = clipEpoch[v][k].status
    PROVE  /\ MockSums'
           /\ partEpoch' \in [User -> [Epoch -> ParticipantEpoch]]
           /\ epoch' \in [Epoch -> EpochState]
           /\ \A k \in Epoch \ {e} : epoch'[k] = epoch[k]
           /\ \E n \in Nat : epoch'[e] = [st EXCEPT !.totalWeight = n]
           /\ \A u \in User, k \in Epoch \ {e} : partEpoch'[u][k] = partEpoch[u][k]
<1> DEFINE w == MockWeights(ces)
           n == MapThenSumSet(LAMBDA u : w[u].weight, User)
<1>1. /\ epoch \in [Epoch -> EpochState]
      /\ partEpoch \in [User -> [Epoch -> ParticipantEpoch]]
      /\ CapHuman \in Nat
  BY PayoutAssumption DEF MockTypes
<1>2. ASSUME NEW u \in User
      PROVE  /\ w[u] \in ParticipantEpoch
             /\ w[u].raw = SumOver(WeightsGiven(ces, u), Video)
             /\ w[u].weight = Least(w[u].raw, CapHuman)
  <2> DEFINE raw == MapThenSumSet(LAMBDA v : ces[v].weight, Counted(u, ces))
  <2>1. w[u] = [raw |-> raw, weight |-> Least(raw, CapHuman)]
    BY DEF MockWeights
  <2>2. raw = SumOver(WeightsGiven(ces, u), Video) /\ raw \in Nat
    BY CountedAddsUp
  <2> HIDE DEF w, raw
  <2>3. Least(raw, CapHuman) \in Nat
    BY <1>1, <2>2 DEF Least
  <2> QED
    BY <2>1, <2>2, <2>3 DEF ParticipantEpoch
<1>3. /\ partEpoch' = [u \in User |-> [partEpoch[u] EXCEPT ![e] = w[u]]]
      /\ epoch' = [epoch EXCEPT ![e] = [st EXCEPT !.totalWeight = n]]
  BY DEF Refreshed
<1>4. n = SumOver([u \in User |-> w[u].weight], User) /\ n \in Nat
  <2>1. n = SumOver([u \in User |-> w[u].weight], User)
    <3> HIDE DEF w
    <3> QED
      BY WeightsAdded
  <2>2. Naturals([u \in User |-> w[u].weight], User)
    <3> HIDE DEF w
    <3> QED
      BY <1>2 DEF Naturals, ParticipantEpoch
  <2> HIDE DEF w, n
  <2> QED
    BY <2>1, <2>2, SumType, CampaignAssumption
<1> HIDE DEF w, n
<1>5. [st EXCEPT !.totalWeight = n] \in EpochState
  BY <1>4 DEF EpochState
<1>6. /\ epoch' \in [Epoch -> EpochState]
      /\ epoch'[e] = [st EXCEPT !.totalWeight = n]
      /\ \A k \in Epoch \ {e} : epoch'[k] = epoch[k]
  BY <1>1, <1>3, <1>5
<1>7. /\ partEpoch' \in [User -> [Epoch -> ParticipantEpoch]]
      /\ \A u \in User : partEpoch'[u][e] = w[u]
      /\ \A u \in User, k \in Epoch \ {e} : partEpoch'[u][k] = partEpoch[u][k]
  BY <1>1, <1>2, <1>3
<1>8. ASSUME NEW u \in User, NEW k \in Epoch
      PROVE  MockRawSum(u, k)'
  <2>1. CASE k = e
    <3>1. CountedWeights(u, e)' = WeightsGiven(ces, u)
      BY DEF CountedWeights, WeightsGiven, Counts
    <3> QED
      BY <1>2, <1>7, <2>1, <3>1 DEF MockRawSum
  <2>2. CASE k # e
    <3>1. CountedWeights(u, k)' = CountedWeights(u, k)
      BY <2>2 DEF CountedWeights, Counts
    <3> QED
      BY <1>7, <2>2, <3>1 DEF MockRawSum, MockSums
  <2> QED
    BY <2>1, <2>2
<1>9. ASSUME NEW k \in Epoch
      PROVE  TotalSum(k)'
  <2>1. CASE k = e
    <3>1. WeightsIn(e)' = [u \in User |-> w[u].weight]
      BY <1>7 DEF WeightsIn
    <3>2. epoch'[e].totalWeight = n
      BY <1>6 DEF EpochState
    <3> QED
      BY <1>4, <2>1, <3>1, <3>2 DEF TotalSum
  <2>2. CASE k # e
    <3>1. WeightsIn(k)' = WeightsIn(k)
      BY <1>7, <2>2 DEF WeightsIn
    <3> QED
      BY <1>6, <2>2, <3>1 DEF TotalSum, MockSums
  <2> QED
    BY <2>1, <2>2
<1>10. MockSums'
  BY <1>8, <1>9 DEF MockSums
<1> QED
  BY <1>4, <1>6, <1>7, <1>10

-----------------------------------------------------------------------------
(***************************************************************************)
(* The in-memory API: what it pays.                                        *)
(***************************************************************************)
LEMMA MockPayType ==
    ASSUME MockTypes, EntriesBelong, NEW v \in Video, NEW e \in Epoch, NEW rate \in Nat
    PROVE  /\ MockPayAt(rate, v, e) \in Nat
           /\ HeldOf(e, MockPayAt(rate, v, e)) \in 0 .. MockPayAt(rate, v, e)
           /\ clip[v].owner = Nobody => MockPayAt(rate, v, e) = 0
<1>1. clipEpoch[v][e] \in ClipEpoch /\ clip[v] \in Clip
  BY DEF MockTypes
<1>2. CASE ~Counts(v, e)
  BY <1>2, HeldWithinPay DEF Counts, MockPayAt
<1>3. CASE Counts(v, e)
  <2>1. clip[v].owner \in User /\ clip[v].owner # Nobody
    BY <1>1, <1>3 DEF Counts, EntriesBelong, Clip
  <2>2. PICK raw \in Nat, weight \in Nat :
          partEpoch[clip[v].owner][e] = [raw |-> raw, weight |-> weight]
    BY <2>1 DEF MockTypes, ParticipantEpoch
  <2>3. MockPayAt(rate, v, e) \in Nat
    BY <1>1, <1>3, <2>2, ClipPayType DEF Counts, MockPayAt, ClipEpoch
  <2> QED
    BY <2>1, <2>3, HeldWithinPay
<1> QED
  BY <1>2, <1>3

\* What the clips of one participant earn, to a factor of the rounding.
LEMMA MockOwnerPays ==
    ASSUME MockTypes, EntriesBelong, MockSums, NEW e \in Epoch, NEW rate \in Nat,
           NEW u \in User
    PROVE  1000 * SumOver(MockPaysAt(rate, e), {v \in Video : clip[v].owner = u})
             <= rate * partEpoch[u][e].weight
<1> DEFINE T == {v \in Video : clip[v].owner = u}
           pay == MockPaysAt(rate, e)
           w == CountedWeights(u, e)
           raw == partEpoch[u][e].raw
           cap == partEpoch[u][e].weight
<1>1. /\ raw \in Nat /\ cap \in Nat
      /\ partEpoch[u][e] = [raw |-> raw, weight |-> cap]
  BY DEF MockTypes, ParticipantEpoch
<1>2. T \in SUBSET Video /\ IsFiniteSet(T)
  BY FS_Subset, CampaignAssumption
<1>3. Naturals(w, Video) /\ Naturals(pay, Video) /\ Naturals(w, T) /\ Naturals(pay, T)
  BY MockPayType DEF MockTypes, ClipEpoch, Naturals, CountedWeights, MockPaysAt
<1>4. ASSUME NEW v \in T
      PROVE  pay[v] = ClipPay(rate, [raw |-> raw, weight |-> cap], w[v])
  <2>1. v \in Video /\ clip[v].owner = u
    OBVIOUS
  <2>2. CASE Counts(v, e)
    BY <1>1, <2>1, <2>2 DEF MockPaysAt, MockPayAt, CountedWeights, Counts
  <2>3. CASE ~Counts(v, e)
    BY <2>1, <2>3 DEF MockPaysAt, MockPayAt, CountedWeights, Counts, ClipPay
  <2> QED
    BY <2>2, <2>3
<1>5. raw = SumOver(w, T)
  <2>1. [v \in Video |-> IF v \in T THEN w[v] ELSE 0] = w
    BY DEF CountedWeights
  <2>2. SumOver(w, T) = SumOver(w, Video)
    <3> HIDE DEF T, w
    <3> QED
      BY <1>2, <1>3, <2>1, SumOfPart, CampaignAssumption
  <2> QED
    BY <2>2 DEF MockSums, MockRawSum
<1> HIDE DEF T, pay, w, raw, cap
<1>6. 1000 * SumOver(pay, T) <= rate * cap
  BY <1>1, <1>2, <1>3, <1>4, <1>5, PaysWithinCap
<1> QED
  BY <1>6 DEF T, pay, cap

\* All pays of an epoch, at any rate, are at most what is spent at that rate.
LEMMA MockPaysFit ==
    ASSUME MockTypes, EntriesBelong, MockSums, NEW e \in Epoch, NEW rate \in Nat
    PROVE  /\ SumOver(MockPaysAt(rate, e), Video) <= SpentAt(rate, epoch[e].totalWeight)
           /\ SumOver(MockPaysAt(rate, e), Video) \in Nat
<1> DEFINE pay == MockPaysAt(rate, e)
           owner == [v \in Video |-> clip[v].owner]
           cap == WeightsIn(e)
<1>1. \A v \in Video : owner[v] \in User \cup {Nobody} /\ (owner[v] = Nobody => pay[v] = 0)
  BY MockPayType DEF MockTypes, Clip, MockPaysAt
<1>2. Naturals(pay, Video) /\ Naturals(cap, User)
  BY MockPayType DEF MockTypes, ParticipantEpoch, Naturals, WeightsIn, MockPaysAt
<1>3. ASSUME NEW u \in User
      PROVE  1000 * SumOver(pay, {v \in Video : owner[v] = u}) <= rate * cap[u]
  <2>1. {v \in Video : owner[v] = u} = {v \in Video : clip[v].owner = u}
    OBVIOUS
  <2>2. cap[u] = partEpoch[u][e].weight
    BY DEF WeightsIn
  <2>3. 1000 * SumOver(pay, {v \in Video : clip[v].owner = u})
          <= rate * partEpoch[u][e].weight
    BY MockOwnerPays
  <2> HIDE DEF pay, owner, cap
  <2>4. SumOver(pay, {v \in Video : owner[v] = u})
          = SumOver(pay, {v \in Video : clip[v].owner = u})
    BY <2>1
  <2> QED
    BY <2>2, <2>3, <2>4
<1>4. epoch[e].totalWeight = SumOver(cap, User)
  BY DEF MockSums, TotalSum
<1> HIDE DEF pay, owner, cap
<1>5. SumOver(pay, Video) <= SpentAt(rate, SumOver(cap, User))
  BY <1>1, <1>2, <1>3, PaysWithinSpent
<1> QED
  BY <1>2, <1>4, <1>5, SumType, CampaignAssumption DEF pay

\* What a settlement adds up.
LEMMA MockPaysAddUp ==
    ASSUME NEW e \in Epoch, NEW rate
    PROVE  /\ MapThenSumSet(LAMBDA v : MockPayAt(rate, v, e), Video)
                = SumOver(MockPaysAt(rate, e), Video)
           /\ MapThenSumSet(LAMBDA v : HeldOf(e, MockPayAt(rate, v, e)), Video)
                = SumOver([v \in Video |-> HeldOf(e, MockPayAt(rate, v, e))], Video)
<1> DEFINE w == MockPaysAt(rate, e)
           z == [v \in Video |-> HeldOf(e, MockPayAt(rate, v, e))]
<1>1. ASSUME NEW g
      PROVE  IsSum(g, w, Video) <=>
               g = [s \in SUBSET Video |-> IF s = {} THEN 0
                      ELSE MockPayAt(rate, CHOOSE x \in s : TRUE, e)
                             + g[s \ {CHOOSE x \in s : TRUE}]]
  BY DEF IsSum, Chosen, MockPaysAt
<1>2. ASSUME NEW g
      PROVE  IsSum(g, z, Video) <=>
               g = [s \in SUBSET Video |-> IF s = {} THEN 0
                      ELSE HeldOf(e, MockPayAt(rate, CHOOSE x \in s : TRUE, e))
                             + g[s \ {CHOOSE x \in s : TRUE}]]
  BY DEF IsSum, Chosen
<1>3. MapThenSumSet(LAMBDA v : MockPayAt(rate, v, e), Video) = SumOver(w, Video)
  BY <1>1, SumOverIs DEF MapThenSumSet, MapThenFoldSet
<1>4. MapThenSumSet(LAMBDA v : HeldOf(e, MockPayAt(rate, v, e)), Video)
        = SumOver(z, Video)
  BY <1>2, SumOverIs DEF MapThenSumSet, MapThenFoldSet
<1> QED
  BY <1>3, <1>4

MockHeldAlive(e) ==
    [v \in Video |-> IF clipEpoch[v][e].alive THEN MockHeld(v, e) ELSE 0]
MockSharesIn(e) ==
    [v \in Video |-> IF clipEpoch[v][e].alive THEN MockShare(v, e) ELSE 0]

LEMMA MockAmountsType ==
    ASSUME MockTypes, EntriesBelong, NEW v \in Video, NEW e \in Epoch
    PROVE  /\ MockPay(v, e) \in Nat
           /\ MockHeld(v, e) \in 0 .. MockPay(v, e)
           /\ MockNow(v, e) \in Nat
           /\ MockPay(v, e) = MockNow(v, e) + MockHeld(v, e)
<1>1. epoch[e].rate \in Nat
  BY DEF MockTypes, EpochState
<1>2. MockPay(v, e) \in Nat /\ MockHeld(v, e) \in 0 .. MockPay(v, e)
  BY <1>1, MockPayType DEF MockPay, MockHeld
<1> QED
  BY <1>2 DEF MockNow

\* What survived of a pot is the held pay of the clips that live on.
LEMMA MockSurvivedIs ==
    ASSUME MockTypes, EntriesBelong, NEW e \in Epoch
    PROVE  /\ MockSurvived(e) = SumOver(MockHeldAlive(e), Video)
           /\ MockSurvived(e) \in Nat
           /\ Naturals(MockHeldAlive(e), Video)
<1> DEFINE T == {v \in Video : clipEpoch[v][e].alive}
           w == MockHeldAlive(e)
<1>1. T \in SUBSET Video /\ IsFiniteSet(T)
  BY FS_Subset, CampaignAssumption
<1>2. \A v \in T : w[v] = MockHeld(v, e)
  BY DEF MockHeldAlive
<1>3. MapThenSumSet(LAMBDA v : MockHeld(v, e), T) = SumOver(w, T)
  <2> HIDE DEF T, w
  <2>1. \A s \in SUBSET T : s # {} =>
          w[CHOOSE x \in s : TRUE] = MockHeld(CHOOSE x \in s : TRUE, e)
    BY <1>2
  <2>2. ASSUME NEW g
        PROVE  IsSum(g, w, T) <=>
                 g = [s \in SUBSET T |-> IF s = {} THEN 0
                        ELSE MockHeld(CHOOSE x \in s : TRUE, e)
                               + g[s \ {CHOOSE x \in s : TRUE}]]
    BY <2>1 DEF IsSum, Chosen
  <2> QED
    BY <2>2, SumOverIs DEF MapThenSumSet, MapThenFoldSet
<1>4. Naturals(w, Video)
  BY MockAmountsType DEF MockHeldAlive, Naturals
<1>5. SumOver(w, T) = SumOver([v \in Video |-> IF v \in T THEN w[v] ELSE 0], Video)
  <2> HIDE DEF T, w
  <2> QED
    BY <1>1, <1>4, SumOfPart, CampaignAssumption
<1>6. [v \in Video |-> IF v \in T THEN w[v] ELSE 0] = w
  BY DEF MockHeldAlive
<1> QED
  BY <1>3, <1>4, <1>5, <1>6, SumType, CampaignAssumption DEF MockSurvived

LEMMA MockShareType ==
    ASSUME MockTypes, EntriesBelong, NEW v \in Video, NEW e \in Epoch
    PROVE  MockShare(v, e) \in Nat
<1>1. MockHeld(v, e) \in Nat
  BY MockAmountsType
<1>2. epoch[e].heldTotal \in Nat
  BY DEF MockTypes, EpochState
<1> QED
  BY <1>1, <1>2, MockSurvivedIs, ShareType DEF MockShare

\* First parts and shares together fit what the epoch spends.
LEMMA MockClaimsFit ==
    ASSUME MockTypes, EntriesBelong, NEW e \in Epoch, epoch[e].settled, MockAsComputed(e)
    PROVE  /\ SumOver(MockSharesIn(e), Video) <= epoch[e].heldTotal
           /\ SumOver([v \in Video |-> MockNow(v, e)], Video) + epoch[e].heldTotal
                = epoch[e].spent
           /\ Naturals(MockSharesIn(e), Video)
<1> DEFINE held == MockHeldAlive(e)
           shares == MockSharesIn(e)
           total == epoch[e].heldTotal
           survived == MockSurvived(e)
           first == [v \in Video |-> MockNow(v, e)]
<1>0. IsFiniteSet(Video)
  BY CampaignAssumption
<1>1. total \in Nat /\ Naturals(shares, Video)
  BY MockShareType DEF MockTypes, EpochState, MockSharesIn, Naturals
<1>2. survived = SumOver(held, Video) /\ survived \in Nat /\ Naturals(held, Video)
  BY MockSurvivedIs
<1>3. \A v \in Video :
        \/ shares[v] = 0
        \/ survived # 0 /\ shares[v] = ShareOf(held[v], total, survived)
  BY DEF MockSharesIn, MockShare, MockHeldAlive
<1>4. SumOver(shares, Video) <= total
  <2> HIDE DEF held, shares, total, survived
  <2> QED
    BY <1>1, <1>2, <1>3, SharesWithinPot
<1>5. SumOver(first, Video) + SumOver(MockHelds(e), Video) = SumOver(MockPays(e), Video)
  <2>1. /\ Naturals(first, Video) /\ Naturals(MockHelds(e), Video)
        /\ \A v \in Video : MockPays(e)[v] = first[v] + MockHelds(e)[v]
    BY MockAmountsType DEF Naturals, MockHelds, MockPays
  <2> HIDE DEF first
  <2> QED
    BY <1>0, <2>1, SumPlus
<1> QED
  BY <1>1, <1>4, <1>5 DEF MockAsComputed

LEMMA MockPaidType ==
    ASSUME MockTypes, EntriesBelong, NEW e \in Epoch
    PROVE  /\ Naturals(MockPaidNow(e), Video)
           /\ Naturals(MockPaidShares(e), Video)
BY MockAmountsType, MockShareType DEF Naturals, MockPaidNow, MockPaidShares

\* What was paid for an epoch fits what it spends.
LEMMA MockEpochFits ==
    ASSUME MockRecords, MockComputed, NEW e \in Epoch
    PROVE  SumOver(Slice(MockPaidAt, Video, e), Video) <= SpentWhenSettled[e]
<1> DEFINE a == MockPaidNow(e)
           c == MockPaidShares(e)
           row == Slice(MockPaidAt, Video, e)
<1>0. IsFiniteSet(Video) /\ MockTypes /\ EntriesBelong /\ MockFlags
  BY CampaignAssumption DEF MockRecords
<1>1. Naturals(a, Video) /\ Naturals(c, Video)
  BY <1>0, MockPaidType
<1>2. \A v \in Video : row[v] = a[v] + c[v]
  BY DEF Slice, MockPaidAt, VideoEpochs
<1>3. /\ SumOver(a, Video) \in Nat /\ SumOver(c, Video) \in Nat
      /\ SumOver(row, Video) = SumOver(a, Video) + SumOver(c, Video)
  <2> HIDE DEF a, c, row
  <2> QED
    BY <1>0, <1>1, <1>2, SumPlus, SumType
<1>4. CASE ~epoch[e].settled
  <2>1. \A v \in Video : a[v] = 0 /\ c[v] = 0
    BY <1>0, <1>4 DEF MockFlags, MockFlagsOf, MockPaidNow, MockPaidShares
  <2>2. SumOver(a, Video) = 0 /\ SumOver(c, Video) = 0
    <3> HIDE DEF a, c
    <3> QED
      BY <1>0, <2>1, SumZeros
  <2> QED
    BY <1>3, <1>4, <2>2 DEF SpentWhenSettled
<1>5. CASE epoch[e].settled
  <2> DEFINE first == [v \in Video |-> MockNow(v, e)]
             shares == MockSharesIn(e)
  <2>1. /\ SumOver(shares, Video) <= epoch[e].heldTotal
        /\ SumOver(first, Video) + epoch[e].heldTotal = epoch[e].spent
        /\ Naturals(shares, Video)
    BY <1>0, <1>5, MockClaimsFit DEF MockComputed
  <2>2. Naturals(first, Video) /\ \A v \in Video : a[v] <= first[v]
    BY <1>0, MockAmountsType DEF Naturals, MockPaidNow
  <2>3. \A v \in Video : c[v] <= shares[v]
    <3>1. ASSUME NEW v \in Video
          PROVE  c[v] <= shares[v]
      <4>1. MockShare(v, e) \in Nat
        BY <1>0, MockShareType
      <4>2. clipEpoch[v][e].holdbackClaimed => clipEpoch[v][e].alive
        BY <1>0 DEF MockFlags, MockFlagsOf
      <4> QED
        BY <4>1, <4>2 DEF MockPaidShares, MockSharesIn
    <3> QED
      BY <3>1
  <2>4. epoch[e].heldTotal \in Nat /\ epoch[e].spent \in Nat
    BY <1>0 DEF MockTypes, EpochState
  <2> HIDE DEF first, shares, a, c, row
  <2>5. SumOver(a, Video) <= SumOver(first, Video) /\ SumOver(c, Video) <= SumOver(shares, Video)
    BY <1>0, <1>1, <2>1, <2>2, <2>3, SumMonotone
  <2>6. SumOver(first, Video) \in Nat /\ SumOver(shares, Video) \in Nat
    BY <1>0, <2>1, <2>2, SumType
  <2>7. SumOver(row, Video) <= epoch[e].spent
    BY <1>3, <2>1, <2>4, <2>5, <2>6
  <2> QED
    BY <1>5, <2>7 DEF SpentWhenSettled, row
<1> QED
  BY <1>4, <1>5

LEMMA MockPaidAtType ==
    ASSUME MockTypes, EntriesBelong
    PROVE  /\ Naturals(MockPaidAt, VideoEpochs) /\ IsFiniteSet(VideoEpochs)
           /\ SumOver(MockPaidAt, VideoEpochs) \in Nat
<1>1. ASSUME NEW ve \in VideoEpochs
      PROVE  MockPaidAt[ve] \in Nat
  <2>1. ve[1] \in Video /\ ve[2] \in Epoch
    BY DEF VideoEpochs
  <2>2. MockPaidNow(ve[2])[ve[1]] \in Nat /\ MockPaidShares(ve[2])[ve[1]] \in Nat
    BY <2>1, MockPaidType DEF Naturals
  <2> QED
    BY <2>2 DEF MockPaidAt
<1>2. Naturals(MockPaidAt, VideoEpochs)
  BY <1>1 DEF Naturals
<1> QED
  BY <1>2, PairsOfEpochsFinite, SumType

\* The in-memory API never overdraws a campaign, though it never looks.
LEMMA MockSolvent ==
    ASSUME MockInv
    PROVE  campaign.balance >= 0 /\ TypeOK
<1> DEFINE spent == SpentWhenSettled
           paid == [k \in Epoch |-> SumOver(Slice(MockPaidAt, Video, k), Video)]
<1>0. /\ MockRecords /\ MockTypes /\ EntriesBelong /\ MockComputed /\ MockAccounted
      /\ IsFiniteSet(Video) /\ IsFiniteSet(Epoch)
  BY CampaignAssumption, BudgetDivided DEF MockInv, MockRecords
<1>1. Dividing
  BY <1>0 DEF Dividing, MockRecords, MockTypes, MockComputed, MockAsComputed
<1>2. Naturals(spent, Epoch) /\ SumOver(spent, Epoch) <= Budget
  BY <1>1, SpentFitsBudget
<1>3. /\ Naturals(MockPaidAt, Video \X Epoch)
      /\ SumOver(MockPaidAt, VideoEpochs) \in Nat
  BY <1>0, MockPaidAtType DEF VideoEpochs
<1>4. \A k \in Epoch : paid[k] \in Nat /\ paid[k] <= spent[k]
  <2>1. ASSUME NEW k \in Epoch
        PROVE  SumOver(Slice(MockPaidAt, Video, k), Video) \in Nat
    <3>1. Naturals(Slice(MockPaidAt, Video, k), Video)
      BY <1>3 DEF Naturals, Slice
    <3> QED
      BY <1>0, <3>1, SumType
  <2> QED
    BY <1>0, <2>1, MockEpochFits
<1>5. SumOver(MockPaidAt, VideoEpochs) = SumOver(paid, Epoch)
  BY <1>0, <1>3, SumOfPairs DEF VideoEpochs
<1>6. SumOver(paid, Epoch) <= SumOver(spent, Epoch)
  <2>1. Naturals(paid, Epoch)
    BY <1>4 DEF Naturals
  <2> HIDE DEF paid, spent
  <2> QED
    BY <1>0, <1>2, <1>4, <2>1, SumMonotone
<1>7. Budget \in Nat /\ SumOver(spent, Epoch) \in Nat /\ campaign.balance \in Int
  <2> HIDE DEF spent
  <2> QED
    BY <1>0, <1>2, SumType, PayoutAssumption DEF MockTypes
<1> HIDE DEF paid, spent
<1>8. campaign.balance >= 0
  BY <1>0, <1>2, <1>3, <1>5, <1>6, <1>7 DEF MockAccounted
<1> QED
  BY <1>0, <1>8 DEF MockTypes, TypeOK, CampaignRecord

-----------------------------------------------------------------------------
(***************************************************************************)
(* The in-memory API: its steps.                                           *)
(***************************************************************************)
\* A step leaves a settled epoch alone, the clips shown to live on apart.
MockKeeps(k) ==
    /\ epoch'[k] = epoch[k]
    /\ \A u \in User : partEpoch'[u][k] = partEpoch[u][k]
    /\ \A v \in Video :
         /\ \/ /\ clip'[v].owner = clip[v].owner
               /\ clip'[v].firstEpoch = clip[v].firstEpoch
            \/ clipEpoch[v][k].status = "None"
         /\ clipEpoch'[v][k].weight = clipEpoch[v][k].weight
         /\ clipEpoch'[v][k].status = clipEpoch[v][k].status
         /\ \/ clipEpoch'[v][k].alive = clipEpoch[v][k].alive
            \/ now < HoldbackReleaseEnd(k)

MockStep == MockRecords' /\ \A k \in Epoch : epoch[k].settled => MockKeeps(k)

\* A step that pays nothing.
MockQuiet ==
    /\ campaign'.balance = campaign.balance
    /\ campaign'.refunded = campaign.refunded
    /\ \A v \in Video, k \in Epoch : SameFlags(v, k)

LEMMA MockSumsFrame ==
    ASSUME MockSums, SameWeights,
           \A v \in Video, e \in Epoch : Counts(v, e)' <=> Counts(v, e)
    PROVE  MockSums'
<1>1. ASSUME NEW u \in User, NEW e \in Epoch
      PROVE  MockRawSum(u, e)'
  <2>1. CountedWeights(u, e)' = CountedWeights(u, e)
    BY DEF CountedWeights, SameWeights
  <2> QED
    BY <2>1 DEF MockSums, MockRawSum, SameWeights
<1>2. ASSUME NEW e \in Epoch
      PROVE  TotalSum(e)'
  <2>1. WeightsIn(e)' = WeightsIn(e)
    BY DEF WeightsIn, SameWeights
  <2> QED
    BY <2>1 DEF MockSums, TotalSum, SameWeights
<1> QED
  BY <1>1, <1>2 DEF MockSums

\* Flags are only set where they may be, and their conditions stay true.
FlagsCarry(v, e) ==
    /\ clipEpoch'[v][e].claimed =>
         clipEpoch[v][e].claimed \/ (epoch[e].settled /\ Counts(v, e))
    /\ clipEpoch'[v][e].holdbackClaimed =>
         \/ clipEpoch[v][e].holdbackClaimed
         \/ /\ epoch[e].settled /\ Counts(v, e)
            /\ clipEpoch[v][e].alive /\ HoldbackReleaseEnd(e) <= now
    /\ epoch[e].settled => epoch'[e].settled /\ (Counts(v, e) => Counts(v, e)')
    /\ epoch[e].settled /\ clipEpoch[v][e].alive => clipEpoch'[v][e].alive
    /\ Recorded(v, e)' =>
         \/ Recorded(v, e) /\ clip'[v].firstEpoch = clip[v].firstEpoch
         \/ clip'[v].firstEpoch <= e

LEMMA MockFlagsFrame ==
    ASSUME MockFlags, now \in Nat, now' \in Nat, now <= now',
           \A v \in Video, e \in Epoch : FlagsCarry(v, e),
           campaign'.refunded => campaign.refunded \/ RefundAt <= now
    PROVE  MockFlags'
<1>1. ASSUME NEW v \in Video, NEW e \in Epoch
      PROVE  MockFlagsOf(v, e)'
  <2>1. HoldbackReleaseEnd(e) \in Nat
    BY EpochType, TimelineType DEF HoldbackReleaseEnd
  <2>2. MockFlagsOf(v, e) /\ FlagsCarry(v, e)
    BY DEF MockFlags
  <2>3. clipEpoch'[v][e].claimed => epoch'[e].settled /\ Counts(v, e)'
    BY <2>2 DEF MockFlagsOf, FlagsCarry
  <2>4. clipEpoch'[v][e].holdbackClaimed =>
          /\ epoch'[e].settled /\ Counts(v, e)'
          /\ clipEpoch'[v][e].alive
          /\ HoldbackReleaseEnd(e) <= now
    BY <2>2 DEF MockFlagsOf, FlagsCarry
  <2>5. Recorded(v, e)' => clip'[v].firstEpoch <= e
    BY <2>2 DEF MockFlagsOf, FlagsCarry
  <2> QED
    BY <2>1, <2>3, <2>4, <2>5 DEF MockFlagsOf
<1>2. RefundAt \in Nat
  BY TimelineType, TimelineAssumption, EpochType DEF RefundAt
<1> QED
  BY <1>1, <1>2 DEF MockFlags

LEMMA MockTickSteps ==
    ASSUME MockRecords, TypeOK, Tick
    PROVE  MockStep /\ MockQuiet
<1>1. /\ now \in Nat /\ now' \in 0 .. Horizon /\ now <= now' /\ Horizon \in Nat
      /\ UNCHANGED <<campaign, joined, clip, clipEpoch, partEpoch, epoch,
                     dispute, usedProof, token>>
  BY CampaignAssumption DEF TypeOK, Tick
<1>2. MockTypes'
  BY <1>1 DEF MockRecords, MockTypes
<1>3. SameWeights /\ SameDisputes /\ SameEntries /\ SameSettlement
  BY <1>1 DEF SameWeights, SameDisputes, SameEntries, SameSettlement
<1>4. \A v \in Video, e \in Epoch : /\ Counts(v, e)' <=> Counts(v, e)
                                    /\ FlagsCarry(v, e)
  BY <1>1 DEF Counts, FlagsCarry, Recorded
<1>5. MockFlags'
  BY <1>1, <1>4, MockFlagsFrame DEF MockRecords
<1>6. MockRecords'
  BY <1>1, <1>2, <1>3, <1>4, <1>5, MockSumsFrame, DisputesFrame, EntriesFrame,
     SettlementFrame DEF MockRecords
<1> QED
  BY <1>1, <1>6 DEF MockStep, MockKeeps, MockQuiet, SameFlags

LEMMA MockJoinSteps ==
    ASSUME MockRecords, TypeOK, NEW u \in User, MockJoin(u)
    PROVE  MockStep /\ MockQuiet
<1>1. /\ now \in Nat /\ joined' = joined \cup {u}
      /\ UNCHANGED <<now, campaign, clip, clipEpoch, partEpoch, epoch,
                     dispute, usedProof, token>>
  BY DEF TypeOK, MockJoin
<1>2. MockTypes'
  BY <1>1 DEF MockRecords, MockTypes
<1>3. SameWeights /\ SameDisputes /\ SameEntries /\ SameSettlement
  BY <1>1 DEF SameWeights, SameDisputes, SameEntries, SameSettlement
<1>4. \A v \in Video, e \in Epoch : /\ Counts(v, e)' <=> Counts(v, e)
                                    /\ FlagsCarry(v, e)
  BY <1>1 DEF Counts, FlagsCarry, Recorded
<1>5. MockFlags'
  BY <1>1, <1>4, MockFlagsFrame DEF MockRecords
<1>6. MockRecords'
  BY <1>1, <1>2, <1>3, <1>4, <1>5, MockSumsFrame, DisputesFrame, EntriesFrame,
     SettlementFrame DEF MockRecords
<1> QED
  BY <1>1, <1>6 DEF MockStep, MockKeeps, MockQuiet, SameFlags

LEMMA MockRegisterSteps ==
    ASSUME MockRecords, TypeOK, NEW u \in User, NEW v \in Video, NEW b \in MockViews,
           MockRegister(u, v, b)
    PROVE  MockStep /\ MockQuiet
<1> DEFINE new == [owner |-> u, baseline |-> b, hwm |-> b, firstEpoch |-> CurrentEpoch(now)]
<1>1. /\ now \in Nat /\ clip' = [clip EXCEPT ![v] = new] /\ clip[v].owner = Nobody
      /\ UNCHANGED <<now, campaign, joined, clipEpoch, partEpoch, epoch,
                     dispute, usedProof, token>>
  BY DEF TypeOK, MockRegister
<1>2. new \in Clip /\ new.owner # Nobody
  BY <1>1, CurrentEpochType, MockViewsAssumption, CampaignAssumption DEF Clip
<1> HIDE DEF new
<1>3. /\ clip' \in [Video -> Clip]
      /\ \A w \in Video : clip'[w] = IF w = v THEN new ELSE clip[w]
  BY <1>1, <1>2 DEF TypeOK
<1>4. MockTypes'
  BY <1>1, <1>3 DEF MockRecords, MockTypes
<1>5. \A e \in Epoch : clipEpoch[v][e].status = "None" /\ clipEpoch[v][e].weight = 0
  BY <1>1 DEF MockRecords, EntriesBelong
<1>6. SameWeights /\ SameDisputes /\ SameEntries /\ SameSettlement
  BY <1>1, <1>2, <1>3, <1>5 DEF SameWeights, SameDisputes, SameEntries, SameSettlement
<1>7. \A w \in Video, e \in Epoch : /\ Counts(w, e)' <=> Counts(w, e)
                                    /\ FlagsCarry(w, e)
  BY <1>1, <1>3, <1>5 DEF Counts, FlagsCarry, Recorded
<1>8. MockFlags'
  BY <1>1, <1>7, MockFlagsFrame DEF MockRecords
<1>9. MockRecords'
  BY <1>1, <1>4, <1>6, <1>7, <1>8, MockSumsFrame, DisputesFrame, EntriesFrame,
     SettlementFrame DEF MockRecords
<1> QED
  BY <1>1, <1>3, <1>5, <1>9 DEF MockStep, MockKeeps, MockQuiet, SameFlags

\* What is common to the two claims: one flag of one settled clip is set.
LEMMA MockClaimSteps ==
    ASSUME MockRecords, TypeOK, NEW v \in Video, NEW e \in Epoch,
           MockClaim(v, e) \/ MockClaimHoldback(v, e)
    PROVE  /\ MockStep
           /\ epoch[e].settled
           /\ ~campaign.refunded
           /\ campaign' = [campaign EXCEPT !.balance = campaign'.balance]
           /\ clipEpoch'[v][e] = [clipEpoch[v][e] EXCEPT
                                    !.claimed = @ \/ MockClaim(v, e),
                                    !.holdbackClaimed = @ \/ ~MockClaim(v, e)]
           /\ \A w \in Video, k \in Epoch :
                <<w, k>> # <<v, e>> => clipEpoch'[w][k] = clipEpoch[w][k]
           /\ UNCHANGED <<now, joined, clip, partEpoch, epoch, dispute,
                          usedProof, token>>
<1> DEFINE first == MockClaim(v, e)
           r == [clipEpoch[v][e] EXCEPT !.claimed = @ \/ first,
                                        !.holdbackClaimed = @ \/ ~first]
<1>1. /\ now \in Nat /\ epoch[e].settled /\ now < RefundAt
      /\ UNCHANGED <<now, joined, clip, partEpoch, epoch, dispute, usedProof, token>>
      /\ clipEpoch[v][e] \in ClipEpoch /\ campaign \in CampaignRecord
      /\ MockTypes /\ EntriesBelong /\ MockFlags
  BY DEF MockRecords, TypeOK, MockClaim, MockClaimHoldback
<1>2. first \in BOOLEAN
  BY DEF MockClaim
<1>3. r \in ClipEpoch /\ r.status = clipEpoch[v][e].status
      /\ r.weight = clipEpoch[v][e].weight /\ r.alive = clipEpoch[v][e].alive
      /\ r.claimed = (clipEpoch[v][e].claimed \/ first)
      /\ r.holdbackClaimed = (clipEpoch[v][e].holdbackClaimed \/ ~first)
  <2> HIDE DEF first
  <2> QED
    BY <1>1, <1>2 DEF ClipEpoch
<1>4. clipEpoch' = [clipEpoch EXCEPT ![v][e] = r]
  <2>1. CASE first
    <3>1. r = [clipEpoch[v][e] EXCEPT !.claimed = TRUE]
      <4>1. r.claimed = TRUE /\ r.holdbackClaimed = clipEpoch[v][e].holdbackClaimed
        BY <1>1, <1>3, <2>1 DEF ClipEpoch
      <4> HIDE DEF first
      <4> QED
        BY <1>1, <2>1, <4>1 DEF ClipEpoch
    <3> HIDE DEF r
    <3> QED
      BY <2>1, <3>1 DEF MockClaim
  <2>2. CASE ~first
    <3>1. r = [clipEpoch[v][e] EXCEPT !.holdbackClaimed = TRUE]
      <4>1. r.holdbackClaimed = TRUE /\ r.claimed = clipEpoch[v][e].claimed
        BY <1>1, <1>3, <2>2 DEF ClipEpoch
      <4> HIDE DEF first
      <4> QED
        BY <1>1, <2>2, <4>1 DEF ClipEpoch
    <3> HIDE DEF r
    <3> QED
      BY <2>2, <3>1 DEF MockClaimHoldback
  <2> QED
    BY <2>1, <2>2
<1>5. /\ Counts(v, e)
      /\ ~first => clipEpoch[v][e].alive /\ HoldbackReleaseEnd(e) <= now
  <2>1. CASE first
    BY <2>1 DEF MockClaim, Counts
  <2>2. CASE ~first
    <3>1. MockHeld(v, e) # 0 /\ clipEpoch[v][e].alive /\ HoldbackReleaseEnd(e) <= now
      BY <2>2 DEF MockClaimHoldback
    <3>2. MockPay(v, e) # 0
      BY <1>1, <3>1, MockAmountsType
    <3> QED
      BY <3>1, <3>2 DEF MockPay, MockPayAt, Counts
  <2> QED
    BY <2>1, <2>2
<1>6. PICK n \in Int : campaign' = [campaign EXCEPT !.balance = n]
  <2>1. CASE first
    BY <1>1, <2>1, MockAmountsType DEF MockClaim, CampaignRecord
  <2>2. CASE ~first
    BY <1>1, <2>2, MockShareType DEF MockClaimHoldback, CampaignRecord
  <2> QED
    BY <2>1, <2>2
<1>7. /\ campaign' \in [balance : Int, settledEpochs : 0 .. Epochs, refunded : BOOLEAN]
      /\ campaign'.settledEpochs = campaign.settledEpochs
      /\ campaign'.refunded = campaign.refunded
      /\ campaign' = [campaign EXCEPT !.balance = campaign'.balance]
  BY <1>1, <1>6 DEF CampaignRecord
<1> HIDE DEF r, first
<1>8. /\ clipEpoch' \in [Video -> [Epoch -> ClipEpoch]]
      /\ \A w \in Video, k \in Epoch :
           clipEpoch'[w][k] = IF w = v /\ k = e THEN r ELSE clipEpoch[w][k]
  BY <1>3, <1>4, RecordChanged DEF TypeOK
<1>9. MockTypes'
  BY <1>1, <1>7, <1>8 DEF MockTypes
<1>10. SameWeights /\ SameDisputes /\ SameEntries /\ SameSettlement
  BY <1>1, <1>3, <1>7, <1>8 DEF SameWeights, SameDisputes, SameEntries, SameSettlement
<1>11. \A w \in Video, k \in Epoch : Counts(w, k)' <=> Counts(w, k)
  BY <1>3, <1>8 DEF Counts
<1>12. \A w \in Video, k \in Epoch : FlagsCarry(w, k)
  <2>1. ASSUME NEW w \in Video, NEW k \in Epoch, ~(w = v /\ k = e)
        PROVE  FlagsCarry(w, k)
    BY <1>1, <1>8, <2>1 DEF Counts, FlagsCarry, Recorded
  <2>2. FlagsCarry(v, e)
    BY <1>1, <1>3, <1>5, <1>8, <1>11 DEF Counts, FlagsCarry, Recorded
  <2> QED
    BY <2>1, <2>2
<1>13. MockFlags'
  BY <1>1, <1>7, <1>12, MockFlagsFrame DEF MockRecords
<1>14. MockRecords'
  BY <1>1, <1>9, <1>10, <1>11, <1>13, MockSumsFrame, DisputesFrame, EntriesFrame,
     SettlementFrame DEF MockRecords
<1>15. \A k \in Epoch : MockKeeps(k)
  BY <1>1, <1>3, <1>8 DEF MockKeeps
<1>16. ~campaign.refunded
  <2>1. RefundAt \in Nat
    BY TimelineType, TimelineAssumption, EpochType DEF RefundAt
  <2> QED
    BY <1>1, <2>1 DEF MockFlags
<1> QED
  BY <1>1, <1>7, <1>8, <1>14, <1>15, <1>16 DEF MockStep, r, first

LEMMA MockRefundSteps ==
    ASSUME MockRecords, TypeOK, MockRefund
    PROVE  /\ MockStep
           /\ \A v \in Video, k \in Epoch : SameFlags(v, k)
           /\ campaign'.refunded /\ campaign'.balance = 0
           /\ RefundAt <= now /\ now' = now
<1>1. /\ now \in Nat /\ RefundAt <= now /\ campaign \in CampaignRecord
      /\ campaign' = [campaign EXCEPT !.balance = 0, !.refunded = TRUE]
      /\ UNCHANGED <<now, joined, clip, clipEpoch, partEpoch, epoch,
                     dispute, usedProof, token>>
  BY DEF TypeOK, MockRefund
<1>2. /\ campaign' \in [balance : Int, settledEpochs : 0 .. Epochs, refunded : BOOLEAN]
      /\ campaign'.settledEpochs = campaign.settledEpochs
      /\ campaign'.refunded /\ campaign'.balance = 0
  <2>1. campaign' = [balance |-> 0, settledEpochs |-> campaign.settledEpochs,
                     refunded |-> TRUE]
    BY <1>1 DEF CampaignRecord
  <2>2. campaign.settledEpochs \in 0 .. Epochs /\ 0 \in Int
    BY <1>1 DEF CampaignRecord
  <2> QED
    BY <2>1, <2>2
<1>3. MockTypes'
  BY <1>1, <1>2 DEF MockRecords, MockTypes
<1>4. SameWeights /\ SameDisputes /\ SameEntries /\ SameSettlement
  BY <1>1, <1>2 DEF SameWeights, SameDisputes, SameEntries, SameSettlement
<1>5. \A v \in Video, e \in Epoch : /\ Counts(v, e)' <=> Counts(v, e)
                                    /\ FlagsCarry(v, e)
  BY <1>1 DEF Counts, FlagsCarry, Recorded
<1>6. MockFlags'
  BY <1>1, <1>5, MockFlagsFrame DEF MockRecords
<1>7. MockRecords'
  BY <1>1, <1>3, <1>4, <1>5, <1>6, MockSumsFrame, DisputesFrame, EntriesFrame,
     SettlementFrame DEF MockRecords
<1> QED
  BY <1>1, <1>2, <1>7 DEF MockStep, MockKeeps, SameFlags

LEMMA MockRespondSteps ==
    ASSUME MockRecords, TypeOK, NEW v \in Video, NEW e \in Epoch, MockRespond(v, e)
    PROVE  MockStep /\ MockQuiet
<1> DEFINE r == [clipEpoch[v][e] EXCEPT !.status = "Responded"]
           d == [dispute[v][e] EXCEPT !.status = "Responded"]
<1>1. /\ clipEpoch[v][e] \in ClipEpoch /\ dispute[v][e] \in Dispute /\ now \in Nat
      /\ clipEpoch' = [clipEpoch EXCEPT ![v][e] = r]
      /\ dispute' = [dispute EXCEPT ![v][e] = d]
      /\ UNCHANGED <<now, campaign, joined, clip, partEpoch, epoch, usedProof, token>>
      /\ dispute[v][e].status = "Open"
  BY DEF TypeOK, MockRespond
<1>2. r \in ClipEpoch /\ r.status = "Responded"
      /\ r.weight = clipEpoch[v][e].weight /\ r.alive = clipEpoch[v][e].alive
      /\ r.claimed = clipEpoch[v][e].claimed
      /\ r.holdbackClaimed = clipEpoch[v][e].holdbackClaimed
  BY <1>1 DEF ClipEpoch, ClipStatus
<1>3. d \in Dispute /\ d.status = "Responded" /\ d.challenger = dispute[v][e].challenger
  BY <1>1 DEF Dispute, DisputeStatus
<1>4. clipEpoch[v][e].status = "Challenged" /\ ~epoch[e].settled
  BY <1>1, UndecidedUnsettled DEF MockRecords, DisputesAgree, SameStory
<1> HIDE DEF r, d
<1>5. /\ clipEpoch' \in [Video -> [Epoch -> ClipEpoch]]
      /\ \A w \in Video, k \in Epoch :
           clipEpoch'[w][k] = IF w = v /\ k = e THEN r ELSE clipEpoch[w][k]
  BY <1>1, <1>2, RecordChanged DEF TypeOK
<1>6. /\ dispute' \in [Video -> [Epoch -> Dispute]]
      /\ \A w \in Video, k \in Epoch :
           dispute'[w][k] = IF w = v /\ k = e THEN d ELSE dispute[w][k]
  BY <1>1, <1>3 DEF TypeOK
<1>7. MockTypes'
  BY <1>1, <1>5, <1>6 DEF MockRecords, MockTypes
<1>8. DisputesAgree'
  <2>1. DisputeMoves(v, e, r, d)
    BY <1>1, <1>3 DEF DisputeMoves, TypeOK, EpochState
  <2> QED
    BY <1>2, <1>3, <2>1, DisputesMove DEF SameStory, MockRecords, MockTypes
<1>9. SameWeights /\ SameSettlement
  BY <1>1, <1>2, <1>5 DEF SameWeights, SameSettlement
<1>10. EntriesBelong'
  BY <1>1, <1>2, <1>3, <1>5, <1>6 DEF MockRecords, EntriesBelong
<1>11. \A w \in Video, k \in Epoch : /\ Counts(w, k)' <=> Counts(w, k)
                                     /\ FlagsCarry(w, k)
  BY <1>1, <1>2, <1>4, <1>5 DEF Counts, FlagsCarry, Recorded
<1>12. MockFlags'
  BY <1>1, <1>11, MockFlagsFrame DEF MockRecords
<1>13. MockRecords'
  BY <1>1, <1>7, <1>8, <1>9, <1>10, <1>11, <1>12, MockSumsFrame, SettlementFrame
     DEF MockRecords
<1>14. \A k \in Epoch : epoch[k].settled => MockKeeps(k)
  BY <1>1, <1>4, <1>5 DEF MockKeeps
<1>15. MockQuiet
  BY <1>1, <1>2, <1>5 DEF MockQuiet, SameFlags
<1> QED
  BY <1>13, <1>14, <1>15 DEF MockStep

LEMMA MockChallengeSteps ==
    ASSUME MockRecords, TypeOK, NEW v \in Video, NEW e \in Epoch,
           MockChallenge(v, e, Brand)
    PROVE  MockStep /\ MockQuiet
<1> DEFINE r == [clipEpoch[v][e] EXCEPT !.status = "Challenged"]
           d == [status |-> "Open", challenger |-> Brand]
           st == [epoch[e] EXCEPT !.openDisputes = @ + 1]
<1>1. /\ clipEpoch[v][e] \in ClipEpoch /\ epoch[e] \in EpochState /\ now \in Nat
      /\ clipEpoch' = [clipEpoch EXCEPT ![v][e] = r]
      /\ dispute' = [dispute EXCEPT ![v][e] = d]
      /\ epoch' = [epoch EXCEPT ![e] = st]
      /\ UNCHANGED <<now, campaign, joined, clip, partEpoch, usedProof, token>>
      /\ clipEpoch[v][e].status = "Active"
  BY DEF TypeOK, MockChallenge
<1>2. r \in ClipEpoch /\ r.status = "Challenged"
      /\ r.weight = clipEpoch[v][e].weight /\ r.alive = clipEpoch[v][e].alive
      /\ r.claimed = clipEpoch[v][e].claimed
      /\ r.holdbackClaimed = clipEpoch[v][e].holdbackClaimed
  BY <1>1 DEF ClipEpoch, ClipStatus
<1>3. d \in Dispute /\ d.status = "Open" /\ d.challenger \in User \cup {Brand}
  BY DEF Dispute, DisputeStatus
<1>4. /\ st \in EpochState /\ st.openDisputes = epoch[e].openDisputes + 1
      /\ st.totalWeight = epoch[e].totalWeight /\ st.settled = epoch[e].settled
      /\ st.spent = epoch[e].spent /\ st.budget = epoch[e].budget
  BY <1>1 DEF EpochState
<1>5. dispute[v][e].status \notin {"Open", "Responded"}
  BY <1>1 DEF MockRecords, DisputesAgree, SameStory
<1>6. ~epoch[e].settled
  <2>1. now < SettleAt(e) /\ SettleAt(e) \in Nat
    BY <1>1, PhasesInOrder, TimelineType, EpochType DEF MockChallenge
  <2> QED
    BY <1>1, <2>1 DEF MockRecords, SettledWhenDue
<1> HIDE DEF r, d, st
<1>7. /\ clipEpoch' \in [Video -> [Epoch -> ClipEpoch]]
      /\ \A w \in Video, k \in Epoch :
           clipEpoch'[w][k] = IF w = v /\ k = e THEN r ELSE clipEpoch[w][k]
  BY <1>1, <1>2, RecordChanged DEF TypeOK
<1>8. /\ dispute' \in [Video -> [Epoch -> Dispute]]
      /\ \A w \in Video, k \in Epoch :
           dispute'[w][k] = IF w = v /\ k = e THEN d ELSE dispute[w][k]
  BY <1>1, <1>3 DEF TypeOK
<1>9. /\ epoch' \in [Epoch -> EpochState]
      /\ \A k \in Epoch : epoch'[k] = IF k = e THEN st ELSE epoch[k]
  BY <1>1, <1>4 DEF TypeOK
<1>10. MockTypes'
  BY <1>1, <1>7, <1>8, <1>9 DEF MockRecords, MockTypes
<1>11. DisputesAgree'
  <2>1. DisputeMoves(v, e, r, d)
    BY <1>1, <1>3, <1>4, <1>5, <1>9 DEF DisputeMoves, TypeOK, EpochState
  <2> QED
    BY <1>2, <1>3, <2>1, DisputesMove DEF SameStory, MockRecords, MockTypes
<1>12. SameWeights /\ SameSettlement
  BY <1>1, <1>2, <1>4, <1>6, <1>7, <1>9 DEF SameWeights, SameSettlement
<1>13. EntriesBelong'
  BY <1>1, <1>2, <1>3, <1>7, <1>8 DEF MockRecords, EntriesBelong
<1>14. \A w \in Video, k \in Epoch : /\ Counts(w, k)' <=> Counts(w, k)
                                     /\ FlagsCarry(w, k)
  BY <1>1, <1>2, <1>4, <1>6, <1>7, <1>9 DEF Counts, FlagsCarry, Recorded
<1>15. MockFlags'
  BY <1>1, <1>14, MockFlagsFrame DEF MockRecords
<1>16. MockRecords'
  BY <1>1, <1>10, <1>11, <1>12, <1>13, <1>14, <1>15, MockSumsFrame, SettlementFrame
     DEF MockRecords
<1>17. \A k \in Epoch : epoch[k].settled => MockKeeps(k)
  BY <1>1, <1>6, <1>7, <1>9 DEF MockKeeps
<1>18. MockQuiet
  BY <1>1, <1>2, <1>7 DEF MockQuiet, SameFlags
<1> QED
  BY <1>16, <1>17, <1>18 DEF MockStep

LEMMA MockCloseSteps ==
    ASSUME MockRecords, TypeOK, NEW v \in Video, NEW e \in Epoch,
           NEW clipperWins \in BOOLEAN,
           dispute[v][e].status \in {"Open", "Responded"}, MockClose(v, e, clipperWins)
    PROVE  MockStep /\ MockQuiet
<1> DEFINE status == IF clipperWins THEN "Active" ELSE "Excluded"
           r == [clipEpoch[v][e] EXCEPT !.status = status]
           d == [dispute[v][e] EXCEPT
                   !.status = IF clipperWins THEN "ClipperWon" ELSE "ChallengerWon"]
           st == [epoch[e] EXCEPT !.openDisputes = @ - 1]
           ces == [w \in Video |-> IF w # v THEN clipEpoch[w][e] ELSE r]
           open == epoch[e].openDisputes
<1>1. /\ clipEpoch[v][e] \in ClipEpoch /\ dispute[v][e] \in Dispute
      /\ epoch[e] \in EpochState /\ now \in Nat
      /\ clipEpoch' = [clipEpoch EXCEPT ![v][e] = r]
      /\ dispute' = [dispute EXCEPT ![v][e] = d]
      /\ Refreshed(st, e, ces)
      /\ UNCHANGED <<now, campaign, joined, clip, usedProof, token>>
  BY DEF TypeOK, MockClose
<1>2. r \in ClipEpoch /\ r.status = status
      /\ r.weight = clipEpoch[v][e].weight /\ r.alive = clipEpoch[v][e].alive
      /\ r.claimed = clipEpoch[v][e].claimed
      /\ r.holdbackClaimed = clipEpoch[v][e].holdbackClaimed
  BY <1>1 DEF ClipEpoch, ClipStatus
<1>3. /\ d \in Dispute /\ d.challenger = dispute[v][e].challenger
      /\ d.status = IF clipperWins THEN "ClipperWon" ELSE "ChallengerWon"
  BY <1>1 DEF Dispute, DisputeStatus
<1>4. open \in Nat \ {0}
  <2>1. v \in Undecided(e)
    BY DEF Undecided
  <2> QED
    BY <2>1, UndecidedFinite, FS_EmptySet DEF MockRecords, DisputesAgree
<1>5. st \in EpochState /\ st.openDisputes = open - 1
      /\ st.settled = epoch[e].settled
      /\ st.spent = epoch[e].spent /\ st.budget = epoch[e].budget
  <2>1. open - 1 \in Nat /\ st = [epoch[e] EXCEPT !.openDisputes = open - 1]
    BY <1>4
  <2> HIDE DEF st, open
  <2> QED
    BY <1>1, <2>1 DEF EpochState
<1>6. ~epoch[e].settled
  BY UndecidedUnsettled DEF MockRecords
<1>7. status \in {"Active", "Excluded"} /\ (status = "Excluded" <=> ~clipperWins)
  OBVIOUS
<1> HIDE DEF r, d, st, open, status
<1>8. /\ clipEpoch' \in [Video -> [Epoch -> ClipEpoch]]
      /\ \A w \in Video, k \in Epoch :
           clipEpoch'[w][k] = IF w = v /\ k = e THEN r ELSE clipEpoch[w][k]
  BY <1>1, <1>2, RecordChanged DEF TypeOK
<1>9. /\ dispute' \in [Video -> [Epoch -> Dispute]]
      /\ \A w \in Video, k \in Epoch :
           dispute'[w][k] = IF w = v /\ k = e THEN d ELSE dispute[w][k]
  BY <1>1, <1>3 DEF TypeOK
<1>10. /\ MockSums'
       /\ partEpoch' \in [User -> [Epoch -> ParticipantEpoch]]
       /\ epoch' \in [Epoch -> EpochState]
       /\ \A k \in Epoch \ {e} : epoch'[k] = epoch[k]
       /\ \E n \in Nat : epoch'[e] = [st EXCEPT !.totalWeight = n]
       /\ \A u \in User, k \in Epoch \ {e} : partEpoch'[u][k] = partEpoch[u][k]
  <2>1. \A w \in Video : ces[w].weight \in Nat
    BY <1>2 DEF TypeOK, ClipEpoch
  <2>4. \A w \in Video : clip'[w].owner = clip[w].owner /\ clipEpoch'[w][e] = ces[w]
    BY <1>1, <1>8
  <2>2. \A w \in Video, k \in Epoch \ {e} :
          /\ clipEpoch'[w][k].weight = clipEpoch[w][k].weight
          /\ clipEpoch'[w][k].status = clipEpoch[w][k].status
    BY <1>8
  <2>3. Refreshed(st, e, ces) /\ MockTypes /\ MockSums
    BY <1>1 DEF MockRecords
  <2> HIDE DEF ces
  <2> QED
    BY <1>5, <2>1, <2>2, <2>3, <2>4, RefreshSums
<1>11. /\ epoch'[e].openDisputes = open - 1 /\ epoch'[e].settled = epoch[e].settled
       /\ epoch'[e].spent = epoch[e].spent /\ epoch'[e].budget = epoch[e].budget
  BY <1>5, <1>10 DEF EpochState
<1>12. MockTypes'
  BY <1>1, <1>8, <1>9, <1>10 DEF MockRecords, MockTypes
<1>13. DisputesAgree'
  <2>1. DisputeMoves(v, e, r, d)
    BY <1>1, <1>3, <1>4, <1>10, <1>11 DEF DisputeMoves, TypeOK, EpochState, open
  <2>2. SameStory(r.status, d.status)
    BY <1>2, <1>3, <1>7 DEF SameStory
  <2> QED
    BY <1>2, <1>3, <2>1, <2>2, DisputesMove DEF MockRecords, MockTypes
<1>14. SameSettlement
  <2>1. \A k \in Epoch \ {e} : epoch'[k] = epoch[k]
    BY <1>10
  <2> QED
    BY <1>1, <1>6, <1>11, <2>1 DEF SameSettlement
<1>15. EntriesBelong'
  <2>1. clipEpoch[v][e].status # "None" /\ clip[v].owner # Nobody
        /\ dispute[v][e].challenger \in User \cup {Brand}
    BY DEF MockRecords, EntriesBelong
  <2>2. r.status # "None" /\ d.challenger \in User \cup {Brand}
    BY <1>2, <1>3, <1>7, <2>1
  <2> QED
    BY <1>1, <1>8, <1>9, <2>1, <2>2 DEF MockRecords, EntriesBelong
<1>16. \A w \in Video, k \in Epoch : FlagsCarry(w, k)
  <2>1. Recorded(v, e)
    BY DEF MockRecords, EntriesBelong, Recorded
  <2> QED
    BY <1>1, <1>2, <1>6, <1>8, <1>10, <1>11, <2>1 DEF Counts, FlagsCarry, Recorded
<1>17. MockFlags'
  BY <1>1, <1>16, MockFlagsFrame DEF MockRecords
<1>18. MockRecords'
  BY <1>1, <1>10, <1>12, <1>13, <1>14, <1>15, <1>17, SettlementFrame DEF MockRecords
<1>19. \A k \in Epoch : epoch[k].settled => MockKeeps(k)
  BY <1>1, <1>6, <1>8, <1>10 DEF MockKeeps
<1>20. MockQuiet
  BY <1>1, <1>2, <1>8 DEF MockQuiet, SameFlags
<1> QED
  BY <1>18, <1>19, <1>20 DEF MockStep

LEMMA MockSubmitSteps ==
    ASSUME MockRecords, TypeOK, NEW v \in Video, NEW e \in Epoch, NEW views \in MockViews,
           MockSubmit(v, e, views)
    PROVE  MockStep /\ MockQuiet
<1> DEFINE ce == clipEpoch[v][e]
           base == MockBaseline(v, e)
           best == Greatest(ce.views, views)
           weight == ClipWeight(base, best)
           status == IF Recorded(v, e) THEN ce.status ELSE "Active"
           new == [NoClipEpoch EXCEPT !.baseline = base, !.views = best,
                                      !.weight = weight, !.status = status]
           old(k) == [clipEpoch[v][k] EXCEPT !.alive = TRUE]
           ces == [w \in Video |-> IF w = v THEN new ELSE clipEpoch[w][e]]
<1>1. /\ now \in Nat /\ clip[v].owner # Nobody
      /\ ContentEnd(e) <= now /\ now < ProofEnd(e) /\ clip[v].firstEpoch <= e
      /\ clip' = [clip EXCEPT ![v].hwm = views]
      /\ clipEpoch' = [clipEpoch EXCEPT ![v] =
                         [k \in Epoch |-> IF k = e THEN new
                                          ELSE IF k = e - 1 /\ Recorded(v, k)
                                          THEN [@[k] EXCEPT !.alive = TRUE] ELSE @[k]]]
      /\ Refreshed(epoch[e], e, ces)
      /\ UNCHANGED <<now, campaign, joined, dispute, usedProof, token>>
  BY DEF TypeOK, MockSubmit
<1>2. /\ clipEpoch \in [Video -> [Epoch -> ClipEpoch]] /\ epoch \in [Epoch -> EpochState]
      /\ clip \in [Video -> Clip] /\ MockFlags
  BY DEF TypeOK, MockRecords
<1>3. views \in Nat /\ ce.views \in Nat /\ best \in Nat
  BY <1>2, MockViewsAssumption DEF ClipEpoch, Greatest
<1>4. base \in Nat
  <2>1. CASE Recorded(v, e)
    BY <1>2, <2>1 DEF MockBaseline, ClipEpoch
  <2>2. CASE ~Recorded(v, e) /\ e > 0 /\ clipEpoch[v][e - 1].status # "None"
    <3>1. e - 1 \in Epoch
      BY <2>2, EpochType DEF Epoch
    <3> QED
      BY <1>2, <2>2, <3>1 DEF MockBaseline, ClipEpoch
  <2>3. CASE ~Recorded(v, e) /\ ~(e > 0 /\ clipEpoch[v][e - 1].status # "None")
    BY <1>2, <2>3 DEF MockBaseline, Clip
  <2> QED
    BY <2>1, <2>2, <2>3
<1>5. weight \in Nat
  <2> HIDE DEF base, best
  <2> QED
    BY <1>3, <1>4, ClipWeightType
<1>6. /\ status \in ClipStatus \ {"None"}
      /\ Recorded(v, e) => status = ce.status
      /\ ~Recorded(v, e) => status = "Active"
  BY <1>2 DEF ClipEpoch, ClipStatus, Recorded
<1> HIDE DEF base, best, weight, status
<1>7. /\ new \in ClipEpoch /\ new.weight = weight /\ new.status = status
      /\ ~new.claimed /\ ~new.holdbackClaimed
  BY <1>3, <1>4, <1>5, <1>6 DEF ClipEpoch, NoClipEpoch
<1>8. ASSUME NEW k \in Epoch
      PROVE  /\ old(k) \in ClipEpoch
             /\ old(k).weight = clipEpoch[v][k].weight
             /\ old(k).status = clipEpoch[v][k].status
             /\ old(k).claimed = clipEpoch[v][k].claimed
             /\ old(k).holdbackClaimed = clipEpoch[v][k].holdbackClaimed
             /\ old(k).alive
  <2>1. clipEpoch[v][k] \in ClipEpoch
    BY <1>2
  <2> QED
    BY <2>1 DEF ClipEpoch
<1>9. ASSUME NEW w \in Video, NEW k \in Epoch
      PROVE  clipEpoch'[w][k] =
               IF w = v /\ k = e THEN new
               ELSE IF w = v /\ k = e - 1 /\ Recorded(v, k) THEN old(k)
               ELSE clipEpoch[w][k]
  <2> HIDE DEF new
  <2> QED
    BY <1>1, <1>2
<1> HIDE DEF new, old
<1>10. clipEpoch' \in [Video -> [Epoch -> ClipEpoch]]
  <2>1. /\ DOMAIN clipEpoch' = Video
        /\ \A w \in Video : DOMAIN clipEpoch'[w] = Epoch
        /\ clipEpoch' = [w \in Video |-> clipEpoch'[w]]
        /\ \A w \in Video : clipEpoch'[w] = [k \in Epoch |-> clipEpoch'[w][k]]
    BY <1>1, <1>2
  <2>2. \A w \in Video, k \in Epoch : clipEpoch'[w][k] \in ClipEpoch
    BY <1>2, <1>7, <1>8, <1>9
  <2> QED
    BY <2>1, <2>2
<1>11. ASSUME NEW w \in Video, NEW k \in Epoch, ~(w = v /\ k = e)
       PROVE  /\ clipEpoch'[w][k].weight = clipEpoch[w][k].weight
              /\ clipEpoch'[w][k].status = clipEpoch[w][k].status
              /\ clipEpoch'[w][k].claimed = clipEpoch[w][k].claimed
              /\ clipEpoch'[w][k].holdbackClaimed = clipEpoch[w][k].holdbackClaimed
              /\ clipEpoch[w][k].alive => clipEpoch'[w][k].alive
              /\ k # e - 1 => clipEpoch'[w][k].alive = clipEpoch[w][k].alive
  BY <1>8, <1>9, <1>11
<1>12. clipEpoch'[v][e] = new
  BY <1>9
<1>13. /\ clip' \in [Video -> Clip]
       /\ \A w \in Video : /\ clip'[w].owner = clip[w].owner
                           /\ clip'[w].firstEpoch = clip[w].firstEpoch
  BY <1>1, <1>2, <1>3 DEF Clip
<1>14. /\ MockSums'
       /\ partEpoch' \in [User -> [Epoch -> ParticipantEpoch]]
       /\ epoch' \in [Epoch -> EpochState]
       /\ \A k \in Epoch \ {e} : epoch'[k] = epoch[k]
       /\ \E n \in Nat : epoch'[e] = [epoch[e] EXCEPT !.totalWeight = n]
       /\ \A u \in User, k \in Epoch \ {e} : partEpoch'[u][k] = partEpoch[u][k]
  <2>1. \A w \in Video : ces[w].weight \in Nat
    BY <1>2, <1>5, <1>7 DEF ClipEpoch
  <2>2. \A w \in Video : clip'[w].owner = clip[w].owner /\ clipEpoch'[w][e] = ces[w]
    BY <1>9, <1>13
  <2>3. \A w \in Video, k \in Epoch \ {e} :
          /\ clipEpoch'[w][k].weight = clipEpoch[w][k].weight
          /\ clipEpoch'[w][k].status = clipEpoch[w][k].status
    BY <1>11
  <2>4. Refreshed(epoch[e], e, ces) /\ MockTypes /\ MockSums /\ epoch[e] \in EpochState
    BY <1>1, <1>2 DEF MockRecords
  <2> HIDE DEF ces
  <2> QED
    BY <2>1, <2>2, <2>3, <2>4, RefreshSums
<1>15. /\ epoch'[e].openDisputes = epoch[e].openDisputes
       /\ epoch'[e].settled = epoch[e].settled
       /\ epoch'[e].spent = epoch[e].spent /\ epoch'[e].budget = epoch[e].budget
  BY <1>2, <1>14 DEF EpochState
<1>16. ~epoch[e].settled
  <2>1. now < SettleAt(e) /\ SettleAt(e) \in Nat
    BY <1>1, PhasesInOrder, TimelineType, EpochType
  <2> QED
    BY <1>1, <2>1 DEF MockRecords, SettledWhenDue
<1>17. MockTypes'
  BY <1>1, <1>10, <1>13, <1>14 DEF MockRecords, MockTypes
<1>18. DisputesAgree'
  <2>1. \A k \in Epoch : Undecided(k)' = Undecided(k)
    BY <1>1 DEF Undecided
  <2>2. \A k \in Epoch : epoch'[k].openDisputes = epoch[k].openDisputes
    BY <1>14, <1>15
  <2>3. ASSUME NEW w \in Video, NEW k \in Epoch
        PROVE  SameStory(clipEpoch[w][k].status, dispute[w][k].status)'
    <3>1. SameStory(clipEpoch[w][k].status, dispute[w][k].status)
      BY DEF MockRecords, DisputesAgree
    <3>2. CASE w = v /\ k = e
      BY <1>1, <1>6, <1>7, <1>12, <3>1, <3>2 DEF SameStory, Recorded
    <3>3. CASE ~(w = v /\ k = e)
      BY <1>1, <1>11, <3>1, <3>3
    <3> QED
      BY <3>2, <3>3
  <2> QED
    BY <2>1, <2>2, <2>3 DEF MockRecords, DisputesAgree
<1>19. SameSettlement
  <2>1. \A k \in Epoch \ {e} : epoch'[k] = epoch[k]
    BY <1>14
  <2> QED
    BY <1>1, <1>15, <2>1 DEF SameSettlement
<1>20. EntriesBelong'
  <2>1. ASSUME NEW w \in Video, NEW k \in Epoch
        PROVE  /\ clipEpoch'[w][k].status = "None" => clipEpoch'[w][k].weight = 0
               /\ clipEpoch'[w][k].status # "None" => clip'[w].owner # Nobody
               /\ dispute'[w][k].status # "None" =>
                    /\ clipEpoch'[w][k].status # "None"
                    /\ dispute'[w][k].challenger \in User \cup {Brand}
    <3>1. CASE w = v /\ k = e
      BY <1>1, <1>6, <1>7, <1>12, <1>13, <3>1 DEF MockRecords, EntriesBelong
    <3>2. CASE ~(w = v /\ k = e)
      BY <1>1, <1>11, <1>13, <3>2 DEF MockRecords, EntriesBelong
    <3> QED
      BY <3>1, <3>2
  <2> QED
    BY <2>1 DEF EntriesBelong
<1>21. \A w \in Video, k \in Epoch : FlagsCarry(w, k)
  <2>1. FlagsCarry(v, e)
    BY <1>1, <1>7, <1>12, <1>13, <1>16 DEF FlagsCarry
  <2>2. ASSUME NEW w \in Video, NEW k \in Epoch, ~(w = v /\ k = e)
        PROVE  FlagsCarry(w, k)
    <3>1. epoch'[k].settled = epoch[k].settled
      BY <1>14, <1>15
    <3> QED
      BY <1>11, <1>13, <2>2, <3>1 DEF FlagsCarry, Counts, Recorded
  <2> QED
    BY <2>1, <2>2
<1>22. MockFlags'
  BY <1>1, <1>2, <1>21, MockFlagsFrame
<1>23. MockRecords'
  BY <1>1, <1>14, <1>17, <1>18, <1>19, <1>20, <1>22, SettlementFrame DEF MockRecords
<1>24. ASSUME NEW k \in Epoch, epoch[k].settled
       PROVE  MockKeeps(k)
  <2>1. k # e /\ k \in Int /\ e \in Int
    BY <1>16, <1>24, EpochType
  <2>2. k = e - 1 => HoldbackReleaseEnd(k) = ProofEnd(e)
    BY <2>1 DEF HoldbackReleaseEnd
  <2>3. epoch'[k] = epoch[k] /\ \A u \in User : partEpoch'[u][k] = partEpoch[u][k]
    BY <1>14, <2>1
  <2>4. ASSUME NEW w \in Video
        PROVE  /\ clip'[w].owner = clip[w].owner
               /\ clip'[w].firstEpoch = clip[w].firstEpoch
               /\ clipEpoch'[w][k].weight = clipEpoch[w][k].weight
               /\ clipEpoch'[w][k].status = clipEpoch[w][k].status
               /\ k # e - 1 => clipEpoch'[w][k].alive = clipEpoch[w][k].alive
    BY <1>11, <1>13, <2>1
  <2>5. k = e - 1 => now < HoldbackReleaseEnd(k)
    BY <1>1, <2>2
  <2> QED
    BY <2>3, <2>4, <2>5 DEF MockKeeps
<1>25. MockQuiet
  <2>1. SameFlags(v, e)
    <3>1. ~ce.claimed /\ ~ce.holdbackClaimed
      BY <1>2, <1>16 DEF MockFlags, MockFlagsOf
    <3>2. ce.claimed \in BOOLEAN /\ ce.holdbackClaimed \in BOOLEAN
          /\ new.claimed \in BOOLEAN /\ new.holdbackClaimed \in BOOLEAN
      BY <1>2, <1>7 DEF ClipEpoch
    <3> QED
      BY <1>7, <1>12, <3>1, <3>2 DEF SameFlags
  <2>2. \A w \in Video, k \in Epoch : ~(w = v /\ k = e) => SameFlags(w, k)
    BY <1>11 DEF SameFlags
  <2> QED
    BY <1>1, <2>1, <2>2 DEF MockQuiet
<1> QED
  BY <1>23, <1>24, <1>25 DEF MockStep

LEMMA MockSettleSteps ==
    ASSUME MockRecords, TypeOK, NEW e \in Epoch, MockSettle(e)
    PROVE  /\ MockStep /\ MockQuiet
           /\ \A k \in Epoch : ~epoch[k].settled /\ epoch'[k].settled => k = e
           /\ clip' = clip /\ clipEpoch' = clipEpoch /\ partEpoch' = partEpoch
           /\ \E budget, rate \in Nat :
                /\ budget = BaseBudget(e) + CarryIn(epoch, e)
                /\ rate = RateFor(budget, epoch[e].totalWeight)
                /\ epoch'[e] = [epoch[e] EXCEPT
                      !.settled = TRUE, !.budget = budget, !.rate = rate,
                      !.spent = SumOver(MockPaysAt(rate, e), Video),
                      !.heldTotal = SumOver([v \in Video |->
                                               HeldOf(e, MockPayAt(rate, v, e))], Video)]
           /\ SumOver(MockPaysAt(epoch'[e].rate, e), Video)
                <= SpentAt(epoch'[e].rate, epoch[e].totalWeight)
<1> DEFINE budget == BaseBudget(e) + CarryIn(epoch, e)
           rate == RateFor(budget, epoch[e].totalWeight)
           spent == SumOver(MockPaysAt(rate, e), Video)
           held == SumOver([v \in Video |-> HeldOf(e, MockPayAt(rate, v, e))], Video)
           st == [epoch[e] EXCEPT !.settled = TRUE, !.budget = budget, !.rate = rate,
                                  !.spent = spent, !.heldTotal = held]
<1>0. /\ MockTypes /\ EntriesBelong /\ MockSums /\ SettledInOrder /\ SpentBounded
      /\ SettledWhenDue /\ MockFlags
      /\ epoch \in [Epoch -> EpochState] /\ campaign \in CampaignRecord /\ now \in Nat
  BY DEF MockRecords, TypeOK
<1>1. /\ ~epoch[e].settled /\ SettleAt(e) <= now /\ epoch[e].openDisputes = 0
      /\ e > 0 => epoch[e - 1].settled
      /\ epoch' = [epoch EXCEPT ![e] = st]
      /\ campaign' = [campaign EXCEPT !.settledEpochs = @ + 1]
      /\ UNCHANGED <<now, joined, clip, clipEpoch, partEpoch, dispute,
                     usedProof, token>>
  BY MockPaysAddUp DEF MockSettle
<1>2. budget \in Nat /\ epoch[e].totalWeight \in Nat
  <2>1. BaseBudget(e) \in Nat /\ epoch[e].totalWeight \in Nat
    BY <1>0, BaseBudgetType DEF EpochState
  <2>2. CarryIn(epoch, e) \in Nat
    <3>1. CASE e = 0 \/ ~epoch[e - 1].settled
      BY <3>1 DEF CarryIn
    <3>2. CASE ~(e = 0 \/ ~epoch[e - 1].settled)
      <4>1. e - 1 \in Epoch
        BY <3>2, EpochType DEF Epoch
      <4>2. /\ epoch[e - 1].budget \in Nat /\ epoch[e - 1].spent \in Nat
            /\ epoch[e - 1].spent <= epoch[e - 1].budget
        BY <1>0, <4>1 DEF EpochState, SpentBounded
      <4> QED
        BY <3>2, <4>2 DEF CarryIn
    <3> QED
      BY <3>1, <3>2
  <2> QED
    BY <2>1, <2>2
<1> HIDE DEF budget
<1>3. rate \in Nat
  BY <1>2, RateType
<1>4. spent \in Nat /\ spent <= SpentAt(rate, epoch[e].totalWeight)
  <2> HIDE DEF rate
  <2> QED
    BY <1>0, <1>3, MockPaysFit
<1>5. spent <= budget
  <2>1. SpentAt(rate, epoch[e].totalWeight) \in Nat
        /\ SpentAt(rate, epoch[e].totalWeight) <= budget
    BY <1>2, SpentWithinBudget
  <2> HIDE DEF spent, rate
  <2> QED
    BY <1>2, <1>4, <2>1
<1>6. held \in Nat
  <2>1. Naturals([v \in Video |-> HeldOf(e, MockPayAt(rate, v, e))], Video)
    <3> HIDE DEF rate
    <3> QED
      BY <1>0, <1>3, MockPayType DEF Naturals
  <2> QED
    BY <2>1, SumType, CampaignAssumption
<1>7. rate = RateFor(budget, epoch[e].totalWeight)
  OBVIOUS
<1> HIDE DEF rate, spent, held
<1>8. /\ st \in EpochState /\ st.settled /\ st.spent = spent /\ st.budget = budget
      /\ st.openDisputes = epoch[e].openDisputes
      /\ st.totalWeight = epoch[e].totalWeight /\ st.rate = rate
  BY <1>0, <1>2, <1>3, <1>4, <1>6 DEF EpochState
<1> HIDE DEF st
<1>9. /\ epoch' \in [Epoch -> EpochState]
      /\ \A k \in Epoch : epoch'[k] = IF k = e THEN st ELSE epoch[k]
  BY <1>0, <1>1, <1>8
<1>10. e = campaign.settledEpochs
  <2>1. e \in Nat /\ campaign.settledEpochs \in Nat
    BY <1>0, EpochType DEF CampaignRecord
  <2>2. e >= campaign.settledEpochs
    BY <1>0, <1>1, <2>1 DEF SettledInOrder
  <2>3. CASE e = 0
    BY <2>1, <2>2, <2>3
  <2>4. CASE e # 0
    <3>1. e - 1 \in Epoch /\ epoch[e - 1].settled
      BY <1>1, <2>1, <2>4, EpochType DEF Epoch
    <3>2. e - 1 < campaign.settledEpochs
      BY <1>0, <3>1 DEF SettledInOrder
    <3> QED
      BY <2>1, <2>2, <3>2
  <2> QED
    BY <2>3, <2>4
<1>11. /\ campaign' = [campaign EXCEPT !.settledEpochs = e + 1]
       /\ campaign'.settledEpochs = e + 1 /\ e + 1 \in 0 .. Epochs
       /\ campaign'.balance = campaign.balance /\ campaign'.refunded = campaign.refunded
       /\ campaign' \in [balance : Int, settledEpochs : 0 .. Epochs, refunded : BOOLEAN]
  <2>1. e + 1 \in 0 .. Epochs
    BY EpochType DEF Epoch
  <2> QED
    BY <1>0, <1>1, <1>10, <2>1 DEF CampaignRecord
<1>12. MockTypes'
  BY <1>0, <1>1, <1>9, <1>11 DEF MockTypes
<1>13. SettledInOrder'
  BY <1>0, <1>8, <1>9, <1>10, <1>11, EpochType DEF SettledInOrder
<1>14. SettledWhenDue'
  BY <1>0, <1>1, <1>8, <1>9 DEF SettledWhenDue
<1>15. SpentBounded'
  BY <1>0, <1>5, <1>8, <1>9 DEF SpentBounded
<1>16. SameWeights /\ SameDisputes /\ SameEntries
  BY <1>1, <1>8, <1>9 DEF SameWeights, SameDisputes, SameEntries
<1>17. \A v \in Video, k \in Epoch : /\ Counts(v, k)' <=> Counts(v, k)
                                     /\ FlagsCarry(v, k)
  BY <1>1, <1>8, <1>9 DEF Counts, FlagsCarry, Recorded
<1>18. MockFlags'
  BY <1>0, <1>1, <1>11, <1>17, MockFlagsFrame
<1>19. MockRecords'
  BY <1>12, <1>13, <1>14, <1>15, <1>16, <1>17, <1>18, MockSumsFrame, DisputesFrame,
     EntriesFrame DEF MockRecords
<1>20. \A k \in Epoch : epoch[k].settled => MockKeeps(k)
  BY <1>1, <1>9 DEF MockKeeps
<1>21. MockQuiet
  BY <1>1, <1>11 DEF MockQuiet, SameFlags
<1>22. \A k \in Epoch : ~epoch[k].settled /\ epoch'[k].settled => k = e
  BY <1>9
<1>23. epoch'[e] = [epoch[e] EXCEPT !.settled = TRUE, !.budget = budget, !.rate = rate,
                                    !.spent = SumOver(MockPaysAt(rate, e), Video),
                                    !.heldTotal = SumOver([v \in Video |->
                                               HeldOf(e, MockPayAt(rate, v, e))], Video)]
  BY <1>9 DEF st, spent, held
<1>24. SumOver(MockPaysAt(epoch'[e].rate, e), Video)
         <= SpentAt(epoch'[e].rate, epoch[e].totalWeight)
  BY <1>4, <1>8, <1>9 DEF spent
<1>25. \E b, r \in Nat :
         /\ b = BaseBudget(e) + CarryIn(epoch, e)
         /\ r = RateFor(b, epoch[e].totalWeight)
         /\ epoch'[e] = [epoch[e] EXCEPT
               !.settled = TRUE, !.budget = b, !.rate = r,
               !.spent = SumOver(MockPaysAt(r, e), Video),
               !.heldTotal = SumOver([v \in Video |-> HeldOf(e, MockPayAt(r, v, e))], Video)]
  BY <1>2, <1>3, <1>7, <1>23 DEF budget
<1> QED
  BY <1>1, <1>19, <1>20, <1>21, <1>22, <1>24, <1>25 DEF MockStep

-----------------------------------------------------------------------------
(***************************************************************************)
(* The in-memory API: what every step leaves as it was.                    *)
(***************************************************************************)
SurvivedAddsUp ==
    \A e \in Epoch : MockSurvived(e) = SumOver(MockHeldAlive(e), Video)

LEMMA MockSurvivedAt == MockTypes /\ EntriesBelong => SurvivedAddsUp
BY MockSurvivedIs DEF SurvivedAddsUp

\* The pays of an epoch that a step leaves alone.
LEMMA MockPayStays ==
    ASSUME MockTypes, EntriesBelong, NEW e \in Epoch, MockKeeps(e), NEW v \in Video
    PROVE  MockPay(v, e)' = MockPay(v, e) /\ MockHeld(v, e)' = MockHeld(v, e)
<1>1. /\ epoch'[e] = epoch[e] /\ clipEpoch'[v][e].status = clipEpoch[v][e].status
      /\ clipEpoch'[v][e].weight = clipEpoch[v][e].weight
  BY DEF MockKeeps
<1>2. CASE ~Counts(v, e)
  BY <1>1, <1>2 DEF Counts, MockPay, MockPayAt, MockHeld
<1>3. CASE Counts(v, e)
  <2>1. clip[v].owner \in User
    BY <1>3 DEF Counts, EntriesBelong, MockTypes, Clip
  <2>2. clip'[v].owner = clip[v].owner
        /\ partEpoch'[clip[v].owner][e] = partEpoch[clip[v].owner][e]
    BY <1>3, <2>1 DEF MockKeeps, Counts
  <2>3. MockPay(v, e)' = MockPay(v, e)
    BY <1>1, <2>2 DEF MockPay, MockPayAt
  <2> QED
    BY <2>3 DEF MockHeld
<1> QED
  BY <1>2, <1>3

\* A share stays once no proof can add to the pot.
LEMMA MockShareStays ==
    ASSUME MockTypes, EntriesBelong, MockTypes', EntriesBelong',
           NEW e \in Epoch, MockKeeps(e), HoldbackReleaseEnd(e) <= now, NEW v \in Video
    PROVE  /\ MockShare(v, e)' = MockShare(v, e)
           /\ clipEpoch'[v][e].alive = clipEpoch[v][e].alive
           /\ MockSurvived(e)' = MockSurvived(e)
<1>1. \A w \in Video : clipEpoch'[w][e].alive = clipEpoch[w][e].alive
  <2>1. HoldbackReleaseEnd(e) \in Nat /\ now \in Nat
    BY EpochType, TimelineType DEF HoldbackReleaseEnd, MockTypes
  <2> QED
    BY <2>1 DEF MockKeeps
<1>2. \A w \in Video : MockHeld(w, e)' = MockHeld(w, e)
  BY MockPayStays
<1>3. MockHeldAlive(e)' = MockHeldAlive(e)
  BY <1>1, <1>2 DEF MockHeldAlive
<1>4. MockSurvived(e)' = SumOver(MockHeldAlive(e), Video)
  <2>1. (MockTypes /\ EntriesBelong => SurvivedAddsUp)'
    BY MockSurvivedAt, PTL
  <2> QED
    BY <1>3, <2>1 DEF SurvivedAddsUp
<1>5. MockSurvived(e)' = MockSurvived(e)
  BY <1>4, MockSurvivedIs
<1>6. epoch'[e].heldTotal = epoch[e].heldTotal
  BY DEF MockKeeps
<1> QED
  BY <1>1, <1>2, <1>5, <1>6 DEF MockShare

LEMMA MockNextSteps ==
    ASSUME MockRecords, TypeOK, MockNext
    PROVE  /\ MockStep
           /\ \/ MockQuiet
              \/ MockRefund
              \/ \E v \in Video, e \in Epoch : MockClaim(v, e) \/ MockClaimHoldback(v, e)
<1>1. CASE Tick
  BY <1>1, MockTickSteps
<1>2. ASSUME NEW u \in User, MockJoin(u)
      PROVE  MockStep /\ MockQuiet
  BY <1>2, MockJoinSteps
<1>3. ASSUME NEW u \in User, NEW v \in Video, NEW b \in MockViews, MockRegister(u, v, b)
      PROVE  MockStep /\ MockQuiet
  BY <1>3, MockRegisterSteps
<1>4. ASSUME NEW v \in Video, NEW e \in Epoch, NEW n \in MockViews, MockSubmit(v, e, n)
      PROVE  MockStep /\ MockQuiet
  BY <1>4, MockSubmitSteps
<1>5. ASSUME NEW e \in Epoch, MockSettle(e)
      PROVE  MockStep /\ MockQuiet
  BY <1>5, MockSettleSteps
<1>6. ASSUME NEW v \in Video, NEW e \in Epoch, MockClaim(v, e) \/ MockClaimHoldback(v, e)
      PROVE  MockStep
  BY <1>6, MockClaimSteps
<1>7. MockRefund => MockStep
  BY MockRefundSteps
<1>8. ASSUME NEW v \in Video, NEW e \in Epoch, MockChallenge(v, e, Brand)
      PROVE  MockStep /\ MockQuiet
  BY <1>8, MockChallengeSteps
<1>9. ASSUME NEW v \in Video, NEW e \in Epoch, MockRespond(v, e)
      PROVE  MockStep /\ MockQuiet
  BY <1>9, MockRespondSteps
<1>10. ASSUME NEW v \in Video, NEW e \in Epoch, NEW w \in BOOLEAN, MockResolve(v, e, w)
       PROVE  MockStep /\ MockQuiet
  BY <1>10, MockCloseSteps DEF MockResolve
<1>11. ASSUME NEW v \in Video, NEW e \in Epoch, MockFinalize(v, e)
       PROVE  MockStep /\ MockQuiet
  <2>1. PICK w \in BOOLEAN :
          dispute[v][e].status \in {"Open", "Responded"} /\ MockClose(v, e, w)
    BY <1>11 DEF MockFinalize
  <2> QED
    BY <2>1, MockCloseSteps
<1> QED
  BY <1>1, <1>2, <1>3, <1>4, <1>5, <1>6, <1>7, <1>8, <1>9, <1>10, <1>11 DEF MockNext

\* Only MockSettle settles.
LEMMA MockSettlesNow ==
    ASSUME MockRecords, TypeOK, MockNext, MockRecords', NEW k \in Epoch,
           ~epoch[k].settled, epoch'[k].settled
    PROVE  MockSettle(k)
<1>1. campaign'.settledEpochs # campaign.settledEpochs
  BY DEF MockRecords, SettledInOrder
<1>2. \A v \in Video, e \in Epoch :
        ~MockClaim(v, e) /\ ~MockClaimHoldback(v, e)
  <2>1. ASSUME NEW v \in Video, NEW e \in Epoch,
               MockClaim(v, e) \/ MockClaimHoldback(v, e)
        PROVE  FALSE
    BY <2>1, MockClaimSteps
  <2> QED
    BY <2>1
<1>3. ~MockRefund
  <2>1. MockRefund => epoch' = epoch
    BY DEF MockRefund
  <2> QED
    BY <2>1
<1>4. PICK e \in Epoch : MockSettle(e)
  BY <1>1, <1>2, <1>3 DEF MockNext, Tick, MockJoin, MockRegister, MockSubmit,
     MockChallenge, MockRespond, MockResolve, MockFinalize, MockClose
<1>5. k = e
  BY <1>4, MockSettleSteps
<1> QED
  BY <1>4, <1>5

LEMMA MockComputedKept ==
    ASSUME MockRecords, TypeOK, MockComputed, MockNext
    PROVE  MockComputed'
<1> SUFFICES ASSUME NEW e \in Epoch, epoch'[e].settled
             PROVE  MockAsComputed(e)'
  BY DEF MockComputed, MockAsComputed
<1>0. /\ MockTypes /\ EntriesBelong /\ SettledInOrder
      /\ MockStep /\ MockRecords'
  BY MockNextSteps DEF MockRecords, MockStep
<1>1. e > 0 => e - 1 \in Epoch /\ e \in Nat
  BY EpochType DEF Epoch
<1>2. ASSUME epoch[e].settled \/ MockSettle(e), e > 0
      PROVE  epoch[e - 1].settled /\ epoch'[e - 1] = epoch[e - 1]
  <2>1. epoch[e - 1].settled
    <3>1. CASE MockSettle(e)
      BY <1>2, <3>1 DEF MockSettle
    <3>2. CASE epoch[e].settled
      <4>1. campaign.settledEpochs \in Nat /\ e < campaign.settledEpochs
        BY <1>0, <3>2 DEF SettledInOrder, MockTypes
      <4> QED
        BY <1>0, <1>1, <1>2, <4>1 DEF SettledInOrder
    <3> QED
      BY <1>2, <3>1, <3>2
  <2> QED
    BY <1>0, <1>1, <1>2, <2>1 DEF MockStep, MockKeeps
<1>3. ASSUME epoch[e].settled \/ MockSettle(e)
      PROVE  CarryIn(epoch', e) = CarryIn(epoch, e)
  <2>1. CASE e = 0
    BY <2>1 DEF CarryIn
  <2>2. CASE e # 0
    <3>1. e > 0
      BY <2>2, EpochType
    <3> QED
      BY <1>2, <1>3, <3>1 DEF CarryIn
  <2> QED
    BY <2>1, <2>2
<1>4. CASE epoch[e].settled
  <2>1. MockKeeps(e) /\ epoch'[e] = epoch[e]
    BY <1>0, <1>4 DEF MockStep, MockKeeps
  <2>2. \A v \in Video : MockPay(v, e)' = MockPay(v, e) /\ MockHeld(v, e)' = MockHeld(v, e)
    BY <1>0, <2>1, MockPayStays
  <2>3. MockPays(e)' = MockPays(e) /\ MockHelds(e)' = MockHelds(e)
    BY <2>2 DEF MockPays, MockHelds
  <2>4. CarryIn(epoch', e) = CarryIn(epoch, e)
    BY <1>3, <1>4
  <2> QED
    BY <1>4, <2>1, <2>3, <2>4 DEF MockComputed, MockAsComputed
<1>5. CASE ~epoch[e].settled
  <2>1. MockSettle(e)
    BY <1>0, <1>5, MockSettlesNow
  <2>2. /\ clip' = clip /\ clipEpoch' = clipEpoch /\ partEpoch' = partEpoch
        /\ epoch[e] \in EpochState
    BY <2>1, MockSettleSteps DEF TypeOK
  <2>3. PICK budget \in Nat, rate \in Nat :
          /\ budget = BaseBudget(e) + CarryIn(epoch, e)
          /\ rate = RateFor(budget, epoch[e].totalWeight)
          /\ epoch'[e] = [epoch[e] EXCEPT
                !.settled = TRUE, !.budget = budget, !.rate = rate,
                !.spent = SumOver(MockPaysAt(rate, e), Video),
                !.heldTotal = SumOver([v \in Video |->
                                         HeldOf(e, MockPayAt(rate, v, e))], Video)]
    BY <2>1, MockSettleSteps
  <2>4. /\ epoch'[e].budget = budget /\ epoch'[e].rate = rate
        /\ epoch'[e].totalWeight = epoch[e].totalWeight
        /\ epoch'[e].spent = SumOver(MockPaysAt(rate, e), Video)
        /\ epoch'[e].heldTotal = SumOver([v \in Video |->
                                            HeldOf(e, MockPayAt(rate, v, e))], Video)
    BY <2>2, <2>3 DEF EpochState
  <2>5. MockPays(e)' = MockPaysAt(rate, e)
    BY <2>2, <2>4 DEF MockPays, MockPaysAt, MockPay, MockPayAt
  <2>6. MockHelds(e)' = [v \in Video |-> HeldOf(e, MockPayAt(rate, v, e))]
    BY <2>2, <2>4 DEF MockHelds, MockHeld, MockPay, MockPayAt
  <2>7. CarryIn(epoch', e) = CarryIn(epoch, e)
    BY <1>3, <2>1
  <2> QED
    BY <2>3, <2>4, <2>5, <2>6, <2>7 DEF MockAsComputed
<1> QED
  BY <1>4, <1>5

\* What was paid stays counted at the same amount.
LEMMA MockPaidStays ==
    ASSUME MockRecords, MockStep, NEW v \in Video, NEW e \in Epoch, SameFlags(v, e)
    PROVE  MockPaidAt'[<<v, e>>] = MockPaidAt[<<v, e>>]
<1>0. /\ MockTypes /\ EntriesBelong /\ MockFlagsOf(v, e)
      /\ MockTypes' /\ EntriesBelong'
  BY DEF MockRecords, MockFlags, MockStep
<1>1. (MockPaidNow(e)')[v] = MockPaidNow(e)[v]
  <2>1. CASE clipEpoch[v][e].claimed
    <3>1. MockKeeps(e)
      BY <1>0, <2>1 DEF MockFlagsOf, MockStep
    <3>2. MockPay(v, e)' = MockPay(v, e) /\ MockHeld(v, e)' = MockHeld(v, e)
      BY <1>0, <3>1, MockPayStays
    <3> QED
      BY <3>2 DEF MockPaidNow, MockNow, SameFlags
  <2>2. CASE ~clipEpoch[v][e].claimed
    BY <2>2 DEF MockPaidNow, SameFlags
  <2> QED
    BY <2>1, <2>2
<1>2. (MockPaidShares(e)')[v] = MockPaidShares(e)[v]
  <2>1. CASE clipEpoch[v][e].holdbackClaimed
    <3>1. MockKeeps(e) /\ HoldbackReleaseEnd(e) <= now
      BY <1>0, <2>1 DEF MockFlagsOf, MockStep
    <3>2. MockShare(v, e)' = MockShare(v, e)
      BY <1>0, <3>1, MockShareStays
    <3> QED
      BY <3>2 DEF MockPaidShares, SameFlags
  <2>2. CASE ~clipEpoch[v][e].holdbackClaimed
    BY <2>2 DEF MockPaidShares, SameFlags
  <2> QED
    BY <2>1, <2>2
<1>3. <<v, e>> \in VideoEpochs
  BY DEF VideoEpochs
<1> QED
  BY <1>1, <1>2, <1>3 DEF MockPaidAt, VideoEpochs

\* A claim is paid in full, and counted at what it pays.
LEMMA MockClaimPays ==
    ASSUME MockRecords, TypeOK, NEW v \in Video, NEW e \in Epoch, NEW amount,
           \/ MockClaim(v, e) /\ amount = MockNow(v, e)
           \/ MockClaimHoldback(v, e) /\ amount = MockShare(v, e)
    PROVE  /\ amount \in Nat
           /\ campaign'.balance = campaign.balance - amount
           /\ ~campaign.refunded /\ ~campaign'.refunded
           /\ MockPaidAt'[<<v, e>>] = MockPaidAt[<<v, e>>] + amount
           /\ \A x \in VideoEpochs : x # <<v, e>> => MockPaidAt'[x] = MockPaidAt[x]
<1>0. /\ MockTypes /\ EntriesBelong /\ MockTypes' /\ EntriesBelong'
      /\ clipEpoch[v][e] \in ClipEpoch /\ campaign \in CampaignRecord
      /\ <<v, e>> \in VideoEpochs
  <2>1. MockRecords'
    BY MockClaimSteps DEF MockStep
  <2> QED
    BY <2>1 DEF MockRecords, TypeOK, VideoEpochs
<1>1. /\ MockStep /\ epoch[e].settled /\ ~campaign.refunded
      /\ campaign' = [campaign EXCEPT !.balance = campaign'.balance]
      /\ clipEpoch'[v][e] = [clipEpoch[v][e] EXCEPT
                               !.claimed = @ \/ MockClaim(v, e),
                               !.holdbackClaimed = @ \/ ~MockClaim(v, e)]
      /\ \A w \in Video, k \in Epoch :
           <<w, k>> # <<v, e>> => clipEpoch'[w][k] = clipEpoch[w][k]
      /\ now' = now
  BY MockClaimSteps
<1>2. ~campaign'.refunded
  BY <1>0, <1>1 DEF CampaignRecord
<1>3. ASSUME NEW x \in VideoEpochs, x # <<v, e>>
      PROVE  MockPaidAt'[x] = MockPaidAt[x]
  <2>1. PICK w \in Video, k \in Epoch : x = <<w, k>>
    BY DEF VideoEpochs
  <2>2. SameFlags(w, k)
    BY <1>1, <1>3, <2>1 DEF SameFlags
  <2> QED
    BY <1>1, <2>1, <2>2, MockPaidStays
<1>4. /\ MockPaidNow(e)[v] \in Nat /\ MockPaidShares(e)[v] \in Nat
      /\ MockPaidAt[<<v, e>>] = MockPaidNow(e)[v] + MockPaidShares(e)[v]
      /\ MockPaidAt'[<<v, e>>] = (MockPaidNow(e)')[v] + (MockPaidShares(e)')[v]
  BY <1>0, MockPaidType DEF MockPaidAt, Naturals, VideoEpochs
<1>5. MockKeeps(e)
  BY <1>1 DEF MockStep
<1>6. /\ MockNow(v, e)' = MockNow(v, e) /\ MockNow(v, e) \in Nat
      /\ MockShare(v, e) \in Nat
      /\ HoldbackReleaseEnd(e) <= now => MockShare(v, e)' = MockShare(v, e)
  BY <1>0, <1>5, MockPayStays, MockShareStays, MockAmountsType, MockShareType DEF MockNow
<1>7. clipEpoch[v][e].holdbackClaimed => HoldbackReleaseEnd(e) <= now
  BY DEF MockRecords, MockFlags, MockFlagsOf
<1>8. CASE MockClaim(v, e) /\ amount = MockNow(v, e)
  <2>1. /\ ~clipEpoch[v][e].claimed
        /\ campaign' = [campaign EXCEPT !.balance = @ - MockNow(v, e)]
    BY <1>8 DEF MockClaim, MockNow
  <2>2. /\ clipEpoch'[v][e].claimed
        /\ clipEpoch'[v][e].holdbackClaimed = clipEpoch[v][e].holdbackClaimed
    BY <1>0, <1>1, <1>8 DEF ClipEpoch
  <2>3. MockPaidNow(e)[v] = 0 /\ (MockPaidNow(e)')[v] = amount
    BY <1>6, <1>8, <2>1, <2>2 DEF MockPaidNow
  <2>4. (MockPaidShares(e)')[v] = MockPaidShares(e)[v]
    BY <1>6, <1>7, <2>2 DEF MockPaidShares
  <2>5. campaign'.balance = campaign.balance - amount
    BY <1>0, <1>8, <2>1 DEF CampaignRecord
  <2> QED
    BY <1>1, <1>2, <1>3, <1>4, <1>6, <1>8, <2>3, <2>4, <2>5
<1>9. CASE ~MockClaim(v, e) /\ MockClaimHoldback(v, e) /\ amount = MockShare(v, e)
  <2>1. /\ ~clipEpoch[v][e].holdbackClaimed /\ HoldbackReleaseEnd(e) <= now
        /\ campaign' = [campaign EXCEPT !.balance = @ - MockShare(v, e)]
    BY <1>9 DEF MockClaimHoldback
  <2>2. /\ clipEpoch'[v][e].holdbackClaimed
        /\ clipEpoch'[v][e].claimed = clipEpoch[v][e].claimed
    BY <1>0, <1>1, <1>9 DEF ClipEpoch
  <2>3. MockPaidShares(e)[v] = 0 /\ (MockPaidShares(e)')[v] = amount
    BY <1>6, <1>9, <2>1, <2>2 DEF MockPaidShares
  <2>4. (MockPaidNow(e)')[v] = MockPaidNow(e)[v]
    BY <1>6, <2>2 DEF MockPaidNow
  <2>5. campaign'.balance = campaign.balance - amount
    BY <1>0, <1>9, <2>1 DEF CampaignRecord
  <2> QED
    BY <1>1, <1>2, <1>3, <1>4, <1>6, <1>9, <2>3, <2>4, <2>5
<1>10. ~(MockClaim(v, e) /\ MockClaimHoldback(v, e))
  <2>1. ASSUME MockClaim(v, e), MockClaimHoldback(v, e)
        PROVE  FALSE
    <3>1. clipEpoch'[v][e] = [clipEpoch[v][e] EXCEPT !.claimed = TRUE]
      BY <1>0, <2>1 DEF MockClaim, TypeOK
    <3>2. clipEpoch'[v][e] = [clipEpoch[v][e] EXCEPT !.holdbackClaimed = TRUE]
      BY <1>0, <2>1 DEF MockClaimHoldback, TypeOK
    <3>3. ~clipEpoch[v][e].claimed
      BY <2>1 DEF MockClaim
    <3> QED
      BY <1>0, <3>1, <3>2, <3>3 DEF ClipEpoch
  <2> QED
    BY <2>1
<1> QED
  BY <1>8, <1>9, <1>10

LEMMA MockAccountKept ==
    ASSUME MockInv, TypeOK, MockNext
    PROVE  MockAccounted'
<1> DEFINE w == MockPaidAt
           z == MockPaidAt'
           S == VideoEpochs
<1>0. /\ MockRecords /\ MockAccounted /\ MockTypes /\ EntriesBelong /\ MockStep
      /\ MockTypes' /\ EntriesBelong' /\ campaign \in CampaignRecord
  BY MockNextSteps DEF MockInv, MockRecords, MockStep, TypeOK
<1>1. Naturals(w, S) /\ Naturals(z, S) /\ IsFiniteSet(S) /\ SumOver(w, S) \in Nat
  <2>1. (MockTypes /\ EntriesBelong)' => (Naturals(MockPaidAt, VideoEpochs))'
    BY MockPaidAtType, PTL
  <2>2. Naturals(z, S)
    BY <1>0, <2>1 DEF Naturals, VideoEpochs
  <2> QED
    BY <1>0, <2>2, MockPaidAtType
<1>2. ASSUME NEW v \in Video, NEW e \in Epoch, NEW amount,
             \/ MockClaim(v, e) /\ amount = MockNow(v, e)
             \/ MockClaimHoldback(v, e) /\ amount = MockShare(v, e)
      PROVE  MockAccounted'
  <2>1. /\ amount \in Nat
        /\ z[<<v, e>>] = w[<<v, e>>] + amount
        /\ \A x \in S : x # <<v, e>> => z[x] = w[x]
        /\ ~campaign.refunded /\ ~campaign'.refunded
        /\ campaign'.balance = campaign.balance - amount
    BY <1>0, <1>2, MockClaimPays
  <2>2. <<v, e>> \in S /\ w[<<v, e>>] \in Nat
    BY <1>1 DEF VideoEpochs, Naturals
  <2>3. campaign.balance + SumOver(w, S) = Budget
    BY <1>0, <2>1 DEF MockAccounted
  <2> HIDE DEF w, z, S
  <2>4. SumOver(z, S) = SumOver(w, S) - w[<<v, e>>] + z[<<v, e>>]
    BY <1>1, <2>1, <2>2, SumOneChanged
  <2>5. campaign'.balance + SumOver(z, S) = Budget
    BY <1>0, <1>1, <2>1, <2>2, <2>3, <2>4 DEF CampaignRecord
  <2> QED
    BY <2>1, <2>5 DEF MockAccounted, z, S
<1>3. ASSUME MockQuiet
      PROVE  MockAccounted'
  <2>1. \A x \in S : z[x] = w[x]
    <3>1. ASSUME NEW v \in Video, NEW e \in Epoch
          PROVE  z[<<v, e>>] = w[<<v, e>>]
      BY <1>0, <1>3, MockPaidStays DEF MockQuiet
    <3> QED
      BY <3>1 DEF VideoEpochs
  <2>2. SumOver(z, S) = SumOver(w, S)
    <3> HIDE DEF w, z, S
    <3> QED
      BY <1>1, <2>1, SumSame
  <2> HIDE DEF w, z, S
  <2> QED
    BY <1>0, <1>3, <2>2 DEF MockAccounted, MockQuiet, w, z, S
<1>4. MockRefund => MockAccounted'
  BY <1>0, MockRefundSteps DEF MockAccounted
<1> QED
  BY <1>0, <1>2, <1>3, <1>4, MockNextSteps

LEMMA MockInvKept ==
    ASSUME MockInv, MockNext
    PROVE  MockInv'
<1>1. TypeOK
  BY MockSolvent
<1>2. MockStep
  BY <1>1, MockNextSteps DEF MockInv
<1>3. MockComputed'
  BY <1>1, MockComputedKept DEF MockInv
<1>4. MockAccounted'
  BY <1>1, MockAccountKept
<1> QED
  BY <1>2, <1>3, <1>4 DEF MockInv, MockStep

LEMMA MockInvBegins ==
    ASSUME Init
    PROVE  MockInv
<1>1. IInv
  BY InitKeeps
<1>2. /\ \A v \in Video, e \in Epoch : clipEpoch[v][e] = NoClipEpoch /\ epoch[e] = NewEpoch
      /\ ~campaign.refunded
  BY DEF Init
<1>3. MockTypes
  BY <1>1 DEF IInv, TypeOK, CampaignRecord, MockTypes
<1>4. MockSums
  <2>1. ASSUME NEW u \in User, NEW e \in Epoch
        PROVE  CountedWeights(u, e) = WeightsOf(u, e)
    BY <1>2 DEF CountedWeights, WeightsOf, Counts, NoClipEpoch
  <2> QED
    BY <1>1, <2>1 DEF IInv, SumsKept, RawSum, MockSums, MockRawSum
<1>5. MockFlags
  BY <1>2 DEF MockFlags, MockFlagsOf, Recorded, NoClipEpoch
<1>6. MockComputed
  BY DEF Init, MockComputed, MockAsComputed, NewEpoch
<1>7. MockAccounted
  <2>1. \A ve \in VideoEpochs : MockPaidAt[ve] = 0
    BY <1>2 DEF MockPaidAt, MockPaidNow, MockPaidShares, VideoEpochs, NoClipEpoch
  <2>2. SumOver(MockPaidAt, VideoEpochs) = 0
    BY <2>1, SumZeros, PairsOfEpochsFinite
  <2> QED
    BY <1>2, <2>2, PayoutAssumption DEF Init, MockAccounted
<1> QED
  BY <1>1, <1>3, <1>4, <1>5, <1>6, <1>7 DEF IInv, MockInv, MockRecords

-----------------------------------------------------------------------------
(***************************************************************************)
(* What the pages rely on of the contract's records.                       *)
(***************************************************************************)
LEMMA StandingKept ==
    ASSUME IInv, RInv, Standing, [Next]_vars, IInv', RInv'
    PROVE  Standing'
<1> SUFFICES ASSUME NEW v \in Video, NEW e \in Epoch
             PROVE  LET d == clipEpoch'[v][e]
                    IN  /\ d.claimed \/ d.alive => d.status = "Active"
                        /\ d.status = "Excluded" => d.weight = 0
                        /\ d.status # "None" => clip'[v].firstEpoch <= e
  BY DEF Standing
<1> DEFINE c == clipEpoch[v][e]
           d == clipEpoch'[v][e]
<1>1. /\ c \in ClipEpoch /\ clip[v] \in Clip /\ FlagsOf(v, e)
      /\ c.claimed \/ c.alive => c.status = "Active"
      /\ c.status = "Excluded" => c.weight = 0
      /\ c.status # "None" => clip[v].firstEpoch <= e
      /\ c.status # "None" => clip[v].owner # Nobody
  BY DEF IInv, TypeOK, RInv, FlagsAgree, Standing, EntriesBelong
<1>2. clip[v].owner # Nobody => clip'[v].firstEpoch = clip[v].firstEpoch
  <2>1. CASE clip'[v] = clip[v]
    BY <2>1
  <2>2. CASE Registered(v)
    BY <2>2 DEF Registered
  <2>3. ASSUME NEW n, clip'[v] = [clip[v] EXCEPT !.hwm = n]
        PROVE  clip'[v].firstEpoch = clip[v].firstEpoch
    BY <1>1, <2>3 DEF Clip
  <2> QED
    BY <2>1, <2>2, <2>3, ClipChanges
<1>3. RecordStep(v, e)
  BY RecordChanges
<1>4. CASE d = c
  BY <1>1, <1>2, <1>4
<1>5. CASE Claim(v, e) /\ d = [c EXCEPT !.claimed = TRUE]
  <2>1. c.status = "Active"
    BY <1>5 DEF Claim, CanClaim
  <2>2. d.status = "Active"
    BY <1>1, <1>5, <2>1 DEF ClipEpoch
  <2> QED
    BY <1>1, <1>2, <2>1, <2>2
<1>6. CASE ClaimHoldback(v, e) /\ d = [c EXCEPT !.holdbackClaimed = TRUE]
  <2>1. d.claimed = c.claimed /\ d.alive = c.alive /\ d.status = c.status /\ d.weight = c.weight
    BY <1>1, <1>6 DEF ClipEpoch
  <2> QED
    BY <1>1, <1>2, <2>1
<1>7. CASE Proves(v, e)
  <2>1. d.status = "Active" /\ clip[v].owner # Nobody /\ clip[v].firstEpoch <= e
    BY <1>7 DEF Proves, SubmitProof
  <2> QED
    BY <1>2, <2>1
<1>8. CASE Revived(v, e)
  <2>1. c.status = "Active" /\ d.status = c.status
    BY <1>1, <1>8 DEF Revived, Revives, ClipEpoch
  <2> QED
    BY <1>1, <1>2, <2>1
<1>9. CASE Judged(v, e)
  <2>1. PICK st \in ClipStatus \ {"None"}, w \in Nat :
          /\ st = "Excluded" => w = 0
          /\ d = [c EXCEPT !.status = st, !.weight = w]
    BY <1>9 DEF Judged
  <2>2. d.status = st /\ d.weight = w /\ d.claimed = c.claimed /\ d.alive = c.alive
    BY <1>1, <2>1 DEF ClipEpoch
  <2>3. ~c.claimed /\ ~c.alive /\ c.status # "None"
    BY <1>1, <1>9 DEF Judged, FlagsOf
  <2> QED
    BY <1>1, <1>2, <2>1, <2>2, <2>3
<1> QED
  BY <1>3, <1>4, <1>5, <1>6, <1>7, <1>8, <1>9 DEF RecordStep

LEMMA ChainInvKept ==
    ASSUME ChainInv, Next
    PROVE  ChainInv'
<1>1. IInv'
  BY NextKeeps DEF ChainInv
<1>2. RInv'
  BY <1>1, NextRecords DEF ChainInv
<1>3. MInv'
  BY <1>1, <1>2, NextMoney DEF ChainInv
<1>4. Standing'
  BY <1>1, <1>2, StandingKept DEF ChainInv
<1> QED
  BY <1>1, <1>2, <1>3, <1>4 DEF ChainInv

LEMMA ChainInvBegins ==
    ASSUME Init
    PROVE  ChainInv
<1>1. Standing
  BY DEF Init, Standing, NoClipEpoch
<1> QED
  BY <1>1, InitKeeps, InitRecords, InitMoney DEF ChainInv

LEMMA MockStutters ==
    ASSUME MockInv, UNCHANGED vars
    PROVE  MockInv'
<1> USE DEF vars
<1>1. MockTypes'
  BY DEF MockInv, MockRecords, MockTypes
<1>2. SettledInOrder' /\ SettledWhenDue' /\ SpentBounded'
  BY DEF MockInv, MockRecords, SettledInOrder, SettledWhenDue, SpentBounded
<1>3. DisputesAgree' /\ EntriesBelong'
  BY DEF MockInv, MockRecords, DisputesAgree, Undecided, EntriesBelong
<1>4. MockSums'
  BY DEF MockInv, MockRecords, MockSums, MockRawSum, CountedWeights, Counts, TotalSum, WeightsIn
<1>5. MockFlags'
  BY DEF MockInv, MockRecords, MockFlags, MockFlagsOf, Recorded, Counts
<1>6. MockRecords'
  BY <1>1, <1>2, <1>3, <1>4, <1>5 DEF MockRecords
<1>7. MockComputed'
  BY DEF MockInv, MockComputed, MockAsComputed, MockPays, MockHelds, MockPay, MockPayAt,
     MockHeld, CarryIn
<1>8. MockStep
  BY <1>6 DEF MockStep, MockKeeps
<1>9. MockAccounted'
  <2>1. \A ve \in VideoEpochs : MockPaidAt'[ve] = MockPaidAt[ve]
    BY <1>8, MockPaidStays DEF MockInv, SameFlags, VideoEpochs
  <2>2. MockPaidAt' = MockPaidAt
    BY <2>1 DEF MockPaidAt
  <2> QED
    BY <2>2 DEF MockInv, MockAccounted
<1> QED
  BY <1>6, <1>7, <1>9 DEF MockInv

LEMMA SiteInvBegins == SiteInit => SiteInv
BY MockInvBegins, ChainInvBegins, MockSolvent DEF SiteInit, SiteInv

LEMMA SiteInvKept ==
    ASSUME SiteInv, [SiteNext]_siteVars
    PROVE  SiteInv'
<1>1. CASE SiteNext
  <2>1. api' = api
    BY <1>1 DEF SiteNext
  <2>2. CASE api = "chain" /\ Next
    BY <2>1, <2>2, ChainInvKept DEF SiteInv
  <2>3. CASE api = "mock" /\ MockNext
    <3>1. MockInv'
      BY <2>3, MockInvKept DEF SiteInv
    <3>2. campaign'.balance >= 0
      <4>1. MockInv' => (campaign.balance >= 0)'
        BY MockSolvent, PTL
      <4> QED
        BY <3>1, <4>1
    <3> QED
      BY <2>1, <2>3, <3>1, <3>2 DEF SiteInv
  <2> QED
    BY <1>1, <2>2, <2>3 DEF SiteNext
<1>2. CASE UNCHANGED siteVars
  <2>1. vars' = vars /\ api' = api
    BY <1>2 DEF siteVars
  <2>2. api = "chain" => ChainInv'
    <3> SUFFICES ASSUME ChainInv PROVE ChainInv'
      BY DEF SiteInv
    <3>1. IInv'
      BY <2>1, NextKeeps DEF ChainInv
    <3>2. RInv'
      BY <2>1, <3>1, NextRecords DEF ChainInv
    <3>3. MInv'
      BY <2>1, <3>1, <3>2, NextMoney DEF ChainInv
    <3>4. Standing'
      BY <2>1, <3>1, <3>2, StandingKept DEF ChainInv
    <3> QED
      BY <3>1, <3>2, <3>3, <3>4 DEF ChainInv
  <2>3. api = "mock" => MockInv' /\ campaign'.balance >= 0
    BY <2>1, MockStutters DEF SiteInv, vars
  <2> QED
    BY <2>1, <2>2, <2>3 DEF SiteInv
<1> QED
  BY <1>1, <1>2

-----------------------------------------------------------------------------
(***************************************************************************)
(* What the pages show of a settled epoch is what the API pays.            *)
(***************************************************************************)
\* What the proofs about the pages take from either API.
LEMMA SiteRecords ==
    ASSUME SiteInv
    PROVE  /\ TypeOK /\ EntriesBelong /\ SettledInOrder /\ SettledWhenDue /\ SpentBounded
           /\ \A v \in Video, e \in Epoch :
                /\ clipEpoch[v][e].status # "None" => clip[v].firstEpoch <= e
                /\ clipEpoch[v][e].claimed => epoch[e].settled /\ Counts(v, e)
                /\ clipEpoch[v][e].holdbackClaimed =>
                     epoch[e].settled /\ Counts(v, e) /\ clipEpoch[v][e].alive
<1>1. CASE api = "chain"
  <2>1. ASSUME NEW v \in Video, NEW e \in Epoch
        PROVE  /\ clipEpoch[v][e].status # "None" => clip[v].firstEpoch <= e
               /\ clipEpoch[v][e].claimed => epoch[e].settled /\ Counts(v, e)
               /\ clipEpoch[v][e].holdbackClaimed =>
                    epoch[e].settled /\ Counts(v, e) /\ clipEpoch[v][e].alive
    BY <1>1 DEF SiteInv, ChainInv, RInv, FlagsAgree, FlagsOf, Standing, Counts
  <2> QED
    BY <1>1, <2>1 DEF SiteInv, ChainInv, IInv
<1>2. CASE api = "mock"
  <2>1. MockInv
    BY <1>2 DEF SiteInv
  <2>2. ASSUME NEW v \in Video, NEW e \in Epoch
        PROVE  /\ clipEpoch[v][e].status # "None" => clip[v].firstEpoch <= e
               /\ clipEpoch[v][e].claimed => epoch[e].settled /\ Counts(v, e)
               /\ clipEpoch[v][e].holdbackClaimed =>
                    epoch[e].settled /\ Counts(v, e) /\ clipEpoch[v][e].alive
    BY <2>1 DEF MockInv, MockRecords, MockFlags, MockFlagsOf, Recorded
  <2> QED
    BY <2>1, <2>2, MockSolvent DEF MockInv, MockRecords
<1> QED
  BY <1>1, <1>2 DEF SiteInv

\* A page adds up the clips that are not excluded, the contract all of them,
\* an excluded one at weight 0, and the mock those with a standing record; the
\* three sums are the same.
ShownWeights(u, e) ==
    [v \in Video |->
       IF clip[v].owner = u /\ clipEpoch[v][e].status # "Excluded"
       THEN clipEpoch[v][e].weight ELSE 0]

LEMMA ShownAddUp ==
    ASSUME TypeOK, NEW u \in User, NEW e \in Epoch
    PROVE  CellWeights(u, e) =
             LET raw == SumOver(ShownWeights(u, e), Video)
             IN  [raw |-> raw, weight |-> Least(raw, CapHuman)]
<1> DEFINE T == {v \in Video : clip[v].owner = u /\ clipEpoch[v][e].status # "Excluded"}
           w == [v \in Video |-> clipEpoch[v][e].weight]
<1>1. T \in SUBSET Video
  OBVIOUS
<1>2. MapThenSumSet(LAMBDA v : clipEpoch[v][e].weight, T) = SumOver(w, T)
  <2> HIDE DEF T
  <2>1. ASSUME NEW g
        PROVE  IsSum(g, w, T) <=>
                 g = [s \in SUBSET T |-> IF s = {} THEN 0
                        ELSE clipEpoch[CHOOSE x \in s : TRUE][e].weight
                               + g[s \ {CHOOSE x \in s : TRUE}]]
    BY <1>1 DEF IsSum, Chosen
  <2> QED
    BY <2>1, SumOverIs DEF MapThenSumSet, MapThenFoldSet
<1>3. Naturals(w, Video)
  BY DEF Naturals, TypeOK, ClipEpoch
<1>4. SumOver(w, T) = SumOver([v \in Video |-> IF v \in T THEN w[v] ELSE 0], Video)
  <2> HIDE DEF T, w
  <2> QED
    BY <1>1, <1>3, SumOfPart, CampaignAssumption
<1>5. [v \in Video |-> IF v \in T THEN w[v] ELSE 0] = ShownWeights(u, e)
  BY DEF ShownWeights
<1>6. MapThenSumSet(LAMBDA v : clipEpoch[v][e].weight, T) = SumOver(ShownWeights(u, e), Video)
  BY <1>2, <1>4, <1>5
<1> QED
  BY <1>6 DEF CellWeights

LEMMA CellWeightsAre ==
    ASSUME SiteInv, NEW u \in User, NEW e \in Epoch
    PROVE  CellWeights(u, e) = partEpoch[u][e]
<1>1. TypeOK /\ EntriesBelong
  BY SiteRecords
<1>2. partEpoch[u][e] \in ParticipantEpoch
  BY <1>1 DEF TypeOK
<1>3. CASE api = "chain"
  <2>1. RawSum(u, e) /\ Standing
    BY <1>3 DEF SiteInv, ChainInv, IInv, SumsKept
  <2>2. ShownWeights(u, e) = WeightsOf(u, e)
    BY <2>1 DEF ShownWeights, WeightsOf, Standing
  <2> QED
    BY <1>1, <1>2, <2>1, <2>2, ShownAddUp DEF RawSum, ParticipantEpoch
<1>4. CASE api = "mock"
  <2>1. MockRawSum(u, e)
    BY <1>4 DEF SiteInv, MockInv, MockRecords, MockSums
  <2>2. ShownWeights(u, e) = CountedWeights(u, e)
    BY <1>1 DEF ShownWeights, CountedWeights, Counts, EntriesBelong
  <2> QED
    BY <1>1, <1>2, <2>1, <2>2, ShownAddUp DEF MockRawSum, ParticipantEpoch
<1> QED
  BY <1>3, <1>4 DEF SiteInv

\* The amounts in the cells of a settled epoch are those of the contract and, on
\* the mock, its own.
LEMMA CellsArePays ==
    ASSUME SiteInv, NEW v \in Video, NEW e \in Epoch, epoch[e].settled, Counts(v, e)
    PROVE  /\ clip[v].owner \in User /\ Row(v, e)
           /\ CellPay(v, e) = Pay(v, e)
           /\ CellHeld(v, e) = HeldOf(e, Pay(v, e))
           /\ CellImmediate(v, e) = Immediate(v, e)
           /\ MockPay(v, e) = Pay(v, e)
           /\ MockHeld(v, e) = HeldOf(e, Pay(v, e))
           /\ MockNow(v, e) = Immediate(v, e)
<1>1. TypeOK /\ EntriesBelong /\ (clipEpoch[v][e].status # "None" => clip[v].firstEpoch <= e)
  BY SiteRecords
<1>2. clip[v].owner \in User /\ Row(v, e)
  BY <1>1 DEF TypeOK, EntriesBelong, Clip, Counts, Row
<1>3. Estimate(e).rate = epoch[e].rate
  BY DEF Estimate
<1>4. CellPay(v, e) = Pay(v, e)
  BY <1>2, <1>3, CellWeightsAre DEF CellPay, Pay, Counts
<1>5. MockPay(v, e) = Pay(v, e)
  BY DEF MockPay, MockPayAt, Pay, Counts
<1> QED
  BY <1>2, <1>4, <1>5 DEF CellHeld, CellImmediate, Immediate, MockHeld, MockNow

LEMMA CellSharesAre ==
    ASSUME SiteInv, NEW v \in Video, NEW e \in Epoch, epoch[e].settled, Counts(v, e),
           clipEpoch[v][e].alive
    PROVE  /\ api = "chain" => /\ epoch[e].heldSurvived # 0 => CellHoldback(v, e) = Share(v, e)
                               /\ epoch[e].heldSurvived = 0 => CellHoldback(v, e) = 0
           /\ api = "mock" => CellHoldback(v, e) = MockShare(v, e)
<1>1. CellHeld(v, e) = HeldOf(e, Pay(v, e)) /\ MockHeld(v, e) = HeldOf(e, Pay(v, e))
  BY CellsArePays
<1>2. Estimate(e).heldTotal = epoch[e].heldTotal
  BY DEF Estimate
<1> QED
  BY <1>1 DEF CellHoldback, SurvivedRead, Share, MockShare

-----------------------------------------------------------------------------
(***************************************************************************)
(* What the dashboards call earned is what was paid.                       *)
(***************************************************************************)
SitePaidAt == IF api = "mock" THEN MockPaidAt ELSE PaidAt

EarnedIn(v, e) ==
    (IF clipEpoch[v][e].claimed THEN CellImmediate(v, e) ELSE 0)
      + (IF clipEpoch[v][e].holdbackClaimed THEN CellHoldback(v, e) ELSE 0)

LEMMA CellsPaid ==
    ASSUME SiteInv, NEW v \in Video, NEW e \in Epoch
    PROVE  /\ SitePaidAt[<<v, e>>] = EarnedIn(v, e)
           /\ ~Counts(v, e) => SitePaidAt[<<v, e>>] = 0
           /\ Counts(v, e) => Row(v, e) /\ clip[v].owner \in User
<1> DEFINE c == clipEpoch[v][e]
<1>1. /\ TypeOK /\ EntriesBelong
      /\ c.status # "None" => clip[v].firstEpoch <= e
      /\ c.claimed => epoch[e].settled /\ Counts(v, e)
      /\ c.holdbackClaimed => epoch[e].settled /\ Counts(v, e) /\ c.alive
  BY SiteRecords
<1>2. Counts(v, e) => Row(v, e) /\ clip[v].owner \in User
  BY <1>1 DEF TypeOK, EntriesBelong, Clip, Counts, Row
<1>3. c.claimed => CellImmediate(v, e) = Immediate(v, e) /\ MockNow(v, e) = Immediate(v, e)
  BY <1>1, CellsArePays
<1>4. c.holdbackClaimed =>
        CellHoldback(v, e) = IF api = "mock" THEN MockShare(v, e) ELSE Share(v, e)
  <2>1. c.holdbackClaimed /\ api = "chain" => epoch[e].heldSurvived # 0
    BY DEF SiteInv, ChainInv, RInv, FlagsAgree, FlagsOf
  <2> QED
    BY <1>1, <2>1, CellSharesAre DEF SiteInv
<1>5. SitePaidAt[<<v, e>>] =
        (IF c.claimed THEN Immediate(v, e) ELSE 0)
          + (IF c.holdbackClaimed
             THEN (IF api = "mock" THEN MockShare(v, e) ELSE Share(v, e)) ELSE 0)
  <2>1. PaidAt[<<v, e>>] = (IF c.claimed THEN Immediate(v, e) ELSE 0)
                             + (IF c.holdbackClaimed THEN Share(v, e) ELSE 0)
    BY DEF PaidAt, PaidNow, PaidShares, VideoEpochs
  <2>2. MockPaidAt[<<v, e>>] = (IF c.claimed THEN MockNow(v, e) ELSE 0)
                                 + (IF c.holdbackClaimed THEN MockShare(v, e) ELSE 0)
    BY DEF MockPaidAt, MockPaidNow, MockPaidShares, VideoEpochs
  <2> QED
    BY <1>3, <2>1, <2>2 DEF SitePaidAt
<1> QED
  BY <1>1, <1>2, <1>3, <1>4, <1>5 DEF EarnedIn

LEMMA SitePaidType ==
    ASSUME SiteInv
    PROVE  /\ Naturals(SitePaidAt, VideoEpochs) /\ IsFiniteSet(VideoEpochs)
           /\ ~campaign.refunded =>
                campaign.balance + SumOver(SitePaidAt, VideoEpochs) = Budget
<1>1. CASE api = "chain"
  BY <1>1, PaidType DEF SitePaidAt, SiteInv, ChainInv, MInv, Accounted
<1>2. CASE api = "mock"
  BY <1>2, MockPaidAtType DEF SitePaidAt, SiteInv, MockInv, MockRecords, MockAccounted
<1> QED
  BY <1>1, <1>2 DEF SiteInv

OwnedBy(u) == {ve \in VideoEpochs : clip[ve[1]].owner = u}

LEMMA EarnedIs ==
    ASSUME SiteInv, NEW u \in User
    PROVE  Earned(u) = SumOver(SitePaidAt, OwnedBy(u))
<1> DEFINE S == VideoEpochs
           T == {ve \in Video \X Epoch : /\ Row(ve[1], ve[2])
                                         /\ clip[ve[1]].owner = u
                                         /\ clipEpoch[ve[1]][ve[2]].status
                                              \notin {"None", "Excluded"}}
           w == SitePaidAt
<1>1. T \in SUBSET S
  BY DEF VideoEpochs
<1>2. ASSUME NEW ve \in S
      PROVE  /\ ve[1] \in Video /\ ve[2] \in Epoch /\ ve = <<ve[1], ve[2]>>
             /\ w[ve] = EarnedIn(ve[1], ve[2])
             /\ ve \in OwnedBy(u) /\ ve \notin T => w[ve] = 0
             /\ ve \in T => ve \in OwnedBy(u)
  <2>1. ve[1] \in Video /\ ve[2] \in Epoch /\ ve = <<ve[1], ve[2]>>
    BY DEF VideoEpochs
  <2>2. /\ w[ve] = EarnedIn(ve[1], ve[2])
        /\ ~Counts(ve[1], ve[2]) => w[ve] = 0
        /\ Counts(ve[1], ve[2]) => Row(ve[1], ve[2])
    BY <2>1, CellsPaid
  <2> QED
    BY <2>1, <2>2 DEF EarnedIn, Counts, OwnedBy, VideoEpochs
<1>3. Earned(u) = SumOver(w, T)
  <2>1. \A ve \in T : w[ve] = EarnedIn(ve[1], ve[2])
    BY <1>1, <1>2
  <2>2. MapThenSumSet(LAMBDA ve : EarnedIn(ve[1], ve[2]), T) = SumOver(w, T)
    <3> HIDE DEF T, w
    <3>1. \A s \in SUBSET T : s # {} =>
            w[CHOOSE x \in s : TRUE]
              = EarnedIn((CHOOSE x \in s : TRUE)[1], (CHOOSE x \in s : TRUE)[2])
      BY <2>1
    <3>2. ASSUME NEW g
          PROVE  IsSum(g, w, T) <=>
                   g = [s \in SUBSET T |-> IF s = {} THEN 0
                          ELSE EarnedIn((CHOOSE x \in s : TRUE)[1], (CHOOSE x \in s : TRUE)[2])
                                 + g[s \ {CHOOSE x \in s : TRUE}]]
      BY <3>1 DEF IsSum, Chosen
    <3> QED
      BY <3>2, SumOverIs DEF MapThenSumSet, MapThenFoldSet
  <2>3. Earned(u) = MapThenSumSet(LAMBDA ve : EarnedIn(ve[1], ve[2]), T)
    BY DEF Earned, EarnedIn
  <2> QED
    BY <2>2, <2>3
<1> HIDE DEF T
<1>4. Naturals(w, S) /\ IsFiniteSet(S)
  BY SitePaidType
<1>5. OwnedBy(u) \in SUBSET S
  BY DEF OwnedBy
<1>6. [ve \in S |-> IF ve \in T THEN w[ve] ELSE 0]
        = [ve \in S |-> IF ve \in OwnedBy(u) THEN w[ve] ELSE 0]
  <2>1. \A ve \in S : (IF ve \in T THEN w[ve] ELSE 0)
                        = IF ve \in OwnedBy(u) THEN w[ve] ELSE 0
    <3> HIDE DEF w, S
    <3> QED
      BY <1>2
  <2> QED
    BY <2>1
<1>7. SumOver(w, T) = SumOver(w, OwnedBy(u))
  <2> HIDE DEF w, S
  <2>1. SumOver(w, T) = SumOver([ve \in S |-> IF ve \in T THEN w[ve] ELSE 0], S)
    BY <1>1, <1>4, SumOfPart
  <2>2. SumOver(w, OwnedBy(u))
          = SumOver([ve \in S |-> IF ve \in OwnedBy(u) THEN w[ve] ELSE 0], S)
    BY <1>4, <1>5, SumOfPart
  <2> QED
    BY <1>6, <2>1, <2>2
<1> QED
  BY <1>3, <1>7

LEMMA EarnedAddsUp ==
    ASSUME SiteInv
    PROVE  MapThenSumSet(Earned, User) = SumOver(SitePaidAt, VideoEpochs)
<1> DEFINE w == SitePaidAt
           S == VideoEpochs
           z == [k \in User \cup {Nobody} |-> SumOver(w, {ve \in S : clip[ve[1]].owner = k})]
           key == [ve \in S |-> clip[ve[1]].owner]
<1>1. TypeOK /\ Naturals(w, S) /\ IsFiniteSet(S)
  BY SiteRecords, SitePaidType
<1>2. \A u \in User : z[u] = Earned(u)
  BY EarnedIs DEF OwnedBy
<1>3. MapThenSumSet(Earned, User) = SumOver(z, User)
  <2> HIDE DEF z
  <2>1. \A s \in SUBSET User : s # {} =>
          z[CHOOSE x \in s : TRUE] = Earned(CHOOSE x \in s : TRUE)
    BY <1>2
  <2>2. ASSUME NEW g
        PROVE  IsSum(g, z, User) <=>
                 g = [s \in SUBSET User |-> IF s = {} THEN 0
                        ELSE Earned(CHOOSE x \in s : TRUE) + g[s \ {CHOOSE x \in s : TRUE}]]
    BY <2>1 DEF IsSum, Chosen
  <2> QED
    BY <2>2, SumOverIs DEF MapThenSumSet, MapThenFoldSet
<1>4. z[Nobody] = 0
  <2> DEFINE N == {ve \in S : clip[ve[1]].owner = Nobody}
  <2>1. \A ve \in N : w[ve] = 0
    <3> SUFFICES ASSUME NEW ve \in N PROVE w[ve] = 0
      OBVIOUS
    <3>1. ve[1] \in Video /\ ve[2] \in Epoch /\ ve = <<ve[1], ve[2]>>
      BY DEF VideoEpochs
    <3>2. ~Counts(ve[1], ve[2])
      BY <3>1, CellsPaid, CampaignAssumption
    <3> QED
      BY <3>1, <3>2, CellsPaid
  <2>2. N \in SUBSET S /\ IsFiniteSet(N)
    BY <1>1, FS_Subset
  <2>3. SumOver(w, N) = 0
    <3> HIDE DEF N, w
    <3> QED
      BY <2>1, <2>2, SumZeros
  <2> QED
    BY <2>3
<1>5. \A ve \in S : key[ve] \in User \cup {Nobody}
  BY <1>1 DEF TypeOK, Clip, VideoEpochs
<1>6. IsFiniteSet(User \cup {Nobody})
  BY CampaignAssumption, FS_AddElement
<1>7. SumOver(w, S) = SumOver(z, User \cup {Nobody})
  <2>1. SumOver(w, S) = SumOver([k \in User \cup {Nobody} |->
                                   SumOver(w, {ve \in S : key[ve] = k})], User \cup {Nobody})
    <3> HIDE DEF w, key, S
    <3> QED
      BY <1>1, <1>5, <1>6, SumGroups
  <2>2. \A k : {ve \in S : key[ve] = k} = {ve \in S : clip[ve[1]].owner = k}
    OBVIOUS
  <2> QED
    BY <2>1, <2>2
<1>8. Naturals(z, User \cup {Nobody})
  <2> SUFFICES ASSUME NEW k \in User \cup {Nobody}
               PROVE  SumOver(w, {ve \in S : clip[ve[1]].owner = k}) \in Nat
    BY DEF Naturals
  <2> DEFINE P == {ve \in S : clip[ve[1]].owner = k}
  <2>1. P \in SUBSET S /\ IsFiniteSet(P)
    BY <1>1, FS_Subset
  <2>2. Naturals(w, P)
    BY <1>1, <2>1 DEF Naturals
  <2> QED
    BY <2>1, <2>2, SumType
<1> HIDE DEF z, w, S
<1>9. SumOver(z, User \cup {Nobody}) = SumOver(z, User) + z[Nobody]
  BY <1>8, CampaignAssumption, SumAdd
<1>10. SumOver(z, User) \in Nat
  BY <1>8, CampaignAssumption, SumType DEF Naturals
<1> QED
  BY <1>3, <1>4, <1>7, <1>9, <1>10 DEF w, S

LEMMA EarnedPaid ==
    ASSUME SiteInv
    PROVE  EarnedIsPaid
<1>1. campaign.balance >= 0
  BY SiteRecords DEF SiteInv, TypeOK, CampaignRecord
<1>2. SumOver(SitePaidAt, VideoEpochs) \in Nat
  BY SitePaidType, SumType
<1>3. campaign.balance \in Int
  BY SiteRecords DEF TypeOK, CampaignRecord
<1> QED
  BY <1>1, <1>2, <1>3, EarnedAddsUp, SitePaidType DEF EarnedIsPaid

-----------------------------------------------------------------------------
(***************************************************************************)
(* An offered amount stands until it is taken.                             *)
(***************************************************************************)
LEMMA MockTime ==
    ASSUME MockTypes, [MockNext]_vars
    PROVE  now' >= now
<1>1. now \in Nat
  BY CampaignAssumption DEF MockTypes
<1>2. CASE Tick
  BY <1>1, <1>2 DEF Tick
<1>3. CASE now' = now
  BY <1>1, <1>3
<1>4. ASSUME NEW v \in Video, NEW e \in Epoch, NEW w \in BOOLEAN, MockClose(v, e, w)
      PROVE  now' = now
  BY <1>4 DEF MockClose
<1>5. ASSUME NEW v \in Video, NEW e \in Epoch, NEW n \in MockViews, MockSubmit(v, e, n)
      PROVE  now' = now
  BY <1>5 DEF MockSubmit
<1> QED
  BY <1>1, <1>2, <1>3, <1>4, <1>5 DEF vars, MockNext, MockJoin, MockRegister, MockSettle,
     MockClaim, MockClaimHoldback, MockRefund, MockChallenge, MockRespond, MockResolve,
     MockFinalize

LEMMA MockMoves ==
    ASSUME MockInv, [MockNext]_vars
    PROVE  MockStep
<1>1. CASE MockNext
  BY <1>1, MockNextSteps, MockSolvent DEF MockInv
<1>2. CASE UNCHANGED vars
  BY <1>2, MockStutters DEF MockInv, MockStep, MockKeeps, vars
<1> QED
  BY <1>1, <1>2

\* A flag of the mock is only set by its own claim, and stays.
LEMMA MockFlagMoves ==
    ASSUME MockInv, [MockNext]_vars, NEW v \in Video, NEW e \in Epoch
    PROVE  LET c == clipEpoch[v][e]
               d == clipEpoch'[v][e]
           IN  /\ d.claimed /\ ~c.claimed => MockClaim(v, e)
               /\ d.holdbackClaimed /\ ~c.holdbackClaimed => MockClaimHoldback(v, e)
               /\ c.claimed => d.claimed
<1>1. MockRecords /\ TypeOK
  BY MockSolvent DEF MockInv
<1>2. CASE SameFlags(v, e)
  BY <1>2 DEF SameFlags
<1>3. ASSUME NEW w \in Video, NEW k \in Epoch, MockClaim(w, k) \/ MockClaimHoldback(w, k),
             ~SameFlags(v, e)
      PROVE  LET c == clipEpoch[v][e]
                 d == clipEpoch'[v][e]
             IN  /\ d.claimed /\ ~c.claimed => MockClaim(v, e)
                 /\ d.holdbackClaimed /\ ~c.holdbackClaimed => MockClaimHoldback(v, e)
                 /\ c.claimed => d.claimed
  <2>1. clipEpoch \in [Video -> [Epoch -> ClipEpoch]]
    BY <1>1 DEF TypeOK
  <2>2. CASE MockClaim(w, k)
    <3>1. clipEpoch' = [clipEpoch EXCEPT ![w][k].claimed = TRUE]
      BY <2>2 DEF MockClaim
    <3>2. v = w /\ e = k
      BY <1>3, <2>1, <3>1 DEF SameFlags
    <3>3. clipEpoch'[v][e].holdbackClaimed = clipEpoch[v][e].holdbackClaimed
          /\ clipEpoch'[v][e].claimed
      BY <2>1, <3>1, <3>2 DEF ClipEpoch
    <3> QED
      BY <2>2, <3>2, <3>3
  <2>3. CASE MockClaimHoldback(w, k)
    <3>1. clipEpoch' = [clipEpoch EXCEPT ![w][k].holdbackClaimed = TRUE]
      BY <2>3 DEF MockClaimHoldback
    <3>2. v = w /\ e = k
      BY <1>3, <2>1, <3>1 DEF SameFlags
    <3>3. clipEpoch'[v][e].claimed = clipEpoch[v][e].claimed
      BY <2>1, <3>1, <3>2 DEF ClipEpoch
    <3> QED
      BY <2>3, <3>2, <3>3
  <2> QED
    BY <1>3, <2>2, <2>3
<1>4. CASE MockNext
  <2>1. \/ MockQuiet
        \/ MockRefund
        \/ \E w \in Video, k \in Epoch : MockClaim(w, k) \/ MockClaimHoldback(w, k)
    BY <1>1, <1>4, MockNextSteps
  <2>2. MockQuiet => SameFlags(v, e)
    BY DEF MockQuiet
  <2>3. MockRefund => SameFlags(v, e)
    BY <1>1, MockRefundSteps
  <2> QED
    BY <1>2, <1>3, <2>1, <2>2, <2>3
<1>5. CASE UNCHANGED vars
  BY <1>2, <1>5 DEF vars, SameFlags
<1> QED
  BY <1>4, <1>5

\* What the cells of a settled epoch are computed from, over both APIs.
Stays(v, e) ==
    /\ epoch'[e].settled
    /\ epoch'[e].rate = epoch[e].rate
    /\ epoch'[e].heldTotal = epoch[e].heldTotal
    /\ \A u \in User : partEpoch'[u][e] = partEpoch[u][e]
    /\ clip'[v].owner = clip[v].owner
    /\ clip'[v].firstEpoch = clip[v].firstEpoch
    /\ clipEpoch'[v][e].status = clipEpoch[v][e].status
    /\ clipEpoch'[v][e].weight = clipEpoch[v][e].weight
    /\ HoldbackReleaseEnd(e) <= now =>
         /\ clipEpoch'[v][e].alive = clipEpoch[v][e].alive
         /\ SurvivedRead(e)' = SurvivedRead(e)

LEMMA SiteStep ==
    ASSUME SiteInv, [SiteNext]_siteVars
    PROVE  /\ api' = api
           /\ api = "chain" => ChainInv /\ ChainInv' /\ [Next]_vars
           /\ api = "mock" => MockInv /\ MockInv' /\ [MockNext]_vars
           /\ now' >= now /\ now \in Nat /\ now' \in Nat
<1>1. api' = api
  BY DEF siteVars, SiteNext
<1>2. api = "chain" => ChainInv /\ ChainInv' /\ [Next]_vars
  BY <1>1, SiteInvKept DEF SiteInv, siteVars, SiteNext
<1>3. api = "mock" => MockInv /\ MockInv' /\ [MockNext]_vars
  BY <1>1, SiteInvKept DEF SiteInv, siteVars, SiteNext
<1>4. CASE api = "chain"
  <2>1. IInv /\ [Next]_vars
    BY <1>2, <1>4 DEF ChainInv
  <2> QED
    BY <1>1, <1>2, <1>4, <2>1, TimeAdvances
<1>5. CASE api = "mock"
  <2>1. MockTypes /\ MockTypes' /\ [MockNext]_vars
    BY <1>3, <1>5 DEF MockInv, MockRecords
  <2>2. now \in Nat /\ now' \in Nat
    BY <2>1, CampaignAssumption DEF MockTypes
  <2> QED
    BY <1>1, <1>3, <1>5, <2>1, <2>2, MockTime
<1> QED
  BY <1>4, <1>5 DEF SiteInv

LEMMA SiteStays ==
    ASSUME SiteInv, [SiteNext]_siteVars, NEW v \in Video, NEW e \in Epoch,
           epoch[e].settled, Counts(v, e)
    PROVE  Stays(v, e)
<1>1. TypeOK /\ clip[v].owner # Nobody
  BY SiteRecords DEF EntriesBelong, Counts
<1>2. CASE api = "chain"
  <2>1. IInv /\ RInv /\ IInv' /\ RInv' /\ [Next]_vars /\ api' = "chain"
    BY <1>2, SiteStep DEF ChainInv
  <2>2. /\ epoch'[e].settled
        /\ epoch'[e].rate = epoch[e].rate
        /\ epoch'[e].heldTotal = epoch[e].heldTotal
        /\ \A u \in User : partEpoch'[u][e] = partEpoch[u][e]
        /\ clipEpoch'[v][e].status = clipEpoch[v][e].status
        /\ clipEpoch'[v][e].weight = clipEpoch[v][e].weight
    BY <2>1, Frozen
  <2>3. clip'[v].owner = clip[v].owner /\ clip'[v].firstEpoch = clip[v].firstEpoch
    <3>1. CASE clip'[v] = clip[v]
      BY <3>1
    <3>2. CASE Registered(v)
      BY <1>1, <3>2 DEF Registered
    <3>3. ASSUME NEW n, clip'[v] = [clip[v] EXCEPT !.hwm = n]
          PROVE  clip'[v].owner = clip[v].owner /\ clip'[v].firstEpoch = clip[v].firstEpoch
      BY <1>1, <3>3 DEF TypeOK, Clip
    <3> QED
      BY <2>1, <3>1, <3>2, <3>3, ClipChanges
  <2>4. HoldbackReleaseEnd(e) <= now =>
          /\ epoch'[e].heldSurvived = epoch[e].heldSurvived
          /\ clipEpoch'[v][e].alive = clipEpoch[v][e].alive
    BY <2>1, SurvivorsFinal
  <2>5. SurvivedRead(e) = epoch[e].heldSurvived /\ SurvivedRead(e)' = epoch'[e].heldSurvived
    BY <1>2, <2>1 DEF SurvivedRead
  <2> QED
    BY <2>2, <2>3, <2>4, <2>5 DEF Stays
<1>3. CASE api = "mock"
  <2>1. MockInv /\ MockInv' /\ [MockNext]_vars /\ api' = "mock"
    BY <1>3, SiteStep
  <2>2. MockKeeps(e)
    BY <2>1, MockMoves DEF MockStep
  <2>3. /\ epoch'[e] = epoch[e]
        /\ \A u \in User : partEpoch'[u][e] = partEpoch[u][e]
        /\ clip'[v].owner = clip[v].owner
        /\ clip'[v].firstEpoch = clip[v].firstEpoch
        /\ clipEpoch'[v][e].status = clipEpoch[v][e].status
        /\ clipEpoch'[v][e].weight = clipEpoch[v][e].weight
    BY <2>2 DEF MockKeeps, Counts
  <2>4. HoldbackReleaseEnd(e) <= now =>
          /\ clipEpoch'[v][e].alive = clipEpoch[v][e].alive
          /\ MockSurvived(e)' = MockSurvived(e)
    BY <2>1, <2>2, MockShareStays DEF MockInv, MockRecords
  <2>5. SurvivedRead(e) = MockSurvived(e) /\ SurvivedRead(e)' = MockSurvived(e)'
    BY <1>3, <2>1 DEF SurvivedRead
  <2> QED
    BY <2>3, <2>4, <2>5 DEF Stays
<1> QED
  BY <1>2, <1>3 DEF SiteInv

\* Paying a flag's amount is the only way to set it.
LEMMA SiteTakes ==
    ASSUME SiteInv, [SiteNext]_siteVars, NEW v \in Video, NEW e \in Epoch,
           epoch[e].settled, Counts(v, e)
    PROVE  LET c == clipEpoch[v][e]
               d == clipEpoch'[v][e]
               moved == campaign.balance - campaign'.balance
           IN  /\ d.claimed /\ ~c.claimed => moved = CellImmediate(v, e)
               /\ d.holdbackClaimed /\ ~c.holdbackClaimed => moved = CellHoldback(v, e)
               /\ c.claimed => d.claimed
<1> DEFINE c == clipEpoch[v][e]
           d == clipEpoch'[v][e]
<1>1. CellImmediate(v, e) = Immediate(v, e) /\ MockNow(v, e) = Immediate(v, e)
  BY CellsArePays
<1>2. TypeOK /\ campaign.balance \in Int
  BY SiteRecords DEF TypeOK, CampaignRecord
<1>3. CASE api = "chain"
  <2>1. IInv /\ RInv /\ Computed /\ Accounted /\ [Next]_vars
    BY <1>3, SiteStep DEF ChainInv, MInv
  <2>2. ASSUME d.claimed, ~c.claimed
        PROVE  campaign.balance - campaign'.balance = CellImmediate(v, e)
    <3>1. Claim(v, e)
      BY <2>1, <2>2, FlagsChange
    <3>2. /\ Immediate(v, e) \in Nat
          /\ campaign'.balance = campaign.balance - Immediate(v, e)
      BY <2>1, <3>1, ClaimPays
    <3> QED
      BY <1>1, <1>2, <3>2
  <2>3. ASSUME d.holdbackClaimed, ~c.holdbackClaimed
        PROVE  campaign.balance - campaign'.balance = CellHoldback(v, e)
    <3>1. ClaimHoldback(v, e)
      BY <2>1, <2>3, FlagsChange
    <3>2. /\ Share(v, e) \in Nat
          /\ campaign'.balance = campaign.balance - Share(v, e)
      BY <2>1, <3>1, ClaimPays
    <3>3. c.alive /\ epoch[e].heldSurvived # 0
      BY <3>1 DEF ClaimHoldback
    <3>4. CellHoldback(v, e) = Share(v, e)
      BY <1>3, <3>3, CellSharesAre
    <3> QED
      BY <1>2, <3>2, <3>4
  <2>4. c.claimed => d.claimed
    <3>1. CASE Claim(v, e)
      BY <3>1 DEF Claim, CanClaim
    <3>2. CASE ClaimHoldback(v, e)
      <4>1. clipEpoch' = [clipEpoch EXCEPT ![v][e].holdbackClaimed = TRUE]
        BY <3>2 DEF ClaimHoldback
      <4> QED
        BY <1>2, <4>1 DEF TypeOK, ClipEpoch
    <3>3. CASE ~Claim(v, e) /\ ~ClaimHoldback(v, e)
      BY <2>1, <3>3, FlagsStay DEF SameFlags
    <3> QED
      BY <3>1, <3>2, <3>3
  <2> QED
    BY <2>2, <2>3, <2>4
<1>4. CASE api = "mock"
  <2>1. MockInv /\ [MockNext]_vars /\ MockRecords
    BY <1>4, SiteStep DEF MockInv
  <2>2. ASSUME d.claimed, ~c.claimed
        PROVE  campaign.balance - campaign'.balance = CellImmediate(v, e)
    <3>1. MockClaim(v, e)
      BY <2>1, <2>2, MockFlagMoves
    <3>2. /\ MockNow(v, e) \in Nat
          /\ campaign'.balance = campaign.balance - MockNow(v, e)
      BY <1>2, <2>1, <3>1, MockClaimPays
    <3> QED
      BY <1>1, <1>2, <3>2
  <2>3. ASSUME d.holdbackClaimed, ~c.holdbackClaimed
        PROVE  campaign.balance - campaign'.balance = CellHoldback(v, e)
    <3>1. MockClaimHoldback(v, e)
      BY <2>1, <2>3, MockFlagMoves
    <3>2. /\ MockShare(v, e) \in Nat
          /\ campaign'.balance = campaign.balance - MockShare(v, e)
      BY <1>2, <2>1, <3>1, MockClaimPays
    <3>3. c.alive
      BY <3>1 DEF MockClaimHoldback
    <3>4. CellHoldback(v, e) = MockShare(v, e)
      BY <1>4, <3>3, CellSharesAre
    <3> QED
      BY <1>2, <3>2, <3>4
  <2>4. c.claimed => d.claimed
    BY <2>1, MockFlagMoves
  <2> QED
    BY <2>2, <2>3, <2>4
<1> QED
  BY <1>3, <1>4 DEF SiteInv

\* The cells of a settled epoch in terms of the records, in a form that also
\* speaks of the state after a step.
CellsShown ==
    \A v \in Video, e \in Epoch :
      epoch[e].settled /\ Counts(v, e) =>
        /\ Row(v, e)
        /\ CellPay(v, e) = Pay(v, e)
        /\ CellHeld(v, e) = HeldOf(e, Pay(v, e))
        /\ CellHoldback(v, e) =
             IF clipEpoch[v][e].alive /\ SurvivedRead(e) # 0
             THEN ShareOf(HeldOf(e, Pay(v, e)), epoch[e].heldTotal, SurvivedRead(e))
             ELSE 0

LEMMA CellsAreShown == SiteInv => CellsShown
<1> SUFFICES ASSUME SiteInv, NEW v \in Video, NEW e \in Epoch,
                    epoch[e].settled, Counts(v, e)
             PROVE  /\ Row(v, e)
                    /\ CellPay(v, e) = Pay(v, e)
                    /\ CellHeld(v, e) = HeldOf(e, Pay(v, e))
                    /\ CellHoldback(v, e) =
                         IF clipEpoch[v][e].alive /\ SurvivedRead(e) # 0
                         THEN ShareOf(HeldOf(e, Pay(v, e)), epoch[e].heldTotal,
                                      SurvivedRead(e))
                         ELSE 0
  BY DEF CellsShown
<1>1. Row(v, e) /\ CellPay(v, e) = Pay(v, e) /\ CellHeld(v, e) = HeldOf(e, Pay(v, e))
  BY CellsArePays
<1>2. Estimate(e).heldTotal = epoch[e].heldTotal
  BY DEF Estimate
<1> QED
  BY <1>1, <1>2 DEF CellHoldback

LEMMA CellsStay ==
    ASSUME SiteInv, [SiteNext]_siteVars, NEW v \in Video, NEW e \in Epoch,
           epoch[e].settled, Counts(v, e)
    PROVE  /\ Row(v, e)'
           /\ CellPay(v, e)' = CellPay(v, e)
           /\ CellHeld(v, e)' = CellHeld(v, e)
           /\ HoldbackReleaseEnd(e) <= now =>
                CellHoldback(v, e)' = CellHoldback(v, e)
<1>1. Stays(v, e)
  BY SiteStays
<1>2. clip[v].owner \in User
  BY CellsArePays
<1>3. Pay(v, e)' = Pay(v, e)
  BY <1>1, <1>2 DEF Stays, Pay
<1>4. CellsShown
  BY CellsAreShown
<1>5. CellsShown'
  <2>1. SiteInv'
    BY SiteInvKept
  <2>2. SiteInv' => CellsShown'
    BY CellsAreShown, PTL
  <2> QED
    BY <2>1, <2>2
<1>6. epoch'[e].settled /\ Counts(v, e)'
  BY <1>1 DEF Stays, Counts
<1>7. /\ CellPay(v, e) = Pay(v, e)
      /\ CellHeld(v, e) = HeldOf(e, Pay(v, e))
      /\ CellHoldback(v, e) =
           IF clipEpoch[v][e].alive /\ SurvivedRead(e) # 0
           THEN ShareOf(HeldOf(e, Pay(v, e)), epoch[e].heldTotal, SurvivedRead(e))
           ELSE 0
  BY <1>4 DEF CellsShown
<1>8. /\ Row(v, e)'
      /\ CellPay(v, e)' = Pay(v, e)'
      /\ CellHeld(v, e)' = HeldOf(e, Pay(v, e)')
      /\ CellHoldback(v, e)' =
           IF clipEpoch'[v][e].alive /\ SurvivedRead(e)' # 0
           THEN ShareOf(HeldOf(e, Pay(v, e)'), epoch'[e].heldTotal, SurvivedRead(e)')
           ELSE 0
  BY <1>5, <1>6 DEF CellsShown
<1>9. HoldbackReleaseEnd(e) <= now =>
        /\ clipEpoch'[v][e].alive = clipEpoch[v][e].alive
        /\ SurvivedRead(e)' = SurvivedRead(e)
  BY <1>1 DEF Stays
<1>10. epoch'[e].heldTotal = epoch[e].heldTotal
  BY <1>1 DEF Stays
<1> QED
  BY <1>3, <1>7, <1>8, <1>9, <1>10

\* A settled epoch's proof window is over for good.
LEMMA ProofsOver ==
    ASSUME SiteInv, [SiteNext]_siteVars, NEW e \in Epoch, epoch[e].settled
    PROVE  ~ProofOpen(e)'
<1>1. SettleAt(e) <= now
  BY SiteRecords DEF SettledWhenDue
<1>2. e \in Nat
  BY EpochType
<1>3. ProofEnd(e) <= SettleAt(e) /\ ProofEnd(e) \in Nat /\ SettleAt(e) \in Nat
  BY <1>2, PhasesInOrder, TimelineType
<1>4. now' >= now /\ now \in Nat /\ now' \in Nat
  BY SiteStep
<1>5. ~(now' < ProofEnd(e))
  BY <1>1, <1>3, <1>4
<1> QED
  BY <1>5 DEF ProofOpen, ProofEnd, ContentEnd

LEMMA ClaimStands ==
    ASSUME SiteInv, [SiteNext]_siteVars, NEW v \in Video, NEW e \in Epoch,
           OffersClaim(v, e)
    PROVE  \/ /\ clipEpoch'[v][e].claimed
              /\ campaign.balance - campaign'.balance = CellImmediate(v, e)
           \/ OffersClaim(v, e)' /\ CellPay(v, e)' = CellPay(v, e)
           \/ now' >= RefundAt
<1>1. /\ epoch[e].settled /\ clipEpoch[v][e].status = "Active"
      /\ ~clipEpoch[v][e].claimed /\ CellPay(v, e) # 0
  BY DEF OffersClaim, Payable
<1>2. Counts(v, e)
  BY <1>1 DEF Counts
<1>3. CASE clipEpoch'[v][e].claimed
  BY <1>1, <1>2, <1>3, SiteTakes
<1>4. CASE ~clipEpoch'[v][e].claimed /\ now' < RefundAt
  <2>1. Row(v, e)' /\ CellPay(v, e)' = CellPay(v, e)
    BY <1>1, <1>2, CellsStay
  <2>2. ~ProofOpen(e)'
    BY <1>1, ProofsOver
  <2>3. epoch'[e].settled /\ clipEpoch'[v][e].status = "Active"
    BY <1>1, <1>2, SiteStays DEF Stays
  <2>4. Payable(v, e)'
    BY <2>1, <2>2, <2>3 DEF Payable
  <2>5. OffersClaim(v, e)'
    BY <1>1, <1>4, <2>1, <2>4 DEF OffersClaim, RefundAt, SettleAt, DisputeEnd, ProofEnd,
       ContentEnd
  <2> QED
    BY <2>1, <2>5
<1>5. now' \in Nat /\ RefundAt \in Nat
  BY SiteStep, TimelineAssumption, TimelineType, EpochType DEF RefundAt
<1> QED
  BY <1>3, <1>4, <1>5

LEMMA HoldbackStands ==
    ASSUME SiteInv, [SiteNext]_siteVars, NEW v \in Video, NEW e \in Epoch,
           OffersHoldback(v, e)
    PROVE  \/ /\ clipEpoch'[v][e].holdbackClaimed
              /\ campaign.balance - campaign'.balance = CellHoldback(v, e)
           \/ OffersHoldback(v, e)' /\ CellHoldback(v, e)' = CellHoldback(v, e)
           \/ now' >= RefundAt
<1>1. /\ epoch[e].settled /\ clipEpoch[v][e].status = "Active"
      /\ clipEpoch[v][e].claimed /\ ~clipEpoch[v][e].holdbackClaimed
      /\ CellHeld(v, e) # 0 /\ e < Last /\ clipEpoch[v][e].alive
      /\ CellHoldback(v, e) # 0 /\ HoldbackReleaseEnd(e) <= now
  BY DEF OffersHoldback, Payable
<1>2. Counts(v, e)
  BY <1>1 DEF Counts
<1>3. CASE clipEpoch'[v][e].holdbackClaimed
  BY <1>1, <1>2, <1>3, SiteTakes
<1>4. now' \in Nat /\ now \in Nat /\ now' >= now /\ RefundAt \in Nat
  BY SiteStep, TimelineAssumption, TimelineType, EpochType DEF RefundAt
<1>5. CASE ~clipEpoch'[v][e].holdbackClaimed /\ now' < RefundAt
  <2>1. /\ Row(v, e)' /\ CellHeld(v, e)' = CellHeld(v, e)
        /\ CellHoldback(v, e)' = CellHoldback(v, e)
    BY <1>1, <1>2, CellsStay
  <2>2. ~ProofOpen(e)'
    BY <1>1, ProofsOver
  <2>3. /\ epoch'[e].settled /\ clipEpoch'[v][e].status = "Active"
        /\ clipEpoch'[v][e].alive
    BY <1>1, <1>2, SiteStays DEF Stays
  <2>4. Payable(v, e)'
    BY <2>1, <2>2, <2>3 DEF Payable
  <2>5. clipEpoch'[v][e].claimed
    BY <1>1, <1>2, SiteTakes
  <2>6. HoldbackReleaseEnd(e) <= now'
    <3>1. HoldbackReleaseEnd(e) \in Nat
      <4>1. e + 1 \in Nat
        BY EpochType
      <4> QED
        BY <4>1, TimelineType DEF HoldbackReleaseEnd
    <3> QED
      BY <1>1, <1>4, <3>1
  <2>7. OffersHoldback(v, e)'
    BY <1>1, <1>5, <2>1, <2>3, <2>4, <2>5, <2>6 DEF OffersHoldback, RefundAt, SettleAt,
       DisputeEnd, ProofEnd, ContentEnd, HoldbackReleaseEnd, Last
  <2> QED
    BY <2>1, <2>7
<1> QED
  BY <1>3, <1>4, <1>5

-----------------------------------------------------------------------------
(***************************************************************************)
(* An epoch settles at the figures shown for it.                           *)
(***************************************************************************)
\* A settlement alters no weight of the epoch it settles.
LEMMA WeightsSettle ==
    ASSUME IInv, [Next]_vars, IInv', NEW e \in Epoch, ~epoch[e].settled, epoch'[e].settled
    PROVE  epoch'[e].totalWeight = epoch[e].totalWeight
<1>1. EpochsOK(epoch)
  BY DEF IInv, TypeOK, SpentBounded, EpochsOK
<1>2. CASE SettleEpoch(e)
  <2>1. epoch' = Settled(epoch, e)
    BY <1>2 DEF SettleEpoch
  <2> QED
    BY <1>1, <2>1, SettledOK DEF SameWork
<1>3. ASSUME NEW f \in Epoch, NEW p \in Proof, SubmitProof(f, p), e < f
      PROVE  epoch'[e].totalWeight = epoch[e].totalWeight
  <2> DEFINE es == SettledBefore(f)
  <2>1. es[e] \in EpochState /\ es[e].totalWeight = epoch[e].totalWeight
    BY SettledBeforeOK DEF ChainOK, EpochsOK, SameWork
  <2>2. e # f
    BY <1>3, EpochType
  <2> HIDE DEF es
  <2>3. epoch'[e] = IF e = f - 1 /\ Revives(p.video, e)
                    THEN [es[e] EXCEPT !.heldSurvived = @ + Held(p.video, e, es[e].rate)]
                    ELSE es[e]
    BY <1>3, <2>2 DEF SubmitProof, es
  <2> QED
    BY <2>1, <2>3 DEF EpochState
<1> QED
  BY <1>2, <1>3, SettlesNow

LEMMA EstimateHolds ==
    ASSUME SiteInv, [SiteNext]_siteVars, NEW e \in Epoch,
           ~epoch[e].settled, epoch'[e].settled, e > 0 => epoch[e - 1].settled
    PROVE  LET shown == Estimate(e)
           IN  /\ epoch'[e].budget = shown.budget
               /\ epoch'[e].rate = shown.rate
               /\ epoch'[e].spent <= shown.spent
               /\ api = "chain" => /\ epoch'[e].spent = shown.spent
                                   /\ epoch'[e].heldTotal = shown.heldTotal
<1> DEFINE budget == BaseBudget(e) + CarryShown(e)
           rate == RateFor(budget, epoch[e].totalWeight)
           spent == SpentAt(rate, epoch[e].totalWeight)
<1>1. e \in Nat /\ (e > 0 => e - 1 \in Epoch) /\ epoch \in [Epoch -> EpochState]
  BY EpochType, TimelineAssumption, SiteRecords DEF Epoch, TypeOK
<1>2. Estimate(e) = [budget |-> budget, rate |-> rate, spent |-> spent,
                     heldTotal |-> HeldTotalOf(e, spent)]
  BY DEF Estimate
<1>3. CarryShown(e) = CarryIn(epoch, e)
  BY <1>1 DEF CarryShown, CarryIn
<1>4. CASE api = "chain"
  <2>1. IInv /\ IInv' /\ Computed /\ [Next]_vars
    BY <1>4, SiteStep DEF ChainInv, MInv
  <2>2. AsComputed(epoch', e)
    <3>1. Computed'
      BY <2>1, ComputedKept
    <3> QED
      BY <3>1 DEF Computed, AsComputed, CarryIn
  <2>3. CarryIn(epoch', e) = CarryIn(epoch, e)
    <3>1. e > 0 => /\ epoch'[e - 1].settled
                   /\ epoch'[e - 1].budget = epoch[e - 1].budget
                   /\ epoch'[e - 1].spent = epoch[e - 1].spent
      BY <1>1, <2>1, Frozen
    <3> QED
      BY <1>1, <3>1 DEF CarryIn
  <2>4. epoch'[e].totalWeight = epoch[e].totalWeight
    BY <2>1, WeightsSettle
  <2>5. /\ epoch'[e].budget = budget /\ epoch'[e].rate = rate /\ epoch'[e].spent = spent
        /\ epoch'[e].heldTotal = HeldTotalOf(e, spent)
    BY <1>3, <2>2, <2>3, <2>4 DEF AsComputed
  <2>6. epoch'[e].spent \in Nat
    BY <2>1 DEF IInv, TypeOK, EpochState
  <2> QED
    BY <1>2, <2>5, <2>6
<1>5. CASE api = "mock"
  <2>1. MockInv /\ MockInv' /\ [MockNext]_vars /\ MockRecords /\ MockRecords' /\ TypeOK
    BY <1>5, SiteStep, SiteRecords DEF MockInv
  <2>2. MockNext
    BY <2>1 DEF vars
  <2>3. MockSettle(e)
    BY <2>1, <2>2, MockSettlesNow
  <2>4. /\ \E b, r \in Nat :
             /\ b = BaseBudget(e) + CarryIn(epoch, e)
             /\ r = RateFor(b, epoch[e].totalWeight)
             /\ epoch'[e] = [epoch[e] EXCEPT
                   !.settled = TRUE, !.budget = b, !.rate = r,
                   !.spent = SumOver(MockPaysAt(r, e), Video),
                   !.heldTotal = SumOver([v \in Video |->
                                            HeldOf(e, MockPayAt(r, v, e))], Video)]
        /\ SumOver(MockPaysAt(epoch'[e].rate, e), Video)
             <= SpentAt(epoch'[e].rate, epoch[e].totalWeight)
    BY <2>1, <2>3, MockSettleSteps
  <2>5. /\ epoch'[e].budget = budget /\ epoch'[e].rate = rate
        /\ epoch'[e].spent = SumOver(MockPaysAt(rate, e), Video)
    BY <1>1, <1>3, <2>4 DEF EpochState
  <2>6. epoch'[e].spent <= spent
    BY <2>4, <2>5
  <2> QED
    BY <1>2, <1>5, <2>5, <2>6
<1> QED
  BY <1>4, <1>5 DEF SiteInv

-----------------------------------------------------------------------------
(***************************************************************************)
(* The timeline highlights the phase of an enabled button.                 *)
(***************************************************************************)
DisputesDated ==
    \A v \in Video, e \in Epoch : dispute[v][e].status # "None" => ProofEnd(e) <= now

\* Disputes are opened in their window, and time does not go back.
LEMMA DatesKept ==
    ASSUME SiteInv, [SiteNext]_siteVars, DisputesDated
    PROVE  DisputesDated'
<1>1. /\ now' >= now /\ now \in Nat /\ now' \in Nat
      /\ dispute \in [Video -> [Epoch -> Dispute]]
  BY SiteStep, SiteRecords DEF TypeOK
<1>2. SUFFICES ASSUME NEW v \in Video, NEW e \in Epoch,
                      dispute[v][e].status = "None", dispute'[v][e].status # "None"
               PROVE  ProofEnd(e) <= now
  <2> SUFFICES ASSUME NEW v \in Video, NEW e \in Epoch, dispute'[v][e].status # "None"
               PROVE  ProofEnd(e) <= now'
    BY DEF DisputesDated, ProofEnd, ContentEnd
  <2>1. ProofEnd(e) \in Nat
    BY TimelineType, EpochType
  <2>2. ProofEnd(e) <= now
    BY <1>2 DEF DisputesDated
  <2> QED
    BY <1>1, <2>1, <2>2
<1>3. dispute' # dispute
  BY <1>2
<1>4. ASSUME NEW w \in Video, NEW k \in Epoch, NEW d,
             dispute' = [dispute EXCEPT ![w][k] = d]
      PROVE  w = v /\ k = e
  BY <1>1, <1>2, <1>4
<1>5. ASSUME NEW w \in Video, NEW k \in Epoch, NEW a,
             Challenge(w, k, a) \/ MockChallenge(w, k, a)
      PROVE  ProofEnd(e) <= now
  BY <1>4, <1>5 DEF Challenge, MockChallenge
<1>6. ASSUME NEW w \in Video, NEW k \in Epoch, dispute[w][k].status # "None",
             NEW st, dispute' = [dispute EXCEPT ![w][k].status = st]
      PROVE  FALSE
  BY <1>1, <1>2, <1>6
<1>7. ASSUME NEW w \in Video, NEW k \in Epoch, Respond(w, k) \/ MockRespond(w, k)
      PROVE  FALSE
  BY <1>6, <1>7 DEF Respond, MockRespond
<1>8. ASSUME NEW w \in Video, NEW k \in Epoch, NEW wins \in BOOLEAN,
             Close(w, k, wins) \/ MockClose(w, k, wins),
             dispute[w][k].status \in {"Open", "Responded"}
      PROVE  FALSE
  <2>1. \E st : dispute' = [dispute EXCEPT ![w][k].status = st]
    BY <1>8 DEF Close, MockClose
  <2> QED
    BY <1>6, <1>8, <2>1
<1>9. ASSUME NEW w \in Video, NEW k \in Epoch,
             \/ \E wins \in BOOLEAN : Resolve(w, k, wins) \/ MockResolve(w, k, wins)
             \/ Finalize(w, k) \/ MockFinalize(w, k)
      PROVE  FALSE
  BY <1>8, <1>9 DEF Resolve, MockResolve, Finalize, DefaultRuling, MockFinalize
<1>10. CASE Next
  BY <1>3, <1>5, <1>7, <1>9, <1>10 DEF Next, Tick, Join, RegisterClip, SubmitProof,
     SettleEpoch, Claim, ClaimHoldback, Refund
<1>11. CASE MockNext
  BY <1>3, <1>5, <1>7, <1>9, <1>11 DEF MockNext, Tick, MockJoin, MockRegister, MockSubmit,
     MockSettle, MockClaim, MockClaimHoldback, MockRefund
<1> QED
  BY <1>3, <1>10, <1>11 DEF SiteNext, siteVars, vars

\* A phase of an epoch lies between the epoch's start and its settlement; all
\* but the content phase come after the content.
LEMMA PhasePlaced ==
    ASSUME NEW k \in Epoch, NEW s \in PhasesOf(k)
    PROVE  /\ s.epoch = k /\ s.from \in Nat /\ s.to \in Nat
           /\ s.phase = "content" => s.from = EpochStart(k) /\ s.to = ContentEnd(k)
           /\ s.phase # "content" => ContentEnd(k) <= s.from /\ s.to <= SettleAt(k)
<1>1. k \in Nat /\ EpochStart(k) \in Nat
  BY EpochType, TimelineAssumption DEF EpochStart
<1> QED
  BY <1>1, TimelineType, PhasesInOrder DEF PhasesOf

\* No two phases of one epoch are in progress together.
LEMMA PhasesApart ==
    ASSUME NEW k \in Epoch, NEW r \in PhasesOf(k), NEW s \in PhasesOf(k), NEW t \in Nat,
           r.from <= t, t < r.to, s.from <= t, t < s.to
    PROVE  r = s
<1>1. k \in Nat /\ EpochStart(k) \in Nat
  BY EpochType, TimelineAssumption DEF EpochStart
<1> QED
  BY <1>1, TimelineType, PhasesInOrder DEF PhasesOf

\* After the content of an epoch its phases are the last to start: those of
\* earlier epochs are over, the content of the next one began before them, or at
\* the same time, and nothing else has begun.
LEMMA PhaseHighlighted ==
    ASSUME NEW e \in Epoch, NEW r \in PhasesOf(e), r.phase # "content", now \in Nat,
           r.from <= now, now < r.to
    PROVE  Highlighted(r)
<1>1. e \in Nat /\ SettleAt(e) \in Nat /\ ContentEnd(e) \in Nat
  BY EpochType, TimelineType
<1>2. /\ r.epoch = e /\ r.from \in Nat /\ r.to \in Nat
      /\ ContentEnd(e) <= r.from /\ r.to <= SettleAt(e)
  BY PhasePlaced
<1> SUFFICES ASSUME NEW k \in Epoch, NEW s \in PhasesOf(k), s.from <= now, now < s.to, s # r
             PROVE  s.from < r.from \/ (s.from = r.from /\ s.epoch > r.epoch)
  BY DEF Highlighted
<1>3. /\ s.epoch = k /\ s.from \in Nat /\ s.to \in Nat
      /\ s.phase = "content" => s.from = EpochStart(k) /\ s.to = ContentEnd(k)
      /\ s.phase # "content" => ContentEnd(k) <= s.from /\ s.to <= SettleAt(k)
  BY PhasePlaced
<1>4. k \in Nat /\ SettleAt(k) \in Nat /\ ContentEnd(k) \in Nat /\ ContentEnd(k) <= SettleAt(k)
  BY EpochType, TimelineType, PhasesInOrder
<1>5. CASE k = e
  BY <1>5, PhasesApart
<1>6. CASE k < e
  <2>1. SettleAt(k) <= ContentEnd(e)
    BY <1>1, <1>4, <1>6, SettledByNextProofs
  <2> QED
    BY <1>1, <1>2, <1>3, <1>4, <2>1
<1>7. CASE e < k
  <2>1. SettleAt(e) <= ContentEnd(k)
    BY <1>1, <1>4, <1>7, SettledByNextProofs
  <2>2. s.phase = "content"
    BY <1>1, <1>2, <1>3, <1>4, <2>1
  <2>3. CASE k = e + 1
    <3>1. EpochStart(k) = ContentEnd(e)
      BY <2>3 DEF EpochStart, ContentEnd
    <3> QED
      BY <1>1, <1>2, <1>3, <1>7, <2>2, <3>1
  <2>4. CASE k # e + 1
    <3>1. k - 1 \in Nat /\ e < k - 1
      BY <1>1, <1>4, <1>7, <2>4
    <3>2. SettleAt(e) <= ContentEnd(k - 1)
      BY <1>1, <3>1, SettledByNextProofs
    <3>3. EpochStart(k) = ContentEnd(k - 1)
      BY <1>4 DEF EpochStart, ContentEnd
    <3> QED
      BY <1>1, <1>2, <1>3, <2>2, <3>1, <3>2, <3>3, TimelineType
  <2> QED
    BY <2>3, <2>4
<1> QED
  BY <1>1, <1>4, <1>5, <1>6, <1>7

LEMMA BarFollowed ==
    ASSUME SiteInv, DisputesDated
    PROVE  ButtonsFollowTheBar
<1> SUFFICES ASSUME NEW v \in Video, NEW e \in Epoch
             PROVE  /\ OffersClose(v, e) => Shows(e, "proof")
                    /\ OffersChallenge(v, e) => Shows(e, "challenge")
                    /\ OffersRespond(v, e) => Shows(e, "challenge") \/ Shows(e, "response")
                    /\ OffersResolve(v, e) => Shows(e, "arbiter")
  BY DEF ButtonsFollowTheBar
<1>1. now \in Nat
  BY SiteRecords, CampaignAssumption DEF TypeOK
<1>2. /\ ProofEnd(e) \in Nat /\ ChallengeEnd(e) \in Nat
      /\ ContentEnd(e) \in Nat /\ DisputeEnd(e) \in Nat /\ SettleAt(e) \in Nat
  BY EpochType, TimelineType
<1>3. ASSUME NEW r \in PhasesOf(e), r.phase # "content", r.from <= now, now < r.to
      PROVE  Shows(e, r.phase)
  BY <1>1, <1>3, PhaseHighlighted DEF Shows
<1>4. ContentEnd(e) <= now /\ now < ProofEnd(e) => Shows(e, "proof")
  <2> DEFINE r == [epoch |-> e, phase |-> "proof", from |-> ContentEnd(e), to |-> ProofEnd(e)]
  <2>1. r \in PhasesOf(e)
    BY DEF PhasesOf
  <2> QED
    BY <1>3, <2>1
<1>5. ProofEnd(e) <= now /\ now < ChallengeEnd(e) => Shows(e, "challenge")
  <2> DEFINE r == [epoch |-> e, phase |-> "challenge", from |-> ProofEnd(e),
                   to |-> ChallengeEnd(e)]
  <2>1. r \in PhasesOf(e)
    BY DEF PhasesOf
  <2> QED
    BY <1>3, <2>1
<1>6. ChallengeEnd(e) <= now /\ now < DisputeEnd(e) => Shows(e, "response")
  <2> DEFINE r == [epoch |-> e, phase |-> "response", from |-> ChallengeEnd(e),
                   to |-> DisputeEnd(e)]
  <2>1. r \in PhasesOf(e)
    BY DEF PhasesOf
  <2> QED
    BY <1>3, <2>1
<1>7. DisputeEnd(e) <= now /\ now < SettleAt(e) => Shows(e, "arbiter")
  <2> DEFINE r == [epoch |-> e, phase |-> "arbiter", from |-> DisputeEnd(e),
                   to |-> SettleAt(e)]
  <2>1. r \in PhasesOf(e)
    BY DEF PhasesOf
  <2> QED
    BY <1>3, <2>1
<1>8. OffersRespond(v, e) => ProofEnd(e) <= now /\ now < DisputeEnd(e)
  BY DEF OffersRespond, DisputesDated
<1>9. OffersRespond(v, e) => Shows(e, "challenge") \/ Shows(e, "response")
  <2> HIDE DEF Shows
  <2> QED
    BY <1>1, <1>2, <1>5, <1>6, <1>8
<1> QED
  BY <1>4, <1>5, <1>7, <1>9 DEF OffersClose, ProofOpen, OffersChallenge, OffersResolve

-----------------------------------------------------------------------------
\* The inductive invariant of the application holds in every state it reaches,
\* whichever API it runs on (contract.rs or mock.ts).
THEOREM SiteInvariance == SiteSpec => []SiteInv
BY SiteInvBegins, SiteInvKept, PTL DEF SiteSpec

\* Until the refund the dashboards' totals and the campaign's balance add up to
\* the budget, and no claim ever overdraws it, on the mock no more than on chain
\* (earnings computed by the pages, claim and claimHoldback of either API).
THEOREM EarnedWasPaid == SiteSpec => []EarnedIsPaid
BY SiteInvariance, EarnedPaid, PTL

\* For every timeline a campaign may have, empty windows included, the phase
\* highlighted is the one an enabled button belongs to (PhaseTimeline).
THEOREM BarTellsThePhase == SiteSpec => []ButtonsFollowTheBar
<1>1. SiteInit => DisputesDated
  BY DEF SiteInit, Init, NoDispute, DisputesDated
<1>2. SiteInv /\ [SiteNext]_siteVars /\ DisputesDated => DisputesDated'
  BY DatesKept
<1> QED
  BY <1>1, <1>2, SiteInvariance, BarFollowed, PTL DEF SiteSpec

\* Whatever the others do, an offered claim stays at the amount first shown
\* until it is taken, at that amount, or the refund opens.
THEOREM OffersAreGood == SiteSpec => OffersStand
<1>1. SiteInv /\ [SiteNext]_siteVars =>
        [\A v \in Video, e \in Epoch :
           /\ OffersClaim(v, e) =>
                \/ /\ clipEpoch'[v][e].claimed
                   /\ campaign.balance - campaign'.balance = CellImmediate(v, e)
                \/ OffersClaim(v, e)' /\ CellPay(v, e)' = CellPay(v, e)
                \/ now' >= RefundAt
           /\ OffersHoldback(v, e) =>
                \/ /\ clipEpoch'[v][e].holdbackClaimed
                   /\ campaign.balance - campaign'.balance = CellHoldback(v, e)
                \/ OffersHoldback(v, e)' /\ CellHoldback(v, e)' = CellHoldback(v, e)
                \/ now' >= RefundAt]_siteVars
  BY ClaimStands, HoldbackStands
<1> QED
  BY <1>1, SiteInvariance, PTL DEF SiteSpec, OffersStand

\* The budget and rate the pages show for an epoch whose predecessor is settled
\* are those it settles at, and on chain its spending and holdback too.
THEOREM EstimatesAreRight == SiteSpec => EstimatesHold
<1>1. SiteInv /\ [SiteNext]_siteVars =>
        [\A e \in Epoch :
           /\ ~epoch[e].settled /\ epoch'[e].settled
           /\ e > 0 => epoch[e - 1].settled
           => LET shown == Estimate(e)
              IN  /\ epoch'[e].budget = shown.budget
                  /\ epoch'[e].rate = shown.rate
                  /\ epoch'[e].spent <= shown.spent
                  /\ api = "chain" => /\ epoch'[e].spent = shown.spent
                                      /\ epoch'[e].heldTotal = shown.heldTotal]_siteVars
  BY EstimateHolds
<1> QED
  BY <1>1, SiteInvariance, PTL DEF SiteSpec, EstimatesHold

=============================================================================
