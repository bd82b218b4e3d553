--------------------------- MODULE SolvencyProofs ---------------------------
(***************************************************************************)
(* Theorems about a campaign's money: the settlements divide its budget,   *)
(* the claims of an epoch fit what the epoch spends, whatever the          *)
(* divisions round, and so the balance covers every claim, and every       *)
(* wallet is explained by what its owner earned, won and posted.  With     *)
(* them a campaign implements module Escrow: every step of the contract is *)
(* a step of the escrow or none.                                           *)
(***************************************************************************)
EXTENDS CampaignProofs, CampaignEscrow

-----------------------------------------------------------------------------
(***************************************************************************)
(* Settlements stay as they were computed.                                 *)
(***************************************************************************)
AsComputed(es, k) ==
    es[k].settled =>
      /\ es[k].budget = BaseBudget(k) + CarryIn(es, k)
      /\ es[k].rate = RateFor(es[k].budget, es[k].totalWeight)
      /\ es[k].spent = SpentAt(es[k].rate, es[k].totalWeight)
      /\ es[k].heldTotal = HeldTotalOf(k, es[k].spent)

ComputedUpTo(es, n) ==
    \A k \in Epoch : (es[k].settled <=> k < n) /\ AsComputed(es, k)

Computed == \A k \in Epoch : AsComputed(epoch, k)

LEMMA SettledComputed ==
    ASSUME NEW es, EpochsOK(es), NEW n \in Epoch, ComputedUpTo(es, n)
    PROVE  ComputedUpTo(Settled(es, n), n + 1)
<1> DEFINE z == Settled(es, n)
           st == es[n]
           carry == CarryIn(es, n)
           b == BaseBudget(n) + carry
           r == RateFor(b, st.totalWeight)
           spent == SpentAt(r, st.totalWeight)
           held == HeldTotalOf(n, spent)
<1>1. st \in EpochState /\ es \in [Epoch -> EpochState] /\ n \in Nat
  BY EpochType DEF EpochsOK
<1>2. \A k \in Epoch : k # n => z[k] = es[k]
  BY SettledOK
<1>3. CarryIn(z, n) = carry
  <2>1. n # 0 => n - 1 \in Epoch /\ n - 1 # n
    BY <1>1, TimelineAssumption DEF Epoch
  <2>2. n # 0 => z[n - 1] = es[n - 1]
    BY <1>2, <2>1
  <2> QED
    BY <2>2 DEF CarryIn
<1>4. /\ z[n].settled /\ z[n].budget = b /\ z[n].rate = r /\ z[n].spent = spent
      /\ z[n].heldTotal = held /\ z[n].totalWeight = st.totalWeight
  <2>1. z = [es EXCEPT ![n] = [st EXCEPT !.settled = TRUE, !.budget = b, !.rate = r,
                                         !.spent = spent, !.heldTotal = held]]
    BY DEF Settled, Settlement
  <2> HIDE DEF st, b, r, spent, held, z
  <2>2. z[n] = [st EXCEPT !.settled = TRUE, !.budget = b, !.rate = r,
                          !.spent = spent, !.heldTotal = held]
    BY <1>1, <2>1
  <2> QED
    BY <1>1, <2>2 DEF EpochState
<1>5. AsComputed(z, n)
  <2> HIDE DEF z, st
  <2> QED
    BY <1>3, <1>4 DEF AsComputed
<1>6. ASSUME NEW k \in Epoch, k # n
      PROVE  (z[k].settled <=> k < n + 1) /\ AsComputed(z, k)
  <2>1. z[k] = es[k] /\ k \in Nat /\ (es[k].settled <=> k < n) /\ AsComputed(es, k)
    BY <1>2, <1>6, EpochType DEF ComputedUpTo
  <2>2. CASE k < n
    <3>1. k = 0 \/ (k - 1 \in Epoch /\ k - 1 # n)
      BY <1>1, <2>1, <2>2, TimelineAssumption DEF Epoch
    <3>2. CarryIn(z, k) = CarryIn(es, k)
      BY <1>2, <3>1 DEF CarryIn
    <3> HIDE DEF z
    <3> QED
      BY <1>1, <2>1, <2>2, <3>2 DEF AsComputed
  <2>3. CASE ~(k < n)
    <3> HIDE DEF z
    <3> QED
      BY <1>1, <1>6, <2>1, <2>3 DEF AsComputed
  <2> QED
    BY <2>2, <2>3
<1>7. n < n + 1
  BY <1>1
<1>8. ComputedUpTo(z, n + 1)
  <2> HIDE DEF z, st, carry, b, r, spent, held
  <2>1. z[n].settled <=> n < n + 1
    BY <1>4, <1>7
  <2> QED
    BY <1>5, <1>6, <2>1 DEF ComputedUpTo
<1> QED
  BY <1>8

LEMMA ChainComputed ==
    ASSUME NEW s \in Nat, NEW e \in Epoch, s <= e, NEW g, IsChain(g, s, e),
           EpochsOK(epoch), ComputedUpTo(epoch, s)
    PROVE  ComputedUpTo(g[e], e)
<1> DEFINE OK(n) == EpochsOK(g[n]) /\ ComputedUpTo(g[n], n)
           Bad == {n \in s .. e : ~OK(n)}
<1>0. e \in Nat /\ Epochs \in Nat /\ e <= Epochs - 1
  BY EpochType DEF Epoch
<1>1. SUFFICES ASSUME Bad # {} PROVE FALSE
  BY <1>0
<1>2. Bad \subseteq Nat
  BY <1>0
<1>3. g[s] = epoch /\ OK(s)
  BY <1>0 DEF IsChain
<1> HIDE DEF Bad, OK
<1>4. PICK m \in Bad : \A n \in Bad : m <= n
  BY <1>1, <1>2, LeastElement
<1>5. m \in s .. e /\ ~OK(m)
  BY <1>4 DEF Bad
<1>6. m # s
  BY <1>3, <1>5
<1>7. m - 1 \in Epoch /\ m - 1 \in s .. e /\ (m - 1) + 1 = m /\ m - 1 < m
  BY <1>0, <1>5, <1>6 DEF Epoch
<1>8. OK(m - 1)
  BY <1>4, <1>5, <1>7 DEF Bad
<1>9. g[m] = Settled(g[m - 1], m - 1)
  BY <1>5, <1>6 DEF IsChain
<1>10. OK(m)
  <2>1. EpochsOK(g[m])
    BY <1>7, <1>8, <1>9, SettledOK DEF OK
  <2>2. ComputedUpTo(g[m], m)
    BY <1>7, <1>8, <1>9, SettledComputed DEF OK
  <2> QED
    BY <2>1, <2>2 DEF OK
<1> QED
  BY <1>5, <1>10

LEMMA SettledBeforeComputed ==
    ASSUME IInv, Computed, NEW e \in Epoch, campaign.settledEpochs <= e
    PROVE  ComputedUpTo(SettledBefore(e), e)
<1> DEFINE s == campaign.settledEpochs
<1>1. s \in Nat /\ e \in Nat /\ EpochsOK(epoch) /\ ComputedUpTo(epoch, s)
  BY EpochType DEF IInv, TypeOK, CampaignRecord, SpentBounded, EpochsOK, SettledInOrder,
     ComputedUpTo, Computed
<1>2. CASE s < e
  <2> DEFINE g == CHOOSE g : IsChain(g, s, e)
  <2>1. IsChain(g, s, e)
    BY <1>1, <1>2, ChainExists
  <2>2. SettledBefore(e) = g[e]
    BY <1>2 DEF SettledBefore, IsChain
  <2> HIDE DEF g
  <2> QED
    BY <1>1, <1>2, <2>1, <2>2, ChainComputed
<1>3. CASE ~(s < e)
  <2>1. SettledBefore(e) = epoch /\ s = e
    BY <1>1, <1>3 DEF SettledBefore
  <2> QED
    BY <1>1, <2>1
<1> QED
  BY <1>2, <1>3

LEMMA SettlesNow ==
    ASSUME IInv, [Next]_vars, IInv', NEW k \in Epoch, ~epoch[k].settled, epoch'[k].settled
    PROVE  \/ SettleEpoch(k) /\ campaign.settledEpochs = k
           \/ \E e \in Epoch, p \in Proof :
                /\ SubmitProof(e, p)
                /\ k < e /\ campaign.settledEpochs <= e
<1> DEFINE s == campaign.settledEpochs
           t == campaign'.settledEpochs
<1>1. s \in Nat /\ t \in Nat /\ k \in Nat /\ campaign \in CampaignRecord
  BY EpochType DEF IInv, TypeOK, CampaignRecord
<1>2. s <= k /\ k < t
  BY <1>1 DEF IInv, SettledInOrder
<1>3. ASSUME NEW e \in Epoch, SettleEpoch(e)
      PROVE  SettleEpoch(k) /\ s = k
  <2>1. t = e + 1 /\ e \in Nat
    BY <1>1, <1>3, EpochType DEF SettleEpoch, CampaignRecord
  <2>2. e = k
    <3>1. ~epoch[e].settled /\ (e > 0 => epoch[e - 1].settled)
      BY <1>3 DEF SettleEpoch
    <3>2. e > 0 => e - 1 \in Epoch
      BY <2>1, TimelineAssumption DEF Epoch
    <3>3. s <= e /\ (e > 0 => e - 1 < s)
      BY <1>1, <2>1, <3>1, <3>2 DEF IInv, SettledInOrder
    <3> QED
      BY <1>1, <1>2, <2>1, <3>3
  <2>3. e > 0 => e - 1 < s
    <3>1. e > 0 => e - 1 \in Epoch /\ epoch[e - 1].settled
      BY <1>3, <2>1, TimelineAssumption DEF SettleEpoch, Epoch
    <3> QED
      BY <3>1 DEF IInv, SettledInOrder
  <2> QED
    BY <1>1, <1>2, <1>3, <2>1, <2>2, <2>3
<1>4. ASSUME NEW e \in Epoch, NEW p \in Proof, SubmitProof(e, p)
      PROVE  k < e /\ s <= e
  <2>1. t = Greatest(s, e) /\ e \in Nat
    BY <1>1, <1>4, EpochType DEF SubmitProof, CampaignRecord
  <2> QED
    BY <1>1, <1>2, <2>1 DEF Greatest
<1>5. ASSUME NEW v \in Video, NEW e \in Epoch, Claim(v, e) \/ ClaimHoldback(v, e)
      PROVE  t = s
  BY <1>1, <1>5 DEF Claim, ClaimHoldback, PayOut, CampaignRecord
<1>6. CASE Refund
  BY <1>1, <1>2, <1>6 DEF Refund, CampaignRecord
<1>7. campaign' # campaign
  BY <1>1, <1>2
<1>8. \/ \E e \in Epoch : SettleEpoch(e)
      \/ \E e \in Epoch, p \in Proof : SubmitProof(e, p)
      \/ \E v \in Video, e \in Epoch : Claim(v, e) \/ ClaimHoldback(v, e)
      \/ Refund
  <2>1. ASSUME NEW v \in Video, NEW e \in Epoch,
               \/ \E a \in Challenger : Challenge(v, e, a)
               \/ Respond(v, e)
               \/ \E w \in BOOLEAN : Resolve(v, e, w)
               \/ Finalize(v, e)
        PROVE  campaign' = campaign
    BY <2>1 DEF Challenge, Respond, Resolve, Finalize, Close
  <2> HIDE DEF s, t
  <2> QED
    BY <1>7, <2>1 DEF Next, Tick, Join, RegisterClip, vars
<1> QED
  BY <1>1, <1>2, <1>3, <1>4, <1>5, <1>6, <1>8

\* Where a settlement is computed it follows the formulas, and it stays.
LEMMA ComputedKept ==
    ASSUME IInv, Computed, [Next]_vars, IInv'
    PROVE  Computed'
<1> SUFFICES ASSUME NEW k \in Epoch, epoch'[k].settled
             PROVE  AsComputed(epoch', k)
  BY DEF Computed, AsComputed
<1>0. k \in Nat /\ (k # 0 => k - 1 \in Epoch /\ k - 1 < k)
  BY EpochType, TimelineAssumption DEF Epoch
<1>1. CASE epoch[k].settled
  <2>1. /\ epoch'[k].budget = epoch[k].budget
        /\ epoch'[k].rate = epoch[k].rate
        /\ epoch'[k].spent = epoch[k].spent
        /\ epoch'[k].heldTotal = epoch[k].heldTotal
        /\ epoch'[k].totalWeight = epoch[k].totalWeight
    BY <1>1, Frozen
  <2>2. CarryIn(epoch', k) = CarryIn(epoch, k)
    <3>1. CASE k # 0
      <4>1. epoch[k - 1].settled
        BY <1>0, <1>1, <3>1 DEF IInv, SettledInOrder, TypeOK, CampaignRecord
      <4>2. /\ epoch'[k - 1].settled
            /\ epoch'[k - 1].budget = epoch[k - 1].budget
            /\ epoch'[k - 1].spent = epoch[k - 1].spent
        BY <1>0, <3>1, <4>1, Frozen
      <4> QED
        BY <4>1, <4>2 DEF CarryIn
    <3> QED
      BY <3>1 DEF CarryIn
  <2> QED
    BY <1>1, <2>1, <2>2 DEF Computed, AsComputed
<1>2. CASE SettleEpoch(k) /\ ~epoch[k].settled /\ campaign.settledEpochs = k
  <2>1. EpochsOK(epoch) /\ ComputedUpTo(epoch, k)
    BY <1>2 DEF IInv, TypeOK, SpentBounded, EpochsOK, SettledInOrder, ComputedUpTo, Computed
  <2>2. epoch' = Settled(epoch, k)
    BY <1>2 DEF SettleEpoch
  <2> QED
    BY <2>1, <2>2, SettledComputed DEF ComputedUpTo
<1>3. ASSUME NEW e \in Epoch, NEW p \in Proof, SubmitProof(e, p), k < e,
             campaign.settledEpochs <= e
      PROVE  AsComputed(epoch', k)
  <2> DEFINE es == SettledBefore(e)
  <2>1. ComputedUpTo(es, e)
    BY <1>3, SettledBeforeComputed
  <2>2. es \in [Epoch -> EpochState]
    BY SettledBeforeOK DEF ChainOK, EpochsOK
  <2>3. ASSUME NEW j \in Epoch, j < e
        PROVE  /\ epoch'[j].settled = es[j].settled
               /\ epoch'[j].budget = es[j].budget
               /\ epoch'[j].rate = es[j].rate
               /\ epoch'[j].spent = es[j].spent
               /\ epoch'[j].heldTotal = es[j].heldTotal
               /\ epoch'[j].totalWeight = es[j].totalWeight
    <3>1. j # e
      BY <2>3, EpochType
    <3>2. epoch'[j] = es[j] \/ \E x : epoch'[j] = [es[j] EXCEPT !.heldSurvived = x]
      BY <1>3, <3>1 DEF SubmitProof
    <3> HIDE DEF es
    <3> QED
      BY <2>2, <3>2 DEF EpochState
  <2> HIDE DEF es
  <2>4. e \in Nat
    BY EpochType
  <2>5. CarryIn(epoch', k) = CarryIn(es, k)
    <3>1. CASE k # 0
      <4>1. k - 1 \in Epoch /\ k - 1 < e
        BY <1>0, <1>3, <2>4, <3>1
      <4> QED
        BY <2>3, <4>1 DEF CarryIn
    <3> QED
      BY <3>1 DEF CarryIn
  <2> QED
    BY <1>3, <2>1, <2>3, <2>5 DEF ComputedUpTo, AsComputed
<1> QED
  BY <1>1, <1>2, <1>3, SettlesNow

-----------------------------------------------------------------------------
(***************************************************************************)
(* The settlements divide the budget: what the settled epochs spend and    *)
(* the last of them leaves over is what the budget gives them.             *)
(***************************************************************************)
BaseOf == [k \in Epoch |-> BaseBudget(k)]
SpentOf == [k \in Epoch |-> epoch[k].spent]
LeftAfter(n) == IF n = 0 THEN 0 ELSE epoch[n - 1].budget - epoch[n - 1].spent

LEMMA PrefixSum ==
    ASSUME NEW n \in Nat, NEW w, Naturals(w, 0 .. n)
    PROVE  SumOver(w, 0 .. n) = SumOver(w, 0 .. n - 1) + w[n]
<1> DEFINE S == 0 .. n - 1
<1>1. 0 .. n = S \cup {n} /\ n \notin S
  OBVIOUS
<1>2. IsFiniteSet(S)
  BY FS_Interval
<1>3. Naturals(w, S \cup {n})
  BY <1>1
<1> HIDE DEF S
<1>4. SumOver(w, S \cup {n}) = SumOver(w, S) + w[n]
  BY <1>1, <1>2, <1>3, SumAdd
<1> QED
  BY <1>1, <1>4 DEF S

LEMMA BasePrefix ==
    ASSUME NEW n \in 0 .. Last
    PROVE  SumOver(BaseOf, 0 .. n - 1) = n * (Budget \div Epochs)
<1> DEFINE q == Budget \div Epochs
           OK(k) == SumOver(BaseOf, 0 .. k - 1) = k * q
           Bad == {k \in 0 .. Last : ~OK(k)}
<1>0. q \in Nat /\ Epochs \in Nat \ {0} /\ Last = Epochs - 1
  BY PayoutAssumption, TimelineAssumption DEF Last
<1>1. SUFFICES ASSUME Bad # {} PROVE FALSE
  OBVIOUS
<1>2. Bad \subseteq Nat
  OBVIOUS
<1>3. OK(0)
  <2>1. 0 .. 0 - 1 = {}
    OBVIOUS
  <2> QED
    BY <1>0, <2>1, SumEmpty
<1>4. ASSUME NEW k \in Nat, k < Last, OK(k)
      PROVE  OK(k + 1)
  <2>1. \A j \in 0 .. k : j \in Epoch /\ j # Last
    BY <1>0, <1>4 DEF Epoch
  <2>2. Naturals(BaseOf, 0 .. k)
    BY <2>1, BaseBudgetType DEF Naturals, BaseOf
  <2>3. BaseOf[k] = q
    BY <1>0, <2>1 DEF BaseOf, BaseBudget
  <2>4. SumOver(BaseOf, 0 .. k) = SumOver(BaseOf, 0 .. k - 1) + BaseOf[k]
    BY <2>2, PrefixSum
  <2>5. (k + 1) - 1 = k /\ (k + 1) * q = k * q + q
    BY <1>0
  <2> HIDE DEF q
  <2> QED
    BY <1>4, <2>3, <2>4, <2>5
<1> HIDE DEF Bad, OK, q
<1>5. PICK m \in Bad : \A k \in Bad : m <= k
  BY <1>1, <1>2, LeastElement
<1>6. m \in 0 .. Last /\ ~OK(m)
  BY <1>5 DEF Bad
<1>7. m # 0
  BY <1>3, <1>6
<1>8. m - 1 \in 0 .. Last /\ m - 1 < m /\ m - 1 < Last /\ m - 1 \in Nat /\ (m - 1) + 1 = m
  BY <1>0, <1>6, <1>7
<1>9. OK(m - 1)
  BY <1>5, <1>6, <1>8 DEF Bad
<1> QED
  BY <1>4, <1>6, <1>8, <1>9

\* The base budgets of the epochs are the budget.
LEMMA BudgetDivided ==
    SumOver(BaseOf, Epoch) = Budget /\ Naturals(BaseOf, Epoch) /\ IsFiniteSet(Epoch)
<1>1. Last \in Nat /\ Last \in Epoch /\ Epoch = 0 .. Last /\ Last \in 0 .. Last
      /\ Epochs = Last + 1 /\ Epochs \in Nat \ {0}
  BY TimelineAssumption DEF Last, Epoch
<1>2. Naturals(BaseOf, Epoch)
  BY BaseBudgetType DEF Naturals, BaseOf
<1>3. SumOver(BaseOf, Epoch) = SumOver(BaseOf, 0 .. Last - 1) + BaseOf[Last]
  BY <1>1, <1>2, PrefixSum
<1>4. SumOver(BaseOf, 0 .. Last - 1) = Last * (Budget \div Epochs)
  BY <1>1, BasePrefix
<1>5. BaseOf[Last] = Budget \div Epochs + (Budget % Epochs)
  BY <1>1 DEF BaseOf, BaseBudget
<1>6. Budget = Epochs * (Budget \div Epochs) + (Budget % Epochs)
      /\ Budget \div Epochs \in Nat /\ Budget % Epochs \in Nat
  BY PayoutAssumption, TimelineAssumption
<1>7. PICK q \in Nat, r \in Nat : q = Budget \div Epochs /\ r = Budget % Epochs
  BY <1>6
<1>8. (Last + 1) * q = Last * q + q /\ Last * q \in Nat
  BY <1>1
<1>9. IsFiniteSet(Epoch)
  BY <1>1, FS_Interval
<1> QED
  BY <1>1, <1>2, <1>3, <1>4, <1>5, <1>6, <1>7, <1>8, <1>9

\* What makes the settlements divide the budget.
Dividing ==
    /\ epoch \in [Epoch -> EpochState]
    /\ campaign.settledEpochs \in 0 .. Epochs
    /\ SettledInOrder
    /\ SpentBounded
    /\ \A k \in Epoch :
         epoch[k].settled => epoch[k].budget = BaseBudget(k) + CarryIn(epoch, k)

LEMMA SettlementsDivide ==
    ASSUME IInv, Computed
    PROVE  Dividing
BY DEF IInv, TypeOK, CampaignRecord, Computed, AsComputed, Dividing

LEMMA SpentType ==
    ASSUME Dividing
    PROVE  Naturals(SpentOf, Epoch)
BY DEF Dividing, EpochState, Naturals, SpentOf

\* The carry hands every unit an epoch does not spend to the next one.
LEMMA CarriesOn ==
    ASSUME Dividing, NEW n \in 0 .. campaign.settledEpochs
    PROVE  /\ SumOver(SpentOf, 0 .. n - 1) + LeftAfter(n) = SumOver(BaseOf, 0 .. n - 1)
           /\ LeftAfter(n) \in Nat
<1> DEFINE s == campaign.settledEpochs
           OK(k) == /\ SumOver(SpentOf, 0 .. k - 1) + LeftAfter(k) = SumOver(BaseOf, 0 .. k - 1)
                    /\ LeftAfter(k) \in Nat
           Bad == {k \in 0 .. s : ~OK(k)}
<1>0. s \in Nat /\ s <= Epochs /\ Epochs \in Nat
  BY TimelineAssumption DEF Dividing
<1>1. SUFFICES ASSUME Bad # {} PROVE FALSE
  OBVIOUS
<1>2. Bad \subseteq Nat
  BY <1>0
<1>3. OK(0)
  <2>1. 0 .. 0 - 1 = {}
    OBVIOUS
  <2> QED
    BY <2>1, SumEmpty DEF LeftAfter
<1>4. ASSUME NEW k \in Nat, k < s, OK(k)
      PROVE  OK(k + 1)
  <2>1. \A j \in 0 .. k : j \in Epoch /\ j < s
    BY <1>0, <1>4 DEF Epoch
  <2>2. k \in Epoch /\ k \in 0 .. k /\ (k + 1) - 1 = k /\ k + 1 # 0
    BY <1>0, <1>4 DEF Epoch
  <2>3. Naturals(BaseOf, 0 .. k) /\ Naturals(SpentOf, 0 .. k)
    BY <2>1, BudgetDivided, SpentType DEF Naturals
  <2>4. /\ SumOver(BaseOf, 0 .. k) = SumOver(BaseOf, 0 .. k - 1) + BaseBudget(k)
        /\ SumOver(SpentOf, 0 .. k) = SumOver(SpentOf, 0 .. k - 1) + epoch[k].spent
    BY <2>2, <2>3, PrefixSum DEF BaseOf, SpentOf
  <2>5. epoch[k].settled /\ epoch[k].budget = BaseBudget(k) + LeftAfter(k)
    <3>1. epoch[k].settled
      BY <1>4, <2>2 DEF Dividing, SettledInOrder
    <3>2. CarryIn(epoch, k) = LeftAfter(k)
      <4>1. k # 0 => epoch[k - 1].settled
        <5>1. k # 0 => k - 1 \in Epoch /\ k - 1 < s
          BY <1>0, <1>4, <2>2 DEF Epoch
        <5> QED
          BY <5>1 DEF Dividing, SettledInOrder
      <4> QED
        BY <4>1 DEF CarryIn, LeftAfter
    <3> QED
      BY <2>2, <3>1, <3>2 DEF Dividing
  <2>6. LeftAfter(k + 1) = epoch[k].budget - epoch[k].spent
    BY <2>2 DEF LeftAfter
  <2>7. epoch[k].spent \in Nat /\ epoch[k].budget \in Nat /\ epoch[k].spent <= epoch[k].budget
    BY <2>2 DEF Dividing, EpochState, SpentBounded
  <2>8. SumOver(SpentOf, 0 .. k - 1) \in Nat /\ BaseBudget(k) \in Nat
    <3>1. IsFiniteSet(0 .. k - 1) /\ Naturals(SpentOf, 0 .. k - 1)
      BY <2>3, FS_Interval DEF Naturals
    <3> QED
      BY <2>2, <3>1, SumType, BaseBudgetType
  <2> QED
    BY <1>4, <2>2, <2>4, <2>5, <2>6, <2>7, <2>8
<1> HIDE DEF Bad, OK
<1>5. PICK m \in Bad : \A k \in Bad : m <= k
  BY <1>1, <1>2, LeastElement
<1>6. m \in 0 .. s /\ ~OK(m)
  BY <1>5 DEF Bad
<1>7. m # 0
  BY <1>3, <1>6
<1>8. m - 1 \in 0 .. s /\ m - 1 < m /\ m - 1 < s /\ m - 1 \in Nat /\ (m - 1) + 1 = m
  BY <1>0, <1>6, <1>7
<1>9. OK(m - 1)
  BY <1>5, <1>6, <1>8 DEF Bad
<1> QED
  BY <1>4, <1>6, <1>8, <1>9

-----------------------------------------------------------------------------
(***************************************************************************)
(* The claims of an epoch fit what the epoch spends.                       *)
(***************************************************************************)
PayIn(e) == [v \in Video |-> IF clip[v].owner # Nobody THEN Pay(v, e) ELSE 0]
NowIn(e) == [v \in Video |-> IF clip[v].owner # Nobody THEN Immediate(v, e) ELSE 0]
Shared(v, e) == clipEpoch[v][e].alive /\ epoch[e].heldSurvived # 0
SharesIn(e) == [v \in Video |-> IF Shared(v, e) THEN Share(v, e) ELSE 0]

LEMMA AmountsType ==
    ASSUME IInv, FlagsAgree, NEW e \in Epoch
    PROVE  /\ Naturals(PayIn(e), Video)
           /\ Naturals(NowIn(e), Video)
           /\ Naturals(SharesIn(e), Video)
<1>1. \A v \in Video : clip[v].owner # Nobody => clip[v].owner \in User
  BY DEF IInv, TypeOK, Clip
<1>2. \A v \in Video : clip[v].owner # Nobody =>
        Pay(v, e) \in Nat /\ Immediate(v, e) \in Nat
  BY <1>1, PayType DEF IInv
<1>3. \A v \in Video : Shared(v, e) => Share(v, e) \in Nat
  <2> TAKE v \in Video
  <2>1. clipEpoch[v][e].alive => clip[v].owner # Nobody
    BY DEF FlagsAgree, FlagsOf, IInv, EntriesBelong
  <2> QED
    BY <1>1, <2>1, HoldbackShareType DEF Shared
<1> QED
  BY <1>2, <1>3 DEF Naturals, PayIn, NowIn, SharesIn

\* What clips of one participant earn is at most what the participant's capped
\* weight earns.
LEMMA PaysWithinCap ==
    ASSUME NEW T, IsFiniteSet(T), NEW w, Naturals(w, T), NEW pay, Naturals(pay, T),
           NEW rate \in Nat, NEW cap \in Nat, NEW raw \in Nat, raw = SumOver(w, T),
           \A v \in T : pay[v] = ClipPay(rate, [raw |-> raw, weight |-> cap], w[v])
    PROVE  1000 * SumOver(pay, T) <= rate * cap
<1> DEFINE a == raw * 1000
           b == rate * cap
<1>1. ASSUME NEW v \in T
      PROVE  a * pay[v] <= b * w[v]
  <2>1. PICK n \in Nat : n = w[v]
    BY DEF Naturals
  <2>2. pay[v] = ClipPay(rate, [raw |-> raw, weight |-> cap], n)
    BY <2>1
  <2>3. (raw * 1000) * ClipPay(rate, [raw |-> raw, weight |-> cap], n) <= (rate * cap) * n
    BY ClipPayBound
  <2> QED
    BY <2>1, <2>2, <2>3
<1>2. a \in Nat /\ b \in Nat
  OBVIOUS
<1>3. (raw * 1000) * SumOver(pay, T) <= (rate * cap) * SumOver(w, T)
  <2> HIDE DEF a, b
  <2>1. a * SumOver(pay, T) <= b * SumOver(w, T)
    BY <1>1, <1>2, SumScaled
  <2> QED
    BY <2>1 DEF a, b
<1>4. SumOver(pay, T) \in Nat
  BY SumType
<1>5. PICK x \in Nat : x = SumOver(pay, T)
  BY <1>4
<1>6. PICK y \in Nat : y = rate * cap
  BY <1>2
<1>7. CASE raw # 0
  <2>1. (raw * 1000) * x = raw * (1000 * x)
    OBVIOUS
  <2>2. raw * (1000 * x) <= y * raw
    BY <1>3, <1>5, <1>6, <2>1
  <2>3. ~(1000 * x > y)
    <3> SUFFICES ASSUME 1000 * x >= y + 1 PROVE FALSE
      OBVIOUS
    <3>1. PICK d \in Nat : 1000 * x = y + 1 + d
      <4>1. PICK m \in Nat : m = 1000 * x
        OBVIOUS
      <4>2. m - (y + 1) \in Nat /\ m = y + 1 + (m - (y + 1))
        BY <4>1
      <4>3. \E d \in Nat : m = y + 1 + d
        BY <4>2
      <4> QED
        BY <4>1, <4>3
    <3>2. raw * (y + 1 + d) = y * raw + raw + raw * d /\ raw * d \in Nat /\ y * raw \in Nat
      OBVIOUS
    <3> QED
      BY <1>7, <2>2, <3>1, <3>2
  <2> QED
    BY <1>5, <1>6, <2>3
<1>8. CASE raw = 0
  <2>1. \A v \in T : pay[v] = 0
    BY <1>8 DEF ClipPay
  <2>2. SumOver(pay, T) = 0
    BY <2>1, SumZeros
  <2> QED
    BY <1>5, <1>6, <2>2
<1> QED
  BY <1>7, <1>8

\* If that holds of every participant, what all clips earn is at most what the
\* participants' weights together earn.
LEMMA PaysWithinSpent ==
    ASSUME NEW owner, \A v \in Video : owner[v] \in User \cup {Nobody},
           NEW pay, Naturals(pay, Video), \A v \in Video : owner[v] = Nobody => pay[v] = 0,
           NEW rate \in Nat, NEW cap, Naturals(cap, User),
           \A u \in User :
             1000 * SumOver(pay, {v \in Video : owner[v] = u}) <= rate * cap[u]
    PROVE  SumOver(pay, Video) <= SpentAt(rate, SumOver(cap, User))
<1> DEFINE K == User \cup {Nobody}
           T(k) == {v \in Video : owner[v] = k}
           part == [k \in K |-> SumOver(pay, T(k))]
           caps == [k \in K |-> IF k \in User THEN cap[k] ELSE 0]
<1>1. IsFiniteSet(K) /\ IsFiniteSet(Video) /\ Nobody \notin User /\ User \in SUBSET K
      /\ IsFiniteSet(User)
  BY FS_AddElement, CampaignAssumption
<1>2. \A k : IsFiniteSet(T(k)) /\ T(k) \in SUBSET Video /\ Naturals(pay, T(k))
  BY <1>1, FS_Subset DEF Naturals
<1>3. Naturals(caps, K) /\ SumOver(cap, User) \in Nat
  BY <1>1, SumType DEF Naturals
<1>4. Naturals(part, K)
  <2>1. ASSUME NEW k \in K PROVE SumOver(pay, T(k)) \in Nat
    <3> HIDE DEF T
    <3> QED
      BY <1>2, SumType
  <2> HIDE DEF T
  <2> QED
    BY <2>1 DEF Naturals
<1>5. ASSUME NEW k \in K
      PROVE  1000 * part[k] <= rate * caps[k]
  <2>1. CASE k \in User
    BY <2>1
  <2>2. CASE k = Nobody
    <3>1. \A v \in T(k) : pay[v] = 0
      BY <2>2
    <3>2. caps[k] = 0
      BY <1>1, <2>2
    <3>3. part[k] = SumOver(pay, T(k))
      OBVIOUS
    <3> HIDE DEF T, part, caps
    <3>4. part[k] = 0
      BY <1>2, <3>1, <3>3, SumZeros
    <3> QED
      BY <3>2, <3>4
  <2> QED
    BY <2>1, <2>2
<1>6. SumOver(caps, K) = SumOver(cap, User)
  <2>1. caps = [k \in K |-> IF k \in User THEN caps[k] ELSE 0]
    OBVIOUS
  <2>2. (\A k \in User : caps[k] = cap[k]) /\ Naturals(caps, User)
    BY <1>1 DEF Naturals
  <2> HIDE DEF caps, K
  <2>3. SumOver(caps, User) = SumOver(caps, K)
    BY <1>1, <1>3, <2>1, SumOfPart
  <2>4. SumOver(caps, User) = SumOver(cap, User)
    BY <1>1, <2>2, SumSame
  <2> QED
    BY <2>3, <2>4
<1>7. SumOver(pay, Video) = SumOver(part, K)
  <2> HIDE DEF K
  <2>1. \A v \in Video : owner[v] \in K
    BY DEF K
  <2> QED
    BY <1>1, <2>1, SumGroups
<1> HIDE DEF part, caps, K
<1>8. 1000 * SumOver(part, K) <= rate * SumOver(caps, K)
  BY <1>1, <1>3, <1>4, <1>5, SumScaled
<1>9. SumOver(part, K) \in Nat
  BY <1>1, <1>4, SumType
<1> QED
  BY <1>3, <1>6, <1>7, <1>8, <1>9, FitsSpent

LEMMA OwnerPays ==
    ASSUME IInv, FlagsAgree, NEW e \in Epoch, NEW u \in User
    PROVE  1000 * SumOver(PayIn(e), {v \in Video : clip[v].owner = u})
             <= epoch[e].rate * partEpoch[u][e].weight
<1> DEFINE T == {v \in Video : clip[v].owner = u}
           pay == PayIn(e)
           w == [v \in Video |-> clipEpoch[v][e].weight]
           rate == epoch[e].rate
           raw == partEpoch[u][e].raw
           cap == partEpoch[u][e].weight
<1>1. /\ rate \in Nat /\ raw \in Nat /\ cap \in Nat
      /\ partEpoch[u][e] = [raw |-> raw, weight |-> cap]
  BY DEF IInv, TypeOK, EpochState, ParticipantEpoch
<1>2. T \in SUBSET Video /\ IsFiniteSet(T)
  BY FS_Subset, CampaignAssumption
<1>3. Naturals(w, Video) /\ Naturals(pay, Video) /\ Naturals(w, T) /\ Naturals(pay, T)
  BY AmountsType DEF IInv, TypeOK, ClipEpoch, Naturals
<1>4. ASSUME NEW v \in T
      PROVE  pay[v] = ClipPay(rate, [raw |-> raw, weight |-> cap], w[v])
  <2>1. v \in Video /\ clip[v].owner = u /\ u # Nobody
    BY CampaignAssumption
  <2> QED
    BY <1>1, <2>1 DEF PayIn, Pay
<1>5. raw = SumOver(w, T)
  <2>1. [v \in Video |-> IF v \in T THEN w[v] ELSE 0] = WeightsOf(u, e)
    BY DEF WeightsOf
  <2>2. SumOver(w, T) = SumOver(WeightsOf(u, e), Video)
    <3> HIDE DEF T, w
    <3> QED
      BY <1>2, <1>3, <2>1, SumOfPart, CampaignAssumption
  <2> QED
    BY <2>2 DEF IInv, SumsKept, RawSum
<1> HIDE DEF T, pay, w, rate, raw, cap
<1>6. 1000 * SumOver(pay, T) <= rate * cap
  BY <1>1, <1>2, <1>3, <1>4, <1>5, PaysWithinCap
<1> QED
  BY <1>6 DEF T, pay, rate, cap

\* What the clips of an epoch earn is at most what the epoch spends.
LEMMA PaysFitSpent ==
    ASSUME IInv, FlagsAgree, Computed, NEW e \in Epoch, epoch[e].settled
    PROVE  SumOver(PayIn(e), Video) <= epoch[e].spent
<1> DEFINE pay == PayIn(e)
           owner == [v \in Video |-> clip[v].owner]
           cap == WeightsIn(e)
           rate == epoch[e].rate
<1>1. \A v \in Video : owner[v] \in User \cup {Nobody} /\ (owner[v] = Nobody => pay[v] = 0)
  BY DEF IInv, TypeOK, Clip, PayIn
<1>2. Naturals(pay, Video) /\ rate \in Nat /\ Naturals(cap, User)
  BY AmountsType DEF IInv, TypeOK, ParticipantEpoch, EpochState, Naturals, WeightsIn
<1>3. ASSUME NEW u \in User
      PROVE  1000 * SumOver(pay, {v \in Video : owner[v] = u}) <= rate * cap[u]
  <2>1. {v \in Video : owner[v] = u} = {v \in Video : clip[v].owner = u}
    OBVIOUS
  <2>2. cap[u] = partEpoch[u][e].weight
    BY DEF WeightsIn
  <2>3. 1000 * SumOver(pay, {v \in Video : clip[v].owner = u})
          <= rate * partEpoch[u][e].weight
    BY OwnerPays
  <2> HIDE DEF pay, owner, cap, rate
  <2> QED
    BY <2>1, <2>2, <2>3
<1>4. epoch[e].totalWeight = SumOver(cap, User)
  BY DEF IInv, SumsKept, TotalSum
<1>5. epoch[e].spent = SpentAt(rate, epoch[e].totalWeight)
  BY DEF Computed, AsComputed
<1> HIDE DEF pay, owner, cap, rate
<1>6. SumOver(pay, Video) <= SpentAt(rate, SumOver(cap, User))
  BY <1>1, <1>2, <1>3, PaysWithinSpent
<1> QED
  BY <1>4, <1>5, <1>6 DEF pay

\* Shares in proportion to what was held of each survivor fit the pot.
LEMMA SharesWithinPot ==
    ASSUME NEW held, Naturals(held, Video), NEW shares, Naturals(shares, Video),
           NEW total \in Nat, NEW survived \in Nat, survived = SumOver(held, Video),
           \A v \in Video :
             \/ shares[v] = 0
             \/ survived # 0 /\ shares[v] = ShareOf(held[v], total, survived)
    PROVE  SumOver(shares, Video) <= total
<1>0. IsFiniteSet(Video)
  BY CampaignAssumption
<1>1. ASSUME NEW v \in Video
      PROVE  survived * shares[v] <= total * held[v]
  <2>1. PICK h \in Nat : h = held[v]
    BY DEF Naturals
  <2>2. total * h \in Nat
    OBVIOUS
  <2>3. CASE shares[v] = 0
    BY <2>1, <2>2, <2>3
  <2>4. CASE survived # 0 /\ shares[v] = ShareOf(held[v], total, survived)
    BY <2>1, <2>4, ShareBound
  <2> QED
    BY <2>3, <2>4
<1>2. survived * SumOver(shares, Video) <= total * survived
  BY <1>0, <1>1, SumScaled
<1>3. SumOver(shares, Video) \in Nat
  BY <1>0, SumType
<1>4. CASE survived = 0
  <2>1. \A v \in Video : shares[v] = 0
    BY <1>4
  <2>2. SumOver(shares, Video) = 0
    BY <1>0, <2>1, SumZeros
  <2> QED
    BY <2>2
<1>5. CASE survived # 0
  <2>1. PICK x \in Nat : x = SumOver(shares, Video)
    BY <1>3
  <2> SUFFICES ASSUME x >= total + 1 PROVE FALSE
    BY <2>1
  <2>2. PICK d \in Nat : x = total + 1 + d
    <3>1. x - (total + 1) \in Nat /\ x = total + 1 + (x - (total + 1))
      OBVIOUS
    <3> QED
      BY <3>1
  <2>3. survived * (total + 1 + d) = total * survived + survived + survived * d
        /\ survived * d \in Nat /\ total * survived \in Nat
    OBVIOUS
  <2> QED
    BY <1>2, <1>5, <2>1, <2>2, <2>3
<1> QED
  BY <1>4, <1>5

\* The immediate parts and the holdback pot fit, and the shares fit the pot.
LEMMA ClaimsFit ==
    ASSUME IInv, RInv, Computed, NEW e \in Epoch, epoch[e].settled
    PROVE  /\ SumOver(NowIn(e), Video) + epoch[e].heldTotal <= epoch[e].spent
           /\ SumOver(SharesIn(e), Video) <= epoch[e].heldTotal
           /\ SumOver(NowIn(e), Video) \in Nat /\ SumOver(SharesIn(e), Video) \in Nat
<1> DEFINE pay == PayIn(e)
           nowIn == NowIn(e)
           shares == SharesIn(e)
           held == HeldByAlive(e)
           h == HoldbackRate(e)
           spent == epoch[e].spent
           total == epoch[e].heldTotal
           survived == epoch[e].heldSurvived
<1>1. FlagsAgree /\ survived = SumOver(held, Video) /\ IsFiniteSet(Video)
  BY CampaignAssumption DEF RInv, SurvivorsCounted
<1>2. /\ Naturals(pay, Video) /\ Naturals(nowIn, Video) /\ Naturals(shares, Video)
      /\ Naturals(held, Video)
  BY <1>1, AmountsType, HeldByAliveType DEF IInv
<1>3. spent \in Nat /\ total \in Nat /\ survived \in Nat
  BY DEF IInv, TypeOK, EpochState
<1>4. h \in 0 .. 10000 /\ 10000 - h \in Nat
  <2>1. h \in 0 .. 10000
    BY HoldbackRateType
  <2> HIDE DEF h
  <2> QED
    BY <2>1
<1>5. ASSUME NEW v \in Video
      PROVE  10000 * nowIn[v] <= (10000 - h) * pay[v]
  <2>1. CASE clip[v].owner # Nobody
    <3>1. Pay(v, e) \in Nat
      BY <1>2, <2>1 DEF Naturals, PayIn
    <3> QED
      BY <2>1, <3>1, ImmediateBound DEF NowIn, PayIn, Immediate
  <2>2. CASE clip[v].owner = Nobody
    BY <1>4, <2>2 DEF NowIn, PayIn
  <2> QED
    BY <2>1, <2>2
<1>6. ASSUME NEW v \in Video
      PROVE  \/ shares[v] = 0
             \/ survived # 0 /\ shares[v] = ShareOf(held[v], total, survived)
  BY DEF SharesIn, Shared, HeldByAlive, Share
<1>7. SumOver(pay, Video) <= spent
  BY <1>1, PaysFitSpent
<1>8. total = HeldTotalOf(e, spent)
  BY DEF Computed, AsComputed
<1> HIDE DEF pay, nowIn, shares, held, h, spent, total, survived
<1>10. SumOver(pay, Video) \in Nat /\ SumOver(nowIn, Video) \in Nat
       /\ SumOver(shares, Video) \in Nat
  BY <1>1, <1>2, SumType
<1>11. 10000 * SumOver(nowIn, Video) <= (10000 - h) * SumOver(pay, Video)
  BY <1>1, <1>2, <1>4, <1>5, SumScaled
<1>12. SumOver(nowIn, Video) + total <= spent
  BY <1>3, <1>7, <1>8, <1>10, <1>11, SplitFits DEF h
<1>13. SumOver(shares, Video) <= total
  BY <1>1, <1>2, <1>3, <1>6, SharesWithinPot
<1> QED
  BY <1>10, <1>12, <1>13 DEF nowIn, shares, spent, total

-----------------------------------------------------------------------------
(***************************************************************************)
(* What has been paid and what is still owed.                              *)
(***************************************************************************)
PaidNow(e) == [v \in Video |-> IF clipEpoch[v][e].claimed THEN Immediate(v, e) ELSE 0]
PaidShares(e) ==
    [v \in Video |-> IF clipEpoch[v][e].holdbackClaimed THEN Share(v, e) ELSE 0]
PaidAt ==
    [ve \in VideoEpochs |-> PaidNow(ve[2])[ve[1]] + PaidShares(ve[2])[ve[1]]]

OwedNow(e) ==
    [v \in Video |-> IF clip[v].owner # Nobody /\ ~clipEpoch[v][e].claimed
                     THEN Immediate(v, e) ELSE 0]
OwedShares(e) ==
    [v \in Video |-> IF Shared(v, e) /\ ~clipEpoch[v][e].holdbackClaimed
                     THEN Share(v, e) ELSE 0]
Owed(e) ==
    SumOver(OwedNow(e), Video)
      + (IF e = Last THEN 0
         ELSE IF now < HoldbackReleaseEnd(e) THEN epoch[e].heldTotal
         ELSE SumOver(OwedShares(e), Video))
OwedBySettled == [k \in Epoch |-> IF k < campaign.settledEpochs THEN Owed(k) ELSE 0]

Accounted ==
    IF campaign.refunded THEN campaign.balance = 0
    ELSE campaign.balance + SumOver(PaidAt, VideoEpochs) = Budget

LEMMA PaidAndOwed ==
    ASSUME IInv, RInv, NEW e \in Epoch
    PROVE  /\ Naturals(PaidNow(e), Video) /\ Naturals(OwedNow(e), Video)
           /\ Naturals(PaidShares(e), Video) /\ Naturals(OwedShares(e), Video)
           /\ SumOver(NowIn(e), Video)
                = SumOver(PaidNow(e), Video) + SumOver(OwedNow(e), Video)
           /\ SumOver(SharesIn(e), Video)
                = SumOver(PaidShares(e), Video) + SumOver(OwedShares(e), Video)
<1> DEFINE a == PaidNow(e)
           b == OwedNow(e)
           c == PaidShares(e)
           d == OwedShares(e)
           x == NowIn(e)
           y == SharesIn(e)
<1>1. Naturals(x, Video) /\ Naturals(y, Video) /\ IsFiniteSet(Video)
  BY AmountsType, CampaignAssumption DEF RInv
<1>2. \A v \in Video : /\ clipEpoch[v][e].claimed => clip[v].owner # Nobody
                       /\ clipEpoch[v][e].holdbackClaimed => Shared(v, e)
  BY DEF RInv, FlagsAgree, FlagsOf, Shared
<1>3. \A v \in Video : x[v] = a[v] + b[v] /\ a[v] \in Nat /\ b[v] \in Nat
  BY <1>1, <1>2 DEF Naturals, NowIn, PaidNow, OwedNow
<1>4. \A v \in Video : y[v] = c[v] + d[v] /\ c[v] \in Nat /\ d[v] \in Nat
  BY <1>1, <1>2 DEF Naturals, SharesIn, PaidShares, OwedShares
<1> HIDE DEF a, b, c, d, x, y
<1>5. Naturals(a, Video) /\ Naturals(b, Video) /\ Naturals(c, Video) /\ Naturals(d, Video)
  BY <1>3, <1>4 DEF Naturals
<1>6. SumOver(x, Video) = SumOver(a, Video) + SumOver(b, Video)
  BY <1>1, <1>3, <1>5, SumPlus
<1>7. SumOver(y, Video) = SumOver(c, Video) + SumOver(d, Video)
  BY <1>1, <1>4, <1>5, SumPlus
<1> QED
  BY <1>5, <1>6, <1>7 DEF a, b, c, d, x, y

LEMMA PaidType ==
    ASSUME IInv, RInv
    PROVE  /\ Naturals(PaidAt, VideoEpochs) /\ IsFiniteSet(VideoEpochs)
           /\ SumOver(PaidAt, VideoEpochs) \in Nat
<1>1. ASSUME NEW ve \in VideoEpochs
      PROVE  PaidAt[ve] \in Nat
  <2>1. ve[1] \in Video /\ ve[2] \in Epoch
    BY DEF VideoEpochs
  <2>2. Naturals(PaidNow(ve[2]), Video) /\ Naturals(PaidShares(ve[2]), Video)
    BY <2>1, PaidAndOwed
  <2>3. PaidNow(ve[2])[ve[1]] \in Nat /\ PaidShares(ve[2])[ve[1]] \in Nat
    BY <2>1, <2>2 DEF Naturals
  <2> QED
    BY <2>3 DEF PaidAt
<1>2. Naturals(PaidAt, VideoEpochs)
  BY <1>1 DEF Naturals
<1>3. IsFiniteSet(VideoEpochs)
  BY PairsOfEpochsFinite
<1> QED
  BY <1>2, <1>3, SumType

\* What is paid for an epoch and what is owed for it fit what it spends.
LEMMA EpochFits ==
    ASSUME IInv, RInv, Computed, NEW e \in Epoch
    PROVE  /\ Owed(e) \in Nat
           /\ epoch[e].settled =>
                SumOver(Slice(PaidAt, Video, e), Video) + Owed(e) <= epoch[e].spent
           /\ ~epoch[e].settled => SumOver(Slice(PaidAt, Video, e), Video) = 0
<1> DEFINE a == PaidNow(e)
           b == OwedNow(e)
           c == PaidShares(e)
           d == OwedShares(e)
           row == Slice(PaidAt, Video, e)
<1>0. IsFiniteSet(Video)
  BY CampaignAssumption
<1>1. /\ Naturals(a, Video) /\ Naturals(b, Video) /\ Naturals(c, Video) /\ Naturals(d, Video)
      /\ SumOver(NowIn(e), Video) = SumOver(a, Video) + SumOver(b, Video)
      /\ SumOver(SharesIn(e), Video) = SumOver(c, Video) + SumOver(d, Video)
  BY PaidAndOwed
<1>2. \A v \in Video : row[v] = a[v] + c[v]
  BY DEF Slice, PaidAt, VideoEpochs
<1>3. /\ SumOver(a, Video) \in Nat /\ SumOver(b, Video) \in Nat
      /\ SumOver(c, Video) \in Nat /\ SumOver(d, Video) \in Nat
      /\ SumOver(row, Video) = SumOver(a, Video) + SumOver(c, Video)
  <2>1. Naturals(row, Video)
    BY <1>1, <1>2 DEF Naturals
  <2> HIDE DEF a, b, c, d, row
  <2> QED
    BY <1>0, <1>1, <1>2, <2>1, SumPlus, SumType
<1>4. epoch[e].heldTotal \in Nat /\ epoch[e].spent \in Nat
  BY DEF IInv, TypeOK, EpochState
<1>5. Owed(e) \in Nat
  BY <1>3, <1>4 DEF Owed
<1>6. CASE ~epoch[e].settled
  <2>1. \A v \in Video : a[v] = 0 /\ c[v] = 0
    BY <1>6 DEF RInv, FlagsAgree, FlagsOf, PaidNow, PaidShares
  <2>2. SumOver(a, Video) = 0 /\ SumOver(c, Video) = 0
    <3> HIDE DEF a, c
    <3> QED
      BY <1>0, <2>1, SumZeros
  <2> QED
    BY <1>3, <1>5, <1>6, <2>2
<1>7. CASE epoch[e].settled
  <2>1. /\ SumOver(NowIn(e), Video) + epoch[e].heldTotal <= epoch[e].spent
        /\ SumOver(SharesIn(e), Video) <= epoch[e].heldTotal
    BY <1>7, ClaimsFit
  <2>2. CASE e = Last \/ now < HoldbackReleaseEnd(e)
    <3>1. \A v \in Video : c[v] = 0
      <4>1. HoldbackReleaseEnd(e) \in Nat /\ now \in Nat
        BY EpochType, TimelineType DEF HoldbackReleaseEnd, IInv, TypeOK
      <4>2. Last \in Nat
        BY TimelineAssumption DEF Last
      <4>3. ASSUME NEW v \in Video
            PROVE  ~clipEpoch[v][e].holdbackClaimed
        <5>1. FlagsOf(v, e)
          BY DEF RInv, FlagsAgree
        <5> QED
          BY <2>2, <4>1, <4>2, <5>1 DEF FlagsOf
      <4> QED
        BY <4>3 DEF PaidShares
    <3>2. SumOver(c, Video) = 0
      <4> HIDE DEF c
      <4> QED
        BY <1>0, <3>1, SumZeros
    <3>3. Owed(e) <= SumOver(b, Video) + epoch[e].heldTotal
      BY <1>3, <1>4, <2>2 DEF Owed
    <3> HIDE DEF a, b, c, d, row
    <3> QED
      BY <1>1, <1>3, <1>4, <1>5, <1>7, <2>1, <3>2, <3>3 DEF row
  <2>3. CASE ~(e = Last \/ now < HoldbackReleaseEnd(e))
    <3>1. Owed(e) = SumOver(b, Video) + SumOver(d, Video)
      BY <2>3 DEF Owed
    <3> HIDE DEF a, b, c, d, row
    <3> QED
      BY <1>1, <1>3, <1>4, <1>5, <1>7, <2>1, <3>1 DEF row
  <2> QED
    BY <2>2, <2>3
<1> QED
  BY <1>6, <1>7

\* The balance covers what is owed and the budget of the epochs to come.
LEMMA Solvent ==
    ASSUME IInv, RInv, Computed, Accounted, ~campaign.refunded
    PROVE  /\ campaign.balance >=
                SumOver(OwedBySettled, Epoch)
                  + SumOver(BaseOf, campaign.settledEpochs .. Last)
                  + LeftAfter(campaign.settledEpochs)
           /\ Naturals(OwedBySettled, Epoch)
           /\ SumOver(BaseOf, campaign.settledEpochs .. Last) \in Nat
           /\ LeftAfter(campaign.settledEpochs) \in Nat
<1> DEFINE s == campaign.settledEpochs
           rows == [k \in Epoch |-> SumOver(Slice(PaidAt, Video, k), Video)]
           owed == OwedBySettled
           both == [k \in Epoch |-> rows[k] + owed[k]]
           spent == [k \in Epoch |-> IF k \in 0 .. s - 1 THEN SpentOf[k] ELSE 0]
           before == 0 .. s - 1
           after == s .. Last
<1>0. s \in 0 .. Epochs /\ Epochs \in Nat /\ Last = Epochs - 1 /\ Epoch \subseteq Nat
      /\ campaign.balance \in Nat
  BY EpochType DEF Last, IInv, TypeOK, CampaignRecord
<1>1. Epoch = before \cup after /\ before \cap after = {} /\ before \in SUBSET Epoch
      /\ after \in SUBSET Epoch
  BY <1>0 DEF Epoch
<1>2. IsFiniteSet(Epoch) /\ IsFiniteSet(before) /\ IsFiniteSet(after) /\ IsFiniteSet(Video)
  <2>1. IsFiniteSet(Epoch) /\ IsFiniteSet(Video)
    BY BudgetDivided, CampaignAssumption
  <2> HIDE DEF before, after
  <2> QED
    BY <1>1, <2>1, FS_Subset
<1>3. SumOver(PaidAt, VideoEpochs) = SumOver(rows, Epoch)
  <2>1. Naturals(PaidAt, Video \X Epoch)
    BY PaidType DEF VideoEpochs
  <2>2. SumOver(PaidAt, Video \X Epoch) = SumOver(rows, Epoch)
    BY <1>2, <2>1, SumOfPairs
  <2> QED
    BY <2>2 DEF VideoEpochs
<1>4. ASSUME NEW k \in Epoch
      PROVE  /\ rows[k] \in Nat /\ owed[k] \in Nat
             /\ rows[k] + owed[k] <= spent[k]
             /\ spent[k] \in Nat
  <2>1. /\ Owed(k) \in Nat
        /\ epoch[k].settled => rows[k] + Owed(k) <= epoch[k].spent
        /\ ~epoch[k].settled => rows[k] = 0
    BY EpochFits
  <2>2. k \in Nat /\ (epoch[k].settled <=> k < s) /\ epoch[k].spent \in Nat
    BY <1>0 DEF IInv, SettledInOrder, TypeOK, EpochState
  <2>3. rows[k] \in Nat
    <3> DEFINE r == Slice(PaidAt, Video, k)
    <3>1. Naturals(r, Video)
      <4>1. \A v \in Video : PaidAt[<<v, k>>] \in Nat
        BY PaidType DEF Naturals, VideoEpochs
      <4> QED
        BY <4>1 DEF Naturals, Slice
    <3> HIDE DEF r
    <3>2. SumOver(r, Video) \in Nat
      BY <1>2, <3>1, SumType
    <3> QED
      BY <3>2 DEF r
  <2>4. owed[k] = IF k < s THEN Owed(k) ELSE 0
    BY DEF OwedBySettled
  <2>5. spent[k] = IF k < s THEN epoch[k].spent ELSE 0
    BY <1>0, <2>2 DEF SpentOf
  <2> HIDE DEF rows, owed, spent
  <2> QED
    BY <2>1, <2>2, <2>3, <2>4, <2>5
<1>5. \A k \in Epoch : both[k] = rows[k] + owed[k]
  OBVIOUS
<1>6. SumOver(spent, Epoch) = SumOver(SpentOf, before)
  <2>1. Naturals(SpentOf, Epoch)
    BY SpentType, SettlementsDivide
  <2>2. spent = [k \in Epoch |-> IF k \in before THEN SpentOf[k] ELSE 0]
    OBVIOUS
  <2> HIDE DEF before, spent
  <2> QED
    BY <1>1, <1>2, <2>1, <2>2, SumOfPart
<1>7. SumOver(SpentOf, before) + LeftAfter(s) = SumOver(BaseOf, before) /\ LeftAfter(s) \in Nat
  <2>1. s \in 0 .. s
    BY <1>0
  <2> QED
    BY <2>1, CarriesOn, SettlementsDivide
<1>8. Budget = SumOver(BaseOf, before) + SumOver(BaseOf, after)
  <2>1. SumOver(BaseOf, before \cup after) = SumOver(BaseOf, before) + SumOver(BaseOf, after)
    <3> HIDE DEF before, after
    <3> QED
      BY <1>1, <1>2, BudgetDivided, SumJoin
  <2> QED
    BY <1>1, <2>1, BudgetDivided
<1> HIDE DEF rows, owed, both, spent, before, after
<1>9. Naturals(rows, Epoch) /\ Naturals(owed, Epoch) /\ Naturals(both, Epoch)
      /\ Naturals(spent, Epoch)
  BY <1>4, <1>5 DEF Naturals
<1>10. SumOver(both, Epoch) = SumOver(rows, Epoch) + SumOver(owed, Epoch)
  BY <1>2, <1>5, <1>9, SumPlus
<1>11. SumOver(both, Epoch) <= SumOver(spent, Epoch)
  <2>1. \A k \in Epoch : both[k] <= spent[k]
    BY <1>4, <1>5
  <2> QED
    BY <1>2, <1>9, <2>1, SumMonotone
<1>12. SumOver(rows, Epoch) \in Nat /\ SumOver(owed, Epoch) \in Nat
       /\ SumOver(spent, Epoch) \in Nat /\ SumOver(BaseOf, after) \in Nat
       /\ SumOver(BaseOf, before) \in Nat
  <2>1. Naturals(BaseOf, before) /\ Naturals(BaseOf, after)
    BY <1>1, BudgetDivided DEF Naturals
  <2> QED
    BY <1>2, <1>9, <2>1, SumType
<1>13. campaign.balance + SumOver(PaidAt, VideoEpochs) = Budget
  BY DEF Accounted
<1>14. campaign.balance >= SumOver(owed, Epoch) + SumOver(BaseOf, after) + LeftAfter(s)
  BY <1>0, <1>3, <1>6, <1>7, <1>8, <1>10, <1>11, <1>12, <1>13
<1> QED
  BY <1>7, <1>9, <1>12, <1>14 DEF owed, after

-----------------------------------------------------------------------------
(***************************************************************************)
(* Payments.                                                               *)
(***************************************************************************)
SameFlags(v, e) ==
    /\ clipEpoch'[v][e].claimed = clipEpoch[v][e].claimed
    /\ clipEpoch'[v][e].holdbackClaimed = clipEpoch[v][e].holdbackClaimed

\* Only a claim of the record itself changes what it has been paid.
LEMMA FlagsStay ==
    ASSUME IInv, RInv, [Next]_vars, NEW v \in Video, NEW e \in Epoch,
           ~Claim(v, e), ~ClaimHoldback(v, e)
    PROVE  SameFlags(v, e)
<1> DEFINE c == clipEpoch[v][e]
           d == clipEpoch'[v][e]
<1>1. c \in ClipEpoch /\ now \in Nat /\ FlagsOf(v, e) /\ e \in Nat
  BY EpochType DEF IInv, TypeOK, RInv, FlagsAgree
<1>2. CASE Judged(v, e)
  BY <1>1, <1>2 DEF Judged, ClipEpoch, SameFlags
<1>3. CASE Revived(v, e)
  BY <1>1, <1>3 DEF Revived, ClipEpoch, SameFlags
<1>4. CASE Proves(v, e)
  <2>1. now < ProofEnd(e)
    BY <1>4 DEF Proves, SubmitProof
  <2>2. ~epoch[e].settled
    <3>1. ProofEnd(e) \in Nat /\ ChallengeEnd(e) \in Nat /\ DisputeEnd(e) \in Nat
          /\ SettleAt(e) \in Nat
      BY <1>1, TimelineType
    <3>2. ProofEnd(e) <= ChallengeEnd(e) /\ ChallengeEnd(e) <= DisputeEnd(e)
          /\ DisputeEnd(e) <= SettleAt(e)
      BY <1>1, PhasesInOrder
    <3>3. epoch[e].settled => SettleAt(e) <= now
      BY DEF IInv, SettledWhenDue
    <3> QED
      BY <1>1, <2>1, <3>1, <3>2, <3>3
  <2>3. c.claimed = FALSE /\ c.holdbackClaimed = FALSE
    BY <1>1, <2>2 DEF FlagsOf, ClipEpoch
  <2>4. d.claimed = ClosingRecord(v, e).claimed
        /\ d.holdbackClaimed = ClosingRecord(v, e).holdbackClaimed
    BY <1>4 DEF Proves
  <2>5. ClosingRecord(v, e).claimed = FALSE /\ ClosingRecord(v, e).holdbackClaimed = FALSE
    BY <2>3 DEF ClosingRecord, NoClipEpoch
  <2> QED
    BY <2>3, <2>4, <2>5 DEF SameFlags
<1> QED
  BY <1>2, <1>3, <1>4, RecordChanges DEF RecordStep, SameFlags

\* What a payment was computed from stays.
LEMMA PaymentsStay ==
    ASSUME IInv, RInv, [Next]_vars, IInv', RInv', NEW v \in Video, NEW e \in Epoch
    PROVE  /\ clipEpoch[v][e].claimed =>
                /\ Immediate(v, e)' = Immediate(v, e)
                /\ Immediate(v, e) \in Nat
           /\ clipEpoch[v][e].holdbackClaimed =>
                /\ Share(v, e)' = Share(v, e)
                /\ Share(v, e) \in Nat
<1>1. FlagsOf(v, e)
  BY DEF RInv, FlagsAgree
<1>2. ASSUME epoch[e].settled, clip[v].owner # Nobody
      PROVE  /\ Pay(v, e)' = Pay(v, e)
             /\ HeldOf(e, Pay(v, e)') = HeldOf(e, Pay(v, e))
             /\ clip[v].owner \in User
             /\ epoch'[e].heldTotal = epoch[e].heldTotal
  BY <1>2, PayStays, Frozen DEF IInv, TypeOK, Clip
<1>3. ASSUME clipEpoch[v][e].claimed
      PROVE  Immediate(v, e)' = Immediate(v, e) /\ Immediate(v, e) \in Nat
  <2>1. epoch[e].settled /\ clip[v].owner # Nobody
    BY <1>1, <1>3 DEF FlagsOf
  <2>2. Immediate(v, e)' = Immediate(v, e)
    BY <1>2, <2>1 DEF Immediate
  <2>3. Immediate(v, e) \in Nat
    BY <1>2, <2>1, PayType DEF IInv
  <2> QED
    BY <2>2, <2>3
<1>4. ASSUME clipEpoch[v][e].holdbackClaimed
      PROVE  Share(v, e)' = Share(v, e) /\ Share(v, e) \in Nat
  <2>1. epoch[e].settled /\ clip[v].owner # Nobody /\ epoch[e].heldSurvived # 0
    BY <1>1, <1>4 DEF FlagsOf, IInv, EntriesBelong
  <2>2. epoch'[e].heldSurvived = epoch[e].heldSurvived
    BY <1>4, PotClosed DEF RInv
  <2>3. Share(v, e)' = Share(v, e)
    BY <1>2, <2>1, <2>2 DEF Share
  <2>4. Share(v, e) \in Nat
    BY <1>2, <2>1, HoldbackShareType
  <2> QED
    BY <2>3, <2>4
<1> QED
  BY <1>3, <1>4

LEMMA PaidStays ==
    ASSUME IInv, RInv, [Next]_vars, IInv', RInv', NEW v \in Video, NEW e \in Epoch,
           SameFlags(v, e)
    PROVE  PaidAt'[<<v, e>>] = PaidAt[<<v, e>>]
<1>1. <<v, e>> \in VideoEpochs
  BY DEF VideoEpochs
<1>2. /\ (PaidNow(e)')[v] = PaidNow(e)[v]
      /\ (PaidShares(e)')[v] = PaidShares(e)[v]
  BY PaymentsStay DEF PaidNow, PaidShares, SameFlags
<1> QED
  BY <1>1, <1>2 DEF PaidAt, VideoEpochs

\* A claim adds its amount to what the record has been paid, and to nothing else.
LEMMA ClaimAdds ==
    ASSUME IInv, RInv, [Next]_vars, IInv', RInv', NEW v \in Video, NEW e \in Epoch,
           NEW amount,
           \/ Claim(v, e) /\ amount = Immediate(v, e)
           \/ ClaimHoldback(v, e) /\ amount = Share(v, e)
    PROVE  /\ amount \in Nat
           /\ PaidAt'[<<v, e>>] = PaidAt[<<v, e>>] + amount
           /\ \A x \in VideoEpochs : x # <<v, e>> => PaidAt'[x] = PaidAt[x]
<1>1. <<v, e>> \in VideoEpochs
  BY DEF VideoEpochs
<1>2. /\ clipEpoch \in [Video -> [Epoch -> ClipEpoch]]
      /\ clip[v].owner \in User
  BY DEF IInv, TypeOK, Clip, Claim, ClaimHoldback
<1>3. ASSUME NEW x \in VideoEpochs, x # <<v, e>>
      PROVE  PaidAt'[x] = PaidAt[x]
  <2>1. PICK w \in Video, k \in Epoch : x = <<w, k>>
    BY DEF VideoEpochs
  <2>2. clipEpoch'[w][k] = clipEpoch[w][k]
    BY <1>2, <1>3, <2>1 DEF Claim, ClaimHoldback
  <2>3. SameFlags(w, k)
    BY <2>2 DEF SameFlags
  <2> QED
    BY <2>1, <2>3, PaidStays
<1>4. /\ PaidNow(e)[v] \in Nat /\ PaidShares(e)[v] \in Nat
      /\ PaidAt[<<v, e>>] = PaidNow(e)[v] + PaidShares(e)[v]
      /\ PaidAt'[<<v, e>>] = (PaidNow(e)')[v] + (PaidShares(e)')[v]
  BY <1>1, PaidAndOwed DEF PaidAt, Naturals, VideoEpochs
<1>5. CASE Claim(v, e) /\ amount = Immediate(v, e)
  <2>1. amount \in Nat
    BY <1>2, <1>5, PayType DEF IInv
  <2>2. /\ clipEpoch[v][e].claimed = FALSE /\ clipEpoch'[v][e].claimed = TRUE
        /\ clipEpoch'[v][e].holdbackClaimed = clipEpoch[v][e].holdbackClaimed
    <3>1. clipEpoch'[v][e] = [clipEpoch[v][e] EXCEPT !.claimed = TRUE]
      BY <1>2, <1>5 DEF Claim
    <3>2. clipEpoch[v][e] \in ClipEpoch /\ ~clipEpoch[v][e].claimed
      BY <1>2, <1>5 DEF Claim, CanClaim
    <3> QED
      BY <3>1, <3>2 DEF ClipEpoch
  <2>3. Immediate(v, e)' = Immediate(v, e)
    <3>1. epoch[e].settled /\ clip[v].owner # Nobody
      BY <1>5 DEF Claim, CanClaim
    <3>2. Pay(v, e)' = Pay(v, e)
      BY <3>1, PayStays
    <3> QED
      BY <3>2 DEF Immediate
  <2>4. PaidNow(e)[v] = 0 /\ (PaidNow(e)')[v] = amount
    BY <1>5, <2>2, <2>3 DEF PaidNow
  <2>5. (PaidShares(e)')[v] = PaidShares(e)[v]
    BY <2>2, PaymentsStay DEF PaidShares
  <2> QED
    BY <1>3, <1>4, <2>1, <2>4, <2>5
<1>6. CASE ClaimHoldback(v, e) /\ amount = Share(v, e)
  <2>1. amount \in Nat
    BY <1>2, <1>6, HoldbackShareType DEF ClaimHoldback
  <2>2. /\ clipEpoch[v][e].holdbackClaimed = FALSE
        /\ clipEpoch'[v][e].holdbackClaimed = TRUE
        /\ clipEpoch'[v][e].claimed = clipEpoch[v][e].claimed
    <3>1. clipEpoch'[v][e] = [clipEpoch[v][e] EXCEPT !.holdbackClaimed = TRUE]
      BY <1>2, <1>6 DEF ClaimHoldback
    <3>2. clipEpoch[v][e] \in ClipEpoch /\ ~clipEpoch[v][e].holdbackClaimed
      BY <1>2, <1>6 DEF ClaimHoldback
    <3> QED
      BY <3>1, <3>2 DEF ClipEpoch
  <2>3. Share(v, e)' = Share(v, e)
    <3>1. epoch[e].settled /\ clip[v].owner # Nobody /\ epoch' = epoch
      BY <1>6 DEF ClaimHoldback
    <3>2. Pay(v, e)' = Pay(v, e)
      BY <3>1, PayStays
    <3> QED
      BY <3>1, <3>2 DEF Share
  <2>4. PaidShares(e)[v] = 0 /\ (PaidShares(e)')[v] = amount
    BY <1>6, <2>2, <2>3 DEF PaidShares
  <2>5. (PaidNow(e)')[v] = PaidNow(e)[v]
    BY <2>2, PaymentsStay DEF PaidNow
  <2> QED
    BY <1>3, <1>4, <2>1, <2>4, <2>5
<1> QED
  BY <1>5, <1>6

\* The balance never falls short of a claim: pay_out's clamp does not bite.
LEMMA ClaimInFull ==
    ASSUME IInv, RInv, Computed, Accounted, NEW v \in Video, NEW e \in Epoch, NEW amount,
           \/ Claim(v, e) /\ amount = Immediate(v, e)
           \/ ClaimHoldback(v, e) /\ amount = Share(v, e)
    PROVE  /\ amount \in Nat
           /\ Least(amount, campaign.balance) = amount
<1> DEFINE s == campaign.settledEpochs
<1>1. clip[v].owner \in User /\ ~campaign.refunded /\ epoch[e].settled
  BY DEF IInv, TypeOK, Clip, Claim, ClaimHoldback, CanClaim, ClaimsOpen
<1>2. amount \in Nat
  BY <1>1, PayType, HoldbackShareType DEF IInv, ClaimHoldback
<1>3. /\ campaign.balance >= SumOver(OwedBySettled, Epoch)
                              + SumOver(BaseOf, s .. Last) + LeftAfter(s)
      /\ Naturals(OwedBySettled, Epoch)
      /\ SumOver(BaseOf, s .. Last) \in Nat /\ LeftAfter(s) \in Nat
      /\ campaign.balance \in Nat
  BY <1>1, Solvent DEF IInv, TypeOK, CampaignRecord
<1>4. OwedBySettled[e] <= SumOver(OwedBySettled, Epoch) /\ SumOver(OwedBySettled, Epoch) \in Nat
  BY <1>3, BudgetDivided, SumBounds
<1>5. OwedBySettled[e] = Owed(e) /\ Owed(e) \in Nat
  <2>1. e < s
    BY <1>1 DEF IInv, SettledInOrder
  <2> QED
    BY <1>3, <2>1 DEF OwedBySettled, Naturals
<1>6. /\ Naturals(OwedNow(e), Video) /\ Naturals(OwedShares(e), Video)
      /\ SumOver(OwedNow(e), Video) \in Nat /\ OwedNow(e)[v] <= SumOver(OwedNow(e), Video)
      /\ SumOver(OwedShares(e), Video) \in Nat
      /\ OwedShares(e)[v] <= SumOver(OwedShares(e), Video)
      /\ epoch[e].heldTotal \in Nat
  BY PaidAndOwed, SumBounds, CampaignAssumption DEF IInv, TypeOK, EpochState
<1>7. amount <= Owed(e)
  <2>1. CASE Claim(v, e) /\ amount = Immediate(v, e)
    <3>1. OwedNow(e)[v] = amount
      BY <2>1 DEF OwedNow, Claim, CanClaim
    <3>2. SumOver(OwedNow(e), Video) <= Owed(e)
      BY <1>6 DEF Owed
    <3> QED
      BY <1>2, <1>5, <1>6, <3>1, <3>2
  <2>2. CASE ClaimHoldback(v, e) /\ amount = Share(v, e)
    <3>1. OwedShares(e)[v] = amount
      BY <2>2 DEF OwedShares, Shared, ClaimHoldback
    <3>2. e # Last /\ ~(now < HoldbackReleaseEnd(e))
      <4>1. HoldbackReleaseEnd(e) \in Nat /\ now \in Nat
        BY EpochType, TimelineType DEF HoldbackReleaseEnd, IInv, TypeOK
      <4>2. e < Last /\ HoldbackReleaseEnd(e) <= now /\ Last \in Nat
        BY <2>2, TimelineAssumption DEF ClaimHoldback, Last
      <4> QED
        BY <4>1, <4>2
    <3>3. SumOver(OwedShares(e), Video) <= Owed(e)
      BY <1>6, <3>2 DEF Owed
    <3> QED
      BY <1>2, <1>5, <1>6, <3>1, <3>3
  <2> QED
    BY <2>1, <2>2
<1>8. amount <= campaign.balance
  BY <1>2, <1>3, <1>4, <1>5, <1>7
<1> QED
  BY <1>2, <1>8 DEF Least

\* A claim is paid in full, to the owner of the clip.
LEMMA ClaimPays ==
    ASSUME IInv, RInv, Computed, Accounted, NEW v \in Video, NEW e \in Epoch, NEW amount,
           \/ Claim(v, e) /\ amount = Immediate(v, e)
           \/ ClaimHoldback(v, e) /\ amount = Share(v, e)
    PROVE  /\ \A a \in User \cup {Brand} :
                token'[a] = IF clip[v].owner = a THEN token[a] + amount ELSE token[a]
           /\ campaign'.balance = campaign.balance - amount
           /\ dispute' = dispute
           /\ amount \in Nat
           /\ ~campaign.refunded /\ ~campaign'.refunded
<1>1. amount \in Nat /\ Least(amount, campaign.balance) = amount
  BY ClaimInFull
<1>2. PayOut(clip[v].owner, amount) /\ clip[v].owner \in User /\ ~campaign.refunded
      /\ dispute' = dispute
  BY DEF Claim, ClaimHoldback, CanClaim, ClaimsOpen, IInv, TypeOK, Clip
<1>3. /\ token'[clip[v].owner] = token[clip[v].owner] + amount
      /\ \A b \in Account : b \notin {clip[v].owner, Contract} => token'[b] = token[b]
      /\ campaign'.balance = campaign.balance - amount
      /\ campaign'.refunded = campaign.refunded
  BY <1>1, <1>2, PayOutMoves
<1>4. \A a \in User \cup {Brand} : a \in Account /\ a # Contract
  BY CampaignAssumption DEF Account
<1> QED
  BY <1>1, <1>2, <1>3, <1>4

LEMMA AccountKept ==
    ASSUME IInv, RInv, Computed, Accounted, [Next]_vars, IInv', RInv'
    PROVE  Accounted'
<1> DEFINE w == PaidAt
           z == PaidAt'
           S == VideoEpochs
<1>1. Naturals(w, S) /\ Naturals(z, S) /\ IsFiniteSet(S) /\ SumOver(w, S) \in Nat
  <2>1. (IInv /\ RInv)' => (Naturals(PaidAt, VideoEpochs))'
    BY PaidType, PTL
  <2>2. Naturals(z, S)
    BY <2>1 DEF Naturals, VideoEpochs
  <2> QED
    BY <2>2, PaidType
<1>2. campaign \in CampaignRecord
  BY DEF IInv, TypeOK
<1>3. ASSUME NEW v \in Video, NEW e \in Epoch, NEW amount,
             \/ Claim(v, e) /\ amount = Immediate(v, e)
             \/ ClaimHoldback(v, e) /\ amount = Share(v, e)
      PROVE  Accounted'
  <2>1. /\ amount \in Nat
        /\ z[<<v, e>>] = w[<<v, e>>] + amount
        /\ \A x \in S : x # <<v, e>> => z[x] = w[x]
    BY <1>3, ClaimAdds
  <2>3. ~campaign.refunded /\ ~campaign'.refunded
        /\ campaign'.balance = campaign.balance - amount
    BY <1>3, ClaimPays
  <2>5. <<v, e>> \in S /\ w[<<v, e>>] \in Nat
    BY <1>1 DEF VideoEpochs, Naturals
  <2>6. campaign.balance + SumOver(w, S) = Budget
    BY <2>3 DEF Accounted
  <2> HIDE DEF w, z, S
  <2>7. SumOver(z, S) = SumOver(w, S) - w[<<v, e>>] + z[<<v, e>>]
    BY <1>1, <2>1, <2>5, SumOneChanged
  <2>8. campaign'.balance + SumOver(z, S) = Budget
    BY <1>1, <1>2, <2>1, <2>3, <2>5, <2>6, <2>7 DEF CampaignRecord
  <2> QED
    BY <2>3, <2>8 DEF Accounted, z, S
<1>4. CASE \A v \in Video, e \in Epoch : ~Claim(v, e) /\ ~ClaimHoldback(v, e)
  <2>1. \A x \in S : z[x] = w[x]
    <3>1. ASSUME NEW v \in Video, NEW e \in Epoch
          PROVE  z[<<v, e>>] = w[<<v, e>>]
      BY <1>4, FlagsStay, PaidStays
    <3> QED
      BY <3>1 DEF VideoEpochs
  <2>2. SumOver(z, S) = SumOver(w, S)
    <3> HIDE DEF w, z, S
    <3> QED
      BY <1>1, <2>1, SumSame
  <2>3. CASE Refund
    BY <1>2, <2>3 DEF Refund, Accounted, CampaignRecord
  <2>4. CASE campaign'.balance = campaign.balance /\ campaign'.refunded = campaign.refunded
    <3> HIDE DEF w, z, S
    <3> QED
      BY <2>2, <2>4 DEF Accounted, w, z, S
  <2>5. ASSUME NEW v \in Video, NEW e \in Epoch,
               \/ \E a \in Challenger : Challenge(v, e, a)
               \/ \E b \in BOOLEAN : Closes(v, e, b)
        PROVE  campaign' = campaign
    BY <2>5 DEF Challenge, Closes, Close
  <2> QED
    BY <1>4, <2>3, <2>4, <2>5, MoneyMoves DEF NoMoney
<1> QED
  BY <1>3, <1>4

-----------------------------------------------------------------------------
(***************************************************************************)
(* Wallets.                                                                *)
(***************************************************************************)
Received(u) ==
    [ve \in VideoEpochs |-> IF clip[ve[1]].owner = u THEN PaidAt[ve] ELSE 0]
PostedBy(a) == DisputesBy(a, {"Open", "Responded", "ClipperWon"})

UserReconciles(u) ==
    token[u] + Bond * Cardinality(PostedBy(u))
      = Wallet + SumOver(Received(u), VideoEpochs) + Bond * Cardinality(WonBy(u))
BrandReconciles ==
    token[Brand] + Bond * Cardinality(PostedBy(Brand))
      = Wallet + (IF campaign.refunded THEN Budget - SumOver(PaidAt, VideoEpochs) ELSE 0)
Reconciled == BrandReconciles /\ \A u \in User : UserReconciles(u)

\* What a step does to the bonds an account has posted and not got back.
LEMMA BondsPosted ==
    ASSUME IInv, [Next]_vars, IInv', NEW a \in User \cup {Brand}
    PROVE  LET n == Cardinality(PostedBy(a))
               m == Cardinality(PostedBy(a)')
           IN  /\ n \in Nat /\ m \in Nat
               /\ NoMoney => m = n
               /\ dispute' = dispute => m = n
               /\ \A v \in Video, e \in Epoch, b \in Challenger :
                    Challenge(v, e, b) => m = IF a = b THEN n + 1 ELSE n
               /\ \A v \in Video, e \in Epoch :
                    /\ Closes(v, e, TRUE) => m = n
                    /\ Closes(v, e, FALSE) =>
                         IF a = dispute[v][e].challenger THEN n = m + 1 ELSE m = n
<1> DEFINE D == PostedBy(a)
<1>1. /\ D \subseteq VideoEpochs /\ D' \subseteq VideoEpochs
      /\ dispute \in [Video -> [Epoch -> Dispute]]
      /\ a # Nobody
  BY CampaignAssumption DEF PostedBy, DisputesBy, IInv, TypeOK
<1>2. /\ Cardinality(D) \in Nat /\ Cardinality(D') \in Nat
      /\ IsFiniteSet(D) /\ IsFiniteSet(D')
  BY <1>1, CountedPairs
<1>3. NoMoney => D' = D
  BY DEF NoMoney, PostedBy, DisputesBy, VideoEpochs
<1>4. dispute' = dispute => D' = D
  BY DEF PostedBy, DisputesBy
<1>5. ASSUME NEW v \in Video, NEW e \in Epoch, NEW b \in Challenger, Challenge(v, e, b)
      PROVE  Cardinality(D') = IF a = b THEN Cardinality(D) + 1 ELSE Cardinality(D)
  <2>1. dispute' = [dispute EXCEPT ![v][e] = [status |-> "Open", challenger |-> b]]
        /\ dispute[v][e].status = "None"
    BY <1>5 DEF Challenge
  <2>2. CASE a = b
    <3>1. D' = D \cup {<<v, e>>} /\ <<v, e>> \notin D
      BY <1>1, <2>1, <2>2 DEF PostedBy, DisputesBy, VideoEpochs
    <3> HIDE DEF D
    <3> QED
      BY <1>2, <2>2, <3>1, FS_AddElement
  <2>3. CASE a # b
    <3>1. D' = D
      BY <1>1, <2>1, <2>3 DEF PostedBy, DisputesBy, VideoEpochs
    <3> QED
      BY <2>3, <3>1
  <2> QED
    BY <2>2, <2>3
<1>6. ASSUME NEW v \in Video, NEW e \in Epoch, Closes(v, e, TRUE)
      PROVE  D' = D
  <2>1. dispute' = [dispute EXCEPT ![v][e].status = "ClipperWon"]
        /\ dispute[v][e].status \in {"Open", "Responded"}
    BY <1>6 DEF Closes, Close
  <2> QED
    BY <1>1, <2>1 DEF PostedBy, DisputesBy, VideoEpochs, Dispute
<1>7. ASSUME NEW v \in Video, NEW e \in Epoch, Closes(v, e, FALSE)
      PROVE  IF a = dispute[v][e].challenger THEN Cardinality(D) = Cardinality(D') + 1
             ELSE Cardinality(D') = Cardinality(D)
  <2>1. dispute' = [dispute EXCEPT ![v][e].status = "ChallengerWon"]
        /\ dispute[v][e].status \in {"Open", "Responded"}
    BY <1>7 DEF Closes, Close
  <2>2. CASE a = dispute[v][e].challenger
    <3>1. D' = D \ {<<v, e>>} /\ <<v, e>> \in D
      BY <1>1, <2>1, <2>2 DEF PostedBy, DisputesBy, VideoEpochs, Dispute
    <3> HIDE DEF D
    <3> QED
      BY <1>2, <2>2, <3>1, FS_RemoveElement
  <2>3. CASE a # dispute[v][e].challenger
    <3>1. D' = D
      BY <1>1, <2>1, <2>3 DEF PostedBy, DisputesBy, VideoEpochs, Dispute
    <3> QED
      BY <2>3, <3>1
  <2> QED
    BY <2>2, <2>3
<1> HIDE DEF D
<1>8. /\ NoMoney => Cardinality(D') = Cardinality(D)
      /\ dispute' = dispute => Cardinality(D') = Cardinality(D)
  BY <1>3, <1>4
<1>9. \A v \in Video, e \in Epoch : Closes(v, e, TRUE) => Cardinality(D') = Cardinality(D)
  BY <1>6
<1> QED
  BY <1>2, <1>5, <1>7, <1>8, <1>9 DEF D

\* What a step does to the bonds a clip owner has won.
LEMMA BondsWon ==
    ASSUME IInv, [Next]_vars, IInv', NEW u \in User
    PROVE  LET n == Cardinality(WonBy(u))
               m == Cardinality(WonBy(u)')
           IN  /\ n \in Nat /\ m \in Nat
               /\ NoMoney => m = n
               /\ dispute' = dispute => m = n
               /\ \A v \in Video, e \in Epoch, b \in Challenger :
                    Challenge(v, e, b) => m = n
               /\ \A v \in Video, e \in Epoch :
                    /\ Closes(v, e, FALSE) => m = n
                    /\ Closes(v, e, TRUE) => m = IF clip[v].owner = u THEN n + 1 ELSE n
<1> DEFINE W == WonBy(u)
           won(ve) == dispute[ve[1]][ve[2]].status = "ClipperWon"
           wonNext(ve) == dispute'[ve[1]][ve[2]].status = "ClipperWon"
<1>1. /\ W \subseteq VideoEpochs /\ W' \subseteq VideoEpochs
      /\ dispute \in [Video -> [Epoch -> Dispute]]
      /\ u # Nobody
  BY CampaignAssumption DEF WonBy, IInv, TypeOK
<1>2. /\ Cardinality(W) \in Nat /\ Cardinality(W') \in Nat
      /\ IsFiniteSet(W) /\ IsFiniteSet(W')
  BY <1>1, CountedPairs
<1>3. ASSUME NEW v \in Video, NEW e \in Epoch, dispute[v][e].status # "None"
      PROVE  clip[v].owner # Nobody /\ clip'[v].owner = clip[v].owner
  BY <1>3, ClipKept DEF IInv, EntriesBelong
<1>4. ASSUME \A ve \in VideoEpochs : won(ve) <=> wonNext(ve)
      PROVE  W' = W
  <2>1. \A ve \in VideoEpochs : won(ve) => clip'[ve[1]].owner = clip[ve[1]].owner
    BY <1>3 DEF VideoEpochs
  <2> QED
    BY <1>4, <2>1 DEF WonBy
<1>5. NoMoney => W' = W
  BY <1>4 DEF NoMoney, VideoEpochs
<1>6. dispute' = dispute => W' = W
  BY <1>4
<1>7. ASSUME NEW v \in Video, NEW e \in Epoch, NEW b \in Challenger, Challenge(v, e, b)
      PROVE  W' = W
  <2>1. dispute' = [dispute EXCEPT ![v][e] = [status |-> "Open", challenger |-> b]]
        /\ dispute[v][e].status = "None"
    BY <1>7 DEF Challenge
  <2>2. \A ve \in VideoEpochs : won(ve) <=> wonNext(ve)
    BY <1>1, <2>1 DEF VideoEpochs
  <2> QED
    BY <1>4, <2>2
<1>8. ASSUME NEW v \in Video, NEW e \in Epoch, Closes(v, e, FALSE)
      PROVE  W' = W
  <2>1. dispute' = [dispute EXCEPT ![v][e].status = "ChallengerWon"]
        /\ dispute[v][e].status \in {"Open", "Responded"}
    BY <1>8 DEF Closes, Close
  <2>2. \A ve \in VideoEpochs : won(ve) <=> wonNext(ve)
    BY <1>1, <2>1 DEF VideoEpochs, Dispute
  <2> QED
    BY <1>4, <2>2
<1>9. ASSUME NEW v \in Video, NEW e \in Epoch, Closes(v, e, TRUE)
      PROVE  Cardinality(W') = IF clip[v].owner = u THEN Cardinality(W) + 1
                               ELSE Cardinality(W)
  <2>1. /\ dispute' = [dispute EXCEPT ![v][e].status = "ClipperWon"]
        /\ dispute[v][e].status \in {"Open", "Responded"}
        /\ clip' = clip
    BY <1>9 DEF Closes, Close
  <2>2. CASE clip[v].owner = u
    <3>1. W' = W \cup {<<v, e>>} /\ <<v, e>> \notin W
      BY <1>1, <2>1, <2>2 DEF WonBy, VideoEpochs, Dispute
    <3> HIDE DEF W
    <3> QED
      BY <1>2, <2>2, <3>1, FS_AddElement
  <2>3. CASE clip[v].owner # u
    <3>1. W' = W
      BY <1>1, <2>1, <2>3 DEF WonBy, VideoEpochs, Dispute
    <3> QED
      BY <2>3, <3>1
  <2> QED
    BY <2>2, <2>3
<1> HIDE DEF W
<1>10. /\ NoMoney => Cardinality(W') = Cardinality(W)
       /\ dispute' = dispute => Cardinality(W') = Cardinality(W)
  BY <1>5, <1>6
<1>11. /\ \A v \in Video, e \in Epoch, b \in Challenger :
            Challenge(v, e, b) => Cardinality(W') = Cardinality(W)
       /\ \A v \in Video, e \in Epoch : Closes(v, e, FALSE) => Cardinality(W') = Cardinality(W)
  BY <1>7, <1>8
<1> QED
  BY <1>2, <1>9, <1>10, <1>11 DEF W

LEMMA ReceivedType ==
    ASSUME IInv, RInv, NEW u \in User
    PROVE  Naturals(Received(u), VideoEpochs) /\ SumOver(Received(u), VideoEpochs) \in Nat
<1>1. Naturals(Received(u), VideoEpochs)
  BY PaidType DEF Naturals, Received
<1> QED
  BY <1>1, PaidType, SumType

\* What a step does to what a participant has received.
LEMMA ReceivedMoves ==
    ASSUME IInv, RInv, [Next]_vars, IInv', RInv', NEW u \in User
    PROVE  LET x == SumOver(Received(u), VideoEpochs)
               y == SumOver(Received(u)', VideoEpochs)
           IN  /\ x \in Nat /\ y \in Nat
               /\ (\A v \in Video, e \in Epoch : ~Claim(v, e) /\ ~ClaimHoldback(v, e))
                    => y = x
               /\ \A v \in Video, e \in Epoch, amount \in Nat :
                    (\/ Claim(v, e) /\ amount = Immediate(v, e)
                     \/ ClaimHoldback(v, e) /\ amount = Share(v, e))
                    => y = IF clip[v].owner = u THEN x + amount ELSE x
<1> DEFINE w == Received(u)
           z == Received(u)'
           S == VideoEpochs
<1>1. Naturals(w, S) /\ Naturals(z, S) /\ IsFiniteSet(S)
      /\ SumOver(w, S) \in Nat /\ SumOver(z, S) \in Nat
  <2>1. (IInv /\ RInv)' => (Naturals(Received(u), VideoEpochs)
                              /\ SumOver(Received(u), VideoEpochs) \in Nat)'
    BY ReceivedType, PTL
  <2>2. Naturals(z, S) /\ SumOver(z, S) \in Nat
    BY <2>1 DEF Naturals, VideoEpochs
  <2> QED
    BY <2>2, ReceivedType, PaidType
<1>2. \A v \in Video : u # Nobody /\ (clip[v].owner # Nobody => clip'[v].owner = clip[v].owner)
  BY ClipKept, CampaignAssumption
<1>3. ASSUME NEW v \in Video, NEW e \in Epoch,
             PaidAt'[<<v, e>>] = PaidAt[<<v, e>>]
      PROVE  z[<<v, e>>] = w[<<v, e>>]
  <2>1. <<v, e>> \in S
    BY DEF VideoEpochs
  <2>2. CASE clip[v].owner # Nobody
    BY <1>2, <1>3, <2>1, <2>2 DEF Received, VideoEpochs
  <2>3. CASE clip[v].owner = Nobody
    <3>1. PaidAt[<<v, e>>] = 0
      <4>1. ~clipEpoch[v][e].claimed /\ ~clipEpoch[v][e].holdbackClaimed
        BY <2>3 DEF RInv, FlagsAgree, FlagsOf, IInv, EntriesBelong
      <4> QED
        BY <2>1, <4>1 DEF PaidAt, PaidNow, PaidShares
    <3> QED
      BY <1>3, <2>1, <3>1 DEF Received, VideoEpochs
  <2> QED
    BY <2>2, <2>3
<1>4. ASSUME \A v \in Video, e \in Epoch : ~Claim(v, e) /\ ~ClaimHoldback(v, e)
      PROVE  SumOver(z, S) = SumOver(w, S)
  <2>1. \A v \in Video, e \in Epoch : z[<<v, e>>] = w[<<v, e>>]
    BY <1>3, <1>4, FlagsStay, PaidStays
  <2>2. \A x \in S : z[x] = w[x]
    BY <2>1 DEF VideoEpochs
  <2> HIDE DEF w, z, S
  <2> QED
    BY <1>1, <2>2, SumSame
<1>5. ASSUME NEW v \in Video, NEW e \in Epoch, NEW amount \in Nat,
             \/ Claim(v, e) /\ amount = Immediate(v, e)
             \/ ClaimHoldback(v, e) /\ amount = Share(v, e)
      PROVE  SumOver(z, S) = IF clip[v].owner = u THEN SumOver(w, S) + amount
                             ELSE SumOver(w, S)
  <2>1. /\ PaidAt'[<<v, e>>] = PaidAt[<<v, e>>] + amount
        /\ \A x \in S : x # <<v, e>> => PaidAt'[x] = PaidAt[x]
    BY <1>5, ClaimAdds
  <2>2. <<v, e>> \in S /\ w[<<v, e>>] \in Nat
    BY <1>1 DEF VideoEpochs, Naturals
  <2>3. \A x \in S : x # <<v, e>> => z[x] = w[x]
    BY <1>3, <2>1 DEF VideoEpochs
  <2>4. z[<<v, e>>] = IF clip[v].owner = u THEN w[<<v, e>>] + amount ELSE w[<<v, e>>]
    <3>1. clip'[v].owner = clip[v].owner
      BY <1>5 DEF Claim, ClaimHoldback
    <3> QED
      BY <2>1, <2>2, <3>1 DEF Received, VideoEpochs
  <2> HIDE DEF w, z, S
  <2>5. SumOver(z, S) = SumOver(w, S) - w[<<v, e>>] + z[<<v, e>>]
    BY <1>1, <2>2, <2>3, SumOneChanged
  <2> QED
    BY <1>1, <2>2, <2>4, <2>5
<1> HIDE DEF w, z, S
<1> QED
  BY <1>1, <1>4, <1>5 DEF w, z, S

\* What has been paid in all.
LEMMA PaidInAll ==
    ASSUME IInv, RInv, [Next]_vars, IInv', RInv',
           \A v \in Video, e \in Epoch : ~Claim(v, e) /\ ~ClaimHoldback(v, e)
    PROVE  SumOver(PaidAt', VideoEpochs) = SumOver(PaidAt, VideoEpochs)
<1> DEFINE w == PaidAt
           z == PaidAt'
<1>1. ASSUME NEW v \in Video, NEW e \in Epoch
      PROVE  w[<<v, e>>] = z[<<v, e>>]
  BY FlagsStay, PaidStays
<1>2. \A x \in VideoEpochs : w[x] = z[x]
  BY <1>1 DEF VideoEpochs
<1>3. Naturals(w, VideoEpochs) /\ IsFiniteSet(VideoEpochs)
  BY PaidType
<1> HIDE DEF w, z
<1>4. SumOver(w, VideoEpochs) = SumOver(z, VideoEpochs)
  BY <1>2, <1>3, SumSame
<1> QED
  BY <1>4 DEF w, z

\* The accounts that are not the contract's.
LEMMA Outsiders ==
    ASSUME IInv
    PROVE  /\ \A a \in User \cup {Brand} :
                a \in Account /\ a # Contract /\ token[a] \in Nat
           /\ Contract \in Account /\ token \in [Account -> Nat]
BY CampaignAssumption DEF IInv, TypeOK, Account

\* The refund hands the balance to the brand.
LEMMA RefundPays ==
    ASSUME IInv, Refund
    PROVE  /\ \A u \in User : token'[u] = token[u]
           /\ token'[Brand] = token[Brand] + campaign.balance
           /\ dispute' = dispute
           /\ ~campaign.refunded /\ campaign'.refunded
<1>1. campaign \in CampaignRecord /\ Brand \notin User
  BY CampaignAssumption DEF IInv, TypeOK
<1> QED
  BY <1>1, Outsiders DEF Refund, Transfer, CampaignRecord

\* A challenge takes the bond from the challenger.
LEMMA ChallengeTakes ==
    ASSUME IInv, NEW v \in Video, NEW e \in Epoch, NEW b \in Challenger, Challenge(v, e, b)
    PROVE  /\ \A a \in User \cup {Brand} :
                token'[a] = IF a = b THEN token[a] - Bond ELSE token[a]
           /\ campaign' = campaign
<1>1. b \in User \cup {Brand}
  BY CampaignAssumption
<1> QED
  BY <1>1, Outsiders DEF Challenge, Transfer

\* Closing a dispute hands the bond to its winner.
LEMMA ClosePays ==
    ASSUME IInv, NEW v \in Video, NEW e \in Epoch
    PROVE  /\ Closes(v, e, TRUE) =>
                /\ \A a \in User \cup {Brand} :
                     token'[a] = IF a = clip[v].owner THEN token[a] + Bond ELSE token[a]
                /\ campaign' = campaign
           /\ Closes(v, e, FALSE) =>
                /\ \A a \in User \cup {Brand} :
                     token'[a] = IF a = dispute[v][e].challenger THEN token[a] + Bond
                                 ELSE token[a]
                /\ campaign' = campaign
<1>1. dispute[v][e].status \in {"Open", "Responded"} =>
        clip[v].owner \in User /\ dispute[v][e].challenger \in User \cup {Brand}
  BY DEF IInv, TypeOK, Clip, EntriesBelong
<1>2. \A to \in User \cup {Brand} :
        token' = Transfer(Contract, to, Bond) =>
          \A a \in User \cup {Brand} :
            token'[a] = IF a = to THEN token[a] + Bond ELSE token[a]
  BY Outsiders DEF Transfer
<1> QED
  BY <1>1, <1>2 DEF Closes, Close

\* A wallet goes on to be what its owner had, received, won and posted.
LEMMA UserWalletKept ==
    ASSUME IInv, RInv, Computed, Accounted, [Next]_vars, IInv', RInv',
           NEW u \in User, UserReconciles(u)
    PROVE  UserReconciles(u)'
<1> DEFINE t == token[u]
           t2 == token'[u]
           n == Cardinality(PostedBy(u))
           n2 == Cardinality(PostedBy(u)')
           x == SumOver(Received(u), VideoEpochs)
           x2 == SumOver(Received(u)', VideoEpochs)
           k == Cardinality(WonBy(u))
           k2 == Cardinality(WonBy(u)')
<1>1. t + Bond * n = Wallet + x + Bond * k
  BY DEF UserReconciles
<1>2. UserReconciles(u)' <=> t2 + Bond * n2 = Wallet + x2 + Bond * k2
  BY DEF UserReconciles, VideoEpochs
<1>3. /\ t \in Nat /\ t2 \in Nat /\ n \in Nat /\ n2 \in Nat
      /\ x \in Nat /\ x2 \in Nat /\ k \in Nat /\ k2 \in Nat
      /\ Wallet \in Nat /\ Bond \in Nat
  <2>1. t \in Nat /\ t2 \in Nat
    BY DEF IInv, TypeOK, Account
  <2> QED
    BY <2>1, BondsPosted, BondsWon, ReceivedMoves, CampaignAssumption
<1>4. /\ Bond * (n + 1) = Bond * n + Bond /\ Bond * n \in Nat /\ Bond * n2 \in Nat
      /\ Bond * (n2 + 1) = Bond * n2 + Bond
      /\ Bond * (k + 1) = Bond * k + Bond /\ Bond * k \in Nat /\ Bond * k2 \in Nat
  BY <1>3, OneBondMore
<1>5. ASSUME NEW v \in Video, NEW e \in Epoch, NEW amount,
             \/ Claim(v, e) /\ amount = Immediate(v, e)
             \/ ClaimHoldback(v, e) /\ amount = Share(v, e)
      PROVE  t2 + Bond * n2 = Wallet + x2 + Bond * k2
  <2>1. /\ t2 = IF clip[v].owner = u THEN t + amount ELSE t
        /\ dispute' = dispute
        /\ amount \in Nat
    BY <1>5, ClaimPays
  <2>2. x2 = IF clip[v].owner = u THEN x + amount ELSE x
    BY <1>5, <2>1, ReceivedMoves
  <2>3. n2 = n /\ k2 = k
    BY <2>1, BondsPosted, BondsWon
  <2> HIDE DEF t, t2, n, n2, x, x2, k, k2
  <2> QED
    BY <1>1, <1>3, <1>4, <2>1, <2>2, <2>3
<1>6. ASSUME \A v \in Video, e \in Epoch : ~Claim(v, e) /\ ~ClaimHoldback(v, e)
      PROVE  t2 + Bond * n2 = Wallet + x2 + Bond * k2
  <2>1. x2 = x
    BY <1>6, ReceivedMoves
  <2>2. CASE NoMoney \/ Refund
    <3>1. t2 = t
      BY <2>2, RefundPays DEF NoMoney
    <3>2. NoMoney \/ dispute' = dispute
      BY <2>2, RefundPays
    <3>3. n2 = n /\ k2 = k
      BY <3>2, BondsPosted, BondsWon
    <3> QED
      BY <1>1, <2>1, <3>1, <3>3
  <2>3. ASSUME NEW v \in Video, NEW e \in Epoch, NEW a \in Challenger, Challenge(v, e, a)
        PROVE  t2 + Bond * n2 = Wallet + x2 + Bond * k2
    <3>1. /\ t2 = IF u = a THEN t - Bond ELSE t
          /\ n2 = IF u = a THEN n + 1 ELSE n
          /\ k2 = k
      <4>1. t2 = IF u = a THEN t - Bond ELSE t
        BY <2>3, ChallengeTakes
      <4>2. n2 = IF u = a THEN n + 1 ELSE n
        BY <2>3, BondsPosted
      <4>3. k2 = k
        BY <2>3, BondsWon
      <4> QED
        BY <4>1, <4>2, <4>3
    <3> HIDE DEF t, t2, n, n2, x, x2, k, k2
    <3> QED
      BY <1>1, <1>3, <1>4, <2>1, <3>1
  <2>4. ASSUME NEW v \in Video, NEW e \in Epoch, Closes(v, e, TRUE)
        PROVE  t2 + Bond * n2 = Wallet + x2 + Bond * k2
    <3>1. t2 = IF u = clip[v].owner THEN t + Bond ELSE t
      BY <2>4, ClosePays
    <3>2. k2 = IF clip[v].owner = u THEN k + 1 ELSE k
      BY <2>4, BondsWon
    <3>3. n2 = n
      BY <2>4, BondsPosted
    <3> HIDE DEF t, t2, n, n2, x, x2, k, k2
    <3> QED
      BY <1>1, <1>3, <1>4, <2>1, <3>1, <3>2, <3>3
  <2>5. ASSUME NEW v \in Video, NEW e \in Epoch, Closes(v, e, FALSE)
        PROVE  t2 + Bond * n2 = Wallet + x2 + Bond * k2
    <3>1. t2 = IF u = dispute[v][e].challenger THEN t + Bond ELSE t
      BY <2>5, ClosePays
    <3>2. IF u = dispute[v][e].challenger THEN n = n2 + 1 ELSE n2 = n
      BY <2>5, BondsPosted
    <3>3. k2 = k
      BY <2>5, BondsWon
    <3> HIDE DEF t, t2, n, n2, x, x2, k, k2
    <3> QED
      BY <1>1, <1>3, <1>4, <2>1, <3>1, <3>2, <3>3
  <2> QED
    BY <1>6, <2>2, <2>3, <2>4, <2>5, MoneyMoves
<1> QED
  BY <1>2, <1>5, <1>6

LEMMA BrandWalletKept ==
    ASSUME IInv, RInv, Computed, Accounted, [Next]_vars, IInv', RInv', BrandReconciles
    PROVE  BrandReconciles'
<1> DEFINE t == token[Brand]
           t2 == token'[Brand]
           n == Cardinality(PostedBy(Brand))
           n2 == Cardinality(PostedBy(Brand)')
           x == SumOver(PaidAt, VideoEpochs)
           x2 == SumOver(PaidAt', VideoEpochs)
           back == IF campaign.refunded THEN Budget - x ELSE 0
           back2 == IF campaign'.refunded THEN Budget - x2 ELSE 0
<1>1. t + Bond * n = Wallet + back
  BY DEF BrandReconciles
<1>2. BrandReconciles' <=> t2 + Bond * n2 = Wallet + back2
  BY DEF BrandReconciles, VideoEpochs
<1>3. /\ t \in Nat /\ t2 \in Nat /\ n \in Nat /\ n2 \in Nat
      /\ x \in Nat
      /\ Wallet \in Nat /\ Bond \in Nat /\ Budget \in Nat
      /\ \A v \in Video : clip[v].owner # Brand
      /\ campaign.balance \in Nat
      /\ Brand \in User \cup {Brand}
  <2>1. t \in Nat /\ t2 \in Nat
    BY DEF IInv, TypeOK, Account
  <2>2. n \in Nat /\ n2 \in Nat
    BY BondsPosted
  <2>3. x \in Nat /\ Wallet \in Nat /\ Bond \in Nat /\ Budget \in Nat
    BY PaidType, CampaignAssumption, PayoutAssumption
  <2>4. (\A v \in Video : clip[v].owner # Brand) /\ campaign.balance \in Nat
    BY CampaignAssumption DEF IInv, TypeOK, Clip, CampaignRecord
  <2> QED
    BY <2>1, <2>2, <2>3, <2>4
<1>4. /\ Bond * (n + 1) = Bond * n + Bond /\ Bond * n \in Nat /\ Bond * n2 \in Nat
      /\ Bond * (n2 + 1) = Bond * n2 + Bond
  BY <1>3, OneBondMore
<1>5. ASSUME NEW v \in Video, NEW e \in Epoch, NEW amount,
             \/ Claim(v, e) /\ amount = Immediate(v, e)
             \/ ClaimHoldback(v, e) /\ amount = Share(v, e)
      PROVE  t2 + Bond * n2 = Wallet + back2
  <2>1. t2 = t /\ dispute' = dispute /\ ~campaign.refunded /\ ~campaign'.refunded
    BY <1>3, <1>5, ClaimPays
  <2>2. n2 = n
    BY <2>1, BondsPosted
  <2> QED
    BY <1>1, <2>1, <2>2
<1>6. ASSUME \A v \in Video, e \in Epoch : ~Claim(v, e) /\ ~ClaimHoldback(v, e)
      PROVE  t2 + Bond * n2 = Wallet + back2
  <2>1. x2 = x
    BY <1>6, PaidInAll
  <2>2. CASE NoMoney
    <3>1. t2 = t /\ campaign'.refunded = campaign.refunded
      BY <2>2 DEF NoMoney
    <3>2. n2 = n
      BY <1>3, <2>2, BondsPosted
    <3> QED
      BY <1>1, <2>1, <3>1, <3>2
  <2>3. CASE Refund
    <3>1. /\ t2 = t + campaign.balance /\ dispute' = dispute
          /\ ~campaign.refunded /\ campaign'.refunded
      BY <2>3, RefundPays
    <3>2. n2 = n
      BY <3>1, BondsPosted
    <3>3. campaign.balance + x = Budget
      BY <3>1 DEF Accounted
    <3>4. back = 0 /\ back2 = Budget - x
      BY <2>1, <3>1
    <3> HIDE DEF t, t2, n, n2, x, x2, back, back2
    <3> QED
      BY <1>1, <1>3, <1>4, <3>1, <3>2, <3>3, <3>4
  <2>4. ASSUME NEW v \in Video, NEW e \in Epoch, NEW a \in Challenger, Challenge(v, e, a)
        PROVE  t2 + Bond * n2 = Wallet + back2
    <3>1. /\ t2 = IF Brand = a THEN t - Bond ELSE t
          /\ n2 = IF Brand = a THEN n + 1 ELSE n
          /\ campaign' = campaign
      <4>1. (t2 = IF Brand = a THEN t - Bond ELSE t) /\ campaign' = campaign
        BY <1>3, <2>4, ChallengeTakes
      <4>2. n2 = IF Brand = a THEN n + 1 ELSE n
        BY <1>3, <2>4, BondsPosted
      <4> QED
        BY <4>1, <4>2
    <3>2. back2 = back
      BY <2>1, <3>1
    <3>3. back \in Int
      BY <1>3
    <3> HIDE DEF t, t2, n, n2, x, x2, back, back2
    <3> QED
      BY <1>1, <1>3, <1>4, <3>1, <3>2, <3>3
  <2>5. ASSUME NEW v \in Video, NEW e \in Epoch, Closes(v, e, TRUE)
        PROVE  t2 + Bond * n2 = Wallet + back2
    <3>1. t2 = t /\ campaign' = campaign
      BY <1>3, <2>5, ClosePays
    <3>2. n2 = n
      BY <1>3, <2>5, BondsPosted
    <3> QED
      BY <1>1, <2>1, <3>1, <3>2
  <2>6. ASSUME NEW v \in Video, NEW e \in Epoch, Closes(v, e, FALSE)
        PROVE  t2 + Bond * n2 = Wallet + back2
    <3>1. /\ t2 = IF Brand = dispute[v][e].challenger THEN t + Bond ELSE t
          /\ IF Brand = dispute[v][e].challenger THEN n = n2 + 1 ELSE n2 = n
          /\ campaign' = campaign
      <4>1. (t2 = IF Brand = dispute[v][e].challenger THEN t + Bond ELSE t)
            /\ campaign' = campaign
        BY <1>3, <2>6, ClosePays
      <4>2. IF Brand = dispute[v][e].challenger THEN n = n2 + 1 ELSE n2 = n
        BY <1>3, <2>6, BondsPosted
      <4> QED
        BY <4>1, <4>2
    <3>2. back2 = back
      BY <2>1, <3>1
    <3>3. back \in Int
      BY <1>3
    <3> HIDE DEF t, t2, n, n2, x, x2, back, back2
    <3> QED
      BY <1>1, <1>3, <1>4, <3>1, <3>2, <3>3
  <2> QED
    BY <1>6, <2>2, <2>3, <2>4, <2>5, <2>6, MoneyMoves
<1> QED
  BY <1>2, <1>5, <1>6

-----------------------------------------------------------------------------
(***************************************************************************)
(* The invariant of the money, and what follows from it.                   *)
(***************************************************************************)
MInv == Computed /\ Accounted /\ Reconciled

LEMMA InitMoney == Init => MInv
<1> SUFFICES ASSUME Init PROVE MInv
  OBVIOUS
<1>1. ASSUME NEW v \in Video, NEW e \in Epoch
      PROVE  /\ clipEpoch[v][e] = NoClipEpoch
             /\ dispute[v][e] = NoDispute /\ epoch[e] = NewEpoch
  BY DEF Init
<1>2. Computed
  BY DEF Init, Computed, AsComputed, NewEpoch
<1>3. \A ve \in VideoEpochs : PaidAt[ve] = 0
  BY <1>1 DEF PaidAt, PaidNow, PaidShares, VideoEpochs, NoClipEpoch
<1>4. SumOver(PaidAt, VideoEpochs) = 0 /\ \A u \in User : SumOver(Received(u), VideoEpochs) = 0
  <2>1. \A u \in User : \A ve \in VideoEpochs : Received(u)[ve] = 0
    BY <1>3 DEF Received
  <2> QED
    BY <1>3, <2>1, SumZeros, PairsOfEpochsFinite
<1>5. Accounted
  BY <1>4, PayoutAssumption DEF Init, Accounted
<1>6. \A a \in User \cup {Brand} : PostedBy(a) = {} /\ WonBy(a) = {} /\ token[a] = Wallet
  <2>1. \A a \in User \cup {Brand} : a \in Account /\ a # Contract
    BY CampaignAssumption DEF Account
  <2>2. \A a \in User \cup {Brand} : PostedBy(a) = {} /\ WonBy(a) = {}
    BY <1>1 DEF PostedBy, DisputesBy, WonBy, VideoEpochs, NoDispute
  <2> QED
    BY <2>1, <2>2 DEF Init
<1>7. Bond * 0 = 0 /\ Wallet + 0 = Wallet /\ Wallet + 0 + 0 = Wallet
  BY CampaignAssumption
<1>8. Reconciled
  <2>1. Cardinality({}) = 0 /\ ~campaign.refunded
    BY FS_EmptySet DEF Init
  <2>2. BrandReconciles
    BY <1>6, <1>7, <2>1 DEF BrandReconciles
  <2>3. \A u \in User : UserReconciles(u)
    BY <1>4, <1>6, <1>7, <2>1 DEF UserReconciles
  <2> QED
    BY <2>2, <2>3 DEF Reconciled
<1> QED
  BY <1>2, <1>5, <1>8 DEF MInv

LEMMA NextMoney ==
    ASSUME IInv, RInv, MInv, [Next]_vars, IInv', RInv'
    PROVE  MInv'
<1>1. Computed'
  BY ComputedKept DEF MInv
<1>2. Accounted'
  BY AccountKept DEF MInv
<1>3. Reconciled'
  <2>1. BrandReconciles'
    BY BrandWalletKept DEF MInv, Reconciled
  <2>2. \A u \in User : UserReconciles(u)'
    BY UserWalletKept DEF MInv, Reconciled
  <2> QED
    BY <2>1, <2>2 DEF Reconciled
<1> QED
  BY <1>1, <1>2, <1>3 DEF MInv

\* Settlements stay as they were computed, the balance and what has been paid
\* make up the budget, and no wallet holds a token it cannot explain.
THEOREM MoneyInvariance == Spec => []MInv
<1>1. IInv /\ RInv /\ MInv /\ [Next]_vars /\ IInv' /\ RInv' => MInv'
  BY NextMoney
<1> QED
  BY <1>1, InitMoney, Invariance, RecordInvariance, PTL DEF Spec

\* What the claimed flags of some clips stand for, as PaidFor writes it.
LEMMA PaidForIs ==
    ASSUME IInv, RInv, NEW vs \in SUBSET Video
    PROVE  PaidFor(vs) = SumOver([ve \in VideoEpochs |->
                                    IF ve[1] \in vs THEN PaidAt[ve] ELSE 0], VideoEpochs)
<1> DEFINE S == VideoEpochs
           claimed(ve) == clipEpoch[ve[1]][ve[2]].claimed
           shared(ve) == clipEpoch[ve[1]][ve[2]].holdbackClaimed
           A == {ve \in vs \X Epoch : claimed(ve)}
           B == {ve \in vs \X Epoch : shared(ve)}
           a == [ve \in S |-> IF claimed(ve) THEN Immediate(ve[1], ve[2]) ELSE 0]
           b == [ve \in S |-> IF shared(ve) THEN Share(ve[1], ve[2]) ELSE 0]
           aIn == [ve \in S |-> IF ve \in A THEN a[ve] ELSE 0]
           bIn == [ve \in S |-> IF ve \in B THEN b[ve] ELSE 0]
           both == [ve \in S |-> IF ve[1] \in vs THEN PaidAt[ve] ELSE 0]
<1>1. A \in SUBSET S /\ B \in SUBSET S /\ IsFiniteSet(S)
  BY PairsOfEpochsFinite DEF VideoEpochs
<1>2. ASSUME NEW ve \in S
      PROVE  /\ PaidAt[ve] = a[ve] + b[ve]
             /\ a[ve] \in Nat /\ b[ve] \in Nat
  <2>1. ve[1] \in Video /\ ve[2] \in Epoch
    BY DEF VideoEpochs
  <2>2. a[ve] = PaidNow(ve[2])[ve[1]] /\ b[ve] = PaidShares(ve[2])[ve[1]]
    BY <2>1 DEF PaidNow, PaidShares
  <2>3. Naturals(PaidNow(ve[2]), Video) /\ Naturals(PaidShares(ve[2]), Video)
    BY <2>1, PaidAndOwed
  <2> QED
    BY <2>1, <2>2, <2>3 DEF Naturals, PaidAt
<1>3. Naturals(a, S) /\ Naturals(b, S)
  <2> HIDE DEF a, b
  <2> QED
    BY <1>2 DEF Naturals
<1>4. \A ve \in S : both[ve] = aIn[ve] + bIn[ve] /\ aIn[ve] \in Nat /\ bIn[ve] \in Nat
  <2>1. ASSUME NEW ve \in S
        PROVE  both[ve] = aIn[ve] + bIn[ve] /\ aIn[ve] \in Nat /\ bIn[ve] \in Nat
    <3>1. ve[1] \in vs => (ve \in A <=> claimed(ve)) /\ (ve \in B <=> shared(ve))
      BY DEF VideoEpochs
    <3>2. ve[1] \notin vs => ve \notin A /\ ve \notin B
      OBVIOUS
    <3>3. ve \notin A /\ ve[1] \in vs => a[ve] = 0
      BY <3>1
    <3>4. ve \notin B /\ ve[1] \in vs => b[ve] = 0
      BY <3>1
    <3> HIDE DEF A, B, a, b
    <3> QED
      BY <1>2, <3>1, <3>2, <3>3, <3>4
  <2> QED
    BY <2>1
<1>5. \A ve \in A : a[ve] = Immediate(ve[1], ve[2])
  BY <1>1
<1>6. \A ve \in B : b[ve] = Share(ve[1], ve[2])
  BY <1>1
<1>7. MapThenSumSet(LAMBDA ve : Immediate(ve[1], ve[2]), A) = SumOver(a, A)
  <2> HIDE DEF A, a
  <2>1. \A s \in SUBSET A : s # {} =>
          a[CHOOSE x \in s : TRUE]
            = Immediate((CHOOSE x \in s : TRUE)[1], (CHOOSE x \in s : TRUE)[2])
    BY <1>5
  <2>2. ASSUME NEW g
        PROVE  IsSum(g, a, A) <=>
                 g = [s \in SUBSET A |-> IF s = {} THEN 0
                        ELSE Immediate((CHOOSE x \in s : TRUE)[1], (CHOOSE x \in s : TRUE)[2])
                               + g[s \ {CHOOSE x \in s : TRUE}]]
    BY <2>1 DEF IsSum, Chosen
  <2> QED
    BY <2>2, SumOverIs DEF MapThenSumSet, MapThenFoldSet
<1>8. MapThenSumSet(LAMBDA ve : Share(ve[1], ve[2]), B) = SumOver(b, B)
  <2> HIDE DEF B, b
  <2>1. \A s \in SUBSET B : s # {} =>
          b[CHOOSE x \in s : TRUE]
            = Share((CHOOSE x \in s : TRUE)[1], (CHOOSE x \in s : TRUE)[2])
    BY <1>6
  <2>2. ASSUME NEW g
        PROVE  IsSum(g, b, B) <=>
                 g = [s \in SUBSET B |-> IF s = {} THEN 0
                        ELSE Share((CHOOSE x \in s : TRUE)[1], (CHOOSE x \in s : TRUE)[2])
                               + g[s \ {CHOOSE x \in s : TRUE}]]
    BY <2>1 DEF IsSum, Chosen
  <2> QED
    BY <2>2, SumOverIs DEF MapThenSumSet, MapThenFoldSet
<1>9. PaidFor(vs) = SumOver(a, A) + SumOver(b, B)
  BY <1>7, <1>8 DEF PaidFor
<1>10. SumOver(a, A) = SumOver(aIn, S) /\ SumOver(b, B) = SumOver(bIn, S)
  <2> HIDE DEF A, B, a, b, S
  <2> QED
    BY <1>1, <1>3, SumOfPart
<1> HIDE DEF A, B, a, b, aIn, bIn, both
<1>11. SumOver(both, S) = SumOver(aIn, S) + SumOver(bIn, S)
  <2>1. Naturals(aIn, S) /\ Naturals(bIn, S)
    BY <1>4 DEF Naturals
  <2> QED
    BY <1>1, <1>4, <2>1, SumPlus
<1>12. PaidFor(vs) = SumOver(both, S)
  BY <1>9, <1>10, <1>11
<1> QED
  BY <1>12 DEF both

\* A wallet is what its owner had, every claim in full, the bonds won as the
\* owner of a challenged clip, less the bonds posted and not returned; the brand
\* has in addition what the refund left over.
THEOREM WalletsReconcile == Spec => []EveryWalletReconciles
<1>1. IInv /\ RInv /\ MInv => EveryWalletReconciles
  <2> SUFFICES ASSUME IInv, RInv, MInv PROVE EveryWalletReconciles
    OBVIOUS
  <2>1. ASSUME NEW a \in User \cup {Brand}
        PROVE  /\ token[a] \in Int
               /\ Bond * Cardinality(PostedBy(a)) \in Nat
               /\ Bond * Cardinality(WonBy(a)) \in Nat
    <3>1. PostedBy(a) \subseteq VideoEpochs /\ WonBy(a) \subseteq VideoEpochs
      BY DEF PostedBy, DisputesBy, WonBy
    <3>2. a \in Account
      BY DEF Account
    <3>3. Cardinality(PostedBy(a)) \in Nat /\ Cardinality(WonBy(a)) \in Nat
      BY <3>1, CountedPairs
    <3>4. token[a] \in Int
      BY <3>2 DEF IInv, TypeOK
    <3> QED
      BY <3>3, <3>4, OneBondMore
  <2>2. ASSUME NEW u \in User
        PROVE  token[u] = Wallet + PaidFor(ClipsOf(u)) + Bond * Cardinality(WonBy(u))
                 - Bond * Cardinality(DisputesBy(u, {"Open", "Responded", "ClipperWon"}))
    <3>1. ClipsOf(u) \in SUBSET Video
      BY DEF ClipsOf
    <3>2. Received(u) = [ve \in VideoEpochs |-> IF ve[1] \in ClipsOf(u) THEN PaidAt[ve] ELSE 0]
      BY DEF Received, ClipsOf, VideoEpochs
    <3>3. PaidFor(ClipsOf(u)) = SumOver(Received(u), VideoEpochs)
      BY <3>1, <3>2, PaidForIs
    <3>4. SumOver(Received(u), VideoEpochs) \in Nat
      BY ReceivedType
    <3>5. UserReconciles(u)
      BY DEF MInv, Reconciled
    <3> DEFINE n == Bond * Cardinality(PostedBy(u))
               x == SumOver(Received(u), VideoEpochs)
               k == Bond * Cardinality(WonBy(u))
               t == token[u]
    <3>6. t + n = Wallet + x + k /\ n \in Nat /\ x \in Nat /\ k \in Nat /\ t \in Int
      BY <2>1, <3>4, <3>5 DEF UserReconciles
    <3> HIDE DEF n, x, k, t
    <3>7. t = Wallet + x + k - n
      BY <3>6, CampaignAssumption
    <3> QED
      BY <3>3, <3>7 DEF n, x, k, t, PostedBy
  <2>3. token[Brand] =
          Wallet + (IF campaign.refunded THEN Budget - PaidFor(Video) ELSE 0)
            - Bond * Cardinality(DisputesBy(Brand, {"Open", "Responded", "ClipperWon"}))
    <3> DEFINE all == [ve \in VideoEpochs |-> IF ve[1] \in Video THEN PaidAt[ve] ELSE 0]
    <3>1. PaidFor(Video) = SumOver(all, VideoEpochs)
      BY PaidForIs
    <3>2. \A ve \in VideoEpochs : PaidAt[ve] = all[ve]
      BY DEF VideoEpochs
    <3> HIDE DEF all
    <3>3. PaidFor(Video) = SumOver(PaidAt, VideoEpochs) /\ SumOver(PaidAt, VideoEpochs) \in Nat
      BY <3>1, <3>2, PaidType, SumSame
    <3>4. BrandReconciles
      BY DEF MInv, Reconciled
    <3> DEFINE n == Bond * Cardinality(PostedBy(Brand))
               back == IF campaign.refunded THEN Budget - SumOver(PaidAt, VideoEpochs) ELSE 0
               t == token[Brand]
    <3>5. t + n = Wallet + back /\ n \in Nat /\ back \in Int /\ t \in Int
      BY <2>1, <3>3, <3>4, PayoutAssumption DEF BrandReconciles
    <3>6. back = IF campaign.refunded THEN Budget - PaidFor(Video) ELSE 0
      BY <3>3
    <3> HIDE DEF n, back, t
    <3>7. t = Wallet + back - n
      BY <3>5, CampaignAssumption
    <3> QED
      BY <3>6, <3>7 DEF n, t, PostedBy
  <2> QED
    BY <2>2, <2>3 DEF EveryWalletReconciles
<1> QED
  BY <1>1, Invariance, RecordInvariance, MoneyInvariance, PTL

\* What a settled epoch may still have to pay, as OwedFor writes it.
LEMMA OwedForIs ==
    ASSUME IInv, RInv, NEW e \in Epoch
    PROVE  OwedFor(e) = Owed(e)
<1> DEFINE A == {v \in Video : clip[v].owner # Nobody /\ ~clipEpoch[v][e].claimed}
           B == {v \in Video : /\ clipEpoch[v][e].alive
                               /\ ~clipEpoch[v][e].holdbackClaimed
                               /\ epoch[e].heldSurvived # 0}
           a == OwedNow(e)
           b == OwedShares(e)
<1>1. A \in SUBSET Video /\ B \in SUBSET Video /\ IsFiniteSet(Video)
      /\ Naturals(a, Video) /\ Naturals(b, Video)
  BY PaidAndOwed, CampaignAssumption
<1>2. \A v \in A : a[v] = Immediate(v, e)
  BY DEF OwedNow
<1>3. \A v \in B : b[v] = Share(v, e)
  BY DEF OwedShares, Shared
<1>4. a = [v \in Video |-> IF v \in A THEN a[v] ELSE 0]
  BY DEF OwedNow
<1>5. b = [v \in Video |-> IF v \in B THEN b[v] ELSE 0]
  BY DEF OwedShares, Shared
<1>6. MapThenSumSet(LAMBDA v : Immediate(v, e), A) = SumOver(a, A)
  <2> HIDE DEF A, a
  <2>1. \A s \in SUBSET A : s # {} =>
          a[CHOOSE x \in s : TRUE] = Immediate(CHOOSE x \in s : TRUE, e)
    BY <1>2
  <2>2. ASSUME NEW g
        PROVE  IsSum(g, a, A) <=>
                 g = [s \in SUBSET A |-> IF s = {} THEN 0
                        ELSE Immediate(CHOOSE x \in s : TRUE, e)
                               + g[s \ {CHOOSE x \in s : TRUE}]]
    BY <2>1 DEF IsSum, Chosen
  <2> QED
    BY <2>2, SumOverIs DEF MapThenSumSet, MapThenFoldSet
<1>7. MapThenSumSet(LAMBDA v : Share(v, e), B) = SumOver(b, B)
  <2> HIDE DEF B, b
  <2>1. \A s \in SUBSET B : s # {} =>
          b[CHOOSE x \in s : TRUE] = Share(CHOOSE x \in s : TRUE, e)
    BY <1>3
  <2>2. ASSUME NEW g
        PROVE  IsSum(g, b, B) <=>
                 g = [s \in SUBSET B |-> IF s = {} THEN 0
                        ELSE Share(CHOOSE x \in s : TRUE, e)
                               + g[s \ {CHOOSE x \in s : TRUE}]]
    BY <2>1 DEF IsSum, Chosen
  <2> QED
    BY <2>2, SumOverIs DEF MapThenSumSet, MapThenFoldSet
<1>8. SumOver(a, A) = SumOver(a, Video) /\ SumOver(b, B) = SumOver(b, Video)
  <2> HIDE DEF A, B, a, b
  <2> QED
    BY <1>1, <1>4, <1>5, SumOfPart
<1> QED
  BY <1>6, <1>7, <1>8 DEF OwedFor, Owed

\* Until the refund the balance covers every claim still to come and leaves the
\* whole budget of the epochs to settle, carry included.
THEOREM AlwaysSolvent == Spec => []SolventToTheLast
<1>1. IInv /\ RInv /\ MInv => SolventToTheLast
  <2> SUFFICES ASSUME IInv, RInv, MInv, ~campaign.refunded
               PROVE  campaign.balance >=
                        MapThenSumSet(OwedFor, 0 .. campaign.settledEpochs - 1)
                          + MapThenSumSet(BaseBudget, campaign.settledEpochs .. Last)
                          + LeftAfter(campaign.settledEpochs)
    BY DEF SolventToTheLast, LeftAfter
  <2> DEFINE s == campaign.settledEpochs
             T == 0 .. s - 1
             U == s .. Last
             w == OwedBySettled
  <2>1. T \in SUBSET Epoch /\ U \in SUBSET Epoch
    BY EpochType DEF Epoch, Last, IInv, TypeOK, CampaignRecord
  <2>2. /\ campaign.balance >= SumOver(w, Epoch) + SumOver(BaseOf, U) + LeftAfter(s)
        /\ Naturals(w, Epoch) /\ IsFiniteSet(Epoch)
    BY Solvent, BudgetDivided DEF MInv
  <2>3. \A k \in Epoch : k \in T <=> k < s
    BY EpochType DEF IInv, TypeOK, CampaignRecord
  <2>4. \A k \in T : w[k] = OwedFor(k)
    BY <2>1, <2>3, OwedForIs DEF OwedBySettled
  <2>5. w = [k \in Epoch |-> IF k \in T THEN w[k] ELSE 0]
    BY <2>3 DEF OwedBySettled
  <2> HIDE DEF T, U, w
  <2>6. MapThenSumSet(OwedFor, T) = SumOver(w, T)
    <3>1. \A t \in SUBSET T : t # {} =>
            w[CHOOSE x \in t : TRUE] = OwedFor(CHOOSE x \in t : TRUE)
      BY <2>4
    <3>2. ASSUME NEW g
          PROVE  IsSum(g, w, T) <=>
                   g = [t \in SUBSET T |-> IF t = {} THEN 0
                          ELSE OwedFor(CHOOSE x \in t : TRUE)
                                 + g[t \ {CHOOSE x \in t : TRUE}]]
      BY <3>1 DEF IsSum, Chosen
    <3> QED
      BY <3>2, SumOverIs DEF MapThenSumSet, MapThenFoldSet
  <2>7. MapThenSumSet(BaseBudget, U) = SumOver(BaseOf, U)
    <3>1. \A t \in SUBSET U : t # {} =>
            BaseOf[CHOOSE x \in t : TRUE] = BaseBudget(CHOOSE x \in t : TRUE)
      BY <2>1 DEF BaseOf
    <3>2. ASSUME NEW g
          PROVE  IsSum(g, BaseOf, U) <=>
                   g = [t \in SUBSET U |-> IF t = {} THEN 0
                          ELSE BaseBudget(CHOOSE x \in t : TRUE)
                                 + g[t \ {CHOOSE x \in t : TRUE}]]
      BY <3>1 DEF IsSum, Chosen
    <3> QED
      BY <3>2, SumOverIs DEF MapThenSumSet, MapThenFoldSet
  <2>8. SumOver(w, T) = SumOver(w, Epoch)
    BY <2>1, <2>2, <2>5, SumOfPart
  <2> QED
    BY <2>2, <2>6, <2>7, <2>8 DEF T, U
<1> QED
  BY <1>1, Invariance, RecordInvariance, MoneyInvariance, PTL

-----------------------------------------------------------------------------
(***************************************************************************)
(* Everything that is fixed fits the budget.                               *)
(***************************************************************************)
FixedSet == {c \in Entitlements : Fixed(c)}
DueOf == [c \in Entitlements |-> IF Fixed(c) THEN Due(c) ELSE 0]
PaidSet == {c \in Entitlements : PaidOut(c)}

\* The escrow's sums are those of module Sums.
LEMMA TotalIs ==
    ASSUME NEW w, NEW S
    PROVE  Promise!Total(w, S) = SumOver(w, S)
<1>1. ASSUME NEW g
      PROVE  IsSum(g, w, S) <=>
               g = [s \in SUBSET S |-> IF s = {} THEN 0
                      ELSE w[CHOOSE x \in s : TRUE] + g[s \ {CHOOSE x \in s : TRUE}]]
  BY DEF IsSum, Chosen
<1> QED
  BY <1>1, SumOverIs
  DEF Promise!Total, Promise!MapThenSumSet, Promise!MapThenFoldSet

LEMMA PromisedIs ==
    Promise!Promised = SumOver(DueOf, FixedSet)
<1>1. Promise!Promised = Promise!Total(DueOf, FixedSet)
  BY DEF Promise!Promised, DueOf, FixedSet
<1> QED
  BY <1>1, TotalIs

SpentWhenSettled == [k \in Epoch |-> IF epoch[k].settled THEN epoch[k].spent ELSE 0]

LEMMA SpentFitsBudget ==
    ASSUME Dividing
    PROVE  Naturals(SpentWhenSettled, Epoch) /\ SumOver(SpentWhenSettled, Epoch) <= Budget
<1> DEFINE s == campaign.settledEpochs
           T == 0 .. s - 1
           w == SpentWhenSettled
<1>1. s \in 0 .. Epochs /\ s \in 0 .. s /\ Epochs \in Nat /\ T \in SUBSET Epoch
  BY EpochType DEF Epoch, Dividing
<1>2. Naturals(SpentOf, Epoch) /\ Naturals(BaseOf, Epoch) /\ IsFiniteSet(Epoch)
      /\ SumOver(BaseOf, Epoch) = Budget
  BY SpentType, BudgetDivided
<1>3. w = [k \in Epoch |-> IF k \in T THEN SpentOf[k] ELSE 0]
  <2>1. \A k \in Epoch : epoch[k].settled <=> k \in T
    BY <1>1, EpochType DEF Dividing, SettledInOrder
  <2> QED
    BY <2>1 DEF SpentWhenSettled, SpentOf
<1>4. SumOver(SpentOf, T) + LeftAfter(s) = SumOver(BaseOf, T) /\ LeftAfter(s) \in Nat
  BY <1>1, CarriesOn
<1>5. Naturals(w, Epoch)
  BY <1>2 DEF Naturals, SpentWhenSettled, SpentOf
<1> HIDE DEF T, w
<1>6. SumOver(w, Epoch) = SumOver(SpentOf, T)
  BY <1>1, <1>2, <1>3, SumOfPart
<1>7. SumOver(BaseOf, T) <= Budget
  BY <1>1, <1>2, SumPart
<1>8. SumOver(SpentOf, T) \in Nat /\ SumOver(BaseOf, T) \in Nat
  <2>1. IsFiniteSet(T) /\ Naturals(SpentOf, T) /\ Naturals(BaseOf, T)
    BY <1>1, <1>2, FS_Subset DEF Naturals
  <2> QED
    BY <2>1, SumType
<1>9. SumOver(SpentOf, T) <= Budget
  BY <1>4, <1>7, <1>8, PayoutAssumption
<1> QED
  BY <1>5, <1>6, <1>9 DEF w

\* What is due of one kind in one epoch.
Kind == {"now", "held"}
ColumnOf(k, kind) == {c \in Entitlements : c[2] = k /\ c[3] = kind}
DueIn(k, kind) == [v \in Video |-> DueOf[<<v, k, kind>>]]

LEMMA DueType ==
    ASSUME IInv, RInv
    PROVE  /\ Naturals(DueOf, Entitlements)
           /\ IsFiniteSet(Entitlements)
           /\ \A v \in Video, k \in Epoch :
                /\ DueOf[<<v, k, "now">>] = IF epoch[k].settled THEN NowIn(k)[v] ELSE 0
                /\ DueOf[<<v, k, "held">>] <= IF epoch[k].settled THEN SharesIn(k)[v] ELSE 0
<1>1. ASSUME NEW v \in Video, NEW k \in Epoch
      PROVE  /\ DueOf[<<v, k, "now">>] = IF epoch[k].settled THEN NowIn(k)[v] ELSE 0
             /\ DueOf[<<v, k, "held">>] <= IF epoch[k].settled THEN SharesIn(k)[v] ELSE 0
             /\ DueOf[<<v, k, "now">>] \in Nat
             /\ DueOf[<<v, k, "held">>] \in Nat
  <2>1. NowIn(k)[v] \in Nat /\ SharesIn(k)[v] \in Nat
    BY AmountsType DEF RInv, Naturals
  <2>2. <<v, k, "now">> \in Entitlements /\ <<v, k, "held">> \in Entitlements
    BY DEF Entitlements
  <2>3. DueOf[<<v, k, "now">>] = IF epoch[k].settled THEN NowIn(k)[v] ELSE 0
    BY <2>2 DEF DueOf, Fixed, Due, NowIn
  <2>4. \/ DueOf[<<v, k, "held">>] = 0
        \/ epoch[k].settled /\ DueOf[<<v, k, "held">>] = SharesIn(k)[v]
    BY <2>2 DEF DueOf, Fixed, Due, SharesIn, Shared
  <2> HIDE DEF NowIn, SharesIn
  <2> QED
    BY <2>1, <2>3, <2>4
<1>2. Naturals(DueOf, Entitlements)
  <2>1. ASSUME NEW c \in Entitlements
        PROVE  DueOf[c] \in Nat
    <3>1. PICK v \in Video, k \in Epoch : c = <<v, k, "now">> \/ c = <<v, k, "held">>
      BY DEF Entitlements
    <3> QED
      BY <1>1, <3>1
  <2> QED
    BY <2>1 DEF Naturals
<1>3. IsFiniteSet(Entitlements)
  <2> DEFINE P == VideoEpochs \X Kind
             f == [x \in P |-> <<x[1][1], x[1][2], x[2]>>]
  <2>1. IsFiniteSet(Kind)
    <3>1. IsFiniteSet({"now"}) /\ Kind = {"now"} \cup {"held"}
      BY FS_Singleton DEF Kind
    <3> QED
      BY <3>1, FS_AddElement
  <2>2. IsFiniteSet(P)
    BY <2>1, PairsOfEpochsFinite, PairsFinite
  <2>3. f \in Surjection(P, Entitlements)
    <3>1. \A x \in P : f[x] \in Entitlements
      BY DEF VideoEpochs, Entitlements, Kind
    <3>2. ASSUME NEW c \in Entitlements
          PROVE  \E x \in P : f[x] = c
      <4>1. PICK v \in Video, k \in Epoch, kind \in Kind : c = <<v, k, kind>>
        BY DEF Entitlements, Kind
      <4>2. <<<<v, k>>, kind>> \in P
        BY DEF VideoEpochs
      <4>3. f[<<<<v, k>>, kind>>] = c
        BY <4>1, <4>2
      <4> QED
        BY <4>2, <4>3
    <3>3. f \in [P -> Entitlements]
      BY <3>1
    <3> HIDE DEF P, f
    <3> QED
      BY <3>2, <3>3 DEF Surjection
  <2> HIDE DEF P, f
  <2> QED
    BY <2>2, <2>3, FS_Surjection
<1> QED
  BY <1>1, <1>2, <1>3

LEMMA ColumnSum ==
    ASSUME IInv, RInv, NEW k \in Epoch, NEW kind \in Kind
    PROVE  /\ SumOver(DueOf, ColumnOf(k, kind)) = SumOver(DueIn(k, kind), Video)
           /\ Naturals(DueIn(k, kind), Video)
<1> DEFINE T == ColumnOf(k, kind)
           f == [v \in Video |-> <<v, k, kind>>]
           w == DueIn(k, kind)
<1>1. f \in Bijection(Video, T)
  <2>1. \A v \in Video : f[v] \in T
    BY DEF ColumnOf, Entitlements, Kind
  <2>2. \A c \in T : c[1] \in Video /\ f[c[1]] = c
    BY DEF ColumnOf, Entitlements
  <2>3. \A v, u \in Video : f[v] = f[u] => v = u
    OBVIOUS
  <2>4. f \in [Video -> T]
    BY <2>1
  <2> HIDE DEF T, f
  <2> QED
    BY <2>2, <2>3, <2>4 DEF Bijection, Injection, Surjection, IsInjective
<1>2. \A v \in Video : DueOf[f[v]] = w[v] /\ w[v] \in Nat
  <2>1. \A v \in Video : <<v, k, kind>> \in Entitlements
    BY DEF Entitlements, Kind
  <2> QED
    BY <2>1, DueType DEF DueIn, Naturals
<1>3. Naturals(w, Video)
  BY <1>2 DEF Naturals
<1> HIDE DEF f, w, T
<1>4. SumOver(DueOf, T) = SumOver(w, Video)
  BY <1>1, <1>2, <1>3, SumRenamed, CampaignAssumption
<1> QED
  BY <1>3, <1>4 DEF w, T

\* All that is fixed can be paid out of the budget.
LEMMA PromisedFits ==
    ASSUME IInv, RInv, MInv
    PROVE  Promise!Promised <= Budget
<1> DEFINE E == Entitlements
           key == [c \in E |-> c[2]]
           byEpoch == [k \in Epoch |-> SumOver(DueOf, {c \in E : key[c] = k})]
<1>0. IsFiniteSet(Epoch) /\ IsFiniteSet(Video)
  BY BudgetDivided, CampaignAssumption
<1>1. Naturals(DueOf, E) /\ IsFiniteSet(E) /\ \A c \in E : key[c] \in Epoch
  BY DueType DEF Entitlements
<1>2. Promise!Promised = SumOver(DueOf, E)
  <2>1. DueOf = [c \in E |-> IF c \in FixedSet THEN DueOf[c] ELSE 0] /\ FixedSet \in SUBSET E
    BY DEF DueOf, FixedSet
  <2> HIDE DEF E
  <2> QED
    BY <1>1, <2>1, SumOfPart, PromisedIs
<1>3. SumOver(DueOf, E) = SumOver(byEpoch, Epoch)
  <2> HIDE DEF E, key
  <2> QED
    BY <1>0, <1>1, SumGroups
<1>4. ASSUME NEW k \in Epoch
      PROVE  byEpoch[k] \in Nat /\ byEpoch[k] <= SpentWhenSettled[k]
  <2> DEFINE A == ColumnOf(k, "now")
             B == ColumnOf(k, "held")
             a == DueIn(k, "now")
             b == DueIn(k, "held")
  <2>1. {c \in E : key[c] = k} = A \cup B /\ A \cap B = {} /\ A \cup B \in SUBSET E
        /\ A \in SUBSET E /\ B \in SUBSET E
    BY DEF ColumnOf, Entitlements
  <2>2. SumOver(DueOf, A) = SumOver(a, Video) /\ SumOver(DueOf, B) = SumOver(b, Video)
        /\ Naturals(a, Video) /\ Naturals(b, Video)
    BY ColumnSum DEF Kind
  <2>3. \A v \in Video :
          /\ a[v] = IF epoch[k].settled THEN NowIn(k)[v] ELSE 0
          /\ b[v] <= IF epoch[k].settled THEN SharesIn(k)[v] ELSE 0
    BY DueType DEF DueIn
  <2>4. Naturals(NowIn(k), Video) /\ Naturals(SharesIn(k), Video)
    BY AmountsType DEF RInv
  <2>5. byEpoch[k] = SumOver(DueOf, A \cup B)
    BY <2>1
  <2>6. SpentWhenSettled[k] = IF epoch[k].settled THEN epoch[k].spent ELSE 0
    BY DEF SpentWhenSettled
  <2> HIDE DEF E, A, B, a, b, byEpoch
  <2>7. SumOver(DueOf, A \cup B) = SumOver(DueOf, A) + SumOver(DueOf, B)
    <3>1. IsFiniteSet(A) /\ IsFiniteSet(B) /\ Naturals(DueOf, A \cup B)
      BY <1>1, <2>1, FS_Subset DEF Naturals
    <3> QED
      BY <2>1, <3>1, SumJoin
  <2>8. SumOver(a, Video) \in Nat /\ SumOver(b, Video) \in Nat
    BY <1>0, <2>2, SumType
  <2>9. CASE epoch[k].settled
    <3>1. SumOver(a, Video) = SumOver(NowIn(k), Video)
      BY <1>0, <2>2, <2>3, <2>9, SumSame
    <3>2. SumOver(b, Video) <= SumOver(SharesIn(k), Video)
      BY <1>0, <2>2, <2>3, <2>4, <2>9, SumMonotone
    <3>3. /\ SumOver(NowIn(k), Video) + epoch[k].heldTotal <= epoch[k].spent
          /\ SumOver(SharesIn(k), Video) <= epoch[k].heldTotal
          /\ SumOver(SharesIn(k), Video) \in Nat
      BY <2>9, ClaimsFit DEF MInv
    <3>4. epoch[k].heldTotal \in Nat /\ epoch[k].spent \in Nat
      BY DEF IInv, TypeOK, EpochState
    <3> QED
      BY <2>2, <2>5, <2>6, <2>7, <2>8, <2>9, <3>1, <3>2, <3>3, <3>4
  <2>10. CASE ~epoch[k].settled
    <3>1. \A v \in Video : a[v] = 0 /\ b[v] = 0
      BY <2>2, <2>3, <2>10 DEF Naturals
    <3>2. SumOver(a, Video) = 0 /\ SumOver(b, Video) = 0
      BY <1>0, <3>1, SumZeros
    <3> QED
      BY <2>2, <2>5, <2>6, <2>7, <2>10, <3>2
  <2> QED
    BY <2>9, <2>10
<1>5. Naturals(byEpoch, Epoch) /\ \A k \in Epoch : byEpoch[k] <= SpentWhenSettled[k]
  BY <1>4 DEF Naturals
<1>6. Naturals(SpentWhenSettled, Epoch) /\ SumOver(SpentWhenSettled, Epoch) <= Budget
  BY SpentFitsBudget, SettlementsDivide DEF MInv
<1> HIDE DEF byEpoch
<1>7. SumOver(byEpoch, Epoch) <= SumOver(SpentWhenSettled, Epoch)
  BY <1>0, <1>5, <1>6, SumMonotone
<1>8. SumOver(byEpoch, Epoch) \in Nat /\ SumOver(SpentWhenSettled, Epoch) \in Nat
  BY <1>0, <1>5, <1>6, SumType
<1> QED
  BY <1>2, <1>3, <1>6, <1>7, <1>8, PayoutAssumption

-----------------------------------------------------------------------------
(***************************************************************************)
(* What is fixed stays.                                                    *)
(***************************************************************************)
\* Once the holdback of an epoch is released no proof adds to its survivors.
LEMMA SurvivorsFinal ==
    ASSUME IInv, RInv, [Next]_vars, IInv', NEW v \in Video, NEW e \in Epoch,
           HoldbackReleaseEnd(e) <= now
    PROVE  /\ epoch'[e].heldSurvived = epoch[e].heldSurvived
           /\ clipEpoch'[v][e].alive = clipEpoch[v][e].alive
<1>1. ~\E p \in Proof : SubmitProof(e + 1, p)
  <2>1. e + 1 \in Nat /\ now \in Nat
    BY EpochType DEF IInv, TypeOK
  <2>2. ProofEnd(e + 1) \in Nat
    BY <2>1, TimelineType
  <2>3. ASSUME NEW p \in Proof, SubmitProof(e + 1, p)
        PROVE  now < ProofEnd(e + 1)
    BY <2>3 DEF SubmitProof
  <2>4. ProofEnd(e + 1) <= now
    BY DEF HoldbackReleaseEnd
  <2> QED
    BY <2>1, <2>2, <2>3, <2>4
<1>2. epoch'[e].heldSurvived = epoch[e].heldSurvived
  BY <1>1, SurvivorsChange
<1>3. \/ clipEpoch'[v][e].alive = clipEpoch[v][e].alive
      \/ ~clipEpoch'[v][e].alive /\ clipEpoch[v][e].status = "None"
  BY <1>1, FlagsChange DEF Revived
<1>4. clipEpoch[v][e].alive => clipEpoch[v][e].status # "None"
  BY DEF RInv, FlagsAgree, FlagsOf
<1>5. clipEpoch[v][e].alive \in BOOLEAN /\ clipEpoch'[v][e].alive \in BOOLEAN
  BY DEF IInv, TypeOK, ClipEpoch
<1> QED
  BY <1>2, <1>3, <1>4, <1>5

LEMMA FixedStays ==
    ASSUME IInv, RInv, [Next]_vars, IInv', NEW c \in Entitlements, Fixed(c)
    PROVE  Fixed(c)' /\ Due(c)' = Due(c)
<1> DEFINE v == c[1]
           e == c[2]
<1>1. v \in Video /\ e \in Epoch
  BY DEF Entitlements
<1>2. epoch[e].settled /\ clip[v].owner # Nobody
      /\ (c[3] = "held" => e < Last /\ HoldbackReleaseEnd(e) <= now)
  BY DEF Fixed
<1>3. epoch'[e].settled /\ clip'[v].owner # Nobody
      /\ epoch'[e].heldTotal = epoch[e].heldTotal
  BY <1>1, <1>2, Frozen, ClipKept
<1>4. c[3] = "held" => HoldbackReleaseEnd(e) <= now'
  <2>1. SUFFICES ASSUME c[3] = "held" PROVE HoldbackReleaseEnd(e) <= now'
    OBVIOUS
  <2>2. e + 1 \in Epoch
    BY <1>1, <1>2, <2>1, EpochType DEF Epoch, Last
  <2>3. ProofEnd(e + 1) \in Nat
    <3>1. e + 1 \in Nat
      BY <2>2, EpochType
    <3> QED
      BY <3>1, TimelineType
  <2>4. HoldbackReleaseEnd(e) \in Nat
    BY <2>3 DEF HoldbackReleaseEnd
  <2>5. now \in Nat /\ now' \in Nat
    BY DEF IInv, TypeOK
  <2>6. now <= now'
    BY TimeAdvances
  <2> QED
    BY <1>2, <2>1, <2>4, <2>5, <2>6
<1>5. Pay(v, e)' = Pay(v, e)
  BY <1>1, <1>2, PayStays
<1>6. Fixed(c)'
  <2>1. HoldbackReleaseEnd(e)' = HoldbackReleaseEnd(e)
    BY DEF HoldbackReleaseEnd, ProofEnd
  <2> QED
    BY <1>2, <1>3, <1>4, <2>1 DEF Fixed
<1>7. CASE c[3] = "now"
  BY <1>5, <1>6, <1>7 DEF Due, Immediate
<1>8. CASE c[3] # "now"
  <2>1. c[3] = "held"
    BY <1>8 DEF Entitlements
  <2>2. /\ epoch'[e].heldSurvived = epoch[e].heldSurvived
        /\ clipEpoch'[v][e].alive = clipEpoch[v][e].alive
    BY <1>1, <1>2, <2>1, SurvivorsFinal
  <2> QED
    BY <1>3, <1>5, <1>6, <1>8, <2>2 DEF Due, Share
<1> QED
  BY <1>7, <1>8

-----------------------------------------------------------------------------
(***************************************************************************)
(* The steps.                                                              *)
(***************************************************************************)
\* A step that leaves alone what amounts are computed from.
SameAmounts ==
    /\ now' = now /\ epoch' = epoch /\ clip' = clip /\ partEpoch' = partEpoch
    /\ \A v \in Video, e \in Epoch :
         /\ clipEpoch'[v][e].weight = clipEpoch[v][e].weight
         /\ clipEpoch'[v][e].alive = clipEpoch[v][e].alive

LEMMA AmountsFrame ==
    ASSUME SameAmounts
    PROVE  FixedSet' = FixedSet /\ DueOf' = DueOf
<1>1. ASSUME NEW c \in Entitlements
      PROVE  (Fixed(c)' <=> Fixed(c)) /\ Due(c)' = Due(c)
  <2>1. c[1] \in Video /\ c[2] \in Epoch
    BY DEF Entitlements
  <2>2. Pay(c[1], c[2])' = Pay(c[1], c[2])
    BY <2>1 DEF SameAmounts, Pay
  <2> QED
    BY <2>1, <2>2 DEF SameAmounts, Fixed, Due, Immediate, Share
<1>2. Entitlements' = Entitlements
  BY DEF Entitlements
<1> QED
  BY <1>1, <1>2 DEF FixedSet, DueOf

LEMMA PaidFrame ==
    ASSUME \A v \in Video, e \in Epoch : SameFlags(v, e)
    PROVE  PaidSet' = PaidSet
<1>1. ASSUME NEW c \in Entitlements
      PROVE  PaidOut(c)' = PaidOut(c)
  <2>1. c[1] \in Video /\ c[2] \in Epoch
    BY DEF Entitlements
  <2> QED
    BY <2>1 DEF SameFlags, PaidOut
<1>2. Entitlements' = Entitlements
  BY DEF Entitlements
<1> QED
  BY <1>1, <1>2 DEF PaidSet

\* A claim pays one entitlement.
LEMMA ClaimIsPay ==
    ASSUME IInv, RInv, MInv, NEW v \in Video, NEW e \in Epoch, NEW kind \in Kind,
           \/ Claim(v, e) /\ kind = "now"
           \/ ClaimHoldback(v, e) /\ kind = "held"
    PROVE  Promise!Pay(<<v, e, kind>>) /\ <<v, e, kind>> \in Entitlements
<1> DEFINE c == <<v, e, kind>>
<1>1. c \in Entitlements
  BY DEF Entitlements, Kind
<1>2. /\ clipEpoch \in [Video -> [Epoch -> ClipEpoch]]
      /\ clipEpoch[v][e] \in ClipEpoch
  BY DEF IInv, TypeOK
<1>3. clipEpoch' = IF kind = "now" THEN [clipEpoch EXCEPT ![v][e].claimed = TRUE]
                   ELSE [clipEpoch EXCEPT ![v][e].holdbackClaimed = TRUE]
  BY DEF Claim, ClaimHoldback
<1>4. SameAmounts
  <2>1. now' = now /\ epoch' = epoch /\ clip' = clip /\ partEpoch' = partEpoch
    BY DEF Claim, ClaimHoldback
  <2>2. \A w \in Video, k \in Epoch :
          /\ clipEpoch'[w][k].weight = clipEpoch[w][k].weight
          /\ clipEpoch'[w][k].alive = clipEpoch[w][k].alive
    BY <1>2, <1>3 DEF ClipEpoch
  <2> QED
    BY <2>1, <2>2 DEF SameAmounts
<1>5. Fixed(c) /\ ~PaidOut(c)
  BY DEF Fixed, PaidOut, Claim, CanClaim, ClaimHoldback
<1>6. PaidSet' = PaidSet \cup {c}
  <2>1. ASSUME NEW d \in Entitlements
        PROVE  PaidOut(d)' <=> PaidOut(d) \/ d = c
    <3>1. PICK w \in Video, k \in Epoch, x \in Kind : d = <<w, k, x>>
      BY DEF Entitlements, Kind
    <3>2. /\ clipEpoch'[w][k].claimed
               = IF w = v /\ k = e /\ kind = "now" THEN TRUE ELSE clipEpoch[w][k].claimed
          /\ clipEpoch'[w][k].holdbackClaimed
               = IF w = v /\ k = e /\ kind # "now" THEN TRUE
                 ELSE clipEpoch[w][k].holdbackClaimed
      BY <1>2, <1>3 DEF ClipEpoch
    <3> QED
      BY <3>1, <3>2 DEF PaidOut, Kind
  <2>2. Entitlements' = Entitlements
    BY DEF Entitlements
  <2> QED
    BY <1>1, <2>1, <2>2 DEF PaidSet
<1>7. campaign'.balance = campaign.balance - DueOf[c]
      /\ ~campaign.refunded /\ campaign'.refunded = campaign.refunded
  <2>1. DueOf[c] = IF kind = "now" THEN Immediate(v, e) ELSE Share(v, e)
    <3>1. DueOf[c] = Due(c)
      BY <1>1, <1>5 DEF DueOf
    <3> QED
      BY <3>1 DEF Due, ClaimHoldback
  <2>2. /\ campaign'.balance = campaign.balance - DueOf[c]
        /\ ~campaign.refunded /\ ~campaign'.refunded
    BY <2>1, ClaimPays DEF MInv
  <2>3. campaign'.refunded = campaign.refunded
    BY DEF Claim, ClaimHoldback, PayOut, IInv, TypeOK, CampaignRecord
  <2> QED
    BY <2>2, <2>3
<1>8. FixedSet' = FixedSet /\ DueOf' = DueOf
  BY <1>4, AmountsFrame
<1>9. c \in FixedSet \ PaidSet
  BY <1>1, <1>5 DEF FixedSet, PaidSet
<1> QED
  BY <1>1, <1>6, <1>7, <1>8, <1>9 DEF Promise!Pay, FixedSet, DueOf, PaidSet

LEMMA RefundIsClose ==
    ASSUME IInv, Refund
    PROVE  Promise!Close
<1>1. SameAmounts /\ \A v \in Video, e \in Epoch : SameFlags(v, e)
  BY DEF Refund, SameAmounts, SameFlags
<1>2. FixedSet' = FixedSet /\ DueOf' = DueOf /\ PaidSet' = PaidSet
  BY <1>1, AmountsFrame, PaidFrame
<1>3. ~campaign.refunded /\ campaign'.refunded /\ campaign'.refunded = TRUE
      /\ campaign'.balance = 0
  BY DEF Refund, IInv, TypeOK, CampaignRecord
<1> QED
  BY <1>2, <1>3 DEF Promise!Close, FixedSet, DueOf, PaidSet

LEMMA OthersFix ==
    ASSUME IInv, RInv, MInv, [Next]_vars, IInv', RInv', MInv', ~Refund,
           \A v \in Video, e \in Epoch : ~Claim(v, e) /\ ~ClaimHoldback(v, e)
    PROVE  Promise!Fix
<1>1. PaidSet' = PaidSet
  BY FlagsStay, PaidFrame
<1>2. campaign'.balance = campaign.balance /\ campaign'.refunded = campaign.refunded
  <2>1. ASSUME NEW v \in Video, NEW e \in Epoch,
               \/ \E a \in Challenger : Challenge(v, e, a)
               \/ \E w \in BOOLEAN : Closes(v, e, w)
        PROVE  campaign' = campaign
    BY <2>1 DEF Challenge, Closes, Close
  <2> QED
    BY <2>1, MoneyMoves DEF NoMoney
<1>3. FixedSet \subseteq FixedSet' /\ FixedSet' \subseteq Entitlements
  <2>1. Entitlements' = Entitlements
    BY DEF Entitlements
  <2> QED
    BY <2>1, FixedStays DEF FixedSet
<1>4. \A c \in FixedSet : DueOf'[c] = DueOf[c]
  <2>1. ASSUME NEW c \in FixedSet
        PROVE  DueOf'[c] = DueOf[c]
    <3>1. c \in Entitlements /\ Fixed(c)
      BY DEF FixedSet
    <3>2. Fixed(c)' /\ Due(c)' = Due(c)
      BY <3>1, FixedStays
    <3>3. c \in Entitlements'
      BY <3>1 DEF Entitlements
    <3> QED
      BY <3>1, <3>2, <3>3 DEF DueOf
  <2> QED
    BY <2>1
<1>5. \A c \in Entitlements \ FixedSet' : DueOf'[c] = 0
  <2>1. Entitlements' = Entitlements
    BY DEF Entitlements
  <2> QED
    BY <2>1 DEF FixedSet, DueOf
<1>6. (Promise!Promised)' <= Budget
  <2>1. (IInv /\ RInv /\ MInv)' => (Promise!Promised <= Budget)'
    BY PromisedFits, PTL
  <2> QED
    BY <2>1
<1> QED
  BY <1>1, <1>2, <1>3, <1>4, <1>5, <1>6
  DEF Promise!Fix, FixedSet, DueOf, PaidSet

-----------------------------------------------------------------------------
(***************************************************************************)
(* The campaign implements the escrow.                                     *)
(***************************************************************************)
LEMMA PromiseBegins ==
    ASSUME Init
    PROVE  Promise!Init
<1>1. ASSUME NEW c \in Entitlements
      PROVE  ~Fixed(c) /\ ~PaidOut(c)
  <2>1. c[1] \in Video /\ c[2] \in Epoch
    BY DEF Entitlements
  <2>2. epoch[c[2]] = NewEpoch /\ clipEpoch[c[1]][c[2]] = NoClipEpoch
    BY <2>1 DEF Init
  <2> QED
    BY <2>2 DEF Fixed, PaidOut, NewEpoch, NoClipEpoch
<1>2. FixedSet = {} /\ PaidSet = {} /\ DueOf = [c \in Entitlements |-> 0]
  BY <1>1 DEF FixedSet, PaidSet, DueOf
<1>3. campaign.refunded = FALSE /\ campaign.balance = Budget
  BY DEF Init
<1> QED
  BY <1>2, <1>3 DEF Promise!Init, FixedSet, PaidSet, DueOf

LEMMA PromiseSteps ==
    ASSUME IInv, RInv, MInv, [Next]_vars, IInv', RInv', MInv'
    PROVE  Promise!Next
<1>1. ASSUME NEW v \in Video, NEW e \in Epoch, Claim(v, e)
      PROVE  Promise!Next
  <2>1. Promise!Pay(<<v, e, "now">>) /\ <<v, e, "now">> \in Entitlements
    BY <1>1, ClaimIsPay DEF Kind
  <2> QED
    BY <2>1 DEF Promise!Next
<1>2. ASSUME NEW v \in Video, NEW e \in Epoch, ClaimHoldback(v, e)
      PROVE  Promise!Next
  <2>1. Promise!Pay(<<v, e, "held">>) /\ <<v, e, "held">> \in Entitlements
    BY <1>2, ClaimIsPay DEF Kind
  <2> QED
    BY <2>1 DEF Promise!Next
<1>3. CASE Refund
  BY <1>3, RefundIsClose DEF Promise!Next
<1>4. CASE /\ ~Refund
           /\ \A v \in Video, e \in Epoch : ~Claim(v, e) /\ ~ClaimHoldback(v, e)
  BY <1>4, OthersFix DEF Promise!Next
<1> QED
  BY <1>1, <1>2, <1>3, <1>4

\* The contract is an escrow: whatever its participants, judge and brand do and in
\* whichever order proofs, disputes, settlements and claims come, an amount that is
\* fixed stays as it is, is paid at most once and in full, all fixed amounts together
\* fit into the budget, and the brand gets only what is left, once.
THEOREM CampaignKeepsItsPromise == Spec => KeepsItsPromise
<1>1. IInv /\ RInv /\ MInv /\ [Next]_vars /\ IInv' /\ RInv' /\ MInv'
        => [Promise!Next]_(Promise!escrowVars)
  BY PromiseSteps
<1>2. Init => Promise!Init
  BY PromiseBegins
<1> QED
  BY <1>1, <1>2, Invariance, RecordInvariance, MoneyInvariance, PTL
  DEF Spec, KeepsItsPromise, Promise!Spec

=============================================================================
