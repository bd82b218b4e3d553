--------------------------- MODULE CampaignProofs ---------------------------
(***************************************************************************)
(* Theorems about one campaign, for every finite set of videos, every set  *)
(* of people and all parameters validate_params accepts: about its         *)
(* timeline and its payout arithmetic; that every step keeps the invariant *)
(* of CampaignInvariant; that settled epochs are frozen; and the records   *)
(* of clips: the totals of weights, the order of the view counts, the      *)
(* proofs they took, the survivors of a holdback, and the bonds.           *)
(***************************************************************************)
EXTENDS CampaignInvariant

-----------------------------------------------------------------------------
(***************************************************************************)
(* The timeline.                                                           *)
(***************************************************************************)
\* The instants of the timeline are natural numbers.
LEMMA TimelineType ==
    ASSUME NEW e \in Nat
    PROVE  /\ ContentEnd(e) \in Nat
           /\ ProofEnd(e) \in Nat
           /\ ChallengeEnd(e) \in Nat
           /\ DisputeEnd(e) \in Nat
           /\ SettleAt(e) \in Nat
<1>1. (e + 1) * EpochLen \in Nat
  BY TimelineAssumption
<1>2. DisputeWindow \div 2 \in Nat
  BY TimelineAssumption
<1> QED
  BY <1>1, <1>2, TimelineAssumption
     DEF ContentEnd, ProofEnd, ChallengeEnd, DisputeEnd, SettleAt

\* Within an epoch the phases follow each other: proofs, challenges, answers,
\* ruling.
LEMMA PhasesInOrder ==
    ASSUME NEW e \in Nat
    PROVE  /\ ContentEnd(e) <= ProofEnd(e)
           /\ ProofEnd(e) <= ChallengeEnd(e)
           /\ ChallengeEnd(e) <= DisputeEnd(e)
           /\ DisputeEnd(e) <= SettleAt(e)
<1>1. DisputeWindow \div 2 \in Nat /\ DisputeWindow \div 2 <= DisputeWindow
  BY TimelineAssumption
<1> QED
  BY <1>1, TimelineType, TimelineAssumption
     DEF ProofEnd, ChallengeEnd, DisputeEnd, SettleAt

\* An epoch is over and can be settled by the time the proofs of any later one
\* are accepted, so submit_proof never finds a pending epoch not ready in time.
THEOREM SettledByNextProofs ==
    ASSUME NEW e \in Nat, NEW f \in Nat, e < f
    PROVE  SettleAt(e) <= ContentEnd(f)
<1>1. (f + 1) * EpochLen = (e + 1) * EpochLen + (f - e) * EpochLen
  BY TimelineAssumption
<1>2. (f - e) * EpochLen >= EpochLen
  BY TimelineAssumption
<1>3. (e + 1) * EpochLen \in Nat /\ (f + 1) * EpochLen \in Nat /\ (f - e) * EpochLen \in Nat
  BY TimelineAssumption
<1> QED
  BY <1>1, <1>2, <1>3, TimelineAssumption DEF ContentEnd, ProofEnd, DisputeEnd, SettleAt

\* The epochs that CurrentEpoch names, Epochs included for "over".
LEMMA CurrentEpochType ==
    ASSUME NEW t \in Nat
    PROVE  CurrentEpoch(t) \in 0 .. Epochs
<1>1. CASE t < Start
  BY <1>1, TimelineAssumption DEF CurrentEpoch
<1>2. CASE t >= Start
  <2>1. t - Start \in Nat
    BY <1>2, TimelineAssumption
  <2>2. (t - Start) \div EpochLen \in Nat
    BY <2>1, TimelineAssumption
  <2> QED
    BY <1>2, <2>2, TimelineAssumption DEF CurrentEpoch
<1> QED
  BY <1>1, <1>2, TimelineAssumption

-----------------------------------------------------------------------------
(***************************************************************************)
(* The arithmetic.                                                         *)
(***************************************************************************)
\* Division by a positive number rounds down.
LEMMA DivisionRoundsDown ==
    ASSUME NEW a \in Nat, NEW b \in Nat \ {0}
    PROVE  a \div b \in Nat /\ (a \div b) * b <= a
<1>1. a \div b \in Nat
  OBVIOUS
<1>2. a = b * (a \div b) + (a % b) /\ a % b \in Nat
  OBVIOUS
<1> QED
  BY <1>1, <1>2

LEMMA ClipWeightType ==
    ASSUME NEW baseline \in Nat, NEW views \in Nat
    PROVE  ClipWeight(baseline, views) \in Nat
BY PayoutAssumption DEF ClipWeight, Least

LEMMA BaseBudgetType ==
    ASSUME NEW e \in Epoch
    PROVE  BaseBudget(e) \in Nat
<1>1. Budget \div Epochs \in Nat /\ Budget % Epochs \in Nat
  BY PayoutAssumption, TimelineAssumption
<1> QED
  BY <1>1 DEF BaseBudget

LEMMA HoldbackRateType ==
    ASSUME NEW e \in Epoch
    PROVE  HoldbackRate(e) \in 0 .. 10000
BY PayoutAssumption DEF HoldbackRate

LEMMA RateType ==
    ASSUME NEW b \in Nat, NEW w \in Nat
    PROVE  RateFor(b, w) \in Nat
<1>1. CASE w = 0
  BY <1>1 DEF RateFor
<1>2. CASE w # 0
  <2>1. (b * 1000) \div w \in Nat
    BY <1>2, DivisionRoundsDown
  <2> QED
    BY <2>1, <1>2, PayoutAssumption DEF RateFor, Least
<1> QED
  BY <1>1, <1>2

\* An epoch never spends more than its budget, whatever its total weight.
THEOREM SpentWithinBudget ==
    ASSUME NEW b \in Nat, NEW w \in Nat
    PROVE  /\ SpentAt(RateFor(b, w), w) \in Nat
           /\ SpentAt(RateFor(b, w), w) <= b
<1> DEFINE r == RateFor(b, w)
<1>1. r \in Nat
  BY RateType
<1>2. r * w \in Nat
  BY <1>1
<1>3. r * w <= b * 1000
  <2>1. CASE w = 0
    BY <2>1, <1>1
  <2>2. CASE w # 0
    <3>1. (b * 1000) \div w \in Nat /\ ((b * 1000) \div w) * w <= b * 1000
      BY <2>2, DivisionRoundsDown
    <3>2. r <= (b * 1000) \div w
      BY <2>2, <3>1, PayoutAssumption DEF RateFor, Least
    <3>3. r * w <= ((b * 1000) \div w) * w
      BY <3>1, <3>2, <1>1
    <3> QED
      BY <3>1, <3>3, <1>2
  <2> QED
    BY <2>1, <2>2
<1>4. (r * w) \div 1000 \in Nat /\ ((r * w) \div 1000) * 1000 <= r * w
  BY <1>2, DivisionRoundsDown
<1> HIDE DEF r
<1>5. (r * w) \div 1000 <= b
  BY <1>2, <1>3, <1>4
<1> QED
  BY <1>4, <1>5 DEF SpentAt, r

LEMMA HeldTotalType ==
    ASSUME NEW e \in Epoch, NEW spent \in Nat
    PROVE  HeldTotalOf(e, spent) \in Nat
<1>1. PICK bps \in 0 .. 10000 : bps = HoldbackRate(e)
  BY HoldbackRateType
<1>2. spent * bps \in Nat
  OBVIOUS
<1> QED
  BY <1>1, <1>2 DEF HeldTotalOf

\* A clip's pay is a natural number.
LEMMA ClipPayType ==
    ASSUME NEW rate \in Nat, NEW raw \in Nat, NEW weight \in Nat, NEW w \in Nat
    PROVE  ClipPay(rate, [raw |-> raw, weight |-> weight], w) \in Nat
<1>1. rate * weight * w \in Nat
  OBVIOUS
<1>2. CASE raw = 0
  BY <1>2 DEF ClipPay
<1>3. CASE raw # 0
  <2>1. raw * 1000 \in Nat \ {0}
    BY <1>3
  <2>2. (rate * weight * w) \div (raw * 1000) \in Nat
    BY <1>1, <2>1, DivisionRoundsDown
  <2> QED
    BY <2>2 DEF ClipPay
<1> QED
  BY <1>2, <1>3

\* The held part of a pay, although rounded up, is never more than the pay.
THEOREM HeldWithinPay ==
    ASSUME NEW e \in Epoch, NEW pay \in Nat
    PROVE  HeldOf(e, pay) \in 0 .. pay
<1>1. PICK bps \in 0 .. 10000 : bps = HoldbackRate(e)
  BY HoldbackRateType
<1>2. pay * bps \in Nat /\ pay * bps <= pay * 10000
  <2>1. bps \in Nat /\ 10000 - bps \in Nat
    OBVIOUS
  <2>2. pay * bps \in Nat /\ pay * (10000 - bps) \in Nat
    BY <2>1
  <2>3. pay * (10000 - bps) = pay * 10000 - pay * bps
    BY <2>1
  <2> QED
    BY <2>2, <2>3
<1>3. PICK x \in Nat : x = pay * bps
  BY <1>2
<1>4. x <= pay * 10000
  BY <1>2, <1>3
<1>5. (x + 9999) \div 10000 \in 0 .. pay
  BY <1>4
<1> QED
  BY <1>1, <1>3, <1>5 DEF HeldOf

\* With some survivor a share of the pot is a natural number.
LEMMA ShareType ==
    ASSUME NEW held \in Nat, NEW total \in Nat, NEW survived \in Nat \ {0}
    PROVE  ShareOf(held, total, survived) \in Nat
<1>1. held * total \in Nat
  OBVIOUS
<1> QED
  BY <1>1, DivisionRoundsDown DEF ShareOf

\* A clip's pay is at most its part of what its participant's capped weight
\* earns.
LEMMA ClipPayBound ==
    ASSUME NEW rate \in Nat, NEW raw \in Nat, NEW weight \in Nat, NEW w \in Nat
    PROVE  (raw * 1000) * ClipPay(rate, [raw |-> raw, weight |-> weight], w)
             <= (rate * weight) * w
<1> DEFINE a == rate * weight * w
           b == raw * 1000
<1>1. a \in Nat /\ b \in Nat
  OBVIOUS
<1>2. CASE raw = 0 \/ w = 0
  BY <1>1, <1>2 DEF ClipPay
<1>3. CASE ~(raw = 0 \/ w = 0)
  <2>1. ClipPay(rate, [raw |-> raw, weight |-> weight], w) = a \div b
    BY <1>3 DEF ClipPay
  <2>2. b # 0
    BY <1>3
  <2> HIDE DEF a, b
  <2>3. a \div b \in Nat /\ (a \div b) * b <= a
    BY <1>1, <2>2, DivisionRoundsDown
  <2>4. b * (a \div b) <= a
    BY <1>1, <2>3
  <2> QED
    BY <2>1, <2>4 DEF a, b
<1> QED
  BY <1>2, <1>3

\* An amount that fits before the division fits after it.
LEMMA FitsSpent ==
    ASSUME NEW x \in Nat, NEW rate \in Nat, NEW weight \in Nat, 1000 * x <= rate * weight
    PROVE  x <= SpentAt(rate, weight)
<1>1. PICK y \in Nat : y = rate * weight
  OBVIOUS
<1>2. x <= y \div 1000
  BY <1>1
<1> QED
  BY <1>1, <1>2 DEF SpentAt

\* What is paid at once, with the held part rounded up against the clipper, and
\* the pot of an epoch together fit what the epoch spends.
LEMMA SplitFits ==
    ASSUME NEW e \in Epoch, NEW spent \in Nat, NEW pays \in Nat, pays <= spent,
           NEW paid \in Nat,
           10000 * paid <= (10000 - HoldbackRate(e)) * pays
    PROVE  paid + HeldTotalOf(e, spent) <= spent
<1>1. PICK h \in 0 .. 10000 : h = HoldbackRate(e)
  BY HoldbackRateType
<1>2. 10000 - h \in Nat /\ h \in Nat
  OBVIOUS
<1>3. (10000 - h) * pays <= (10000 - h) * spent
  <2>1. PICK d \in Nat : d = 10000 - h
    BY <1>2
  <2>2. PICK r \in Nat : spent = pays + r
    <3>1. spent - pays \in Nat /\ spent = pays + (spent - pays)
      OBVIOUS
    <3> QED
      BY <3>1
  <2>3. d * r \in Nat /\ d * pays \in Nat /\ d * (pays + r) = d * pays + d * r
    OBVIOUS
  <2> QED
    BY <2>1, <2>2, <2>3
<1>4. (10000 - h) * spent = 10000 * spent - spent * h
  BY <1>2
<1>5. PICK x \in Nat : x = spent * h
  BY <1>2
<1>6. (10000 - h) * pays \in Nat
  BY <1>2
<1>7. 10000 * paid <= 10000 * spent - x
  BY <1>1, <1>3, <1>4, <1>5, <1>6
<1>8. 10000 * (x \div 10000) <= x /\ x \div 10000 \in Nat
  OBVIOUS
<1> QED
  BY <1>1, <1>5, <1>7, <1>8 DEF HeldTotalOf

LEMMA ImmediateBound ==
    ASSUME NEW e \in Epoch, NEW pay \in Nat
    PROVE  10000 * (pay - HeldOf(e, pay)) <= (10000 - HoldbackRate(e)) * pay
<1>1. PICK h \in 0 .. 10000 : h = HoldbackRate(e)
  BY HoldbackRateType
<1>2. h \in Nat
  OBVIOUS
<1>3. PICK x \in Nat : x = pay * h
  BY <1>2
<1>4. (10000 - h) * pay = 10000 * pay - x
  BY <1>2, <1>3
<1>5. 10000 * ((x + 9999) \div 10000) >= x /\ (x + 9999) \div 10000 \in Nat
  OBVIOUS
<1> QED
  BY <1>1, <1>3, <1>4, <1>5 DEF HeldOf

LEMMA ShareBound ==
    ASSUME NEW held \in Nat, NEW total \in Nat, NEW survived \in Nat \ {0}
    PROVE  survived * ShareOf(held, total, survived) <= total * held
<1>1. PICK x \in Nat : x = held * total
  OBVIOUS
<1>2. x \div survived \in Nat /\ (x \div survived) * survived <= x
  BY DivisionRoundsDown
<1>3. survived * (x \div survived) <= total * held
  BY <1>1, <1>2
<1> QED
  BY <1>1, <1>3 DEF ShareOf

-----------------------------------------------------------------------------
(***************************************************************************)
(* Settling epochs.                                                        *)
(***************************************************************************)
EpochsOK(es) ==
    /\ es \in [Epoch -> EpochState]
    /\ \A k \in Epoch : es[k].spent <= es[k].budget

\* What settling leaves of an epoch's state.
SameWork(st, st2) ==
    /\ st2.totalWeight = st.totalWeight
    /\ st2.openDisputes = st.openDisputes
    /\ st2.heldSurvived = st.heldSurvived

LEMMA SettledOK ==
    ASSUME NEW es, EpochsOK(es), NEW e \in Epoch
    PROVE  /\ EpochsOK(Settled(es, e))
           /\ \A k \in Epoch : k # e => Settled(es, e)[k] = es[k]
           /\ Settled(es, e)[e].settled
           /\ SameWork(es[e], Settled(es, e)[e])
<1> DEFINE st == es[e]
           carry == CarryIn(es, e)
           b == BaseBudget(e) + carry
           r == RateFor(b, st.totalWeight)
           spent == SpentAt(r, st.totalWeight)
           held == HeldTotalOf(e, spent)
<1>1. st \in EpochState
  BY DEF EpochsOK
<1>2. carry \in Nat
  <2>1. CASE e = 0
    BY <2>1 DEF CarryIn
  <2>2. CASE e # 0
    <3>1. e - 1 \in Epoch
      BY <2>2, TimelineAssumption DEF Epoch
    <3>2. es[e - 1].budget \in Nat /\ es[e - 1].spent \in Nat
          /\ es[e - 1].spent <= es[e - 1].budget
      BY <3>1 DEF EpochsOK, EpochState
    <3> QED
      BY <2>2, <3>2 DEF CarryIn
  <2> QED
    BY <2>1, <2>2
<1>3. b \in Nat
  BY <1>2, BaseBudgetType
<1>4. st.totalWeight \in Nat
  BY <1>1 DEF EpochState
<1>5. r \in Nat
  BY <1>3, <1>4, RateType
<1>6. spent \in Nat /\ spent <= b
  BY <1>3, <1>4, SpentWithinBudget
<1>7. held \in Nat
  BY <1>6, HeldTotalType
<1>8. Settled(es, e) =
        [es EXCEPT ![e] = [st EXCEPT !.settled = TRUE, !.budget = b, !.rate = r,
                                     !.spent = spent, !.heldTotal = held]]
  BY DEF Settled, Settlement
<1> HIDE DEF st, carry, b, r, spent, held
<1>9. [st EXCEPT !.settled = TRUE, !.budget = b, !.rate = r,
                 !.spent = spent, !.heldTotal = held] \in EpochState
  BY <1>1, <1>3, <1>5, <1>6, <1>7 DEF EpochState
<1> QED
  BY <1>1, <1>6, <1>8, <1>9 DEF EpochsOK, EpochState, SameWork, st

IsChain(g, s, n) ==
    g = [k \in s .. n |-> IF k = s THEN epoch ELSE Settled(g[k - 1], k - 1)]

\* The recursive function of SettledBefore is well defined.
LEMMA ChainExists ==
    ASSUME NEW s \in Nat, NEW e \in Nat, s <= e
    PROVE  \E g : IsChain(g, s, e)
<1> DEFINE Bad == {n \in Nat : s <= n /\ ~ \E g : IsChain(g, s, n)}
<1>1. SUFFICES ASSUME Bad # {} PROVE FALSE
  OBVIOUS
<1>2. PICK m \in Bad : \A n \in Bad : m <= n
  BY <1>1, LeastElement
<1>3. m # s
  <2> DEFINE g == [k \in s .. s |-> epoch]
  <2>1. IsChain(g, s, s)
    BY DEF IsChain
  <2> QED
    BY <1>2, <2>1
<1>4. m - 1 \in Nat /\ s <= m - 1 /\ m - 1 \notin Bad
  BY <1>2, <1>3
<1>5. PICK g : IsChain(g, s, m - 1)
  BY <1>4
<1> DEFINE h == [k \in s .. m |-> IF k = m THEN Settled(g[m - 1], m - 1) ELSE g[k]]
<1>6. \A k \in s .. m : h[k] = IF k = s THEN epoch ELSE Settled(h[k - 1], k - 1)
  <2> TAKE k \in s .. m
  <2>1. CASE k = s
    BY <2>1, <1>3, <1>4, <1>5 DEF IsChain
  <2>2. CASE k = m
    BY <2>2, <1>3, <1>4
  <2>3. CASE k # s /\ k # m
    BY <2>3, <1>3, <1>4, <1>5 DEF IsChain
  <2> QED
    BY <2>1, <2>2, <2>3
<1>7. IsChain(h, s, m)
  BY <1>6 DEF IsChain
<1> QED
  BY <1>2, <1>7

\* After settling s .. n - 1, those are settled, the others as they were.
ChainOK(es, s, n) ==
    /\ EpochsOK(es)
    /\ \A k \in Epoch :
         /\ k \notin s .. n - 1 => es[k] = epoch[k]
         /\ k \in s .. n - 1 => es[k].settled
         /\ SameWork(epoch[k], es[k])

LEMMA ChainKeeps ==
    ASSUME NEW s \in Nat, NEW e \in Epoch, s <= e, NEW g, IsChain(g, s, e),
           EpochsOK(epoch)
    PROVE  ChainOK(g[e], s, e)
<1> DEFINE Bad == {n \in s .. e : ~ChainOK(g[n], s, n)}
<1>1. SUFFICES ASSUME Bad # {} PROVE FALSE
  BY DEF Epoch
<1>2. PICK m \in Bad : \A n \in Bad : m <= n
  <2>1. Bad \subseteq Nat
    BY DEF Epoch
  <2> QED
    BY <1>1, <2>1, LeastElement
<1>3. m # s
  <2>1. g[s] = epoch
    BY DEF IsChain, Epoch
  <2>2. ChainOK(epoch, s, s)
    BY DEF ChainOK, SameWork, Epoch
  <2> QED
    BY <1>2, <2>1, <2>2
<1>4. m - 1 \in s .. e /\ m - 1 \in Epoch /\ m \in s .. e
  <2>1. m \in s .. e
    BY <1>2
  <2>2. m \in Int /\ s < m /\ m <= e
    BY <2>1, <1>3
  <2>3. e \in Int /\ e <= Epochs - 1 /\ Epochs \in Int
    BY TimelineAssumption DEF Epoch
  <2> HIDE DEF Bad
  <2> QED
    BY <2>2, <2>3 DEF Epoch
<1>8. m \in Int /\ s < m
  BY <1>3, <1>4
<1> HIDE DEF Bad
<1>5. ChainOK(g[m - 1], s, m - 1)
  BY <1>2, <1>4, <1>8 DEF Bad
<1>6. g[m] = Settled(g[m - 1], m - 1)
  BY <1>3, <1>4 DEF IsChain
<1>7. ChainOK(g[m], s, m)
  <2>1. EpochsOK(g[m - 1])
    BY <1>5 DEF ChainOK
  <2>2. /\ EpochsOK(g[m])
        /\ \A k \in Epoch : k # m - 1 => g[m][k] = g[m - 1][k]
        /\ g[m][m - 1].settled
        /\ SameWork(g[m - 1][m - 1], g[m][m - 1])
    <3> DEFINE es == g[m - 1]
               k == m - 1
    <3>1. EpochsOK(es) /\ k \in Epoch /\ g[m] = Settled(es, k)
      BY <2>1, <1>4, <1>6
    <3> HIDE DEF es, k
    <3>2. /\ EpochsOK(Settled(es, k))
          /\ \A j \in Epoch : j # k => Settled(es, k)[j] = es[j]
          /\ Settled(es, k)[k].settled
          /\ SameWork(es[k], Settled(es, k)[k])
      BY <3>1, SettledOK
    <3> QED
      BY <3>1, <3>2 DEF es, k
  <2>3. ASSUME NEW k \in Epoch, k # m - 1
        PROVE  /\ k \notin s .. m - 1 => g[m][k] = epoch[k]
               /\ k \in s .. m - 1 => g[m][k].settled
               /\ SameWork(epoch[k], g[m][k])
    <3>1. g[m][k] = g[m - 1][k]
      BY <2>2, <2>3
    <3>2. k \in Int /\ (k \in s .. m - 1 <=> k \in s .. (m - 1) - 1)
      BY <2>3, <1>8 DEF Epoch
    <3> QED
      BY <3>1, <3>2, <1>5 DEF ChainOK
  <2>4. SameWork(epoch[m - 1], g[m][m - 1])
    BY <2>2, <1>5, <1>4 DEF ChainOK, SameWork
  <2>5. m - 1 \in s .. m - 1
    BY <1>8
  <2> QED
    BY <2>2, <2>3, <2>4, <2>5 DEF ChainOK
<1> QED
  BY <1>2, <1>7 DEF Bad

\* What submit_proof's settlement loop does.
LEMMA SettledBeforeOK ==
    ASSUME IInv, NEW e \in Epoch
    PROVE  ChainOK(SettledBefore(e), campaign.settledEpochs, e)
<1> DEFINE s == campaign.settledEpochs
<1>1. s \in Nat /\ e \in Nat /\ EpochsOK(epoch)
  BY TimelineAssumption
     DEF IInv, TypeOK, CampaignRecord, SpentBounded, EpochsOK, Epoch
<1>2. CASE s < e
  <2> DEFINE g == CHOOSE g : IsChain(g, s, e)
  <2>1. IsChain(g, s, e)
    BY <1>1, <1>2, ChainExists
  <2>2. SettledBefore(e) = g[e]
    BY <1>2 DEF SettledBefore, IsChain
  <2> HIDE DEF g
  <2> QED
    BY <1>1, <1>2, <2>1, <2>2, ChainKeeps
<1>3. CASE ~(s < e)
  <2>1. SettledBefore(e) = epoch
    BY <1>3 DEF SettledBefore
  <2> QED
    BY <1>1, <1>3, <2>1 DEF ChainOK, SameWork, Epoch
<1> QED
  BY <1>2, <1>3

-----------------------------------------------------------------------------
(***************************************************************************)
(* What leaves a part of the invariant alone.                              *)
(***************************************************************************)
SameWeights ==
    /\ \A v \in Video, e \in Epoch :
         /\ clip'[v].owner = clip[v].owner \/ clipEpoch[v][e].weight = 0
         /\ clipEpoch'[v][e].weight = clipEpoch[v][e].weight
    /\ \A u \in User, e \in Epoch : partEpoch'[u][e] = partEpoch[u][e]
    /\ \A e \in Epoch : epoch'[e].totalWeight = epoch[e].totalWeight

LEMMA SumsFrame ==
    ASSUME SumsKept, SameWeights
    PROVE  SumsKept'
<1>1. ASSUME NEW u \in User, NEW e \in Epoch
      PROVE  RawSum(u, e)'
  <2>1. WeightsOf(u, e)' = WeightsOf(u, e)
    BY DEF WeightsOf, SameWeights
  <2> QED
    BY <2>1 DEF SumsKept, RawSum, SameWeights
<1>2. ASSUME NEW e \in Epoch
      PROVE  TotalSum(e)'
  <2>1. WeightsIn(e)' = WeightsIn(e)
    BY DEF WeightsIn, SameWeights
  <2> QED
    BY <2>1 DEF SumsKept, TotalSum, SameWeights
<1> QED
  BY <1>1, <1>2 DEF SumsKept

SameDisputes ==
    /\ \A v \in Video, e \in Epoch :
         /\ clipEpoch'[v][e].status = clipEpoch[v][e].status
         /\ dispute'[v][e] = dispute[v][e]
    /\ \A e \in Epoch : epoch'[e].openDisputes = epoch[e].openDisputes

LEMMA DisputesFrame ==
    ASSUME DisputesAgree, SameDisputes
    PROVE  DisputesAgree'
<1>1. ASSUME NEW e \in Epoch
      PROVE  Undecided(e)' = Undecided(e)
  BY DEF Undecided, SameDisputes
<1> QED
  BY <1>1 DEF DisputesAgree, SameDisputes

SameEntries ==
    \A v \in Video, e \in Epoch :
      /\ clip[v].owner # Nobody => clip'[v].owner # Nobody
      /\ clipEpoch'[v][e].weight = clipEpoch[v][e].weight
      /\ clipEpoch'[v][e].status = clipEpoch[v][e].status
      /\ dispute'[v][e] = dispute[v][e]

LEMMA EntriesFrame ==
    ASSUME EntriesBelong, SameEntries
    PROVE  EntriesBelong'
BY DEF EntriesBelong, SameEntries

SameSettlement ==
    /\ now' >= now
    /\ campaign'.settledEpochs = campaign.settledEpochs
    /\ \A e \in Epoch :
         /\ epoch'[e].settled = epoch[e].settled
         /\ epoch'[e].spent = epoch[e].spent
         /\ epoch'[e].budget = epoch[e].budget
         /\ epoch[e].settled => epoch'[e].openDisputes = epoch[e].openDisputes

LEMMA SettlementFrame ==
    ASSUME TypeOK, now' \in Nat, SettledInOrder, SettledWhenDue, SpentBounded,
           SameSettlement
    PROVE  SettledInOrder' /\ SettledWhenDue' /\ SpentBounded'
<1>1. SettledInOrder'
  BY DEF SettledInOrder, SameSettlement
<1>2. SettledWhenDue'
  <2>1. ASSUME NEW e \in Epoch
        PROVE  SettleAt(e) \in Nat
    BY TimelineType, TimelineAssumption DEF Epoch
  <2> QED
    BY <2>1 DEF SettledWhenDue, SameSettlement, TypeOK
<1>3. SpentBounded'
  BY DEF SpentBounded, SameSettlement
<1> QED
  BY <1>1, <1>2, <1>3

-----------------------------------------------------------------------------
(***************************************************************************)
(* Changing the weight of one clip.                                        *)
(***************************************************************************)
LEMMA ReweighedOK ==
    ASSUME TypeOK, SumsKept, NEW v \in Video, NEW e \in Epoch,
           clip[v].owner \in User, NEW new \in Nat
    PROVE  LET u == clip[v].owner
               pe == partEpoch[u][e]
               newPe == Reweighed(pe, clipEpoch[v][e].weight, new)
               total == epoch[e].totalWeight - pe.weight + newPe.weight
           IN  /\ newPe \in ParticipantEpoch
               /\ newPe.weight = Least(newPe.raw, CapHuman)
               /\ total \in Nat
               /\ newPe.raw = SumOver([WeightsOf(u, e) EXCEPT ![v] = new], Video)
               /\ total = SumOver([WeightsIn(e) EXCEPT ![u] = newPe.weight], User)
<1> DEFINE u == clip[v].owner
           pe == partEpoch[u][e]
           old == clipEpoch[v][e].weight
           newPe == Reweighed(pe, old, new)
           total == epoch[e].totalWeight
<1>1. pe \in ParticipantEpoch /\ old \in Nat /\ total \in Nat
  BY DEF TypeOK, ClipEpoch, EpochState
<1>2. WeightsOf(u, e) \in [Video -> Nat] /\ WeightsOf(u, e)[v] = old
  BY DEF WeightsOf, TypeOK, ClipEpoch
<1>3. WeightsIn(e) \in [User -> Nat] /\ WeightsIn(e)[u] = pe.weight
  BY DEF WeightsIn, TypeOK, ParticipantEpoch
<1>4. pe.raw = SumOver(WeightsOf(u, e), Video)
  BY DEF SumsKept, RawSum
<1>5. total = SumOver(WeightsIn(e), User)
  BY DEF SumsKept, TotalSum
<1>6. old <= pe.raw
  BY <1>2, <1>4, SumBounds, CampaignAssumption DEF Naturals
<1>7. pe.weight <= total
  BY <1>3, <1>5, SumBounds, CampaignAssumption DEF Naturals
<1>8. newPe.raw = pe.raw - old + new /\ newPe.weight = Least(newPe.raw, CapHuman)
      /\ newPe \in ParticipantEpoch
  BY <1>1, <1>6, PayoutAssumption DEF Reweighed, ParticipantEpoch, Least
<1>9. newPe.raw = SumOver([WeightsOf(u, e) EXCEPT ![v] = new], Video)
  BY <1>2, <1>4, <1>8, SumChange, CampaignAssumption
<1>10. newPe.weight \in Nat
  BY <1>8 DEF ParticipantEpoch
<1>11. total - pe.weight + newPe.weight
         = SumOver([WeightsIn(e) EXCEPT ![u] = newPe.weight], User)
  <2> DEFINE W == WeightsIn(e)
             m == newPe.weight
  <2>1. u \in User /\ W \in [User -> Nat] /\ m \in Nat
    BY <1>3, <1>10
  <2> HIDE DEF newPe, total, pe, u, W, m
  <2> DEFINE Z == [W EXCEPT ![u] = m]
  <2>2. /\ Naturals(W, User) /\ Naturals(Z, User) /\ Z[u] = m
        /\ \A x \in User : x # u => Z[x] = W[x]
    BY <2>1 DEF Naturals
  <2> HIDE DEF Z
  <2>3. SumOver(Z, User) = SumOver(W, User) - W[u] + Z[u]
    BY <2>1, <2>2, SumOneChanged, CampaignAssumption
  <2> QED
    BY <1>3, <1>5, <2>2, <2>3 DEF W, Z, m
<1>12. total - pe.weight + newPe.weight \in Nat
  BY <1>1, <1>7, <1>10 DEF ParticipantEpoch
<1> QED
  BY <1>8, <1>9, <1>11, <1>12

\* Clip v has weight new in epoch e, the totals follow, nothing else changes.
WeightMoves(v, e, new) ==
    LET u == clip[v].owner
        pe == partEpoch[u][e]
        newPe == Reweighed(pe, clipEpoch[v][e].weight, new)
    IN  /\ \A w \in Video, k \in Epoch :
             /\ clip'[w].owner = clip[w].owner
             /\ clipEpoch'[w][k].weight =
                  IF w = v /\ k = e THEN new ELSE clipEpoch[w][k].weight
        /\ partEpoch' = [partEpoch EXCEPT ![u][e] = newPe]
        /\ \A k \in Epoch :
             epoch'[k].totalWeight =
               IF k = e THEN epoch[k].totalWeight - pe.weight + newPe.weight
               ELSE epoch[k].totalWeight

LEMMA SumsMove ==
    ASSUME TypeOK, SumsKept, NEW v \in Video, NEW e \in Epoch,
           clip[v].owner \in User, NEW new \in Nat, WeightMoves(v, e, new)
    PROVE  SumsKept'
<1> DEFINE u == clip[v].owner
           pe == partEpoch[u][e]
           newPe == Reweighed(pe, clipEpoch[v][e].weight, new)
           total == epoch[e].totalWeight - pe.weight + newPe.weight
<1>1. /\ newPe.weight = Least(newPe.raw, CapHuman)
      /\ newPe.raw = SumOver([WeightsOf(u, e) EXCEPT ![v] = new], Video)
      /\ total = SumOver([WeightsIn(e) EXCEPT ![u] = newPe.weight], User)
  BY ReweighedOK
<1>2. /\ u \in User
      /\ \A w \in Video, k \in Epoch :
           /\ clip'[w].owner = clip[w].owner
           /\ clipEpoch'[w][k].weight =
                IF w = v /\ k = e THEN new ELSE clipEpoch[w][k].weight
      /\ partEpoch' = [partEpoch EXCEPT ![u][e] = newPe]
      /\ \A k \in Epoch :
           epoch'[k].totalWeight = IF k = e THEN total ELSE epoch[k].totalWeight
  BY DEF WeightMoves
<1>3. partEpoch \in [User -> [Epoch -> ParticipantEpoch]]
  BY DEF TypeOK
<1> HIDE DEF newPe, total
<1>4. ASSUME NEW x \in User, NEW k \in Epoch
      PROVE  RawSum(x, k)'
  <2>1. CASE x = u /\ k = e
    <3>1. WeightsOf(x, k)' = [WeightsOf(u, e) EXCEPT ![v] = new]
      BY <1>2, <2>1 DEF WeightsOf
    <3>2. partEpoch'[x][k] = newPe
      BY <1>2, <1>3, <2>1
    <3> QED
      BY <1>1, <2>1, <3>1, <3>2 DEF RawSum
  <2>2. CASE ~(x = u /\ k = e)
    <3>1. WeightsOf(x, k)' = WeightsOf(x, k)
      BY <1>2, <2>2 DEF WeightsOf
    <3>2. partEpoch'[x][k] = partEpoch[x][k]
      BY <1>2, <1>3, <2>2
    <3> QED
      BY <3>1, <3>2 DEF SumsKept, RawSum
  <2> QED
    BY <2>1, <2>2
<1>5. ASSUME NEW k \in Epoch
      PROVE  TotalSum(k)'
  <2>1. CASE k = e
    <3>1. WeightsIn(k)' = [WeightsIn(e) EXCEPT ![u] = newPe.weight]
      BY <1>2, <1>3, <2>1 DEF WeightsIn
    <3> QED
      BY <1>1, <1>2, <2>1, <3>1 DEF TotalSum
  <2>2. CASE k # e
    <3>1. WeightsIn(k)' = WeightsIn(k)
      BY <1>2, <1>3, <2>2 DEF WeightsIn
    <3> QED
      BY <1>2, <2>2, <3>1 DEF SumsKept, TotalSum
  <2> QED
    BY <2>1, <2>2
<1> QED
  BY <1>4, <1>5 DEF SumsKept

-----------------------------------------------------------------------------
(***************************************************************************)
(* The steps.                                                              *)
(***************************************************************************)
LEMMA EpochType == Epoch \subseteq Nat /\ Epochs \in Nat \ {0} /\ Last \in Epoch
BY TimelineAssumption DEF Epoch, Last

\* The initial state satisfies the invariant.
LEMMA InitKeeps ==
    ASSUME Init
    PROVE  IInv
<1>1. TypeOK
  BY PayoutAssumption, CampaignAssumption, EpochType
     DEF Init, TypeOK, CampaignRecord, NoClip, Clip, NoClipEpoch, ClipEpoch,
         ClipStatus, NoWeight, ParticipantEpoch, NewEpoch, EpochState, NoDispute,
         Dispute, DisputeStatus, Account
<1>2. SettledInOrder /\ SettledWhenDue /\ SpentBounded
  BY EpochType
     DEF Init, SettledInOrder, SettledWhenDue, SpentBounded, NewEpoch
<1>3. DisputesAgree
  <2>1. ASSUME NEW e \in Epoch
        PROVE  Undecided(e) = {}
    BY DEF Init, Undecided, NoDispute
  <2> QED
    BY <2>1, FS_EmptySet
       DEF Init, DisputesAgree, SameStory, NewEpoch, NoClipEpoch, NoDispute
<1>4. EntriesBelong
  BY DEF Init, EntriesBelong, NoClipEpoch, NoDispute
<1>5. SumsKept
  <2>1. ASSUME NEW u \in User, NEW e \in Epoch
        PROVE  RawSum(u, e)
    <3>1. WeightsOf(u, e) = [v \in Video |-> 0]
      BY DEF Init, WeightsOf, NoClipEpoch
    <3>2. partEpoch[u][e] = NoWeight
      BY DEF Init
    <3> QED
      BY <3>1, <3>2, SumZeros, CampaignAssumption, PayoutAssumption
         DEF RawSum, NoWeight, Least
  <2>2. ASSUME NEW e \in Epoch
        PROVE  TotalSum(e)
    <3>1. WeightsIn(e) = [u \in User |-> 0]
      BY DEF Init, WeightsIn, NoWeight
    <3> QED
      BY <3>1, SumZeros, CampaignAssumption DEF Init, TotalSum, NewEpoch
  <2> QED
    BY <2>1, <2>2 DEF SumsKept
<1> QED
  BY <1>1, <1>2, <1>3, <1>4, <1>5 DEF IInv

LEMMA TickKeeps ==
    ASSUME IInv, Tick
    PROVE  IInv'
<1>1. TypeOK'
  BY CampaignAssumption DEF IInv, TypeOK, Tick
<1>2. SameWeights /\ SameDisputes /\ SameEntries /\ SameSettlement /\ now' \in Nat
  BY DEF Tick, IInv, TypeOK, SameWeights, SameDisputes, SameEntries, SameSettlement
<1> QED
  BY <1>1, <1>2, SumsFrame, DisputesFrame, EntriesFrame, SettlementFrame DEF IInv

LEMMA JoinKeeps ==
    ASSUME IInv, NEW u \in User, Join(u)
    PROVE  IInv'
<1>1. TypeOK'
  BY DEF IInv, TypeOK, Join
<1>2. SameWeights /\ SameDisputes /\ SameEntries /\ SameSettlement /\ now' \in Nat
  BY DEF Join, IInv, TypeOK, SameWeights, SameDisputes, SameEntries, SameSettlement
<1> QED
  BY <1>1, <1>2, SumsFrame, DisputesFrame, EntriesFrame, SettlementFrame DEF IInv

LEMMA RegisterClipKeeps ==
    ASSUME IInv, NEW u \in User, NEW p \in Proof, RegisterClip(u, p)
    PROVE  IInv'
<1>1. p.video \in Video /\ p.views \in Nat
  BY CampaignAssumption DEF Proof
<1>2. CurrentEpoch(now) \in 0 .. Epochs
  BY CurrentEpochType DEF IInv, TypeOK
<1>3. \A v \in Video :
        clip'[v] = IF v = p.video
                   THEN [owner |-> u, baseline |-> p.views, hwm |-> p.views,
                         firstEpoch |-> CurrentEpoch(now)]
                   ELSE clip[v]
  BY DEF RegisterClip, IInv, TypeOK
<1>4. TypeOK'
  BY <1>1, <1>2 DEF IInv, TypeOK, RegisterClip, Clip
<1>5. \A e \in Epoch : clipEpoch[p.video][e].weight = 0
  BY <1>1 DEF RegisterClip, IInv, EntriesBelong
<1>6. SameWeights
  BY <1>3, <1>5 DEF RegisterClip, SameWeights
<1>7. SameEntries
  BY <1>3, CampaignAssumption DEF RegisterClip, SameEntries
<1>8. SameDisputes /\ SameSettlement /\ now' \in Nat
  BY DEF RegisterClip, IInv, TypeOK, SameDisputes, SameSettlement
<1> QED
  BY <1>4, <1>6, <1>7, <1>8, SumsFrame, DisputesFrame, EntriesFrame,
     SettlementFrame DEF IInv

-----------------------------------------------------------------------------
LEMMA SettleEpochKeeps ==
    ASSUME IInv, NEW e \in Epoch, SettleEpoch(e)
    PROVE  IInv'
<1>1. EpochsOK(epoch)
  BY DEF IInv, TypeOK, SpentBounded, EpochsOK
<1>2. /\ EpochsOK(epoch')
      /\ \A k \in Epoch : k # e => epoch'[k] = epoch[k]
      /\ epoch'[e].settled
      /\ SameWork(epoch[e], epoch'[e])
  BY <1>1, SettledOK DEF SettleEpoch
<1>3. e = campaign.settledEpochs
  <2>1. e \in Nat /\ campaign.settledEpochs \in Nat
    BY EpochType DEF IInv, TypeOK, CampaignRecord
  <2>2. e >= campaign.settledEpochs
    BY <2>1 DEF SettleEpoch, IInv, SettledInOrder
  <2>3. CASE e = 0
    BY <2>1, <2>2, <2>3
  <2>4. CASE e # 0
    <3>1. e - 1 \in Epoch /\ epoch[e - 1].settled
      BY <2>1, <2>4, EpochType DEF SettleEpoch, Epoch
    <3>2. e - 1 < campaign.settledEpochs
      BY <3>1 DEF IInv, SettledInOrder
    <3> QED
      BY <2>1, <2>2, <3>2
  <2> QED
    BY <2>3, <2>4
<1>4. campaign' = [campaign EXCEPT !.settledEpochs = e + 1]
      /\ campaign'.settledEpochs = e + 1 /\ e + 1 \in 0 .. Epochs
  BY EpochType DEF SettleEpoch, IInv, TypeOK, CampaignRecord, Epoch
<1>5. TypeOK'
  BY <1>2, <1>4 DEF SettleEpoch, IInv, TypeOK, CampaignRecord, EpochsOK
<1>6. SettledInOrder'
  BY <1>2, <1>3, <1>4, EpochType DEF IInv, SettledInOrder
<1>7. SettledWhenDue'
  <2>1. SettleAt(e) <= now' /\ epoch[e].openDisputes = 0 /\ now' = now
    BY DEF SettleEpoch, Ready
  <2> QED
    BY <1>2, <2>1 DEF IInv, SettledWhenDue, SameWork
<1>8. SpentBounded'
  BY <1>2 DEF EpochsOK, SpentBounded
<1>9. SameWeights /\ SameDisputes /\ SameEntries
  BY <1>2 DEF SettleEpoch, SameWeights, SameDisputes, SameEntries, SameWork
<1> QED
  BY <1>5, <1>6, <1>7, <1>8, <1>9, SumsFrame, DisputesFrame, EntriesFrame DEF IInv

-----------------------------------------------------------------------------
LEMMA PayType ==
    ASSUME TypeOK, NEW v \in Video, NEW e \in Epoch, clip[v].owner \in User
    PROVE  /\ Pay(v, e) \in Nat
           /\ HeldOf(e, Pay(v, e)) \in Nat
           /\ Immediate(v, e) \in Nat
<1> DEFINE pe == partEpoch[clip[v].owner][e]
<1>1. pe \in ParticipantEpoch /\ epoch[e].rate \in Nat
      /\ clipEpoch[v][e].weight \in Nat
  BY DEF TypeOK, EpochState, ClipEpoch
<1>2. pe = [raw |-> pe.raw, weight |-> pe.weight] /\ pe.raw \in Nat /\ pe.weight \in Nat
  BY <1>1 DEF ParticipantEpoch
<1>3. Pay(v, e) \in Nat
  <2> HIDE DEF pe
  <2>1. ClipPay(epoch[e].rate, [raw |-> pe.raw, weight |-> pe.weight],
                clipEpoch[v][e].weight) \in Nat
    BY <1>1, <1>2, ClipPayType
  <2> QED
    BY <1>2, <2>1 DEF Pay, pe
<1>4. HeldOf(e, Pay(v, e)) \in 0 .. Pay(v, e)
  BY <1>3, HeldWithinPay
<1> QED
  BY <1>3, <1>4 DEF Immediate

LEMMA PayOutType ==
    ASSUME TypeOK, NEW to \in User, NEW amount \in Nat, PayOut(to, amount)
    PROVE  /\ token' \in [Account -> Nat]
           /\ campaign' \in CampaignRecord
           /\ campaign'.settledEpochs = campaign.settledEpochs
<1> DEFINE paid == Least(amount, campaign.balance)
<1>1. /\ token \in [Account -> Nat] /\ Contract \in Account /\ to \in Account
      /\ campaign \in CampaignRecord
      /\ to # Contract
  BY CampaignAssumption DEF TypeOK, Account
<1>2. paid \in Nat /\ paid <= campaign.balance
  BY <1>1 DEF Least, CampaignRecord
<1>3. paid <= token[Contract] /\ token' = Transfer(Contract, to, paid)
      /\ campaign' = [campaign EXCEPT !.balance = @ - paid]
  BY DEF PayOut
<1> HIDE DEF paid
<1> QED
  BY <1>1, <1>2, <1>3 DEF Transfer, CampaignRecord

LEMMA RecordChanged ==
    ASSUME NEW c \in [Video -> [Epoch -> ClipEpoch]], NEW v \in Video,
           NEW e \in Epoch, NEW r \in ClipEpoch
    PROVE  LET d == [c EXCEPT ![v][e] = r]
           IN  /\ d \in [Video -> [Epoch -> ClipEpoch]]
               /\ \A w \in Video, k \in Epoch :
                    d[w][k] = IF w = v /\ k = e THEN r ELSE c[w][k]
OBVIOUS

LEMMA ClaimKeeps ==
    ASSUME IInv, NEW v \in Video, NEW e \in Epoch, Claim(v, e)
    PROVE  IInv'
<1>1. clip[v].owner \in User
  BY DEF IInv, TypeOK, Clip, Claim
<1>2. Immediate(v, e) \in Nat
  BY <1>1, PayType DEF IInv
<1>3. /\ token' \in [Account -> Nat]
      /\ campaign' \in CampaignRecord
      /\ campaign'.settledEpochs = campaign.settledEpochs
  BY <1>1, <1>2, PayOutType DEF IInv, Claim
<1>4. clipEpoch' \in [Video -> [Epoch -> ClipEpoch]]
      /\ \A w \in Video, k \in Epoch :
           /\ clipEpoch'[w][k].weight = clipEpoch[w][k].weight
           /\ clipEpoch'[w][k].status = clipEpoch[w][k].status
  <2> DEFINE r == [clipEpoch[v][e] EXCEPT !.claimed = TRUE]
  <2>1. clipEpoch' = [clipEpoch EXCEPT ![v][e] = r]
    BY DEF Claim
  <2>2. clipEpoch[v][e] \in ClipEpoch
    BY DEF IInv, TypeOK
  <2>3. /\ r \in ClipEpoch
        /\ r.weight = clipEpoch[v][e].weight
        /\ r.status = clipEpoch[v][e].status
    BY <2>2 DEF ClipEpoch
  <2> HIDE DEF r
  <2> QED
    BY <2>1, <2>3, RecordChanged DEF IInv, TypeOK
<1>5. TypeOK'
  BY <1>3, <1>4 DEF IInv, TypeOK, Claim
<1>6. SameWeights /\ SameDisputes /\ SameEntries /\ SameSettlement /\ now' \in Nat
  BY <1>3, <1>4 DEF Claim, IInv, TypeOK, SameWeights, SameDisputes, SameEntries,
                    SameSettlement
<1> QED
  BY <1>5, <1>6, SumsFrame, DisputesFrame, EntriesFrame, SettlementFrame DEF IInv

LEMMA ClaimHoldbackKeeps ==
    ASSUME IInv, NEW v \in Video, NEW e \in Epoch, ClaimHoldback(v, e)
    PROVE  IInv'
<1>1. clip[v].owner \in User
  BY DEF IInv, TypeOK, Clip, ClaimHoldback
<1>2. Share(v, e) \in Nat
  <2>1. epoch[e].heldTotal \in Nat /\ epoch[e].heldSurvived \in Nat \ {0}
    BY DEF IInv, TypeOK, EpochState, ClaimHoldback
  <2>2. HeldOf(e, Pay(v, e)) \in Nat
    BY <1>1, PayType DEF IInv
  <2> QED
    BY <2>1, <2>2, ShareType DEF Share
<1>3. /\ token' \in [Account -> Nat]
      /\ campaign' \in CampaignRecord
      /\ campaign'.settledEpochs = campaign.settledEpochs
  BY <1>1, <1>2, PayOutType DEF IInv, ClaimHoldback
<1>4. clipEpoch' \in [Video -> [Epoch -> ClipEpoch]]
      /\ \A w \in Video, k \in Epoch :
           /\ clipEpoch'[w][k].weight = clipEpoch[w][k].weight
           /\ clipEpoch'[w][k].status = clipEpoch[w][k].status
  <2> DEFINE r == [clipEpoch[v][e] EXCEPT !.holdbackClaimed = TRUE]
  <2>1. clipEpoch' = [clipEpoch EXCEPT ![v][e] = r]
    BY DEF ClaimHoldback
  <2>2. clipEpoch[v][e] \in ClipEpoch
    BY DEF IInv, TypeOK
  <2>3. /\ r \in ClipEpoch
        /\ r.weight = clipEpoch[v][e].weight
        /\ r.status = clipEpoch[v][e].status
    BY <2>2 DEF ClipEpoch
  <2> HIDE DEF r
  <2> QED
    BY <2>1, <2>3, RecordChanged DEF IInv, TypeOK
<1>5. TypeOK'
  BY <1>3, <1>4 DEF IInv, TypeOK, ClaimHoldback
<1>6. SameWeights /\ SameDisputes /\ SameEntries /\ SameSettlement /\ now' \in Nat
  BY <1>3, <1>4 DEF ClaimHoldback, IInv, TypeOK, SameWeights, SameDisputes,
                    SameEntries, SameSettlement
<1> QED
  BY <1>5, <1>6, SumsFrame, DisputesFrame, EntriesFrame, SettlementFrame DEF IInv

LEMMA RefundKeeps ==
    ASSUME IInv, Refund
    PROVE  IInv'
<1>1. /\ Brand \in Account /\ Contract \in Account /\ Brand # Contract
      /\ token \in [Account -> Nat] /\ campaign \in CampaignRecord
  BY CampaignAssumption DEF IInv, TypeOK, Account
<1>2. token' \in [Account -> Nat]
  BY <1>1 DEF Refund, Transfer, CampaignRecord
<1>3. campaign' \in CampaignRecord /\ campaign'.settledEpochs = campaign.settledEpochs
  BY <1>1 DEF Refund, CampaignRecord
<1>4. TypeOK'
  BY <1>2, <1>3 DEF IInv, TypeOK, Refund
<1>5. SameWeights /\ SameDisputes /\ SameEntries /\ SameSettlement /\ now' \in Nat
  BY <1>3 DEF Refund, IInv, TypeOK, SameWeights, SameDisputes, SameEntries,
              SameSettlement
<1> QED
  BY <1>4, <1>5, SumsFrame, DisputesFrame, EntriesFrame, SettlementFrame DEF IInv

-----------------------------------------------------------------------------
LEMMA UndecidedFinite ==
    ASSUME NEW e \in Epoch
    PROVE  IsFiniteSet(Undecided(e)) /\ Cardinality(Undecided(e)) \in Nat
<1>1. Undecided(e) \in SUBSET Video
  BY DEF Undecided
<1> QED
  BY <1>1, FS_Subset, FS_CardinalityType, CampaignAssumption

\* An epoch that an undecided dispute is about is not settled.
LEMMA UndecidedUnsettled ==
    ASSUME DisputesAgree, SettledWhenDue, NEW v \in Video, NEW e \in Epoch,
           dispute[v][e].status \in {"Open", "Responded"}
    PROVE  ~epoch[e].settled
<1>1. v \in Undecided(e)
  BY DEF Undecided
<1>2. Cardinality(Undecided(e)) # 0
  BY <1>1, UndecidedFinite, FS_EmptySet
<1> QED
  BY <1>2 DEF DisputesAgree, SettledWhenDue

\* The records of one clip's epoch after a step of its dispute.
DisputeMoves(v, e, r, d) ==
    /\ clipEpoch' = [clipEpoch EXCEPT ![v][e] = r]
    /\ dispute' = [dispute EXCEPT ![v][e] = d]
    /\ \A k \in Epoch :
         epoch'[k].openDisputes =
           epoch[k].openDisputes
             + (IF k # e THEN 0
                ELSE (IF d.status \in {"Open", "Responded"} THEN 1 ELSE 0)
                     - (IF dispute[v][e].status \in {"Open", "Responded"} THEN 1 ELSE 0))

LEMMA DisputesMove ==
    ASSUME clipEpoch \in [Video -> [Epoch -> ClipEpoch]],
           dispute \in [Video -> [Epoch -> Dispute]], DisputesAgree,
           NEW v \in Video, NEW e \in Epoch, NEW r \in ClipEpoch,
           NEW d \in Dispute, DisputeMoves(v, e, r, d), SameStory(r.status, d.status)
    PROVE  DisputesAgree'
<1> DEFINE Pending == {"Open", "Responded"}
<1>1. \A w \in Video, k \in Epoch :
        /\ clipEpoch'[w][k] = IF w = v /\ k = e THEN r ELSE clipEpoch[w][k]
        /\ dispute'[w][k] = IF w = v /\ k = e THEN d ELSE dispute[w][k]
  BY DEF DisputeMoves
<1>2. \A k \in Epoch : epoch[k].openDisputes = Cardinality(Undecided(k))
  BY DEF DisputesAgree
<1>3. ASSUME NEW k \in Epoch
      PROVE  epoch'[k].openDisputes = Cardinality(Undecided(k)')
  <2>1. IsFiniteSet(Undecided(k)) /\ Cardinality(Undecided(k)) \in Nat
    BY UndecidedFinite
  <2>2. CASE k # e
    <3>1. Undecided(k)' = Undecided(k)
      BY <1>1, <2>2 DEF Undecided
    <3> QED
      BY <1>2, <2>1, <2>2, <3>1 DEF DisputeMoves
  <2>3. CASE k = e /\ (d.status \in Pending <=> dispute[v][e].status \in Pending)
    <3>1. Undecided(k)' = Undecided(k)
      BY <1>1, <2>3 DEF Undecided
    <3> QED
      BY <1>2, <2>1, <2>3, <3>1 DEF DisputeMoves
  <2>4. CASE k = e /\ d.status \in Pending /\ dispute[v][e].status \notin Pending
    <3>1. Undecided(k)' = Undecided(k) \cup {v} /\ v \notin Undecided(k)
      BY <1>1, <2>4 DEF Undecided
    <3>2. Cardinality(Undecided(k)') = Cardinality(Undecided(k)) + 1
      BY <2>1, <3>1, FS_AddElement
    <3> QED
      BY <1>2, <2>1, <2>4, <3>2 DEF DisputeMoves
  <2>5. CASE k = e /\ d.status \notin Pending /\ dispute[v][e].status \in Pending
    <3>1. Undecided(k)' = Undecided(k) \ {v} /\ v \in Undecided(k)
      BY <1>1, <2>5 DEF Undecided
    <3>2. Cardinality(Undecided(k)') = Cardinality(Undecided(k)) - 1
      BY <2>1, <3>1, FS_RemoveElement
    <3> QED
      BY <1>2, <2>1, <2>5, <3>2 DEF DisputeMoves
  <2> QED
    BY <2>2, <2>3, <2>4, <2>5
<1>4. ASSUME NEW w \in Video, NEW k \in Epoch
      PROVE  SameStory(clipEpoch'[w][k].status, dispute'[w][k].status)
  BY <1>1 DEF DisputesAgree
<1> QED
  BY <1>3, <1>4 DEF DisputesAgree

LEMMA ChallengeKeeps ==
    ASSUME IInv, NEW v \in Video, NEW e \in Epoch, NEW a \in Challenger,
           Challenge(v, e, a)
    PROVE  IInv'
<1> DEFINE r == [clipEpoch[v][e] EXCEPT !.status = "Challenged"]
           d == [status |-> "Open", challenger |-> a]
           st == [epoch[e] EXCEPT !.openDisputes = @ + 1]
<1>1. clipEpoch[v][e] \in ClipEpoch /\ epoch[e] \in EpochState
      /\ a \in User \cup {Brand}
  BY CampaignAssumption DEF IInv, TypeOK
<1>2. r \in ClipEpoch /\ r.weight = clipEpoch[v][e].weight /\ r.status = "Challenged"
  BY <1>1 DEF ClipEpoch, ClipStatus
<1>3. d \in Dispute /\ d.status = "Open" /\ d.challenger \in User \cup {Brand}
  BY <1>1 DEF Dispute, DisputeStatus
<1>4. st \in EpochState /\ st.openDisputes = epoch[e].openDisputes + 1
      /\ st.totalWeight = epoch[e].totalWeight /\ st.settled = epoch[e].settled
      /\ st.spent = epoch[e].spent /\ st.budget = epoch[e].budget
  BY <1>1 DEF EpochState
<1>5. clipEpoch' = [clipEpoch EXCEPT ![v][e] = r]
      /\ dispute' = [dispute EXCEPT ![v][e] = d]
      /\ epoch' = [epoch EXCEPT ![e] = st]
      /\ UNCHANGED <<now, campaign, joined, clip, partEpoch, usedProof>>
  BY DEF Challenge
<1>6. /\ token \in [Account -> Nat] /\ a \in Account /\ Contract \in Account
      /\ a # Contract /\ Bond \in Nat /\ Bond <= token[a]
      /\ token' = Transfer(a, Contract, Bond)
  BY <1>1, CampaignAssumption DEF IInv, TypeOK, Account, Challenge
<1>7. clipEpoch[v][e].status = "Active" /\ dispute[v][e].status = "None"
      /\ clip[v].owner # Nobody
  BY DEF Challenge
<1>8. ~epoch[e].settled
  <2>1. now < SettleAt(e) /\ now \in Nat /\ SettleAt(e) \in Nat
    BY PhasesInOrder, TimelineType, EpochType DEF Challenge, IInv, TypeOK
  <2> QED
    BY <2>1 DEF IInv, SettledWhenDue
<1> HIDE DEF r, d, st
<1>9. token' \in [Account -> Nat]
  BY <1>6 DEF Transfer
<1>10. /\ clipEpoch' \in [Video -> [Epoch -> ClipEpoch]]
       /\ \A w \in Video, k \in Epoch :
            clipEpoch'[w][k] = IF w = v /\ k = e THEN r ELSE clipEpoch[w][k]
  BY <1>2, <1>5, RecordChanged DEF IInv, TypeOK
<1>11. /\ dispute' \in [Video -> [Epoch -> Dispute]]
       /\ \A w \in Video, k \in Epoch :
            dispute'[w][k] = IF w = v /\ k = e THEN d ELSE dispute[w][k]
  BY <1>3, <1>5 DEF IInv, TypeOK
<1>12. /\ epoch' \in [Epoch -> EpochState]
       /\ \A k \in Epoch : epoch'[k] = IF k = e THEN st ELSE epoch[k]
  BY <1>4, <1>5 DEF IInv, TypeOK
<1>13. TypeOK'
  BY <1>5, <1>9, <1>10, <1>11, <1>12 DEF IInv, TypeOK
<1>14. DisputesAgree'
  <2>1. DisputeMoves(v, e, r, d)
    BY <1>3, <1>4, <1>5, <1>7, <1>12 DEF DisputeMoves, IInv, TypeOK, EpochState
  <2> QED
    BY <1>2, <1>3, <2>1, DisputesMove DEF SameStory, IInv, TypeOK
<1>15. SameWeights
  BY <1>2, <1>4, <1>5, <1>10, <1>12 DEF SameWeights
<1>16. SameSettlement /\ now' \in Nat
  BY <1>4, <1>5, <1>8, <1>12 DEF SameSettlement, IInv, TypeOK
<1>17. EntriesBelong'
  BY <1>2, <1>3, <1>5, <1>7, <1>10, <1>11 DEF IInv, EntriesBelong
<1> QED
  BY <1>13, <1>14, <1>15, <1>16, <1>17, SumsFrame, SettlementFrame DEF IInv

LEMMA RespondKeeps ==
    ASSUME IInv, NEW v \in Video, NEW e \in Epoch, Respond(v, e)
    PROVE  IInv'
<1> DEFINE r == [clipEpoch[v][e] EXCEPT !.status = "Responded"]
           d == [dispute[v][e] EXCEPT !.status = "Responded"]
<1>1. clipEpoch[v][e] \in ClipEpoch /\ dispute[v][e] \in Dispute
  BY DEF IInv, TypeOK
<1>2. r \in ClipEpoch /\ r.weight = clipEpoch[v][e].weight /\ r.status = "Responded"
  BY <1>1 DEF ClipEpoch, ClipStatus
<1>3. d \in Dispute /\ d.status = "Responded"
      /\ d.challenger = dispute[v][e].challenger
  BY <1>1 DEF Dispute, DisputeStatus
<1>4. clipEpoch' = [clipEpoch EXCEPT ![v][e] = r]
      /\ dispute' = [dispute EXCEPT ![v][e] = d]
      /\ UNCHANGED <<now, campaign, joined, clip, partEpoch, epoch, usedProof, token>>
      /\ dispute[v][e].status = "Open"
  BY DEF Respond, Answered
<1> HIDE DEF r, d
<1>5. /\ clipEpoch' \in [Video -> [Epoch -> ClipEpoch]]
      /\ \A w \in Video, k \in Epoch :
           clipEpoch'[w][k] = IF w = v /\ k = e THEN r ELSE clipEpoch[w][k]
  BY <1>2, <1>4, RecordChanged DEF IInv, TypeOK
<1>6. /\ dispute' \in [Video -> [Epoch -> Dispute]]
      /\ \A w \in Video, k \in Epoch :
           dispute'[w][k] = IF w = v /\ k = e THEN d ELSE dispute[w][k]
  BY <1>3, <1>4 DEF IInv, TypeOK
<1>7. TypeOK'
  BY <1>4, <1>5, <1>6 DEF IInv, TypeOK
<1>8. DisputesAgree'
  <2>1. DisputeMoves(v, e, r, d)
    BY <1>3, <1>4 DEF DisputeMoves, IInv, TypeOK, EpochState
  <2> QED
    BY <1>2, <1>3, <2>1, DisputesMove DEF SameStory, IInv, TypeOK
<1>9. SameWeights /\ SameSettlement /\ now' \in Nat
  BY <1>2, <1>4, <1>5 DEF SameWeights, SameSettlement, IInv, TypeOK
<1>10. EntriesBelong'
  BY <1>2, <1>3, <1>4, <1>5, <1>6 DEF IInv, EntriesBelong
<1> QED
  BY <1>7, <1>8, <1>9, <1>10, SumsFrame, SettlementFrame DEF IInv

LEMMA CloseKeeps ==
    ASSUME IInv, NEW v \in Video, NEW e \in Epoch, NEW clipperWins \in BOOLEAN,
           dispute[v][e].status \in {"Open", "Responded"}, Close(v, e, clipperWins)
    PROVE  IInv'
<1> DEFINE u == clip[v].owner
           ce == clipEpoch[v][e]
           pe == partEpoch[u][e]
           newPe == Reweighed(pe, ce.weight, 0)
           st == [epoch[e] EXCEPT !.openDisputes = @ - 1]
           open == epoch[e].openDisputes
<1>1. /\ ce \in ClipEpoch /\ dispute[v][e] \in Dispute /\ epoch[e] \in EpochState
      /\ clipEpoch \in [Video -> [Epoch -> ClipEpoch]]
      /\ dispute \in [Video -> [Epoch -> Dispute]]
      /\ epoch \in [Epoch -> EpochState]
      /\ partEpoch \in [User -> [Epoch -> ParticipantEpoch]]
  BY DEF IInv, TypeOK
<1>2. u \in User /\ dispute[v][e].challenger \in User \cup {Brand} /\ u # Nobody
      /\ ce.status # "None"
  BY DEF IInv, TypeOK, Clip, EntriesBelong
<1>3. open \in Nat \ {0}
  <2>1. v \in Undecided(e)
    BY DEF Undecided
  <2> QED
    BY <2>1, UndecidedFinite, FS_EmptySet DEF IInv, DisputesAgree
<1>4. st \in EpochState /\ st.openDisputes = open - 1
      /\ st.totalWeight = epoch[e].totalWeight /\ st.settled = epoch[e].settled
      /\ st.spent = epoch[e].spent /\ st.budget = epoch[e].budget
  <2>1. open - 1 \in Nat /\ st = [epoch[e] EXCEPT !.openDisputes = open - 1]
    BY <1>3
  <2> HIDE DEF st, open
  <2> QED
    BY <1>1, <2>1 DEF EpochState
<1>5. ~epoch[e].settled
  BY UndecidedUnsettled DEF IInv
<1>6. UNCHANGED <<now, campaign, joined, clip, usedProof>>
      /\ Bond <= token[Contract]
  BY DEF Close
<1>7. token' \in [Account -> Nat]
  <2>1. PICK to \in User \cup {Brand} : token' = Transfer(Contract, to, Bond)
    BY <1>2 DEF Close
  <2>2. to \in Account /\ to # Contract /\ Contract \in Account /\ Bond \in Nat
        /\ token \in [Account -> Nat]
    BY CampaignAssumption DEF Account, IInv, TypeOK
  <2> QED
    BY <1>6, <2>1, <2>2 DEF Transfer
<1>8. CASE clipperWins
  <2> DEFINE r == [ce EXCEPT !.status = "Active"]
             d == [dispute[v][e] EXCEPT !.status = "ClipperWon"]
  <2>1. r \in ClipEpoch /\ r.weight = ce.weight /\ r.status = "Active"
    BY <1>1 DEF ClipEpoch, ClipStatus
  <2>2. d \in Dispute /\ d.status = "ClipperWon"
        /\ d.challenger = dispute[v][e].challenger
    BY <1>1 DEF Dispute, DisputeStatus
  <2>3. clipEpoch' = [clipEpoch EXCEPT ![v][e] = r]
        /\ dispute' = [dispute EXCEPT ![v][e] = d]
        /\ epoch' = [epoch EXCEPT ![e] = st]
        /\ partEpoch' = partEpoch
    BY <1>8 DEF Close
  <2> HIDE DEF r, d, st, ce
  <2>4. /\ clipEpoch' \in [Video -> [Epoch -> ClipEpoch]]
        /\ \A w \in Video, k \in Epoch :
             clipEpoch'[w][k] = IF w = v /\ k = e THEN r ELSE clipEpoch[w][k]
    BY <1>1, <2>1, <2>3, RecordChanged
  <2>5. /\ dispute' \in [Video -> [Epoch -> Dispute]]
        /\ \A w \in Video, k \in Epoch :
             dispute'[w][k] = IF w = v /\ k = e THEN d ELSE dispute[w][k]
    BY <1>1, <2>2, <2>3
  <2>6. /\ epoch' \in [Epoch -> EpochState]
        /\ \A k \in Epoch : epoch'[k] = IF k = e THEN st ELSE epoch[k]
    BY <1>1, <1>4, <2>3
  <2>7. TypeOK'
    BY <1>6, <1>7, <2>3, <2>4, <2>5, <2>6 DEF IInv, TypeOK
  <2>8. DisputesAgree'
    <3>1. DisputeMoves(v, e, r, d)
      BY <1>1, <1>3, <1>4, <2>2, <2>3, <2>6 DEF DisputeMoves, EpochState
    <3> QED
      BY <2>1, <2>2, <3>1, DisputesMove DEF SameStory, IInv, TypeOK
  <2>9. SameWeights
    BY <1>4, <1>6, <2>1, <2>3, <2>4, <2>6 DEF SameWeights, ce
  <2>10. SameSettlement /\ now' \in Nat
    BY <1>4, <1>5, <1>6, <2>6 DEF SameSettlement, IInv, TypeOK
  <2>11. EntriesBelong'
    <3>1. r.status # "None" /\ d.status # "None" /\ d.challenger \in User \cup {Brand}
      BY <1>2, <2>1, <2>2
    <3> QED
      BY <1>2, <1>6, <2>4, <2>5, <3>1 DEF IInv, EntriesBelong
  <2> QED
    BY <2>7, <2>8, <2>9, <2>10, <2>11, SumsFrame, SettlementFrame DEF IInv
<1>9. CASE ~clipperWins
  <2> DEFINE r == [ce EXCEPT !.status = "Excluded", !.weight = 0]
             d == [dispute[v][e] EXCEPT !.status = "ChallengerWon"]
             total == epoch[e].totalWeight - pe.weight + newPe.weight
             st2 == Retotalled(st, pe, newPe)
  <2>1. r \in ClipEpoch /\ r.weight = 0 /\ r.status = "Excluded"
    BY <1>1 DEF ClipEpoch, ClipStatus
  <2>2. d \in Dispute /\ d.status = "ChallengerWon"
        /\ d.challenger = dispute[v][e].challenger
    BY <1>1 DEF Dispute, DisputeStatus
  <2>3. clipEpoch' = [clipEpoch EXCEPT ![v][e] = r]
        /\ dispute' = [dispute EXCEPT ![v][e] = d]
        /\ epoch' = [epoch EXCEPT ![e] = st2]
        /\ partEpoch' = [partEpoch EXCEPT ![u][e] = newPe]
    BY <1>9 DEF Close
  <2>4. newPe \in ParticipantEpoch /\ total \in Nat
    BY <1>2, ReweighedOK DEF IInv
  <2>5. st2 = [st EXCEPT !.totalWeight = total]
    BY <1>4 DEF Retotalled
  <2> HIDE DEF st, total, newPe
  <2>6. st2 \in EpochState /\ st2.openDisputes = open - 1
        /\ st2.totalWeight = total /\ st2.settled = epoch[e].settled
        /\ st2.spent = epoch[e].spent /\ st2.budget = epoch[e].budget
    BY <1>4, <2>4, <2>5 DEF EpochState
  <2> HIDE DEF r, d, st2
  <2>7. /\ clipEpoch' \in [Video -> [Epoch -> ClipEpoch]]
        /\ \A w \in Video, k \in Epoch :
             clipEpoch'[w][k] = IF w = v /\ k = e THEN r ELSE clipEpoch[w][k]
    BY <1>1, <2>1, <2>3, RecordChanged
  <2>8. /\ dispute' \in [Video -> [Epoch -> Dispute]]
        /\ \A w \in Video, k \in Epoch :
             dispute'[w][k] = IF w = v /\ k = e THEN d ELSE dispute[w][k]
    BY <1>1, <2>2, <2>3
  <2>9. /\ epoch' \in [Epoch -> EpochState]
        /\ \A k \in Epoch : epoch'[k] = IF k = e THEN st2 ELSE epoch[k]
    BY <1>1, <2>6, <2>3
  <2>10. partEpoch' \in [User -> [Epoch -> ParticipantEpoch]]
    BY <1>1, <1>2, <2>3, <2>4
  <2>11. TypeOK'
    BY <1>6, <1>7, <2>7, <2>8, <2>9, <2>10 DEF IInv, TypeOK
  <2>12. DisputesAgree'
    <3>1. DisputeMoves(v, e, r, d)
      BY <1>1, <1>3, <2>2, <2>3, <2>6, <2>9 DEF DisputeMoves, EpochState
    <3> QED
      BY <2>1, <2>2, <3>1, DisputesMove DEF SameStory, IInv, TypeOK
  <2>13. WeightMoves(v, e, 0)
    BY <1>6, <2>1, <2>3, <2>6, <2>7, <2>9 DEF WeightMoves, total, newPe
  <2>14. SameSettlement /\ now' \in Nat
    BY <1>5, <1>6, <2>6, <2>9 DEF SameSettlement, IInv, TypeOK
  <2>15. EntriesBelong'
    BY <1>2, <1>6, <2>1, <2>2, <2>7, <2>8 DEF IInv, EntriesBelong
  <2>16. SumsKept'
    BY <1>2, <2>13, SumsMove DEF IInv
  <2> QED
    BY <2>11, <2>12, <2>14, <2>15, <2>16, SettlementFrame DEF IInv
<1> QED
  BY <1>8, <1>9

-----------------------------------------------------------------------------
\* What a closing proof leaves of an epoch's state, once epochs are settled.
AfterProof(st, new) ==
    /\ new.settled = st.settled
    /\ new.openDisputes = st.openDisputes
    /\ new.spent = st.spent
    /\ new.budget = st.budget

LEMMA SubmitProofKeeps ==
    ASSUME IInv, NEW e \in Epoch, NEW p \in Proof, SubmitProof(e, p)
    PROVE  IInv'
<1> DEFINE v == p.video
           u == clip[v].owner
           ce == ClosingRecord(v, e)
           views == Greatest(ce.views, p.views)
           weight == ClipWeight(ce.baseline, views)
           pe == partEpoch[u][e]
           newPe == Reweighed(pe, ce.weight, weight)
           es == SettledBefore(e)
           s == campaign.settledEpochs
           r == [ce EXCEPT !.views = views, !.weight = weight]
           total == epoch[e].totalWeight - pe.weight + newPe.weight
           revived(k) == k = e - 1 /\ Revives(v, k)
           more(k) == es[k].heldSurvived + Held(v, k, es[k].rate)
<1>1. /\ v \in Video /\ p.views \in Nat
      /\ clip \in [Video -> Clip]
      /\ clipEpoch \in [Video -> [Epoch -> ClipEpoch]]
      /\ partEpoch \in [User -> [Epoch -> ParticipantEpoch]]
      /\ s \in 0 .. Epochs /\ e \in Nat /\ e < Epochs /\ now \in Nat
  <2>1. v \in Video /\ p.views \in Nat
    BY CampaignAssumption DEF Proof
  <2>2. s \in 0 .. Epochs
    BY DEF IInv, TypeOK, CampaignRecord
  <2>3. e \in Nat /\ e < Epochs
    BY EpochType DEF Epoch
  <2> QED
    BY <2>1, <2>2, <2>3 DEF IInv, TypeOK
<1>2. u \in User /\ u # Nobody /\ ce.status = "Active"
  BY <1>1 DEF SubmitProof, Clip
<1>3. ce \in ClipEpoch /\ ce.weight = clipEpoch[v][e].weight
      /\ clipEpoch[v][e].status \in {"None", "Active"}
  <2>1. CASE clipEpoch[v][e].status = "None"
    <3>1. clip[v].hwm \in Nat /\ clipEpoch[v][e].weight = 0
      BY <1>1, <2>1 DEF Clip, IInv, EntriesBelong
    <3>2. ce = [NoClipEpoch EXCEPT !.baseline = clip[v].hwm, !.status = "Active"]
      BY <2>1 DEF ClosingRecord, ClosingBaseline
    <3> DEFINE h == clip[v].hwm
    <3>3. ce = [baseline |-> h, views |-> 0, weight |-> 0, status |-> "Active",
                claimed |-> FALSE, alive |-> FALSE, holdbackClaimed |-> FALSE]
      BY <3>2 DEF NoClipEpoch
    <3> HIDE DEF h, ce
    <3>4. h \in Nat
      BY <3>1 DEF h
    <3> QED
      BY <2>1, <3>1, <3>3, <3>4 DEF ClipEpoch, ClipStatus
  <2>2. CASE clipEpoch[v][e].status # "None"
    BY <1>1, <1>2, <2>2 DEF ClosingRecord
  <2> QED
    BY <2>1, <2>2
<1>4. views \in Nat /\ weight \in Nat
  <2>1. views \in Nat /\ ce.baseline \in Nat
    BY <1>1, <1>3 DEF Greatest, ClipEpoch
  <2> QED
    BY <2>1, ClipWeightType
<1>5. r \in ClipEpoch /\ r.weight = weight /\ r.status = "Active"
  BY <1>2, <1>3, <1>4 DEF ClipEpoch
<1>6. newPe = Reweighed(pe, clipEpoch[v][e].weight, weight)
      /\ newPe \in ParticipantEpoch /\ total \in Nat
  BY <1>1, <1>2, <1>3, <1>4, ReweighedOK DEF IInv
<1>7. ChainOK(es, s, e)
  BY SettledBeforeOK
<1>8. es \in [Epoch -> EpochState] /\ \A k \in Epoch : es[k].spent <= es[k].budget
  BY <1>7 DEF ChainOK, EpochsOK
<1>9. \A k \in Epoch :
        /\ k \notin s .. e - 1 => es[k] = epoch[k]
        /\ k \in s .. e - 1 => es[k].settled
        /\ es[k].totalWeight = epoch[k].totalWeight
        /\ es[k].openDisputes = epoch[k].openDisputes
  BY <1>7 DEF ChainOK, SameWork
<1>10. /\ campaign' = [campaign EXCEPT !.settledEpochs = Greatest(@, e)]
       /\ partEpoch' = [partEpoch EXCEPT ![u][e] = newPe]
       /\ clip' = [clip EXCEPT ![v].hwm = Greatest(@, p.views)]
       /\ clipEpoch' =
            [clipEpoch EXCEPT ![v] =
              [k \in Epoch |->
                 IF k = e THEN r
                 ELSE IF revived(k) THEN [@[k] EXCEPT !.alive = TRUE]
                 ELSE @[k]]]
       /\ epoch' =
            [k \in Epoch |->
               IF k = e THEN Retotalled(es[k], pe, newPe)
               ELSE IF revived(k) THEN [es[k] EXCEPT !.heldSurvived = more(k)]
               ELSE es[k]]
       /\ usedProof' = usedProof \cup {p}
       /\ UNCHANGED <<now, joined, dispute, token>>
  BY DEF SubmitProof
<1>11. ContentEnd(e) <= now /\ now < ProofEnd(e) /\ AllReady(e)
  BY DEF SubmitProof
<1> HIDE DEF v, ce, views, weight, newPe, es, r, total, revived, pe
<1>12. /\ clipEpoch' \in [Video -> [Epoch -> ClipEpoch]]
       /\ \A w \in Video, k \in Epoch :
            /\ clipEpoch'[w][k].weight =
                 IF w = v /\ k = e THEN weight ELSE clipEpoch[w][k].weight
            /\ clipEpoch'[w][k].status =
                 IF w = v /\ k = e THEN "Active" ELSE clipEpoch[w][k].status
  <2> DEFINE f == [k \in Epoch |->
                     IF k = e THEN r
                     ELSE IF revived(k) THEN [clipEpoch[v][k] EXCEPT !.alive = TRUE]
                     ELSE clipEpoch[v][k]]
  <2>1. ASSUME NEW k \in Epoch
        PROVE  LET c == clipEpoch[v][k]
                   a == [c EXCEPT !.alive = TRUE]
               IN  a \in ClipEpoch /\ a.weight = c.weight /\ a.status = c.status
    <3>1. clipEpoch[v][k] \in ClipEpoch
      BY <1>1
    <3> QED
      BY <3>1 DEF ClipEpoch
  <2>2. f \in [Epoch -> ClipEpoch]
        /\ \A k \in Epoch :
             /\ f[k].weight = IF k = e THEN weight ELSE clipEpoch[v][k].weight
             /\ f[k].status = IF k = e THEN "Active" ELSE clipEpoch[v][k].status
    BY <1>1, <1>5, <2>1
  <2>3. clipEpoch' = [clipEpoch EXCEPT ![v] = f]
    BY <1>10
  <2> HIDE DEF f
  <2> QED
    BY <1>1, <2>2, <2>3
<1>13. ASSUME NEW k \in Epoch, revived(k)
       PROVE  more(k) \in Nat
  <2>1. partEpoch[u][k] \in ParticipantEpoch /\ clipEpoch[v][k].weight \in Nat
        /\ es[k].rate \in Nat /\ es[k].heldSurvived \in Nat
    BY <1>1, <1>2, <1>8 DEF ClipEpoch, EpochState
  <2>2. partEpoch[u][k] = [raw |-> partEpoch[u][k].raw,
                           weight |-> partEpoch[u][k].weight]
        /\ partEpoch[u][k].raw \in Nat /\ partEpoch[u][k].weight \in Nat
    BY <2>1 DEF ParticipantEpoch
  <2>3. ClipPay(es[k].rate, partEpoch[u][k], clipEpoch[v][k].weight) \in Nat
    <3> DEFINE a == partEpoch[u][k].raw
               b == partEpoch[u][k].weight
    <3>1. a \in Nat /\ b \in Nat /\ partEpoch[u][k] = [raw |-> a, weight |-> b]
      BY <2>2
    <3> HIDE DEF a, b
    <3> QED
      BY <2>1, <3>1, ClipPayType
  <2>4. Held(v, k, es[k].rate) \in Nat
    <3> DEFINE pay == ClipPay(es[k].rate, partEpoch[u][k], clipEpoch[v][k].weight)
    <3>1. pay \in Nat
      BY <2>3
    <3> HIDE DEF pay
    <3>2. HeldOf(k, pay) \in Nat
      BY <3>1, HeldWithinPay
    <3> QED
      BY <3>2 DEF Held, pay
  <2> QED
    BY <2>1, <2>4
<1>14. Retotalled(es[e], pe, newPe) = [es[e] EXCEPT !.totalWeight = total]
  BY <1>9 DEF Retotalled, total
<1>15. /\ epoch' \in [Epoch -> EpochState]
       /\ \A k \in Epoch :
            /\ AfterProof(es[k], epoch'[k])
            /\ epoch'[k].totalWeight = IF k = e THEN total ELSE epoch[k].totalWeight
  <2>1. ASSUME NEW k \in Epoch
        PROVE  /\ epoch'[k] \in EpochState
               /\ AfterProof(es[k], epoch'[k])
               /\ epoch'[k].totalWeight =
                    IF k = e THEN total ELSE epoch[k].totalWeight
    <3>1. es[k] \in EpochState /\ es[k].totalWeight = epoch[k].totalWeight
      BY <1>8, <1>9
    <3>2. CASE k = e
      <4>1. epoch'[k] = [es[k] EXCEPT !.totalWeight = total]
        BY <1>10, <1>14, <3>2
      <4> QED
        BY <1>6, <3>1, <3>2, <4>1 DEF EpochState, AfterProof
    <3>3. CASE k # e /\ revived(k)
      <4> DEFINE m == more(k)
      <4>1. epoch'[k] = [es[k] EXCEPT !.heldSurvived = m]
        BY <1>10, <3>3
      <4>2. m \in Nat
        BY <1>13, <3>3
      <4> HIDE DEF m
      <4> QED
        BY <3>1, <3>3, <4>1, <4>2 DEF EpochState, AfterProof
    <3>4. CASE k # e /\ ~revived(k)
      <4>1. epoch'[k] = es[k]
        BY <1>10, <3>4
      <4> QED
        BY <3>1, <3>4, <4>1 DEF AfterProof
    <3> QED
      BY <3>2, <3>3, <3>4
  <2>2. DOMAIN epoch' = Epoch /\ epoch' = [k \in Epoch |-> epoch'[k]]
    BY <1>10
  <2> QED
    BY <2>1, <2>2
<1>16. /\ clip' \in [Video -> Clip]
       /\ \A w \in Video : clip'[w].owner = clip[w].owner
  <2>1. clip[v] \in Clip /\ Greatest(clip[v].hwm, p.views) \in Nat
    BY <1>1 DEF Clip, Greatest
  <2> QED
    BY <1>1, <1>10, <2>1 DEF Clip
<1>17. /\ campaign' \in CampaignRecord
       /\ campaign'.settledEpochs = IF s < e THEN e ELSE s
  <2> DEFINE g == Greatest(s, e)
  <2>1. g = (IF s < e THEN e ELSE s) /\ g \in 0 .. Epochs
    <3> HIDE DEF s
    <3>1. s \in Int /\ e \in Int /\ 0 <= s /\ s <= Epochs /\ 0 <= e /\ e <= Epochs
      BY <1>1, EpochType
    <3> QED
      BY <3>1 DEF Greatest
  <2>2. campaign' = [campaign EXCEPT !.settledEpochs = g]
    BY <1>10
  <2> HIDE DEF g
  <2> QED
    BY <2>1, <2>2 DEF IInv, TypeOK, CampaignRecord
<1>18. partEpoch' \in [User -> [Epoch -> ParticipantEpoch]]
  BY <1>1, <1>2, <1>6, <1>10
<1>19. TypeOK'
  BY <1>10, <1>12, <1>15, <1>16, <1>17, <1>18 DEF IInv, TypeOK
<1>20. SettledInOrder'
  <2>1. ASSUME NEW k \in Epoch
        PROVE  epoch'[k].settled <=> k < campaign'.settledEpochs
    <3>1. epoch'[k].settled = es[k].settled /\ k \in Nat
      BY <1>15, EpochType DEF AfterProof
    <3>2. epoch[k].settled <=> k < s
      BY DEF IInv, SettledInOrder
    <3> HIDE DEF s
    <3> QED
      BY <1>1, <1>9, <1>17, <3>1, <3>2
  <2> QED
    BY <2>1 DEF SettledInOrder
<1>21. SettledWhenDue'
  <2>1. ASSUME NEW k \in Epoch, epoch'[k].settled
        PROVE  SettleAt(k) <= now' /\ epoch'[k].openDisputes = 0
    <3>1. es[k].settled /\ epoch'[k].openDisputes = epoch[k].openDisputes /\ now' = now
      BY <1>9, <1>10, <1>15, <2>1 DEF AfterProof
    <3>2. CASE k \in s .. e - 1
      BY <1>11, <3>1, <3>2 DEF AllReady, Ready
    <3>3. CASE k \notin s .. e - 1
      BY <1>9, <3>1, <3>3 DEF IInv, SettledWhenDue
    <3> QED
      BY <3>2, <3>3
  <2> QED
    BY <2>1 DEF SettledWhenDue
<1>22. SpentBounded'
  BY <1>8, <1>15 DEF SpentBounded, AfterProof
<1>23. DisputesAgree'
  <2>1. ASSUME NEW k \in Epoch
        PROVE  /\ Undecided(k)' = Undecided(k)
               /\ epoch'[k].openDisputes = epoch[k].openDisputes
    BY <1>9, <1>10, <1>15 DEF Undecided, AfterProof
  <2>2. ASSUME NEW w \in Video, NEW k \in Epoch
        PROVE  SameStory(clipEpoch'[w][k].status, dispute'[w][k].status)
    <3>1. SameStory(clipEpoch[w][k].status, dispute[w][k].status)
      BY DEF IInv, DisputesAgree
    <3> QED
      BY <1>3, <1>10, <1>12, <3>1 DEF SameStory
  <2> QED
    BY <2>1, <2>2 DEF IInv, DisputesAgree
<1>24. EntriesBelong'
  BY <1>1, <1>2, <1>10, <1>12, <1>16 DEF IInv, EntriesBelong
<1>25. SumsKept'
  <2>1. WeightMoves(v, e, weight)
    BY <1>6, <1>10, <1>12, <1>15, <1>16 DEF WeightMoves, total, pe
  <2> QED
    BY <1>1, <1>2, <1>4, <2>1, SumsMove DEF IInv
<1> QED
  BY <1>19, <1>20, <1>21, <1>22, <1>23, <1>24, <1>25 DEF IInv

-----------------------------------------------------------------------------
LEMMA NextKeeps ==
    ASSUME IInv, [Next]_vars
    PROVE  IInv'
<1>1. CASE Tick
  BY <1>1, TickKeeps
<1>2. ASSUME NEW u \in User, Join(u)
      PROVE  IInv'
  BY <1>2, JoinKeeps
<1>3. ASSUME NEW u \in User, NEW p \in Proof, RegisterClip(u, p)
      PROVE  IInv'
  BY <1>3, RegisterClipKeeps
<1>4. ASSUME NEW e \in Epoch, NEW p \in Proof, SubmitProof(e, p)
      PROVE  IInv'
  BY <1>4, SubmitProofKeeps
<1>5. ASSUME NEW e \in Epoch, SettleEpoch(e)
      PROVE  IInv'
  BY <1>5, SettleEpochKeeps
<1>6. ASSUME NEW v \in Video, NEW e \in Epoch, Claim(v, e)
      PROVE  IInv'
  BY <1>6, ClaimKeeps
<1>7. ASSUME NEW v \in Video, NEW e \in Epoch, ClaimHoldback(v, e)
      PROVE  IInv'
  BY <1>7, ClaimHoldbackKeeps
<1>8. CASE Refund
  BY <1>8, RefundKeeps
<1>9. ASSUME NEW v \in Video, NEW e \in Epoch, NEW a \in Challenger,
             Challenge(v, e, a)
      PROVE  IInv'
  BY <1>9, ChallengeKeeps
<1>10. ASSUME NEW v \in Video, NEW e \in Epoch, Respond(v, e)
       PROVE  IInv'
  BY <1>10, RespondKeeps
<1>11. ASSUME NEW v \in Video, NEW e \in Epoch, NEW w \in BOOLEAN,
              Resolve(v, e, w)
       PROVE  IInv'
  BY <1>11, CloseKeeps DEF Resolve
<1>12. ASSUME NEW v \in Video, NEW e \in Epoch, Finalize(v, e)
       PROVE  IInv'
  BY <1>12, CloseKeeps DEF Finalize, DefaultRuling
<1>13. CASE UNCHANGED vars
  <2>1. TypeOK'
    BY <1>13 DEF IInv, TypeOK, vars
  <2>2. SameWeights /\ SameDisputes /\ SameEntries /\ SameSettlement /\ now' \in Nat
    BY <1>13 DEF vars, IInv, TypeOK, SameWeights, SameDisputes, SameEntries,
                 SameSettlement
  <2> QED
    BY <2>1, <2>2, SumsFrame, DisputesFrame, EntriesFrame, SettlementFrame DEF IInv
<1> QED
  BY <1>1, <1>2, <1>3, <1>4, <1>5, <1>6, <1>7, <1>8, <1>9, <1>10, <1>11, <1>12,
     <1>13 DEF Next

\* In every reachable state of a campaign the invariant holds.
THEOREM Invariance == Spec => []IInv
<1>1. Init => IInv
  BY InitKeeps
<1>2. IInv /\ [Next]_vars => IInv'
  BY NextKeeps
<1> QED
  BY <1>1, <1>2, PTL DEF Spec

\* Type correctness: in particular no balance, weight or count goes below zero.
THEOREM TypeCorrect == Spec => []TypeOK
<1>1. IInv => TypeOK
  BY DEF IInv
<1> QED
  BY <1>1, Invariance, PTL

\* Epochs settle in order and without gaps, however a submit_proof that settles
\* a run of them and settle_epoch interleave.
THEOREM SettlesInOrder == Spec => []SettledInOrder
<1>1. IInv => SettledInOrder
  BY DEF IInv
<1> QED
  BY <1>1, Invariance, PTL

\* The count a settlement waits for is the number of disputes to close.
THEOREM DisputesCounted == Spec => []DisputesAgree
<1>1. IInv => DisputesAgree
  BY DEF IInv
<1> QED
  BY <1>1, Invariance, PTL

-----------------------------------------------------------------------------
(***************************************************************************)
(* Settled epochs are frozen.                                              *)
(***************************************************************************)
LEMMA FrozenUnlessProved ==
    ASSUME IInv, NEW f \in Epoch, epoch[f].settled,
           NEW e \in Epoch, NEW p \in Proof, SubmitProof(e, p)
    PROVE  KeepsPayoutsOf(f)
<1> DEFINE v == p.video
           u == clip[v].owner
           es == SettledBefore(e)
           s == campaign.settledEpochs
<1>1. e # f
  <2>1. SettleAt(f) <= now
    BY DEF IInv, SettledWhenDue
  <2>2. now < ProofEnd(e) /\ ProofEnd(e) <= SettleAt(e)
    <3>1. e \in Nat
      BY EpochType
    <3> QED
      BY <3>1, PhasesInOrder, TimelineType DEF SubmitProof
  <2>3. \A k \in Epoch : ProofEnd(k) \in Nat /\ SettleAt(k) \in Nat
    BY TimelineType, EpochType
  <2> QED
    BY <2>1, <2>2, <2>3 DEF IInv, TypeOK
<1>2. f < s
  BY DEF IInv, SettledInOrder
<1>3. es[f] = epoch[f] /\ es[f] \in EpochState
  <2>1. ChainOK(es, s, e)
    BY SettledBeforeOK
  <2>2. f \notin s .. e - 1
    <3>1. f \in Int /\ s \in Int
      BY EpochType DEF IInv, TypeOK, CampaignRecord
    <3> QED
      BY <1>2, <3>1
  <2> QED
    BY <2>1, <2>2 DEF ChainOK, EpochsOK
<1>4. [epoch'[f] EXCEPT !.heldSurvived = 0] = [epoch[f] EXCEPT !.heldSurvived = 0]
  <2>1. PICK h : epoch'[f] = es[f] \/ epoch'[f] = [es[f] EXCEPT !.heldSurvived = h]
    BY <1>1 DEF SubmitProof
  <2> HIDE DEF es
  <2> QED
    BY <1>3, <2>1 DEF EpochState
<1>5. \A x \in User : partEpoch'[x][f] = partEpoch[x][f]
  BY <1>1 DEF SubmitProof, IInv, TypeOK
<1>6. ASSUME NEW w \in Video
      PROVE  /\ clipEpoch'[w][f].weight = clipEpoch[w][f].weight
             /\ clipEpoch'[w][f].status = clipEpoch[w][f].status
  <2>1. clipEpoch[w][f] \in ClipEpoch
    BY DEF IInv, TypeOK
  <2>2. clipEpoch'[w][f] = clipEpoch[w][f]
        \/ clipEpoch'[w][f] = [clipEpoch[w][f] EXCEPT !.alive = TRUE]
    BY <1>1 DEF SubmitProof, IInv, TypeOK
  <2> QED
    BY <2>1, <2>2 DEF ClipEpoch
<1> QED
  BY <1>4, <1>5, <1>6 DEF KeepsPayoutsOf

LEMMA FrozenUnlessDisputed ==
    ASSUME IInv, NEW f \in Epoch, epoch[f].settled, NEW v \in Video, NEW e \in Epoch,
           \/ \E a \in Challenger : Challenge(v, e, a)
           \/ Respond(v, e)
           \/ \E w \in BOOLEAN : Resolve(v, e, w)
           \/ Finalize(v, e)
    PROVE  KeepsPayoutsOf(f)
<1>1. e # f
  <2>1. CASE \E a \in Challenger : Challenge(v, e, a)
    <3>1. SettleAt(f) <= now
      BY DEF IInv, SettledWhenDue
    <3>2. now < SettleAt(e)
      BY <2>1, PhasesInOrder, TimelineType, EpochType DEF Challenge, IInv, TypeOK
    <3>3. \A k \in Epoch : SettleAt(k) \in Nat
      BY TimelineType, EpochType
    <3> QED
      BY <3>1, <3>2, <3>3 DEF IInv, TypeOK
  <2>2. CASE dispute[v][e].status \in {"Open", "Responded"}
    BY <2>2, UndecidedUnsettled DEF IInv
  <2> QED
    BY <2>1, <2>2 DEF Respond, Resolve, Finalize, DefaultRuling
<1>2. epoch'[f] = epoch[f]
  BY <1>1 DEF Challenge, Respond, Resolve, Finalize, Close, IInv, TypeOK
<1>3. \A u \in User : partEpoch'[u][f] = partEpoch[u][f]
  BY <1>1 DEF Challenge, Respond, Resolve, Finalize, Close, IInv, TypeOK
<1>4. \A w \in Video : clipEpoch'[w][f] = clipEpoch[w][f]
  <2> DEFINE c == clipEpoch[v][e]
  <2>1. \/ clipEpoch' = [clipEpoch EXCEPT ![v][e] = [c EXCEPT !.status = "Challenged"]]
        \/ clipEpoch' = [clipEpoch EXCEPT ![v][e] = [c EXCEPT !.status = "Responded"]]
        \/ clipEpoch' = [clipEpoch EXCEPT ![v][e] = [c EXCEPT !.status = "Active"]]
        \/ clipEpoch' = [clipEpoch EXCEPT ![v][e] =
                            [c EXCEPT !.status = "Excluded", !.weight = 0]]
    BY DEF Challenge, Respond, Answered, Resolve, Finalize, Close
  <2>2. PICK r : clipEpoch' = [clipEpoch EXCEPT ![v][e] = r]
    BY <2>1
  <2> QED
    BY <1>1, <2>2 DEF IInv, TypeOK
<1> QED
  BY <1>2, <1>3, <1>4 DEF KeepsPayoutsOf

\* No step changes what the payouts of a settled epoch are computed from.
LEMMA FrozenStep ==
    ASSUME IInv, [Next]_vars, NEW f \in Epoch, epoch[f].settled
    PROVE  KeepsPayoutsOf(f)
<1> DEFINE Same == /\ epoch'[f] = epoch[f]
                   /\ \A u \in User : partEpoch'[u][f] = partEpoch[u][f]
                   /\ \A v \in Video :
                        /\ clipEpoch'[v][f].weight = clipEpoch[v][f].weight
                        /\ clipEpoch'[v][f].status = clipEpoch[v][f].status
<1>1. SUFFICES ASSUME ~KeepsPayoutsOf(f) PROVE Same
  BY DEF KeepsPayoutsOf
<1>2. CASE Tick \/ Refund \/ UNCHANGED vars
  BY <1>2 DEF Tick, Refund, vars
<1>3. CASE \E u \in User : Join(u) \/ \E p \in Proof : RegisterClip(u, p)
  BY <1>3 DEF Join, RegisterClip
<1>4. ASSUME NEW e \in Epoch, SettleEpoch(e)
      PROVE  Same
  <2>1. e # f /\ epoch' = Settled(epoch, e)
    BY <1>4 DEF SettleEpoch
  <2>2. epoch'[f] = epoch[f]
    BY <2>1 DEF Settled, IInv, TypeOK
  <2> QED
    BY <1>4, <2>2 DEF SettleEpoch
<1>5. ASSUME NEW v \in Video, NEW e \in Epoch, Claim(v, e) \/ ClaimHoldback(v, e)
      PROVE  Same
  <2>1. \A w \in Video : clipEpoch[w][f] \in ClipEpoch
    BY DEF IInv, TypeOK
  <2>2. ASSUME NEW w \in Video
        PROVE  \/ clipEpoch'[w][f] = clipEpoch[w][f]
               \/ clipEpoch'[w][f] = [clipEpoch[w][f] EXCEPT !.claimed = TRUE]
               \/ clipEpoch'[w][f] = [clipEpoch[w][f] EXCEPT !.holdbackClaimed = TRUE]
    <3> DEFINE c == clipEpoch[v][e]
    <3>1. PICK r : /\ clipEpoch' = [clipEpoch EXCEPT ![v][e] = r]
                   /\ \/ r = [c EXCEPT !.claimed = TRUE]
                      \/ r = [c EXCEPT !.holdbackClaimed = TRUE]
      BY <1>5 DEF Claim, ClaimHoldback
    <3>2. clipEpoch'[w][f] = IF w = v /\ f = e THEN r ELSE clipEpoch[w][f]
      BY <3>1 DEF IInv, TypeOK
    <3> QED
      BY <3>1, <3>2
  <2>3. ASSUME NEW w \in Video
        PROVE  /\ clipEpoch'[w][f].weight = clipEpoch[w][f].weight
               /\ clipEpoch'[w][f].status = clipEpoch[w][f].status
    BY <2>1, <2>2 DEF ClipEpoch
  <2> QED
    BY <1>5, <2>3 DEF Claim, ClaimHoldback
<1>6. CASE \E e \in Epoch, p \in Proof : SubmitProof(e, p)
  BY <1>1, <1>6, FrozenUnlessProved
<1>7. CASE \E v \in Video, e \in Epoch :
             \/ \E a \in Challenger : Challenge(v, e, a)
             \/ Respond(v, e)
             \/ \E w \in BOOLEAN : Resolve(v, e, w)
             \/ Finalize(v, e)
  BY <1>1, <1>7, FrozenUnlessDisputed
<1> QED
  BY <1>2, <1>3, <1>4, <1>5, <1>6, <1>7 DEF Next

\* Nothing that the payouts of a settled epoch are computed from changes.
THEOREM SettledStaysFrozen == Spec => SettledIsFrozen
<1>1. IInv /\ [Next]_vars =>
        [\A e \in Epoch : epoch[e].settled => KeepsPayoutsOf(e)]_vars
  BY FrozenStep
<1> QED
  BY <1>1, Invariance, PTL DEF Spec, SettledIsFrozen

-----------------------------------------------------------------------------
(***************************************************************************)
(* The totals of weights.                                                  *)
(***************************************************************************)
\* The sum over the clips of a participant, as WeightsAddUp writes it.
LEMMA RawAddsUp ==
    ASSUME TypeOK, NEW u \in User, NEW e \in Epoch
    PROVE  MapThenSumSet(LAMBDA v : clipEpoch[v][e].weight, ClipsOf(u))
             = SumOver(WeightsOf(u, e), Video)
<1> DEFINE T == ClipsOf(u)
           w == [v \in Video |-> clipEpoch[v][e].weight]
<1>1. T \in SUBSET Video
  BY DEF ClipsOf
<1>2. MapThenSumSet(LAMBDA v : clipEpoch[v][e].weight, T) = SumOver(w, T)
  <2> HIDE DEF T
  <2>1. ASSUME NEW g
        PROVE  IsSum(g, w, T) <=>
                 g = [s \in SUBSET T |-> IF s = {} THEN 0
                        ELSE clipEpoch[CHOOSE x \in s : TRUE][e].weight
                               + g[s \ {CHOOSE x \in s : TRUE}]]
    BY <1>1 DEF IsSum, Chosen
  <2> QED
    BY <2>1, SumOverIs DEF MapThenSumSet, MapThenFoldSet
<1>3. Naturals(w, Video)
  BY DEF Naturals, TypeOK, ClipEpoch
<1>4. SumOver(w, T) = SumOver([v \in Video |-> IF v \in T THEN w[v] ELSE 0], Video)
  <2> HIDE DEF T, w
  <2> QED
    BY <1>1, <1>3, SumOfPart, CampaignAssumption
<1>5. [v \in Video |-> IF v \in T THEN w[v] ELSE 0] = WeightsOf(u, e)
  BY DEF WeightsOf, ClipsOf
<1> QED
  BY <1>2, <1>4, <1>5

LEMMA TotalAddsUp ==
    ASSUME NEW e \in Epoch
    PROVE  MapThenSumSet(LAMBDA u : partEpoch[u][e].weight, User)
             = SumOver(WeightsIn(e), User)
<1> DEFINE w == WeightsIn(e)
<1>1. ASSUME NEW g
      PROVE  IsSum(g, w, User) <=>
               g = [s \in SUBSET User |-> IF s = {} THEN 0
                      ELSE partEpoch[CHOOSE x \in s : TRUE][e].weight
                             + g[s \ {CHOOSE x \in s : TRUE}]]
  BY DEF IsSum, Chosen, WeightsIn
<1> QED
  BY <1>1, SumOverIs DEF MapThenSumSet, MapThenFoldSet

\* The totals that proofs and rulings maintain step by step are the sums they
\* stand for: each participant's raw weight is the sum over that participant's
\* clips, capped, and an epoch's total weight the sum over the participants.
THEOREM TotalsAreSums == Spec => []WeightsAddUp
<1>1. IInv => WeightsAddUp
  <2> SUFFICES ASSUME IInv, NEW e \in Epoch
               PROVE  /\ \A u \in User :
                           LET raw == MapThenSumSet(LAMBDA v : clipEpoch[v][e].weight,
                                                    ClipsOf(u))
                           IN  partEpoch[u][e] = [raw |-> raw, weight |-> Least(raw, CapHuman)]
                      /\ epoch[e].totalWeight =
                           MapThenSumSet(LAMBDA u : partEpoch[u][e].weight, User)
    BY DEF WeightsAddUp
  <2>1. ASSUME NEW u \in User
        PROVE  LET raw == SumOver(WeightsOf(u, e), Video)
               IN  partEpoch[u][e] = [raw |-> raw, weight |-> Least(raw, CapHuman)]
    <3>1. RawSum(u, e) /\ partEpoch[u][e] \in ParticipantEpoch
      BY DEF IInv, SumsKept, TypeOK
    <3> QED
      BY <3>1 DEF RawSum, ParticipantEpoch
  <2>2. epoch[e].totalWeight = SumOver(WeightsIn(e), User)
    BY DEF IInv, SumsKept, TotalSum
  <2>3. TypeOK
    BY DEF IInv
  <2> QED
    BY <2>1, <2>2, <2>3, RawAddsUp, TotalAddsUp
<1> QED
  BY <1>1, Invariance, PTL

-----------------------------------------------------------------------------
(***************************************************************************)
(* What a step does to a record.                                           *)
(***************************************************************************)
\* A closing proof for the clip in epoch e.
Proves(v, e) ==
    \E p \in Proof : /\ p.video = v
                     /\ SubmitProof(e, p)
                     /\ clipEpoch'[v][e].baseline = ClosingRecord(v, e).baseline
                     /\ clipEpoch'[v][e].views =
                          Greatest(ClosingRecord(v, e).views, p.views)
                     /\ clipEpoch'[v][e].status = "Active"
                     /\ clipEpoch'[v][e].claimed = ClosingRecord(v, e).claimed
                     /\ clipEpoch'[v][e].alive = ClosingRecord(v, e).alive
                     /\ clipEpoch'[v][e].holdbackClaimed =
                          ClosingRecord(v, e).holdbackClaimed

\* A closing proof for the next epoch shows that the clip survived.
Revived(v, e) ==
    /\ \E p \in Proof : p.video = v /\ SubmitProof(e + 1, p)
    /\ e + 1 \in Epoch
    /\ Revives(v, e)
    /\ clipEpoch'[v][e] = [clipEpoch[v][e] EXCEPT !.alive = TRUE]

\* The dispute about the record moves on.
Judged(v, e) ==
    /\ clipEpoch[v][e].status # "None"
    /\ ~epoch[e].settled
    /\ \E st \in ClipStatus \ {"None"}, w \in Nat :
         /\ st = "Excluded" => w = 0
         /\ clipEpoch'[v][e] = [clipEpoch[v][e] EXCEPT !.status = st, !.weight = w]

RecordStep(v, e) ==
    \/ clipEpoch'[v][e] = clipEpoch[v][e]
    \/ Claim(v, e) /\ clipEpoch'[v][e] = [clipEpoch[v][e] EXCEPT !.claimed = TRUE]
    \/ /\ ClaimHoldback(v, e)
       /\ clipEpoch'[v][e] = [clipEpoch[v][e] EXCEPT !.holdbackClaimed = TRUE]
    \/ Proves(v, e)
    \/ Revived(v, e)
    \/ Judged(v, e)

LEMMA RecordChanges ==
    ASSUME IInv, [Next]_vars, NEW w \in Video, NEW k \in Epoch
    PROVE  RecordStep(w, k)
<1> DEFINE c == clipEpoch[w][k]
<1>1. /\ clipEpoch \in [Video -> [Epoch -> ClipEpoch]]
      /\ c \in ClipEpoch
  BY DEF IInv, TypeOK
<1>2. SUFFICES ASSUME clipEpoch'[w][k] # c PROVE RecordStep(w, k)
  BY DEF RecordStep
<1>3. ASSUME NEW v \in Video, NEW e \in Epoch, NEW r, clipEpoch' = [clipEpoch EXCEPT ![v][e] = r]
      PROVE  v = w /\ e = k /\ clipEpoch'[w][k] = r
  BY <1>1, <1>2, <1>3
<1>4. ASSUME NEW v \in Video, NEW e \in Epoch, Claim(v, e)
      PROVE  RecordStep(w, k)
  <2>1. clipEpoch' = [clipEpoch EXCEPT ![v][e] = [clipEpoch[v][e] EXCEPT !.claimed = TRUE]]
    BY <1>4 DEF Claim
  <2> QED
    BY <1>3, <1>4, <2>1 DEF RecordStep
<1>5. ASSUME NEW v \in Video, NEW e \in Epoch, ClaimHoldback(v, e)
      PROVE  RecordStep(w, k)
  <2>1. clipEpoch' =
          [clipEpoch EXCEPT ![v][e] = [clipEpoch[v][e] EXCEPT !.holdbackClaimed = TRUE]]
    BY <1>5 DEF ClaimHoldback
  <2> QED
    BY <1>3, <1>5, <2>1 DEF RecordStep
<1>6. ASSUME NEW v \in Video, NEW e \in Epoch,
             \/ \E a \in Challenger : Challenge(v, e, a)
             \/ Respond(v, e)
             \/ \E x \in BOOLEAN : Resolve(v, e, x)
             \/ Finalize(v, e)
      PROVE  Judged(w, k)
  <2>1. \E st \in ClipStatus \ {"None"}, x \in Nat :
          (st = "Excluded" => x = 0) /\
          clipEpoch' = [clipEpoch EXCEPT ![v][e] =
                          [clipEpoch[v][e] EXCEPT !.status = st, !.weight = x]]
    <3> DEFINE d == clipEpoch[v][e]
    <3>1. d \in ClipEpoch
      BY <1>1
    <3>2. \/ clipEpoch' = [clipEpoch EXCEPT ![v][e] = [d EXCEPT !.status = "Challenged"]]
          \/ clipEpoch' = [clipEpoch EXCEPT ![v][e] = [d EXCEPT !.status = "Responded"]]
          \/ clipEpoch' = [clipEpoch EXCEPT ![v][e] = [d EXCEPT !.status = "Active"]]
          \/ clipEpoch' = [clipEpoch EXCEPT ![v][e] =
                              [d EXCEPT !.status = "Excluded", !.weight = 0]]
      BY <1>6 DEF Challenge, Respond, Answered, Resolve, Finalize, Close
    <3>3. d.weight \in Nat /\ \A st \in ClipStatus :
            [d EXCEPT !.status = st] = [d EXCEPT !.status = st, !.weight = d.weight]
      BY <3>1 DEF ClipEpoch
    <3> HIDE DEF d
    <3> DEFINE R(st, x) == [d EXCEPT !.status = st, !.weight = x]
               Becomes(r) == clipEpoch' = [clipEpoch EXCEPT ![v][e] = r]
    <3>4. \/ Becomes(R("Challenged", d.weight)) \/ Becomes(R("Responded", d.weight))
          \/ Becomes(R("Active", d.weight)) \/ Becomes(R("Excluded", 0))
      BY <3>2, <3>3 DEF ClipStatus
    <3> HIDE DEF R, Becomes
    <3>5. \E st \in ClipStatus \ {"None"}, x \in Nat :
            (st = "Excluded" => x = 0) /\ Becomes(R(st, x))
      BY <3>3, <3>4 DEF ClipStatus
    <3> QED
      BY <3>5 DEF d, R, Becomes
  <2>2. PICK st \in ClipStatus \ {"None"}, x \in Nat :
          (st = "Excluded" => x = 0) /\
          clipEpoch' = [clipEpoch EXCEPT ![v][e] =
                          [clipEpoch[v][e] EXCEPT !.status = st, !.weight = x]]
    BY <2>1
  <2>3. v = w /\ e = k
        /\ clipEpoch'[w][k] = [clipEpoch[w][k] EXCEPT !.status = st, !.weight = x]
        /\ (st = "Excluded" => x = 0)
    BY <1>3, <2>2
  <2>4. clipEpoch[v][e].status # "None" /\ ~epoch[e].settled
    <3>1. CASE \E a \in Challenger : Challenge(v, e, a)
      <4>1. now < SettleAt(e) /\ now \in Nat /\ SettleAt(e) \in Nat
        BY <3>1, PhasesInOrder, TimelineType, EpochType DEF Challenge, IInv, TypeOK
      <4> QED
        BY <3>1, <4>1 DEF Challenge, IInv, SettledWhenDue
    <3>2. CASE dispute[v][e].status \in {"Open", "Responded"}
      BY <3>2, UndecidedUnsettled DEF IInv, EntriesBelong
    <3> QED
      BY <1>6, <3>1, <3>2 DEF Respond, Resolve, Finalize, DefaultRuling
  <2> QED
    BY <2>3, <2>4 DEF Judged
<1>7. ASSUME NEW e \in Epoch, NEW p \in Proof, SubmitProof(e, p)
      PROVE  RecordStep(w, k)
  <2> DEFINE v == p.video
             ce == ClosingRecord(v, e)
             r == [ce EXCEPT !.views = Greatest(ce.views, p.views),
                             !.weight = ClipWeight(ce.baseline, Greatest(ce.views, p.views))]
  <2>1. v \in Video
    BY DEF Proof
  <2>2. \A x \in Video, j \in Epoch :
          clipEpoch'[x][j] =
            IF x = v /\ j = e THEN r
            ELSE IF x = v /\ j = e - 1 /\ Revives(v, j)
            THEN [clipEpoch[x][j] EXCEPT !.alive = TRUE]
            ELSE clipEpoch[x][j]
    BY <1>1, <1>7, <2>1 DEF SubmitProof
  <2>3. CASE w = v /\ k = e
    <3>1. clipEpoch'[v][e] = r /\ ce.status = "Active"
      BY <1>7, <2>1, <2>2 DEF SubmitProof
    <3>2. DOMAIN ce = {"baseline", "views", "weight", "status", "claimed", "alive",
                       "holdbackClaimed"}
      BY <1>1, <2>3 DEF ClosingRecord, NoClipEpoch, ClipEpoch
    <3> HIDE DEF ce
    <3>3. /\ r.baseline = ce.baseline /\ r.views = Greatest(ce.views, p.views)
          /\ r.status = ce.status /\ r.claimed = ce.claimed /\ r.alive = ce.alive
          /\ r.holdbackClaimed = ce.holdbackClaimed
      BY <3>2
    <3> HIDE DEF r
    <3>4. Proves(v, e)
      BY <1>7, <3>1, <3>3 DEF Proves, ce
    <3> QED
      BY <2>3, <3>4 DEF RecordStep
  <2>4. CASE w = v /\ k = e - 1 /\ k # e /\ Revives(v, k)
    <3>1. e = k + 1
      BY <2>4, EpochType
    <3>2. clipEpoch'[w][k] = [clipEpoch[w][k] EXCEPT !.alive = TRUE]
      BY <2>1, <2>2, <2>4
    <3> QED
      BY <1>7, <2>4, <3>1, <3>2 DEF RecordStep, Revived
  <2> HIDE DEF r
  <2> QED
    BY <1>2, <2>2, <2>3, <2>4
<1>8. clipEpoch' # clipEpoch
  BY <1>2
<1> QED
  BY <1>4, <1>5, <1>6, <1>7, <1>8
  DEF Next, RecordStep, Tick, Join, RegisterClip, SettleEpoch, Refund, vars

\* What a step does to a clip.
Registered(v) ==
    /\ clip[v].owner = Nobody
    /\ \E u \in User, p \in Proof :
         /\ p.video = v
         /\ RegisterClip(u, p)
         /\ clip'[v].owner = u
         /\ clip'[v].baseline = p.views
         /\ clip'[v].hwm = p.views

LEMMA ClipChanges ==
    ASSUME IInv, [Next]_vars, NEW v \in Video
    PROVE  \/ clip'[v] = clip[v]
           \/ Registered(v)
           \/ \E e \in Epoch, p \in Proof :
                /\ p.video = v
                /\ SubmitProof(e, p)
                /\ clip'[v] = [clip[v] EXCEPT !.hwm = Greatest(@, p.views)]
<1>1. SUFFICES ASSUME clip'[v] # clip[v]
               PROVE  \/ Registered(v)
                      \/ \E e \in Epoch, p \in Proof :
                           /\ p.video = v
                           /\ SubmitProof(e, p)
                           /\ clip'[v] = [clip[v] EXCEPT !.hwm = Greatest(@, p.views)]
  OBVIOUS
<1>2. CASE \E u \in User, p \in Proof : RegisterClip(u, p)
  <2>1. PICK u \in User, p \in Proof : RegisterClip(u, p)
    BY <1>2
  <2>2. p.video = v /\ clip'[v] = [owner |-> u, baseline |-> p.views,
                                   hwm |-> p.views, firstEpoch |-> CurrentEpoch(now)]
    BY <1>1, <2>1 DEF RegisterClip, IInv, TypeOK
  <2>3. clip[v].owner = Nobody /\ clip'[v].owner = u
        /\ clip'[v].baseline = p.views /\ clip'[v].hwm = p.views
    BY <2>1, <2>2 DEF RegisterClip
  <2>4. Registered(v)
    BY <2>1, <2>2, <2>3 DEF Registered
  <2> QED
    BY <2>4
<1>3. CASE \E e \in Epoch, p \in Proof : SubmitProof(e, p)
  <2>1. PICK e \in Epoch, p \in Proof : SubmitProof(e, p)
    BY <1>3
  <2>2. p.video = v /\ clip'[v] = [clip[v] EXCEPT !.hwm = Greatest(@, p.views)]
    BY <1>1, <2>1 DEF SubmitProof, IInv, TypeOK
  <2> QED
    BY <2>1, <2>2
<1>4. clip' # clip
  BY <1>1
<1> QED
  BY <1>2, <1>3, <1>4
  DEF Next, Tick, Join, SettleEpoch, Claim, ClaimHoldback, Refund, Challenge,
      Respond, Resolve, Finalize, Close, vars

LEMMA ClipKept ==
    ASSUME IInv, [Next]_vars, NEW v \in Video, clip[v].owner # Nobody
    PROVE  /\ clip'[v].owner = clip[v].owner
           /\ clip'[v].baseline = clip[v].baseline
           /\ clip'[v].hwm >= clip[v].hwm
<1>1. clip[v] \in Clip
  BY DEF IInv, TypeOK
<1>2. CASE clip'[v] = clip[v]
  BY <1>1, <1>2 DEF Clip
<1>3. ASSUME NEW p \in Proof, clip'[v] = [clip[v] EXCEPT !.hwm = Greatest(@, p.views)]
      PROVE  /\ clip'[v].owner = clip[v].owner
             /\ clip'[v].baseline = clip[v].baseline
             /\ clip'[v].hwm >= clip[v].hwm
  <2>1. p.views \in Nat
    BY CampaignAssumption DEF Proof
  <2> QED
    BY <1>1, <1>3, <2>1 DEF Clip, Greatest
<1> QED
  BY <1>2, <1>3, ClipChanges DEF Registered

LEMMA TimeAdvances == ASSUME IInv, [Next]_vars PROVE now' >= now /\ now \in Nat /\ now' \in Nat
<1>1. CASE Tick
  BY <1>1 DEF Tick, IInv, TypeOK
<1>2. CASE ~Tick
  <2>1. CASE UNCHANGED vars
    BY <2>1 DEF vars, IInv, TypeOK
  <2>2. ASSUME NEW e \in Epoch, NEW p \in Proof, SubmitProof(e, p)
        PROVE  now' = now
    BY <2>2 DEF SubmitProof
  <2>3. ASSUME NEW v \in Video, NEW e \in Epoch, NEW w \in BOOLEAN, Close(v, e, w)
        PROVE  now' = now
    BY <2>3 DEF Close
  <2>4. CASE Next
    <3>1. now' = now
      BY <1>2, <2>2, <2>3, <2>4
      DEF Next, Join, RegisterClip, SettleEpoch, Claim, ClaimHoldback, Refund,
          Challenge, Respond, Resolve, Finalize
    <3> QED
      BY <3>1 DEF IInv, TypeOK
  <2> QED
    BY <2>1, <2>4
<1> QED
  BY <1>1, <1>2

\* While proofs of an epoch are accepted, none of a later one is.
LEMMA LaterEpochsGoOn ==
    ASSUME IInv, NEW e \in Epoch, now < ProofEnd(e), NEW f \in Nat, e < f
    PROVE  now < ContentEnd(f)
<1>1. e \in Nat /\ now \in Nat
  BY EpochType DEF IInv, TypeOK
<1>2. ProofEnd(e) <= SettleAt(e) /\ ProofEnd(e) \in Nat /\ SettleAt(e) \in Nat
      /\ ContentEnd(f) \in Nat
  BY <1>1, PhasesInOrder, TimelineType
<1> QED
  BY <1>1, <1>2, SettledByNextProofs

-----------------------------------------------------------------------------
(***************************************************************************)
(* The order of the view counts.                                           *)
(***************************************************************************)
\* A record is made when its epoch is over, and lies between the registration
\* and the highest count seen.
RecordPlaced(v, e) ==
    clipEpoch[v][e].status # "None" =>
      /\ ContentEnd(e) <= now
      /\ clip[v].baseline <= clipEpoch[v][e].baseline
      /\ clipEpoch[v][e].baseline <= clip[v].hwm
      /\ clipEpoch[v][e].views <= clip[v].hwm

RecordsApart(v, e, f) ==
    (e < f /\ clipEpoch[v][e].status # "None" /\ clipEpoch[v][f].status # "None") =>
      clipEpoch[v][e].views <= clipEpoch[v][f].baseline

RecordsOrdered ==
    \A v \in Video :
      /\ clip[v].baseline <= clip[v].hwm
      /\ \A e \in Epoch : RecordPlaced(v, e)
      /\ \A e, f \in Epoch : RecordsApart(v, e, f)

\* A record that no proof is about keeps its view counts.
SameViews(v, e) ==
    /\ clipEpoch'[v][e].status = "None" <=> clipEpoch[v][e].status = "None"
    /\ clipEpoch'[v][e].baseline = clipEpoch[v][e].baseline
    /\ clipEpoch'[v][e].views = clipEpoch[v][e].views

LEMMA ViewsChange ==
    ASSUME IInv, [Next]_vars, NEW v \in Video, NEW e \in Epoch
    PROVE  SameViews(v, e) \/ Proves(v, e)
<1>1. clipEpoch[v][e] \in ClipEpoch
  BY DEF IInv, TypeOK
<1>2. CASE Judged(v, e)
  BY <1>1, <1>2 DEF Judged, SameViews, ClipEpoch
<1>3. CASE Claim(v, e) /\ clipEpoch'[v][e] = [clipEpoch[v][e] EXCEPT !.claimed = TRUE]
  BY <1>1, <1>3 DEF SameViews, ClipEpoch
<1>4. CASE clipEpoch'[v][e] = [clipEpoch[v][e] EXCEPT !.holdbackClaimed = TRUE]
  BY <1>1, <1>4 DEF SameViews, ClipEpoch
<1>5. CASE Revived(v, e)
  BY <1>1, <1>5 DEF Revived, SameViews, ClipEpoch
<1> QED
  BY <1>2, <1>3, <1>4, <1>5, RecordChanges DEF RecordStep, SameViews

\* What a closing proof does to the clip's view counts.
LEMMA ProofPlaces ==
    ASSUME IInv, NEW v \in Video, NEW e \in Epoch, Proves(v, e)
    PROVE  \E n \in Nat :
             /\ ContentEnd(e) <= now /\ now < ProofEnd(e)
             /\ clip[v].owner # Nobody
             /\ clip'[v].baseline = clip[v].baseline
             /\ clip'[v].hwm = Greatest(clip[v].hwm, n)
             /\ clipEpoch[v][e].status \in {"None", "Active"}
             /\ clipEpoch'[v][e].baseline =
                  IF clipEpoch[v][e].status = "None" THEN clip[v].hwm
                  ELSE clipEpoch[v][e].baseline
             /\ clipEpoch'[v][e].views =
                  IF clipEpoch[v][e].status = "None" THEN n
                  ELSE Greatest(clipEpoch[v][e].views, n)
<1>1. PICK p \in Proof : /\ p.video = v
                         /\ SubmitProof(e, p)
                         /\ clipEpoch'[v][e].baseline = ClosingRecord(v, e).baseline
                         /\ clipEpoch'[v][e].views =
                              Greatest(ClosingRecord(v, e).views, p.views)
  BY DEF Proves
<1>2. p.views \in Nat
  BY CampaignAssumption DEF Proof
<1>3. clip[v] \in Clip /\ clip \in [Video -> Clip]
  BY DEF IInv, TypeOK
<1>4. clip' = [clip EXCEPT ![v].hwm = Greatest(@, p.views)]
      /\ ContentEnd(e) <= now /\ now < ProofEnd(e) /\ clip[v].owner # Nobody
      /\ ClosingRecord(v, e).status = "Active"
  BY <1>1 DEF SubmitProof
<1>5. clip'[v].baseline = clip[v].baseline /\ clip'[v].hwm = Greatest(clip[v].hwm, p.views)
  BY <1>3, <1>4 DEF Clip
<1>6. CASE clipEpoch[v][e].status = "None"
  <2>1. ClosingRecord(v, e) = [NoClipEpoch EXCEPT !.baseline = clip[v].hwm,
                                                  !.status = "Active"]
    BY <1>6 DEF ClosingRecord, ClosingBaseline
  <2>2. ClosingRecord(v, e).baseline = clip[v].hwm /\ ClosingRecord(v, e).views = 0
    BY <2>1 DEF NoClipEpoch
  <2> QED
    BY <1>1, <1>2, <1>4, <1>5, <1>6, <2>2 DEF Greatest
<1>7. CASE clipEpoch[v][e].status # "None"
  BY <1>1, <1>2, <1>4, <1>5, <1>7 DEF ClosingRecord
<1> QED
  BY <1>6, <1>7

LEMMA OrderKept ==
    ASSUME IInv, RecordsOrdered, [Next]_vars, IInv'
    PROVE  RecordsOrdered'
<1> SUFFICES ASSUME NEW v \in Video
             PROVE  /\ clip'[v].baseline <= clip'[v].hwm
                    /\ \A e \in Epoch : RecordPlaced(v, e)'
                    /\ \A e, f \in Epoch : RecordsApart(v, e, f)'
  BY DEF RecordsOrdered
<1>1. /\ clip[v] \in Clip /\ clip'[v] \in Clip
      /\ \A e \in Epoch : /\ clipEpoch[v][e] \in ClipEpoch
                          /\ clipEpoch'[v][e] \in ClipEpoch
  BY DEF IInv, TypeOK
<1>2. now' >= now /\ now \in Nat /\ now' \in Nat
      /\ \A e \in Epoch : ContentEnd(e) \in Nat /\ e \in Nat
  BY TimeAdvances, TimelineType, EpochType
<1>3. CASE clip[v].owner = Nobody
  <2>1. ASSUME NEW e \in Epoch
        PROVE  clipEpoch'[v][e].status = "None"
    <3>1. clipEpoch[v][e].status = "None"
      BY <1>3 DEF IInv, EntriesBelong
    <3>2. ~Proves(v, e)
      BY <1>3, ProofPlaces
    <3> QED
      BY <3>1, <3>2, ViewsChange DEF SameViews
  <2>2. clip'[v].baseline <= clip'[v].hwm
    <3>1. CASE clip'[v] = clip[v]
      BY <3>1 DEF RecordsOrdered
    <3>2. CASE Registered(v)
      BY <1>1, <3>2 DEF Registered, Clip
    <3>3. ~\E e \in Epoch, p \in Proof : p.video = v /\ SubmitProof(e, p)
      BY <1>3 DEF SubmitProof
    <3> QED
      BY <3>1, <3>2, <3>3, ClipChanges
  <2> QED
    BY <2>1, <2>2 DEF RecordPlaced, RecordsApart
<1>4. CASE clip[v].owner # Nobody
  <2>1. /\ clip'[v].baseline = clip[v].baseline
        /\ clip'[v].hwm >= clip[v].hwm
        /\ clip[v].baseline <= clip[v].hwm
    BY <1>4, ClipKept DEF RecordsOrdered
  <2>2. \A e, f \in Epoch : RecordPlaced(v, e) /\ RecordsApart(v, e, f)
    BY DEF RecordsOrdered
  <2>3. ASSUME NEW e \in Epoch
        PROVE  RecordPlaced(v, e)'
    <3>1. CASE SameViews(v, e)
      BY <1>1, <1>2, <2>1, <2>2, <3>1 DEF RecordPlaced, SameViews, Clip, ClipEpoch
    <3>2. CASE Proves(v, e)
      BY <1>1, <1>2, <2>1, <2>2, <3>2, ProofPlaces
      DEF RecordPlaced, Clip, ClipEpoch, Greatest
    <3> QED
      BY <3>1, <3>2, ViewsChange
  <2>4. ASSUME NEW e \in Epoch, NEW f \in Epoch, e < f
        PROVE  RecordsApart(v, e, f)'
    <3>1. CASE SameViews(v, e) /\ SameViews(v, f)
      BY <2>2, <3>1 DEF RecordsApart, SameViews
    <3>2. CASE SameViews(v, e) /\ Proves(v, f)
      BY <1>1, <2>2, <3>2, ProofPlaces DEF RecordsApart, RecordPlaced, SameViews
    <3>3. CASE Proves(v, e)
      <4>1. now < ProofEnd(e)
        BY <3>3, ProofPlaces
      <4>2. now < ContentEnd(f)
        BY <1>2, <2>4, <4>1, LaterEpochsGoOn
      <4>3. ~Proves(v, f) /\ clipEpoch[v][f].status = "None"
        BY <1>2, <2>2, <4>2, ProofPlaces DEF RecordPlaced
      <4>4. clipEpoch'[v][f].status = "None"
        BY <4>3, ViewsChange DEF SameViews
      <4> QED
        BY <4>4 DEF RecordsApart
    <3> QED
      BY <3>1, <3>2, <3>3, ViewsChange
  <2> QED
    BY <1>1, <2>1, <2>3, <2>4 DEF RecordsApart, Clip
<1> QED
  BY <1>3, <1>4

-----------------------------------------------------------------------------
(***************************************************************************)
(* The proofs a clip took.                                                 *)
(***************************************************************************)
ProofsAbout(v) == {p \in usedProof : p.video = v}
RecordsOf(v) == {e \in Epoch : clipEpoch[v][e].status # "None"}

ProofsCounted ==
    /\ IsFiniteSet(usedProof)
    /\ EachEpochItsOwnProof

LEMMA ProofsGrow ==
    ASSUME IInv, IsFiniteSet(usedProof), [Next]_vars
    PROVE  /\ usedProof \subseteq usedProof'
           /\ IsFiniteSet(usedProof')
<1>1. usedProof' = usedProof \/ \E p \in Proof : usedProof' = usedProof \cup {p}
  <2>1. ASSUME NEW e \in Epoch, NEW p \in Proof, SubmitProof(e, p)
        PROVE  usedProof' = usedProof \cup {p}
    BY <2>1 DEF SubmitProof
  <2>2. ASSUME NEW v \in Video, NEW e \in Epoch, NEW w \in BOOLEAN, Close(v, e, w)
        PROVE  usedProof' = usedProof
    BY <2>2 DEF Close
  <2>3. CASE UNCHANGED vars
    BY <2>3 DEF vars
  <2>4. CASE Next
    BY <2>1, <2>2, <2>4
    DEF Next, Tick, Join, RegisterClip, SettleEpoch, Claim, ClaimHoldback, Refund,
        Challenge, Respond, Resolve, Finalize
  <2> QED
    BY <2>3, <2>4
<1> QED
  BY <1>1, FS_AddElement

LEMMA CountsFinite ==
    ASSUME IsFiniteSet(usedProof), NEW v \in Video
    PROVE  /\ IsFiniteSet(ProofsAbout(v)) /\ Cardinality(ProofsAbout(v)) \in Nat
           /\ IsFiniteSet(RecordsOf(v)) /\ Cardinality(RecordsOf(v)) \in Nat
<1>1. IsFiniteSet(Epoch)
  BY EpochType, FS_Interval DEF Epoch
<1>2. ProofsAbout(v) \in SUBSET usedProof /\ RecordsOf(v) \in SUBSET Epoch
  BY DEF ProofsAbout, RecordsOf
<1> QED
  BY <1>1, <1>2, FS_Subset, FS_CardinalityType

LEMMA ProofsKept ==
    ASSUME IInv, ProofsCounted, [Next]_vars, IInv'
    PROVE  ProofsCounted'
<1>1. usedProof \subseteq usedProof' /\ IsFiniteSet(usedProof')
  BY ProofsGrow DEF ProofsCounted
<1>2. ASSUME NEW v \in Video
      PROVE  /\ IsFiniteSet(ProofsAbout(v)) /\ Cardinality(ProofsAbout(v)) \in Nat
             /\ IsFiniteSet(RecordsOf(v)) /\ Cardinality(RecordsOf(v)) \in Nat
             /\ IsFiniteSet(ProofsAbout(v)') /\ Cardinality(ProofsAbout(v)') \in Nat
             /\ IsFiniteSet(RecordsOf(v)') /\ Cardinality(RecordsOf(v)') \in Nat
  <2>1. /\ IsFiniteSet(ProofsAbout(v)) /\ Cardinality(ProofsAbout(v)) \in Nat
        /\ IsFiniteSet(RecordsOf(v)) /\ Cardinality(RecordsOf(v)) \in Nat
    BY CountsFinite DEF ProofsCounted
  <2>2. IsFiniteSet(Epoch)
    BY EpochType, FS_Interval DEF Epoch
  <2>3. ProofsAbout(v)' \in SUBSET usedProof' /\ RecordsOf(v)' \in SUBSET Epoch
    BY DEF ProofsAbout, RecordsOf
  <2> QED
    BY <1>1, <2>1, <2>2, <2>3, FS_Subset, FS_CardinalityType
<1>3. SUFFICES ASSUME NEW v \in Video, clip'[v].owner # Nobody
               PROVE  Cardinality(ProofsAbout(v)') >= 1 + Cardinality(RecordsOf(v)')
  BY <1>1 DEF ProofsCounted, EachEpochItsOwnProof, ProofsAbout, RecordsOf
<1>4. CASE clip[v].owner = Nobody
  <2>1. RecordsOf(v)' = {}
    <3>1. ASSUME NEW e \in Epoch
          PROVE  clipEpoch'[v][e].status = "None"
      <4>1. clipEpoch[v][e].status = "None"
        BY <1>4 DEF IInv, EntriesBelong
      <4>2. ~Proves(v, e)
        BY <1>4, ProofPlaces
      <4> QED
        BY <4>1, <4>2, ViewsChange DEF SameViews
    <3> QED
      BY <3>1 DEF RecordsOf
  <2>2. Registered(v)
    <3>1. ~\E e \in Epoch, p \in Proof : p.video = v /\ SubmitProof(e, p)
      BY <1>4 DEF SubmitProof
    <3> QED
      BY <1>3, <1>4, <3>1, ClipChanges
  <2>3. PICK p \in Proof : p.video = v /\ usedProof' = usedProof \cup {p}
    BY <2>2 DEF Registered, RegisterClip
  <2>4. p \in ProofsAbout(v)'
    BY <2>3 DEF ProofsAbout
  <2>5. Cardinality(ProofsAbout(v)') # 0
    BY <1>2, <2>4, FS_EmptySet
  <2> QED
    BY <1>2, <2>1, <2>5, FS_EmptySet
<1>5. CASE clip[v].owner # Nobody
  <2>1. Cardinality(ProofsAbout(v)) >= 1 + Cardinality(RecordsOf(v))
    BY <1>5 DEF ProofsCounted, EachEpochItsOwnProof, ProofsAbout, RecordsOf
  <2>2. CASE \E k \in Epoch : Proves(v, k)
    <3>1. PICK k \in Epoch : Proves(v, k)
      BY <2>2
    <3>2. PICK p \in Proof : /\ p.video = v /\ SubmitProof(k, p)
      BY <3>1 DEF Proves
    <3>3. p \notin usedProof /\ usedProof' = usedProof \cup {p}
      BY <3>2 DEF SubmitProof, Fresh
    <3>4. ProofsAbout(v)' = ProofsAbout(v) \cup {p} /\ p \notin ProofsAbout(v)
      BY <3>2, <3>3 DEF ProofsAbout
    <3>5. Cardinality(ProofsAbout(v)') = Cardinality(ProofsAbout(v)) + 1
      BY <1>2, <3>4, FS_AddElement
    <3>6. RecordsOf(v)' \subseteq RecordsOf(v) \cup {k}
      <4>1. ASSUME NEW e \in Epoch, e # k
            PROVE  ~Proves(v, e)
        <5>1. ASSUME Proves(v, e)
              PROVE  FALSE
          <6>1. /\ ContentEnd(e) <= now /\ now < ProofEnd(e)
                /\ ContentEnd(k) <= now /\ now < ProofEnd(k)
            BY <3>1, <5>1, ProofPlaces
          <6>2. e \in Nat /\ k \in Nat /\ ContentEnd(e) \in Nat /\ ContentEnd(k) \in Nat
                /\ now \in Nat
            BY EpochType, TimelineType DEF IInv, TypeOK
          <6>3. e < k \/ k < e
            BY <4>1, <6>2
          <6> QED
            BY <6>1, <6>2, <6>3, LaterEpochsGoOn
        <5> QED
          BY <5>1
      <4> QED
        BY <4>1, ViewsChange DEF RecordsOf, SameViews
    <3>7. Cardinality(RecordsOf(v)') <= Cardinality(RecordsOf(v)) + 1
      <4> DEFINE R == RecordsOf(v)
                 Q == RecordsOf(v)'
      <4>0. IsFiniteSet(R) /\ IsFiniteSet(Q) /\ Cardinality(R) \in Nat
            /\ Cardinality(Q) \in Nat /\ Q \subseteq R \cup {k}
        BY <1>2, <3>6
      <4> HIDE DEF R, Q
      <4>1. /\ IsFiniteSet(R \cup {k})
            /\ Cardinality(R \cup {k}) = IF k \in R THEN Cardinality(R) ELSE Cardinality(R) + 1
        BY <4>0, FS_AddElement
      <4>2. Cardinality(Q) <= Cardinality(R \cup {k})
        BY <4>0, <4>1, FS_Subset
      <4>3. Cardinality(Q) <= Cardinality(R) + 1
        BY <4>0, <4>1, <4>2
      <4> QED
        BY <4>3 DEF R, Q
    <3> QED
      BY <1>2, <2>1, <3>5, <3>7
  <2>3. CASE ~\E k \in Epoch : Proves(v, k)
    <3>1. RecordsOf(v)' = RecordsOf(v)
      BY <2>3, ViewsChange DEF RecordsOf, SameViews
    <3>2. ProofsAbout(v) \subseteq ProofsAbout(v)'
      BY <1>1 DEF ProofsAbout
    <3>3. Cardinality(ProofsAbout(v)) <= Cardinality(ProofsAbout(v)')
      BY <1>2, <3>2, FS_Subset
    <3> QED
      BY <1>2, <2>1, <3>1, <3>3
  <2> QED
    BY <2>2, <2>3
<1> QED
  BY <1>4, <1>5

-----------------------------------------------------------------------------
(***************************************************************************)
(* Tokens and disputes.                                                    *)
(***************************************************************************)
\* A step that moves no money: at most a dispute is answered.
NoMoney ==
    /\ token' = token
    /\ campaign'.balance = campaign.balance
    /\ campaign'.refunded = campaign.refunded
    /\ \A v \in Video, e \in Epoch :
         /\ dispute'[v][e].challenger = dispute[v][e].challenger
         /\ \/ dispute'[v][e].status = dispute[v][e].status
            \/ dispute[v][e].status = "Open" /\ dispute'[v][e].status = "Responded"

Closes(v, e, w) ==
    /\ dispute[v][e].status \in {"Open", "Responded"}
    /\ Close(v, e, w)

LEMMA MoneyMoves ==
    ASSUME IInv, [Next]_vars
    PROVE  \/ NoMoney
           \/ Refund
           \/ \E v \in Video, e \in Epoch :
                \/ Claim(v, e)
                \/ ClaimHoldback(v, e)
                \/ \E a \in Challenger : Challenge(v, e, a)
                \/ \E w \in BOOLEAN : Closes(v, e, w)
<1>1. campaign \in CampaignRecord /\ dispute \in [Video -> [Epoch -> Dispute]]
  BY DEF IInv, TypeOK
<1>2. ASSUME NEW e \in Epoch, NEW p \in Proof, SubmitProof(e, p)
      PROVE  NoMoney
  <2>1. campaign' = [campaign EXCEPT !.settledEpochs = Greatest(@, e)]
        /\ UNCHANGED <<dispute, token>>
    BY <1>2 DEF SubmitProof
  <2> QED
    BY <1>1, <2>1 DEF NoMoney, CampaignRecord
<1>3. ASSUME NEW e \in Epoch, SettleEpoch(e)
      PROVE  NoMoney
  BY <1>1, <1>3 DEF SettleEpoch, NoMoney, CampaignRecord
<1>4. ASSUME NEW v \in Video, NEW e \in Epoch, Respond(v, e)
      PROVE  NoMoney
  BY <1>1, <1>4 DEF Respond, NoMoney, Dispute
<1>5. CASE \/ Tick
           \/ \E u \in User : Join(u) \/ \E p \in Proof : RegisterClip(u, p)
           \/ UNCHANGED vars
  BY <1>5 DEF Tick, Join, RegisterClip, vars, NoMoney
<1>6. ASSUME NEW v \in Video, NEW e \in Epoch,
             Finalize(v, e) \/ \E w \in BOOLEAN : Resolve(v, e, w)
      PROVE  \E w \in BOOLEAN : Closes(v, e, w)
  BY <1>6 DEF Resolve, Finalize, DefaultRuling, Closes
<1> QED
  BY <1>2, <1>3, <1>4, <1>5, <1>6 DEF Next

LEMMA PairsOfEpochsFinite == IsFiniteSet(VideoEpochs)
<1>1. IsFiniteSet(Epoch)
  BY EpochType, FS_Interval DEF Epoch
<1> QED
  BY <1>1, PairsFinite, CampaignAssumption DEF VideoEpochs

LEMMA CountedPairs ==
    ASSUME NEW S, S \subseteq VideoEpochs
    PROVE  IsFiniteSet(S) /\ Cardinality(S) \in Nat
BY PairsOfEpochsFinite, FS_Subset, FS_CardinalityType

\* Multiplication by the bond distributes over one dispute more.
LEMMA OneBondMore ==
    ASSUME NEW n \in Nat
    PROVE  /\ Bond * (n + 1) = Bond * n + Bond /\ Bond * n \in Nat
           /\ Bond \in Nat
BY CampaignAssumption

\* A payment leaves the contract and the campaign's balance alike.
LEMMA PayOutMoves ==
    ASSUME IInv, NEW to \in User, NEW amount \in Nat, PayOut(to, amount)
    PROVE  LET paid == Least(amount, campaign.balance)
           IN  /\ paid \in Nat
               /\ token'[Contract] = token[Contract] - paid
               /\ token'[to] = token[to] + paid
               /\ \A a \in Account : a \notin {to, Contract} => token'[a] = token[a]
               /\ campaign'.balance = campaign.balance - paid
               /\ campaign'.refunded = campaign.refunded
<1> DEFINE paid == Least(amount, campaign.balance)
<1>1. /\ token \in [Account -> Nat] /\ Contract \in Account /\ to \in Account
      /\ campaign \in CampaignRecord
      /\ to # Contract
  BY CampaignAssumption DEF IInv, TypeOK, Account
<1>2. paid \in Nat
  BY <1>1 DEF Least, CampaignRecord
<1>3. token' = [token EXCEPT ![Contract] = @ - paid, ![to] = @ + paid]
      /\ campaign' = [campaign EXCEPT !.balance = @ - paid]
  BY DEF PayOut, Transfer
<1>4. /\ token'[Contract] = token[Contract] - paid
      /\ token'[to] = token[to] + paid
      /\ \A a \in Account : a \notin {to, Contract} => token'[a] = token[a]
      /\ campaign'.balance = campaign.balance - paid
      /\ campaign'.refunded = campaign.refunded
  <2> HIDE DEF paid
  <2> QED
    BY <1>1, <1>2, <1>3 DEF CampaignRecord
<1> QED
  BY <1>2, <1>4

LEMMA HoldbackShareType ==
    ASSUME IInv, NEW v \in Video, NEW e \in Epoch, clip[v].owner \in User,
           epoch[e].heldSurvived # 0
    PROVE  Share(v, e) \in Nat
<1>1. epoch[e].heldTotal \in Nat /\ epoch[e].heldSurvived \in Nat \ {0}
  BY DEF IInv, TypeOK, EpochState
<1>2. HeldOf(e, Pay(v, e)) \in Nat
  BY PayType DEF IInv
<1> QED
  BY <1>1, <1>2, ShareType DEF Share

LEMMA BackingKept ==
    ASSUME IInv, TokenBacking, [Next]_vars, IInv'
    PROVE  TokenBacking'
<1> DEFINE D == OpenDisputes
           n == Cardinality(OpenDisputes)
<1>1. /\ D \subseteq VideoEpochs /\ IsFiniteSet(D) /\ n \in Nat
      /\ IsFiniteSet(D') /\ Cardinality(D') \in Nat
  <2>1. D \subseteq VideoEpochs /\ D' \subseteq VideoEpochs
    BY DEF OpenDisputes
  <2> QED
    BY <2>1, CountedPairs
<1>2. /\ token \in [Account -> Nat] /\ token' \in [Account -> Nat]
      /\ Contract \in Account /\ Brand \in Account /\ Brand # Contract
      /\ campaign.balance \in Nat /\ campaign'.balance \in Nat
      /\ campaign \in CampaignRecord
      /\ dispute \in [Video -> [Epoch -> Dispute]]
      /\ token[Contract] = campaign.balance + Bond * n
  BY CampaignAssumption DEF IInv, TypeOK, Account, CampaignRecord, TokenBacking
<1>3. Bond * n \in Nat /\ Bond * (n + 1) = Bond * n + Bond /\ Bond \in Nat
  BY <1>1, OneBondMore
<1>4. CASE NoMoney
  <2>1. D' = D
    BY <1>4 DEF NoMoney, OpenDisputes, VideoEpochs
  <2> QED
    BY <1>2, <1>4, <2>1 DEF NoMoney, TokenBacking
<1>5. ASSUME NEW v \in Video, NEW e \in Epoch, Claim(v, e) \/ ClaimHoldback(v, e)
      PROVE  TokenBacking'
  <2>1. clip[v].owner \in User
    BY <1>5 DEF Claim, ClaimHoldback, IInv, TypeOK, Clip
  <2>2. \E amount \in Nat : PayOut(clip[v].owner, amount)
    <3>1. CASE Claim(v, e)
      BY <2>1, <3>1, PayType DEF Claim, IInv
    <3>2. CASE ClaimHoldback(v, e)
      BY <2>1, <3>2, HoldbackShareType DEF ClaimHoldback
    <3> QED
      BY <1>5, <3>1, <3>2
  <2>3. PICK paid \in Nat : /\ token'[Contract] = token[Contract] - paid
                            /\ campaign'.balance = campaign.balance - paid
    BY <2>1, <2>2, PayOutMoves
  <2>4. D' = D
    BY <1>5 DEF Claim, ClaimHoldback, OpenDisputes
  <2> QED
    BY <1>2, <1>3, <2>3, <2>4 DEF TokenBacking
<1>6. CASE Refund
  <2>1. token'[Contract] = token[Contract] - campaign.balance /\ campaign'.balance = 0
    BY <1>2, <1>6 DEF Refund, Transfer, CampaignRecord
  <2>2. D' = D
    BY <1>6 DEF Refund, OpenDisputes
  <2> QED
    BY <1>2, <1>3, <2>1, <2>2 DEF TokenBacking
<1>7. ASSUME NEW v \in Video, NEW e \in Epoch, NEW a \in Challenger, Challenge(v, e, a)
      PROVE  TokenBacking'
  <2>1. a \in Account /\ a # Contract
    BY CampaignAssumption DEF Account
  <2>2. token'[Contract] = token[Contract] + Bond /\ campaign' = campaign
    BY <1>2, <1>7, <2>1 DEF Challenge, Transfer
  <2>3. D' = D \cup {<<v, e>>} /\ <<v, e>> \notin D
    BY <1>2, <1>7 DEF Challenge, OpenDisputes, VideoEpochs, Dispute
  <2>4. Cardinality(D') = n + 1
    BY <1>1, <2>3, FS_AddElement
  <2> QED
    BY <1>2, <1>3, <2>2, <2>4 DEF TokenBacking
<1>8. ASSUME NEW v \in Video, NEW e \in Epoch, NEW w \in BOOLEAN, Closes(v, e, w)
      PROVE  TokenBacking'
  <2>1. PICK to \in User \cup {Brand} : token' = Transfer(Contract, to, Bond)
    BY <1>8 DEF Closes, Close, IInv, TypeOK, Clip, EntriesBelong
  <2>2. to \in Account /\ to # Contract
    BY CampaignAssumption DEF Account
  <2>3. token'[Contract] = token[Contract] - Bond /\ campaign' = campaign
    BY <1>2, <1>8, <2>1, <2>2 DEF Transfer, Closes, Close
  <2>4. D' = D \ {<<v, e>>} /\ <<v, e>> \in D
    BY <1>2, <1>8 DEF Closes, Close, OpenDisputes, VideoEpochs, Dispute
  <2>5. Cardinality(D') = n - 1
    BY <1>1, <2>4, FS_RemoveElement
  <2>6. Cardinality(D') \in Nat /\ n = Cardinality(D') + 1
    BY <1>1, <2>5
  <2>7. Bond * n = Bond * Cardinality(D') + Bond /\ Bond * Cardinality(D') \in Nat
    BY <2>6, OneBondMore
  <2> QED
    BY <1>2, <1>3, <2>3, <2>7 DEF TokenBacking
<1> QED
  BY <1>4, <1>5, <1>6, <1>7, <1>8, MoneyMoves

-----------------------------------------------------------------------------
(***************************************************************************)
(* What the flags of a record stand for.                                   *)
(***************************************************************************)
FlagsOf(v, e) ==
    /\ clipEpoch[v][e].claimed => epoch[e].settled /\ clip[v].owner # Nobody
    /\ clipEpoch[v][e].alive =>
         /\ epoch[e].settled /\ clipEpoch[v][e].status # "None"
         /\ e < Last /\ clipEpoch[v][e + 1].status # "None"
    /\ clipEpoch[v][e].holdbackClaimed =>
         /\ clipEpoch[v][e].alive
         /\ HoldbackReleaseEnd(e) <= now
         /\ epoch[e].heldSurvived # 0

FlagsAgree == \A v \in Video, e \in Epoch : FlagsOf(v, e)

\* What payouts are computed from, field by field.
LEMMA Frozen ==
    ASSUME IInv, [Next]_vars, IInv', NEW e \in Epoch, epoch[e].settled
    PROVE  /\ epoch'[e].settled
           /\ epoch'[e].budget = epoch[e].budget
           /\ epoch'[e].rate = epoch[e].rate
           /\ epoch'[e].spent = epoch[e].spent
           /\ epoch'[e].heldTotal = epoch[e].heldTotal
           /\ epoch'[e].totalWeight = epoch[e].totalWeight
           /\ \A u \in User : partEpoch'[u][e] = partEpoch[u][e]
           /\ \A v \in Video : /\ clipEpoch'[v][e].weight = clipEpoch[v][e].weight
                               /\ clipEpoch'[v][e].status = clipEpoch[v][e].status
<1>1. KeepsPayoutsOf(e)
  BY FrozenStep
<1>2. epoch[e] \in EpochState /\ epoch'[e] \in EpochState
  BY DEF IInv, TypeOK
<1> DEFINE st == epoch[e]
           new == epoch'[e]
<1>3. [new EXCEPT !.heldSurvived = 0] = [st EXCEPT !.heldSurvived = 0]
      /\ st \in EpochState /\ new \in EpochState
  BY <1>1, <1>2 DEF KeepsPayoutsOf
<1> HIDE DEF st, new
<1>4. /\ new.settled = st.settled /\ new.budget = st.budget /\ new.rate = st.rate
      /\ new.spent = st.spent /\ new.heldTotal = st.heldTotal
      /\ new.totalWeight = st.totalWeight
  BY <1>3 DEF EpochState
<1> QED
  BY <1>1, <1>4 DEF KeepsPayoutsOf, st, new

\* What a closing proof does to the epoch before its own.
LEMMA ProofRevives ==
    ASSUME IInv, NEW e \in Epoch, NEW p \in Proof, e + 1 \in Epoch,
           SubmitProof(e + 1, p), IInv'
    PROVE  /\ epoch'[e].settled
           /\ clipEpoch'[p.video][e + 1].status = "Active"
           /\ \A u \in User : partEpoch'[u][e] = partEpoch[u][e]
           /\ \A v \in Video : clipEpoch'[v][e].weight = clipEpoch[v][e].weight
           /\ epoch'[e].heldSurvived =
                epoch[e].heldSurvived
                  + (IF Revives(p.video, e) THEN Held(p.video, e, epoch'[e].rate) ELSE 0)
<1> DEFINE f == e + 1
           v == p.video
           es == SettledBefore(f)
           h == Held(v, e, es[e].rate)
<1>1. f \in Epoch /\ f # e /\ f - 1 = e /\ e \in Nat /\ v \in Video
  BY EpochType DEF Proof
<1>2. epoch' = [k \in Epoch |->
                  IF k = f THEN Retotalled(es[k], partEpoch[clip[v].owner][f],
                                  Reweighed(partEpoch[clip[v].owner][f],
                                            ClosingRecord(v, f).weight,
                                            ClipWeight(ClosingRecord(v, f).baseline,
                                              Greatest(ClosingRecord(v, f).views, p.views))))
                  ELSE IF k = f - 1 /\ Revives(v, k)
                  THEN [es[k] EXCEPT !.heldSurvived = @ + Held(v, k, es[k].rate)]
                  ELSE es[k]]
  BY DEF SubmitProof
<1>3. epoch'[e] = IF Revives(v, e) THEN [es[e] EXCEPT !.heldSurvived = @ + h] ELSE es[e]
  BY <1>1, <1>2
<1>4. ChainOK(es, campaign.settledEpochs, f)
  BY <1>1, SettledBeforeOK
<1>5. es[e] \in EpochState /\ es[e].heldSurvived = epoch[e].heldSurvived
  BY <1>4 DEF ChainOK, EpochsOK, SameWork
<1>6. epoch'[e].heldSurvived = epoch[e].heldSurvived + (IF Revives(v, e) THEN h ELSE 0)
      /\ epoch'[e].rate = es[e].rate
  <2> HIDE DEF es, h
  <2>1. epoch[e].heldSurvived \in Nat
    BY DEF IInv, TypeOK, EpochState
  <2> QED
    BY <1>3, <1>5, <2>1 DEF EpochState
<1>7. campaign'.settledEpochs = Greatest(campaign.settledEpochs, f)
  BY DEF SubmitProof, IInv, TypeOK, CampaignRecord
<1>8. epoch'[e].settled
  BY <1>1, <1>7 DEF IInv, SettledInOrder, TypeOK, CampaignRecord, Greatest
<1>9. ClosingRecord(v, f).status = "Active" /\ clipEpoch \in [Video -> [Epoch -> ClipEpoch]]
  BY DEF SubmitProof, IInv, TypeOK
<1>10. clipEpoch'[v][f] = [ClosingRecord(v, f) EXCEPT
                             !.views = Greatest(ClosingRecord(v, f).views, p.views),
                             !.weight = ClipWeight(ClosingRecord(v, f).baseline,
                                          Greatest(ClosingRecord(v, f).views, p.views))]
  BY <1>1, <1>9 DEF SubmitProof
<1>11. clipEpoch'[v][f].status = "Active"
  <2> DEFINE c == ClosingRecord(v, f)
  <2>1. DOMAIN c = {"baseline", "views", "weight", "status", "claimed", "alive",
                    "holdbackClaimed"}
    BY <1>1, <1>9 DEF ClosingRecord, NoClipEpoch, ClipEpoch
  <2>2. c.status = "Active"
    BY <1>9
  <2> HIDE DEF c
  <2>3. \A x, y : [c EXCEPT !.views = x, !.weight = y].status = "Active"
    BY <2>1, <2>2
  <2> QED
    BY <1>10, <2>3 DEF c
<1>12. \A u \in User : partEpoch'[u][e] = partEpoch[u][e]
  BY <1>1 DEF SubmitProof, IInv, TypeOK
<1>13. ASSUME NEW w \in Video
       PROVE  clipEpoch'[w][e].weight = clipEpoch[w][e].weight
  <2>1. \/ clipEpoch'[w][e] = clipEpoch[w][e]
        \/ clipEpoch'[w][e] = [clipEpoch[w][e] EXCEPT !.alive = TRUE]
    BY <1>1, <1>9 DEF SubmitProof
  <2>2. clipEpoch[w][e] \in ClipEpoch
    BY <1>9
  <2> QED
    BY <2>1, <2>2 DEF ClipEpoch
<1> QED
  BY <1>6, <1>8, <1>11, <1>12, <1>13

LEMMA SurvivorsChange ==
    ASSUME IInv, [Next]_vars, NEW e \in Epoch
    PROVE  \/ epoch'[e].heldSurvived = epoch[e].heldSurvived
           \/ e + 1 \in Epoch /\ \E p \in Proof : SubmitProof(e + 1, p)
<1>1. epoch \in [Epoch -> EpochState]
  BY DEF IInv, TypeOK
<1>2. ASSUME NEW k \in Epoch, SettleEpoch(k)
      PROVE  epoch'[e].heldSurvived = epoch[e].heldSurvived
  <2>1. EpochsOK(epoch)
    BY DEF IInv, TypeOK, SpentBounded, EpochsOK
  <2>2. /\ \A j \in Epoch : j # k => epoch'[j] = epoch[j]
        /\ SameWork(epoch[k], epoch'[k])
    BY <1>2, <2>1, SettledOK DEF SettleEpoch
  <2> QED
    BY <2>2 DEF SameWork
<1>3. ASSUME NEW k \in Epoch, NEW p \in Proof, SubmitProof(k, p), k # e + 1
      PROVE  epoch'[e].heldSurvived = epoch[e].heldSurvived
  <2> DEFINE es == SettledBefore(k)
  <2>1. es[e] \in EpochState /\ es[e].heldSurvived = epoch[e].heldSurvived
    BY SettledBeforeOK DEF ChainOK, EpochsOK, SameWork
  <2>2. e # k - 1
    BY <1>3, EpochType
  <2>3. epoch'[e] = es[e] \/ \E x, y : epoch'[e] = Retotalled(es[e], x, y)
    BY <1>3, <2>2 DEF SubmitProof
  <2> HIDE DEF es
  <2>4. \A x, y : Retotalled(es[e], x, y).heldSurvived = es[e].heldSurvived
    BY <2>1 DEF Retotalled, EpochState
  <2> QED
    BY <2>1, <2>3, <2>4
<1>4. ASSUME NEW v \in Video, NEW k \in Epoch,
             \/ \E a \in Challenger : Challenge(v, k, a)
             \/ \E w \in BOOLEAN : Closes(v, k, w)
      PROVE  epoch'[e].heldSurvived = epoch[e].heldSurvived
  <2> DEFINE Disputed(n) == [epoch[k] EXCEPT !.openDisputes = n]
  <2>1. ASSUME NEW r, r.heldSurvived = epoch[k].heldSurvived,
               epoch' = [epoch EXCEPT ![k] = r]
        PROVE  epoch'[e].heldSurvived = epoch[e].heldSurvived
    BY <1>1, <2>1
  <2>2. \A n, x, y :
          /\ Disputed(n).heldSurvived = epoch[k].heldSurvived
          /\ Retotalled(Disputed(n), x, y).heldSurvived = epoch[k].heldSurvived
    BY <1>1 DEF Retotalled, EpochState
  <2>3. CASE \E a \in Challenger : Challenge(v, k, a)
    <3>1. epoch' = [epoch EXCEPT ![k] = Disputed(epoch[k].openDisputes + 1)]
      BY <2>3 DEF Challenge
    <3> HIDE DEF Disputed
    <3> QED
      BY <2>1, <2>2, <3>1
  <2>4. ASSUME NEW w \in BOOLEAN, Closes(v, k, w)
        PROVE  epoch'[e].heldSurvived = epoch[e].heldSurvived
    <3> DEFINE st == Disputed(epoch[k].openDisputes - 1)
               pe == partEpoch[clip[v].owner][k]
               new == Retotalled(st, pe, Reweighed(pe, clipEpoch[v][k].weight, 0))
    <3>1. epoch' = [epoch EXCEPT ![k] = st] \/ epoch' = [epoch EXCEPT ![k] = new]
      BY <2>4 DEF Closes, Close
    <3>2. st.heldSurvived = epoch[k].heldSurvived /\ new.heldSurvived = epoch[k].heldSurvived
      BY <2>2
    <3> HIDE DEF st, new
    <3> QED
      BY <2>1, <3>1, <3>2
  <2> QED
    BY <1>4, <2>3, <2>4
<1>5. ASSUME NEW v \in Video, NEW k \in Epoch,
             Finalize(v, k) \/ \E w \in BOOLEAN : Resolve(v, k, w)
      PROVE  epoch'[e].heldSurvived = epoch[e].heldSurvived
  BY <1>4, <1>5 DEF Resolve, Finalize, DefaultRuling, Closes
<1> QED
  BY <1>2, <1>3, <1>4, <1>5
  DEF Next, Tick, Join, RegisterClip, Claim, ClaimHoldback, Refund, Respond, vars

\* Once a share has been paid, the pot it was computed from is closed.
LEMMA PotClosed ==
    ASSUME IInv, FlagsAgree, [Next]_vars, NEW v \in Video, NEW e \in Epoch,
           clipEpoch[v][e].holdbackClaimed
    PROVE  epoch'[e].heldSurvived = epoch[e].heldSurvived
<1>1. HoldbackReleaseEnd(e) <= now
  BY DEF FlagsAgree, FlagsOf
<1>2. ~\E p \in Proof : SubmitProof(e + 1, p)
  <2>1. e + 1 \in Nat /\ now \in Nat
    BY EpochType DEF IInv, TypeOK
  <2>2. ProofEnd(e + 1) \in Nat
    BY <2>1, TimelineType
  <2>3. ASSUME NEW p \in Proof, SubmitProof(e + 1, p)
        PROVE  now < ProofEnd(e + 1)
    BY <2>3 DEF SubmitProof
  <2>4. ProofEnd(e + 1) <= now
    BY <1>1 DEF HoldbackReleaseEnd
  <2> QED
    BY <2>1, <2>2, <2>3, <2>4
<1> QED
  BY <1>2, SurvivorsChange

\* How the flags move.
LEMMA FlagsChange ==
    ASSUME IInv, [Next]_vars, NEW v \in Video, NEW e \in Epoch
    PROVE  LET c == clipEpoch[v][e]
               d == clipEpoch'[v][e]
           IN  /\ c.status # "None" => d.status # "None"
               /\ \/ c.claimed = d.claimed
                  \/ Claim(v, e) /\ d.claimed /\ ~c.claimed
                  \/ ~d.claimed
               /\ \/ c.alive = d.alive
                  \/ Revived(v, e) /\ d.alive
                  \/ ~d.alive /\ c.status = "None"
               /\ \/ c.holdbackClaimed = d.holdbackClaimed
                  \/ ClaimHoldback(v, e) /\ d.holdbackClaimed /\ ~c.holdbackClaimed
                  \/ ~d.holdbackClaimed
<1> DEFINE c == clipEpoch[v][e]
           d == clipEpoch'[v][e]
<1>1. c \in ClipEpoch
  BY DEF IInv, TypeOK
<1>2. CASE Claim(v, e) /\ d = [c EXCEPT !.claimed = TRUE]
  <2>1. ~c.claimed
    BY <1>2 DEF Claim, CanClaim
  <2>2. /\ d.claimed = TRUE /\ d.status = c.status /\ d.alive = c.alive
        /\ d.holdbackClaimed = c.holdbackClaimed
    BY <1>1, <1>2 DEF ClipEpoch
  <2> QED
    BY <1>2, <2>1, <2>2
<1>3. CASE ClaimHoldback(v, e) /\ d = [c EXCEPT !.holdbackClaimed = TRUE]
  <2>1. ~c.holdbackClaimed
    BY <1>3 DEF ClaimHoldback
  <2>2. /\ d.holdbackClaimed = TRUE /\ d.status = c.status /\ d.claimed = c.claimed
        /\ d.alive = c.alive
    BY <1>1, <1>3 DEF ClipEpoch
  <2> QED
    BY <1>3, <2>1, <2>2
<1>4. CASE Judged(v, e)
  BY <1>1, <1>4 DEF Judged, ClipEpoch
<1>5. CASE Revived(v, e)
  BY <1>1, <1>5 DEF Revived, ClipEpoch
<1>6. CASE Proves(v, e)
  <2>1. /\ d.status = "Active"
        /\ d.claimed = ClosingRecord(v, e).claimed
        /\ d.alive = ClosingRecord(v, e).alive
        /\ d.holdbackClaimed = ClosingRecord(v, e).holdbackClaimed
    BY <1>6 DEF Proves
  <2>2. c.status = "None" => /\ ClosingRecord(v, e).claimed = FALSE
                             /\ ClosingRecord(v, e).alive = FALSE
                             /\ ClosingRecord(v, e).holdbackClaimed = FALSE
    BY DEF ClosingRecord, NoClipEpoch
  <2>3. c.status # "None" => ClosingRecord(v, e) = c
    BY DEF ClosingRecord
  <2> QED
    BY <2>1, <2>2, <2>3
<1> QED
  BY <1>2, <1>3, <1>4, <1>5, <1>6, RecordChanges DEF RecordStep

LEMMA FlagsKept ==
    ASSUME IInv, FlagsAgree, [Next]_vars, IInv'
    PROVE  FlagsAgree'
<1> SUFFICES ASSUME NEW v \in Video, NEW e \in Epoch
             PROVE  FlagsOf(v, e)'
  BY DEF FlagsAgree
<1> DEFINE c == clipEpoch[v][e]
           d == clipEpoch'[v][e]
<1>1. FlagsOf(v, e) /\ e \in Nat /\ Epochs \in Nat
  BY EpochType DEF FlagsAgree
<1>2. epoch[e].settled => epoch'[e].settled
  BY Frozen
<1>3. d.claimed => epoch'[e].settled /\ clip'[v].owner # Nobody
  <2>1. CASE c.claimed = d.claimed
    BY <1>1, <1>2, <2>1, ClipKept DEF FlagsOf
  <2>2. CASE Claim(v, e)
    BY <1>2, <2>2, ClipKept DEF Claim, CanClaim
  <2> QED
    BY <2>1, <2>2, FlagsChange
<1>4. d.alive => /\ epoch'[e].settled /\ d.status # "None"
                 /\ e < Last /\ clipEpoch'[v][e + 1].status # "None"
  <2>1. CASE c.alive /\ d.alive
    <3>1. e + 1 \in Epoch
      BY <1>1, <2>1 DEF FlagsOf, Last, Epoch
    <3>2. clipEpoch'[v][e + 1].status # "None" /\ d.status # "None"
      BY <1>1, <2>1, <3>1, FlagsChange DEF FlagsOf
    <3> QED
      BY <1>1, <1>2, <2>1, <3>2 DEF FlagsOf
  <2>2. CASE Revived(v, e)
    <3>1. PICK p \in Proof : p.video = v /\ SubmitProof(e + 1, p) /\ e + 1 \in Epoch
      BY <2>2 DEF Revived
    <3>2. epoch'[e].settled /\ clipEpoch'[v][e + 1].status = "Active"
      BY <3>1, ProofRevives
    <3>3. e < Last
      BY <1>1, <3>1 DEF Last, Epoch
    <3>4. c.status # "None"
      BY <2>2 DEF Revived, Revives
    <3> QED
      BY <3>2, <3>3, <3>4, FlagsChange
  <2>3. c.alive \in BOOLEAN /\ d.alive \in BOOLEAN
    BY DEF IInv, TypeOK, ClipEpoch
  <2> QED
    BY <2>1, <2>2, <2>3, FlagsChange
<1>5. d.holdbackClaimed => /\ d.alive
                           /\ HoldbackReleaseEnd(e) <= now'
                           /\ epoch'[e].heldSurvived # 0
  <2>1. HoldbackReleaseEnd(e) \in Nat
    BY <1>1, TimelineType DEF HoldbackReleaseEnd
  <2>2. CASE c.holdbackClaimed = d.holdbackClaimed
    <3>1. SUFFICES ASSUME c.holdbackClaimed
                   PROVE  /\ d.alive
                          /\ HoldbackReleaseEnd(e) <= now'
                          /\ epoch'[e].heldSurvived # 0
      BY <2>2
    <3>2. c.alive /\ HoldbackReleaseEnd(e) <= now /\ epoch[e].heldSurvived # 0
          /\ c.status # "None"
      BY <1>1, <3>1 DEF FlagsOf
    <3>3. epoch'[e].heldSurvived = epoch[e].heldSurvived
      BY <3>1, PotClosed
    <3> QED
      BY <2>1, <3>2, <3>3, FlagsChange, TimeAdvances
  <2>3. CASE ClaimHoldback(v, e)
    <3>1. /\ c.alive /\ c.status # "None" /\ HoldbackReleaseEnd(e) <= now
          /\ epoch[e].heldSurvived # 0
          /\ epoch' = epoch /\ now' = now
      BY <2>3 DEF ClaimHoldback
    <3> QED
      BY <3>1, FlagsChange
  <2> QED
    BY <2>2, <2>3, FlagsChange
<1> QED
  BY <1>3, <1>4, <1>5 DEF FlagsOf

-----------------------------------------------------------------------------
(***************************************************************************)
(* The survivors of a holdback.                                            *)
(***************************************************************************)
HeldByAlive(e) ==
    [v \in Video |-> IF clipEpoch[v][e].alive THEN HeldOf(e, Pay(v, e)) ELSE 0]

SurvivorsCounted ==
    \A e \in Epoch : epoch[e].heldSurvived = SumOver(HeldByAlive(e), Video)

\* The pay of a post in a settled epoch stays.
LEMMA PayStays ==
    ASSUME IInv, [Next]_vars, IInv', NEW v \in Video, NEW e \in Epoch,
           epoch[e].settled, clip[v].owner # Nobody
    PROVE  /\ Pay(v, e)' = Pay(v, e)
           /\ Pay(v, e) \in Nat
           /\ HeldOf(e, Pay(v, e)) \in Nat
<1>1. /\ epoch'[e].rate = epoch[e].rate
      /\ \A u \in User : partEpoch'[u][e] = partEpoch[u][e]
      /\ clipEpoch'[v][e].weight = clipEpoch[v][e].weight
  BY Frozen
<1>2. clip'[v].owner = clip[v].owner /\ clip[v].owner \in User
  BY ClipKept DEF IInv, TypeOK, Clip
<1>3. Pay(v, e)' = Pay(v, e)
  BY <1>1, <1>2 DEF Pay
<1> QED
  BY <1>2, <1>3, PayType DEF IInv

LEMMA HeldByAliveType ==
    ASSUME TypeOK, EntriesBelong, FlagsAgree, NEW e \in Epoch
    PROVE  Naturals(HeldByAlive(e), Video)
<1>1. ASSUME NEW v \in Video, clipEpoch[v][e].alive
      PROVE  HeldOf(e, Pay(v, e)) \in Nat
  <2>1. clip[v].owner \in User
    BY <1>1 DEF FlagsAgree, FlagsOf, EntriesBelong, TypeOK, Clip
  <2> QED
    BY <2>1, PayType
<1> QED
  BY <1>1 DEF HeldByAlive, Naturals

LEMMA SurvivorsKept ==
    ASSUME IInv, FlagsAgree, SurvivorsCounted, [Next]_vars, IInv', FlagsAgree'
    PROVE  SurvivorsCounted'
<1> SUFFICES ASSUME NEW e \in Epoch
             PROVE  epoch'[e].heldSurvived = SumOver(HeldByAlive(e)', Video)
  BY DEF SurvivorsCounted
<1> DEFINE w == HeldByAlive(e)
           z == HeldByAlive(e)'
<1>1. epoch[e].heldSurvived = SumOver(w, Video)
  BY DEF SurvivorsCounted
<1>2. /\ Naturals(w, Video) /\ Naturals(z, Video)
      /\ w = [v \in Video |-> w[v]] /\ z = [v \in Video |-> z[v]]
  <2>1. Naturals(w, Video)
    BY HeldByAliveType DEF IInv
  <2>2. Naturals(z, Video)
    <3>1. (TypeOK /\ EntriesBelong /\ FlagsAgree)' => Naturals(HeldByAlive(e), Video)'
      BY HeldByAliveType, PTL
    <3> QED
      BY <3>1 DEF IInv, Naturals
  <2> QED
    BY <2>1, <2>2 DEF HeldByAlive
<1>3. ASSUME NEW v \in Video, ~Revived(v, e)
      PROVE  z[v] = w[v]
  <2>1. clipEpoch[v][e].alive \in BOOLEAN /\ clipEpoch'[v][e].alive \in BOOLEAN
    BY DEF IInv, TypeOK, ClipEpoch
  <2>2. CASE clipEpoch[v][e].alive
    <3>1. epoch[e].settled /\ clip[v].owner # Nobody /\ clipEpoch[v][e].status # "None"
      BY <2>2 DEF FlagsAgree, FlagsOf, IInv, EntriesBelong
    <3>2. clipEpoch'[v][e].alive
      BY <1>3, <2>1, <2>2, <3>1, FlagsChange
    <3> QED
      BY <2>2, <3>1, <3>2, PayStays DEF HeldByAlive
  <2>3. CASE ~clipEpoch[v][e].alive
    <3>1. ~clipEpoch'[v][e].alive
      BY <1>3, <2>1, <2>3, FlagsChange
    <3> QED
      BY <2>3, <3>1 DEF HeldByAlive
  <2> QED
    BY <2>2, <2>3
<1>4. CASE \E p \in Proof, v \in Video : /\ p.video = v /\ e + 1 \in Epoch
                                         /\ SubmitProof(e + 1, p) /\ Revives(v, e)
  <2>1. PICK p \in Proof, v \in Video : /\ p.video = v /\ e + 1 \in Epoch
                                        /\ SubmitProof(e + 1, p) /\ Revives(v, e)
    BY <1>4
  <2>2. /\ epoch'[e].heldSurvived = epoch[e].heldSurvived + Held(v, e, epoch'[e].rate)
        /\ \A u \in User : partEpoch'[u][e] = partEpoch[u][e]
        /\ clipEpoch'[v][e].weight = clipEpoch[v][e].weight
    BY <2>1, ProofRevives
  <2>3. clip[v].owner \in User /\ clip'[v].owner = clip[v].owner
    BY <2>1, ClipKept DEF SubmitProof, IInv, TypeOK, Clip
  <2>4. ~clipEpoch[v][e].alive /\ clipEpoch[v][e].status # "None"
    BY <2>1 DEF Revives
  <2>5. clipEpoch'[v][e].alive
    <3>1. e \in Nat /\ e # e + 1 /\ (e + 1) - 1 = e
      BY EpochType
    <3>2. clipEpoch'[v][e] = [clipEpoch[v][e] EXCEPT !.alive = TRUE]
      BY <2>1, <3>1 DEF SubmitProof, IInv, TypeOK
    <3> QED
      BY <3>2 DEF IInv, TypeOK, ClipEpoch
  <2>6. w[v] = 0 /\ z[v] = HeldOf(e, Pay(v, e)')
    BY <2>4, <2>5 DEF HeldByAlive
  <2>7. HeldOf(e, Pay(v, e)') = Held(v, e, epoch'[e].rate)
    BY <2>2, <2>3 DEF Pay, Held
  <2>8. \A x \in Video : x # v => ~Revived(x, e)
    <3>1. ASSUME NEW x \in Video, x # v, Revived(x, e)
          PROVE  FALSE
      <4>1. PICK q \in Proof : q.video = x /\ SubmitProof(e + 1, q)
        BY <3>1 DEF Revived
      <4>2. usedProof' = usedProof \cup {p} /\ usedProof' = usedProof \cup {q}
            /\ p \notin usedProof /\ q \notin usedProof
        BY <2>1, <4>1 DEF SubmitProof, Fresh
      <4>3. p = q
        BY <4>2
      <4> QED
        BY <2>1, <3>1, <4>1, <4>3
    <3> QED
      BY <3>1
  <2> HIDE DEF w, z
  <2>9. SumOver(z, Video) = SumOver(w, Video) - w[v] + z[v]
    BY <1>2, <1>3, <2>8, SumOneChanged, CampaignAssumption
  <2>10. SumOver(w, Video) \in Nat /\ z[v] \in Nat
    BY <1>2, SumType, CampaignAssumption DEF Naturals
  <2> QED
    BY <1>1, <2>2, <2>6, <2>7, <2>9, <2>10 DEF z
<1>5. CASE ~\E p \in Proof, v \in Video : /\ p.video = v /\ e + 1 \in Epoch
                                          /\ SubmitProof(e + 1, p) /\ Revives(v, e)
  <2>1. epoch'[e].heldSurvived = epoch[e].heldSurvived
    <3>1. ASSUME e + 1 \in Epoch, NEW p \in Proof, SubmitProof(e + 1, p)
          PROVE  epoch'[e].heldSurvived = epoch[e].heldSurvived
      <4>1. p.video \in Video
        BY DEF Proof
      <4>2. ~Revives(p.video, e)
        BY <1>5, <3>1, <4>1
      <4>3. epoch'[e].heldSurvived = epoch[e].heldSurvived + 0
        BY <3>1, <4>2, ProofRevives
      <4> QED
        BY <4>3 DEF IInv, TypeOK, EpochState
    <3> QED
      BY <3>1, SurvivorsChange
  <2>2. \A v \in Video : ~Revived(v, e)
    BY <1>5 DEF Revived
  <2>3. \A v \in Video : z[v] = w[v]
    BY <1>3, <2>2
  <2> HIDE DEF w, z
  <2>4. z = w
    BY <1>2, <2>3
  <2> QED
    BY <1>1, <2>1, <2>4 DEF z
<1> QED
  BY <1>4, <1>5

-----------------------------------------------------------------------------
(***************************************************************************)
(* The invariant of the records, and what follows from it.                 *)
(***************************************************************************)
RInv ==
    /\ RecordsOrdered
    /\ ProofsCounted
    /\ TokenBacking
    /\ FlagsAgree
    /\ SurvivorsCounted

LEMMA InitRecords == Init => RInv
<1> SUFFICES ASSUME Init PROVE RInv
  OBVIOUS
<1>1. ASSUME NEW v \in Video, NEW e \in Epoch
      PROVE  /\ clipEpoch[v][e] = NoClipEpoch
             /\ dispute[v][e] = NoDispute /\ epoch[e] = NewEpoch
  BY DEF Init
<1>1a. \A v \in Video : clip[v] = NoClip
  BY DEF Init
<1>2. RecordsOrdered
  BY <1>1, <1>1a DEF RecordsOrdered, RecordPlaced, RecordsApart, NoClip, NoClipEpoch
<1>3. ProofsCounted
  <2>1. IsFiniteSet(usedProof)
    BY FS_EmptySet DEF Init
  <2>2. \A v \in Video : clip[v].owner = Nobody
    BY <1>1a DEF NoClip
  <2> QED
    BY <2>1, <2>2 DEF ProofsCounted, EachEpochItsOwnProof
<1>4. TokenBacking
  <2>1. OpenDisputes = {}
    BY <1>1 DEF OpenDisputes, VideoEpochs, NoDispute
  <2>2. token[Contract] = Budget /\ campaign.balance = Budget
    BY DEF Init, Account
  <2> QED
    BY <2>1, <2>2, FS_EmptySet, CampaignAssumption, PayoutAssumption
    DEF TokenBacking
<1>5. FlagsAgree
  BY <1>1 DEF FlagsAgree, FlagsOf, NoClipEpoch
<1>6. SurvivorsCounted
  <2> SUFFICES ASSUME NEW e \in Epoch
               PROVE  epoch[e].heldSurvived = SumOver(HeldByAlive(e), Video)
    BY DEF SurvivorsCounted
  <2>1. \A v \in Video : HeldByAlive(e)[v] = 0
    BY <1>1 DEF HeldByAlive, NoClipEpoch
  <2>2. SumOver(HeldByAlive(e), Video) = 0
    BY <2>1, SumZeros, CampaignAssumption
  <2> QED
    BY <2>2 DEF Init, NewEpoch
<1> QED
  BY <1>2, <1>3, <1>4, <1>5, <1>6 DEF RInv

LEMMA NextRecords ==
    ASSUME IInv, RInv, [Next]_vars, IInv'
    PROVE  RInv'
<1>1. RecordsOrdered'
  BY OrderKept DEF RInv
<1>2. ProofsCounted'
  BY ProofsKept DEF RInv
<1>3. TokenBacking'
  BY BackingKept DEF RInv
<1>4. FlagsAgree'
  BY FlagsKept DEF RInv
<1>5. SurvivorsCounted'
  BY <1>4, SurvivorsKept DEF RInv
<1> QED
  BY <1>1, <1>2, <1>3, <1>4, <1>5 DEF RInv

\* The records stay in order, counted, and consistent with their flags.
THEOREM RecordInvariance == Spec => []RInv
<1>1. IInv /\ RInv /\ [Next]_vars /\ IInv' => RInv'
  BY NextRecords
<1> QED
  BY <1>1, InitRecords, Invariance, PTL DEF Spec

\* A view is paid at most once: the ranges of views that a clip's epochs are
\* paid for do not overlap, in whatever order and however often its closing
\* proofs arrive.
THEOREM NoViewPaidTwice == Spec => []ViewsCountOnce
<1>1. IInv /\ RInv => ViewsCountOnce
  BY EpochType DEF IInv, TypeOK, ClipEpoch, Clip, RInv, RecordsOrdered, RecordPlaced,
     RecordsApart, ViewsCountOnce
<1> QED
  BY <1>1, Invariance, RecordInvariance, PTL

\* No attested response serves a clip twice.
THEOREM ProofsServeOnce == Spec => []EachEpochItsOwnProof
<1>1. RInv => EachEpochItsOwnProof
  BY DEF RInv, ProofsCounted
<1> QED
  BY <1>1, RecordInvariance, PTL

\* The contract's tokens are the campaign's balance and the bonds of the
\* disputes still open, no more and no less.
THEOREM BalanceAndBondsApart == Spec => []TokenBacking
<1>1. RInv => TokenBacking
  BY DEF RInv
<1> QED
  BY <1>1, RecordInvariance, PTL

LEMMA SurvivorsAddUp ==
    ASSUME IInv, FlagsAgree, NEW e \in Epoch
    PROVE  MapThenSumSet(LAMBDA v : HeldOf(e, Pay(v, e)),
                         {v \in Video : clipEpoch[v][e].alive})
             = SumOver(HeldByAlive(e), Video)
<1> DEFINE T == {v \in Video : clipEpoch[v][e].alive}
           w == HeldByAlive(e)
<1>1. T \in SUBSET Video /\ IsFiniteSet(T)
  BY FS_Subset, CampaignAssumption
<1>2. \A v \in T : w[v] = HeldOf(e, Pay(v, e))
  BY DEF HeldByAlive
<1>3. MapThenSumSet(LAMBDA v : HeldOf(e, Pay(v, e)), T) = SumOver(w, T)
  <2> HIDE DEF T, w
  <2>1. \A s \in SUBSET T : s # {} =>
          w[CHOOSE x \in s : TRUE] = HeldOf(e, Pay(CHOOSE x \in s : TRUE, e))
    BY <1>2
  <2>2. ASSUME NEW g
        PROVE  IsSum(g, w, T) <=>
                 g = [s \in SUBSET T |-> IF s = {} THEN 0
                        ELSE HeldOf(e, Pay(CHOOSE x \in s : TRUE, e))
                               + g[s \ {CHOOSE x \in s : TRUE}]]
    BY <2>1 DEF IsSum, Chosen
  <2> QED
    BY <2>2, SumOverIs DEF MapThenSumSet, MapThenFoldSet
<1>4. Naturals(w, Video)
  BY HeldByAliveType DEF IInv
<1>5. SumOver(w, T) = SumOver([v \in Video |-> IF v \in T THEN w[v] ELSE 0], Video)
  <2> HIDE DEF T, w
  <2> QED
    BY <1>1, <1>4, SumOfPart, CampaignAssumption
<1>6. [v \in Video |-> IF v \in T THEN w[v] ELSE 0] = w
  BY DEF HeldByAlive
<1> QED
  BY <1>3, <1>5, <1>6

\* The denominator of the holdback shares is the held pay of exactly the clips
\* whose posts a proof of the next epoch has shown to live on.
THEOREM SharesOfSurvivors == Spec => []SurvivorsShareThePot
<1>1. IInv /\ RInv => SurvivorsShareThePot
  <2> SUFFICES ASSUME IInv, RInv, NEW e \in Epoch
               PROVE  /\ epoch[e].heldSurvived =
                           MapThenSumSet(LAMBDA v : HeldOf(e, Pay(v, e)),
                                         {v \in Video : clipEpoch[v][e].alive})
                      /\ \A v \in Video : clipEpoch[v][e].alive =>
                           epoch[e].settled /\ e < Last
                           /\ clipEpoch[v][e + 1].status # "None"
    BY DEF SurvivorsShareThePot
  <2>1. epoch[e].heldSurvived = SumOver(HeldByAlive(e), Video) /\ FlagsAgree
    BY DEF RInv, SurvivorsCounted
  <2>2. \A v \in Video : clipEpoch[v][e].alive =>
          epoch[e].settled /\ e < Last /\ clipEpoch[v][e + 1].status # "None"
    BY <2>1 DEF FlagsAgree, FlagsOf
  <2> QED
    BY <2>1, <2>2, SurvivorsAddUp
<1> QED
  BY <1>1, Invariance, RecordInvariance, PTL

\* Once one share of a pot is paid out, no later proof changes its denominator.
THEOREM PotStaysFixed == Spec => PotFixedOnceShared
<1>1. IInv /\ RInv /\ [Next]_vars =>
        [\A v \in Video, e \in Epoch :
           clipEpoch[v][e].holdbackClaimed =>
             epoch'[e].heldSurvived = epoch[e].heldSurvived]_vars
  BY PotClosed DEF RInv
<1> QED
  BY <1>1, Invariance, RecordInvariance, PTL DEF Spec, PotFixedOnceShared

=============================================================================
