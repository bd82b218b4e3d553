------------------------- MODULE CampaignInvariant -------------------------
(***************************************************************************)
(* The inductive invariant of a campaign, in parts: what TypeOK,           *)
(* SettledInOrder and DisputesAgree need besides to survive every step.    *)
(***************************************************************************)
EXTENDS CampaignProperties, Sums

\* No epoch is settled before its date or over an open dispute.
SettledWhenDue ==
    \A e \in Epoch :
      epoch[e].settled => SettleAt(e) <= now /\ epoch[e].openDisputes = 0

\* No epoch spends more than its budget, so that the carry is not negative.
SpentBounded == \A e \in Epoch : epoch[e].spent <= epoch[e].budget

\* Records belong to clips that exist, and disputes to records and people.
EntriesBelong ==
    \A v \in Video, e \in Epoch :
      /\ clipEpoch[v][e].status = "None" => clipEpoch[v][e].weight = 0
      /\ clipEpoch[v][e].status # "None" => clip[v].owner # Nobody
      /\ dispute[v][e].status # "None" =>
           /\ clipEpoch[v][e].status # "None"
           /\ dispute[v][e].challenger \in User \cup {Brand}

\* The totals are the sums they stand for (so that subtracting a weight from
\* one never goes below zero).
WeightsOf(u, e) ==
    [v \in Video |-> IF clip[v].owner = u THEN clipEpoch[v][e].weight ELSE 0]
WeightsIn(e) == [u \in User |-> partEpoch[u][e].weight]

RawSum(u, e) ==
    /\ partEpoch[u][e].raw = SumOver(WeightsOf(u, e), Video)
    /\ partEpoch[u][e].weight = Least(partEpoch[u][e].raw, CapHuman)
TotalSum(e) == epoch[e].totalWeight = SumOver(WeightsIn(e), User)

SumsKept ==
    /\ \A u \in User, e \in Epoch : RawSum(u, e)
    /\ \A e \in Epoch : TotalSum(e)

IInv ==
    /\ TypeOK
    /\ SettledInOrder
    /\ SettledWhenDue
    /\ SpentBounded
    /\ DisputesAgree
    /\ EntriesBelong
    /\ SumsKept

=============================================================================
