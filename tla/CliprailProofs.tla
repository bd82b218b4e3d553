--------------------------- MODULE CliprailProofs ---------------------------
(***************************************************************************)
(* Theorems about the humanity registry, the money of all campaigns and    *)
(* what they share, for any number of campaigns, people, wallets and posts.*)
(***************************************************************************)
EXTENDS Cliprail, Sums

\* A registered wallet's nullifier is used for that wallet, and the nullifiers
\* of people are those of proofs made for this campaign.
NullifiersKept ==
    /\ \A c \in CampaignId, w \in Wallet :
         nullifierOf[c][w] # NoNullifier => walletOf[c][nullifierOf[c][w]] = w
    /\ \A c \in CampaignId, n \in Nullifier :
         walletOf[c][n] # Nobody => n.campaign = c

RegistryInv == RegistryTypeOK /\ NullifiersKept

\* The first proof of a post fixes its campaign and owner in the index.
ProofsFollowIndex ==
    \A p \in usedProof :
      postIndex[p.video] = [campaign |-> p.campaign, owner |-> p.owner]

PostsInv == PostsTypeOK /\ ProofsFollowIndex

-----------------------------------------------------------------------------
\* The absent nullifier is not one.
LEMMA NoNullifierIsNone == NoNullifier \notin Nullifier
  BY HumanityAssumption, PartiesAssumption DEF NoNullifier, Nullifier

\* The registry starts consistent.
LEMMA RegistryInitInv == RegistryInit => RegistryInv
  BY NoNullifierIsNone, HumanityAssumption, PartiesAssumption
  DEF RegistryInit, RegistryInv, RegistryTypeOK, NullifiersKept

\* record keeps the two maps consistent for a nullifier of the campaign.
LEMMA RecordKeeps ==
    ASSUME RegistryInv, NEW c \in CampaignId, NEW w \in Wallet,
           NEW n \in Nullifier, n.campaign = c, Record(c, n, w),
           UNCHANGED <<relayer, issuerKey>>
    PROVE  RegistryInv'
  <1> USE DEF RegistryInv, RegistryTypeOK, NullifiersKept, Record
  <1>1. RegistryTypeOK'
    OBVIOUS
  <1>2. \A d \in CampaignId, x \in Wallet :
          nullifierOf'[d][x] # NoNullifier => walletOf'[d][nullifierOf'[d][x]] = x
    <2> SUFFICES ASSUME NEW d \in CampaignId, NEW x \in Wallet,
                        nullifierOf'[d][x] # NoNullifier
                 PROVE  walletOf'[d][nullifierOf'[d][x]] = x
      OBVIOUS
    <2>1. CASE d = c /\ x = w
      BY <2>1
    <2>2. CASE ~(d = c /\ x = w)
      <3>1. nullifierOf'[d][x] = nullifierOf[d][x]
        BY <2>2
      <3>2. walletOf[d][nullifierOf[d][x]] = x /\ x # Nobody
        BY <3>1, PartiesAssumption
      <3>3. nullifierOf[d][x] \in Nullifier
        BY <3>1
      <3>4. ~(d = c /\ nullifierOf[d][x] = n)
        BY <3>2
      <3> QED
        BY <3>1, <3>2, <3>3, <3>4
    <2> QED
      BY <2>1, <2>2
  <1>3. \A d \in CampaignId, m \in Nullifier :
          walletOf'[d][m] # Nobody => m.campaign = d
    OBVIOUS
  <1> QED
    BY <1>1, <1>2, <1>3

\* Every operation of the registry keeps it consistent.
LEMMA RegistryStepKeeps == RegistryInv /\ [RegistryNext]_registry => RegistryInv'
  <1> SUFFICES ASSUME RegistryInv, [RegistryNext]_registry
               PROVE  RegistryInv'
    OBVIOUS
  <1>1. ASSUME NEW r \in Relayer, NEW c \in CampaignId, NEW w \in Wallet,
               Register(r, c, w)
        PROVE  RegistryInv'
    <2>1. DemoNullifier(c, w) \in Nullifier /\ DemoNullifier(c, w).campaign = c
      BY DEF DemoNullifier, Nullifier
    <2> QED
      BY <1>1, <2>1, RecordKeeps DEF Register
  <1>2. ASSUME NEW p \in AadhaarProof, NEW c \in CampaignId, NEW w \in Wallet,
               RegisterZk(p, c, w)
        PROVE  RegistryInv'
    <2>1. ProofNullifier(p) \in Nullifier /\ ProofNullifier(p).campaign = c
      BY <1>2 DEF ProofNullifier, Nullifier, AadhaarProof, RegisterZk, Bound
    <2> QED
      BY <1>2, <2>1, RecordKeeps DEF RegisterZk
  <1>3. ASSUME NEW c \in CampaignId, NEW w \in Wallet, Revoke(c, w)
        PROVE  RegistryInv'
    BY <1>3 DEF Revoke, RegistryInv, RegistryTypeOK, NullifiersKept
  <1>4. ASSUME NEW r \in Relayer, SetRelayer(r)
        PROVE  RegistryInv'
    BY <1>4 DEF SetRelayer, RegistryInv, RegistryTypeOK, NullifiersKept
  <1>5. ASSUME NEW k \in IssuerKey, SetAadhaarConfig(k)
        PROVE  RegistryInv'
    BY <1>5 DEF SetAadhaarConfig, RegistryInv, RegistryTypeOK, NullifiersKept
  <1>6. CASE UNCHANGED registry
    BY <1>6 DEF registry, RegistryInv, RegistryTypeOK, NullifiersKept
  <1> QED
    BY <1>1, <1>2, <1>3, <1>4, <1>5, <1>6 DEF RegistryNext

\* The steps of the contract are steps of the registry or leave it alone.
LEMMA StepsOfRegistry == [Next]_cliprailVars => [RegistryNext]_registry
  BY DEF Next, cliprailVars, Tick, Create, Join, RegisterClip, SubmitProof

\* In every reachable state of the contract the registry is consistent.
THEOREM RegistryInvariance == Spec => []RegistryInv
  <1>1. Init => RegistryInv
    BY RegistryInitInv DEF Init
  <1>2. RegistryInv /\ [Next]_cliprailVars => RegistryInv'
    BY StepsOfRegistry, RegistryStepKeeps
  <1> QED
    BY <1>1, <1>2, PTL DEF Spec

\* humanity: a person never stands behind two wallets of one campaign.
THEOREM PeopleHaveOneWallet == Spec => []OnePersonOneWallet
  <1>1. RegistryInv => OnePersonOneWallet
    <2> SUFFICES ASSUME RegistryInv, NEW c \in CampaignId, NEW p \in Person,
                        NEW w \in WalletsEver(c, p) \cup WalletsNow(c, p)
                 PROVE  w = walletOf[c][[of |-> p, campaign |-> c]]
      BY DEF OnePersonOneWallet
    <2>1. CASE w \in WalletsEver(c, p)
      <3>1. PICK n \in Nullifier : n.of = p /\ walletOf[c][n] = w /\ w # Nobody
        BY <2>1 DEF WalletsEver
      <3>2. n = [of |-> p, campaign |-> c]
        BY <3>1 DEF RegistryInv, NullifiersKept, Nullifier
      <3> QED
        BY <3>1, <3>2
    <2>2. CASE w \in WalletsNow(c, p)
      <3>1. w \in Wallet /\ nullifierOf[c][w].of = p
        BY <2>2 DEF WalletsNow
      <3>2. nullifierOf[c][w] # NoNullifier
        BY <3>1, HumanityAssumption DEF NoNullifier
      <3>3. nullifierOf[c][w] \in Nullifier
        BY <3>1, <3>2 DEF RegistryInv, RegistryTypeOK
      <3>4. walletOf[c][nullifierOf[c][w]] = w /\ w # Nobody
        BY <3>1, <3>2, PartiesAssumption DEF RegistryInv, NullifiersKept
      <3>5. nullifierOf[c][w] = [of |-> p, campaign |-> c]
        BY <3>1, <3>3, <3>4 DEF RegistryInv, NullifiersKept, Nullifier
      <3> QED
        BY <3>4, <3>5
    <2> QED
      BY <2>1, <2>2
  <1> QED
    BY <1>1, RegistryInvariance, PTL

\* No operation reassigns a nullifier that is in use.
LEMMA NullifierStays ==
    ASSUME RegistryInv, [RegistryNext]_registry, NEW c \in CampaignId,
           NEW n \in Nullifier, walletOf[c][n] # Nobody
    PROVE  walletOf'[c][n] = walletOf[c][n]
  BY DEF RegistryInv, RegistryTypeOK, RegistryNext, registry, Register,
         RegisterZk, Record, Revoke, SetRelayer, SetAadhaarConfig

\* humanity: revoking a wallet does not free the nullifier it was registered with.
THEOREM NullifiersUsedForGood == Spec => UsedForGood
  <1>1. RegistryInv /\ [Next]_cliprailVars
          => [\A c \in CampaignId, n \in Nullifier :
                walletOf[c][n] # Nobody => walletOf'[c][n] = walletOf[c][n]]_registry
    BY NullifierStays, StepsOfRegistry
  <1> QED
    BY <1>1, RegistryInvariance, PTL DEF Spec, UsedForGood

-----------------------------------------------------------------------------
\* Only register_clip and submit_proof touch the posts' part of the state.
LEMMA PostsStepKeeps == PostsInv /\ [Next]_cliprailVars => PostsInv'
  <1> SUFFICES ASSUME PostsInv, [Next]_cliprailVars
               PROVE  PostsInv'
    OBVIOUS
  <1> USE DEF PostsInv, PostsTypeOK, ProofsFollowIndex
  <1>1. CASE Tick
    BY <1>1, HumanityAssumption DEF Tick, posts
  <1>2. CASE UNCHANGED <<now, posts>>
    BY <1>2 DEF posts
  <1>3. ASSUME NEW c \in CampaignId, NEW w \in Wallet, Join(c, w)
        PROVE  PostsInv'
    BY <1>3 DEF Join
  <1>4. ASSUME NEW c \in CampaignId, NEW w \in Wallet, NEW p \in PostProof,
               RegisterClip(c, w, p)
        PROVE  PostsInv'
    <2>1. p.video \in Video /\ postIndex[p.video] = Unregistered
      BY <1>4 DEF RegisterClip, Indexed, PostProof
    <2>2. \A q \in usedProof : q.video \in Video /\ q.campaign \in CampaignId
      BY DEF PostProof
    <2>3. \A q \in usedProof : q.video # p.video
      <3> SUFFICES ASSUME NEW q \in usedProof, q.video = p.video
                   PROVE  FALSE
        OBVIOUS
      <3>1. Unregistered = [campaign |-> q.campaign, owner |-> q.owner]
        BY <2>1
      <3>2. Unregistered.campaign = q.campaign
        BY <3>1
      <3> QED
        BY <2>2, <3>2, PartiesAssumption DEF Unregistered
    <2>4. PostsTypeOK'
      BY <1>4, <2>1, <2>2 DEF RegisterClip, Consume
    <2>5. \A q \in usedProof : postIndex'[q.video] = postIndex[q.video]
      BY <1>4, <2>2, <2>3 DEF RegisterClip
    <2>6. p.campaign = c /\ p.owner = w /\ usedProof' = usedProof \cup {p}
      BY <1>4 DEF RegisterClip, Consume
    <2>7. postIndex'[p.video] = [campaign |-> c, owner |-> w]
      BY <1>4, <2>1 DEF RegisterClip
    <2> QED
      BY <2>4, <2>5, <2>6, <2>7
  <1>5. ASSUME NEW c \in CampaignId, NEW p \in PostProof, SubmitProof(c, p)
        PROVE  PostsInv'
    BY <1>5 DEF SubmitProof, Consume
  <1> QED
    BY <1>1, <1>2, <1>3, <1>4, <1>5 DEF Next, cliprailVars, Create

\* cliprail: no attested response about a post ever counts for two campaigns or
\* for two participants.
THEOREM PostsInOneCampaign == Spec => []OnePostOneCampaign
  <1>1. Init => PostsInv
    BY HumanityAssumption, SMTT(20)
    DEF Init, PostsInv, PostsTypeOK, ProofsFollowIndex, PostProof
  <1>2. PostsInv => OnePostOneCampaign
    <2> SUFFICES ASSUME PostsInv, NEW p \in usedProof, NEW q \in usedProof,
                        p.video = q.video
                 PROVE  p.campaign = q.campaign /\ p.owner = q.owner
      BY DEF OnePostOneCampaign
    <2>1. [campaign |-> p.campaign, owner |-> p.owner]
            = [campaign |-> q.campaign, owner |-> q.owner]
      BY DEF PostsInv, ProofsFollowIndex
    <2> QED
      BY <2>1
  <1> QED
    BY <1>1, <1>2, PostsStepKeeps, PTL DEF Spec

-----------------------------------------------------------------------------
(***************************************************************************)
(* The treasury, and who joined.                                           *)
(***************************************************************************)
Holdings == [Account -> [Token -> Nat]]

\* Moving what is there leaves natural balances.
LEMMA MovedHolds ==
    ASSUME NEW h \in Holdings, NEW a \in Account, NEW b \in Account,
           NEW t \in Token, NEW n \in Nat, n <= h[a][t]
    PROVE  Moved(h, a, b, t, n) \in Holdings
  <1> DEFINE g == [h EXCEPT ![a][t] = @ - n]
  <1>1. h[a] \in [Token -> Nat] /\ h[a][t] - n \in Nat
    BY DEF Holdings
  <1>2. g \in Holdings
    BY <1>1 DEF Holdings
  <1>3. g[b] \in [Token -> Nat] /\ g[b][t] + n \in Nat
    BY <1>2 DEF Holdings
  <1>4. Moved(h, a, b, t, n) = [g EXCEPT ![b][t] = @ + n]
    BY DEF Moved
  <1> HIDE DEF g
  <1> QED
    BY <1>2, <1>3, <1>4 DEF Holdings

\* A campaign that exists has an id.
LEMMA ExistingIds ==
    ASSUME TreasuryTypeOK, NEW c, Exists(c)
    PROVE  c \in CampaignId /\ c # count + 1
  BY PartiesAssumption DEF TreasuryTypeOK, Exists

\* escrow opens the next ledger with the whole budget.
LEMMA EscrowKeepsTypes ==
    ASSUME TreasuryTypeOK, NEW h \in Holdings, NEW o \in Offer, Escrow(h, o),
           router' = router
    PROVE  TreasuryTypeOK'
  <1>1. o.token \in Token /\ o.budget \in Nat
    BY TreasuryAssumption
  <1>2. Brand \in Account /\ Contract \in Account
    BY DEF Account
  <1>3. held' \in Holdings
    BY <1>1, <1>2, MovedHolds DEF Escrow
  <1>4. campaign' \in [CampaignId -> [params : Offer \cup {NoOffer}, balance : Nat,
                                      bonds : Nat, refunded : BOOLEAN]]
    BY <1>1 DEF Escrow, NoCampaign, TreasuryTypeOK
  <1>5. \A c \in 1 .. count' : campaign'[c].params \in Offer
    <2> SUFFICES ASSUME NEW c \in 1 .. count'
                 PROVE  campaign'[c].params \in Offer
      OBVIOUS
    <2>1. c \in CampaignId /\ count' = count + 1 /\ count' \in CampaignId
      BY PartiesAssumption DEF Escrow
    <2>2. CASE c = count + 1
      BY <2>1, <2>2 DEF Escrow, TreasuryTypeOK, NoCampaign
    <2>3. CASE c # count + 1
      <3>1. count \in Nat /\ c \in 1 .. count
        BY <2>1, <2>3, PartiesAssumption DEF TreasuryTypeOK
      <3>2. campaign'[c] = campaign[c]
        BY <2>1, <2>3 DEF Escrow, TreasuryTypeOK
      <3> QED
        BY <3>1, <3>2 DEF TreasuryTypeOK
    <2> QED
      BY <2>2, <2>3
  <1> QED
    BY <1>3, <1>4, <1>5 DEF Escrow, TreasuryTypeOK, Holdings

\* Every operation of the treasury keeps all balances natural numbers.
LEMMA TreasuryStepKeepsTypes ==
    TreasuryTypeOK /\ [TreasuryNext]_treasury => TreasuryTypeOK'
  <1> SUFFICES ASSUME TreasuryTypeOK, [TreasuryNext]_treasury
               PROVE  TreasuryTypeOK'
    OBVIOUS
  <1>1. held \in Holdings /\ Brand \in Account /\ Contract \in Account
          /\ Market \in Account /\ Wallet \subseteq Account
    BY DEF TreasuryTypeOK, Holdings, Account
  <1>2. Bond \in Nat /\ Payment \subseteq Nat /\ SwapAmount \subseteq Nat
    BY TreasuryAssumption
  <1>3. ASSUME NEW c \in CampaignId, Exists(c),
               NEW a \in Account, NEW b \in Account, NEW n \in Nat,
               n <= held[a][campaign[c].params.token],
               held' = Moved(held, a, b, campaign[c].params.token, n)
        PROVE  held' \in Holdings
    <2>1. campaign[c].params.token \in Token
      BY <1>3, TreasuryAssumption DEF TreasuryTypeOK, Exists
    <2> QED
      BY <1>1, <1>3, <2>1, MovedHolds
  <1>4. CASE SetRouter
    BY <1>4 DEF SetRouter, TreasuryTypeOK
  <1>5. ASSUME NEW o \in Offer, FundDirectly(o)
        PROVE  TreasuryTypeOK'
    BY <1>1, <1>5, EscrowKeepsTypes DEF FundDirectly
  <1>6. ASSUME NEW o \in Offer, NEW t \in Token,
               NEW m \in SwapAmount, NEW x \in SwapAmount, NEW y \in SwapAmount,
               NEW z \in SwapAmount, FundBySwap(o, t, m, x, y, z)
        PROVE  TreasuryTypeOK'
    <2> DEFINE h == Moved(held, Brand, Market, t, x)
    <2>1. h \in Holdings
      BY <1>1, <1>2, <1>6, MovedHolds DEF FundBySwap
    <2>2. o.token \in Token /\ o.token # t
      BY <1>6, TreasuryAssumption DEF FundBySwap
    <2>3. h[Market][o.token] = held[Market][o.token]
      BY <1>1, <2>2 DEF Moved, Holdings
    <2>4. Moved(h, Market, Brand, o.token, y) \in Holdings
      <3>1. y <= h[Market][o.token]
        BY <1>6, <2>3 DEF FundBySwap
      <3> HIDE DEF h
      <3> QED
        BY <1>1, <1>2, <2>1, <2>2, <3>1, MovedHolds
    <2>5. Escrow(Moved(h, Market, Brand, o.token, y), o) /\ router' = router
      BY <1>6 DEF FundBySwap
    <2> QED
      BY <2>4, <2>5, EscrowKeepsTypes
  <1>7. ASSUME NEW c \in CampaignId, NEW a \in Wallet, NEW n \in Payment,
               PayOut(c, a, n)
        PROVE  TreasuryTypeOK'
    <2>1. Clamped(c, n) \in Nat /\ campaign[c].balance - Clamped(c, n) \in Nat
      BY <1>2 DEF Clamped, TreasuryTypeOK
    <2>2. held' \in Holdings
      BY <1>1, <1>3, <1>7, <2>1 DEF PayOut
    <2> QED
      BY <1>7, <2>1, <2>2 DEF PayOut, TreasuryTypeOK, Holdings
  <1>8. ASSUME NEW c \in CampaignId, NEW a \in Wallet \cup {Brand}, PostBond(c, a)
        PROVE  TreasuryTypeOK'
    <2>1. held' \in Holdings
      BY <1>1, <1>2, <1>3, <1>8 DEF PostBond
    <2> QED
      BY <1>8, <2>1 DEF PostBond, TreasuryTypeOK, Holdings
  <1>9. ASSUME NEW c \in CampaignId, NEW a \in Wallet \cup {Brand}, ReturnBond(c, a)
        PROVE  TreasuryTypeOK'
    <2>1. held' \in Holdings
      BY <1>1, <1>2, <1>3, <1>9 DEF ReturnBond
    <2> QED
      BY <1>9, <2>1 DEF ReturnBond, TreasuryTypeOK, Holdings
  <1>10. ASSUME NEW c \in CampaignId, Refund(c)
         PROVE  TreasuryTypeOK'
    <2>1. RefundOf(c) \in Nat
      BY DEF RefundOf, TreasuryTypeOK
    <2>2. held' \in Holdings
      BY <1>1, <1>3, <1>10, <2>1 DEF Refund
    <2> QED
      BY <1>10, <2>2 DEF Refund, TreasuryTypeOK, Holdings
  <1>11. CASE UNCHANGED treasury
    BY <1>11 DEF treasury, TreasuryTypeOK
  <1> QED
    BY <1>4, <1>5, <1>6, <1>7, <1>8, <1>9, <1>10, <1>11
    DEF TreasuryNext, Spending, Funding

\* The initial balances are what everybody owns.
LEMMA TreasuryInitTypes == TreasuryInit => TreasuryTypeOK
  <1> SUFFICES ASSUME TreasuryInit
               PROVE  TreasuryTypeOK
    OBVIOUS
  <1>1. held \in [Account -> [Token -> Nat]]
    <2>1. \A a \in Account : [t \in Token |-> IF a = Contract THEN 0 ELSE Purse]
                              \in [Token -> Nat]
      BY TreasuryAssumption
    <2> QED
      BY <2>1 DEF TreasuryInit
  <1>2. NoCampaign \in [params : Offer \cup {NoOffer}, balance : Nat, bonds : Nat,
                       refunded : BOOLEAN]
    BY DEF NoCampaign
  <1>3. count = 0 /\ router \in BOOLEAN
    BY DEF TreasuryInit
  <1>5. \A c \in 1 .. count : campaign[c].params \in Offer
    BY <1>3
  <1>4. campaign \in [CampaignId -> [params : Offer \cup {NoOffer}, balance : Nat,
                                     bonds : Nat, refunded : BOOLEAN]]
    BY <1>2 DEF TreasuryInit
  <1> QED
    BY <1>1, <1>3, <1>4, <1>5 DEF TreasuryTypeOK

\* The steps of the contract are steps of the treasury or leave it alone.
LEMMA StepsOfTreasury == [Next]_cliprailVars => [TreasuryNext]_treasury
  BY DEF Next, cliprailVars, Tick, Create, Join, RegisterClip, SubmitProof,
         TreasuryNext

\* cliprail: no campaign's ledger, no count of bonds and nobody's balance ever
\* goes below zero, whatever amounts are asked of pay_out and whatever a router
\* does.
THEOREM LedgersStayNatural == Spec => []TreasuryTypeOK
  <1>1. Init => TreasuryTypeOK
    BY TreasuryInitTypes DEF Init
  <1>2. TreasuryTypeOK /\ [Next]_cliprailVars => TreasuryTypeOK'
    BY StepsOfTreasury, TreasuryStepKeepsTypes
  <1> QED
    BY <1>1, <1>2, PTL DEF Spec

\* The terms of a campaign never change.
LEMMA TermsKept ==
    ASSUME TreasuryTypeOK, [TreasuryNext]_treasury, NEW c \in 1 .. count
    PROVE  campaign'[c].params = campaign[c].params
  <1>1. c \in CampaignId /\ c # count + 1
    BY ExistingIds DEF Exists
  <1> USE DEF TreasuryTypeOK
  <1>2. ASSUME NEW h, NEW o \in Offer, Escrow(h, o)
        PROVE  campaign'[c].params = campaign[c].params
    BY <1>1, <1>2 DEF Escrow
  <1>3. ASSUME NEW o \in Offer, Funding(o)
        PROVE  campaign'[c].params = campaign[c].params
    BY <1>2, <1>3 DEF Funding, FundDirectly, FundBySwap
  <1>4. ASSUME NEW d \in CampaignId, NEW a, NEW n, PayOut(d, a, n)
        PROVE  campaign'[c].params = campaign[c].params
    BY <1>1, <1>4 DEF PayOut
  <1>5. ASSUME NEW d \in CampaignId, NEW a, PostBond(d, a) \/ ReturnBond(d, a)
        PROVE  campaign'[c].params = campaign[c].params
    BY <1>1, <1>5 DEF PostBond, ReturnBond
  <1>6. ASSUME NEW d \in CampaignId, Refund(d)
        PROVE  campaign'[c].params = campaign[c].params
    BY <1>1, <1>6 DEF Refund
  <1>7. CASE SetRouter \/ UNCHANGED treasury
    BY <1>7 DEF SetRouter, treasury
  <1> QED
    BY <1>3, <1>4, <1>5, <1>6, <1>7 DEF TreasuryNext, Spending

\* Nobody has joined a campaign that does not exist yet.
JoinedExist == \A c \in CampaignId : ~Exists(c) => joined[c] = {}

PeopleInv ==
    /\ RegistryInv /\ TreasuryTypeOK /\ PostsTypeOK
    /\ JoinedExist
    /\ ParticipantsArePeople

LEMMA PeopleStepKeeps ==
    ASSUME PeopleInv, [Next]_cliprailVars,
           RegistryInv', TreasuryTypeOK', PostsTypeOK'
    PROVE  JoinedExist' /\ ParticipantsArePeople'
  <1> USE DEF PeopleInv
  <1>1. count \in Nat /\ count' \in Nat
    BY PartiesAssumption DEF TreasuryTypeOK
  <1>2. \A c \in 1 .. count : campaign'[c].params = campaign[c].params
    BY TermsKept, StepsOfTreasury
  <1>3. \A c \in CampaignId, n \in Nullifier :
          walletOf[c][n] # Nobody => walletOf'[c][n] = walletOf[c][n]
    BY StepsOfRegistry, NullifierStays
  <1>4. count' = count \/ (count' = count + 1 /\ joined' = joined)
    <2>1. CASE \E o \in Offer : Create(o)
      <3>1. PICK o \in Offer : Create(o)
        BY <2>1
      <3>2. count' = count + 1
        BY <3>1 DEF Create, Funding, FundDirectly, FundBySwap, Escrow
      <3> QED
        BY <3>1, <3>2 DEF Create, posts
    <2>2. CASE SetRouter \/ Spending
      BY <2>2 DEF SetRouter, Spending, PayOut, PostBond, ReturnBond, Refund
    <2>3. CASE UNCHANGED treasury
      BY <2>3 DEF treasury
    <2> QED
      BY <2>1, <2>2, <2>3
      DEF Next, cliprailVars, Tick, Join, RegisterClip, SubmitProof
  <1>5. \A c \in CampaignId : joined'[c] # joined[c] =>
          /\ Exists(c) /\ count' = count /\ UNCHANGED <<registry, treasury>>
          /\ \E w \in Wallet : /\ joined'[c] = joined[c] \cup {w}
                               /\ campaign[c].params.human => IsVerified(c, w)
    <2>1. CASE joined' = joined
      BY <2>1
    <2>2. ASSUME NEW d \in CampaignId, NEW w \in Wallet, Join(d, w)
          PROVE  \A c \in CampaignId : joined'[c] # joined[c] =>
            /\ Exists(c) /\ count' = count /\ UNCHANGED <<registry, treasury>>
            /\ \E x \in Wallet : /\ joined'[c] = joined[c] \cup {x}
                                 /\ campaign[c].params.human => IsVerified(c, x)
      <3>1. joined' = [joined EXCEPT ![d] = @ \cup {w}]
              /\ UNCHANGED <<registry, treasury>> /\ count' = count
        BY <2>2 DEF Join, treasury
      <3>2. \A c \in CampaignId : joined'[c] # joined[c] => c = d
        BY <3>1 DEF PostsTypeOK
      <3>3. joined'[d] = joined[d] \cup {w}
        BY <3>1 DEF PostsTypeOK
      <3>4. Exists(d) /\ (campaign[d].params.human => IsVerified(d, w))
        BY <2>2 DEF Join
      <3> QED
        BY <3>1, <3>2, <3>3, <3>4
    <2> QED
      BY <2>1, <2>2
      DEF Next, cliprailVars, posts, Create, Tick, RegisterClip, SubmitProof
  <1>6. JoinedExist'
    <2> SUFFICES ASSUME NEW c \in CampaignId, ~Exists(c)'
                 PROVE  joined'[c] = {}
      BY DEF JoinedExist
    <2>1. ~Exists(c)
      BY <1>1, <1>4 DEF Exists
    <2> QED
      BY <2>1, <1>5 DEF JoinedExist
  <1>7. ParticipantsArePeople'
    <2> SUFFICES ASSUME NEW c \in 1 .. count', campaign'[c].params.human,
                        NEW w \in joined'[c]
                 PROVE  \E n \in Nullifier : walletOf'[c][n] = w
      BY DEF ParticipantsArePeople
    <2>1. c \in CampaignId
      BY PartiesAssumption DEF TreasuryTypeOK
    <2>2. w \in Wallet /\ w # Nobody
      BY <2>1, PartiesAssumption DEF PostsTypeOK
    <2>3. CASE w \in joined[c]
      <3>1. c \in 1 .. count
        BY <2>1, <2>3 DEF JoinedExist, Exists
      <3>2. PICK n \in Nullifier : walletOf[c][n] = w
        BY <1>2, <2>3, <3>1 DEF ParticipantsArePeople
      <3> QED
        BY <1>3, <2>1, <2>2, <3>2
    <2>4. CASE w \notin joined[c]
      <3>1. IsVerified(c, w) /\ UNCHANGED <<registry, treasury>>
        BY <1>5, <2>1, <2>4 DEF treasury
      <3>2. nullifierOf[c][w] \in Nullifier /\ walletOf[c][nullifierOf[c][w]] = w
        BY <2>1, <2>2, <3>1
        DEF IsVerified, RegistryInv, RegistryTypeOK, NullifiersKept
      <3> QED
        BY <3>1, <3>2 DEF registry
    <2> QED
      BY <2>3, <2>4
  <1> QED
    BY <1>6, <1>7

\* cliprail with humanity: every participant of a campaign for humans has a
\* nullifier of that campaign that vouches for nobody else.
THEOREM ParticipantsVouchedFor == Spec => []ParticipantsArePeople
  <1>1. Init => JoinedExist /\ ParticipantsArePeople
    BY DEF Init, TreasuryInit, JoinedExist, ParticipantsArePeople
  <1>2. Init => PostsInv
    BY HumanityAssumption, SMTT(20)
    DEF Init, PostsInv, PostsTypeOK, ProofsFollowIndex, PostProof
  <1>3. PostsInv => PostsTypeOK
    BY DEF PostsInv
  <1>4. JoinedExist /\ ParticipantsArePeople
        /\ RegistryInv /\ TreasuryTypeOK /\ PostsTypeOK /\ [Next]_cliprailVars
        /\ RegistryInv' /\ TreasuryTypeOK' /\ PostsTypeOK'
          => JoinedExist' /\ ParticipantsArePeople'
    BY PeopleStepKeeps DEF PeopleInv
  <1> QED
    BY <1>1, <1>2, <1>3, <1>4, PostsStepKeeps, RegistryInvariance,
       LedgersStayNatural, PTL DEF Spec

-----------------------------------------------------------------------------
(***************************************************************************)
(* The contract's tokens and the campaigns' ledgers.                       *)
(***************************************************************************)
LEMMA AccountsApart ==
    Brand # Contract /\ Brand # Market /\ Contract # Market
      /\ Contract \notin Wallet /\ Brand \notin Wallet
  <1> DEFINE others == {Brand, Contract, Market} \ Wallet
  <1>1. \A a, b : IsFiniteSet({a, b}) /\ Cardinality({a, b}) <= 2
    <2> SUFFICES ASSUME NEW a, NEW b
                 PROVE  IsFiniteSet({a, b}) /\ Cardinality({a, b}) <= 2
      OBVIOUS
    <2>1. {a, b} = {a} \cup {b} /\ IsFiniteSet({a}) /\ Cardinality({a}) = 1
      BY FS_Singleton
    <2> QED
      BY <2>1, FS_AddElement
  <1>2. ASSUME NEW a, NEW b, others \subseteq {a, b}
        PROVE  FALSE
    <2> DEFINE two == {a, b}
    <2>1. IsFiniteSet(two) /\ Cardinality(two) <= 2 /\ others \subseteq two
      BY <1>1, <1>2
    <2>2. Cardinality(others) = 3
      BY TreasuryAssumption
    <2> HIDE DEF others, two
    <2>3. Cardinality(others) <= Cardinality(two) /\ Cardinality(two) \in Nat
      BY <2>1, FS_Subset, FS_CardinalityType
    <2> QED
      BY <2>1, <2>2, <2>3
  <1>3. CASE Brand = Contract \/ Brand = Market
    BY <1>2, <1>3
  <1>4. CASE Contract = Market
    BY <1>2, <1>4
  <1>5. CASE Contract \in Wallet
    BY <1>2, <1>5
  <1>6. CASE Brand \in Wallet
    BY <1>2, <1>6
  <1> HIDE DEF others
  <1> QED
    BY <1>3, <1>4, <1>5, <1>6

\* What moves between two accounts changes nothing else.
LEMMA MovedChanges ==
    ASSUME NEW h \in Holdings, NEW a \in Account, NEW b \in Account, a # b,
           NEW t \in Token, NEW n \in Nat
    PROVE  \A x \in Account, u \in Token :
             Moved(h, a, b, t, n)[x][u]
               = IF u = t /\ x = a THEN h[x][u] - n
                 ELSE IF u = t /\ x = b THEN h[x][u] + n
                 ELSE h[x][u]
  <1> DEFINE g == [h EXCEPT ![a][t] = @ - n]
  <1>1. \A x \in Account : h[x] \in [Token -> Nat]
    BY DEF Holdings
  <1>2. \A x \in Account, u \in Token :
          g[x][u] = IF u = t /\ x = a THEN h[x][u] - n ELSE h[x][u]
    BY <1>1 DEF Holdings
  <1>3. DOMAIN g = Account /\ \A x \in Account : DOMAIN g[x] = Token
    BY <1>1 DEF Holdings
  <1>4. Moved(h, a, b, t, n) = [g EXCEPT ![b][t] = @ + n]
    BY DEF Moved
  <1> HIDE DEF g
  <1>5. \A x \in Account, u \in Token :
          [g EXCEPT ![b][t] = @ + n][x][u]
            = IF u = t /\ x = b THEN g[x][u] + n ELSE g[x][u]
    BY <1>3
  <1> QED
    BY <1>2, <1>4, <1>5

\* The contract's share of a campaign, and the campaigns of a token.
LedgerOf == [c \in CampaignId |-> campaign[c].balance + Bond * campaign[c].bonds]
InToken(t) == {c \in 1 .. count : campaign[c].params.token = t}

Backed == \A t \in Token : held[Contract][t] = SumOver(LedgerOf, InToken(t))

LEMMA LedgersNatural ==
    ASSUME TreasuryTypeOK
    PROVE  Naturals(LedgerOf, CampaignId)
  <1> SUFFICES ASSUME NEW c \in CampaignId PROVE LedgerOf[c] \in Nat
    BY DEF Naturals
  <1>1. campaign[c].balance \in Nat /\ campaign[c].bonds \in Nat /\ Bond \in Nat
    BY TreasuryAssumption DEF TreasuryTypeOK
  <1> QED
    BY <1>1 DEF LedgerOf

LEMMA LedgersType ==
    ASSUME TreasuryTypeOK
    PROVE  /\ \A c \in CampaignId : LedgerOf[c] \in Nat
           /\ count \in Nat /\ 1 .. count \subseteq CampaignId
           /\ \A t : IsFiniteSet(InToken(t)) /\ Naturals(LedgerOf, InToken(t))
                     /\ InToken(t) \subseteq CampaignId
  <1>1. \A c \in CampaignId : LedgerOf[c] \in Nat
    BY LedgersNatural DEF Naturals
  <1>2. count \in Nat /\ 1 .. count \subseteq CampaignId
    BY PartiesAssumption DEF TreasuryTypeOK
  <1>3. ASSUME NEW t
        PROVE  IsFiniteSet(InToken(t)) /\ Naturals(LedgerOf, InToken(t))
               /\ InToken(t) \subseteq CampaignId
    <2>1. IsFiniteSet(1 .. count) /\ InToken(t) \in SUBSET (1 .. count)
      BY <1>2, FS_Interval DEF InToken
    <2>2. IsFiniteSet(InToken(t))
      BY <2>1, FS_Subset
    <2> QED
      BY <1>1, <1>2, <2>1, <2>2 DEF Naturals
  <1> QED
    BY <1>1, <1>2, <1>3

\* TLC's sum is that of module Sums.
LEMMA LedgersSum ==
    ASSUME TreasuryTypeOK, NEW t
    PROVE  MapThenSumSet(LAMBDA c : campaign[c].balance + Bond * campaign[c].bonds,
                         {c \in 1 .. count : campaign[c].params.token = t})
             = SumOver(LedgerOf, InToken(t))
  <1> DEFINE S == {c \in 1 .. count : campaign[c].params.token = t}
  <1>1. S \subseteq CampaignId /\ S = InToken(t)
    BY LedgersType DEF InToken
  <1>2. ASSUME NEW g
        PROVE  IsSum(g, LedgerOf, S) <=>
                 g = [s \in SUBSET S |->
                        IF s = {} THEN 0
                        ELSE (campaign[CHOOSE x \in s : TRUE].balance
                                + Bond * campaign[CHOOSE x \in s : TRUE].bonds)
                             + g[s \ {CHOOSE x \in s : TRUE}]]
    <2>1. \A s \in SUBSET S : s # {} =>
            LedgerOf[CHOOSE x \in s : TRUE]
              = campaign[CHOOSE x \in s : TRUE].balance
                  + Bond * campaign[CHOOSE x \in s : TRUE].bonds
      BY <1>1 DEF LedgerOf
    <2> HIDE DEF S
    <2> QED
      BY <2>1 DEF IsSum, Chosen
  <1>3. MapThenSumSet(LAMBDA c : campaign[c].balance + Bond * campaign[c].bonds, S)
          = SumOver(LedgerOf, S)
    <2> HIDE DEF S
    <2> QED
      BY <1>2, SumOverIs DEF MapThenSumSet, MapThenFoldSet
  <1> QED
    BY <1>1, <1>3

\* One ledger moves: the sums of its token move with it, those of others stay.
OnlyLedgerOf(c) ==
    /\ count' = count
    /\ campaign'[c].params = campaign[c].params
    /\ \A d \in CampaignId : d # c => campaign'[d] = campaign[d]

LEMMA OneLedgerMoves ==
    ASSUME TreasuryTypeOK, TreasuryTypeOK', NEW c, Exists(c), OnlyLedgerOf(c), NEW u
    PROVE  SumOver(LedgerOf', InToken(u)') =
             IF u = campaign[c].params.token
             THEN SumOver(LedgerOf, InToken(u)) - LedgerOf[c] + LedgerOf'[c]
             ELSE SumOver(LedgerOf, InToken(u))
  <1> DEFINE S == InToken(u)
             w == LedgerOf
             z == LedgerOf'
  <1>1. IsFiniteSet(S) /\ Naturals(w, S) /\ S \subseteq CampaignId /\ c \in CampaignId
    BY LedgersType DEF Exists
  <1>2. \A d \in CampaignId : z[d] \in Nat
    <2>1. TreasuryTypeOK' => (Naturals(LedgerOf, CampaignId))'
      BY LedgersNatural, PTL
    <2> QED
      BY <2>1 DEF Naturals
  <1>3. InToken(u)' = S
    <2>1. \A d \in 1 .. count : d \in CampaignId /\ campaign'[d].params = campaign[d].params
      BY LedgersType DEF OnlyLedgerOf
    <2> QED
      BY <2>1 DEF InToken, OnlyLedgerOf
  <1>4. \A d \in CampaignId : d # c => z[d] = w[d]
    BY DEF LedgerOf, OnlyLedgerOf
  <1>5. Naturals(z, S)
    BY <1>1, <1>2 DEF Naturals
  <1>6. c \in S <=> u = campaign[c].params.token
    BY DEF InToken, Exists
  <1> HIDE DEF S, w, z
  <1>7. CASE c \in S
    <2>1. \A d \in S : d # c => z[d] = w[d]
      BY <1>1, <1>4
    <2>2. SumOver(z, S) = SumOver(w, S) - w[c] + z[c]
      BY <1>1, <1>5, <1>7, <2>1, SumOneChanged
    <2> QED
      BY <1>3, <1>6, <1>7, <2>2 DEF w, z, S
  <1>8. CASE c \notin S
    <2>1. \A d \in S : w[d] = z[d]
      BY <1>1, <1>4, <1>8
    <2>2. SumOver(w, S) = SumOver(z, S)
      BY <1>1, <2>1, SumSame
    <2> QED
      BY <1>3, <1>6, <1>8, <2>2 DEF w, z, S
  <1> QED
    BY <1>7, <1>8

\* Tokens and one ledger move by the same amount, out of the contract or into it.
LEMMA MovesTogether ==
    ASSUME TreasuryTypeOK, TreasuryTypeOK', Backed,
           NEW c, Exists(c), OnlyLedgerOf(c),
           NEW a \in Account, a # Contract, NEW n \in Nat,
           \/ /\ held' = Moved(held, Contract, a, campaign[c].params.token, n)
              /\ LedgerOf'[c] = LedgerOf[c] - n
           \/ /\ held' = Moved(held, a, Contract, campaign[c].params.token, n)
              /\ LedgerOf'[c] = LedgerOf[c] + n
    PROVE  Backed'
  <1> DEFINE k == campaign[c].params.token
  <1>1. k \in Token /\ c \in CampaignId /\ Contract \in Account /\ held \in Holdings
    BY LedgersType, TreasuryAssumption DEF TreasuryTypeOK, Account, Holdings, Exists
  <1>2. ASSUME NEW u \in Token
        PROVE  held'[Contract][u] = SumOver(LedgerOf', InToken(u)')
    <2>1. /\ held[Contract][u] = SumOver(LedgerOf, InToken(u))
          /\ held[Contract][u] \in Nat /\ LedgerOf[c] \in Nat
      BY <1>1, LedgersType DEF Backed, Holdings
    <2>2. held'[Contract][u] = IF u = k THEN held[Contract][u] - LedgerOf[c] + LedgerOf'[c]
                               ELSE held[Contract][u]
      <3>1. CASE held' = Moved(held, Contract, a, k, n) /\ LedgerOf'[c] = LedgerOf[c] - n
        <4>1. held'[Contract][u] = IF u = k THEN held[Contract][u] - n ELSE held[Contract][u]
          BY <1>1, <3>1, MovedChanges
        <4> QED
          BY <2>1, <3>1, <4>1
      <3>2. CASE held' = Moved(held, a, Contract, k, n) /\ LedgerOf'[c] = LedgerOf[c] + n
        <4>1. held'[Contract][u] = IF u = k THEN held[Contract][u] + n ELSE held[Contract][u]
          BY <1>1, <3>2, MovedChanges
        <4> QED
          BY <2>1, <3>2, <4>1
      <3> QED
        BY <3>1, <3>2
    <2>3. SumOver(LedgerOf', InToken(u)') =
            IF u = k THEN SumOver(LedgerOf, InToken(u)) - LedgerOf[c] + LedgerOf'[c]
            ELSE SumOver(LedgerOf, InToken(u))
      BY OneLedgerMoves
    <2> QED
      BY <2>1, <2>2, <2>3
  <1> QED
    BY <1>2 DEF Backed

\* escrow: the new campaign's budget comes into the contract.
LEMMA EscrowBacks ==
    ASSUME TreasuryTypeOK, TreasuryTypeOK', Backed,
           NEW h \in Holdings, h[Contract] = held[Contract],
           NEW o \in Offer, Escrow(h, o)
    PROVE  Backed'
  <1> DEFINE c == count + 1
             z == LedgerOf'
  <1>1. /\ o.token \in Token /\ o.budget \in Nat
        /\ Contract \in Account /\ Brand \in Account /\ Brand # Contract
    BY TreasuryAssumption, AccountsApart DEF Account
  <1>2. count \in Nat /\ count' = c /\ c \in CampaignId /\ 1 .. count \subseteq CampaignId
    BY LedgersType DEF Escrow
  <1>3. /\ campaign'[c].params = o
        /\ campaign'[c].balance = o.budget /\ campaign'[c].bonds = 0
        /\ \A d \in 1 .. count : campaign'[d] = campaign[d]
    BY <1>2 DEF Escrow, NoCampaign, TreasuryTypeOK
  <1>4. z[c] = o.budget /\ \A d \in 1 .. count : z[d] = LedgerOf[d]
    <2>1. Bond \in Nat
      BY TreasuryAssumption
    <2> QED
      BY <1>1, <1>2, <1>3, <2>1 DEF LedgerOf
  <1>5. ASSUME NEW u \in Token
        PROVE  held'[Contract][u] = SumOver(LedgerOf', InToken(u)')
    <2> DEFINE S == InToken(u)
    <2>0. c \notin S /\ S \subseteq 1 .. count
      BY <1>2 DEF InToken
    <2>1. IsFiniteSet(S) /\ Naturals(LedgerOf, S) /\ c \notin S
      BY <2>0, LedgersType
    <2>6. held[Contract][u] = SumOver(LedgerOf, S)
      BY DEF Backed
    <2>2. held'[Contract][u] = IF u = o.token THEN held[Contract][u] + o.budget
                               ELSE held[Contract][u]
      BY <1>1, MovedChanges DEF Escrow
    <2>3. SumOver(z, S) = SumOver(LedgerOf, S) /\ Naturals(z, S)
      <3>1. \A d \in S : LedgerOf[d] = z[d]
        BY <1>4, <2>0
      <3> HIDE DEF z, S
      <3> QED
        BY <2>1, <3>1, SumSame DEF Naturals
    <2>4. InToken(u)' = IF u = o.token THEN S \cup {c} ELSE S
      <3>1. 1 .. count' = (1 .. count) \cup {c}
        BY <1>2
      <3> QED
        BY <1>2, <1>3, <3>1 DEF InToken
    <2>5. SumOver(z, S \cup {c}) = SumOver(z, S) + o.budget
      <3>1. Naturals(z, S \cup {c})
        BY <1>1, <1>4, <2>3 DEF Naturals
      <3> HIDE DEF z, S, c
      <3>2. SumOver(z, S \cup {c}) = SumOver(z, S) + z[c]
        BY <2>1, <3>1, SumAdd
      <3> QED
        BY <1>4, <3>2
    <2> HIDE DEF z, S, c
    <2> QED
      BY <2>2, <2>3, <2>4, <2>5, <2>6 DEF z
  <1> QED
    BY <1>5 DEF Backed

\* What the router takes and gives happens between the brand and the market.
LEMMA SwapMoves ==
    ASSUME TreasuryTypeOK, NEW o \in Offer, NEW t \in Token,
           NEW m \in SwapAmount, NEW x \in SwapAmount, NEW y \in SwapAmount,
           NEW z \in SwapAmount, FundBySwap(o, t, m, x, y, z)
    PROVE  \E h \in Holdings :
             /\ h[Contract] = held[Contract] /\ Escrow(h, o)
             /\ h[Brand][o.token] = held[Brand][o.token] + y
  <1> DEFINE g == Moved(held, Brand, Market, t, x)
             h == Moved(g, Market, Brand, o.token, y)
  <1>1. /\ held \in Holdings /\ Contract \in Account /\ Brand \in Account
        /\ Market \in Account /\ Brand # Contract /\ Brand # Market /\ Contract # Market
    BY AccountsApart DEF TreasuryTypeOK, Holdings, Account
  <1>2. o.token \in Token /\ t # o.token /\ x \in Nat /\ y \in Nat
    BY TreasuryAssumption DEF FundBySwap
  <1>3. x <= held[Brand][t] /\ y <= held[Market][o.token] /\ Escrow(h, o)
    BY DEF FundBySwap
  <1>4. g \in Holdings
    BY <1>1, <1>2, <1>3, MovedHolds
  <1>5. /\ g[Market][o.token] = held[Market][o.token]
        /\ g[Brand][o.token] = held[Brand][o.token]
        /\ \A u \in Token : g[Contract][u] = held[Contract][u]
    BY <1>1, <1>2, MovedChanges
  <1> HIDE DEF g
  <1>6. h \in Holdings
    BY <1>1, <1>2, <1>3, <1>4, <1>5, MovedHolds
  <1>7. /\ h[Brand][o.token] = g[Brand][o.token] + y
        /\ \A u \in Token : h[Contract][u] = g[Contract][u]
    BY <1>1, <1>2, <1>4, MovedChanges
  <1> HIDE DEF h
  <1>8. h[Contract] = held[Contract]
    <2>1. h[Contract] \in [Token -> Nat] /\ held[Contract] \in [Token -> Nat]
      BY <1>1, <1>6 DEF Holdings
    <2> QED
      BY <1>5, <1>7, <2>1
  <1> QED
    BY <1>3, <1>5, <1>6, <1>7, <1>8

LEMMA TreasuryStepBacks ==
    ASSUME TreasuryTypeOK, TreasuryTypeOK', Backed, [TreasuryNext]_treasury
    PROVE  Backed'
  <1>1. /\ held \in Holdings /\ Contract \notin Wallet \cup {Brand}
        /\ Contract \in Account /\ Brand \in Account /\ Market \in Account
        /\ Market # Contract /\ Wallet \subseteq Account
    BY AccountsApart DEF TreasuryTypeOK, Holdings, Account
  <1>2. Bond \in Nat /\ SwapAmount \subseteq Nat
    BY TreasuryAssumption
  <1>3. ASSUME NEW c \in CampaignId
        PROVE  /\ campaign[c].balance \in Nat /\ campaign[c].bonds \in Nat
               /\ LedgerOf[c] = campaign[c].balance + Bond * campaign[c].bonds
               /\ LedgerOf'[c] = campaign'[c].balance + Bond * campaign'[c].bonds
    BY <1>3 DEF TreasuryTypeOK, LedgerOf
  <1>4. CASE SetRouter \/ UNCHANGED treasury
    <2>1. count' = count /\ campaign' = campaign /\ held' = held
      BY <1>4 DEF SetRouter, treasury
    <2> QED
      BY <2>1 DEF Backed, LedgerOf, InToken
  <1>5. ASSUME NEW o \in Offer, FundDirectly(o)
        PROVE  Backed'
    BY <1>1, <1>5, EscrowBacks DEF FundDirectly
  <1>6. ASSUME NEW o \in Offer, NEW t \in Token,
               NEW m \in SwapAmount, NEW x \in SwapAmount, NEW y \in SwapAmount,
               NEW z \in SwapAmount, FundBySwap(o, t, m, x, y, z)
        PROVE  Backed'
    <2>1. PICK h \in Holdings : h[Contract] = held[Contract] /\ Escrow(h, o)
      BY <1>6, SwapMoves
    <2> QED
      BY <2>1, EscrowBacks
  <1>7. ASSUME NEW c \in CampaignId, NEW a \in Wallet, NEW n \in Payment,
               PayOut(c, a, n)
        PROVE  Backed'
    <2> DEFINE paid == Clamped(c, n)
    <2>1. paid \in Nat
      BY TreasuryAssumption DEF Clamped, TreasuryTypeOK
    <2>2. /\ OnlyLedgerOf(c) /\ Exists(c)
          /\ held' = Moved(held, Contract, a, campaign[c].params.token, paid)
          /\ campaign'[c].balance = campaign[c].balance - paid
          /\ campaign'[c].bonds = campaign[c].bonds
      BY <1>7 DEF PayOut, OnlyLedgerOf, TreasuryTypeOK
    <2> HIDE DEF paid
    <2>3. LedgerOf'[c] = LedgerOf[c] - paid
      BY <1>2, <1>3, <2>1, <2>2
    <2> QED
      BY <1>1, <2>1, <2>2, <2>3, MovesTogether
  <1>8. ASSUME NEW c \in CampaignId, NEW a \in Wallet \cup {Brand}, PostBond(c, a)
        PROVE  Backed'
    <2>1. /\ OnlyLedgerOf(c) /\ Exists(c)
          /\ held' = Moved(held, a, Contract, campaign[c].params.token, Bond)
          /\ campaign'[c].balance = campaign[c].balance
          /\ campaign'[c].bonds = campaign[c].bonds + 1
      BY <1>8 DEF PostBond, OnlyLedgerOf, TreasuryTypeOK
    <2>2. LedgerOf'[c] = LedgerOf[c] + Bond
      <3>1. Bond * (campaign[c].bonds + 1) = Bond * campaign[c].bonds + Bond
              /\ Bond * campaign[c].bonds \in Nat
        BY <1>2, <1>3
      <3> QED
        BY <1>2, <1>3, <2>1, <3>1
    <2>3. a \in Account /\ a # Contract
      BY <1>1
    <2> QED
      BY <1>2, <2>1, <2>2, <2>3, MovesTogether
  <1>9. ASSUME NEW c \in CampaignId, NEW a \in Wallet \cup {Brand}, ReturnBond(c, a)
        PROVE  Backed'
    <2>1. /\ OnlyLedgerOf(c) /\ Exists(c)
          /\ held' = Moved(held, Contract, a, campaign[c].params.token, Bond)
          /\ campaign'[c].balance = campaign[c].balance
          /\ campaign'[c].bonds = campaign[c].bonds - 1
      BY <1>9 DEF ReturnBond, OnlyLedgerOf, TreasuryTypeOK
    <2>2. LedgerOf'[c] = LedgerOf[c] - Bond
      BY <1>2, <1>3, <2>1
    <2>3. a \in Account /\ a # Contract
      BY <1>1
    <2> QED
      BY <1>2, <2>1, <2>2, <2>3, MovesTogether
  <1>10. ASSUME NEW c \in CampaignId, Refund(c)
         PROVE  Backed'
    <2>1. OnlyLedgerOf(c) /\ Exists(c)
          /\ held' = Moved(held, Contract, Brand, campaign[c].params.token, campaign[c].balance)
          /\ campaign'[c].balance = 0
          /\ campaign'[c].bonds = campaign[c].bonds
      BY <1>10 DEF Refund, RefundOf, OnlyLedgerOf, TreasuryTypeOK
    <2>2. LedgerOf'[c] = LedgerOf[c] - campaign[c].balance
      BY <1>2, <1>3, <2>1
    <2> QED
      BY <1>1, <1>3, <2>1, <2>2, MovesTogether
  <1> QED
    BY <1>4, <1>5, <1>6, <1>7, <1>8, <1>9, <1>10 DEF TreasuryNext, Spending, Funding

\* cliprail: of every token the contract holds exactly the balances and the bonds of
\* its campaigns in that token, whatever is paid, bonded, swapped or refunded, so no
\* campaign can be paid with another's money.
THEOREM LedgersBackedByTokens == Spec => []TokensBackCampaigns
  <1>1. Init => Backed
    <2> SUFFICES ASSUME TreasuryInit, NEW t \in Token
                 PROVE  held[Contract][t] = SumOver(LedgerOf, InToken(t))
      BY DEF Init, Backed
    <2>1. InToken(t) = {}
      BY DEF TreasuryInit, InToken
    <2>2. held[Contract][t] = 0
      BY DEF TreasuryInit, Account
    <2> QED
      BY <2>1, <2>2, SumEmpty
  <1>2. TreasuryTypeOK /\ TreasuryTypeOK' /\ Backed /\ [Next]_cliprailVars => Backed'
    BY StepsOfTreasury, TreasuryStepBacks
  <1>3. TreasuryTypeOK /\ Backed => TokensBackCampaigns
    BY LedgersSum DEF Backed, TokensBackCampaigns
  <1> QED
    BY <1>1, <1>2, <1>3, LedgersStayNatural, PTL DEF Spec

-----------------------------------------------------------------------------
\* A swap leaves the brand with the budget at least: what it got of the campaign's
\* token is delivered before the budget is taken.
LEMMA FundingLeaves ==
    ASSUME TreasuryTypeOK, [TreasuryNext]_treasury, count' # count,
           NEW t \in Token, NEW u \in Token, t # u,
           campaign'[count'].params.token = u, held'[Brand][t] < held[Brand][t]
    PROVE  held'[Brand][u] >= held[Brand][u]
  <1>1. held \in Holdings /\ \A a \in Account, k \in Token : held[a][k] \in Nat
    BY DEF TreasuryTypeOK, Holdings
  <1>2. /\ Contract \in Account /\ Brand \in Account /\ Market \in Account
        /\ Brand # Contract /\ Brand # Market /\ Contract # Market
    BY AccountsApart DEF Account
  <1>3. \A o \in Offer : o.token \in Token /\ o.budget \in Nat
    BY TreasuryAssumption
  <1>4. ASSUME NEW h, NEW o \in Offer, Escrow(h, o)
        PROVE  o.token = u
    BY <1>4 DEF Escrow, NoCampaign, TreasuryTypeOK
  <1>5. ASSUME NEW o \in Offer, FundDirectly(o)
        PROVE  FALSE
    <2>1. Escrow(held, o) /\ o.token = u
      BY <1>4, <1>5 DEF FundDirectly
    <2>2. held'[Brand][t] = held[Brand][t]
      BY <1>1, <1>2, <1>3, <2>1, MovedChanges DEF Escrow
    <2> QED
      BY <1>1, <1>2, <2>2
  <1>6. ASSUME NEW o \in Offer, NEW k \in Token,
               NEW m \in SwapAmount, NEW x \in SwapAmount, NEW y \in SwapAmount,
               NEW z \in SwapAmount, FundBySwap(o, k, m, x, y, z)
        PROVE  held'[Brand][u] >= held[Brand][u]
    <2>1. PICK h \in Holdings :
            /\ h[Contract] = held[Contract] /\ Escrow(h, o)
            /\ h[Brand][o.token] = held[Brand][o.token] + y
      BY <1>6, SwapMoves
    <2>2. o.token = u
      BY <1>4, <2>1
    <2>3. held'[Brand][u] = h[Brand][u] - o.budget
      BY <1>2, <1>3, <2>1, <2>2, MovedChanges DEF Escrow
    <2>4. y >= o.budget
      BY <1>6 DEF FundBySwap, Delivered
    <2> QED
      BY <1>1, <1>2, <1>3, <2>1, <2>2, <2>3, <2>4, TreasuryAssumption
  <1>7. CASE SetRouter \/ Spending \/ UNCHANGED treasury
    BY <1>7 DEF SetRouter, Spending, PayOut, PostBond, ReturnBond, Refund, treasury
  <1> QED
    BY <1>5, <1>6, <1>7 DEF TreasuryNext, Funding

\* cliprail, create_campaign_with_swap: whatever the router takes, gives or reports,
\* a brand that paid with another token has no less of the campaign's token than
\* before.
THEOREM SwapsDeliver == Spec => SwapFundsTheBudget
  <1>1. TreasuryTypeOK /\ [Next]_cliprailVars =>
          [\A t, u \in Token :
             (/\ count' # count /\ t # u
              /\ campaign'[count'].params.token = u
              /\ held'[Brand][t] < held[Brand][t])
             => held'[Brand][u] >= held[Brand][u]]_treasury
    BY StepsOfTreasury, FundingLeaves
  <1> QED
    BY <1>1, LedgersStayNatural, PTL DEF Spec, SwapFundsTheBudget

=============================================================================
