--------------------------- MODULE DeliveryProofs ---------------------------
(***************************************************************************)
(* Theorems about the ways of people's and scripts' calls to the contracts,*)
(* for any number of wallets, videos, jobs, burns and faults.              *)
(***************************************************************************)
EXTENDS Delivery, CliprailProofs, SequenceTheorems

-----------------------------------------------------------------------------
(***************************************************************************)
(* The types.  Calls are of six kinds; who sends a transaction may wait    *)
(* for its outcome.                                                        *)
(***************************************************************************)
Owner == Wallet \cup {Nobody}
Paper == [person : Person, campaign : {Home}, wallet : Wallet, key : IssuerKey, ts : Nat]
PostPaper == [video : Video, campaign : {Home}, owner : Owner, ts : Nat]

ZkCalls == [fn : {"register_zk"}, by : Wallet, arg : Paper]
JoinCalls == [fn : {"join"}, by : Wallet, arg : {Nobody}]
ClipCalls == [fn : {"register_clip"}, by : Wallet, arg : PostPaper]
CreateCalls == [fn : {"create_campaign"}, by : {Brand}, arg : Offer]
UserCalls == ZkCalls \cup JoinCalls \cup ClipCalls \cup CreateCalls

DemoCalls == [fn : {"register"}, by : Relayer, arg : Wallet]
KeeperCalls == [fn : {"submit_proof"}, by : Relayer, arg : {Nobody}]
MintCalls ==
    [fn : {"mint_and_forward"}, by : Relayer,
     arg : [burn : Nat, token : {USDC}, amount : {Amount}]]
Calls == UserCalls \cup DemoCalls \cup KeeperCalls \cup MintCalls

Asker == Request \cup User \cup {Nobody}
Tx == [call : Calls, asker : Asker]
Outcome == [from : Sender, asker : Asker, ok : BOOLEAN]

\* What a refused call, and a write or a run, may be told.
Reason ==
    {None, "NullifierUsed", "WalletRegistered", "AlreadyJoined", "NotHuman", "NotJoined",
     "VideoAlreadyRegistered", "CodeNotFound", "insufficient_balance", "NonceUsed",
     "TrustlineMissing"}
Answer == Reason \cup {"done", "failed", "unsure", "wallet_rejected"}
Verdict == Answer \cup {"ok", "resume", "error", "MISMATCH"}

ContractTypeOK ==
    /\ RegistryInv
    /\ issuerKey \in IssuerKey
    /\ TreasuryTypeOK
    /\ now \in Nat
    /\ joined \in [CampaignId -> SUBSET Wallet]
    /\ postIndex \in [Video -> [campaign : CampaignId, owner : Wallet]
                               \cup {Unregistered}]
    /\ minted \subseteq Nat
    /\ trusting \in BOOLEAN

NetworkTypeOK ==
    /\ seq \in [Sender -> Nat]
    /\ seen \in [Sender -> Nat]
    /\ pool \in [Sender -> Seq(Tx)]
    /\ closed \subseteq Outcome

RelayerTypeOK ==
    /\ asked \in [Request -> Verdict \cup {"queued", "polling"}]
    /\ queue \in Seq(Request)
    /\ sending \in [at : {"rest", "send", "again"}, base : Nat, bad : Int,
                    tries : Nat, first : Nat]
    /\ lastSeq \in Nat
    /\ sending.at # "rest" => queue # <<>>

ProverJob == [of : Wallet, kept : BOOLEAN, awaited : BOOLEAN]

ServiceTypeOK ==
    /\ entry \in [Wallet -> {"none", "job", "proof"}]
    /\ jobs \in Seq(ProverJob)
    /\ page \in [Video -> Owner]
    /\ saved \in [Video -> [owner : Owner, age : {"none", "young", "old"}]]
    /\ fetching \in [Video -> [at : {"rest", "asked", "read"}, owner : Owner]]

\* A write that is not at rest is for a call, and not told anything yet.
PressState ==
    [call : UserCalls \cup {NoCall}, at : {"rest", "proof", "build", "sign", "sent"},
     base : Nat, tries : Nat, told : Answer]
Sound(p) ==
    /\ p \in PressState
    /\ p.at # "rest" => p.call \in UserCalls /\ p.told = None

PressTypeOK ==
    /\ press \in [User -> PressState]
    /\ \A u \in User : Sound(press[u])

BridgeTypeOK ==
    /\ run \in [at : {"rest", "trustline", "burn", "receipt", "attestation", "mint",
                      "send", "minting"},
                burn : Nat, resumed : BOOLEAN, base : Nat, told : Verdict]
    /\ burns \in Seq([state : {"sent", "burnt", "reverted", "attested"},
                      known : BOOLEAN, printed : BOOLEAN, arrived : BOOLEAN])
    /\ savings \in Nat
    /\ bridged \in {0, Amount, DefaultAmount}
    /\ funding \in [at : {"rest", "writing"}, escrow : Nat, told : Verdict]

DeliveryTypeOK ==
    /\ ContractTypeOK
    /\ NetworkTypeOK
    /\ RelayerTypeOK
    /\ ServiceTypeOK
    /\ PressTypeOK
    /\ BridgeTypeOK

-----------------------------------------------------------------------------
(***************************************************************************)
(* The invariants.                                                         *)
(***************************************************************************)
\* With every attempt the relayer's number is at least one further; and as long
\* as none of its transactions was dropped, it is ahead of the account never.
Numbered ==
    /\ \A a \in Sender : seen[a] <= seq[a]
    /\ sending.at = "rest" => sending = NotSending
    /\ sending.tries <= BadSeqRetries
    /\ sending.at = "send" => sending.first + sending.tries <= sending.base
    /\ sending.at = "again" =>
         sending.bad \in Nat /\ sending.first + sending.tries <= sending.bad + 1
    /\ relayer \notin dropped =>
         /\ lastSeq <= Upcoming(relayer)
         /\ sending.at = "send" => sending.base <= Upcoming(relayer)
         /\ sending.at = "again" => sending.bad < Upcoming(relayer)

\* Who waits for a transaction of account a, and for which call.
Awaits(a, x) ==
    \/ a \in User /\ x = a /\ press[a].at = "sent"
    \/ a = relayer /\ x \in Request /\ asked[x] = "polling"
    \/ a = relayer /\ x = Brand /\ run.at = "minting"
AwaitedCall(a, x) ==
    IF a # relayer THEN press[a].call ELSE IF x = Brand THEN MintCall ELSE CallOf(x)

Effect(c) ==
    /\ c.fn = "register" => IsVerified(Home, c.arg)
    /\ c.fn = "mint_and_forward" => c.arg.burn \in minted
    /\ c \in UserCalls => TookEffect(c)

\* A transaction somebody asks about is the one its asker waits for, and its only
\* one; so is an outcome, and if it is good the call took effect.
Matched ==
    /\ \A a \in Sender : \A i \in DOMAIN pool[a] :
         LET tx == pool[a][i]
         IN  tx.asker # Nobody =>
               Awaits(a, tx.asker) /\ tx.call = AwaitedCall(a, tx.asker)
    /\ \A a \in Sender : \A i, j \in DOMAIN pool[a] :
         pool[a][i].asker = pool[a][j].asker /\ i # j => pool[a][i].asker = Nobody
    /\ \A o \in closed :
         /\ o.asker # Nobody
         /\ Awaits(o.from, o.asker)
         /\ \A c \in {AwaitedCall(o.from, o.asker)} : o.ok => Effect(c)

\* Requests in the queue are there once, and marked so.
Queued ==
    /\ \A i \in DOMAIN queue : asked[queue[i]] = "queued"
    /\ \A i, j \in DOMAIN queue : queue[i] = queue[j] => i = j

\* An awaited job is awaited by a press that waits for it, and its only one; a
\* kept one is the wallet's only one that is kept.
JobsOrdered ==
    /\ \A i \in DOMAIN jobs :
         /\ jobs[i].awaited => /\ press[jobs[i].of].at = "proof"
                               /\ press[jobs[i].of].call.fn = "register_zk"
         /\ jobs[i].kept => entry[jobs[i].of] = "job"
    /\ \A i, j \in DOMAIN jobs :
         jobs[i].of = jobs[j].of /\ i # j =>
           ~(jobs[i].awaited /\ jobs[j].awaited) /\ ~(jobs[i].kept /\ jobs[j].kept)

ToldTrue ==
    /\ \A u \in User : \A c \in {press[u].call} :
         press[u].told = "done" => c \in UserCalls /\ Effect(c)
    /\ \A w \in Wallet : asked[w] = "done" => IsVerified(Home, w)

VerdictInv == Matched /\ Queued /\ JobsOrdered /\ ToldTrue

Attested_(b) == b \in DOMAIN burns /\ burns[b].state = "attested"

\* Where a run of the bridge stands tells about its burn.
RunPlaced ==
    /\ run.at # "rest" => run.told = None
    /\ run.at \notin {"rest", "trustline"} => trusting
    /\ burns # <<>> => trusting
    /\ run.resumed => run.burn \in DOMAIN burns /\ run.at # "burn"
    /\ run.burn \in DOMAIN burns \cup {0}
    /\ run.at \in {"trustline", "burn"} /\ ~run.resumed => run.burn = 0
    /\ run.at \in {"receipt", "attestation"} => run.burn \in DOMAIN burns
    /\ run.at \in {"mint", "send", "minting"} => Attested_(run.burn)

\* Only what was attested is minted, or may be.
MintsAttested ==
    /\ \A b \in minted : Attested_(b)
    /\ \A a \in Sender : \A i \in DOMAIN pool[a] :
         pool[a][i].call.fn = "mint_and_forward" => Attested_(pool[a][i].call.arg.burn)

FundingWrites ==
    /\ router = FALSE
    /\ press[Brand].at # "rest" => funding.at = "writing"
    /\ funding.at = "writing" => funding.told = None
    /\ funding.told = "ok" => press[Brand].told = "done"

\* Every unit is on the other chain, on its way, with the brand or in escrow.
Books ==
    savings + Amount * Cardinality(Away) + held[Brand][USDC] + held[Contract][USDC]
      = Savings + OfHome(USDC)

RunTold ==
    /\ run.told = "ok" => run.burn \in minted
    /\ run.told = "error" /\ ~run.resumed =>
         run.burn = 0 \/ burns[run.burn].state = "reverted"

FundingInv == RunPlaced /\ MintsAttested /\ FundingWrites /\ Books /\ RunTold

-----------------------------------------------------------------------------
(***************************************************************************)
(* Who is who.                                                             *)
(***************************************************************************)
\* Nobody is nobody, the brand no wallet, and the relayer no user.
LEMMA Roles ==
    /\ Nobody \notin Sender /\ Nobody \notin Request
    /\ Brand \notin Wallet /\ Brand \notin Request
    /\ Relayer \cap User = {}
    /\ User \subseteq Sender /\ Relayer \subseteq Sender
    /\ Home \in CampaignId
  BY AccountsApart, PartiesAssumption, NetworkAssumption, RelayerAssumption,
     DeliveryAssumption
  DEF Sender, Request, User

-----------------------------------------------------------------------------
(***************************************************************************)
(* The contracts.                                                          *)
(***************************************************************************)
\* A call's function tells its kind.
LEMMA KindOfCall ==
    ASSUME NEW c \in Calls
    PROVE  /\ c.fn = "register" => c \in DemoCalls
           /\ c.fn = "register_zk" => c \in ZkCalls
           /\ c.fn = "join" => c \in JoinCalls
           /\ c.fn = "register_clip" => c \in ClipCalls
           /\ c.fn = "create_campaign" => c \in CreateCalls
           /\ c.fn = "mint_and_forward" => c \in MintCalls
           /\ c.fn = "submit_proof" => c \in KeeperCalls
  BY DEF Calls, UserCalls, DemoCalls, ZkCalls, JoinCalls, ClipCalls, CreateCalls,
         MintCalls, KeeperCalls

\* What a registration of either kind records.
LEMMA RegistersHome ==
    ASSUME ContractTypeOK, NEW c \in Calls, c.fn \in {"register", "register_zk"}, Apply(c)
    PROVE  /\ UNCHANGED <<now, treasury, posts, minted, trusting, relayer, issuerKey>>
           /\ \E n \in Nullifier, w \in Wallet :
                /\ n.campaign = Home
                /\ w = (IF c.fn = "register" THEN c.arg ELSE c.by)
                /\ Record(Home, n, w)
  <1>1. CASE c.fn = "register"
    <2>1. c.arg \in Wallet /\ Register(c.by, Home, c.arg)
          /\ UNCHANGED <<now, treasury, posts, minted, trusting>>
      BY <1>1, KindOfCall DEF Apply, DemoCalls
    <2>2. DemoNullifier(Home, c.arg) \in Nullifier
          /\ DemoNullifier(Home, c.arg).campaign = Home
      BY <2>1, Roles DEF DemoNullifier, Nullifier
    <2> QED
      BY <1>1, <2>1, <2>2 DEF Register
  <1>2. CASE c.fn = "register_zk"
    <2>1. c.by \in Wallet /\ c.arg \in Paper /\ RegisterZk(c.arg, Home, c.by)
          /\ UNCHANGED <<now, treasury, posts, minted, trusting>>
      BY <1>2, KindOfCall DEF Apply, ZkCalls
    <2>2. ProofNullifier(c.arg) \in Nullifier /\ ProofNullifier(c.arg).campaign = Home
      BY <2>1, Roles DEF ProofNullifier, Nullifier, Paper
    <2> QED
      BY <1>2, <2>1, <2>2 DEF RegisterZk
  <1> QED
    BY <1>1, <1>2

\* A mint changes one balance and the set of burns minted.
LEMMA MintTypes ==
    ASSUME ContractTypeOK, NEW c \in Calls, c.fn = "mint_and_forward", Apply(c)
    PROVE  ContractTypeOK'
  <1>1. c.arg.burn \in Nat /\ c.arg.token = USDC /\ c.arg.amount = Amount /\ Mint(c.arg)
    BY KindOfCall DEF MintCalls, Apply
  <1>2. minted' \subseteq Nat
    BY <1>1 DEF Mint, ContractTypeOK
  <1>3. held' \in [Account -> [Token -> Nat]]
    <2>1. held \in [Account -> [Token -> Nat]] /\ USDC \in Token /\ Brand \in Account
          /\ Amount \in Nat
      BY BridgeAssumption DEF ContractTypeOK, TreasuryTypeOK, Account
    <2>2. held' = [held EXCEPT ![Brand][USDC] = @ + Amount]
      BY <1>1 DEF Mint
    <2> QED
      BY <2>1, <2>2
  <1>4. TreasuryTypeOK'
    BY <1>1, <1>3 DEF Mint, ContractTypeOK, TreasuryTypeOK
  <1>5. RegistryInv'
    BY <1>1 DEF Mint, ContractTypeOK, RegistryInv, RegistryTypeOK, NullifiersKept, registry
  <1> QED
    BY <1>1, <1>2, <1>4, <1>5 DEF Mint, ContractTypeOK, posts, registry

\* Every call leaves the contracts in a state of their types.
LEMMA ApplyTypes ==
    ASSUME ContractTypeOK, NEW c \in Calls, Apply(c)
    PROVE  ContractTypeOK' /\ relayer' = relayer
  <1>1. CASE c.fn \in {"register", "register_zk"}
    <2>1. RegistryInv'
      BY <1>1, RegistersHome, RecordKeeps, Roles DEF ContractTypeOK
    <2>2. TreasuryTypeOK'
      BY <1>1, RegistersHome DEF ContractTypeOK, TreasuryTypeOK, treasury
    <2> QED
      BY <1>1, <2>1, <2>2, RegistersHome DEF ContractTypeOK, posts
  <1>2. CASE c.fn \in {"join", "register_clip", "create_campaign", "submit_proof"}
    <2>1. UNCHANGED <<now, registry, minted, trusting>>
      BY <1>2 DEF Apply, Join, RegisterClip, Create, contract, cliprailVars
    <2>2. RegistryInv' /\ issuerKey' = issuerKey /\ relayer' = relayer
      BY <2>1 DEF ContractTypeOK, RegistryInv, RegistryTypeOK, NullifiersKept, registry
    <2>3. [TreasuryNext]_treasury
      <3>1. CASE c.fn = "create_campaign"
        BY <3>1, KindOfCall DEF Apply, Create, TreasuryNext, CreateCalls
      <3> QED
        BY <1>2, <3>1 DEF Apply, Join, RegisterClip, contract, cliprailVars
    <2>4. TreasuryTypeOK'
      BY <2>3, TreasuryStepKeepsTypes DEF ContractTypeOK
    <2>5. joined' \in [CampaignId -> SUBSET Wallet]
      <3>1. CASE c.fn = "join"
        BY <3>1, KindOfCall DEF Apply, Join, JoinCalls, ContractTypeOK
      <3> QED
        BY <1>2, <3>1 DEF Apply, Create, RegisterClip, contract, cliprailVars, posts,
           ContractTypeOK
    <2>6. postIndex' \in [Video -> [campaign : CampaignId, owner : Wallet]
                                   \cup {Unregistered}]
      <3>1. CASE c.fn = "register_clip"
        BY <3>1, KindOfCall, Roles DEF Apply, RegisterClip, ClipCalls, ContractTypeOK
      <3> QED
        BY <1>2, <3>1 DEF Apply, Create, Join, contract, cliprailVars, posts, ContractTypeOK
    <2> QED
      BY <2>1, <2>2, <2>4, <2>5, <2>6 DEF ContractTypeOK
  <1>3. CASE c.fn = "mint_and_forward"
    BY <1>3, MintTypes DEF Apply, Mint, registry
  <1> QED
    BY <1>1, <1>2, <1>3 DEF Apply

\* A funded campaign is new, with its budget.
LEMMA CreateFunds ==
    ASSUME ContractTypeOK, NEW o \in Offer, Create(o)
    PROVE  /\ count' = count + 1 /\ count \in Nat
           /\ campaign'[count + 1].params = o /\ campaign'[count + 1].balance > 0
           /\ \A i \in 1 .. count : campaign'[i] = campaign[i]
           /\ UNCHANGED <<now, registry, posts>>
  <1>1. PICK h : Escrow(h, o)
    BY DEF Create, Funding, FundDirectly, FundBySwap
  <1>2. campaign' = [campaign EXCEPT ![count + 1] =
                       [NoCampaign EXCEPT !.params = o, !.balance = o.budget]]
        /\ count' = count + 1 /\ count + 1 \in CampaignId
    BY <1>1 DEF Escrow
  <1>3. count \in Nat /\ DOMAIN campaign = CampaignId
    BY PartiesAssumption DEF ContractTypeOK, TreasuryTypeOK
  <1>4. o.budget \in Nat \ {0}
    BY TreasuryAssumption
  <1>5. campaign'[count + 1] = [NoCampaign EXCEPT !.params = o, !.balance = o.budget]
    BY <1>2, <1>3
  <1>6. campaign'[count + 1].params = o /\ campaign'[count + 1].balance = o.budget
    BY <1>5 DEF NoCampaign
  <1>7. \A i \in 1 .. count : campaign'[i] = campaign[i]
    BY <1>2, <1>3, PartiesAssumption
  <1> QED
    BY <1>2, <1>3, <1>4, <1>6, <1>7 DEF Create

\* What a step that changes the contracts through calls keeps of them.
Grown ==
    /\ \A w \in Wallet : IsVerified(Home, w) => IsVerified(Home, w)'
    /\ joined[Home] \subseteq joined'[Home]
    /\ \A v \in Video : postIndex[v].owner # Nobody => postIndex'[v] = postIndex[v]
    /\ count \in Nat /\ count' \in Nat /\ count <= count'
    /\ \A i \in 1 .. count : campaign'[i] = campaign[i]
    /\ minted \subseteq minted'

\* Calls undo nothing.
LEMMA ApplyGrows ==
    ASSUME ContractTypeOK, NEW c \in Calls, Apply(c)
    PROVE  Grown
  <1>1. count \in Nat
    BY PartiesAssumption DEF ContractTypeOK, TreasuryTypeOK
  <1>2. CASE c.fn \in {"register", "register_zk"}
    <2>1. PICK n \in Nullifier, w \in Wallet : Record(Home, n, w)
      BY <1>2, RegistersHome
    <2>2. \A x \in Wallet : IsVerified(Home, x) => IsVerified(Home, x)'
      BY <2>1, NoNullifierIsNone, Roles
      DEF Record, IsVerified, ContractTypeOK, RegistryInv, RegistryTypeOK
    <2> QED
      BY <1>1, <1>2, <2>2, RegistersHome DEF Grown, posts, treasury
  <1>3. CASE c.fn = "join"
    BY <1>1, <1>3, Roles
    DEF Apply, Join, Grown, registry, treasury, IsVerified, ContractTypeOK
  <1>4. CASE c.fn = "register_clip"
    <2>1. c.arg.video \in Video /\ c.by \in Wallet
      BY <1>4, KindOfCall DEF ClipCalls, PostPaper
    <2>2. \A v \in Video : postIndex[v].owner # Nobody => postIndex'[v] = postIndex[v]
      BY <1>4, <2>1 DEF Apply, RegisterClip, Indexed, Unregistered, ContractTypeOK
    <2> QED
      BY <1>1, <1>4, <2>2 DEF Apply, RegisterClip, Grown, registry, treasury, IsVerified
  <1>5. CASE c.fn = "create_campaign"
    <2>1. c.arg \in Offer /\ Create(c.arg) /\ minted' = minted
      BY <1>5, KindOfCall DEF Apply, CreateCalls
    <2> QED
      BY <2>1, CreateFunds DEF Grown, registry, posts, IsVerified
  <1>6. CASE c.fn = "mint_and_forward"
    BY <1>1, <1>6 DEF Apply, Mint, Grown, registry, posts, IsVerified
  <1>7. CASE c.fn = "submit_proof"
    BY <1>1, <1>7 DEF Apply, Grown, contract, cliprailVars, registry, treasury, posts,
       IsVerified
  <1> QED
    BY <1>2, <1>3, <1>4, <1>5, <1>6, <1>7 DEF Apply

\* What a call did stays done.
LEMMA EffectStays ==
    ASSUME Grown, NEW d \in Calls, Effect(d)
    PROVE  Effect(d)'
  <1>1. d.fn = "register" => IsVerified(Home, d.arg)'
    BY KindOfCall DEF Grown, Effect, DemoCalls
  <1>2. d.fn = "mint_and_forward" => (d.arg.burn \in minted)'
    BY DEF Grown, Effect
  <1>3. d \in UserCalls => TookEffect(d)'
    <2>1. CASE d \in ZkCalls
      BY <2>1 DEF Grown, Effect, TookEffect, ZkCalls, UserCalls
    <2>2. CASE d \in JoinCalls
      BY <2>2 DEF Grown, Effect, TookEffect, JoinCalls, UserCalls
    <2>3. CASE d \in ClipCalls
      <3>1. d.by \in Wallet /\ d.fn = "register_clip" /\ d.arg.video \in Video
        BY <2>3 DEF ClipCalls, PostPaper
      <3>2. postIndex[d.arg.video].owner = d.by /\ d.by # Nobody
        BY <3>1, <2>3, PartiesAssumption DEF Effect, TookEffect, UserCalls
      <3> QED
        BY <3>1, <3>2 DEF Grown, TookEffect
    <2>4. CASE d \in CreateCalls
      <3>1. d.fn = "create_campaign"
        BY <2>4 DEF CreateCalls
      <3>2. PICK i \in 1 .. count : campaign[i].params = d.arg /\ campaign[i].balance > 0
        BY <3>1, <2>4 DEF Effect, TookEffect, UserCalls
      <3>3. i \in 1 .. count' /\ campaign'[i] = campaign[i]
        BY <3>2 DEF Grown
      <3> QED
        BY <3>1, <3>2, <3>3 DEF TookEffect
    <2> QED
      BY <2>1, <2>2, <2>3, <2>4 DEF UserCalls
  <1> QED
    BY <1>1, <1>2, <1>3 DEF Effect

\* A call that is applied takes effect.
LEMMA EffectTaken ==
    ASSUME ContractTypeOK, NEW c \in Calls, Apply(c)
    PROVE  Effect(c)'
  <1>1. CASE c \in DemoCalls \cup ZkCalls
    <2>1. c.fn \in {"register", "register_zk"}
      BY <1>1 DEF DemoCalls, ZkCalls
    <2>2. PICK n \in Nullifier, w \in Wallet :
            w = (IF c.fn = "register" THEN c.arg ELSE c.by) /\ Record(Home, n, w)
      BY <2>1, RegistersHome
    <2>3. IsVerified(Home, w)'
      BY <2>2, NoNullifierIsNone, Roles
      DEF Record, IsVerified, ContractTypeOK, RegistryInv, RegistryTypeOK
    <2>4. CASE c.fn = "register"
      <3>1. c \notin UserCalls
        BY <2>4 DEF UserCalls, ZkCalls, JoinCalls, ClipCalls, CreateCalls
      <3> QED
        BY <2>2, <2>3, <2>4, <3>1 DEF Effect, IsVerified
    <2>5. CASE c.fn = "register_zk"
      BY <2>2, <2>3, <2>5 DEF Effect, TookEffect, IsVerified
    <2> QED
      BY <2>1, <2>4, <2>5
  <1>2. CASE c \in JoinCalls
    BY <1>2, Roles DEF Effect, TookEffect, JoinCalls, Apply, Join, ContractTypeOK
  <1>3. CASE c \in ClipCalls
    <2>1. c.fn = "register_clip" /\ c.arg.video \in Video
      BY <1>3 DEF ClipCalls, PostPaper
    <2>2. postIndex'[c.arg.video].owner = c.by
      BY <2>1 DEF Apply, RegisterClip, ContractTypeOK
    <2> QED
      BY <2>1, <2>2 DEF Effect, TookEffect
  <1>4. CASE c \in CreateCalls
    <2>1. c.fn = "create_campaign" /\ c.arg \in Offer /\ Create(c.arg)
      BY <1>4 DEF CreateCalls, Apply
    <2>2. count + 1 \in 1 .. count' /\ campaign'[count + 1].params = c.arg
          /\ campaign'[count + 1].balance > 0
      BY <2>1, CreateFunds
    <2>3. TookEffect(c)'
      BY <2>1, <2>2 DEF TookEffect
    <2> QED
      BY <2>1, <2>3 DEF Effect
  <1>5. CASE c \in KeeperCalls \cup MintCalls
    <2>1. c.fn \in {"submit_proof", "mint_and_forward"} /\ c \notin UserCalls
      BY <1>5 DEF KeeperCalls, MintCalls, UserCalls, ZkCalls, JoinCalls, ClipCalls, CreateCalls
    <2>2. c.fn = "mint_and_forward" => c.arg.burn \in minted'
      BY DEF Apply, Mint
    <2> QED
      BY <2>1, <2>2 DEF Effect
  <1> QED
    BY <1>1, <1>2, <1>3, <1>4, <1>5 DEF Calls, UserCalls

-----------------------------------------------------------------------------
(***************************************************************************)
(* What the steps do to the transactions under way.                        *)
(***************************************************************************)
\* Entries are relabelled one by one.
LEMMA Relabelled ==
    ASSUME NEW S, NEW s \in Seq(S), NEW f, f \in [DOMAIN s -> S]
    PROVE  f \in Seq(S) /\ Len(f) = Len(s) /\ DOMAIN f = DOMAIN s
  <1>1. DOMAIN s = 1 .. Len(s) /\ Len(s) \in Nat
    BY LenProperties
  <1>2. f \in Seq(S)
    BY <1>1, SeqDef
  <1>3. DOMAIN f = 1 .. Len(f) /\ Len(f) \in Nat
    BY <1>2, LenProperties
  <1> QED
    BY <1>1, <1>2, <1>3

\* Every transaction is one of before, perhaps of nobody now, and every outcome is
\* one of before.
Thinned ==
    /\ pool' \in [Sender -> Seq(Tx)]
    /\ closed' \subseteq closed
    /\ \A a \in Sender :
         /\ DOMAIN pool'[a] \subseteq DOMAIN pool[a]
         /\ \A i \in DOMAIN pool'[a] :
              /\ pool'[a][i].call = pool[a][i].call
              /\ pool'[a][i].asker \in {pool[a][i].asker, Nobody}

\* As many transactions as before.
SameLengths == \A a \in Sender : Len(pool'[a]) = Len(pool[a])

Asks(a, x) ==
    (\E i \in DOMAIN pool[a] : pool[a][i].asker = x)
    \/ (\E o \in closed : o.from = a /\ o.asker = x)

LEMMA PoolUnchanged ==
    ASSUME NetworkTypeOK, UNCHANGED <<pool, closed>>
    PROVE  Thinned /\ SameLengths
  BY DEF NetworkTypeOK, Thinned, SameLengths

\* Forsake
LEMMA ForsakeThins ==
    ASSUME NetworkTypeOK, NEW a \in Sender, NEW x \in Asker \ {Nobody}, Forsake(a, x)
    PROVE  Thinned /\ SameLengths /\ ~Asks(a, x)'
  <1> DEFINE f == [i \in DOMAIN pool[a] |-> IF pool[a][i].asker = x
                     THEN [pool[a][i] EXCEPT !.asker = Nobody] ELSE pool[a][i]]
  <1>1. pool' = [pool EXCEPT ![a] = f] /\ closed' = closed \ Outcomes(a, x)
    BY DEF Forsake
  <1>2. pool[a] \in Seq(Tx) /\ \A i \in DOMAIN pool[a] : pool[a][i] \in Tx
    BY LenProperties DEF NetworkTypeOK
  <1>3. \A i \in DOMAIN pool[a] :
          f[i] \in Tx /\ f[i].call = pool[a][i].call
            /\ f[i].asker \in {pool[a][i].asker, Nobody} /\ f[i].asker # x
    BY <1>2 DEF Tx, Asker
  <1>4. f \in [DOMAIN pool[a] -> Tx]
    BY <1>3
  <1> HIDE DEF f
  <1>5. f \in Seq(Tx) /\ Len(f) = Len(pool[a]) /\ DOMAIN f = DOMAIN pool[a]
    BY <1>2, <1>4, Relabelled
  <1>6. pool' \in [Sender -> Seq(Tx)] /\ pool'[a] = f
        /\ \A b \in Sender : b # a => pool'[b] = pool[b]
    BY <1>1, <1>5 DEF NetworkTypeOK
  <1>7. Thinned
    BY <1>1, <1>3, <1>5, <1>6 DEF Thinned
  <1>8. SameLengths
    BY <1>5, <1>6 DEF SameLengths
  <1>9. ~Asks(a, x)'
    BY <1>1, <1>3, <1>5, <1>6 DEF Asks, Outcomes
  <1> QED
    BY <1>7, <1>8, <1>9

\* A process that forgets.
LEMMA ForgettingThins ==
    ASSUME NetworkTypeOK, relayer \in Sender, RelayerForgets, relayer' = relayer
    PROVE  Thinned /\ SameLengths /\ \A r \in Request : ~Asks(relayer, r)'
  <1> DEFINE a == relayer
             f == [i \in DOMAIN pool[a] |-> IF pool[a][i].asker \in Request
                     THEN [pool[a][i] EXCEPT !.asker = Nobody] ELSE pool[a][i]]
  <1>1. pool' = [pool EXCEPT ![a] = f]
        /\ closed' = {o \in closed : ~(o.from = a /\ o.asker \in Request)}
    BY DEF RelayerForgets
  <1>2. pool[a] \in Seq(Tx) /\ \A i \in DOMAIN pool[a] : pool[a][i] \in Tx
    BY LenProperties DEF NetworkTypeOK
  <1>3. \A i \in DOMAIN pool[a] :
          f[i] \in Tx /\ f[i].call = pool[a][i].call
            /\ f[i].asker \in {pool[a][i].asker, Nobody} /\ f[i].asker \notin Request
    BY <1>2, Roles DEF Tx, Asker
  <1>4. f \in [DOMAIN pool[a] -> Tx]
    BY <1>3
  <1> HIDE DEF f
  <1>5. f \in Seq(Tx) /\ Len(f) = Len(pool[a]) /\ DOMAIN f = DOMAIN pool[a]
    BY <1>2, <1>4, Relabelled
  <1>6. pool' \in [Sender -> Seq(Tx)] /\ pool'[a] = f
        /\ \A b \in Sender : b # a => pool'[b] = pool[b]
    BY <1>1, <1>5 DEF NetworkTypeOK
  <1>7. Thinned
    BY <1>1, <1>3, <1>5, <1>6 DEF Thinned
  <1>8. SameLengths
    BY <1>5, <1>6 DEF SameLengths
  <1>9. ASSUME NEW r \in Request PROVE ~(\E i \in DOMAIN pool'[a] : pool'[a][i].asker = r)
                                       /\ ~(\E o \in closed' : o.from = a /\ o.asker = r)
    BY <1>1, <1>3, <1>5, <1>6
  <1> QED
    BY <1>7, <1>8, <1>9 DEF Asks

\* One transaction more, at the end.
LEMMA SendsAdds ==
    ASSUME NetworkTypeOK, NEW a \in Sender, NEW c \in Calls, NEW x \in Asker, Sends(a, c, x)
    PROVE  /\ pool' \in [Sender -> Seq(Tx)]
           /\ \A b \in Sender : b # a => pool'[b] = pool[b]
           /\ Len(pool'[a]) = Len(pool[a]) + 1 /\ Len(pool[a]) \in Nat
           /\ DOMAIN pool'[a] = DOMAIN pool[a] \cup {Len(pool[a]) + 1}
           /\ Len(pool[a]) + 1 \notin DOMAIN pool[a]
           /\ \A i \in DOMAIN pool[a] : pool'[a][i] = pool[a][i]
           /\ pool'[a][Len(pool[a]) + 1] = [call |-> c, asker |-> x]
  <1> DEFINE tx == [call |-> c, asker |-> x]
  <1>1. tx \in Tx /\ pool[a] \in Seq(Tx)
    BY DEF Tx, NetworkTypeOK
  <1> HIDE DEF tx
  <1>2. Append(pool[a], tx) \in Seq(Tx)
    BY <1>1
  <1>3. pool' = [pool EXCEPT ![a] = Append(pool[a], tx)]
    BY DEF Sends, tx
  <1>4. pool' \in [Sender -> Seq(Tx)] /\ pool'[a] = Append(pool[a], tx)
        /\ \A b \in Sender : b # a => pool'[b] = pool[b]
    BY <1>2, <1>3 DEF NetworkTypeOK
  <1>5. Len(pool[a]) \in Nat /\ DOMAIN pool[a] = 1 .. Len(pool[a])
    BY <1>1, LenProperties
  <1>6. Len(pool'[a]) = Len(pool[a]) + 1 /\ DOMAIN pool'[a] = 1 .. Len(pool[a]) + 1
    BY <1>1, <1>2, <1>4, LenProperties
  <1>7. /\ \A i \in 1 .. Len(pool[a]) : pool'[a][i] = pool[a][i]
        /\ pool'[a][Len(pool[a]) + 1] = tx
    BY <1>1, <1>4
  <1> QED
    BY <1>4, <1>5, <1>6, <1>7 DEF tx

\* The network takes the first.
LEMMA LandTakes ==
    ASSUME NetworkTypeOK, NEW a \in Sender, Land(a)
    PROVE  /\ pool[a] # <<>> /\ 1 \in DOMAIN pool[a]
           /\ Head(pool[a]) = pool[a][1] /\ pool[a][1] \in Tx
           /\ pool' \in [Sender -> Seq(Tx)]
           /\ \A b \in Sender : b # a => pool'[b] = pool[b]
           /\ Len(pool'[a]) = Len(pool[a]) - 1 /\ Len(pool[a]) \in Nat
           /\ \A i \in DOMAIN pool'[a] : i + 1 \in DOMAIN pool[a] /\ i \in Nat
                                         /\ pool'[a][i] = pool[a][i + 1]
           /\ seq' \in [Sender -> Nat] /\ seq'[a] = seq[a] + 1
           /\ \A b \in Sender : b # a => seq'[b] = seq[b]
  <1>1. pool[a] \in Seq(Tx) /\ pool[a] # <<>> /\ pool' = [pool EXCEPT ![a] = Tail(pool[a])]
    BY DEF NetworkTypeOK, Land
  <1>2. /\ Tail(pool[a]) \in Seq(Tx)
        /\ Len(Tail(pool[a])) = Len(pool[a]) - 1
        /\ \A i \in 1 .. Len(Tail(pool[a])) : Tail(pool[a])[i] = pool[a][i + 1]
        /\ Head(pool[a]) = pool[a][1]
    BY <1>1, HeadTailProperties
  <1>3. Len(pool[a]) \in Nat \ {0} /\ DOMAIN pool[a] = 1 .. Len(pool[a])
        /\ DOMAIN Tail(pool[a]) = 1 .. Len(pool[a]) - 1
    BY <1>1, <1>2, LenProperties, EmptySeq
  <1>4. pool'[a] = Tail(pool[a]) /\ pool' \in [Sender -> Seq(Tx)]
        /\ \A b \in Sender : b # a => pool'[b] = pool[b]
    BY <1>1, <1>2 DEF NetworkTypeOK
  <1>5. pool[a][1] \in Tx
    BY <1>1, <1>3, ElementOfSeq
  <1>6. seq' \in [Sender -> Nat] /\ seq'[a] = seq[a] + 1
        /\ \A b \in Sender : b # a => seq'[b] = seq[b]
    BY DEF Land, NetworkTypeOK
  <1> QED
    BY <1>1, <1>2, <1>3, <1>4, <1>5, <1>6

\* The network drops some, from one on.
LEMMA DropThins ==
    ASSUME NetworkTypeOK, NEW a \in Sender, Drop(a)
    PROVE  Thinned /\ \A b \in Sender : b # a => pool'[b] = pool[b]
  <1>1. PICK i \in DOMAIN pool[a] : pool' = [pool EXCEPT ![a] = SubSeq(pool[a], 1, i - 1)]
    BY DEF Drop
  <1>2. pool[a] \in Seq(Tx) /\ Len(pool[a]) \in Nat /\ DOMAIN pool[a] = 1 .. Len(pool[a])
    BY LenProperties DEF NetworkTypeOK
  <1>3. \A j \in 1 .. i - 1 : pool[a][j] \in Tx
    BY <1>1, <1>2, ElementOfSeq
  <1>4. i - 1 \in Nat /\ i - 1 < Len(pool[a])
    BY <1>1, <1>2
  <1> DEFINE s == SubSeq(pool[a], 1, i - 1)
  <1>5. s \in Seq(Tx) /\ Len(s) = i - 1 /\ \A j \in 1 .. i - 1 : s[j] = pool[a][j]
    BY <1>3, <1>4, SubSeqProperties
  <1> HIDE DEF s
  <1>6. DOMAIN s = 1 .. i - 1
    BY <1>5, LenProperties
  <1>7. pool'[a] = s /\ pool' \in [Sender -> Seq(Tx)]
        /\ \A b \in Sender : b # a => pool'[b] = pool[b]
    BY <1>1, <1>5 DEF NetworkTypeOK, s
  <1>8. closed' = closed
    BY DEF Drop
  <1>9. \A j \in DOMAIN s : j \in DOMAIN pool[a] /\ s[j] = pool[a][j]
    BY <1>2, <1>4, <1>5, <1>6
  <1> QED
    BY <1>7, <1>8, <1>9 DEF Thinned

-----------------------------------------------------------------------------
(***************************************************************************)
(* Every step respects the types.                                          *)
(***************************************************************************)
LEMMA RefusalType == \A c : Refusal(c) \in Reason
  BY DEF Reason, Refusal, RecordRefusal, JoinRefusal, ClipRefusal, BudgetRefusal,
     MintRefusal, None

\* A step that leaves the contracts alone, but perhaps for the trustline.
LEMMA ContractFrame ==
    ASSUME ContractTypeOK, UNCHANGED <<cliprailVars, minted>>, trusting' \in BOOLEAN
    PROVE  ContractTypeOK' /\ relayer' = relayer
  <1>1. UNCHANGED <<now, relayer, issuerKey, walletOf, nullifierOf, router, count,
                    campaign, held, joined, postIndex, minted>>
    BY DEF cliprailVars, registry, treasury, posts
  <1>2. RegistryInv'
    BY <1>1 DEF ContractTypeOK, RegistryInv, RegistryTypeOK, NullifiersKept
  <1>3. TreasuryTypeOK'
    BY <1>1 DEF ContractTypeOK, TreasuryTypeOK
  <1> QED
    BY <1>1, <1>2, <1>3 DEF ContractTypeOK

LEMMA ContractsUntouched ==
    ASSUME ContractTypeOK, UNCHANGED contract
    PROVE  ContractTypeOK' /\ relayer' = relayer
  <1>1. trusting' \in BOOLEAN /\ UNCHANGED <<cliprailVars, minted>>
    BY DEF contract, ContractTypeOK
  <1> QED
    BY <1>1, ContractFrame

\* The rest of the network.
LEMMA NetworkFrame ==
    ASSUME NetworkTypeOK, UNCHANGED <<seq, seen>>, pool' \in [Sender -> Seq(Tx)],
           closed' \subseteq closed
    PROVE  NetworkTypeOK'
  BY DEF NetworkTypeOK

LEMMA NetworkTypes ==
    ASSUME DeliveryTypeOK, NetworkNext
    PROVE  ContractTypeOK' /\ NetworkTypeOK' /\ relayer' = relayer
  <1>1. ASSUME NEW a \in Sender, Land(a)
        PROVE  ContractTypeOK' /\ NetworkTypeOK' /\ relayer' = relayer
    <2> DEFINE tx == Head(pool[a])
               ok == Refusal(tx.call) = None
    <2>1. tx \in Tx
      BY <1>1, LandTakes DEF DeliveryTypeOK
    <2>2. tx.call \in Calls /\ tx.asker \in Asker
      BY <2>1 DEF Tx
    <2>3. ContractTypeOK' /\ relayer' = relayer
      <3>1. CASE ok
        BY <1>1, <2>2, <3>1, ApplyTypes DEF Land, DeliveryTypeOK
      <3>2. CASE ~ok
        BY <1>1, <3>2, ContractsUntouched DEF Land, DeliveryTypeOK
      <3> QED
        BY <3>1, <3>2
    <2>4. closed' \subseteq closed \cup {[from |-> a, asker |-> tx.asker, ok |-> ok]}
      BY <1>1 DEF Land
    <2>5. [from |-> a, asker |-> tx.asker, ok |-> ok] \in Outcome
      <3> HIDE DEF tx
      <3> QED
        BY <1>1, <2>2 DEF Outcome
    <2> HIDE DEF tx, ok
    <2>6. closed' \subseteq Outcome
      BY <2>4, <2>5 DEF DeliveryTypeOK, NetworkTypeOK
    <2>7. seen' = seen
      BY <1>1 DEF Land
    <2> QED
      BY <1>1, <2>3, <2>6, <2>7, LandTakes DEF DeliveryTypeOK, NetworkTypeOK
  <1>2. ASSUME NEW a \in Sender, Drop(a)
        PROVE  ContractTypeOK' /\ NetworkTypeOK' /\ relayer' = relayer
    <2>1. Thinned
      BY <1>2, DropThins DEF DeliveryTypeOK
    <2> QED
      BY <1>2, <2>1, ContractsUntouched, NetworkFrame DEF Drop, Thinned, DeliveryTypeOK
  <1>3. ASSUME NEW a \in Sender, CatchUp(a)
        PROVE  ContractTypeOK' /\ NetworkTypeOK' /\ relayer' = relayer
    BY <1>3, ContractsUntouched DEF CatchUp, DeliveryTypeOK, NetworkTypeOK
  <1> QED
    BY <1>1, <1>2, <1>3 DEF NetworkNext

-----------------------------------------------------------------------------
\* The relayer's calls.
LEMMA CallOfType ==
    ASSUME relayer \in Relayer, NEW r \in Request
    PROVE  CallOf(r) \in DemoCalls \cup KeeperCalls /\ CallOf(r) \in Calls
  BY DEF CallOf, Call, Calls, DemoCalls, KeeperCalls, Request

LEMMA LeavesTypes ==
    ASSUME RelayerTypeOK, sending.at = "send", NEW answer \in Verdict \cup {"queued",
           "polling"}, Leaves(answer),
           lastSeq' \in Nat
    PROVE  RelayerTypeOK' /\ Head(queue) \in Request
  <1>1. queue \in Seq(Request) /\ queue # <<>>
    BY DEF RelayerTypeOK
  <1>2. Head(queue) \in Request /\ Tail(queue) \in Seq(Request)
    BY <1>1, HeadTailProperties
  <1> QED
    BY <1>2 DEF Leaves, NotSending, RelayerTypeOK

LEMMA RelayerTypes ==
    ASSUME DeliveryTypeOK, RelayerNext
    PROVE  ContractTypeOK' /\ NetworkTypeOK' /\ RelayerTypeOK' /\ relayer' = relayer
  <1> USE DEF DeliveryTypeOK
  <1>1. UNCHANGED <<contract, seq, seen>>
    BY DEF RelayerNext, ReadSequence, PreparationFails, SendRelayed, BadSequence, NotSent,
           SendThrows, Polled, PollTimesOut, network
  <1>2. ContractTypeOK' /\ relayer' = relayer /\ relayer \in Relayer /\ relayer \in Sender
    BY <1>1, ContractsUntouched, Roles DEF ContractTypeOK, RegistryInv, RegistryTypeOK
  <1>3. CASE ReadSequence
    <2>1. NetworkTypeOK'
      BY <1>3 DEF ReadSequence, network, NetworkTypeOK
    <2>2. seen[relayer] \in Nat
      BY <1>2 DEF NetworkTypeOK
    <2>3. PICK base \in Nat, first \in Nat :
            sending' = [sending EXCEPT !.at = "send", !.base = base, !.first = first]
      <3> DEFINE known == IF seen[relayer] < lastSeq THEN lastSeq ELSE seen[relayer]
                 first == IF sending.at = "rest" THEN seen[relayer] ELSE sending.first
      <3>1. known \in Nat /\ sending.bad \in Int /\ first \in Nat
        BY <2>2 DEF RelayerTypeOK
      <3>2. StepsPast(known) \in Nat
        BY <3>1 DEF StepsPast
      <3>3. sending' = [sending EXCEPT !.at = "send", !.base = StepsPast(known),
                                       !.first = first]
        BY <1>3 DEF ReadSequence
      <3> QED
        BY <3>1, <3>2, <3>3
    <2>4. sending' \in [at : {"rest", "send", "again"}, base : Nat, bad : Int,
                        tries : Nat, first : Nat]
      BY <2>3 DEF RelayerTypeOK
    <2>5. RelayerTypeOK'
      BY <1>3, <2>4 DEF ReadSequence, RelayerTypeOK
    <2> QED
      BY <1>2, <2>1, <2>5
  <1>4. CASE PreparationFails \/ NotSent \/ BadSequence
    <2>1. NetworkTypeOK'
      BY <1>4 DEF PreparationFails, NotSent, BadSequence, network, NetworkTypeOK
    <2>2. RelayerTypeOK'
      <3>1. CASE PreparationFails
        <4>1. Refusal(CallOf(Head(queue))) \in Verdict
          BY RefusalType DEF Verdict, Answer
        <4> QED
          BY <3>1, <4>1, LeavesTypes DEF PreparationFails, RelayerTypeOK
      <3>2. CASE NotSent
        BY <3>2, LeavesTypes DEF NotSent, RelayerTypeOK, Verdict, Answer
      <3>3. CASE BadSequence
        <4>1. CASE Leaves("failed")
          BY <3>3, <4>1, LeavesTypes DEF BadSequence, Verdict, Answer
        <4>2. CASE ~Leaves("failed")
          <5>1. sending' = [sending EXCEPT !.at = "again", !.bad = sending.base,
                                           !.tries = sending.tries + 1]
                /\ UNCHANGED <<asked, queue>> /\ lastSeq' = 0
            BY <3>3, <4>2 DEF BadSequence
          <5>2. sending' \in [at : {"rest", "send", "again"}, base : Nat, bad : Int,
                              tries : Nat, first : Nat]
            <6>1. sending.base \in Int /\ sending.tries + 1 \in Nat
              BY DEF RelayerTypeOK
            <6>2. \A b \in Int, n \in Nat :
                    [sending EXCEPT !.at = "again", !.bad = b, !.tries = n] \in
                      [at : {"rest", "send", "again"}, base : Nat, bad : Int,
                       tries : Nat, first : Nat]
              BY DEF RelayerTypeOK
            <6> QED
              BY <5>1, <6>1, <6>2
          <5> QED
            BY <3>3, <5>1, <5>2 DEF BadSequence, RelayerTypeOK
        <4> QED
          BY <4>1, <4>2
      <3> QED
        BY <1>4, <3>1, <3>2, <3>3
    <2> QED
      BY <1>2, <2>1, <2>2
  <1>5. CASE SendRelayed \/ SendThrows
    <2>1. PICK answer \in Verdict \cup {"queued", "polling"} : Leaves(answer)
             /\ sending.at = "send" /\ lastSeq' \in Nat
      BY <1>5 DEF SendRelayed, SendThrows, RelayerTypeOK, Verdict, Answer
    <2>2. RelayerTypeOK' /\ Head(queue) \in Request
      BY <2>1, LeavesTypes
    <2>3. Head(queue) \in Asker /\ Nobody \in Asker /\ CallOf(Head(queue)) \in Calls
      BY <1>2, <2>2, CallOfType DEF Asker
    <2>4. pool' = pool \/ (\E x \in Asker : Sends(relayer, CallOf(Head(queue)), x))
      BY <1>5, <2>3 DEF SendRelayed, SendThrows
    <2>5. pool' \in [Sender -> Seq(Tx)]
      BY <1>2, <2>3, <2>4, SendsAdds DEF NetworkTypeOK
    <2>6. closed' = closed
      BY <1>5 DEF SendRelayed, SendThrows
    <2> QED
      BY <1>1, <1>2, <2>2, <2>5, <2>6, NetworkFrame
  <1>6. ASSUME NEW r \in Request, Polled(r) \/ PollTimesOut(r)
        PROVE  NetworkTypeOK' /\ RelayerTypeOK'
    <2>1. r \in Asker \ {Nobody} /\ Forsake(relayer, r)
      BY <1>6, Roles DEF Asker, Polled, PollTimesOut
    <2>2. Thinned
      BY <1>2, <2>1, ForsakeThins
    <2>3. asked' \in [Request -> Verdict \cup {"queued", "polling"}]
        /\ UNCHANGED <<queue, sending, lastSeq>>
      BY <1>6 DEF Polled, PollTimesOut, RelayerTypeOK, Verdict, Answer
    <2> QED
      BY <1>1, <2>2, <2>3, NetworkFrame DEF RelayerTypeOK, Thinned
  <1> QED
    BY <1>2, <1>3, <1>4, <1>5, <1>6 DEF RelayerNext

-----------------------------------------------------------------------------
\* One write moves on.
LEMMA PressMoves ==
    ASSUME PressTypeOK, NEW u \in User, NEW p, Sound(p), press' = [press EXCEPT ![u] = p]
    PROVE  PressTypeOK'
  BY DEF PressTypeOK, Sound

LEMMA NoPressSound == NoPress \in PressState /\ Sound(NoPress)
  BY DEF NoPress, PressState, Answer, Reason, Sound

LEMMA ToldSound ==
    ASSUME PressTypeOK, NEW u \in User, NEW v \in Answer
    PROVE  /\ Sound(Told(u, v)) /\ Told(u, v).call = press[u].call
           /\ Told(u, v).at = "rest" /\ Told(u, v).told = v
  BY DEF PressTypeOK, Told, PressState, Sound

LEMMA EndsTypes ==
    ASSUME PressTypeOK, NEW u \in User, NEW v \in Answer, Ends(u, v)
    PROVE  /\ PressTypeOK'
           /\ press'[u].call = press[u].call /\ press'[u].at = "rest" /\ press'[u].told = v
           /\ \A x \in User : x # u => press'[x] = press[x]
  <1>1. press' = [press EXCEPT ![u] = Told(u, v)]
    BY DEF Ends
  <1>2. PressTypeOK'
    BY <1>1, ToldSound, PressMoves
  <1> QED
    BY <1>1, <1>2, ToldSound DEF PressTypeOK

LEMMA GoesTypes ==
    ASSUME PressTypeOK, NEW u \in User, press[u].at # "rest",
           NEW place \in {"rest", "proof", "build", "sign", "sent"}, Goes(u, place)
    PROVE  /\ PressTypeOK'
           /\ press'[u].call = press[u].call /\ press'[u].at = place
           /\ press'[u].told = press[u].told
           /\ \A x \in User : x # u => press'[x] = press[x]
  <1> DEFINE p == [press[u] EXCEPT !.at = place]
  <1>1. Sound(p) /\ p.call = press[u].call /\ p.at = place /\ p.told = press[u].told
    BY DEF PressTypeOK, PressState, Sound
  <1>2. press' = [press EXCEPT ![u] = p]
    BY DEF Goes
  <1> HIDE DEF p
  <1>3. PressTypeOK'
    BY <1>1, <1>2, PressMoves
  <1> QED
    BY <1>1, <1>2, <1>3 DEF PressTypeOK

\* A failure starts the write again or ends it.
LEMMA FailsTypes ==
    ASSUME PressTypeOK, NEW u \in User, press[u].at # "rest", NEW reason, Fails(u, reason)
    PROVE  /\ PressTypeOK'
           /\ press'[u].call = press[u].call /\ press'[u].at \in {"rest", "build"}
           /\ press'[u].told \in {press[u].told, "failed"}
           /\ \A x \in User : x # u => press'[x] = press[x]
  <1> DEFINE again == [press[u] EXCEPT !.at = "build", !.base = 0,
                                       !.tries = press[u].tries + 1]
             p == IF Retryable(reason) /\ press[u].tries < Retries THEN again
                  ELSE Told(u, "failed")
  <1>1. Sound(again) /\ again.call = press[u].call /\ again.at = "build"
        /\ again.told = press[u].told
    <2>1. \A q \in PressState, n \in Nat :
            LET r == [q EXCEPT !.at = "build", !.base = 0, !.tries = n]
            IN  r \in PressState /\ r.call = q.call /\ r.at = "build" /\ r.told = q.told
      BY DEF PressState
    <2>2. press[u] \in PressState /\ press[u].tries + 1 \in Nat
          /\ press[u].call \in UserCalls /\ press[u].told = None
      BY DEF PressTypeOK, PressState, Sound
    <2> QED
      BY <2>1, <2>2 DEF Sound
  <1>2. "failed" \in Answer
    BY DEF Answer
  <1>3. press' = [press EXCEPT ![u] = p]
    <2>1. CASE Retryable(reason) /\ press[u].tries < Retries
      BY <2>1 DEF Fails
    <2>2. CASE ~(Retryable(reason) /\ press[u].tries < Retries)
      BY <2>2 DEF Fails
    <2> QED
      BY <2>1, <2>2
  <1> HIDE DEF again
  <1>4. Sound(p) /\ p.call = press[u].call /\ p.at \in {"rest", "build"}
        /\ p.told \in {press[u].told, "failed"}
    BY <1>1, <1>2, ToldSound
  <1> HIDE DEF p
  <1>5. PressTypeOK'
    BY <1>3, <1>4, PressMoves
  <1> QED
    BY <1>3, <1>4, <1>5 DEF PressTypeOK

-----------------------------------------------------------------------------
\* The prover's list of jobs: as many as before, for the same wallets.
SameJobs ==
    /\ jobs' \in Seq(ProverJob) /\ DOMAIN jobs' = DOMAIN jobs
    /\ \A i \in DOMAIN jobs : jobs'[i] \in ProverJob /\ jobs'[i].of = jobs[i].of

LEMMA JobsTyped ==
    ASSUME jobs \in Seq(ProverJob)
    PROVE  /\ DOMAIN jobs = 1 .. Len(jobs) /\ Len(jobs) \in Nat
           /\ \A i \in DOMAIN jobs : jobs[i] \in ProverJob
  BY LenProperties, ElementOfSeq

LEMMA JobsLeft ==
    ASSUME jobs \in Seq(ProverJob), NEW w \in Wallet, NoLongerAwaited(w)
    PROVE  /\ SameJobs
           /\ \A i \in DOMAIN jobs :
                /\ jobs'[i].kept = jobs[i].kept
                /\ jobs'[i].awaited => jobs[i].awaited /\ jobs[i].of # w
  <1> DEFINE f == [i \in DOMAIN jobs |->
                     IF jobs[i].of = w THEN [jobs[i] EXCEPT !.awaited = FALSE] ELSE jobs[i]]
  <1>1. jobs' = f
    BY DEF NoLongerAwaited
  <1>2. \A i \in DOMAIN jobs :
          /\ f[i] \in ProverJob /\ f[i].of = jobs[i].of /\ f[i].kept = jobs[i].kept
          /\ f[i].awaited => jobs[i].awaited /\ jobs[i].of # w
    BY JobsTyped DEF ProverJob
  <1>3. f \in [DOMAIN jobs -> ProverJob]
    BY <1>2
  <1> HIDE DEF f
  <1>4. f \in Seq(ProverJob) /\ DOMAIN f = DOMAIN jobs
    BY <1>3, Relabelled
  <1> QED
    BY <1>1, <1>2, <1>4 DEF SameJobs

LEMMA JobsExpire ==
    ASSUME jobs \in Seq(ProverJob), NEW w \in Wallet, Expires(w)
    PROVE  /\ SameJobs
           /\ \A i \in DOMAIN jobs :
                /\ jobs'[i].awaited = jobs[i].awaited
                /\ jobs'[i].kept => jobs[i].kept /\ jobs[i].of # w
  <1> DEFINE f == [i \in DOMAIN jobs |->
                     IF jobs[i].of = w THEN [jobs[i] EXCEPT !.kept = FALSE] ELSE jobs[i]]
  <1>1. jobs' = f
    BY DEF Expires
  <1>2. \A i \in DOMAIN jobs :
          /\ f[i] \in ProverJob /\ f[i].of = jobs[i].of /\ f[i].awaited = jobs[i].awaited
          /\ f[i].kept => jobs[i].kept /\ jobs[i].of # w
    BY JobsTyped DEF ProverJob
  <1>3. f \in [DOMAIN jobs -> ProverJob]
    BY <1>2
  <1> HIDE DEF f
  <1>4. f \in Seq(ProverJob) /\ DOMAIN f = DOMAIN jobs
    BY <1>3, Relabelled
  <1> QED
    BY <1>1, <1>2, <1>4 DEF SameJobs

\* A request that finds the wallet's job shares it.
LEMMA JobShared ==
    ASSUME jobs \in Seq(ProverJob), NEW w \in Wallet, Prove(w), entry[w] = "job"
    PROVE  /\ SameJobs /\ entry' = entry
           /\ \A i \in DOMAIN jobs :
                /\ jobs'[i].kept = jobs[i].kept
                /\ jobs'[i].awaited => jobs[i].awaited \/ (jobs[i].of = w /\ jobs[i].kept)
  <1> DEFINE f == [i \in DOMAIN jobs |->
                     IF jobs[i].of = w /\ jobs[i].kept
                     THEN [jobs[i] EXCEPT !.awaited = TRUE] ELSE jobs[i]]
  <1>1. jobs' = f /\ entry' = entry
    BY DEF Prove
  <1>2. \A i \in DOMAIN jobs :
          /\ f[i] \in ProverJob /\ f[i].of = jobs[i].of /\ f[i].kept = jobs[i].kept
          /\ f[i].awaited => jobs[i].awaited \/ (jobs[i].of = w /\ jobs[i].kept)
    BY JobsTyped DEF ProverJob
  <1>3. f \in [DOMAIN jobs -> ProverJob]
    BY <1>2
  <1> HIDE DEF f
  <1>4. f \in Seq(ProverJob) /\ DOMAIN f = DOMAIN jobs
    BY <1>3, Relabelled
  <1> QED
    BY <1>1, <1>2, <1>4 DEF SameJobs

\* A request that finds nothing adds one.
LEMMA JobAdded ==
    ASSUME jobs \in Seq(ProverJob), NEW w \in Wallet, Prove(w), entry[w] = "none"
    PROVE  /\ jobs' \in Seq(ProverJob)
           /\ DOMAIN jobs' = DOMAIN jobs \cup {Len(jobs) + 1}
           /\ Len(jobs) + 1 \notin DOMAIN jobs
           /\ \A i \in DOMAIN jobs : jobs'[i] = jobs[i]
           /\ jobs'[Len(jobs) + 1] = [of |-> w, kept |-> TRUE, awaited |-> TRUE]
           /\ entry' = [entry EXCEPT ![w] = "job"]
  <1> DEFINE j == [of |-> w, kept |-> TRUE, awaited |-> TRUE]
  <1>1. jobs' = Append(jobs, j) /\ entry' = [entry EXCEPT ![w] = "job"]
    BY DEF Prove
  <1>2. j \in ProverJob
    BY DEF ProverJob
  <1> HIDE DEF j
  <1>3. jobs' \in Seq(ProverJob) /\ Len(jobs') = Len(jobs) + 1
    BY <1>1, <1>2
  <1>4. \A i \in 1 .. Len(jobs) : jobs'[i] = jobs[i]
    BY <1>1, <1>2
  <1>5. jobs'[Len(jobs) + 1] = j
    BY <1>1, <1>2
  <1>6. DOMAIN jobs' = 1 .. Len(jobs) + 1
    BY <1>3, LenProperties
  <1> QED
    BY <1>1, <1>3, <1>4, <1>5, <1>6, JobsTyped DEF j

\* The first job ends.
LEMMA JobSettled ==
    ASSUME jobs \in Seq(ProverJob), NEW made \in BOOLEAN, Settles(made)
    PROVE  /\ 1 \in DOMAIN jobs /\ Head(jobs) = jobs[1] /\ jobs[1] \in ProverJob
           /\ jobs' \in Seq(ProverJob)
           /\ \A i \in DOMAIN jobs' : i \in Nat /\ i + 1 \in DOMAIN jobs /\ i + 1 # 1
                                      /\ jobs'[i] = jobs[i + 1]
  <1>1. jobs # <<>> /\ jobs' = Tail(jobs)
    BY DEF Settles
  <1>2. Len(jobs) \in Nat \ {0}
    BY <1>1, EmptySeq
  <1>3. Head(jobs) = jobs[1] /\ jobs' \in Seq(ProverJob) /\ Len(jobs') = Len(jobs) - 1
        /\ \A i \in 1 .. Len(jobs') : jobs'[i] = jobs[i + 1]
    BY <1>1, HeadTailProperties
  <1>4. DOMAIN jobs' = 1 .. Len(jobs')
    BY <1>3, LenProperties
  <1> QED
    BY <1>2, <1>3, <1>4, JobsTyped

-----------------------------------------------------------------------------
(***************************************************************************)
(* The writes of the client library.                                       *)
(***************************************************************************)
BaseInv == DeliveryTypeOK /\ JobsOrdered

\* No write that waits for a proof of identity does anything else.
ProofsAwaited ==
    \A w \in Wallet :
      press[w].at = "proof" /\ press[w].call.fn = "register_zk" =>
        press'[w].at = "proof" /\ press'[w].call.fn = "register_zk"

\* No write starts or stops to wait for its outcome, and none is told a success.
NobodySends ==
    \A u \in User :
      \/ press'[u] = press[u]
      \/ /\ press[u].at # "sent" /\ press'[u].at # "sent"
         /\ press'[u].told = "done" => press[u].told = "done" /\ press'[u].call = press[u].call

LEMMA JobsFrame ==
    ASSUME BaseInv, UNCHANGED proving, ProofsAwaited
    PROVE  JobsOrdered'
  <1>1. \A i \in DOMAIN jobs : jobs[i].of \in Wallet
    BY JobsTyped DEF BaseInv, DeliveryTypeOK, ServiceTypeOK, ProverJob
  <1>2. jobs' = jobs /\ entry' = entry
    BY DEF proving
  <1> QED
    BY <1>1, <1>2 DEF BaseInv, JobsOrdered, ProofsAwaited

LEMMA ServiceFrame ==
    ASSUME ServiceTypeOK, UNCHANGED <<proving, attesting>>
    PROVE  ServiceTypeOK'
  BY DEF ServiceTypeOK, proving, attesting

\* Only one wallet's write moves, and it did not wait for a proof of identity.
LEMMA OneMoves ==
    ASSUME BaseInv, NEW u \in User, \A x \in User : x # u => press'[x] = press[x],
           press[u].at # "proof"
    PROVE  ProofsAwaited
  BY DEF ProofsAwaited, User

\* The steps of runWrite that take no transaction of the network's.
LEMMA BuildMoves ==
    ASSUME BaseInv, NEW u \in User, Build(u)
    PROVE  PressTypeOK' /\ ProofsAwaited /\ NobodySends
  <1> USE DEF BaseInv, DeliveryTypeOK
  <1>1. press[u].at = "build"
    BY DEF Build
  <1>2. CASE Refusal(press[u].call) # None /\ Ends(u, Refusal(press[u].call))
    <2>1. PICK v \in Reason : v = Refusal(press[u].call)
      BY RefusalType
    <2>2. v \in Answer /\ v # "done" /\ Ends(u, v)
      BY <1>2, <2>1 DEF Answer, Reason, None
    <2>3. PressTypeOK' /\ press'[u].at = "rest" /\ press'[u].told = v
          /\ \A x \in User : x # u => press'[x] = press[x]
      BY <2>2, EndsTypes
    <2> QED
      BY <1>1, <2>2, <2>3, OneMoves DEF NobodySends
  <1>3. CASE press' = [press EXCEPT ![u].at = "sign", ![u].base = seen[u]]
    <2> DEFINE p == [press[u] EXCEPT !.at = "sign", !.base = seen[u]]
    <2>1. seen[u] \in Nat
      BY Roles DEF NetworkTypeOK
    <2>2. Sound(p) /\ p.call = press[u].call /\ p.at = "sign" /\ p.told = press[u].told
      BY <1>1, <2>1 DEF PressTypeOK, PressState, Sound
    <2>3. press' = [press EXCEPT ![u] = p]
      BY <1>3 DEF PressTypeOK
    <2> HIDE DEF p
    <2>4. PressTypeOK' /\ press'[u] = p /\ \A x \in User : x # u => press'[x] = press[x]
      BY <2>2, <2>3, PressMoves DEF PressTypeOK
    <2> QED
      BY <1>1, <2>2, <2>4, OneMoves DEF NobodySends
  <1> QED
    BY <1>2, <1>3 DEF Build

LEMMA FailureMoves ==
    ASSUME BaseInv, NEW u \in User, press[u].at = "sign", NEW reason, Fails(u, reason)
    PROVE  PressTypeOK' /\ ProofsAwaited /\ NobodySends
  <1>1. press[u].at # "rest" /\ PressTypeOK
    BY DEF BaseInv, DeliveryTypeOK
  <1>2. PressTypeOK' /\ press'[u].call = press[u].call /\ press'[u].at \in {"rest", "build"}
        /\ press'[u].told \in {press[u].told, "failed"}
        /\ \A x \in User : x # u => press'[x] = press[x]
    BY <1>1, FailsTypes
  <1> QED
    BY <1>2, OneMoves DEF NobodySends

LEMMA EndMoves ==
    ASSUME BaseInv, NEW u \in User, press[u].at \notin {"proof", "sent"},
           NEW v \in Answer \ {"done"}, Ends(u, v)
    PROVE  PressTypeOK' /\ ProofsAwaited /\ NobodySends
  <1>1. PressTypeOK' /\ press'[u].at = "rest" /\ press'[u].told = v
        /\ \A x \in User : x # u => press'[x] = press[x]
    BY EndsTypes DEF BaseInv, DeliveryTypeOK
  <1> QED
    BY <1>1, OneMoves DEF NobodySends

\* The prover's answer reaches the write that waits for it.
LEMMA AnswerMoves ==
    ASSUME BaseInv, ProverAnswers
    PROVE  PressTypeOK' /\ ServiceTypeOK' /\ JobsOrdered' /\ NobodySends
  <1> USE DEF BaseInv, DeliveryTypeOK
  <1>1. PICK made \in BOOLEAN :
          /\ Settles(made)
          /\ press' = IF Head(jobs).awaited
                      THEN [press EXCEPT ![Head(jobs).of] =
                              IF made THEN [@ EXCEPT !.at = "build"]
                              ELSE Told(Head(jobs).of, "failed")]
                      ELSE press
    BY DEF ProverAnswers
  <1> DEFINE job == jobs[1]
             w == job.of
  <1>2. jobs \in Seq(ProverJob)
    BY DEF ServiceTypeOK
  <1>3. /\ 1 \in DOMAIN jobs /\ Head(jobs) = job /\ job \in ProverJob
        /\ jobs' \in Seq(ProverJob)
        /\ \A i \in DOMAIN jobs' : i \in Nat /\ i + 1 \in DOMAIN jobs /\ i + 1 # 1
                                   /\ jobs'[i] = jobs[i + 1]
    BY <1>1, <1>2, JobSettled
  <1>4. w \in Wallet /\ w \in User
    BY <1>3 DEF ProverJob, User
  <1>5. entry' = IF job.kept THEN [entry EXCEPT ![w] = IF made THEN "proof" ELSE "none"]
                ELSE entry
    BY <1>1, <1>3 DEF Settles
  <1>6. ServiceTypeOK'
    BY <1>3, <1>4, <1>5 DEF ServiceTypeOK, ProverAnswers, attesting
  <1>7. job.awaited => press[w].at = "proof" /\ press[w].call.fn = "register_zk"
    BY <1>3 DEF JobsOrdered
  <1>8. /\ PressTypeOK'
        /\ \A x \in User : x # w => press'[x] = press[x]
        /\ ~job.awaited => press'[w] = press[w]
        /\ job.awaited => press'[w].at \in {"build", "rest"}
                          /\ press'[w].told \in {press[w].told, "failed"}
                          /\ press'[w].call = press[w].call
    <2>1. CASE ~job.awaited
      BY <1>1, <1>3, <1>4, <2>1 DEF PressTypeOK
    <2>2. CASE job.awaited /\ made
      <3>1. Goes(w, "build")
        BY <1>1, <1>3, <2>2 DEF Goes
      <3> QED
        BY <1>4, <1>7, <2>2, <3>1, GoesTypes
    <2>3. CASE job.awaited /\ ~made
      <3>1. Ends(w, "failed") /\ "failed" \in Answer
        BY <1>1, <1>3, <2>3 DEF Ends, Answer
      <3> QED
        BY <1>4, <2>3, <3>1, EndsTypes
    <2> QED
      BY <2>1, <2>2, <2>3
  <1>9. NobodySends
    BY <1>4, <1>7, <1>8 DEF NobodySends
  <1> HIDE DEF job, w
  <1>10. \A i \in DOMAIN jobs' : jobs'[i].of = w => ~(jobs'[i].awaited /\ job.awaited)
                                                   /\ ~(jobs'[i].kept /\ job.kept)
    BY <1>3 DEF JobsOrdered, job, w
  <1>11. ASSUME NEW i \in DOMAIN jobs'
         PROVE  /\ jobs'[i].awaited => /\ press'[jobs'[i].of].at = "proof"
                                       /\ press'[jobs'[i].of].call.fn = "register_zk"
                /\ jobs'[i].kept => entry'[jobs'[i].of] = "job"
    <2>1. jobs'[i] = jobs[i + 1] /\ i + 1 \in DOMAIN jobs /\ jobs'[i].of \in Wallet
      BY <1>2, <1>3, <1>11, JobsTyped DEF ProverJob
    <2>2. /\ jobs[i + 1].awaited => press[jobs[i + 1].of].at = "proof"
                                    /\ press[jobs[i + 1].of].call.fn = "register_zk"
          /\ jobs[i + 1].kept => entry[jobs[i + 1].of] = "job"
      BY <2>1 DEF JobsOrdered
    <2>3. jobs'[i].awaited => press'[jobs'[i].of] = press[jobs'[i].of]
      BY <1>8, <1>10, <2>1 DEF User
    <2>4. jobs'[i].kept => entry'[jobs'[i].of] = entry[jobs'[i].of]
      BY <1>4, <1>5, <1>10, <2>1 DEF ServiceTypeOK
    <2> QED
      BY <2>1, <2>2, <2>3, <2>4
  <1>12. \A i, j \in DOMAIN jobs' :
           jobs'[i].of = jobs'[j].of /\ i # j =>
             ~(jobs'[i].awaited /\ jobs'[j].awaited) /\ ~(jobs'[i].kept /\ jobs'[j].kept)
    <2> SUFFICES ASSUME NEW i \in DOMAIN jobs', NEW j \in DOMAIN jobs',
                        jobs'[i].of = jobs'[j].of, i # j
                 PROVE  ~(jobs'[i].awaited /\ jobs'[j].awaited)
                        /\ ~(jobs'[i].kept /\ jobs'[j].kept)
      OBVIOUS
    <2>1. i + 1 \in DOMAIN jobs /\ j + 1 \in DOMAIN jobs /\ i + 1 # j + 1
          /\ jobs'[i] = jobs[i + 1] /\ jobs'[j] = jobs[j + 1]
      BY <1>3
    <2> QED
      BY <2>1 DEF JobsOrdered
  <1>13. JobsOrdered'
    BY <1>11, <1>12 DEF JobsOrdered
  <1> QED
    BY <1>6, <1>8, <1>9, <1>13

\* Jobs whose wallets stopped waiting are awaited by nobody.
LEMMA LeftJobsOrdered ==
    ASSUME BaseInv, NEW w \in Wallet, NoLongerAwaited(w), entry' = entry,
           \A x \in User : x # w => press'[x] = press[x]
    PROVE  JobsOrdered' /\ jobs' \in Seq(ProverJob)
  <1>1. jobs \in Seq(ProverJob)
    BY DEF BaseInv, DeliveryTypeOK, ServiceTypeOK
  <1>2. /\ SameJobs
        /\ \A i \in DOMAIN jobs :
             /\ jobs'[i].kept = jobs[i].kept
             /\ jobs'[i].awaited => jobs[i].awaited /\ jobs[i].of # w
    BY <1>1, JobsLeft
  <1>3. \A i \in DOMAIN jobs : jobs[i].of \in User
    BY <1>1, JobsTyped DEF ProverJob, User
  <1> QED
    BY <1>2, <1>3 DEF BaseInv, JobsOrdered, SameJobs

LEMMA ProverLateMoves ==
    ASSUME BaseInv, NEW w \in Wallet, ProverTimesOut(w)
    PROVE  PressTypeOK' /\ ServiceTypeOK' /\ JobsOrdered' /\ NobodySends
  <1> USE DEF BaseInv, DeliveryTypeOK
  <1>1. w \in User /\ press[w].at = "proof" /\ Ends(w, "failed") /\ "failed" \in Answer
        /\ NoLongerAwaited(w) /\ UNCHANGED <<entry, attesting>>
    BY DEF ProverTimesOut, User, Answer
  <1>2. PressTypeOK' /\ press'[w].at = "rest" /\ press'[w].told = "failed"
        /\ \A x \in User : x # w => press'[x] = press[x]
    BY <1>1, EndsTypes
  <1>3. JobsOrdered' /\ jobs' \in Seq(ProverJob)
    BY <1>1, <1>2, LeftJobsOrdered
  <1>4. ServiceTypeOK'
    BY <1>1, <1>3 DEF ServiceTypeOK, attesting
  <1>5. NobodySends
    BY <1>1, <1>2 DEF NobodySends
  <1> QED
    BY <1>2, <1>3, <1>4, <1>5

\* A proof of a page, or its failure, reaches those who wait for it.
LEMMA PageMoves ==
    ASSUME BaseInv, NEW v \in Video, ProofArrives(v) \/ NoProofArrives(v)
    PROVE  PressTypeOK' /\ ServiceTypeOK' /\ ProofsAwaited /\ NobodySends
  <1> USE DEF BaseInv, DeliveryTypeOK
  <1>1. UNCHANGED proving /\ (Attested(v) \/ FetchFails(v))
    BY DEF ProofArrives, NoProofArrives
  <1>2. ServiceTypeOK'
    <2>1. fetching' \in [Video -> [at : {"rest", "asked", "read"}, owner : Owner]]
      BY <1>1 DEF Attested, FetchFails, NoFetch, Owner, ServiceTypeOK
    <2>2. saved' \in [Video -> [owner : Owner, age : {"none", "young", "old"}]]
      <3>1. PICK x \in Owner : x = fetching[v].owner
        BY DEF ServiceTypeOK
      <3>2. \/ saved' = saved
            \/ saved' = [saved EXCEPT ![v] = [owner |-> x, age |-> "young"]]
        BY <1>1, <3>1 DEF Attested, FetchFails
      <3> QED
        BY <3>2 DEF ServiceTypeOK
    <2> QED
      BY <1>1, <2>1, <2>2 DEF Attested, FetchFails, proving, ServiceTypeOK
  <1>3. ASSUME NEW u \in User
        PROVE  /\ Sound(press'[u])
               /\ ~AwaitsProofOf(u, v) => press'[u] = press[u]
               /\ AwaitsProofOf(u, v) => press'[u].at \in {"build", "rest"}
                                         /\ press'[u].told \in {None, "failed"}
    <2>1. CASE ~AwaitsProofOf(u, v)
      BY <2>1 DEF ProofArrives, NoProofArrives, PressTypeOK
    <2>2. CASE AwaitsProofOf(u, v) /\ ProofArrives(v)
      <3> DEFINE c == ClipProof(v, fetching[v].owner)
                 p == [press[u] EXCEPT !.at = "build", !.call.arg = c]
      <3>1. press'[u] = p
        BY <2>2 DEF ProofArrives
      <3>2. c \in PostPaper
        BY DEF ClipProof, PostPaper, ServiceTypeOK, ContractTypeOK
      <3>3. press[u].call \in ClipCalls /\ press[u] \in PressState /\ press[u].told = None
        BY <2>2 DEF AwaitsProofOf, PressTypeOK, Sound, UserCalls, ZkCalls, JoinCalls,
                    ClipCalls, CreateCalls
      <3> HIDE DEF c
      <3>4. [press[u].call EXCEPT !.arg = c] \in ClipCalls
        BY <3>2, <3>3 DEF ClipCalls
      <3>5. p \in PressState /\ p.at = "build" /\ p.told = press[u].told
            /\ p.call = [press[u].call EXCEPT !.arg = c]
        BY <3>3, <3>4 DEF PressState, UserCalls
      <3> HIDE DEF p
      <3> QED
        BY <2>2, <3>1, <3>3, <3>4, <3>5 DEF Sound, UserCalls
    <2>3. CASE AwaitsProofOf(u, v) /\ NoProofArrives(v)
      <3>1. press'[u] = Told(u, "failed") /\ "failed" \in Answer
        BY <2>3 DEF NoProofArrives, Answer
      <3> QED
        BY <2>3, <3>1, ToldSound
    <2> QED
      BY <2>1, <2>2, <2>3
  <1>4. press' \in [User -> PressState]
    <2>1. press' = [u \in User |-> press'[u]]
      BY DEF ProofArrives, NoProofArrives
    <2> QED
      BY <1>3, <2>1 DEF Sound
  <1>5. PressTypeOK'
    BY <1>3, <1>4 DEF PressTypeOK
  <1>6. NobodySends
    BY <1>3 DEF NobodySends, AwaitsProofOf, None
  <1>7. ProofsAwaited
    <2>1. \A w \in Wallet : press[w].call.fn = "register_zk" => ~AwaitsProofOf(w, v)
      BY DEF AwaitsProofOf
    <2> QED
      BY <1>3, <2>1 DEF ProofsAwaited, User
  <1> QED
    BY <1>2, <1>5, <1>6, <1>7

\* The steps of a client change neither contracts nor what the relayer keeps.
LEMMA ClientApart ==
    ClientNext => UNCHANGED <<contract, seq, seen, relaying, dropped>>
  BY DEF ClientNext, ProverAnswers, ProverTimesOut, ProofArrives, NoProofArrives, Build,
         SignAndSend, Congested, Declines, SendBreaks, Answered, GivesUp, network

\* A transaction of a user's.
LEMMA UserSends ==
    ASSUME BaseInv, NEW u \in User, press[u].at # "rest", NEW x \in {u, Nobody},
           Sends(u, press[u].call, x), closed' = closed, UNCHANGED <<seq, seen>>
    PROVE  NetworkTypeOK'
  <1>1. press[u].call \in Calls /\ u \in Sender /\ x \in Asker
    BY Roles DEF BaseInv, DeliveryTypeOK, PressTypeOK, Sound, Calls, Asker
  <1>2. \E c \in Calls : c = press[u].call
    BY <1>1
  <1>3. pool' \in [Sender -> Seq(Tx)]
    BY <1>1, <1>2, SendsAdds DEF BaseInv, DeliveryTypeOK
  <1> QED
    BY <1>3, NetworkFrame DEF BaseInv, DeliveryTypeOK

\* A step of the client's keeps the invariant of jobs, and the types.
LEMMA ClientBase ==
    ASSUME BaseInv, ClientNext, \A u \in User : Outcomes(u, u) # {} => press[u].at = "sent"
    PROVE  /\ ContractTypeOK' /\ relayer' = relayer
           /\ NetworkTypeOK' /\ ServiceTypeOK' /\ PressTypeOK' /\ JobsOrdered'
  <1> USE DEF BaseInv, DeliveryTypeOK
  <1>1. UNCHANGED <<contract, seq, seen, relaying, dropped>>
    BY ClientApart
  <1>2. ContractTypeOK' /\ relayer' = relayer
    BY <1>1, ContractsUntouched
  <1> DEFINE G == NetworkTypeOK' /\ ServiceTypeOK' /\ PressTypeOK' /\ JobsOrdered'
  <1>3. ASSUME UNCHANGED <<proving, attesting>>, ProofsAwaited
        PROVE  ServiceTypeOK' /\ JobsOrdered'
    BY <1>3, ServiceFrame, JobsFrame
  <1>4. CASE ProverAnswers \/ (\E w \in Wallet : ProverTimesOut(w))
    <2>1. UNCHANGED network
      BY <1>4 DEF ProverAnswers, ProverTimesOut
    <2>2. NetworkTypeOK'
      BY <2>1 DEF network, NetworkTypeOK
    <2> QED
      BY <1>2, <1>4, <2>2, AnswerMoves, ProverLateMoves
  <1>5. ASSUME NEW v \in Video, ProofArrives(v) \/ NoProofArrives(v)
        PROVE  G
    <2>1. UNCHANGED <<network, proving>>
      BY <1>5 DEF ProofArrives, NoProofArrives
    <2>2. NetworkTypeOK'
      BY <2>1 DEF network, NetworkTypeOK
    <2> QED
      BY <1>5, <2>1, <2>2, PageMoves, JobsFrame
  <1>6. ASSUME NEW u \in User, Build(u) \/ Congested(u) \/ Declines(u)
        PROVE  G
    <2>1. UNCHANGED <<network, proving, attesting>>
      BY <1>6 DEF Build, Congested, Declines
    <2>2. NetworkTypeOK'
      BY <2>1 DEF network, NetworkTypeOK
    <2>3. PressTypeOK' /\ ProofsAwaited
      <3>1. CASE Build(u)
        BY <3>1, BuildMoves
      <3>2. CASE Congested(u)
        BY <3>2, FailureMoves DEF Congested
      <3>3. CASE Declines(u)
        <4>1. "wallet_rejected" \in Answer \ {"done"}
          BY DEF Answer
        <4> QED
          BY <3>3, <4>1, EndMoves DEF Declines
      <3> QED
        BY <1>6, <3>1, <3>2, <3>3
    <2> QED
      BY <1>3, <2>1, <2>2, <2>3
  <1>7. ASSUME NEW u \in User, SignAndSend(u)
        PROVE  G
    <2>1. UNCHANGED <<proving, attesting>> /\ closed' = closed /\ press[u].at = "sign"
      BY <1>7 DEF SignAndSend
    <2>2. CASE Sends(u, press[u].call, u) /\ Goes(u, "sent")
      <3>1. PressTypeOK' /\ \A x \in User : x # u => press'[x] = press[x]
        BY <2>1, <2>2, GoesTypes
      <3>2. ProofsAwaited
        BY <2>1, <3>1, OneMoves
      <3>3. NetworkTypeOK'
        BY <1>1, <2>1, <2>2, UserSends
      <3> QED
        BY <1>3, <2>1, <3>1, <3>2, <3>3
    <2>3. CASE Fails(u, "txBadSeq") /\ UNCHANGED pool
      <3>1. NetworkTypeOK'
        BY <1>1, <2>1, <2>3 DEF NetworkTypeOK
      <3> QED
        BY <1>3, <2>1, <2>3, <3>1, FailureMoves
    <2> QED
      BY <1>7, <2>2, <2>3 DEF SignAndSend
  <1>8. ASSUME NEW u \in User, SendBreaks(u)
        PROVE  G
    <2>1. UNCHANGED <<proving, attesting>> /\ closed' = closed /\ press[u].at = "sign"
      BY <1>8 DEF SendBreaks
    <2>2. NetworkTypeOK'
      <3>1. CASE UNCHANGED pool
        BY <1>1, <2>1, <3>1 DEF NetworkTypeOK
      <3>2. CASE \E x \in {u, Nobody} : Sends(u, press[u].call, x)
        BY <1>1, <2>1, <3>2, UserSends
      <3> QED
        BY <1>8, <3>1, <3>2 DEF SendBreaks
    <2>3. PressTypeOK' /\ ProofsAwaited
      <3>1. CASE Fails(u, "network")
        BY <2>1, <3>1, FailureMoves
      <3>2. CASE Ends(u, "unsure")
        <4>1. "unsure" \in Answer \ {"done"}
          BY DEF Answer
        <4> QED
          BY <2>1, <3>2, <4>1, EndMoves
      <3> QED
        BY <1>8, <3>1, <3>2 DEF SendBreaks
    <2> QED
      BY <1>3, <2>1, <2>2, <2>3
  <1>9. ASSUME NEW u \in User, Answered(u) \/ GivesUp(u), press[u].at # "proof"
        PROVE  G
    <2>1. PICK v \in Answer : Ends(u, v)
      BY <1>9 DEF Answered, GivesUp, Answer
    <2>2. Forsake(u, u) /\ UNCHANGED <<proving, attesting>>
      BY <1>9 DEF Answered, GivesUp
    <2>3. u \in Sender /\ u \in Asker \ {Nobody}
      BY Roles DEF Asker, User
    <2>4. NetworkTypeOK'
      BY <1>1, <2>2, <2>3, ForsakeThins, NetworkFrame DEF Thinned
    <2>5. PressTypeOK' /\ \A x \in User : x # u => press'[x] = press[x]
      BY <2>1, EndsTypes
    <2> QED
      BY <1>3, <1>9, <2>2, <2>4, <2>5, OneMoves
  <1>10. \A u \in User : Answered(u) \/ GivesUp(u) => press[u].at # "proof"
    BY DEF Answered, GivesUp
  <1> HIDE DEF G
  <1>11. G \/ (ProverAnswers \/ (\E w \in Wallet : ProverTimesOut(w)))
    BY <1>5, <1>6, <1>7, <1>8, <1>9, <1>10 DEF ClientNext
  <1> QED
    BY <1>2, <1>4, <1>11 DEF G

-----------------------------------------------------------------------------
(***************************************************************************)
(* Who waits for what: the three kinds of steps.  Some thin the            *)
(* transactions and the outcomes, one who asks sends, and the network      *)
(* takes one.                                                              *)
(***************************************************************************)
VInv == DeliveryTypeOK /\ VerdictInv

\* Who waited waits on, for the same call.
Kept(a, x) == Awaits(a, x)' /\ AwaitedCall(a, x)' = AwaitedCall(a, x)

WaitsKept == \A a \in Sender, x \in Asker : Awaits(a, x) => Kept(a, x) \/ ~Asks(a, x)'

PressKept ==
    \A u \in User :
      press[u].at = "sent" => press'[u].at = "sent" /\ press'[u].call = press[u].call
AskedKept == \A r \in Request : asked[r] = "polling" => asked'[r] = "polling"
RunKept == run.at = "minting" => run'.at = "minting" /\ run'.burn = run.burn

\* The relayer is none of the users.
LEMMA RelayerApart ==
    ASSUME DeliveryTypeOK
    PROVE  relayer \in Relayer /\ relayer \in Sender /\ relayer \notin User
  BY Roles DEF DeliveryTypeOK, ContractTypeOK, RegistryInv, RegistryTypeOK

\* Whoever waits may, for one of the calls.
LEMMA AwaitedType ==
    ASSUME DeliveryTypeOK, NEW a \in Sender, NEW x, Awaits(a, x)
    PROVE  AwaitedCall(a, x) \in Calls /\ x \in Asker \ {Nobody}
  <1>1. CASE a \in User
    <2>1. a # relayer /\ press[a].at = "sent" /\ x = a
      BY <1>1, RelayerApart DEF Awaits
    <2>2. press[a].call \in Calls
      BY <1>1, <2>1 DEF DeliveryTypeOK, PressTypeOK, Sound, Calls
    <2> QED
      BY <1>1, <2>1, <2>2, Roles DEF AwaitedCall, Asker
  <1>2. CASE a = relayer /\ x \in Request
    <2>1. x # Brand /\ CallOf(x) \in Calls
      BY <1>2, RelayerApart, Roles, CallOfType
    <2> QED
      BY <1>2, <2>1, Roles DEF AwaitedCall, Asker
  <1>3. CASE a = relayer /\ x = Brand
    <2>1. MintCall \in MintCalls
      BY RelayerApart DEF MintCall, Call, MintCalls, DeliveryTypeOK, BridgeTypeOK
    <2> QED
      BY <1>3, <2>1, NetworkAssumption DEF AwaitedCall, Asker, User, Calls
  <1> QED
    BY <1>1, <1>2, <1>3 DEF Awaits

\* One pair whose wait is kept.
LEMMA KeptPair ==
    ASSUME DeliveryTypeOK, relayer' = relayer, NEW a \in Sender, NEW x \in Asker, Awaits(a, x),
           a \in User => press'[a].at = "sent" /\ press'[a].call = press[a].call,
           a = relayer /\ x \in Request => asked'[x] = "polling",
           a = relayer /\ x = Brand => run'.at = "minting" /\ run'.burn = run.burn
    PROVE  Kept(a, x)
  <1>1. CASE a \in User
    BY <1>1, RelayerApart DEF Awaits, AwaitedCall, Kept
  <1>2. CASE a = relayer /\ x \in Request
    BY <1>2, Roles DEF Awaits, AwaitedCall, Kept, CallOf
  <1>3. CASE a = relayer /\ x = Brand
    BY <1>3, Roles DEF Awaits, AwaitedCall, Kept, MintCall
  <1> QED
    BY <1>1, <1>2, <1>3 DEF Awaits

\* Where nobody stops waiting, all waits are kept.
LEMMA AllKept ==
    ASSUME DeliveryTypeOK, relayer' = relayer, PressKept, AskedKept, RunKept
    PROVE  \A a \in Sender, x \in Asker : Awaits(a, x) => Kept(a, x)
  <1> SUFFICES ASSUME NEW a \in Sender, NEW x \in Asker, Awaits(a, x) PROVE Kept(a, x)
    OBVIOUS
  <1>1. a \in User => press'[a].at = "sent" /\ press'[a].call = press[a].call
    BY RelayerApart DEF Awaits, PressKept
  <1>2. a = relayer /\ x \in Request => asked'[x] = "polling"
    BY RelayerApart, Roles DEF Awaits, AskedKept
  <1>3. a = relayer /\ x = Brand => run'.at = "minting" /\ run'.burn = run.burn
    BY RelayerApart, Roles DEF Awaits, RunKept
  <1> QED
    BY <1>1, <1>2, <1>3, KeptPair

\* Transactions and outcomes are thinned.
LEMMA MatchedThins ==
    ASSUME DeliveryTypeOK, Matched, Thinned, Grown, WaitsKept
    PROVE  Matched'
  <1>1. ASSUME NEW a \in Sender, NEW i \in DOMAIN pool'[a], pool'[a][i].asker # Nobody
        PROVE  /\ i \in DOMAIN pool[a] /\ pool[a][i].asker = pool'[a][i].asker
               /\ Awaits(a, pool[a][i].asker)'
               /\ pool'[a][i].call = AwaitedCall(a, pool[a][i].asker)'
    <2>1. PICK y : y = pool'[a][i].asker
      OBVIOUS
    <2>2. i \in DOMAIN pool[a] /\ pool[a][i].asker = y /\ pool'[a][i].call = pool[a][i].call
      BY <1>1, <2>1 DEF Thinned
    <2>3. Awaits(a, y) /\ pool[a][i].call = AwaitedCall(a, y)
      BY <1>1, <2>1, <2>2 DEF Matched
    <2>4. y \in Asker
      BY <2>3, AwaitedType
    <2>5. Asks(a, y)'
      BY <2>1 DEF Asks
    <2>6. Kept(a, y)
      BY <2>3, <2>4, <2>5 DEF WaitsKept
    <2> QED
      BY <2>1, <2>2, <2>3, <2>6 DEF Kept, Awaits, AwaitedCall
  <1>2. ASSUME NEW a \in Sender, NEW i \in DOMAIN pool'[a], NEW j \in DOMAIN pool'[a],
               pool'[a][i].asker = pool'[a][j].asker, i # j
        PROVE  pool'[a][i].asker = Nobody
    BY <1>2 DEF Thinned, Matched
  <1>3. ASSUME NEW o \in closed'
        PROVE  /\ o.asker # Nobody /\ Awaits(o.from, o.asker)'
               /\ \A c \in {AwaitedCall(o.from, o.asker)'} : o.ok => Effect(c)'
    <2>1. o \in closed /\ o.from \in Sender /\ o.asker \in Asker
      BY DEF Thinned, DeliveryTypeOK, NetworkTypeOK, Outcome
    <2>2. Awaits(o.from, o.asker) /\ o.asker # Nobody
          /\ \A c \in {AwaitedCall(o.from, o.asker)} : o.ok => Effect(c)
      BY <2>1 DEF Matched
    <2>3. Asks(o.from, o.asker)'
      BY <1>3 DEF Asks
    <2>4. Kept(o.from, o.asker)
      BY <2>1, <2>2, <2>3 DEF WaitsKept
    <2>5. AwaitedCall(o.from, o.asker) \in Calls
      BY <2>1, <2>2, AwaitedType
    <2>6. ASSUME NEW c \in {AwaitedCall(o.from, o.asker)}, o.ok PROVE Effect(c)'
      BY <2>2, <2>5, <2>6, EffectStays
    <2> QED
      BY <2>2, <2>4, <2>6 DEF Kept
  <1> QED
    BY <1>1, <1>2, <1>3 DEF Matched

\* Contracts that nobody calls keep everything.
LEMMA SameGrown ==
    ASSUME ContractTypeOK, UNCHANGED <<cliprailVars, minted>>
    PROVE  Grown
  BY PartiesAssumption
  DEF cliprailVars, registry, treasury, posts, Grown, IsVerified, ContractTypeOK,
      TreasuryTypeOK

\* One transaction more, of somebody who did not wait and does now, or of nobody.
LEMMA MatchedSends ==
    ASSUME DeliveryTypeOK, Matched, Grown, closed' = closed,
           NEW a \in Sender, NEW c \in Calls, NEW x \in Asker, Sends(a, c, x),
           x # Nobody => ~Awaits(a, x) /\ Awaits(a, x)' /\ AwaitedCall(a, x)' = c,
           \A b \in Sender, y \in Asker : Awaits(b, y) => Kept(b, y)
    PROVE  Matched'
  <1>1. PICK n :
        /\ \A b \in Sender : b # a => pool'[b] = pool[b]
        /\ DOMAIN pool'[a] = DOMAIN pool[a] \cup {n} /\ n \notin DOMAIN pool[a]
        /\ \A i \in DOMAIN pool[a] : pool'[a][i] = pool[a][i]
        /\ pool'[a][n].call = c /\ pool'[a][n].asker = x
    <2>1. PICK n : n = Len(pool[a]) + 1
      OBVIOUS
    <2>2. /\ \A b \in Sender : b # a => pool'[b] = pool[b]
          /\ DOMAIN pool'[a] = DOMAIN pool[a] \cup {n} /\ n \notin DOMAIN pool[a]
          /\ \A i \in DOMAIN pool[a] : pool'[a][i] = pool[a][i]
          /\ pool'[a][n] = [call |-> c, asker |-> x]
      BY <2>1, SendsAdds DEF DeliveryTypeOK
    <2> QED
      BY <2>2
  <1>2. ASSUME NEW b \in Sender, NEW i \in DOMAIN pool[b], pool[b][i].asker # Nobody
        PROVE  /\ \A y \in {pool[b][i].asker} : Awaits(b, y)'
                           /\ pool[b][i].call = AwaitedCall(b, y)'
               /\ b = a => pool[b][i].asker # x
    <2>1. PICK y : y = pool[b][i].asker
      OBVIOUS
    <2>2. Awaits(b, y) /\ pool[b][i].call = AwaitedCall(b, y)
      BY <1>2, <2>1 DEF Matched
    <2>3. y \in Asker
      BY <2>2, AwaitedType
    <2>4. Kept(b, y)
      BY <2>2, <2>3
    <2>5. b = a => y # x
      BY <1>2, <2>1, <2>2
    <2> QED
      BY <2>1, <2>2, <2>4, <2>5 DEF Kept
  <1>3. ASSUME NEW b \in Sender, NEW i \in DOMAIN pool'[b], pool'[b][i].asker # Nobody
        PROVE  \A y \in {pool'[b][i].asker} : Awaits(b, y)'
                        /\ pool'[b][i].call = AwaitedCall(b, y)'
    <2>1. CASE b = a /\ i = n
      BY <1>1, <1>3, <2>1
    <2>2. CASE ~(b = a /\ i = n)
      <3>1. i \in DOMAIN pool[b] /\ pool'[b][i] = pool[b][i]
        BY <1>1, <2>2
      <3> QED
        BY <1>2, <1>3, <3>1
    <2> QED
      BY <2>1, <2>2
  <1>4. ASSUME NEW b \in Sender, NEW i \in DOMAIN pool'[b], NEW j \in DOMAIN pool'[b],
               pool'[b][i].asker = pool'[b][j].asker, i # j
        PROVE  pool'[b][i].asker = Nobody
    <2>1. CASE b = a /\ (i = n \/ j = n)
      BY <1>1, <1>2, <1>4, <2>1
    <2>2. CASE ~(b = a /\ (i = n \/ j = n))
      BY <1>1, <1>4, <2>2 DEF Matched
    <2> QED
      BY <2>1, <2>2
  <1>5. ASSUME NEW o \in closed'
        PROVE  /\ o.asker # Nobody /\ Awaits(o.from, o.asker)'
               /\ \A d \in {AwaitedCall(o.from, o.asker)'} : o.ok => Effect(d)'
    <2>1. o \in closed /\ o.from \in Sender /\ o.asker \in Asker
      BY <1>5 DEF DeliveryTypeOK, NetworkTypeOK, Outcome
    <2>2. Awaits(o.from, o.asker) /\ o.asker # Nobody
          /\ \A d \in {AwaitedCall(o.from, o.asker)} : o.ok => Effect(d)
      BY <2>1 DEF Matched
    <2>3. Kept(o.from, o.asker)
      BY <2>1, <2>2
    <2>4. AwaitedCall(o.from, o.asker) \in Calls
      BY <2>1, <2>2, AwaitedType
    <2>5. ASSUME NEW d \in {AwaitedCall(o.from, o.asker)}, o.ok PROVE Effect(d)'
      BY <2>2, <2>4, <2>5, EffectStays
    <2> QED
      BY <2>2, <2>3, <2>5 DEF Kept
  <1> QED
    BY <1>3, <1>4, <1>5 DEF Matched

\* A transaction is taken: its asker hears of it, and if all is well it took effect.
LEMMA MatchedLands ==
    ASSUME DeliveryTypeOK, Matched, NEW a \in Sender, Land(a),
           UNCHANGED <<press, asked, run>>
    PROVE  Matched' /\ Grown
  <1>1. PICK tx, ok :
        /\ tx = pool[a][1] /\ ok = (Refusal(tx.call) = None)
        /\ Head(pool[a]) = tx /\ tx \in Tx /\ 1 \in DOMAIN pool[a]
        /\ \A b \in Sender : b # a => pool'[b] = pool[b]
        /\ \A i \in DOMAIN pool'[a] : i + 1 \in DOMAIN pool[a] /\ i \in Nat
                                      /\ pool'[a][i] = pool[a][i + 1]
    BY LandTakes DEF DeliveryTypeOK
  <1>2. tx.call \in Calls /\ tx.asker \in Asker
    BY <1>1 DEF Tx
  <1>3. Grown /\ relayer' = relayer /\ (ok => Apply(tx.call))
    <2>1. CASE ok
      <3>1. Apply(tx.call)
        BY <1>1, <2>1 DEF Land
      <3> QED
        BY <1>2, <3>1, ApplyGrows, ApplyTypes DEF DeliveryTypeOK
    <2>2. CASE ~ok
      <3>1. UNCHANGED contract
        BY <1>1, <2>2 DEF Land
      <3> QED
        BY <2>2, <3>1, SameGrown, ContractsUntouched DEF DeliveryTypeOK, contract
    <2> QED
      BY <2>1, <2>2
  <1>4. \A b \in Sender, y \in Asker : Awaits(b, y) => Kept(b, y)
    BY <1>3, AllKept DEF PressKept, AskedKept, RunKept
  <1>5. ASSUME NEW b \in Sender, NEW i \in DOMAIN pool[b], pool[b][i].asker # Nobody
        PROVE  \A y \in {pool[b][i].asker} : Awaits(b, y)'
                        /\ pool[b][i].call = AwaitedCall(b, y)'
    <2>1. PICK y : y = pool[b][i].asker
      OBVIOUS
    <2>2. Awaits(b, y) /\ pool[b][i].call = AwaitedCall(b, y)
      BY <1>5, <2>1 DEF Matched
    <2>3. Kept(b, y)
      BY <1>4, <2>2, AwaitedType
    <2> QED
      BY <2>1, <2>2, <2>3 DEF Kept
  <1>6. ASSUME NEW b \in Sender, NEW i \in DOMAIN pool'[b], pool'[b][i].asker # Nobody
        PROVE  \A y \in {pool'[b][i].asker} : Awaits(b, y)'
                        /\ pool'[b][i].call = AwaitedCall(b, y)'
    <2>1. PICK j \in DOMAIN pool[b] : pool'[b][i] = pool[b][j]
      BY <1>1
    <2> QED
      BY <1>5, <1>6, <2>1
  <1>7. ASSUME NEW b \in Sender, NEW i \in DOMAIN pool'[b], NEW j \in DOMAIN pool'[b],
               pool'[b][i].asker = pool'[b][j].asker, i # j
        PROVE  pool'[b][i].asker = Nobody
    <2>1. CASE b = a
      <3>1. i + 1 \in DOMAIN pool[a] /\ j + 1 \in DOMAIN pool[a] /\ i + 1 # j + 1
            /\ pool'[a][i] = pool[a][i + 1] /\ pool'[a][j] = pool[a][j + 1]
        BY <1>1, <1>7, <2>1
      <3> QED
        BY <1>7, <2>1, <3>1 DEF Matched
    <2>2. CASE b # a
      BY <1>1, <1>7, <2>2 DEF Matched
    <2> QED
      BY <2>1, <2>2
  <1>8. ASSUME NEW o \in closed'
        PROVE  /\ o.asker # Nobody /\ Awaits(o.from, o.asker)'
               /\ \A d \in {AwaitedCall(o.from, o.asker)'} : o.ok => Effect(d)'
    <2>1. CASE o \in closed
      <3>1. o.from \in Sender /\ o.asker \in Asker
        BY <2>1 DEF DeliveryTypeOK, NetworkTypeOK, Outcome
      <3>2. Awaits(o.from, o.asker) /\ o.asker # Nobody
            /\ \A d \in {AwaitedCall(o.from, o.asker)} : o.ok => Effect(d)
        BY <2>1, <3>1 DEF Matched
      <3>3. Kept(o.from, o.asker)
        BY <1>4, <3>1, <3>2
      <3>4. AwaitedCall(o.from, o.asker) \in Calls
        BY <3>1, <3>2, AwaitedType
      <3>5. ASSUME NEW d \in {AwaitedCall(o.from, o.asker)}, o.ok PROVE Effect(d)'
        BY <1>3, <3>2, <3>4, <3>5, EffectStays
      <3> QED
        BY <3>2, <3>3, <3>5 DEF Kept
    <2>2. CASE o \notin closed
      <3>1. o = [from |-> a, asker |-> tx.asker, ok |-> ok] /\ tx.asker # Nobody
        BY <1>1, <1>8, <2>2 DEF Land
      <3>2. o.from = a /\ o.asker = tx.asker /\ (o.ok => Apply(tx.call))
        BY <1>3, <3>1
      <3>3. \A y \in {tx.asker} : Awaits(a, y)' /\ tx.call = AwaitedCall(a, y)'
        BY <1>1, <1>5, <3>1, <3>2
      <3>4. \A c \in {tx.call} : o.ok => Effect(c)'
        BY <1>2, <3>2, EffectTaken DEF DeliveryTypeOK
      <3> QED
        BY <3>1, <3>2, <3>3, <3>4
    <2> QED
      BY <2>1, <2>2
  <1> QED
    BY <1>3, <1>6, <1>7, <1>8 DEF Matched

-----------------------------------------------------------------------------
(***************************************************************************)
(* Every step respects the types, and the verdicts.                        *)
(***************************************************************************)
LEMMA RelayerFrame ==
    ASSUME RelayerTypeOK, UNCHANGED relaying
    PROVE  RelayerTypeOK' /\ AskedKept /\ (Queued => Queued')
  BY DEF RelayerTypeOK, relaying, AskedKept, Queued

LEMMA BridgeFrame ==
    ASSUME BridgeTypeOK, UNCHANGED bridging
    PROVE  BridgeTypeOK' /\ RunKept
  BY DEF BridgeTypeOK, bridging, RunKept

LEMMA PressFrame ==
    ASSUME BaseInv, UNCHANGED press
    PROVE  PressTypeOK' /\ PressKept /\ NobodySends /\ ProofsAwaited
  BY DEF BaseInv, DeliveryTypeOK, PressTypeOK, PressKept, NobodySends, ProofsAwaited

LEMMA NobodySendsKept == NobodySends => PressKept
  BY DEF NobodySends, PressKept

\* What was told stays true; what is told now must be.
LEMMA ToldStays ==
    ASSUME DeliveryTypeOK, ToldTrue, Grown,
           \A u \in User : press'[u].told = "done" =>
             \/ press[u].told = "done" /\ press'[u].call = press[u].call
             \/ \A c \in {press'[u].call} : c \in UserCalls /\ Effect(c)',
           \A w \in Wallet : asked'[w] = "done" =>
             asked[w] = "done" \/ IsVerified(Home, w)'
    PROVE  ToldTrue'
  <1>1. ASSUME NEW u \in User, NEW c \in {press'[u].call}, press'[u].told = "done"
        PROVE  c \in UserCalls /\ Effect(c)'
    <2>1. CASE press[u].told = "done" /\ press'[u].call = press[u].call
      <3>1. c \in UserCalls /\ Effect(c)
        BY <1>1, <2>1 DEF ToldTrue
      <3>2. c \in Calls
        BY <3>1 DEF Calls
      <3> QED
        BY <3>1, <3>2, EffectStays
    <2> QED
      BY <1>1, <2>1
  <1>2. ASSUME NEW w \in Wallet, asked'[w] = "done"
        PROVE  IsVerified(Home, w)'
    BY <1>2 DEF ToldTrue, Grown
  <1> QED
    BY <1>1, <1>2 DEF ToldTrue

\* Nothing is told anew.
LEMMA NothingTold ==
    ASSUME DeliveryTypeOK, ToldTrue, Grown, NobodySends,
           \A w \in Wallet : asked'[w] = "done" => asked[w] = "done"
    PROVE  ToldTrue'
  <1>1. \A u \in User : press'[u].told = "done" =>
          press[u].told = "done" /\ press'[u].call = press[u].call
    BY DEF NobodySends
  <1> QED
    BY <1>1, ToldStays

\* The network.
LEMMA NetworkVerdicts ==
    ASSUME VInv, NetworkNext, UNCHANGED <<relaying, proving, attesting, press, bridging>>
    PROVE  VInv' /\ relayer' = relayer
  <1> USE DEF VInv, VerdictInv, DeliveryTypeOK
  <1>1. ContractTypeOK' /\ NetworkTypeOK' /\ relayer' = relayer
    BY NetworkTypes
  <1>2. RelayerTypeOK' /\ AskedKept /\ Queued'
    BY RelayerFrame
  <1>3. BridgeTypeOK' /\ RunKept
    BY BridgeFrame
  <1>4. PressTypeOK' /\ PressKept /\ NobodySends /\ ProofsAwaited /\ JobsOrdered'
        /\ ServiceTypeOK'
    BY PressFrame, JobsFrame, ServiceFrame DEF BaseInv
  <1>5. Matched' /\ Grown
    <2>1. ASSUME NEW a \in Sender, Land(a) PROVE Matched' /\ Grown
      BY <2>1, MatchedLands DEF relaying, bridging
    <2>2. ASSUME NEW a \in Sender, Drop(a) \/ CatchUp(a) PROVE Matched' /\ Grown
      <3>1. UNCHANGED contract
        BY <2>2 DEF Drop, CatchUp
      <3>2. Grown
        BY <3>1, SameGrown DEF contract
      <3>3. Thinned
        <4>1. CASE Drop(a)
          BY <4>1, DropThins
        <4>2. CASE CatchUp(a)
          BY <4>2, PoolUnchanged DEF CatchUp
        <4> QED
          BY <2>2, <4>1, <4>2
      <3>4. WaitsKept
        BY <1>1, <1>2, <1>3, <1>4, AllKept DEF WaitsKept
      <3> QED
        BY <3>2, <3>3, <3>4, MatchedThins
    <2> QED
      BY <2>1, <2>2 DEF NetworkNext
  <1>6. ToldTrue'
    BY <1>4, <1>5, NothingTold DEF relaying
  <1> QED
    BY <1>1, <1>2, <1>3, <1>4, <1>5, <1>6

-----------------------------------------------------------------------------
\* The first request leaves, and it was there once.
LEMMA LeavesQueue ==
    ASSUME RelayerTypeOK, Queued, sending.at = "send", NEW answer, Leaves(answer)
    PROVE  /\ Queued'
           /\ Head(queue) \in Request /\ asked[Head(queue)] = "queued"
           /\ asked'[Head(queue)] = answer
           /\ \A r \in Request : r # Head(queue) => asked'[r] = asked[r]
           /\ answer # "polling" => AskedKept
           /\ answer = "polling" => AskedKept
  <1>1. queue \in Seq(Request) /\ queue # <<>> /\ queue' = Tail(queue)
        /\ asked' = [asked EXCEPT ![Head(queue)] = answer]
    BY DEF RelayerTypeOK, Leaves
  <1>2. Len(queue) \in Nat \ {0} /\ DOMAIN queue = 1 .. Len(queue)
    BY <1>1, EmptySeq, LenProperties
  <1>3. /\ Head(queue) = queue[1] /\ queue' \in Seq(Request)
        /\ Len(queue') = Len(queue) - 1
        /\ \A i \in 1 .. Len(queue') : queue'[i] = queue[i + 1]
    BY <1>1, HeadTailProperties
  <1>4. DOMAIN queue' = 1 .. Len(queue')
    BY <1>3, LenProperties
  <1>5. 1 \in DOMAIN queue /\ Head(queue) \in Request /\ asked[Head(queue)] = "queued"
    BY <1>1, <1>2, <1>3, ElementOfSeq DEF Queued
  <1>6. asked'[Head(queue)] = answer
        /\ \A r \in Request : r # Head(queue) => asked'[r] = asked[r]
    BY <1>1, <1>5 DEF RelayerTypeOK
  <1>7. \A i \in DOMAIN queue' : i \in Nat \ {0} /\ i + 1 \in DOMAIN queue
                                 /\ queue'[i] = queue[i + 1] /\ queue'[i] \in Request
    BY <1>1, <1>2, <1>3, <1>4, ElementOfSeq
  <1>8. \A i \in DOMAIN queue' : asked'[queue'[i]] = "queued"
    <2> SUFFICES ASSUME NEW i \in DOMAIN queue' PROVE asked'[queue'[i]] = "queued"
      OBVIOUS
    <2>1. queue'[i] # Head(queue)
      BY <1>3, <1>5, <1>7 DEF Queued
    <2>2. asked[queue'[i]] = "queued"
      BY <1>7 DEF Queued
    <2>3. PICK r \in Request : r = queue'[i]
      BY <1>7
    <2>4. asked'[r] = asked[r]
      BY <1>6, <2>1, <2>3
    <2> QED
      BY <2>2, <2>3, <2>4
  <1>9. \A i, j \in DOMAIN queue' : queue'[i] = queue'[j] => i = j
    <2> SUFFICES ASSUME NEW i \in DOMAIN queue', NEW j \in DOMAIN queue', queue'[i] = queue'[j]
                 PROVE  i = j
      OBVIOUS
    <2>1. i + 1 = j + 1
      BY <1>7 DEF Queued
    <2> QED
      BY <1>7, <2>1
  <1>10. AskedKept
    BY <1>5, <1>6 DEF AskedKept
  <1> QED
    BY <1>5, <1>6, <1>8, <1>9, <1>10 DEF Queued

\* No request waits in the queue and for its transaction at once.
LEMMA QueueStays ==
    ASSUME RelayerTypeOK, Queued, UNCHANGED queue,
           \A r \in Request : asked[r] = "queued" => asked'[r] = "queued"
    PROVE  Queued'
  <1>1. \A i \in DOMAIN queue : queue[i] \in Request
    BY ElementOfSeq, LenProperties DEF RelayerTypeOK
  <1> QED
    BY <1>1 DEF Queued

\* The relayer's steps leave everybody's writes alone.
LEMMA RelayerVerdicts ==
    ASSUME VInv, RelayerNext, UNCHANGED <<proving, attesting, press, bridging>>
    PROVE  VInv' /\ relayer' = relayer
  <1> USE DEF VInv, VerdictInv, DeliveryTypeOK
  <1>1. ContractTypeOK' /\ NetworkTypeOK' /\ RelayerTypeOK' /\ relayer' = relayer
    BY RelayerTypes
  <1>2. UNCHANGED contract
    BY DEF RelayerNext, ReadSequence, PreparationFails, SendRelayed, BadSequence, NotSent,
           SendThrows, Polled, PollTimesOut
  <1>3. Grown
    BY <1>2, SameGrown DEF contract
  <1>4. BridgeTypeOK' /\ RunKept
    BY BridgeFrame
  <1>5. PressTypeOK' /\ PressKept /\ NobodySends /\ ProofsAwaited /\ JobsOrdered'
        /\ ServiceTypeOK'
    BY PressFrame, JobsFrame, ServiceFrame DEF BaseInv
  <1>6. AskedKept => \A a \in Sender, x \in Asker : Awaits(a, x) => Kept(a, x)
    BY <1>1, <1>4, <1>5, AllKept
  <1>7. CASE ReadSequence \/ (BadSequence /\ UNCHANGED <<asked, queue>>)
    <2>1. UNCHANGED <<pool, closed, asked, queue>>
      BY <1>7 DEF ReadSequence, BadSequence, network
    <2>2. Queued' /\ AskedKept
      BY <2>1 DEF Queued, AskedKept
    <2>3. Matched'
      BY <1>3, <1>6, <2>1, <2>2, PoolUnchanged, MatchedThins DEF WaitsKept
    <2>4. ToldTrue'
      BY <1>3, <1>5, <2>1, NothingTold
    <2> QED
      BY <1>1, <1>4, <1>5, <2>2, <2>3, <2>4
  <1>8. CASE PreparationFails \/ NotSent \/ (BadSequence /\ ~UNCHANGED <<asked, queue>>)
    <2>1. PICK answer \in Reason \cup {"failed"} : Leaves(answer) /\ sending.at = "send"
      BY <1>8, RefusalType DEF PreparationFails, NotSent, BadSequence
    <2>2. UNCHANGED <<pool, closed>>
      BY <1>8 DEF PreparationFails, NotSent, BadSequence, network
    <2>3. answer \notin {"done", "polling"}
      BY DEF Reason, None
    <2>4. Queued' /\ AskedKept /\ \A r \in Request : asked'[r] \in {asked[r], answer}
      BY <2>1, LeavesQueue
    <2>5. Matched'
      BY <1>3, <1>6, <2>2, <2>4, PoolUnchanged, MatchedThins DEF WaitsKept
    <2>6. ToldTrue'
      BY <1>3, <1>5, <2>3, <2>4, NothingTold DEF Request
    <2> QED
      BY <1>1, <1>4, <1>5, <2>4, <2>5, <2>6
  <1>9. CASE SendRelayed \/ SendThrows
    <2>1. PICK r : r = Head(queue)
      OBVIOUS
    <2>2. PICK answer \in {"polling", "unsure"} : Leaves(answer) /\ sending.at = "send"
            /\ answer = IF SendRelayed THEN "polling" ELSE "unsure"
      BY <1>9 DEF SendRelayed, SendThrows
    <2>3. Queued' /\ AskedKept /\ r \in Request /\ asked[r] = "queued" /\ asked'[r] = answer
          /\ \A s \in Request : asked'[s] \in {asked[s], answer}
      BY <2>1, <2>2, LeavesQueue
    <2>4. PICK c \in Calls : c = CallOf(r)
      BY <2>3, RelayerApart, CallOfType
    <2>5. closed' = closed
      BY <1>9 DEF SendRelayed, SendThrows
    <2>6. Matched'
      <3>1. CASE SendRelayed
        <4>1. Sends(relayer, c, r) /\ r \in Asker /\ relayer \in Sender /\ r # Brand
          BY <2>1, <2>3, <2>4, <3>1, RelayerApart, Roles DEF SendRelayed, Asker
        <4>2. ~Awaits(relayer, r)
          BY <2>3, RelayerApart, Roles DEF Awaits
        <4>3. Awaits(relayer, r)' /\ AwaitedCall(relayer, r)' = c
          <5>1. asked'[r] = "polling"
            BY <2>2, <2>3, <3>1
          <5>2. \A x \in {r} : Awaits(relayer, x)'
            BY <1>1, <2>3, <5>1 DEF Awaits
          <5> QED
            BY <1>1, <2>4, <4>1, <5>2 DEF AwaitedCall, CallOf
        <4> QED
          BY <1>1, <1>3, <1>6, <2>3, <2>5, <4>1, <4>2, <4>3, MatchedSends
      <3>2. CASE UNCHANGED pool
        BY <1>3, <1>6, <2>3, <2>5, <3>2, PoolUnchanged, MatchedThins DEF WaitsKept
      <3>3. CASE Sends(relayer, c, Nobody)
        <4>1. Nobody \in Asker /\ relayer \in Sender
          BY RelayerApart DEF Asker
        <4> QED
          BY <1>3, <1>6, <2>3, <2>5, <3>3, <4>1, MatchedSends
      <3> QED
        BY <1>9, <2>1, <2>4, <3>1, <3>2, <3>3 DEF SendThrows
    <2>7. ToldTrue'
      BY <1>3, <1>5, <2>3, NothingTold DEF Request
    <2> QED
      BY <1>1, <1>4, <1>5, <2>3, <2>6, <2>7
  <1>10. ASSUME NEW r \in Request, Polled(r) \/ PollTimesOut(r)
         PROVE  VInv'
    <2>1. PICK y \in {"done", "failed", "unsure"} : asked' = [asked EXCEPT ![r] = y]
            /\ (y = "done" => \E o \in Outcomes(relayer, r) : o.ok)
      BY <1>10 DEF Polled, PollTimesOut
    <2>2. Forsake(relayer, r) /\ UNCHANGED queue /\ r \in Asker \ {Nobody}
      BY <1>10, Roles DEF Polled, PollTimesOut, Asker
    <2>3. asked[r] = "polling" /\ r # Brand
      BY <1>10, RelayerApart, Roles DEF Polled, PollTimesOut, Outcomes, Matched, Awaits
    <2>4. asked'[r] = y /\ \A s \in Request : s # r => asked'[s] = asked[s]
      BY <2>1 DEF RelayerTypeOK
    <2>5. Queued'
      BY <2>2, <2>3, <2>4, QueueStays
    <2>6. Thinned /\ \A a \in {relayer} : ~Asks(a, r)'
      BY <2>2, RelayerApart, ForsakeThins
    <2>7. WaitsKept
      <3> SUFFICES ASSUME NEW a \in Sender, NEW x \in Asker, Awaits(a, x)
                   PROVE  Kept(a, x) \/ ~Asks(a, x)'
        BY DEF WaitsKept
      <3>1. CASE a = relayer /\ x = r
        BY <2>6, <3>1
      <3>2. CASE ~(a = relayer /\ x = r)
        <4>1. a \in User => press'[a].at = "sent" /\ press'[a].call = press[a].call
          BY RelayerApart DEF Awaits
        <4>2. a = relayer /\ x \in Request => asked'[x] = "polling"
          BY <2>4, <3>2, RelayerApart, Roles DEF Awaits
        <4>3. a = relayer /\ x = Brand => run'.at = "minting" /\ run'.burn = run.burn
          BY RelayerApart, Roles DEF Awaits, bridging
        <4> QED
          BY <1>1, <4>1, <4>2, <4>3, KeptPair
      <3> QED
        BY <3>1, <3>2
    <2>8. Matched'
      BY <1>3, <2>6, <2>7, MatchedThins
    <2>9. r \in Wallet /\ y = "done" => IsVerified(Home, r)'
      <3> SUFFICES ASSUME r \in Wallet, y = "done" PROVE IsVerified(Home, r)'
        OBVIOUS
      <3>1. PICK o \in Outcomes(relayer, r) : o.ok
        BY <2>1
      <3>2. \A c \in {CallOf(r)} : Effect(c)
        BY <2>3, <3>1 DEF Outcomes, Matched, AwaitedCall
      <3>3. IsVerified(Home, r)
        BY <3>2 DEF Effect, CallOf, Call
      <3> QED
        BY <1>3, <3>3 DEF Grown
    <2>10. ToldTrue'
      <3>1. \A w \in Wallet : asked'[w] = "done" => asked[w] = "done" \/ IsVerified(Home, w)'
        BY <2>4, <2>9 DEF Request, IsVerified
      <3>2. \A u \in User : press'[u].told = "done" =>
              press[u].told = "done" /\ press'[u].call = press[u].call
        OBVIOUS
      <3> QED
        BY <1>3, <3>1, <3>2, ToldStays
    <2> QED
      BY <1>1, <1>4, <1>5, <2>5, <2>8, <2>10
  <1>11. \/ ReadSequence \/ (BadSequence /\ UNCHANGED <<asked, queue>>)
         \/ PreparationFails \/ NotSent \/ (BadSequence /\ ~UNCHANGED <<asked, queue>>)
         \/ SendRelayed \/ SendThrows
         \/ \E r \in Request : Polled(r) \/ PollTimesOut(r)
    BY DEF RelayerNext
  <1> QED
    BY <1>1, <1>7, <1>8, <1>9, <1>10, <1>11

-----------------------------------------------------------------------------
\* An asker that no longer waits is forsaken; everybody else waits on.
LEMMA WaitsForsaken ==
    ASSUME DeliveryTypeOK, relayer' = relayer, NEW u \in User, Forsake(u, u), AskedKept,
           RunKept, \A x \in User : x # u => press'[x] = press[x]
    PROVE  Thinned /\ SameLengths /\ WaitsKept
  <1>1. u \in Sender /\ u \in Asker \ {Nobody}
    BY Roles DEF Asker
  <1>2. Thinned /\ SameLengths /\ ~Asks(u, u)'
    BY <1>1, ForsakeThins DEF DeliveryTypeOK
  <1>3. ASSUME NEW a \in Sender, NEW x \in Asker, Awaits(a, x)
        PROVE  Kept(a, x) \/ ~Asks(a, x)'
    <2>1. CASE a = u
      <3>1. x = u
        BY <1>3, <2>1, RelayerApart DEF Awaits
      <3> QED
        BY <1>2, <2>1, <3>1
    <2>2. CASE a # u
      <3>1. a \in User => press'[a].at = "sent" /\ press'[a].call = press[a].call
        BY <1>3, <2>2, RelayerApart DEF Awaits
      <3>2. a = relayer /\ x \in Request => asked'[x] = "polling"
        BY <1>3, RelayerApart, Roles DEF Awaits, AskedKept
      <3>3. a = relayer /\ x = Brand => run'.at = "minting" /\ run'.burn = run.burn
        BY <1>3, RelayerApart, Roles DEF Awaits, RunKept
      <3> QED
        BY <1>3, <3>1, <3>2, <3>3, KeptPair
    <2> QED
      BY <2>1, <2>2
  <1> QED
    BY <1>2, <1>3 DEF WaitsKept

\* An outcome is for a write that waits for it.
LEMMA OutcomeAwaited ==
    ASSUME VInv, NEW u \in User, NEW o \in Outcomes(u, u)
    PROVE  press[u].at = "sent"
           /\ (o.ok => \A c \in {press[u].call} : c \in UserCalls /\ Effect(c))
  <1> USE DEF VInv, VerdictInv
  <1>1. o \in closed /\ o.from = u /\ o.asker = u /\ u # relayer
    BY RelayerApart DEF Outcomes
  <1>2. press[u].at = "sent"
    BY <1>1 DEF Matched, Awaits
  <1>3. o.ok => \A c \in {press[u].call} : Effect(c)
    BY <1>1 DEF Matched, AwaitedCall
  <1>4. press[u].call \in UserCalls
    BY <1>2 DEF DeliveryTypeOK, PressTypeOK, Sound
  <1> QED
    BY <1>2, <1>3, <1>4

\* The steps of the client library.
LEMMA ClientVerdicts ==
    ASSUME VInv, ClientNext, UNCHANGED bridging
    PROVE  VInv' /\ relayer' = relayer
  <1> USE DEF VInv, VerdictInv
  <1>1. UNCHANGED <<contract, relaying>>
    BY ClientApart
  <1>2. Grown
    BY <1>1, SameGrown DEF contract, DeliveryTypeOK
  <1>3. RelayerTypeOK' /\ AskedKept /\ Queued'
    BY <1>1, RelayerFrame DEF DeliveryTypeOK
  <1>4. BridgeTypeOK' /\ RunKept
    BY BridgeFrame DEF DeliveryTypeOK
  <1>5. \A u \in User : Outcomes(u, u) # {} => press[u].at = "sent"
    BY OutcomeAwaited
  <1>6. DeliveryTypeOK' /\ JobsOrdered' /\ relayer' = relayer
    BY <1>3, <1>4, <1>5, ClientBase DEF BaseInv, DeliveryTypeOK
  <1>7. NobodySends => \A a \in Sender, x \in Asker : Awaits(a, x) => Kept(a, x)
    BY <1>3, <1>4, <1>6, AllKept, NobodySendsKept
  <1>8. \A w \in Wallet : asked'[w] = "done" => asked[w] = "done"
    BY <1>1 DEF relaying
  <1>9. NobodySends => ToldTrue'
    BY <1>2, <1>8, NothingTold
  <1>10. NobodySends /\ UNCHANGED network => Matched'
    BY <1>2, <1>7, PoolUnchanged, MatchedThins DEF WaitsKept, network, DeliveryTypeOK
  <1>11. CASE ProverAnswers \/ (\E w \in Wallet : ProverTimesOut(w))
    <2>1. UNCHANGED network
      BY <1>11 DEF ProverAnswers, ProverTimesOut
    <2>2. NobodySends
      BY <1>11, AnswerMoves, ProverLateMoves DEF BaseInv
    <2> QED
      BY <1>3, <1>6, <1>9, <1>10, <2>1, <2>2
  <1>12. ASSUME NEW v \in Video, ProofArrives(v) \/ NoProofArrives(v)
         PROVE  VInv'
    <2>1. UNCHANGED network
      BY <1>12 DEF ProofArrives, NoProofArrives
    <2>2. NobodySends
      BY <1>12, PageMoves DEF BaseInv
    <2> QED
      BY <1>3, <1>6, <1>9, <1>10, <2>1, <2>2
  <1>13. ASSUME NEW u \in User, Build(u) \/ Congested(u) \/ Declines(u)
         PROVE  VInv'
    <2>1. UNCHANGED network
      BY <1>13 DEF Build, Congested, Declines
    <2>2. NobodySends
      <3>1. CASE Build(u)
        BY <3>1, BuildMoves DEF BaseInv
      <3>2. CASE Congested(u)
        BY <3>2, FailureMoves DEF Congested, BaseInv
      <3>3. CASE Declines(u)
        <4>1. "wallet_rejected" \in Answer \ {"done"}
          BY DEF Answer
        <4> QED
          BY <3>3, <4>1, EndMoves DEF Declines, BaseInv
      <3> QED
        BY <1>13, <3>1, <3>2, <3>3
    <2> QED
      BY <1>3, <1>6, <1>9, <1>10, <2>1, <2>2
  <1>14. ASSUME NEW u \in User, SignAndSend(u) \/ SendBreaks(u)
         PROVE  VInv'
    <2>1. press[u].at = "sign" /\ closed' = closed
      BY <1>14 DEF SignAndSend, SendBreaks
    <2>2. PICK c \in Calls : c = press[u].call
      BY <2>1 DEF DeliveryTypeOK, PressTypeOK, Sound, Calls
    <2>3. u \in Sender /\ u \in Asker /\ Nobody \in Asker /\ u # relayer /\ u # Nobody
      BY RelayerApart, Roles DEF Asker
    <2>4. CASE Sends(u, c, u) /\ Goes(u, "sent")
      <3>1. /\ press'[u].call = c /\ press'[u].at = "sent" /\ press'[u].told = press[u].told
            /\ \A x \in User : x # u => press'[x] = press[x]
        BY <2>1, <2>2, <2>4, GoesTypes DEF DeliveryTypeOK
      <3>2. press[u].told = None
        BY <2>1 DEF DeliveryTypeOK, PressTypeOK, Sound
      <3>3. PressKept
        BY <2>1, <3>1 DEF PressKept
      <3>4. ~Awaits(u, u) /\ Awaits(u, u)' /\ AwaitedCall(u, u)' = c
        BY <1>6, <2>1, <2>3, <3>1 DEF Awaits, AwaitedCall
      <3>5. Matched'
        BY <1>2, <1>3, <1>4, <1>6, <2>1, <2>3, <2>4, <3>3, <3>4, AllKept, MatchedSends
      <3>6. ToldTrue'
        <4>1. \A x \in User : press'[x].told = "done" =>
                press[x].told = "done" /\ press'[x].call = press[x].call
          BY <3>1, <3>2 DEF None
        <4> QED
          BY <1>2, <1>8, <4>1, ToldStays
      <3> QED
        BY <1>3, <1>6, <3>5, <3>6
    <2>5. CASE (UNCHANGED pool \/ Sends(u, c, Nobody))
               /\ (Ends(u, "unsure") \/ Fails(u, "txBadSeq"))
      <3>1. NobodySends
        <4>1. "unsure" \in Answer \ {"done"}
          BY DEF Answer
        <4> QED
          BY <2>1, <2>5, <4>1, EndMoves, FailureMoves DEF BaseInv
      <3>2. Matched'
        <4>1. CASE UNCHANGED pool
          BY <1>2, <1>7, <2>1, <3>1, <4>1, PoolUnchanged, MatchedThins
          DEF WaitsKept, DeliveryTypeOK
        <4>2. CASE Sends(u, c, Nobody)
          BY <1>2, <1>7, <2>1, <2>3, <3>1, <4>2, MatchedSends
        <4> QED
          BY <2>5, <4>1, <4>2
      <3> QED
        BY <1>3, <1>6, <1>9, <3>1, <3>2
    <2>6. SendBreaks(u) => Ends(u, "unsure") /\ (UNCHANGED pool \/ Sends(u, c, Nobody))
      BY <2>2 DEF SendBreaks, Retryable
    <2>7. SignAndSend(u) => \/ Sends(u, c, u) /\ Goes(u, "sent")
                            \/ UNCHANGED pool /\ Fails(u, "txBadSeq")
      BY <2>2 DEF SignAndSend
    <2> QED
      BY <1>14, <2>4, <2>5, <2>6, <2>7
  <1>15. ASSUME NEW u \in User, Answered(u) \/ GivesUp(u)
         PROVE  VInv'
    <2>1. PICK y \in {"done", "failed", "unsure"} :
            Ends(u, y) /\ (y = "done" => \E o \in Outcomes(u, u) : o.ok)
      BY <1>15 DEF Answered, GivesUp
    <2>2. /\ press'[u].call = press[u].call /\ press'[u].told = y
          /\ \A x \in User : x # u => press'[x] = press[x]
      <3>1. y \in Answer
        BY DEF Answer
      <3> QED
        BY <2>1, <3>1, EndsTypes DEF DeliveryTypeOK
    <2>3. Thinned /\ WaitsKept
      BY <1>3, <1>4, <1>6, <1>15, <2>2, WaitsForsaken DEF Answered, GivesUp
    <2>4. Matched'
      BY <1>2, <2>3, MatchedThins
    <2>5. y = "done" => \A c \in {press[u].call} : c \in UserCalls /\ Effect(c)
      BY <2>1, OutcomeAwaited
    <2>6. y = "done" => \A c \in {press[u].call} : c \in UserCalls /\ Effect(c)'
      <3> SUFFICES ASSUME y = "done", NEW c \in {press[u].call}
                   PROVE  c \in UserCalls /\ Effect(c)'
        OBVIOUS
      <3>1. c \in UserCalls /\ Effect(c) /\ c \in Calls
        BY <2>5 DEF Calls
      <3> QED
        BY <1>2, <3>1, EffectStays
    <2>7. ToldTrue'
      <3>1. \A x \in User : press'[x].told = "done" =>
              \/ press[x].told = "done" /\ press'[x].call = press[x].call
              \/ \A c \in {press'[x].call} : c \in UserCalls /\ Effect(c)'
        BY <2>2, <2>6
      <3> QED
        BY <1>2, <1>8, <3>1, ToldStays
    <2> QED
      BY <1>3, <1>6, <2>4, <2>7
  <1>16. \/ ProverAnswers \/ (\E w \in Wallet : ProverTimesOut(w))
         \/ \E v \in Video : ProofArrives(v) \/ NoProofArrives(v)
         \/ \E u \in User : \/ Build(u) \/ Congested(u) \/ Declines(u)
                            \/ SignAndSend(u) \/ SendBreaks(u) \/ Answered(u) \/ GivesUp(u)
    BY DEF ClientNext
  <1> HIDE DEF VInv
  <1> QED
    BY <1>6, <1>11, <1>12, <1>13, <1>14, <1>15, <1>16

-----------------------------------------------------------------------------
\* A step that neither sends nor calls anything, and that nobody is told of.
LEMMA QuietVerdicts ==
    ASSUME VInv, UNCHANGED <<cliprailVars, minted>>, relayer' = relayer,
           UNCHANGED <<pool, closed>>, NobodySends, AskedKept, RunKept,
           \A w \in Wallet : asked'[w] = "done" => asked[w] = "done"
    PROVE  Matched' /\ ToldTrue'
  <1> USE DEF VInv, VerdictInv
  <1>1. Grown
    BY SameGrown DEF DeliveryTypeOK
  <1>2. WaitsKept
    BY AllKept, NobodySendsKept DEF WaitsKept
  <1>3. Thinned
    BY PoolUnchanged DEF DeliveryTypeOK
  <1> QED
    BY <1>1, <1>2, <1>3, MatchedThins, NothingTold

\* The verifier restarts.
LEMMA RestartVerdicts ==
    ASSUME VInv, Restart
    PROVE  VInv' /\ relayer' = relayer
  <1> USE DEF VInv, VerdictInv, DeliveryTypeOK
  <1>1. UNCHANGED <<contract, seq, seen, bridging>> /\ RelayerForgets
    BY DEF Restart
  <1>2. ContractTypeOK' /\ relayer' = relayer /\ Grown
    BY <1>1, ContractsUntouched, SameGrown DEF contract
  <1>3. BridgeTypeOK' /\ RunKept
    BY <1>1, BridgeFrame
  <1>4. Thinned /\ \A a \in {relayer}, r \in Request : ~Asks(a, r)'
    BY <1>1, <1>2, RelayerApart, ForgettingThins
  <1>5. NetworkTypeOK'
    BY <1>1, <1>4, NetworkFrame DEF Thinned
  <1>6. RelayerTypeOK' /\ Queued'
    BY <1>1 DEF RelayerForgets, RelayerTypeOK, NotSending, Verdict, Answer, Queued
  <1>7. \A w \in Wallet : asked'[w] = "done" => asked[w] = "done"
    BY <1>1 DEF RelayerForgets, Request
  <1>8. ServiceTypeOK' /\ JobsOrdered'
    BY DEF Restart, ProverForgets, ServiceForgets, NoFetch, Owner, ServiceTypeOK, JobsOrdered
  <1>9. ASSUME NEW u \in User
        PROVE  /\ Sound(press'[u])
               /\ \/ press'[u] = press[u]
                  \/ press[u].at = "proof" /\ press'[u].at = "rest"
                     /\ press'[u].told = "failed"
    <2>1. "failed" \in Answer
      BY DEF Answer
    <2> QED
      BY <2>1, ToldSound DEF Restart, PressTypeOK
  <1>10. PressTypeOK'
    <2>1. press' = [u \in User |-> press'[u]]
      BY DEF Restart
    <2>2. press' \in [User -> PressState]
      BY <1>9, <2>1 DEF Sound
    <2> QED
      BY <1>9, <2>2 DEF PressTypeOK
  <1>11. NobodySends
    BY <1>9 DEF NobodySends
  <1>12. WaitsKept
    <2> SUFFICES ASSUME NEW a \in Sender, NEW x \in Asker, Awaits(a, x)
                 PROVE  Kept(a, x) \/ ~Asks(a, x)'
      BY DEF WaitsKept
    <2>1. CASE a = relayer /\ x \in Request
      BY <1>4, <2>1
    <2>2. CASE ~(a = relayer /\ x \in Request)
      <3>1. a \in User => press'[a].at = "sent" /\ press'[a].call = press[a].call
        BY <1>11, RelayerApart, NobodySendsKept DEF Awaits, PressKept
      <3>2. a = relayer /\ x = Brand => run'.at = "minting" /\ run'.burn = run.burn
        BY <1>3, RelayerApart, Roles DEF Awaits, RunKept
      <3> QED
        BY <1>2, <2>2, <3>1, <3>2, KeptPair
    <2> QED
      BY <2>1, <2>2
  <1>13. Matched'
    BY <1>2, <1>4, <1>12, MatchedThins
  <1>14. ToldTrue'
    BY <1>2, <1>7, <1>11, NothingTold
  <1> QED
    BY <1>2, <1>3, <1>5, <1>6, <1>8, <1>10, <1>13, <1>14

-----------------------------------------------------------------------------
(***************************************************************************)
(* The pages.                                                              *)
(***************************************************************************)
\* A write starts.
LEMMA StartsTypes ==
    ASSUME BaseInv, NEW u \in User, Resting(u), NEW c \in UserCalls,
           NEW place \in {"proof", "build"}, Starts(u, c, place)
    PROVE  /\ PressTypeOK' /\ NobodySends /\ ProofsAwaited
           /\ press'[u].call = c /\ press'[u].at = place
           /\ \A x \in User : x # u => press'[x] = press[x]
  <1> USE DEF BaseInv, DeliveryTypeOK
  <1> DEFINE p == [NoPress EXCEPT !.call = c, !.at = place]
  <1>1. Sound(p) /\ p.call = c /\ p.at = place /\ p.told = None
    BY DEF NoPress, Sound, PressState, Answer, Reason
  <1>2. press' = [press EXCEPT ![u] = p] /\ press[u].at = "rest"
    BY DEF Starts, Resting
  <1> HIDE DEF p
  <1>3. PressTypeOK'
    BY <1>1, <1>2, PressMoves
  <1>4. press'[u] = p /\ \A x \in User : x # u => press'[x] = press[x]
    BY <1>2 DEF PressTypeOK
  <1>5. NobodySends
    BY <1>1, <1>2, <1>4 DEF NobodySends, None
  <1> QED
    BY <1>1, <1>2, <1>3, <1>4, <1>5, OneMoves

\* A proof of identity is asked for.
LEMMA VerifyMoves ==
    ASSUME BaseInv, NEW w \in Wallet, VerifyByProof(w)
    PROVE  /\ PressTypeOK' /\ ServiceTypeOK' /\ JobsOrdered' /\ NobodySends
  <1> USE DEF BaseInv, DeliveryTypeOK
  <1>1. w \in User /\ Prove(w) /\ Resting(w) /\ UNCHANGED attesting
    BY DEF VerifyByProof, User
  <1>2. PICK place \in {"proof", "build"} :
          /\ place = IF entry[w] = "proof" THEN "build" ELSE "proof"
          /\ Starts(w, Call("register_zk", w, IdentityProof(w)), place)
    BY DEF VerifyByProof
  <1>3. PICK c \in UserCalls : c = Call("register_zk", w, IdentityProof(w))
    <2>1. IdentityProof(w) \in Paper
      BY ClientAssumption, Roles DEF IdentityProof, Paper, ContractTypeOK
    <2>2. Call("register_zk", w, IdentityProof(w)) \in ZkCalls
      BY <2>1 DEF Call, ZkCalls
    <2> QED
      BY <2>2 DEF UserCalls
  <1>4. c.fn = "register_zk"
    BY <1>3 DEF Call
  <1>5. /\ PressTypeOK' /\ NobodySends /\ press'[w].call = c /\ press'[w].at = place
        /\ \A x \in User : x # w => press'[x] = press[x]
    BY <1>1, <1>2, <1>3, StartsTypes
  <1>6. jobs \in Seq(ProverJob) /\ \A i \in DOMAIN jobs : jobs[i].of \in Wallet
    BY JobsTyped DEF ServiceTypeOK, ProverJob
  <1>7. \A i \in DOMAIN jobs : jobs[i].of = w => ~jobs[i].awaited
    BY <1>1 DEF JobsOrdered, Resting
  <1>8. \A i \in DOMAIN jobs : jobs[i].of # w => press'[jobs[i].of] = press[jobs[i].of]
    BY <1>5, <1>6 DEF User
  <1>9. CASE entry[w] = "none"
    <2>1. PICK n :
            /\ jobs' \in Seq(ProverJob) /\ DOMAIN jobs' = DOMAIN jobs \cup {n}
            /\ \A i \in DOMAIN jobs : jobs'[i] = jobs[i]
            /\ n \notin DOMAIN jobs
            /\ jobs'[n] = [of |-> w, kept |-> TRUE, awaited |-> TRUE]
            /\ entry' = [entry EXCEPT ![w] = "job"]
      BY <1>1, <1>6, <1>9, JobAdded
    <2>2. ServiceTypeOK'
      BY <1>1, <2>1 DEF ServiceTypeOK, attesting
    <2>3. jobs'[n].of = w /\ press'[w].at = "proof" /\ entry'[w] = "job"
          /\ \A x \in Wallet : x # w => entry'[x] = entry[x]
      BY <1>2, <1>5, <1>9, <2>1 DEF ServiceTypeOK
    <2>4. \A i \in DOMAIN jobs : jobs[i].of = w => ~jobs[i].kept
      BY <1>9 DEF JobsOrdered
    <2>5. ASSUME NEW i \in DOMAIN jobs'
          PROVE  /\ jobs'[i].awaited => /\ press'[jobs'[i].of].at = "proof"
                                        /\ press'[jobs'[i].of].call.fn = "register_zk"
                 /\ jobs'[i].kept => entry'[jobs'[i].of] = "job"
      <3>1. CASE i = n
        BY <1>4, <1>5, <2>3, <3>1
      <3>2. CASE i # n
        <4>1. i \in DOMAIN jobs /\ jobs'[i] = jobs[i]
          BY <2>1, <3>2
        <4> QED
          BY <1>6, <1>7, <1>8, <2>3, <2>4, <4>1 DEF JobsOrdered
      <3> QED
        BY <3>1, <3>2
    <2>6. ASSUME NEW i \in DOMAIN jobs', NEW j \in DOMAIN jobs',
                 jobs'[i].of = jobs'[j].of, i # j
          PROVE  ~(jobs'[i].awaited /\ jobs'[j].awaited) /\ ~(jobs'[i].kept /\ jobs'[j].kept)
      BY <1>7, <2>1, <2>3, <2>4, <2>6 DEF JobsOrdered
    <2> QED
      BY <1>5, <2>2, <2>5, <2>6 DEF JobsOrdered
  <1>10. CASE entry[w] = "job"
    <2>1. /\ SameJobs /\ entry' = entry
          /\ \A i \in DOMAIN jobs :
               /\ jobs'[i].kept = jobs[i].kept
               /\ jobs'[i].awaited => jobs[i].awaited \/ (jobs[i].of = w /\ jobs[i].kept)
      BY <1>1, <1>6, <1>10, JobShared
    <2>2. ServiceTypeOK'
      BY <1>1, <2>1 DEF ServiceTypeOK, attesting, SameJobs
    <2>3. press'[w].at = "proof"
      BY <1>2, <1>5, <1>10
    <2>4. ASSUME NEW i \in DOMAIN jobs
          PROVE  /\ jobs'[i].awaited => /\ press'[jobs[i].of].at = "proof"
                                        /\ press'[jobs[i].of].call.fn = "register_zk"
                 /\ jobs'[i].kept => entry'[jobs[i].of] = "job"
      BY <1>4, <1>5, <1>7, <1>8, <2>1, <2>3 DEF JobsOrdered
    <2>5. ASSUME NEW i \in DOMAIN jobs, NEW j \in DOMAIN jobs, jobs[i].of = jobs[j].of, i # j
          PROVE  ~(jobs'[i].awaited /\ jobs'[j].awaited) /\ ~(jobs'[i].kept /\ jobs'[j].kept)
      BY <1>7, <2>1, <2>5 DEF JobsOrdered
    <2> QED
      BY <1>5, <2>1, <2>2, <2>4, <2>5 DEF JobsOrdered, SameJobs
  <1>11. CASE entry[w] \notin {"none", "job"}
    <2>1. UNCHANGED proving
      BY <1>1, <1>11 DEF Prove
    <2>2. jobs' = jobs /\ entry' = entry
      BY <2>1 DEF proving
    <2>3. JobsOrdered'
      BY <1>7, <1>8, <2>2 DEF JobsOrdered
    <2> QED
      BY <1>1, <1>5, <2>1, <2>3, ServiceFrame
  <1> QED
    BY <1>9, <1>10, <1>11

\* A request joins the relayer's queue.
LEMMA AskTypes ==
    ASSUME RelayerTypeOK, Queued, NEW r \in Request, ~InHand(r), Ask(r),
           UNCHANGED <<sending, lastSeq>>
    PROVE  /\ RelayerTypeOK' /\ Queued' /\ AskedKept
           /\ \A s \in Request : asked'[s] = "done" => asked[s] = "done"
  <1>1. queue \in Seq(Request) /\ queue' = Append(queue, r)
        /\ asked' = [asked EXCEPT ![r] = "queued"]
    BY DEF RelayerTypeOK, Ask
  <1>2. Len(queue) \in Nat /\ DOMAIN queue = 1 .. Len(queue)
    BY <1>1, LenProperties
  <1>3. /\ queue' \in Seq(Request) /\ Len(queue') = Len(queue) + 1
        /\ \A i \in 1 .. Len(queue) : queue'[i] = queue[i]
        /\ queue'[Len(queue) + 1] = r
    BY <1>1
  <1>4. DOMAIN queue' = 1 .. Len(queue) + 1
    BY <1>3, LenProperties
  <1>5. asked'[r] = "queued" /\ asked[r] \notin {"queued", "polling"}
        /\ \A s \in Request : s # r => asked'[s] = asked[s]
    BY <1>1 DEF RelayerTypeOK, InHand
  <1>6. RelayerTypeOK'
    <2>1. queue' # <<>>
      BY <1>2, <1>3, EmptySeq
    <2> QED
      BY <1>1, <1>3, <2>1 DEF RelayerTypeOK
  <1>7. \A i \in DOMAIN queue : queue[i] # r /\ queue[i] \in Request
    BY <1>1, <1>2, <1>5, ElementOfSeq DEF Queued
  <1>8. Queued'
    <2>1. ASSUME NEW i \in DOMAIN queue' PROVE asked'[queue'[i]] = "queued"
      <3>1. CASE i = Len(queue) + 1
        BY <1>3, <1>5, <3>1
      <3>2. CASE i # Len(queue) + 1
        <4>1. i \in DOMAIN queue /\ queue'[i] = queue[i]
          BY <1>2, <1>3, <1>4, <3>2
        <4> QED
          BY <1>5, <1>7, <4>1 DEF Queued
      <3> QED
        BY <3>1, <3>2
    <2>2. ASSUME NEW i \in DOMAIN queue', NEW j \in DOMAIN queue', queue'[i] = queue'[j]
          PROVE  i = j
      <3>1. \A k \in DOMAIN queue' : k # Len(queue) + 1 => k \in DOMAIN queue
                                                           /\ queue'[k] = queue[k]
        BY <1>2, <1>3, <1>4
      <3>2. CASE i = Len(queue) + 1 \/ j = Len(queue) + 1
        BY <1>3, <1>7, <2>2, <3>1, <3>2
      <3>3. CASE ~(i = Len(queue) + 1 \/ j = Len(queue) + 1)
        BY <2>2, <3>1, <3>3 DEF Queued
      <3> QED
        BY <3>2, <3>3
    <2> QED
      BY <2>1, <2>2 DEF Queued
  <1>9. AskedKept /\ \A s \in Request : asked'[s] = "done" => asked[s] = "done"
    BY <1>5 DEF AskedKept
  <1> QED
    BY <1>6, <1>8, <1>9

LEMMA OnboardingVerdicts ==
    ASSUME VInv, OnboardingNext, UNCHANGED bridging
    PROVE  VInv' /\ relayer' = relayer
  <1> USE DEF VInv, VerdictInv, DeliveryTypeOK, BaseInv
  <1>1. PICK w \in Wallet : \/ Refresh(w) \/ Leave(w) \/ PressVerify(w) \/ PressDemo(w)
                            \/ PressJoin(w) \/ PressRegister(w) \/ ShowCode(w)
    BY DEF OnboardingNext
  <1>2. w \in User /\ w \in Request
    BY DEF User, Request
  <1>3. UNCHANGED <<contract, seq, seen>>
    BY <1>1 DEF Refresh, Leave, PressVerify, VerifyByProof, PressDemo, PressJoin,
                WriteDirectly, PressRegister, ProveAndRegister, ShowCode, network
  <1>4. ContractTypeOK' /\ relayer' = relayer /\ UNCHANGED <<cliprailVars, minted>> /\ Grown
    BY <1>3, ContractsUntouched, SameGrown DEF contract
  <1>5. BridgeTypeOK' /\ RunKept
    BY BridgeFrame
  <1>6. NetworkTypeOK /\ UNCHANGED <<pool, closed>> => NetworkTypeOK'
    BY <1>3 DEF NetworkTypeOK
  <1>7. UNCHANGED relaying => /\ RelayerTypeOK' /\ AskedKept /\ Queued'
                              /\ \A r \in Wallet : asked'[r] = "done" => asked[r] = "done"
    BY RelayerFrame DEF relaying
  <1>8. CASE Refresh(w)
    <2>1. /\ Resting(w) /\ press' = [press EXCEPT ![w] = NoPress]
          /\ asked' = [asked EXCEPT ![w] = Forgotten(w)]
          /\ UNCHANGED <<pool, closed, queue, sending, lastSeq, proving, attesting>>
      BY <1>8 DEF Refresh, network
    <2>2. PressTypeOK' /\ press'[w] = NoPress /\ \A x \in User : x # w => press'[x] = press[x]
      BY <1>2, <2>1, NoPressSound, PressMoves DEF PressTypeOK
    <2>3. NobodySends /\ ProofsAwaited
      BY <1>2, <2>1, <2>2, OneMoves DEF NobodySends, NoPress, Resting, None
    <2>4. /\ asked'[w] = (IF asked[w] \in {"queued", "polling"} THEN asked[w] ELSE None)
          /\ \A r \in Request : r # w => asked'[r] = asked[r]
      BY <1>2, <2>1 DEF Forgotten, InHand, RelayerTypeOK
    <2>5. RelayerTypeOK'
      BY <1>2, <2>1 DEF Forgotten, RelayerTypeOK, Verdict, Answer, Reason
    <2>6. Queued' /\ AskedKept /\ \A r \in Wallet : asked'[r] = "done" => asked[r] = "done"
      BY <2>1, <2>4, QueueStays DEF AskedKept, None, Request
    <2> QED
      BY <1>4, <1>5, <1>6, <2>1, <2>2, <2>3, <2>5, <2>6, QuietVerdicts, JobsFrame, ServiceFrame
  <1>9. CASE Leave(w)
    <2>1. /\ Ends(w, "unsure") /\ NoLongerAwaited(w) /\ Forsake(w, w)
          /\ UNCHANGED <<relaying, entry, attesting>>
      BY <1>9 DEF Leave
    <2>2. PressTypeOK' /\ press'[w].told = "unsure"
          /\ \A x \in User : x # w => press'[x] = press[x]
      <3>1. "unsure" \in Answer
        BY DEF Answer
      <3> QED
        BY <1>2, <2>1, <3>1, EndsTypes
    <2>3. JobsOrdered' /\ ServiceTypeOK'
      <3>1. JobsOrdered' /\ jobs' \in Seq(ProverJob)
        BY <2>1, <2>2, LeftJobsOrdered DEF User
      <3> QED
        BY <2>1, <3>1 DEF ServiceTypeOK, attesting
    <2>4. Thinned /\ WaitsKept
      BY <1>2, <1>4, <1>5, <1>7, <2>1, <2>2, WaitsForsaken
    <2>5. NetworkTypeOK' /\ Matched'
      BY <1>3, <1>4, <2>4, MatchedThins, NetworkFrame DEF Thinned
    <2>6. ToldTrue'
      <3>1. \A x \in User : press'[x].told = "done" =>
              press[x].told = "done" /\ press'[x].call = press[x].call
        BY <2>2
      <3> QED
        BY <1>4, <1>7, <2>1, <3>1, ToldStays
    <2> QED
      BY <1>4, <1>5, <1>7, <2>1, <2>2, <2>3, <2>5, <2>6
  <1>10. CASE PressVerify(w)
    <2>1. VerifyByProof(w) /\ UNCHANGED <<pool, closed, relaying>>
      BY <1>10 DEF PressVerify, VerifyByProof, network
    <2>2. PressTypeOK' /\ ServiceTypeOK' /\ JobsOrdered' /\ NobodySends
      BY <2>1, VerifyMoves
    <2> QED
      BY <1>4, <1>5, <1>6, <1>7, <2>1, <2>2, QuietVerdicts
  <1>11. CASE PressDemo(w)
    <2>1. /\ Ask(w) /\ ~InHand(w) /\ UNCHANGED <<sending, lastSeq>>
          /\ UNCHANGED <<pool, closed, proving, attesting, press>>
      BY <1>11 DEF PressDemo, network
    <2>2. /\ RelayerTypeOK' /\ Queued' /\ AskedKept
          /\ \A r \in Wallet : asked'[r] = "done" => asked[r] = "done"
      BY <1>2, <2>1, AskTypes DEF Request
    <2>3. PressTypeOK' /\ NobodySends /\ ProofsAwaited
      BY <2>1, PressFrame
    <2> QED
      BY <1>4, <1>5, <1>6, <2>1, <2>2, <2>3, QuietVerdicts, JobsFrame, ServiceFrame
  <1>12. CASE PressJoin(w)
    <2>1. /\ Resting(w) /\ Starts(w, Call("join", w, Nobody), "build")
          /\ UNCHANGED <<pool, closed, relaying, proving, attesting>>
      BY <1>12 DEF PressJoin, WriteDirectly, network
    <2>2. \E c \in UserCalls : c = Call("join", w, Nobody)
      BY DEF UserCalls, JoinCalls, Call
    <2>3. PressTypeOK' /\ NobodySends /\ ProofsAwaited
      BY <1>2, <2>1, <2>2, StartsTypes
    <2> QED
      BY <1>4, <1>5, <1>6, <1>7, <2>1, <2>3, QuietVerdicts, JobsFrame, ServiceFrame
  <1>13. CASE PressRegister(w)
    <2> DEFINE v == VideoOf[w]
    <2>1. /\ Resting(w) /\ UNCHANGED <<pool, closed, relaying, proving>>
          /\ w \in DOMAIN VideoOf /\ v \in Video
      BY <1>13, ClientAssumption DEF PressRegister, ProveAndRegister, network
    <2>2. PICK o \in Owner, place \in {"proof", "build"} :
            Starts(w, Call("register_clip", w, ClipProof(v, o)), place)
      BY <1>13, <2>1 DEF PressRegister, ProveAndRegister, Owner, ServiceTypeOK
    <2>3. \E c \in UserCalls : c = Call("register_clip", w, ClipProof(v, o))
      <3>1. ClipProof(v, o) \in PostPaper
        BY <2>1 DEF ClipProof, PostPaper, ContractTypeOK
      <3>2. Call("register_clip", w, ClipProof(v, o)) \in ClipCalls
        BY <3>1 DEF Call, ClipCalls
      <3> QED
        BY <3>2 DEF UserCalls
    <2>4. PressTypeOK' /\ NobodySends /\ ProofsAwaited
      BY <1>2, <2>1, <2>2, <2>3, StartsTypes
    <2>5. ServiceTypeOK'
      <3>1. UNCHANGED attesting \/ (Fetches(v) /\ UNCHANGED <<page, saved>>)
        BY <1>13 DEF PressRegister, ProveAndRegister
      <3>2. fetching' \in [Video -> [at : {"rest", "asked", "read"}, owner : Owner]]
        BY <3>1 DEF Fetches, attesting, ServiceTypeOK
      <3> QED
        BY <2>1, <3>1, <3>2 DEF attesting, proving, ServiceTypeOK
    <2> QED
      BY <1>4, <1>5, <1>6, <1>7, <2>1, <2>4, <2>5, QuietVerdicts, JobsFrame
  <1>14. CASE ShowCode(w)
    <2>1. /\ Edit(VideoOf[w], w)
          /\ UNCHANGED <<pool, closed, relaying, proving, press>>
      BY <1>14 DEF ShowCode, network
    <2>2. ServiceTypeOK'
      BY <2>1 DEF Edit, ServiceTypeOK, proving, Owner
    <2>3. PressTypeOK' /\ NobodySends /\ ProofsAwaited
      BY <2>1, PressFrame
    <2> QED
      BY <1>4, <1>5, <1>6, <1>7, <2>1, <2>2, <2>3, QuietVerdicts, JobsFrame
  <1> HIDE DEF VInv
  <1> QED
    BY <1>1, <1>4, <1>8, <1>9, <1>10, <1>11, <1>12, <1>13, <1>14

\* Pages are read, and kept proofs grow old.
LEMMA ServiceVerdicts ==
    ASSUME VInv, ServiceNext, UNCHANGED <<contract, network, relaying, press, bridging>>
    PROVE  VInv' /\ relayer' = relayer
  <1> USE DEF VInv, VerdictInv, DeliveryTypeOK, BaseInv
  <1>1. ContractTypeOK' /\ relayer' = relayer /\ UNCHANGED <<cliprailVars, minted>>
    BY ContractsUntouched DEF contract
  <1>2. UNCHANGED <<pool, closed>> /\ NetworkTypeOK'
    BY DEF network, NetworkTypeOK
  <1>3. BridgeTypeOK' /\ RunKept
    BY BridgeFrame
  <1>4. /\ RelayerTypeOK' /\ AskedKept /\ Queued'
        /\ \A r \in Wallet : asked'[r] = "done" => asked[r] = "done"
    BY RelayerFrame DEF relaying
  <1>5. PressTypeOK' /\ NobodySends /\ ProofsAwaited
    BY PressFrame
  <1>6. Matched' /\ ToldTrue'
    BY <1>1, <1>2, <1>3, <1>4, <1>5, QuietVerdicts
  <1>7. ASSUME NEW v \in Video, ReadPage(v) \/ GrowsOld(v), UNCHANGED proving
        PROVE  ServiceTypeOK' /\ JobsOrdered'
    <2>1. fetching' \in [Video -> [at : {"rest", "asked", "read"}, owner : Owner]]
      <3>1. page[v] \in Owner
        BY DEF ServiceTypeOK
      <3>2. [at |-> "read", owner |-> page[v]] \in
              [at : {"rest", "asked", "read"}, owner : Owner]
        BY <3>1
      <3> QED
        BY <1>7, <3>2 DEF ReadPage, GrowsOld, ServiceTypeOK
    <2>2. saved' \in [Video -> [owner : Owner, age : {"none", "young", "old"}]]
      BY <1>7 DEF ReadPage, GrowsOld, ServiceTypeOK
    <2>3. page' = page
      BY <1>7 DEF ReadPage, GrowsOld
    <2> QED
      BY <1>5, <1>7, <2>1, <2>2, <2>3, JobsFrame DEF ServiceTypeOK, proving
  <1>8. ASSUME NEW w \in Wallet, Expires(w), UNCHANGED attesting
        PROVE  ServiceTypeOK' /\ JobsOrdered'
    <2>1. jobs \in Seq(ProverJob) /\ \A i \in DOMAIN jobs : jobs[i].of \in Wallet
      BY JobsTyped DEF ServiceTypeOK, ProverJob
    <2>2. /\ SameJobs
          /\ \A i \in DOMAIN jobs :
               /\ jobs'[i].awaited = jobs[i].awaited
               /\ jobs'[i].kept => jobs[i].kept /\ jobs[i].of # w
      BY <1>8, <2>1, JobsExpire
    <2>3. entry' = [entry EXCEPT ![w] = "none"]
      BY <1>8 DEF Expires
    <2>4. ServiceTypeOK'
      BY <1>8, <2>2, <2>3 DEF ServiceTypeOK, attesting, SameJobs
    <2>5. ASSUME NEW i \in DOMAIN jobs
          PROVE  /\ jobs'[i].awaited => /\ press'[jobs[i].of].at = "proof"
                                        /\ press'[jobs[i].of].call.fn = "register_zk"
                 /\ jobs'[i].kept => entry'[jobs[i].of] = "job"
      BY <2>1, <2>2, <2>3 DEF JobsOrdered, ServiceTypeOK
    <2>6. ASSUME NEW i \in DOMAIN jobs, NEW j \in DOMAIN jobs, jobs[i].of = jobs[j].of, i # j
          PROVE  ~(jobs'[i].awaited /\ jobs'[j].awaited) /\ ~(jobs'[i].kept /\ jobs'[j].kept)
      BY <2>2, <2>6 DEF JobsOrdered
    <2> QED
      BY <2>2, <2>4, <2>5, <2>6 DEF JobsOrdered, SameJobs
  <1> QED
    BY <1>1, <1>2, <1>3, <1>4, <1>5, <1>6, <1>7, <1>8 DEF ServiceNext

-----------------------------------------------------------------------------
(***************************************************************************)
(* The bridge.                                                             *)
(***************************************************************************)
RunState ==
    [at : {"rest", "trustline", "burn", "receipt", "attestation", "mint", "send", "minting"},
     burn : Nat, resumed : BOOLEAN, base : Nat, told : Verdict]
BurnState ==
    [state : {"sent", "burnt", "reverted", "attested"},
     known : BOOLEAN, printed : BOOLEAN, arrived : BOOLEAN]
FundingState == [at : {"rest", "writing"}, escrow : Nat, told : Verdict]

\* The steps of a run: all but FundCampaign and Funded.
RunStep ==
    \/ StartBridge \/ Trustline \/ BurnRefused \/ SendBurn \/ Receipt
    \/ WaitTimesOut \/ GotAttestation \/ PrepareMint \/ SendMint
    \/ SendMintFails \/ MintClosed \/ MintTimesOut
    \/ \E b \in Burn : Resume(b) \/ Included(b) \/ Attests(b)

\* Where a run goes.
LEMMA StopsTypes ==
    ASSUME run \in RunState, NEW y \in Verdict, Stops(y)
    PROVE  /\ run' \in RunState
           /\ run'.at = "rest" /\ run'.told = y
           /\ run'.burn = run.burn /\ run'.resumed = run.resumed
  BY DEF RunState, Stops

LEMMA RunGoesTypes ==
    ASSUME run \in RunState,
           NEW place \in {"trustline", "burn", "receipt", "attestation", "mint", "send",
                          "minting"},
           RunGoes(place)
    PROVE  /\ run' \in RunState /\ run'.at = place
           /\ run'.burn = run.burn /\ run'.resumed = run.resumed /\ run'.told = run.told
  BY DEF RunState, RunGoes

\* Every step of a run respects its types.
LEMMA RunTypes ==
    ASSUME BridgeTypeOK, run \in RunState
    PROVE  /\ StartBridge => run' \in RunState
           /\ \A b \in Burn : Resume(b) => run' \in RunState
           /\ Trustline => run' \in RunState
           /\ BurnRefused \/ WaitTimesOut => run' \in RunState
           /\ MintTimesOut \/ MintClosed => run' \in RunState
  <1> USE StopsTypes, RunGoesTypes
  <1>0. NoRun \in RunState
    BY DEF NoRun, RunState, Verdict, Answer, Reason
  <1>1. StartBridge => run' \in RunState
    BY <1>0 DEF StartBridge, RunState
  <1>2. ASSUME NEW b \in Burn, Resume(b) PROVE run' \in RunState
    BY <1>0, <1>2, BridgeAssumption DEF Resume, RunState
  <1>3. Trustline => run' \in RunState
    BY DEF Trustline, Verdict, Answer
  <1>4. BurnRefused \/ WaitTimesOut => run' \in RunState
    BY DEF BurnRefused, WaitTimesOut, Verdict, Answer
  <1>5. MintTimesOut \/ MintClosed => run' \in RunState
    BY DEF MintTimesOut, MintClosed, Verdict, Answer
  <1> QED
    BY <1>1, <1>2, <1>3, <1>4, <1>5

\* The burns.
LEMMA BurnTypes ==
    ASSUME burns \in Seq(BurnState)
    PROVE  /\ DOMAIN burns = 1 .. Len(burns) /\ Len(burns) \in Nat
           /\ \A b \in DOMAIN burns : burns[b] \in BurnState
  BY LenProperties, ElementOfSeq

\* One burn changes.
LEMMA BurnChanges ==
    ASSUME burns \in Seq(BurnState), NEW b, NEW s \in BurnState,
           burns' = [burns EXCEPT ![b] = s]
    PROVE  /\ burns' \in Seq(BurnState) /\ DOMAIN burns' = DOMAIN burns
           /\ b \in DOMAIN burns => burns'[b] = s
           /\ \A c \in DOMAIN burns : c # b => burns'[c] = burns[c]
  <1>1. burns' \in [DOMAIN burns -> BurnState]
    BY BurnTypes
  <1> QED
    BY <1>1, Relabelled

\* One burn more.
LEMMA BurnAdded ==
    ASSUME burns \in Seq(BurnState), NEW hash \in BOOLEAN, Broadcast(hash)
    PROVE  /\ burns' \in Seq(BurnState)
           /\ DOMAIN burns' = DOMAIN burns \cup {Len(burns) + 1}
           /\ Len(burns) + 1 \notin DOMAIN burns /\ Len(burns) \in Nat
           /\ burns'[Len(burns) + 1].state = "sent"
           /\ \A c \in DOMAIN burns : burns'[c] = burns[c]
  <1> DEFINE s == [state |-> "sent", known |-> hash, printed |-> Printed(hash),
                   arrived |-> FALSE]
  <1>1. s \in BurnState /\ s.state = "sent" /\ burns' = Append(burns, s)
    BY DEF BurnState, Broadcast, Printed
  <1> HIDE DEF s
  <1>2. burns' \in Seq(BurnState) /\ Len(burns') = Len(burns) + 1
    BY <1>1
  <1>3. DOMAIN burns' = 1 .. Len(burns) + 1
    BY <1>2, LenProperties
  <1>4. burns'[Len(burns) + 1] = s /\ \A c \in 1 .. Len(burns) : burns'[c] = burns[c]
    BY <1>1
  <1> QED
    BY <1>1, <1>2, <1>3, <1>4, BurnTypes

\* A run's step does one of three things to the network.
LEMMA RunSends ==
    ASSUME RunStep, DeliveryTypeOK
    PROVE  /\ UNCHANGED <<seq, seen, dropped, cliprailVars, minted>>
           /\ \/ UNCHANGED <<pool, closed>> /\ RunKept
              \/ /\ closed' = closed /\ run.at = "send" /\ run'.burn = run.burn
                 /\ \/ Sends(relayer, MintCall, Nobody)
                    \/ Sends(relayer, MintCall, Brand) /\ run'.at = "minting"
              \/ Forsake(relayer, Brand) /\ run.at = "minting"
  <1>1. StartBridge \/ (\E b \in Burn : Resume(b)) \/ Trustline =>
          /\ UNCHANGED <<seq, seen, dropped, cliprailVars, minted, pool, closed>>
          /\ RunKept
    BY DEF StartBridge, Resume, Trustline, contract, network, RunKept
  <1>2. BurnRefused \/ SendBurn \/ Receipt \/ WaitTimesOut \/ GotAttestation \/ PrepareMint =>
          /\ UNCHANGED <<seq, seen, dropped, cliprailVars, minted, pool, closed>>
          /\ RunKept
    BY DEF BurnRefused, SendBurn, Receipt, WaitTimesOut, GotAttestation, PrepareMint, contract,
           network, RunKept
  <1>3. (\E b \in Burn : Included(b) \/ Attests(b)) =>
          /\ UNCHANGED <<seq, seen, dropped, cliprailVars, minted, pool, closed>>
          /\ RunKept
    BY DEF Included, Attests, contract, network, RunKept
  <1>4. MintClosed \/ MintTimesOut =>
          /\ UNCHANGED <<seq, seen, dropped, cliprailVars, minted>>
          /\ Forsake(relayer, Brand) /\ run.at = "minting"
    BY DEF MintClosed, MintTimesOut, contract
  <1>5. run \in RunState
    BY DEF DeliveryTypeOK, BridgeTypeOK, RunState
  <1>6. ASSUME SendMint \/ SendMintFails
        PROVE  /\ UNCHANGED <<seq, seen, dropped, cliprailVars, minted>>
               /\ closed' = closed /\ run.at = "send" /\ run'.burn = run.burn
               /\ \/ UNCHANGED pool
                  \/ Sends(relayer, MintCall, Nobody)
                  \/ Sends(relayer, MintCall, Brand) /\ run'.at = "minting"
    <2>1. RunGoes("minting") => run'.burn = run.burn /\ run'.at = "minting"
      BY <1>5, RunGoesTypes
    <2>2. Stops("resume") \/ Stops("unsure") => run'.burn = run.burn
      BY <1>5, StopsTypes DEF Verdict, Answer
    <2> QED
      BY <1>6, <2>1, <2>2 DEF SendMint, SendMintFails, contract
  <1> QED
    BY <1>1, <1>2, <1>3, <1>4, <1>6 DEF RunStep, RunKept

\* And what it does to the rest.
LEMMA RunStepTypes ==
    ASSUME DeliveryTypeOK, RunStep
    PROVE  ContractTypeOK' /\ NetworkTypeOK' /\ BridgeTypeOK' /\ relayer' = relayer
  <1> USE DEF DeliveryTypeOK
  <1>1. run \in RunState /\ burns \in Seq(BurnState) /\ Amount \in Nat
    BY BridgeAssumption DEF BridgeTypeOK, RunState, BurnState
  <1>2. /\ UNCHANGED <<seq, seen, cliprailVars, minted>>
        /\ \/ UNCHANGED <<pool, closed>>
           \/ /\ closed' = closed
              /\ Sends(relayer, MintCall, Nobody) \/ Sends(relayer, MintCall, Brand)
           \/ Forsake(relayer, Brand)
    BY RunSends
  <1>3. trusting' \in BOOLEAN
    BY DEF RunStep, StartBridge, Trustline, BurnRefused, SendBurn, Receipt, WaitTimesOut,
           GotAttestation, PrepareMint, SendMint, SendMintFails, MintClosed, MintTimesOut,
           Resume, Included, Attests, contract, ContractTypeOK
  <1>4. ContractTypeOK' /\ relayer' = relayer
    BY <1>2, <1>3, ContractFrame
  <1>5. relayer \in Sender /\ Brand \in Asker \ {Nobody} /\ Nobody \in Asker
        /\ MintCall \in Calls
    <2>1. MintCall \in MintCalls
      BY RelayerApart DEF MintCall, Call, MintCalls, BridgeTypeOK
    <2> QED
      BY <2>1, RelayerApart, NetworkAssumption DEF Asker, User, Calls
  <1>6. NetworkTypeOK'
    <2>1. CASE UNCHANGED <<pool, closed>>
      BY <1>2, <2>1 DEF NetworkTypeOK
    <2>2. CASE closed' = closed /\ \E x \in Asker : Sends(relayer, MintCall, x)
      <3>1. \E c \in Calls : c = MintCall
        BY <1>5
      <3>2. pool' \in [Sender -> Seq(Tx)]
        BY <1>5, <2>2, <3>1, SendsAdds
      <3> QED
        BY <1>2, <2>2, <3>2, NetworkFrame
    <2>3. CASE Forsake(relayer, Brand)
      BY <1>2, <1>5, <2>3, ForsakeThins, NetworkFrame DEF Thinned
    <2> QED
      BY <1>2, <1>5, <2>1, <2>2, <2>3
  <1>7. run' \in RunState
    <2>1. CASE SendBurn
      <3>1. CASE Stops("unsure")
        BY <1>1, <3>1, StopsTypes DEF Verdict, Answer
      <3>2. CASE run' = [run EXCEPT !.at = "receipt", !.burn = Len(burns) + 1]
        <4>1. Len(burns) + 1 \in Nat
          BY <1>1, BurnTypes
        <4> QED
          BY <1>1, <3>2, <4>1 DEF RunState
      <3> QED
        BY <2>1, <3>1, <3>2 DEF SendBurn
    <2>2. CASE Receipt \/ GotAttestation
      BY <1>1, <2>2, RunGoesTypes, StopsTypes DEF Receipt, GotAttestation, Verdict, Answer
    <2>3. CASE PrepareMint
      <3>1. CASE Stops("resume")
        BY <1>1, <3>1, StopsTypes DEF Verdict, Answer
      <3>2. CASE run' = [run EXCEPT !.at = "send", !.base = seen[relayer]]
        <4>1. seen[relayer] \in Nat
          BY RelayerApart DEF NetworkTypeOK
        <4> QED
          BY <1>1, <3>2, <4>1 DEF RunState
      <3> QED
        BY <2>3, <3>1, <3>2 DEF PrepareMint
    <2>4. CASE SendMint \/ SendMintFails
      BY <1>1, <2>4, RunGoesTypes, StopsTypes DEF SendMint, SendMintFails, Verdict, Answer
    <2>5. CASE \E b \in Burn : Included(b) \/ Attests(b)
      BY <1>1, <2>5 DEF Included, Attests
    <2> QED
      BY <1>1, <2>1, <2>2, <2>3, <2>4, <2>5, RunTypes DEF RunStep
  <1>8. burns' \in Seq(BurnState)
    <2>1. CASE SendBurn
      BY <1>1, <2>1, BurnAdded DEF SendBurn
    <2>2. ASSUME NEW b, NEW s, s \in BurnState, burns' = [burns EXCEPT ![b] = s]
          PROVE  burns' \in Seq(BurnState)
      BY <1>1, <2>2, BurnChanges
    <2>3. \A b \in DOMAIN burns :
            /\ \A y \in {"burnt", "reverted", "attested"} :
                 [burns[b] EXCEPT !.state = y] \in BurnState
            /\ [burns[b] EXCEPT !.printed = TRUE] \in BurnState
            /\ [burns[b] EXCEPT !.arrived = TRUE] \in BurnState
      BY <1>1, BurnTypes DEF BurnState
    <2>4. CASE \E b \in Burn : Included(b) \/ Attests(b)
      BY <1>1, <2>2, <2>3, <2>4 DEF Included, Attests
    <2>5. CASE Receipt
      <3>1. CASE run.burn \in DOMAIN burns
        BY <2>2, <2>3, <2>5, <3>1 DEF Receipt
      <3>2. CASE run.burn \notin DOMAIN burns
        <4>1. burns' = burns
          BY <1>1, <2>5, <3>2 DEF Receipt
        <4> QED
          BY <1>1, <4>1
      <3> QED
        BY <3>1, <3>2
    <2>6. CASE MintClosed
      <3>1. CASE run.burn \in DOMAIN burns /\ burns' # burns
        BY <2>2, <2>3, <2>6, <3>1 DEF MintClosed
      <3>2. CASE run.burn \notin DOMAIN burns
        <4>1. burns' = burns
          BY <1>1, <2>6, <3>2 DEF MintClosed
        <4> QED
          BY <1>1, <4>1
      <3> QED
        BY <1>1, <3>1, <3>2
    <2> QED
      BY <1>1, <2>1, <2>4, <2>5, <2>6
      DEF RunStep, StartBridge, Trustline, BurnRefused, WaitTimesOut, GotAttestation,
          PrepareMint,
          SendMint, SendMintFails, MintTimesOut, Resume
  <1>9. savings' \in Nat /\ bridged' \in {0, Amount, DefaultAmount} /\ funding' = funding
    <2>1. savings \in Nat /\ bridged \in {0, Amount, DefaultAmount}
      BY DEF BridgeTypeOK
    <2>2. CASE \E b \in Burn : Included(b) \/ Attests(b)
      BY <1>1, <2>1, <2>2 DEF Included, Attests, Affordable
    <2>3. CASE MintClosed
      BY <2>1, <2>3 DEF MintClosed
    <2> QED
      BY <2>1, <2>2, <2>3
      DEF RunStep, StartBridge, Trustline, BurnRefused, SendBurn, Receipt, WaitTimesOut,
          GotAttestation, PrepareMint, SendMint, SendMintFails, MintTimesOut, Resume
  <1> QED
    BY <1>4, <1>6, <1>7, <1>8, <1>9 DEF BridgeTypeOK, RunState, BurnState

\* A run of the bridge tells nobody else anything.
LEMMA RunVerdicts ==
    ASSUME VInv, RunStep, UNCHANGED <<relaying, proving, attesting, press>>
    PROVE  VInv' /\ relayer' = relayer
  <1> USE DEF VInv, VerdictInv
  <1>1. ContractTypeOK' /\ NetworkTypeOK' /\ BridgeTypeOK' /\ relayer' = relayer
    BY RunStepTypes
  <1>2. UNCHANGED <<cliprailVars, minted>>
    BY RunSends
  <1>3. Grown
    BY <1>2, SameGrown DEF DeliveryTypeOK
  <1>4. RelayerTypeOK' /\ AskedKept /\ Queued'
        /\ \A w \in Wallet : asked'[w] = "done" => asked[w] = "done"
    BY RelayerFrame DEF DeliveryTypeOK, relaying
  <1>5. PressTypeOK' /\ PressKept /\ NobodySends /\ ProofsAwaited
    BY PressFrame DEF BaseInv
  <1>6. JobsOrdered' /\ ServiceTypeOK'
    BY <1>5, JobsFrame, ServiceFrame DEF BaseInv, DeliveryTypeOK
  <1>7. ToldTrue'
    BY <1>3, <1>4, <1>5, NothingTold
  <1>8. PICK c \in Calls : c = MintCall
    <2>1. MintCall \in MintCalls
      BY RelayerApart DEF MintCall, Call, MintCalls, DeliveryTypeOK, BridgeTypeOK
    <2> QED
      BY <2>1 DEF Calls
  <1>9. relayer \in Sender /\ relayer \notin User /\ Brand \notin Request
        /\ Brand \in Asker \ {Nobody} /\ Nobody \in Asker
    BY RelayerApart, Roles, NetworkAssumption DEF Asker, User
  <1>10. CASE UNCHANGED <<pool, closed>> /\ RunKept
    BY <1>1, <1>2, <1>4, <1>5, <1>6, <1>10, QuietVerdicts DEF DeliveryTypeOK
  <1>11. CASE /\ closed' = closed /\ run.at = "send" /\ run'.burn = run.burn
              /\ \/ Sends(relayer, MintCall, Nobody)
                 \/ Sends(relayer, MintCall, Brand) /\ run'.at = "minting"
    <2>1. RunKept
      BY <1>11 DEF RunKept
    <2>2. \A a \in Sender, x \in Asker : Awaits(a, x) => Kept(a, x)
      BY <1>1, <1>4, <1>5, <2>1, AllKept
    <2>3. CASE Sends(relayer, c, Nobody)
      <3>1. Matched'
        BY <1>3, <1>9, <1>11, <2>2, <2>3, MatchedSends
      <3> QED
        BY <1>1, <1>4, <1>5, <1>6, <1>7, <3>1 DEF DeliveryTypeOK
    <2>4. CASE Sends(relayer, c, Brand) /\ run'.at = "minting"
      <3>1. ~Awaits(relayer, Brand)
        BY <1>9, <1>11 DEF Awaits
      <3>2. \A a \in {relayer} : Awaits(a, Brand)' /\ AwaitedCall(a, Brand)' = c
        BY <1>1, <1>8, <1>9, <1>11, <2>4 DEF Awaits, AwaitedCall, MintCall
      <3>3. Matched'
        BY <1>3, <1>9, <1>11, <2>2, <2>4, <3>1, <3>2, MatchedSends
      <3> QED
        BY <1>1, <1>4, <1>5, <1>6, <1>7, <3>3 DEF DeliveryTypeOK
    <2> QED
      BY <1>8, <1>11, <2>3, <2>4
  <1>12. CASE Forsake(relayer, Brand)
    <2>1. Thinned /\ \A a \in {relayer} : ~Asks(a, Brand)'
      BY <1>9, <1>12, ForsakeThins DEF DeliveryTypeOK
    <2>2. ASSUME NEW a \in Sender, NEW x \in Asker, Awaits(a, x)
          PROVE  Kept(a, x) \/ ~Asks(a, x)'
      <3>1. CASE a = relayer /\ x = Brand
        BY <2>1, <3>1
      <3>2. CASE ~(a = relayer /\ x = Brand)
        <4>1. a \in User => press'[a].at = "sent" /\ press'[a].call = press[a].call
          BY <1>5, <2>2, <1>9 DEF Awaits, PressKept
        <4>2. a = relayer /\ x \in Request => asked'[x] = "polling"
          BY <1>4, <1>9, <2>2 DEF Awaits, AskedKept
        <4> QED
          BY <1>1, <2>2, <3>2, <4>1, <4>2, KeptPair
      <3> QED
        BY <3>1, <3>2
    <2>3. Matched'
      BY <1>3, <2>1, <2>2, MatchedThins DEF WaitsKept
    <2> QED
      BY <1>1, <1>4, <1>5, <1>6, <1>7, <2>3 DEF DeliveryTypeOK
  <1> HIDE DEF VInv
  <1> QED
    BY <1>1, <1>10, <1>11, <1>12, RunSends DEF VInv

\* The campaign script, and the keeper that shares the relayer.
LEMMA FundVerdicts ==
    ASSUME VInv, \/ FundCampaign
                 \/ Funded /\ UNCHANGED <<relaying, proving, attesting>>
                 \/ (\E k \in Job : KeeperSubmits(k))
                    /\ UNCHANGED <<proving, attesting, press, bridging>>
    PROVE  VInv' /\ relayer' = relayer
  <1> USE DEF VInv, VerdictInv, DeliveryTypeOK, BaseInv
  <1>1. UNCHANGED <<contract, network, proving, attesting>>
    BY DEF FundCampaign, WriteDirectly, Funded, KeeperSubmits
  <1>2. ContractTypeOK' /\ relayer' = relayer /\ UNCHANGED <<cliprailVars, minted>>
    BY <1>1, ContractsUntouched DEF contract
  <1>3. NetworkTypeOK' /\ UNCHANGED <<pool, closed>>
    BY <1>1 DEF network, NetworkTypeOK
  <1>4. ServiceTypeOK'
    BY <1>1, ServiceFrame
  <1>5. UNCHANGED relaying => /\ RelayerTypeOK' /\ AskedKept /\ Queued'
                              /\ \A w \in Wallet : asked'[w] = "done" => asked[w] = "done"
    BY RelayerFrame DEF relaying
  <1>6. CASE FundCampaign
    <2>1. /\ Resting(Brand) /\ Brand \in User
          /\ Starts(Brand, Call("create_campaign", Brand, NewOffer(Budget)), "build")
          /\ funding' = [at |-> "writing", escrow |-> held[Contract][USDC], told |-> None]
          /\ UNCHANGED <<run, burns, savings, bridged, relaying>>
      BY <1>6 DEF FundCampaign, WriteDirectly, User
    <2>2. NewOffer(Budget) \in Offer
      <3>1. Budget \in {Amount, DefaultAmount} \ {0}
        BY BridgeAssumption DEF Budget, BridgeTypeOK
      <3> QED
        BY <3>1, BridgeAssumption
    <2>3. \E c \in UserCalls : c = Call("create_campaign", Brand, NewOffer(Budget))
      <3>1. Call("create_campaign", Brand, NewOffer(Budget)) \in CreateCalls
        BY <2>2 DEF Call, CreateCalls
      <3> QED
        BY <3>1 DEF UserCalls
    <2>4. PressTypeOK' /\ NobodySends /\ ProofsAwaited
      BY <2>1, <2>3, StartsTypes
    <2>5. BridgeTypeOK' /\ RunKept
      <3>1. held[Contract][USDC] \in Nat
        BY BridgeAssumption DEF Account, ContractTypeOK, TreasuryTypeOK
      <3> QED
        BY <2>1, <3>1 DEF BridgeTypeOK, Verdict, Answer, Reason, RunKept
    <2> QED
      BY <1>1, <1>2, <1>3, <1>4, <1>5, <2>1, <2>4, <2>5, JobsFrame, QuietVerdicts
  <1>7. CASE Funded /\ UNCHANGED relaying
    <2>1. UNCHANGED <<run, burns, savings, bridged, press>>
      BY <1>7 DEF Funded
    <2>2. PICK y \in Verdict : funding' = [funding EXCEPT !.at = "rest", !.told = y]
      <3>1. press[Brand].told \in Verdict /\ "ok" \in Verdict /\ "MISMATCH" \in Verdict
        BY DEF PressTypeOK, PressState, Verdict, Answer, User
      <3> QED
        BY <1>7, <3>1 DEF Funded
    <2>3. BridgeTypeOK' /\ RunKept
      BY <2>1, <2>2 DEF BridgeTypeOK, RunKept
    <2>4. PressTypeOK' /\ NobodySends /\ ProofsAwaited
      BY <2>1, PressFrame
    <2> QED
      BY <1>1, <1>2, <1>3, <1>4, <1>5, <1>7, <2>3, <2>4, JobsFrame, QuietVerdicts
  <1>8. CASE (\E k \in Job : KeeperSubmits(k)) /\ UNCHANGED <<press, bridging>>
    <2>1. PICK k \in Job : KeeperSubmits(k)
      BY <1>8
    <2>2. k \in Request /\ ~InHand(k) /\ Ask(k) /\ UNCHANGED <<sending, lastSeq>>
      BY <2>1 DEF KeeperSubmits, Request, InHand, None
    <2>3. /\ RelayerTypeOK' /\ Queued' /\ AskedKept
          /\ \A w \in Wallet : asked'[w] = "done" => asked[w] = "done"
      BY <2>2, AskTypes DEF Request
    <2>4. BridgeTypeOK' /\ RunKept
      BY <1>8, BridgeFrame
    <2>5. PressTypeOK' /\ NobodySends /\ ProofsAwaited
      BY <1>8, PressFrame
    <2> QED
      BY <1>1, <1>2, <1>3, <1>4, <2>3, <2>4, <2>5, JobsFrame, QuietVerdicts
  <1> HIDE DEF VInv
  <1> QED
    BY <1>2, <1>6, <1>7, <1>8 DEF FundCampaign, WriteDirectly

-----------------------------------------------------------------------------
(***************************************************************************)
(* Verdicts.                                                               *)
(***************************************************************************)
LEMMA InitContract ==
    ASSUME DeliveryInit
    PROVE  ContractTypeOK
  <1> USE DEF DeliveryInit, ContractInit
  <1>1. now \in Nat /\ minted \subseteq Nat /\ trusting \in BOOLEAN
        /\ joined \in [CampaignId -> SUBSET Wallet]
        /\ postIndex \in [Video -> [campaign : CampaignId, owner : Wallet] \cup {Unregistered}]
    BY DEF NetworkInit
  <1>2. RegistryInv /\ issuerKey \in IssuerKey
    BY NoNullifierIsNone DEF RegistryInv, RegistryTypeOK, NullifiersKept
  <1>3. TreasuryTypeOK
    <2>1. HomeOffer \in Offer /\ HomeOffer.budget \in Nat /\ Home \in CampaignId
      BY DeliveryAssumption, TreasuryAssumption
    <2>2. count \in CampaignId \cup {0} /\ router = FALSE
      BY <2>1
    <2>3. NoCampaign \in [params : Offer \cup {NoOffer}, balance : Nat, bonds : Nat,
                          refunded : BOOLEAN]
      BY DEF NoCampaign
    <2> DEFINE home == [NoCampaign EXCEPT !.params = HomeOffer, !.balance = HomeOffer.budget]
    <2>4. home \in [params : Offer \cup {NoOffer}, balance : Nat, bonds : Nat,
                    refunded : BOOLEAN]
          /\ home.params = HomeOffer
      BY <2>1 DEF NoCampaign
    <2>5. campaign = [c \in CampaignId |-> IF People /\ c = Home THEN home ELSE NoCampaign]
      OBVIOUS
    <2> HIDE DEF home
    <2>6. campaign \in [CampaignId -> [params : Offer \cup {NoOffer}, balance : Nat,
                                       bonds : Nat, refunded : BOOLEAN]]
      BY <2>3, <2>4, <2>5
    <2>7. \A c \in 1 .. count : campaign[c].params \in Offer
      <3> SUFFICES ASSUME NEW c \in 1 .. count PROVE campaign[c].params \in Offer
        OBVIOUS
      <3>1. People
        <4>1. CASE ~People
          <5>1. count = 0
            BY <4>1
          <5> QED
            BY <5>1
        <4> QED
          BY <4>1
      <3>2. count = 1 /\ c \in Int /\ 1 <= c /\ c <= count
        BY <3>1 DEF Home
      <3>3. c = Home
        BY <3>2 DEF Home
      <3>4. campaign[c] = home
        BY <2>1, <2>5, <3>1, <3>3
      <3> QED
        BY <2>1, <2>4, <3>4
    <2>8. held \in [Account -> [Token -> Nat]]
      BY <2>1
    <2> QED
      BY <2>2, <2>6, <2>7, <2>8 DEF TreasuryTypeOK
  <1> QED
    BY <1>1, <1>2, <1>3 DEF ContractTypeOK

LEMMA InitVerdicts == DeliveryInit => VInv
  <1> SUFFICES ASSUME DeliveryInit PROVE VInv
    OBVIOUS
  <1>1. ContractTypeOK
    BY InitContract
  <1>2. NetworkTypeOK /\ \A a \in Sender : pool[a] = <<>>
    BY EmptySeq DEF DeliveryInit, NetworkInit, NetworkTypeOK
  <1>3. closed = {}
    BY DEF DeliveryInit, NetworkInit
  <1>4. RelayerTypeOK /\ queue = <<>> /\ \A r \in Request : asked[r] = None
    BY EmptySeq DEF DeliveryInit, RelayerInit, RelayerTypeOK, NotSending, Verdict, Answer,
       Reason
  <1>5. ServiceTypeOK /\ jobs = <<>>
    BY EmptySeq DEF DeliveryInit, ProverInit, ProofServiceInit, ServiceTypeOK, Owner, NoFetch,
                    NothingSaved
  <1>6. PressTypeOK /\ \A u \in User : press[u].told = None
    BY NoPressSound DEF DeliveryInit, ClientInit, PressTypeOK, NoPress
  <1>7. BridgeTypeOK
    BY BridgeAssumption, EmptySeq
    DEF DeliveryInit, BridgeInit, BridgeTypeOK, NoRun, Verdict, Answer, Reason
  <1>8. \A a \in Sender : DOMAIN pool[a] = {}
    BY <1>2
  <1>9. Matched
    BY <1>3, <1>8 DEF Matched
  <1>10. DOMAIN queue = {} /\ DOMAIN jobs = {}
    BY <1>4, <1>5
  <1>11. Queued /\ JobsOrdered
    BY <1>10 DEF Queued, JobsOrdered
  <1>12. ToldTrue
    BY <1>4, <1>6 DEF ToldTrue, None, Request
  <1> QED
    BY <1>1, <1>2, <1>4, <1>5, <1>6, <1>7, <1>9, <1>11, <1>12
    DEF VInv, VerdictInv, DeliveryTypeOK

LEMMA StepVerdicts ==
    VInv /\ [DeliveryNext]_deliveryVars => VInv' /\ relayer' = relayer
  <1> SUFFICES ASSUME VInv, [DeliveryNext]_deliveryVars PROVE VInv' /\ relayer' = relayer
    OBVIOUS
  <1>1. CASE Everywhere
    BY <1>1, NetworkVerdicts, RelayerVerdicts, ClientVerdicts, RestartVerdicts DEF Everywhere
  <1>2. CASE PeopleJoin
    BY <1>2, OnboardingVerdicts, ServiceVerdicts DEF PeopleJoin
  <1>3. CASE BrandFunds
    <2>1. BridgeNext => \/ RunStep /\ UNCHANGED <<relaying, proving, attesting, press>>
                        \/ FundCampaign
                        \/ Funded /\ UNCHANGED <<relaying, proving, attesting>>
      BY DEF BridgeNext, RunStep
    <2> QED
      BY <1>3, <2>1, RunVerdicts, FundVerdicts DEF BrandFunds
  <1>4. CASE UNCHANGED deliveryVars
    <2>1. UNCHANGED <<contract, network, relaying, proving, attesting, press, bridging>>
      BY <1>4 DEF deliveryVars
    <2>2. ContractTypeOK' /\ relayer' = relayer /\ UNCHANGED <<cliprailVars, minted>>
      BY <2>1, ContractsUntouched DEF contract, VInv, DeliveryTypeOK
    <2>3. NetworkTypeOK' /\ UNCHANGED <<pool, closed>>
      BY <2>1 DEF network, NetworkTypeOK, VInv, DeliveryTypeOK
    <2>4. RelayerTypeOK' /\ AskedKept /\ Queued'
          /\ \A w \in Wallet : asked'[w] = "done" => asked[w] = "done"
      BY <2>1, RelayerFrame DEF relaying, VInv, VerdictInv, DeliveryTypeOK
    <2>5. PressTypeOK' /\ NobodySends /\ JobsOrdered' /\ ServiceTypeOK'
      BY <2>1, PressFrame, JobsFrame, ServiceFrame DEF BaseInv, VInv, VerdictInv,
         DeliveryTypeOK
    <2>6. BridgeTypeOK' /\ RunKept
      BY <2>1, BridgeFrame DEF VInv, DeliveryTypeOK
    <2> QED
      BY <2>2, <2>3, <2>4, <2>5, <2>6, QuietVerdicts DEF VInv, VerdictInv, DeliveryTypeOK
  <1> QED
    BY <1>1, <1>2, <1>3, <1>4 DEF DeliveryNext

LEMMA AlwaysVInv == DeliverySpec => []VInv
  <1>1. VInv /\ [DeliveryNext]_deliveryVars => VInv'
    BY StepVerdicts
  <1> QED
    BY <1>1, InitVerdicts, PTL DEF DeliverySpec

\* The invariant says what people are told.
LEMMA VerdictsFollow == VInv => VerdictsHold
  <1> SUFFICES ASSUME VInv PROVE VerdictsHold
    OBVIOUS
  <1> USE DEF VInv, VerdictInv
  <1>1. \A u \in User : u \in Sender /\ u # Nobody /\ u # relayer
    BY RelayerApart, Roles
  <1>2. ASSUME NEW u \in User
        PROVE  press[u].told = "done" => TookEffect(press[u].call)
    BY DEF ToldTrue, Effect
  <1>3. ASSUME NEW u \in User, Pending(u, u) \/ Outcomes(u, u) # {}
        PROVE  Waits(u)
    BY <1>1, <1>3 DEF Pending, Outcomes, Matched, Awaits, Waits
  <1>4. ASSUME NEW u \in User
        PROVE  Cardinality({i \in DOMAIN pool[u] : pool[u][i].asker = u}) <= 1
    <2> DEFINE S == {i \in DOMAIN pool[u] : pool[u][i].asker = u}
    <2>1. \A i, j \in S : i = j
      BY <1>1 DEF Matched
    <2>2. S = {} \/ \E i : S = {i}
      BY <2>1
    <2> HIDE DEF S
    <2>3. Cardinality(S) \in {0, 1}
      BY <2>2, FS_EmptySet, FS_Singleton
    <2> QED
      BY <2>3 DEF S
  <1>5. ASSUME NEW w \in Wallet, Pending(relayer, w)
        PROVE  asked[w] = "polling"
    BY <1>5, RelayerApart, Roles DEF Pending, Matched, Awaits, Request
  <1> QED
    BY <1>2, <1>3, <1>4, <1>5 DEF VerdictsHold, ToldTrue

\* A press that is told "done" took effect, also one whose request was repeated;
\* nothing of a press that ended is left in the network, but of one that is
\* unsure; and nothing has two copies there (runWrite of the client library, and
\* the registrations of the verifier's relayer).
THEOREM VerdictsAlwaysHold == DeliverySpec => []VerdictsHold
  BY AlwaysVInv, VerdictsFollow, PTL

-----------------------------------------------------------------------------
(***************************************************************************)
(* The relayer's numbers.                                                  *)
(***************************************************************************)
\* The account's next number falls only when a transaction of its is dropped.
Ahead ==
    /\ dropped \subseteq dropped'
    /\ \A a \in Sender : seen'[a] <= seq'[a]
    /\ relayer \notin dropped' => Upcoming(relayer)' >= Upcoming(relayer)

LEMMA UpcomingType ==
    ASSUME DeliveryTypeOK, NEW a \in Sender
    PROVE  Upcoming(a) \in Nat /\ Len(pool[a]) \in Nat /\ seq[a] \in Nat /\ seen[a] \in Nat
  <1>1. pool[a] \in Seq(Tx)
    BY DEF DeliveryTypeOK, NetworkTypeOK
  <1>2. Len(pool[a]) \in Nat
    BY <1>1, LenProperties
  <1> QED
    BY <1>2 DEF Upcoming, DeliveryTypeOK, NetworkTypeOK

LEMMA PaceFrame ==
    ASSUME DeliveryTypeOK, DeliveryTypeOK', Numbered, Ahead, relayer' = relayer,
           UNCHANGED <<sending, lastSeq>>
    PROVE  Numbered'
  <1>1. Upcoming(relayer) \in Nat /\ relayer \in Sender
    BY RelayerApart, UpcomingType
  <1>2. Upcoming(relayer)' \in Nat
    <2>1. pool'[relayer] \in Seq(Tx) /\ seq'[relayer] \in Nat
      BY <1>1 DEF DeliveryTypeOK, NetworkTypeOK
    <2>2. Len(pool'[relayer]) \in Nat
      BY <2>1, LenProperties
    <2> QED
      BY <2>1, <2>2 DEF Upcoming
  <1>3. lastSeq \in Nat /\ sending.base \in Nat /\ sending.bad \in Int
    BY DEF DeliveryTypeOK, RelayerTypeOK
  <1> QED
    BY <1>1, <1>2, <1>3 DEF Numbered, Ahead, NotSending

\* Only the network, the relayer and the bridge number anything.
LEMMA AheadWhenSame ==
    ASSUME DeliveryTypeOK, Numbered, UNCHANGED <<seq, seen, dropped>>, relayer' = relayer,
           Len(pool'[relayer]) >= Len(pool[relayer]), Len(pool'[relayer]) \in Nat
    PROVE  Ahead
  <1>1. Upcoming(relayer) \in Nat /\ Len(pool[relayer]) \in Nat /\ seq[relayer] \in Nat
    BY RelayerApart, UpcomingType
  <1> QED
    BY <1>1 DEF Ahead, Numbered, Upcoming

LEMMA UsersApart ==
    ASSUME DeliveryTypeOK, ClientNext \/ OnboardingNext
    PROVE  UNCHANGED <<seq, seen, dropped, sending, lastSeq>> /\ pool'[relayer] = pool[relayer]
  <1>1. relayer \in Sender /\ relayer \notin User
    BY RelayerApart
  <1>2. \A c, x : \A u \in User :
          Sends(u, c, x) \/ Forsake(u, x) => pool'[relayer] = pool[relayer]
    BY <1>1 DEF Sends, Forsake, DeliveryTypeOK, NetworkTypeOK
  <1>3. CASE ClientNext
    <2>1. UNCHANGED <<seq, seen, dropped, relaying>>
      BY <1>3, ClientApart
    <2>2. CASE ProverAnswers \/ (\E w \in Wallet : ProverTimesOut(w))
               \/ (\E v \in Video : ProofArrives(v) \/ NoProofArrives(v))
      BY <2>1, <2>2 DEF ProverAnswers, ProverTimesOut, ProofArrives, NoProofArrives,
         network, relaying
    <2>3. ASSUME NEW u \in User,
                 Build(u) \/ SignAndSend(u) \/ Congested(u) \/ Declines(u)
                 \/ SendBreaks(u) \/ Answered(u) \/ GivesUp(u)
          PROVE  pool'[relayer] = pool[relayer]
      BY <1>2, <2>3 DEF Build, SignAndSend, Congested, Declines, SendBreaks, Answered,
         GivesUp, network
    <2> QED
      BY <1>3, <2>1, <2>2, <2>3 DEF ClientNext, relaying
  <1>4. CASE OnboardingNext
    <2>1. PICK w \in Wallet : \/ Refresh(w) \/ Leave(w) \/ PressVerify(w) \/ PressDemo(w)
                              \/ PressJoin(w) \/ PressRegister(w) \/ ShowCode(w)
      BY <1>4 DEF OnboardingNext
    <2>2. CASE Leave(w)
      BY <1>2, <2>2 DEF Leave, relaying, User
    <2>3. CASE Refresh(w) \/ PressDemo(w)
      BY <2>3 DEF Refresh, PressDemo, network
    <2>4. CASE PressVerify(w) \/ PressJoin(w)
      BY <2>4 DEF PressVerify, VerifyByProof, PressJoin, WriteDirectly, network, relaying
    <2>5. CASE PressRegister(w) \/ ShowCode(w)
      BY <2>5 DEF PressRegister, ProveAndRegister, ShowCode, network, relaying
    <2> QED
      BY <2>1, <2>2, <2>3, <2>4, <2>5
  <1> QED
    BY <1>3, <1>4

LEMMA NetworkAhead ==
    ASSUME DeliveryTypeOK, DeliveryTypeOK', Numbered, NetworkNext, relayer' = relayer
    PROVE  Ahead
  <1>1. relayer \in Sender /\ Upcoming(relayer) \in Nat
    BY RelayerApart, UpcomingType
  <1>2. \A a \in Sender : seq[a] \in Nat /\ seen[a] \in Nat
    BY DEF DeliveryTypeOK, NetworkTypeOK
  <1>3. ASSUME NEW a \in Sender, Land(a) PROVE Ahead
    <2>1. /\ Len(pool'[a]) = Len(pool[a]) - 1 /\ Len(pool[a]) \in Nat
          /\ seq' \in [Sender -> Nat] /\ seq'[a] = seq[a] + 1
          /\ \A b \in Sender : b # a => seq'[b] = seq[b] /\ pool'[b] = pool[b]
      BY <1>3, LandTakes DEF DeliveryTypeOK
    <2>2. seen' = seen /\ dropped' = dropped
      BY <1>3 DEF Land
    <2>3. \A b \in Sender : seen'[b] <= seq'[b]
      BY <1>2, <2>1, <2>2 DEF Numbered
    <2>4. Upcoming(relayer)' = Upcoming(relayer)
      <3>1. CASE a = relayer
        <4>1. /\ Len(pool'[relayer]) = Len(pool[relayer]) - 1 /\ Len(pool[relayer]) \in Nat
              /\ seq'[relayer] = seq[relayer] + 1 /\ seq[relayer] \in Nat
          BY <1>1, <1>2, <2>1, <3>1
        <4> QED
          BY <4>1 DEF Upcoming
      <3>2. CASE a # relayer
        BY <1>1, <2>1, <3>2 DEF Upcoming
      <3> QED
        BY <3>1, <3>2
    <2> QED
      BY <1>1, <2>2, <2>3, <2>4 DEF Ahead
  <1>4. ASSUME NEW a \in Sender, Drop(a) PROVE Ahead
    <2>1. \A b \in Sender : b # a => pool'[b] = pool[b]
      BY <1>4, DropThins DEF DeliveryTypeOK
    <2>2. UNCHANGED <<seq, seen>> /\ dropped' = dropped \cup {a}
      BY <1>4 DEF Drop
    <2>3. a # relayer => Upcoming(relayer)' = Upcoming(relayer)
      BY <1>1, <2>1, <2>2 DEF Upcoming
    <2> QED
      BY <1>1, <2>2, <2>3 DEF Ahead, Numbered
  <1>5. ASSUME NEW a \in Sender, CatchUp(a) PROVE Ahead
    <2>1. seen' = [seen EXCEPT ![a] = seq[a]] /\ UNCHANGED <<seq, pool, dropped>>
      BY <1>5 DEF CatchUp
    <2>2. \A b \in Sender : seen'[b] <= seq'[b]
      BY <1>2, <2>1 DEF Numbered, DeliveryTypeOK, NetworkTypeOK
    <2>3. Upcoming(relayer)' = Upcoming(relayer)
      BY <2>1 DEF Upcoming
    <2> QED
      BY <1>1, <2>1, <2>2, <2>3 DEF Ahead
  <1> QED
    BY <1>3, <1>4, <1>5 DEF NetworkNext

\* A run's step takes nothing from the relayer's transactions.
LEMMA RunAhead ==
    ASSUME DeliveryTypeOK, Numbered, RunStep
    PROVE  Ahead /\ relayer' = relayer
  <1>1. relayer' = relayer /\ relayer \in Sender
    BY RunStepTypes, RelayerApart
  <1>2. UNCHANGED <<seq, seen, dropped>>
    BY RunSends
  <1>3. Brand \in Asker \ {Nobody} /\ Nobody \in Asker
    BY NetworkAssumption DEF Asker, User
  <1>4. \E c \in Calls : c = MintCall
    <2>1. MintCall \in MintCalls
      BY RelayerApart DEF MintCall, Call, MintCalls, DeliveryTypeOK, BridgeTypeOK
    <2> QED
      BY <2>1 DEF Calls
  <1>5. Len(pool[relayer]) \in Nat
    BY <1>1, UpcomingType
  <1>6. CASE UNCHANGED pool
    BY <1>1, <1>2, <1>5, <1>6, AheadWhenSame
  <1>7. CASE \E x \in Asker : Sends(relayer, MintCall, x)
    <2>1. Len(pool'[relayer]) = Len(pool[relayer]) + 1
      BY <1>1, <1>4, <1>7, SendsAdds DEF DeliveryTypeOK
    <2> QED
      BY <1>1, <1>2, <1>5, <2>1, AheadWhenSame
  <1>8. CASE Forsake(relayer, Brand)
    <2>1. Len(pool'[relayer]) = Len(pool[relayer])
      BY <1>1, <1>3, <1>8, ForsakeThins DEF DeliveryTypeOK, SameLengths
    <2> QED
      BY <1>1, <1>2, <1>5, <2>1, AheadWhenSame
  <1> QED
    BY <1>1, <1>3, <1>6, <1>7, <1>8, RunSends

\* One request of the relayer's.
LEMMA RelayerPace ==
    ASSUME VInv, DeliveryTypeOK', Numbered, RelayerNext, relayer' = relayer
    PROVE  Numbered'
  <1> USE DEF VInv
  <1>1. /\ relayer \in Sender /\ Upcoming(relayer) \in Nat /\ Len(pool[relayer]) \in Nat
        /\ seq[relayer] \in Nat /\ seen[relayer] \in Nat
    BY RelayerApart, UpcomingType
  <1>2. UNCHANGED <<seq, seen, dropped>>
    BY DEF RelayerNext, ReadSequence, PreparationFails, SendRelayed, BadSequence, NotSent,
           SendThrows, Polled, PollTimesOut, network
  <1>3. \A a \in Sender : seen'[a] <= seq'[a]
    BY <1>2 DEF Numbered
  <1>4. /\ lastSeq \in Nat /\ sending.base \in Nat /\ sending.bad \in Int
        /\ sending.tries \in Nat
        /\ sending.first \in Nat
        /\ sending \in [at : {"rest", "send", "again"}, base : Nat, bad : Int,
                        tries : Nat, first : Nat]
    BY DEF DeliveryTypeOK, RelayerTypeOK
  <1>5. BadSeqRetries \in Nat
    BY RelayerAssumption
  <1>6. CASE ReadSequence
    <2> DEFINE known == IF seen[relayer] < lastSeq THEN lastSeq ELSE seen[relayer]
               first == IF sending.at = "rest" THEN seen[relayer] ELSE sending.first
    <2>1. sending' = [sending EXCEPT !.at = "send", !.base = StepsPast(known), !.first = first]
          /\ sending.at \in {"rest", "again"} /\ lastSeq' = lastSeq /\ pool' = pool
      BY <1>6 DEF ReadSequence, network
    <2>2. known \in Nat /\ known >= seen[relayer] /\ first \in Nat
          /\ (relayer \notin dropped => known <= Upcoming(relayer))
      BY <1>1, <1>4 DEF Numbered, Upcoming
    <2>3. StepsPast(known) \in Nat
          /\ StepsPast(known) = IF sending.bad >= 0 /\ known <= sending.bad
                                THEN sending.bad + 1 ELSE known
      BY <1>4, <2>2 DEF StepsPast
    <2>4. sending'.at = "send" /\ sending'.base = StepsPast(known) /\ sending'.first = first
          /\ sending'.tries = sending.tries /\ sending'.bad = sending.bad
      BY <1>4, <2>1
    <2>5. sending'.first + sending'.tries <= sending'.base
      <3>1. CASE sending.at = "rest"
        <4>1. sending = NotSending /\ first = seen[relayer]
          BY <3>1 DEF Numbered
        <4>2. sending.bad = -1 /\ sending.tries = 0
          BY <4>1 DEF NotSending
        <4>3. StepsPast(known) = known
          BY <1>4, <2>3, <4>2
        <4> HIDE DEF known, first
        <4> QED
          BY <1>1, <2>2, <2>4, <4>1, <4>2, <4>3
      <3>2. CASE sending.at = "again"
        <4>1. first = sending.first /\ sending.bad \in Nat
              /\ sending.first + sending.tries <= sending.bad + 1
          BY <3>2 DEF Numbered
        <4> HIDE DEF known, first
        <4> QED
          BY <1>4, <2>2, <2>3, <2>4, <4>1
      <3> QED
        BY <2>1, <3>1, <3>2
    <2>6. relayer \notin dropped => sending'.base <= Upcoming(relayer)
      <3>1. CASE sending.at = "rest"
        <4>1. sending = NotSending
          BY <3>1 DEF Numbered
        <4>2. sending.bad = -1
          BY <4>1 DEF NotSending
        <4> HIDE DEF known, first
        <4> QED
          BY <1>4, <2>2, <2>3, <2>4, <4>2
      <3>2. CASE sending.at = "again"
        <4>1. relayer \notin dropped => sending.bad < Upcoming(relayer)
          BY <3>2 DEF Numbered
        <4> HIDE DEF known, first
        <4> QED
          BY <1>1, <1>4, <2>2, <2>3, <2>4, <4>1
      <3> QED
        BY <2>1, <3>1, <3>2
    <2>7. Upcoming(relayer)' = Upcoming(relayer)
      BY <1>2, <2>1 DEF Upcoming
    <2> HIDE DEF known, first
    <2> QED
      BY <1>2, <1>3, <2>1, <2>4, <2>5, <2>6, <2>7 DEF Numbered
  <1>7. ASSUME NEW answer, Leaves(answer), lastSeq' \in Nat,
               relayer \notin dropped => lastSeq' <= Upcoming(relayer)'
        PROVE  Numbered'
    <2>1. sending' = NotSending
      BY <1>7 DEF Leaves
    <2> QED
      BY <1>2, <1>3, <1>5, <1>7, <2>1 DEF Numbered, NotSending
  <1>8. CASE PreparationFails \/ NotSent \/ (BadSequence /\ Leaves("failed"))
    <2>1. PICK answer : Leaves(answer)
      BY <1>8 DEF PreparationFails, NotSent
    <2>2. pool' = pool /\ lastSeq' \in {0, lastSeq}
      BY <1>8 DEF PreparationFails, NotSent, BadSequence, network
    <2>3. Upcoming(relayer)' = Upcoming(relayer)
      BY <1>2, <2>2 DEF Upcoming
    <2>4. relayer \notin dropped => lastSeq' <= Upcoming(relayer)'
      BY <1>1, <2>2, <2>3 DEF Numbered
    <2> QED
      BY <1>4, <1>7, <2>1, <2>2, <2>4
  <1>9. CASE BadSequence /\ ~Leaves("failed")
    <2>1. /\ sending.at = "send" /\ ~Taken /\ lastSeq' = 0 /\ pool' = pool
          /\ sending.tries < BadSeqRetries
          /\ sending' = [sending EXCEPT !.at = "again", !.bad = sending.base,
                                        !.tries = sending.tries + 1]
      BY <1>9 DEF BadSequence, network
    <2>2. sending'.at = "again" /\ sending'.bad = sending.base
          /\ sending'.tries = sending.tries + 1 /\ sending'.first = sending.first
      BY <1>4, <2>1
    <2>3. relayer \notin dropped => sending.base < Upcoming(relayer)
      BY <1>1, <1>4, <2>1 DEF Numbered, Taken
    <2>4. sending'.first + sending'.tries <= sending'.bad + 1
        /\ sending'.tries <= BadSeqRetries
          /\ sending'.bad \in Nat
      BY <1>4, <1>5, <2>1, <2>2 DEF Numbered
    <2>5. Upcoming(relayer)' = Upcoming(relayer)
      BY <1>2, <2>1 DEF Upcoming
    <2> QED
      BY <1>1, <1>2, <1>3, <2>1, <2>2, <2>3, <2>4, <2>5 DEF Numbered
  <1>10. CASE SendRelayed \/ SendThrows
    <2>1. PICK r : r = Head(queue)
      OBVIOUS
    <2>2. PICK answer : Leaves(answer) /\ sending.at = "send"
      BY <1>10 DEF SendRelayed, SendThrows
    <2>3. r \in Request
      BY <2>1, <2>2, LeavesQueue DEF VerdictInv, DeliveryTypeOK
    <2>4. r \in Asker /\ Nobody \in Asker /\ \E c \in Calls : c = CallOf(r)
      BY <2>3, RelayerApart, CallOfType DEF Asker
    <2>5. \A x \in Asker : Sends(relayer, CallOf(r), x)
                             => Upcoming(relayer)' = Upcoming(relayer) + 1
      <3> SUFFICES ASSUME NEW x \in Asker, Sends(relayer, CallOf(r), x)
                   PROVE  Upcoming(relayer)' = Upcoming(relayer) + 1
        OBVIOUS
      <3>1. Len(pool'[relayer]) = Len(pool[relayer]) + 1
        BY <1>1, <2>4, SendsAdds DEF DeliveryTypeOK
      <3> QED
        BY <1>1, <1>2, <3>1 DEF Upcoming
    <2>6. CASE SendRelayed
      <3>1. lastSeq' = Upcoming(relayer) + 1 /\ Upcoming(relayer)' = Upcoming(relayer) + 1
        BY <2>1, <2>4, <2>5, <2>6 DEF SendRelayed, Taken
      <3> QED
        BY <1>1, <1>7, <2>2, <3>1
    <2>7. CASE SendThrows
      <3>1. Upcoming(relayer)' \in {Upcoming(relayer), Upcoming(relayer) + 1}
            /\ lastSeq' = lastSeq
        <4>1. CASE pool' = pool
          BY <1>2, <2>7, <4>1 DEF SendThrows, Upcoming
        <4>2. CASE pool' # pool
          BY <2>1, <2>4, <2>5, <2>7, <4>2 DEF SendThrows
        <4> QED
          BY <4>1, <4>2
      <3>2. relayer \notin dropped => lastSeq' <= Upcoming(relayer)'
        BY <1>1, <1>4, <3>1 DEF Numbered
      <3> QED
        BY <1>4, <1>7, <2>2, <3>1, <3>2
    <2> QED
      BY <1>10, <2>6, <2>7
  <1>11. ASSUME NEW r \in Request, Polled(r) \/ PollTimesOut(r) PROVE Numbered'
    <2>1. r \in Asker \ {Nobody} /\ Forsake(relayer, r) /\ UNCHANGED <<sending, lastSeq>>
      BY <1>11, Roles DEF Asker, Polled, PollTimesOut
    <2>2. Len(pool'[relayer]) = Len(pool[relayer])
      BY <1>1, <2>1, ForsakeThins DEF DeliveryTypeOK, SameLengths
    <2>3. Ahead
      BY <1>1, <1>2, <2>2, AheadWhenSame
    <2> QED
      BY <2>1, <2>3, PaceFrame
  <1> QED
    BY <1>6, <1>8, <1>9, <1>10, <1>11 DEF RelayerNext

LEMMA StepPace ==
    VInv /\ Numbered /\ [DeliveryNext]_deliveryVars => Numbered'
  <1> SUFFICES ASSUME VInv, Numbered, [DeliveryNext]_deliveryVars PROVE Numbered'
    OBVIOUS
  <1>1. DeliveryTypeOK /\ DeliveryTypeOK' /\ relayer' = relayer
    BY StepVerdicts DEF VInv
  <1>2. relayer \in Sender /\ Len(pool[relayer]) \in Nat
    BY <1>1, RelayerApart, UpcomingType
  <1>3. ASSUME UNCHANGED <<seq, seen, dropped, sending, lastSeq>>,
                pool'[relayer] = pool[relayer]
        PROVE  Numbered'
    <2>1. Ahead
      BY <1>1, <1>2, <1>3, AheadWhenSame
    <2> QED
      BY <1>1, <1>3, <2>1, PaceFrame
  <1>4. CASE Everywhere
    <2>1. CASE NetworkNext /\ UNCHANGED relaying
      BY <1>1, <2>1, NetworkAhead, PaceFrame DEF relaying
    <2>2. CASE RelayerNext
      BY <1>1, <2>2, RelayerPace
    <2>3. CASE ClientNext
      BY <1>1, <1>3, <2>3, UsersApart
    <2>4. CASE Restart
      <3>1. sending' = NotSending /\ lastSeq' = 0 /\ UNCHANGED <<seq, seen, dropped>>
        BY <2>4 DEF Restart, RelayerForgets
      <3>2. Upcoming(relayer)' \in Nat
        <4>1. pool'[relayer] \in Seq(Tx) /\ seq'[relayer] \in Nat
          BY <1>1, <1>2 DEF DeliveryTypeOK, NetworkTypeOK
        <4>2. Len(pool'[relayer]) \in Nat
          BY <4>1, LenProperties
        <4> QED
          BY <1>1, <4>1, <4>2 DEF Upcoming
      <3> QED
        BY <3>1, <3>2, RelayerAssumption DEF Numbered, NotSending
    <2> QED
      BY <1>4, <2>1, <2>2, <2>3, <2>4 DEF Everywhere
  <1>5. CASE PeopleJoin
    <2>1. CASE OnboardingNext
      BY <1>1, <1>3, <2>1, UsersApart
    <2>2. CASE UNCHANGED <<network, relaying>>
      BY <1>3, <2>2 DEF network, relaying
    <2> QED
      BY <1>5, <2>1, <2>2 DEF PeopleJoin
  <1>6. CASE BrandFunds
    <2>1. CASE RunStep /\ UNCHANGED relaying
      BY <1>1, <2>1, RunAhead, PaceFrame DEF relaying
    <2>2. CASE FundCampaign
      BY <1>3, <2>2 DEF FundCampaign, WriteDirectly, network, relaying
    <2>3. CASE Funded /\ UNCHANGED relaying
      BY <1>3, <2>3 DEF Funded, network, relaying
    <2>4. CASE \E k \in Job : KeeperSubmits(k)
      BY <1>3, <2>4 DEF KeeperSubmits, network
    <2> QED
      BY <1>6, <2>1, <2>2, <2>3, <2>4 DEF BrandFunds, BridgeNext, RunStep
  <1>7. CASE UNCHANGED deliveryVars
    BY <1>3, <1>7 DEF deliveryVars, network, relaying
  <1> QED
    BY <1>4, <1>5, <1>6, <1>7 DEF DeliveryNext

LEMMA InitPace == DeliveryInit => Numbered
  <1> SUFFICES ASSUME DeliveryInit PROVE Numbered
    OBVIOUS
  <1>1. sending = NotSending /\ lastSeq = 0 /\ \A a \in Sender : seen[a] = 0 /\ seq[a] = 0
    BY DEF DeliveryInit, RelayerInit, NetworkInit
  <1>2. relayer \in Sender /\ Upcoming(relayer) \in Nat
    BY InitVerdicts, RelayerApart, UpcomingType DEF VInv
  <1> QED
    BY <1>1, <1>2, RelayerAssumption DEF Numbered, NotSending

LEMMA PaceFollows == VInv /\ Numbered => RelayerKeepsPace
  <1> SUFFICES ASSUME VInv, Numbered, sending.tries = BadSeqRetries, sending.at = "send",
                      ~Taken,
                      relayer \notin dropped
               PROVE  Upcoming(relayer) - sending.first > BadSeqRetries
    BY DEF RelayerKeepsPace
  <1>1. sending.base \in Nat /\ sending.first \in Nat /\ BadSeqRetries \in Nat
        /\ Upcoming(relayer) \in Nat
    BY RelayerApart, UpcomingType, RelayerAssumption DEF VInv, DeliveryTypeOK, RelayerTypeOK
  <1>2. sending.first + BadSeqRetries <= sending.base /\ sending.base <= Upcoming(relayer)
        /\ sending.base # Upcoming(relayer)
    BY DEF Numbered, Taken
  <1> QED
    BY <1>1, <1>2

\* With every retry the relayer's number gets further: it gives up on a request
\* only if more of the account's transactions than it has retries were pending,
\* or one was dropped (withBadSeqRetry and fetchAccount of the verifier).
THEOREM RelayerAlwaysKeepsPace == DeliverySpec => []RelayerKeepsPace
  <1>1. VInv /\ Numbered /\ [DeliveryNext]_deliveryVars => VInv' /\ Numbered'
    BY StepVerdicts, StepPace
  <1>2. DeliveryInit => VInv /\ Numbered
    BY InitVerdicts, InitPace
  <1> QED
    BY <1>1, <1>2, PaceFollows, PTL DEF DeliverySpec

-----------------------------------------------------------------------------
(***************************************************************************)
(* The brand's funds.                                                      *)
(***************************************************************************)
Gone(b) == b \in DOMAIN burns /\ burns[b].state \in {"burnt", "attested"}

\* Every mint of before, and no other, is in the network.
NoNewMints ==
    \A a \in Sender : \A i \in DOMAIN pool'[a] :
      pool'[a][i].call.fn = "mint_and_forward" =>
        \E j \in DOMAIN pool[a] : pool'[a][i].call = pool[a][j].call

LEMMA ThinnedNoMints == Thinned => NoNewMints
  BY DEF Thinned, NoNewMints

LEMMA SendsNoMints ==
    ASSUME NetworkTypeOK, NEW a \in Sender, NEW c \in Calls, NEW x \in Asker, Sends(a, c, x),
           c \notin MintCalls
    PROVE  NoNewMints
  <1>1. c.fn # "mint_and_forward"
    BY KindOfCall
  <1>2. PICK n :
          /\ \A b \in Sender : b # a => pool'[b] = pool[b]
          /\ DOMAIN pool'[a] = DOMAIN pool[a] \cup {n}
          /\ \A i \in DOMAIN pool[a] : pool'[a][i] = pool[a][i]
          /\ pool'[a][n] = [call |-> c, asker |-> x]
    <2>1. PICK n : n = Len(pool[a]) + 1
      OBVIOUS
    <2> QED
      BY <2>1, SendsAdds
  <1>3. pool'[a][n].call = c
    BY <1>2
  <1> QED
    BY <1>1, <1>2, <1>3 DEF NoNewMints

\* What is away is what is gone and not minted; there are finitely many.
LEMMA AwayType ==
    ASSUME DeliveryTypeOK
    PROVE  /\ IsFiniteSet(Away) /\ Cardinality(Away) \in Nat
           /\ \A b : b \in Away <=> Gone(b) /\ b \notin minted
           /\ savings \in Nat /\ held[Brand][USDC] \in Nat /\ held[Contract][USDC] \in Nat
           /\ Amount \in Nat
  <1>1. DOMAIN burns = 1 .. Len(burns) /\ Len(burns) \in Nat
    BY BurnTypes DEF DeliveryTypeOK, BridgeTypeOK, BurnState
  <1>2. IsFiniteSet(DOMAIN burns) /\ Away \subseteq DOMAIN burns
    BY <1>1, FS_Interval DEF Away
  <1>3. IsFiniteSet(Away) /\ Cardinality(Away) \in Nat
    BY <1>2, FS_Subset, FS_CardinalityType
  <1>4. \A b : b \in Away <=> Gone(b) /\ b \notin minted
    BY DEF Away, Gone
  <1>5. savings \in Nat /\ held[Brand][USDC] \in Nat /\ held[Contract][USDC] \in Nat
    BY BridgeAssumption DEF DeliveryTypeOK, BridgeTypeOK, ContractTypeOK, TreasuryTypeOK,
       Account
  <1> QED
    BY <1>3, <1>4, <1>5, BridgeAssumption

\* The books where nothing moves.
LEMMA SameBooks ==
    ASSUME Books, UNCHANGED <<savings, held, minted, uses>>,
           \A b : Gone(b)' <=> Gone(b)
    PROVE  Books'
  <1>1. Away' = Away
    BY DEF Away, Gone
  <1>2. OfHome(USDC)' = OfHome(USDC)
    BY DEF OfHome, People
  <1> QED
    BY <1>1, <1>2 DEF Books

\* A step of neither the contracts nor the scripts.
LEMMA FundingFrame ==
    ASSUME FundingInv, UNCHANGED <<contract, bridging, uses>>, NoNewMints,
           press[Brand].at = "rest" => press'[Brand] = press[Brand]
    PROVE  FundingInv'
  <1> USE DEF FundingInv
  <1>1. UNCHANGED <<run, burns, savings, funding, router, held, minted, trusting, uses>>
    BY DEF contract, bridging, cliprailVars, treasury
  <1>2. RunPlaced' /\ RunTold'
    BY <1>1 DEF RunPlaced, RunTold, Attested_
  <1>3. \A b : Attested_(b)' <=> Attested_(b)
    BY <1>1 DEF Attested_
  <1>4. MintsAttested'
    <2>1. \A b \in minted' : Attested_(b)'
      BY <1>1, <1>3 DEF MintsAttested
    <2>2. ASSUME NEW a \in Sender, NEW i \in DOMAIN pool'[a],
                 pool'[a][i].call.fn = "mint_and_forward"
          PROVE  \A b \in {pool'[a][i].call.arg.burn} : Attested_(b)'
      BY <1>3, <2>2 DEF NoNewMints, MintsAttested
    <2> QED
      BY <1>1, <2>1, <2>2 DEF MintsAttested, Attested_
  <1>5. FundingWrites'
    BY <1>1 DEF FundingWrites, None
  <1>6. Books'
    <2>1. \A b : Gone(b)' <=> Gone(b)
      BY <1>1 DEF Gone
    <2> QED
      BY <1>1, <2>1, SameBooks
  <1> QED
    BY <1>2, <1>4, <1>5, <1>6

\* A write at rest is moved by none of the client's steps.
LEMMA RestStays ==
    ASSUME VInv, ClientNext \/ Restart
    PROVE  \A u \in User : press[u].at = "rest" => press'[u] = press[u]
  <1> USE DEF VInv, VerdictInv
  <1>1. CASE ClientNext
    <2>1. CASE ProverAnswers
      <3>1. Head(jobs).awaited => Head(jobs).of \in User /\ press[Head(jobs).of].at = "proof"
        <4>1. jobs \in Seq(ProverJob) /\ \E made \in BOOLEAN : Settles(made)
          BY <2>1 DEF ProverAnswers, DeliveryTypeOK, ServiceTypeOK
        <4>2. 1 \in DOMAIN jobs /\ Head(jobs) = jobs[1] /\ jobs[1] \in ProverJob
          BY <4>1, JobSettled
        <4> QED
          BY <4>2 DEF JobsOrdered, ProverJob, User
      <3> QED
        BY <2>1, <3>1 DEF ProverAnswers, DeliveryTypeOK, PressTypeOK
    <2>2. CASE \E w \in Wallet : ProverTimesOut(w)
      BY <2>2 DEF ProverTimesOut, Ends, DeliveryTypeOK, PressTypeOK
    <2>3. CASE \E v \in Video : ProofArrives(v) \/ NoProofArrives(v)
      BY <2>3 DEF ProofArrives, NoProofArrives, AwaitsProofOf
    <2>4. ASSUME NEW u \in User,
                 Build(u) \/ SignAndSend(u) \/ Congested(u) \/ Declines(u) \/ SendBreaks(u)
                 \/ GivesUp(u)
          PROVE  press[u].at # "rest" /\ \A x \in User : x # u => press'[x] = press[x]
      <3>1. press[u].at # "rest"
        BY <2>4 DEF Build, SignAndSend, Congested, Declines, SendBreaks, GivesUp
      <3>2. Retryable("network") = FALSE
        BY DEF Retryable
      <3> QED
        BY <2>4, <3>1, <3>2
        DEF Build, SignAndSend, Congested, Declines, SendBreaks, GivesUp, Ends, Goes, Fails,
            DeliveryTypeOK, PressTypeOK
    <2>5. ASSUME NEW u \in User, Answered(u)
          PROVE  press[u].at # "rest" /\ \A x \in User : x # u => press'[x] = press[x]
      BY <2>5, OutcomeAwaited DEF Answered, Ends, DeliveryTypeOK, PressTypeOK
    <2> HIDE DEF VInv, VerdictInv
    <2> QED
      BY <1>1, <2>1, <2>2, <2>3, <2>4, <2>5 DEF ClientNext
  <1>2. CASE Restart
    BY <1>2 DEF Restart
  <1> QED
    BY <1>1, <1>2

\* A landed transaction is one less, whatever it was.
LEMMA LandNoMints ==
    ASSUME NetworkTypeOK, NEW a \in Sender, Land(a)
    PROVE  NoNewMints
  <1>1. /\ \A b \in Sender : b # a => pool'[b] = pool[b]
        /\ \A i \in DOMAIN pool'[a] : i + 1 \in DOMAIN pool[a] /\ pool'[a][i] = pool[a][i + 1]
    BY LandTakes
  <1>2. ASSUME NEW b \in Sender, NEW i \in DOMAIN pool'[b]
        PROVE  \E j \in DOMAIN pool[b] : pool'[b][i].call = pool[b][j].call
    <2>1. CASE b = a
      BY <1>1, <2>1
    <2>2. CASE b # a
      BY <1>1, <2>2
    <2> QED
      BY <2>1, <2>2
  <1> QED
    BY <1>2 DEF NoNewMints

\* A mint moves an amount from what is away to the brand.
LEMMA MintBooks ==
    ASSUME DeliveryTypeOK, Books, UNCHANGED <<burns, savings, uses>>,
           NEW c \in MintCalls, Mint(c.arg), c.arg.burn \notin minted, Attested_(c.arg.burn)
    PROVE  Books'
  <1> DEFINE b == c.arg.burn
  <1>1. minted' = minted \cup {b} /\ held' = [held EXCEPT ![Brand][USDC] = @ + Amount]
    BY DEF Mint, MintCalls
  <1>2. /\ held'[Brand][USDC] = held[Brand][USDC] + Amount
        /\ held'[Contract][USDC] = held[Contract][USDC]
    <2>1. held \in [Account -> [Token -> Nat]] /\ USDC \in Token
          /\ Brand \in Account /\ Contract \in Account /\ Brand # Contract
      BY BridgeAssumption, AccountsApart
      DEF Account, DeliveryTypeOK, ContractTypeOK, TreasuryTypeOK
    <2> QED
      BY <1>1, <2>1
  <1>3. b \in Away
    BY AwayType DEF Attested_, Gone
  <1>4. Away' = Away \ {b}
    BY <1>1 DEF Away
  <1>5. IsFiniteSet(Away) /\ Cardinality(Away) \in Nat
    BY AwayType
  <1>6. Cardinality(Away') = Cardinality(Away) - 1
    BY <1>3, <1>4, <1>5, FS_RemoveElement
  <1>7. OfHome(USDC)' = OfHome(USDC) /\ savings' = savings
    BY DEF OfHome, People
  <1>8. \A n \in Nat : Amount * (n - 1) + Amount = Amount * n
    BY BridgeAssumption
  <1>9. Amount * (Cardinality(Away) - 1) + Amount = Amount * Cardinality(Away)
    BY <1>5, <1>8
  <1>10. \A x, s, h, k, y \in Int : x + Amount = y => s + x + (h + Amount) + k = s + y + h + k
    BY BridgeAssumption
  <1>11. Amount * Cardinality(Away) \in Int /\ Amount * (Cardinality(Away) - 1) \in Int
    BY <1>5, AwayType
  <1> HIDE DEF b
  <1>12. savings + Amount * (Cardinality(Away) - 1) + (held[Brand][USDC] + Amount)
           + held[Contract][USDC]
         = savings + Amount * Cardinality(Away) + held[Brand][USDC] + held[Contract][USDC]
    BY <1>9, <1>10, <1>11, AwayType
  <1> QED
    BY <1>2, <1>6, <1>7, <1>12 DEF Books

\* A campaign's budget moves from the brand to the contract.
LEMMA CreateBooks ==
    ASSUME DeliveryTypeOK, Books, UNCHANGED <<burns, savings, uses, minted>>,
           router = FALSE, NEW o \in Offer, Create(o)
    PROVE  Books' /\ router' = router
  <1>1. Escrow(held, o) /\ router' = router
    BY DEF Create, Funding, FundDirectly, FundBySwap
  <1>2. held \in Holdings /\ Brand \in Account /\ Contract \in Account /\ Brand # Contract
        /\ o.token \in Token /\ o.budget \in Nat /\ USDC \in Token
    BY BridgeAssumption, AccountsApart, TreasuryAssumption
    DEF Holdings, Account, DeliveryTypeOK, ContractTypeOK, TreasuryTypeOK
  <1>3. held' = Moved(held, Brand, Contract, o.token, o.budget)
    BY <1>1 DEF Escrow
  <1>4. held'[Brand][USDC] + held'[Contract][USDC] = held[Brand][USDC] + held[Contract][USDC]
    <2>1. /\ held'[Brand][USDC] = IF USDC = o.token THEN held[Brand][USDC] - o.budget
                                  ELSE held[Brand][USDC]
          /\ held'[Contract][USDC] = IF USDC = o.token THEN held[Contract][USDC] + o.budget
                                     ELSE held[Contract][USDC]
      BY <1>2, <1>3, MovedChanges
    <2> QED
      BY <1>2, <2>1, AwayType
  <1>5. Away' = Away /\ OfHome(USDC)' = OfHome(USDC) /\ savings' = savings
    BY DEF Away, OfHome, People
  <1>6. held'[Brand][USDC] \in Int /\ held'[Contract][USDC] \in Int
    BY <1>2, <1>3, MovedChanges, AwayType
  <1>7. Amount * Cardinality(Away) \in Int
    BY AwayType
  <1>8. savings + Amount * Cardinality(Away) + held'[Brand][USDC] + held'[Contract][USDC]
        = savings + Amount * Cardinality(Away) + held[Brand][USDC] + held[Contract][USDC]
    BY <1>4, <1>6, <1>7, AwayType
  <1> QED
    BY <1>1, <1>5, <1>8 DEF Books

\* What a call does to the brand's funds.
LEMMA ApplyBooks ==
    ASSUME DeliveryTypeOK, Books, UNCHANGED <<burns, savings, uses>>, router = FALSE,
           NEW c \in Calls, Apply(c), Refusal(c) = None,
           c.fn = "mint_and_forward" => Attested_(c.arg.burn)
    PROVE  /\ Books' /\ UNCHANGED <<router, trusting>>
           /\ minted \subseteq minted'
           /\ \A b \in minted' : b \in minted \/ Attested_(b)
  <1>0. \A b : Gone(b)' <=> Gone(b)
    BY DEF Gone
  <1>1. CASE c.fn \in {"register", "register_zk", "join", "register_clip", "submit_proof"}
    <2>1. UNCHANGED <<router, held, minted, trusting>>
      BY <1>1 DEF Apply, Join, RegisterClip, contract, cliprailVars, treasury
    <2> QED
      BY <1>0, <2>1, SameBooks
  <1>2. CASE c.fn = "create_campaign"
    <2>1. c.arg \in Offer /\ Create(c.arg) /\ UNCHANGED <<minted, trusting>>
      BY <1>2, KindOfCall DEF Apply, CreateCalls
    <2> QED
      BY <2>1, CreateBooks
  <1>3. CASE c.fn = "mint_and_forward"
    <2>1. c \in MintCalls /\ Mint(c.arg) /\ Attested_(c.arg.burn)
      BY <1>3, KindOfCall DEF Apply
    <2>2. c.arg.burn \notin minted
      BY <1>3 DEF Refusal, MintRefusal, None
    <2>3. minted' = minted \cup {c.arg.burn} /\ UNCHANGED <<router, trusting>>
      BY <2>1 DEF Mint
    <2> QED
      BY <2>1, <2>2, <2>3, MintBooks
  <1> QED
    BY <1>1, <1>2, <1>3 DEF Apply

\* A transaction is taken.
LEMMA LandFunding ==
    ASSUME VInv, FundingInv, NEW a \in Sender, Land(a), UNCHANGED <<press, bridging, uses>>
    PROVE  FundingInv'
  <1> USE DEF FundingInv
  <1>1. UNCHANGED <<run, burns, savings, funding>>
    BY DEF bridging
  <1>2. DeliveryTypeOK /\ NetworkTypeOK
    BY DEF VInv, DeliveryTypeOK
  <1>3. PICK c \in Calls : /\ c = Head(pool[a]).call
                           /\ c.fn = "mint_and_forward" => Attested_(c.arg.burn)
    <2>1. 1 \in DOMAIN pool[a] /\ Head(pool[a]) = pool[a][1] /\ pool[a][1] \in Tx
      BY <1>2, LandTakes
    <2> QED
      BY <2>1 DEF Tx, MintsAttested
  <1>4. /\ Books' /\ UNCHANGED <<router, trusting>>
        /\ minted \subseteq minted'
        /\ \A b \in minted' : b \in minted \/ Attested_(b)
    <2>1. CASE Refusal(c) = None
      <3>1. Apply(c)
        BY <1>3, <2>1 DEF Land
      <3> QED
        BY <1>1, <1>2, <1>3, <2>1, <3>1, ApplyBooks DEF FundingWrites
    <2>2. CASE Refusal(c) # None
      <3>1. UNCHANGED <<router, held, minted, trusting>>
        BY <1>3, <2>2 DEF Land, contract, cliprailVars, treasury
      <3>2. \A b : Gone(b)' <=> Gone(b)
        BY <1>1 DEF Gone
      <3> QED
        BY <1>1, <3>1, <3>2, SameBooks
    <2> QED
      BY <2>1, <2>2
  <1>5. \A b : Attested_(b)' <=> Attested_(b)
    BY <1>1 DEF Attested_
  <1>6. RunPlaced' /\ RunTold'
    BY <1>1, <1>4 DEF RunPlaced, RunTold, Attested_
  <1>7. FundingWrites'
    BY <1>1, <1>4 DEF FundingWrites
  <1>8. NoNewMints
    BY <1>2, LandNoMints
  <1>9. MintsAttested'
    <2>1. \A b \in minted' : Attested_(b)'
      BY <1>4, <1>5 DEF MintsAttested
    <2>2. ASSUME NEW b \in Sender, NEW i \in DOMAIN pool'[b],
                 pool'[b][i].call.fn = "mint_and_forward"
          PROVE  \A x \in {pool'[b][i].call.arg.burn} : Attested_(x)'
      BY <1>5, <1>8, <2>2 DEF NoNewMints, MintsAttested
    <2> QED
      BY <1>1, <2>1, <2>2 DEF MintsAttested, Attested_
  <1> QED
    BY <1>4, <1>6, <1>7, <1>9

\* Nobody but the bridge sends a mint.
LEMMA ClientNoMints ==
    ASSUME VInv, ClientNext \/ OnboardingNext
    PROVE  NoNewMints /\ UNCHANGED contract
  <1> USE DEF VInv
  <1>1. NetworkTypeOK /\ PressTypeOK /\ \A u \in User : u \in Sender /\ u \in Asker
          /\ u # Nobody
    BY Roles DEF DeliveryTypeOK, Asker
  <1>2. UNCHANGED <<pool, closed>> => NoNewMints
    BY <1>1, PoolUnchanged, ThinnedNoMints
  <1>3. \A u \in User : Forsake(u, u) => NoNewMints
    BY <1>1, ForsakeThins, ThinnedNoMints
  <1>4. ASSUME NEW u \in User, NEW x \in Asker, Sends(u, press[u].call, x),
               press[u].at # "rest"
        PROVE  NoNewMints
    <2>1. PICK c \in UserCalls : c = press[u].call
      BY <1>1, <1>4 DEF PressTypeOK, Sound
    <2>2. c \in Calls /\ c \notin MintCalls
      BY DEF Calls, UserCalls, ZkCalls, JoinCalls, ClipCalls, CreateCalls, MintCalls
    <2> QED
      BY <1>1, <1>4, <2>1, <2>2, SendsNoMints
  <1>5. CASE ClientNext
    <2>1. CASE ProverAnswers \/ (\E w \in Wallet : ProverTimesOut(w))
               \/ (\E v \in Video : ProofArrives(v) \/ NoProofArrives(v))
      BY <1>2, <2>1 DEF ProverAnswers, ProverTimesOut, ProofArrives, NoProofArrives, network
    <2>2. ASSUME NEW u \in User, Build(u) \/ Congested(u) \/ Declines(u)
          PROVE  NoNewMints /\ UNCHANGED contract
      BY <1>2, <2>2 DEF Build, Congested, Declines, network
    <2>3. ASSUME NEW u \in User, SignAndSend(u) \/ SendBreaks(u)
          PROVE  NoNewMints /\ UNCHANGED contract
      <3>1. closed' = closed /\ press[u].at # "rest" /\ UNCHANGED contract
        BY <2>3 DEF SignAndSend, SendBreaks
      <3>2. UNCHANGED pool \/ \E x \in Asker : Sends(u, press[u].call, x)
        BY <2>3, <1>1 DEF SignAndSend, SendBreaks, Asker
      <3> QED
        BY <1>2, <1>4, <3>1, <3>2
    <2>4. ASSUME NEW u \in User, Answered(u) \/ GivesUp(u)
          PROVE  NoNewMints /\ UNCHANGED contract
      BY <1>3, <2>4 DEF Answered, GivesUp
    <2> QED
      BY <1>5, <2>1, <2>2, <2>3, <2>4
      DEF ClientNext, ProverAnswers, ProverTimesOut, ProofArrives, NoProofArrives
  <1>6. CASE OnboardingNext
    <2>1. PICK w \in Wallet : \/ Refresh(w) \/ Leave(w) \/ PressVerify(w) \/ PressDemo(w)
                              \/ PressJoin(w) \/ PressRegister(w) \/ ShowCode(w)
      BY <1>6 DEF OnboardingNext
    <2>2. CASE Leave(w)
      BY <1>3, <2>2 DEF Leave, User
    <2>3. CASE Refresh(w) \/ PressDemo(w)
      BY <1>2, <2>3 DEF Refresh, PressDemo, network
    <2>4. CASE PressVerify(w) \/ PressJoin(w)
      BY <1>2, <2>4 DEF PressVerify, VerifyByProof, PressJoin, WriteDirectly, network
    <2>5. CASE PressRegister(w) \/ ShowCode(w)
      BY <1>2, <2>5 DEF PressRegister, ProveAndRegister, ShowCode, network
    <2> QED
      BY <2>1, <2>2, <2>3, <2>4, <2>5
  <1> QED
    BY <1>5, <1>6

LEMMA RelayerNoMints ==
    ASSUME VInv, RelayerNext
    PROVE  NoNewMints /\ UNCHANGED contract
  <1> USE DEF VInv
  <1>1. NetworkTypeOK /\ relayer \in Sender /\ relayer \in Relayer
    BY RelayerApart DEF DeliveryTypeOK
  <1>2. UNCHANGED <<pool, closed>> => NoNewMints
    BY <1>1, PoolUnchanged, ThinnedNoMints
  <1>3. CASE ReadSequence \/ PreparationFails \/ BadSequence \/ NotSent
    BY <1>2, <1>3 DEF ReadSequence, PreparationFails, BadSequence, NotSent, network
  <1>4. CASE SendRelayed \/ SendThrows
    <2>1. closed' = closed /\ UNCHANGED contract /\ sending.at = "send"
      BY <1>4 DEF SendRelayed, SendThrows
    <2>2. PICK r \in Request : r = Head(queue)
      <3>1. queue \in Seq(Request) /\ queue # <<>>
        BY <2>1 DEF DeliveryTypeOK, RelayerTypeOK
      <3> QED
        BY <3>1, HeadTailProperties
    <2>3. pool' = pool \/ \E x \in Asker : Sends(relayer, CallOf(r), x)
      BY <1>4, <2>2 DEF SendRelayed, SendThrows, Asker
    <2>4. PICK c \in Calls : c = CallOf(r)
      BY <1>1, CallOfType
    <2>5. c.fn # "mint_and_forward"
      BY <2>4 DEF CallOf, Call
    <2>6. c \notin MintCalls
      BY <2>5 DEF MintCalls
    <2> QED
      BY <1>1, <1>2, <2>1, <2>3, <2>4, <2>6, SendsNoMints
  <1>5. ASSUME NEW r \in Request, Polled(r) \/ PollTimesOut(r)
        PROVE  NoNewMints /\ UNCHANGED contract
    <2>1. Forsake(relayer, r) /\ UNCHANGED contract
      BY <1>5 DEF Polled, PollTimesOut
    <2>2. r \in Asker \ {Nobody}
      BY Roles DEF Asker
    <2> QED
      BY <1>1, <2>1, <2>2, ForsakeThins, ThinnedNoMints
  <1> QED
    BY <1>3, <1>4, <1>5
    DEF RelayerNext, ReadSequence, PreparationFails, BadSequence, NotSent

\* Nobody presses the brand's button but the script.
LEMMA OnboardingLeavesBrand ==
    ASSUME VInv, OnboardingNext
    PROVE  press'[Brand] = press[Brand]
  <1>1. Brand \in User /\ Brand \notin Wallet /\ press \in [User -> PressState]
    BY Roles DEF User, VInv, DeliveryTypeOK, PressTypeOK
  <1>2. PICK w \in Wallet : \/ Refresh(w) \/ Leave(w) \/ PressVerify(w) \/ PressDemo(w)
                            \/ PressJoin(w) \/ PressRegister(w) \/ ShowCode(w)
    BY DEF OnboardingNext
  <1>3. \/ press' = press
        \/ \E p : press' = [press EXCEPT ![w] = p]
    BY <1>2
    DEF Refresh, Leave, PressVerify, PressDemo, PressJoin, PressRegister, ShowCode, Ends,
        VerifyByProof, WriteDirectly, ProveAndRegister, Starts
  <1> QED
    BY <1>1, <1>3

\* Burns are only added, as sent, and go their way.
BurnsGo ==
    /\ DOMAIN burns \subseteq DOMAIN burns'
    /\ \A b \in DOMAIN burns :
         burns[b].state \in {"reverted", "attested"} => burns'[b].state = burns[b].state
    /\ DOMAIN burns' # {} => DOMAIN burns # {} \/ run.at = "burn"

SameStates ==
    /\ DOMAIN burns' = DOMAIN burns
    /\ \A b \in DOMAIN burns : burns'[b].state = burns[b].state

\* A burn that is included leaves the savings.
LEMMA IncludedBooks ==
    ASSUME DeliveryTypeOK, Books, MintsAttested, UNCHANGED <<held, minted, uses>>,
           NEW b \in Burn, Included(b)
    PROVE  BurnsGo /\ Books'
  <1>1. b \in DOMAIN burns /\ burns[b].state = "sent" /\ burns \in Seq(BurnState)
    BY DEF Included, DeliveryTypeOK, BridgeTypeOK, BurnState
  <1>2. burns[b] \in BurnState
    BY <1>1, BurnTypes
  <1>3. ASSUME NEW y \in {"burnt", "reverted"}, burns' = [burns EXCEPT ![b].state = y]
        PROVE  /\ BurnsGo /\ DOMAIN burns' = DOMAIN burns /\ burns'[b].state = y
               /\ \A c \in DOMAIN burns : c # b => burns'[c] = burns[c]
    BY <1>1, <1>2, <1>3 DEF BurnsGo, BurnState
  <1>4. b \notin minted
    BY <1>1 DEF MintsAttested, Attested_
  <1>5. CASE burns' = [burns EXCEPT ![b].state = "reverted"] /\ savings' = savings
    <2>1. \A c : Gone(c)' <=> Gone(c)
      BY <1>1, <1>3, <1>5 DEF Gone
    <2> QED
      BY <1>3, <1>5, <2>1, SameBooks
  <1>6. CASE /\ burns' = [burns EXCEPT ![b].state = "burnt"]
             /\ savings' = savings - Amount /\ Affordable
    <2>1. Away' = Away \cup {b} /\ b \notin Away
      BY <1>1, <1>3, <1>4, <1>6 DEF Away
    <2>2. Cardinality(Away') = Cardinality(Away) + 1
      BY <2>1, AwayType, FS_AddElement
    <2>3. OfHome(USDC)' = OfHome(USDC)
      BY DEF OfHome, People
    <2>4. \A n \in Nat : Amount * (n + 1) = Amount * n + Amount
      BY BridgeAssumption
    <2>5. Amount * (Cardinality(Away) + 1) = Amount * Cardinality(Away) + Amount
      BY <2>4, AwayType
    <2>6. \A s, x, h, k \in Int : (s - Amount) + (x + Amount) + h + k = s + x + h + k
      BY BridgeAssumption
    <2>7. PICK s, x, h, k \in Int :
            /\ s = savings /\ x = Amount * Cardinality(Away)
            /\ h = held[Brand][USDC] /\ k = held[Contract][USDC]
      BY AwayType
    <2>8. (savings - Amount) + (Amount * Cardinality(Away) + Amount)
            + held[Brand][USDC] + held[Contract][USDC]
          = savings + Amount * Cardinality(Away) + held[Brand][USDC] + held[Contract][USDC]
      <3>1. (s - Amount) + (x + Amount) + h + k = s + x + h + k
        BY <2>6
      <3> QED
        BY <2>7, <3>1
    <2> QED
      BY <1>3, <1>6, <2>2, <2>3, <2>5, <2>8 DEF Books
  <1> QED
    BY <1>5, <1>6 DEF Included

\* What a run's step does to the burns.
LEMMA RunBurns ==
    ASSUME DeliveryTypeOK, RunPlaced, RunStep
    PROVE  \/ SameStates /\ savings' = savings
           \/ SendBurn
           \/ \E b \in Burn : Included(b) \/ Attests(b)
  <1>1. burns \in Seq(BurnState)
    BY DEF DeliveryTypeOK, BridgeTypeOK, BurnState
  <1>2. UNCHANGED burns => SameStates
    BY DEF SameStates
  <1>3. CASE Receipt
    <2>1. run.burn \in DOMAIN burns /\ burns' = [burns EXCEPT ![run.burn].printed = TRUE]
          /\ savings' = savings
      BY <1>3 DEF Receipt, RunPlaced
    <2>2. burns[run.burn] \in BurnState
      BY <1>1, <2>1, BurnTypes
    <2> QED
      BY <1>1, <2>1, <2>2 DEF SameStates, BurnState
  <1>4. CASE MintClosed
    <2>1. run.burn \in DOMAIN burns /\ savings' = savings
          /\ \/ burns' = [burns EXCEPT ![run.burn].arrived = TRUE]
             \/ burns' = burns
      BY <1>4 DEF MintClosed, RunPlaced, Attested_
    <2>2. burns[run.burn] \in BurnState
      BY <1>1, <2>1, BurnTypes
    <2> QED
      BY <1>1, <2>1, <2>2 DEF SameStates, BurnState
  <1> QED
    BY <1>2, <1>3, <1>4
    DEF RunStep, StartBridge, Trustline, BurnRefused, WaitTimesOut, GotAttestation,
        PrepareMint,
        SendMint, SendMintFails, MintTimesOut, Resume

LEMMA RunBooks ==
    ASSUME VInv, FundingInv, RunStep, UNCHANGED uses
    PROVE  BurnsGo /\ Books'
  <1> USE DEF VInv, FundingInv
  <1>1. UNCHANGED <<held, minted>>
    BY RunSends DEF cliprailVars, treasury
  <1>2. DeliveryTypeOK /\ burns \in Seq(BurnState)
    BY DEF DeliveryTypeOK, BridgeTypeOK, BurnState
  <1>3. CASE SameStates /\ savings' = savings
    <2>1. \A b : Gone(b)' <=> Gone(b)
      BY <1>3 DEF SameStates, Gone
    <2> QED
      BY <1>1, <1>3, <2>1, SameBooks DEF SameStates, BurnsGo
  <1>4. CASE SendBurn
    <2>1. run.at = "burn" /\ savings' = savings /\ \E hash \in BOOLEAN : Broadcast(hash)
      BY <1>4 DEF SendBurn
    <2>2. PICK n : /\ DOMAIN burns' = DOMAIN burns \cup {n} /\ n \notin DOMAIN burns
                   /\ burns'[n].state = "sent"
                   /\ \A c \in DOMAIN burns : burns'[c] = burns[c]
      <3>1. PICK n : n = Len(burns) + 1
        OBVIOUS
      <3> QED
        BY <1>2, <2>1, <3>1, BurnAdded
    <2>3. \A b : Gone(b)' <=> Gone(b)
      BY <2>2 DEF Gone
    <2> QED
      BY <1>1, <2>1, <2>2, <2>3, SameBooks DEF BurnsGo
  <1>5. CASE \E b \in Burn : Included(b)
    BY <1>1, <1>2, <1>5, IncludedBooks
  <1>6. ASSUME NEW b \in Burn, Attests(b)
        PROVE  BurnsGo /\ Books'
    <2>1. b \in DOMAIN burns /\ burns[b].state = "burnt" /\ savings' = savings
          /\ burns' = [burns EXCEPT ![b].state = "attested"]
      BY <1>6 DEF Attests
    <2>2. burns[b] \in BurnState
      BY <1>2, <2>1, BurnTypes
    <2>3. /\ DOMAIN burns' = DOMAIN burns /\ burns'[b].state = "attested"
          /\ \A c \in DOMAIN burns : c # b => burns'[c] = burns[c]
      BY <1>2, <2>1, <2>2 DEF BurnState
    <2>4. \A c : Gone(c)' <=> Gone(c)
      BY <2>1, <2>3 DEF Gone
    <2> QED
      BY <1>1, <2>1, <2>3, <2>4, SameBooks DEF BurnsGo
  <1> QED
    BY <1>2, <1>3, <1>4, <1>5, <1>6, RunBurns

\* Where a run's step leaves it, and what the run is told.
LEMMA RunMoves ==
    ASSUME VInv, FundingInv, RunStep, BurnsGo
    PROVE  RunPlaced' /\ RunTold'
  <1> USE DEF FundingInv
  <1>1. run \in RunState /\ burns \in Seq(BurnState) /\ burns' \in Seq(BurnState)
        /\ UNCHANGED minted
    BY RunStepTypes, RunSends DEF VInv, DeliveryTypeOK, BridgeTypeOK, RunState, BurnState
  <1>2. /\ burns = <<>> <=> DOMAIN burns = {}
        /\ burns' = <<>> <=> DOMAIN burns' = {}
    BY <1>1, EmptySeq, LenProperties
  <1>3. /\ trusting' \in {trusting, TRUE}
        /\ burns' # <<>> => trusting' = TRUE
    <2>1. trusting' \in {trusting, TRUE}
      BY DEF RunStep, StartBridge, Trustline, BurnRefused, SendBurn, Receipt, WaitTimesOut,
             GotAttestation, PrepareMint, SendMint, SendMintFails, MintClosed, MintTimesOut,
             Resume, Included, Attests, contract
    <2>2. burns # <<>> \/ run.at = "burn" => trusting
      BY DEF RunPlaced
    <2>3. trusting \in BOOLEAN
      BY DEF VInv, DeliveryTypeOK, ContractTypeOK
    <2> QED
      BY <1>2, <2>1, <2>2, <2>3 DEF BurnsGo
  <1>4. \A b : Attested_(b) => Attested_(b)'
    BY DEF Attested_, BurnsGo
  <1>5. \A b \in DOMAIN burns : burns[b].state = "reverted" => burns'[b].state = "reverted"
    BY DEF BurnsGo
  <1>6. DOMAIN burns \subseteq DOMAIN burns'
    BY DEF BurnsGo
  <1> DEFINE Placed(r) ==
        /\ r.at # "rest" => r.told = None
        /\ r.at \notin {"rest", "trustline"} => trusting' = TRUE
        /\ r.resumed => r.burn \in DOMAIN burns' /\ r.at # "burn"
        /\ r.burn \in DOMAIN burns' \cup {0}
        /\ r.at \in {"trustline", "burn"} /\ ~r.resumed => r.burn = 0
        /\ r.at \in {"receipt", "attestation"} => r.burn \in DOMAIN burns'
        /\ \A b \in {r.burn} : r.at \in {"mint", "send", "minting"} => Attested_(b)'
        /\ r.told = "ok" => r.burn \in minted
        /\ r.told = "error" /\ ~r.resumed => r.burn = 0 \/ burns'[r.burn].state = "reverted"
  <1>7. Placed(run') => RunPlaced' /\ RunTold'
    BY <1>1, <1>3 DEF RunPlaced, RunTold, Attested_
  <1>8. /\ run.burn \in DOMAIN burns' \cup {0}
        /\ run.resumed => run.burn \in DOMAIN burns'
    BY <1>6 DEF RunPlaced
  <1>9. ASSUME NEW y \in {"resume", "unsure"}, Stops(y)
        PROVE  Placed(run')
    <2>1. run'.at = "rest" /\ run'.told = y
          /\ run'.burn = run.burn /\ run'.resumed = run.resumed
      BY <1>1, <1>9, StopsTypes DEF Verdict, Answer
    <2> QED
      BY <1>8, <2>1
  <1>10. ASSUME Stops("error"),
                 run.resumed \/ run.burn = 0 \/ burns'[run.burn].state = "reverted"
         PROVE  Placed(run')
    <2>1. run'.at = "rest" /\ run'.told = "error"
          /\ run'.burn = run.burn /\ run'.resumed = run.resumed
      BY <1>1, <1>10, StopsTypes DEF Verdict, Answer
    <2> QED
      BY <1>8, <1>10, <2>1
  <1>11. ASSUME run.at # "rest", trusting' = TRUE,
                NEW y \in {"attestation", "mint", "send", "minting"}, RunGoes(y),
                run.burn \in DOMAIN burns', y # "attestation" => Attested_(run.burn)
         PROVE  Placed(run')
    <2>1. run'.at = y /\ run'.told = None
          /\ run'.burn = run.burn /\ run'.resumed = run.resumed
      BY <1>1, <1>11, RunGoesTypes DEF RunPlaced
    <2>2. \A b \in {run.burn} : y # "attestation" => Attested_(b)'
      BY <1>4, <1>11
    <2> QED
      BY <1>8, <1>11, <2>1, <2>2 DEF None
  <1>12. ASSUME run' = run PROVE Placed(run')
    <2>1. \A b \in {run.burn} : run.at \in {"mint", "send", "minting"} => Attested_(b)'
      BY <1>4 DEF RunPlaced
    <2>2. run.told = "error" /\ ~run.resumed =>
            run.burn = 0 \/ burns'[run.burn].state = "reverted"
      BY <1>5 DEF RunTold, RunPlaced
    <2>3. run.at \notin {"rest", "trustline"} => trusting' = TRUE
      BY <1>3 DEF RunPlaced
    <2> QED
      BY <1>6, <1>8, <1>12, <2>1, <2>2, <2>3 DEF RunPlaced, RunTold
  <1> HIDE DEF Placed
  <1> SUFFICES Placed(run')
    BY <1>7
  <1>13. CASE StartBridge
    BY <1>1, <1>13 DEF StartBridge, NoRun, Placed, None
  <1>14. ASSUME NEW b \in Burn, Resume(b) PROVE Placed(run')
    BY <1>6, <1>14 DEF Resume, NoRun, Placed, None
  <1>15. CASE Trustline
    <2>1. CASE Stops("error")
      <3>1. run.resumed \/ run.burn = 0
        BY <1>15 DEF Trustline, RunPlaced
      <3> QED
        BY <2>1, <3>1, <1>10
    <2>2. CASE trusting' = TRUE /\ RunGoes(IF run.resumed THEN "attestation" ELSE "burn")
      <3>1. CASE run.resumed
        BY <1>8, <1>11, <1>15, <2>2, <3>1 DEF Trustline
      <3>2. CASE ~run.resumed
        <4>1. RunGoes("burn") /\ run.burn = 0 /\ run.told = None
          BY <1>15, <2>2, <3>2 DEF Trustline, RunPlaced
        <4>2. run'.at = "burn" /\ run'.told = None /\ run'.burn = 0 /\ ~run'.resumed
          BY <1>1, <3>2, <4>1, RunGoesTypes
        <4> QED
          BY <2>2, <4>2 DEF Placed, None
      <3> QED
        BY <3>1, <3>2
    <2> QED
      BY <1>15, <2>1, <2>2 DEF Trustline
  <1>16. CASE BurnRefused
    BY <1>10, <1>16 DEF BurnRefused, RunPlaced
  <1>17. CASE SendBurn
    <2>1. CASE Stops("unsure")
      BY <1>9, <2>1
    <2>2. CASE Broadcast(TRUE) /\ run' = [run EXCEPT !.at = "receipt", !.burn = Len(burns) + 1]
      <3>1. Len(burns) + 1 \in DOMAIN burns'
        BY <1>1, <2>2, BurnAdded
      <3>2. run'.at = "receipt" /\ run'.burn = Len(burns) + 1 /\ run'.told = run.told
            /\ run'.resumed = run.resumed
        BY <1>1, <2>2 DEF RunState
      <3>3. run.at = "burn" /\ run.told = None /\ ~run.resumed /\ trusting' = TRUE
        BY <1>3, <1>17 DEF SendBurn, RunPlaced
      <3> QED
        BY <3>1, <3>2, <3>3 DEF Placed, None
    <2> QED
      BY <1>17, <2>1, <2>2 DEF SendBurn
  <1>18. CASE \E b \in Burn : Included(b) \/ Attests(b)
    BY <1>12, <1>18 DEF Included, Attests
  <1>19. CASE Receipt
    <2>1. run.at = "receipt" /\ run.burn \in DOMAIN burns /\ trusting' = TRUE
      BY <1>3, <1>19 DEF Receipt, RunPlaced
    <2>2. CASE RunGoes("attestation")
      BY <1>6, <1>11, <2>1, <2>2
    <2>3. CASE State("reverted") /\ Stops("error")
      BY <1>5, <1>10, <2>1, <2>3 DEF State
    <2> QED
      BY <1>19, <2>2, <2>3 DEF Receipt
  <1>20. CASE WaitTimesOut \/ MintTimesOut
    BY <1>9, <1>20 DEF WaitTimesOut, MintTimesOut
  <1>21. CASE GotAttestation
    <2>1. run.at = "attestation" /\ run.burn \in DOMAIN burns /\ trusting' = TRUE
          /\ State("attested")
          /\ RunGoes("mint")
      BY <1>3, <1>21 DEF GotAttestation, RunPlaced
    <2> QED
      BY <1>6, <1>11, <2>1 DEF State, Attested_
  <1>22. CASE PrepareMint
    <2>1. CASE Stops("resume")
      BY <1>9, <2>1
    <2>2. CASE run' = [run EXCEPT !.at = "send", !.base = seen[relayer]]
      <3>1. run'.at = "send" /\ run'.burn = run.burn /\ run'.told = run.told
            /\ run'.resumed = run.resumed
        BY <1>1, <2>2 DEF RunState
      <3>2. run.at = "mint" /\ run.told = None /\ trusting' = TRUE /\ Attested_(run.burn)
        BY <1>3, <1>22 DEF PrepareMint, RunPlaced
      <3>3. \A b \in {run.burn} : Attested_(b)'
        BY <1>4, <3>2
      <3> QED
        BY <1>8, <3>1, <3>2, <3>3 DEF Placed, None
    <2> QED
      BY <1>22, <2>1, <2>2 DEF PrepareMint
  <1>23. CASE SendMint \/ SendMintFails
    <2>1. CASE Stops("resume") \/ Stops("unsure")
      BY <1>9, <2>1
    <2>2. CASE RunGoes("minting")
      <3>1. run.at = "send" /\ trusting' = TRUE /\ Attested_(run.burn)
        BY <1>3, <1>23 DEF SendMint, SendMintFails, RunPlaced
      <3> QED
        BY <1>6, <1>11, <2>2, <3>1 DEF Attested_
    <2> QED
      BY <1>23, <2>1, <2>2 DEF SendMint, SendMintFails
  <1>24. CASE MintClosed
    <2>1. PICK o \in Outcomes(relayer, Brand) :
            /\ run.at = "minting"
            /\ IF o.ok THEN Stops("ok") ELSE Stops("resume")
      BY <1>24 DEF MintClosed
    <2>2. CASE ~o.ok
      BY <1>9, <2>1, <2>2
    <2>3. CASE o.ok
      <3>1. run.burn \in minted
        <4>1. o \in closed /\ o.from = relayer /\ o.asker = Brand
          BY <2>1 DEF Outcomes
        <4>2. Effect(AwaitedCall(relayer, Brand))
          BY <2>3, <4>1 DEF VInv, VerdictInv, Matched
        <4> QED
          BY <4>2 DEF AwaitedCall, MintCall, Call, Effect
      <3>2. run'.at = "rest" /\ run'.told = "ok"
            /\ run'.burn = run.burn /\ run'.resumed = run.resumed
        BY <1>1, <2>1, <2>3, StopsTypes DEF Verdict, Answer
      <3> QED
        BY <1>8, <3>1, <3>2 DEF Placed, None
    <2> QED
      BY <2>2, <2>3
  <1> QED
    BY <1>13, <1>14, <1>15, <1>16, <1>17, <1>18, <1>19, <1>20, <1>21, <1>22, <1>23, <1>24
    DEF RunStep

\* Only an attested burn's mint is sent.
LEMMA RunMints ==
    ASSUME VInv, FundingInv, RunStep, BurnsGo
    PROVE  MintsAttested'
  <1> USE DEF VInv, FundingInv
  <1>1. UNCHANGED minted /\ relayer \in Sender /\ NetworkTypeOK
    BY RunSends, RelayerApart DEF DeliveryTypeOK
  <1>2. \A b : Attested_(b) => Attested_(b)'
    BY DEF Attested_, BurnsGo
  <1>3. ASSUME NoNewMints PROVE MintsAttested'
    <2>1. \A b \in minted' : Attested_(b)'
      BY <1>1, <1>2 DEF MintsAttested
    <2>2. ASSUME NEW a \in Sender, NEW i \in DOMAIN pool'[a],
                 pool'[a][i].call.fn = "mint_and_forward"
          PROVE  \A b \in {pool'[a][i].call.arg.burn} : Attested_(b)'
      BY <1>2, <1>3, <2>2 DEF NoNewMints, MintsAttested
    <2> QED
      BY <2>1, <2>2 DEF MintsAttested, Attested_
  <1>4. CASE UNCHANGED <<pool, closed>>
    BY <1>1, <1>3, <1>4, PoolUnchanged, ThinnedNoMints
  <1>5. CASE Forsake(relayer, Brand)
    <2>1. Brand \in Asker \ {Nobody}
      BY NetworkAssumption DEF Asker, User
    <2> QED
      BY <1>1, <1>3, <1>5, <2>1, ForsakeThins, ThinnedNoMints
  <1>6. ASSUME NEW x \in Asker, Sends(relayer, MintCall, x), run.at = "send"
        PROVE  MintsAttested'
    <2>1. PICK c \in Calls : c = MintCall
      <3>1. MintCall \in MintCalls
        BY RelayerApart DEF MintCall, Call, MintCalls, DeliveryTypeOK, BridgeTypeOK
      <3> QED
        BY <3>1 DEF Calls
    <2>2. c.arg.burn = run.burn /\ Attested_(run.burn)
      BY <1>6, <2>1 DEF MintCall, Call, RunPlaced
    <2>3. PICK n :
            /\ \A a \in Sender : a # relayer => pool'[a] = pool[a]
            /\ DOMAIN pool'[relayer] = DOMAIN pool[relayer] \cup {n}
            /\ \A i \in DOMAIN pool[relayer] : pool'[relayer][i] = pool[relayer][i]
            /\ pool'[relayer][n] = [call |-> c, asker |-> x]
      <3>1. PICK n : n = Len(pool[relayer]) + 1
        OBVIOUS
      <3> QED
        BY <1>1, <1>6, <2>1, <3>1, SendsAdds
    <2>4. PICK a : a = relayer
      OBVIOUS
    <2>5. \A b \in minted' : Attested_(b)'
      BY <1>1, <1>2 DEF MintsAttested
    <2>6. ASSUME NEW s \in Sender, NEW i \in DOMAIN pool'[s],
                 pool'[s][i].call.fn = "mint_and_forward"
          PROVE  \A b \in {pool'[s][i].call.arg.burn} : Attested_(b)'
      <3>1. CASE s = a /\ i = n
        <4>1. pool'[s][i].call = c
          BY <2>3, <2>4, <3>1
        <4> QED
          BY <1>2, <2>2, <4>1
      <3>2. CASE ~(s = a /\ i = n)
        <4>1. i \in DOMAIN pool[s] /\ pool'[s][i] = pool[s][i]
          BY <2>3, <2>4, <3>2
        <4> QED
          BY <1>2, <2>6, <4>1 DEF MintsAttested
      <3> QED
        BY <3>1, <3>2
    <2> QED
      BY <2>5, <2>6 DEF MintsAttested, Attested_
  <1>7. Brand \in Asker /\ Nobody \in Asker
    BY DEF Asker, User
  <1> QED
    BY <1>4, <1>5, <1>6, <1>7, RunSends

LEMMA RunFunding ==
    ASSUME VInv, FundingInv, RunStep, UNCHANGED <<press, uses>>
    PROVE  FundingInv'
  <1>1. BurnsGo /\ Books'
    BY RunBooks
  <1>2. RunPlaced' /\ RunTold' /\ MintsAttested'
    BY <1>1, RunMoves, RunMints
  <1>3. UNCHANGED <<router, funding>>
    <2>1. UNCHANGED router
      BY RunSends DEF VInv, cliprailVars, treasury
    <2>2. UNCHANGED funding
      BY DEF RunStep, StartBridge, Trustline, BurnRefused, SendBurn, Receipt, WaitTimesOut,
             GotAttestation, PrepareMint, SendMint, SendMintFails, MintClosed, MintTimesOut,
             Resume, Included, Attests
    <2> QED
      BY <2>1, <2>2
  <1>4. FundingWrites'
    BY <1>3 DEF FundingInv, FundingWrites
  <1> QED
    BY <1>1, <1>2, <1>4 DEF FundingInv

\* The campaign script writes while nothing moves.
LEMMA FundFunding ==
    ASSUME VInv, FundingInv, UNCHANGED uses, FundCampaign \/ Funded
    PROVE  FundingInv'
  <1> USE DEF FundingInv
  <1>1. UNCHANGED <<contract, network, run, burns, savings, bridged>>
    BY DEF FundCampaign, WriteDirectly, Funded
  <1>2. UNCHANGED <<router, held, minted, trusting, pool>>
    BY <1>1 DEF contract, cliprailVars, treasury, network
  <1>3. RunPlaced' /\ RunTold' /\ MintsAttested'
    BY <1>1, <1>2 DEF RunPlaced, RunTold, MintsAttested, Attested_
  <1>4. Books'
    <2>1. \A b : Gone(b)' <=> Gone(b)
      BY <1>1 DEF Gone
    <2> QED
      BY <1>1, <1>2, <2>1, SameBooks
  <1>5. FundingWrites'
    <2>1. CASE FundCampaign
      <3>1. funding' = [at |-> "writing", escrow |-> held[Contract][USDC], told |-> None]
        BY <2>1 DEF FundCampaign
      <3> QED
        BY <1>2, <3>1 DEF FundingWrites, None
    <2>2. CASE Funded
      <3>1. funding \in FundingState
        BY DEF VInv, DeliveryTypeOK, BridgeTypeOK, FundingState
      <3>2. press'[Brand].at = "rest" /\ press' = press
        BY <2>2 DEF Funded, Resting
      <3>3. funding'.at = "rest"
          /\ (funding'.told = "ok" => press[Brand].told \in {"done", "ok"})
        BY <2>2, <3>1 DEF Funded, FundingState
      <3>4. press[Brand].told # "ok"
        BY DEF VInv, DeliveryTypeOK, PressTypeOK, PressState, Answer, Reason, None, User
      <3> QED
        BY <1>2, <3>2, <3>3, <3>4 DEF FundingWrites
    <2> QED
      BY <2>1, <2>2
  <1> QED
    BY <1>3, <1>4, <1>5

LEMMA StepFunding ==
    VInv /\ FundingInv /\ [DeliveryNext]_deliveryVars => FundingInv'
  <1> SUFFICES ASSUME VInv, FundingInv, [DeliveryNext]_deliveryVars PROVE FundingInv'
    OBVIOUS
  <1>1. UNCHANGED uses /\ NetworkTypeOK /\ Brand \in User
    BY DEF DeliveryNext, deliveryVars, VInv, DeliveryTypeOK, User
  <1>2. UNCHANGED <<pool, closed>> => NoNewMints
    BY <1>1, PoolUnchanged, ThinnedNoMints
  <1>3. CASE NetworkNext /\ UNCHANGED <<press, bridging>>
    <2>1. ASSUME NEW a \in Sender, Land(a) PROVE FundingInv'
      BY <1>1, <1>3, <2>1, LandFunding
    <2>2. ASSUME NEW a \in Sender, Drop(a) PROVE FundingInv'
      <3>1. UNCHANGED contract
        BY <2>2 DEF Drop
      <3> QED
        BY <1>1, <1>3, <2>2, <3>1, DropThins, ThinnedNoMints, FundingFrame
    <2>3. ASSUME NEW a \in Sender, CatchUp(a) PROVE FundingInv'
      <3>1. UNCHANGED contract /\ UNCHANGED <<pool, closed>>
        BY <2>3 DEF CatchUp
      <3> QED
        BY <1>1, <1>2, <1>3, <3>1, FundingFrame
    <2> QED
      BY <1>3, <2>1, <2>2, <2>3 DEF NetworkNext
  <1>4. CASE RelayerNext /\ UNCHANGED <<press, bridging>>
    BY <1>1, <1>4, RelayerNoMints, FundingFrame
  <1>5. CASE ClientNext /\ UNCHANGED bridging
    BY <1>1, <1>5, ClientNoMints, RestStays, FundingFrame
  <1>6. CASE Restart
    <2>1. RelayerForgets /\ UNCHANGED <<contract, bridging>> /\ relayer' = relayer
      BY <1>6, StepVerdicts DEF Restart
    <2>2. Thinned
      BY <1>1, <2>1, ForgettingThins, RelayerApart DEF VInv
    <2> QED
      BY <1>1, <1>6, <2>1, <2>2, ThinnedNoMints, RestStays, FundingFrame
  <1>7. CASE OnboardingNext /\ UNCHANGED bridging
    BY <1>1, <1>7, ClientNoMints, OnboardingLeavesBrand, FundingFrame
  <1>8. CASE UNCHANGED <<contract, network, press, bridging>>
    <2>1. UNCHANGED <<pool, closed>>
      BY <1>8 DEF network
    <2> QED
      BY <1>1, <1>2, <1>8, <2>1, FundingFrame
  <1>9. CASE RunStep /\ UNCHANGED press
    BY <1>1, <1>9, RunFunding
  <1>10. CASE FundCampaign \/ Funded
    BY <1>1, <1>10, FundFunding
  <1>11. (\E k \in Job : KeeperSubmits(k)) => UNCHANGED <<contract, network>>
    BY DEF KeeperSubmits
  <1> QED
    BY <1>3, <1>4, <1>5, <1>6, <1>7, <1>8, <1>9, <1>10, <1>11
    DEF DeliveryNext, Everywhere, PeopleJoin, BrandFunds, BridgeNext, RunStep, deliveryVars

LEMMA InitFunding == DeliveryInit => FundingInv
  <1> SUFFICES ASSUME DeliveryInit PROVE FundingInv
    OBVIOUS
  <1>1. /\ run = NoRun /\ burns = <<>> /\ savings = Savings
        /\ funding = [at |-> "rest", escrow |-> 0, told |-> None]
        /\ minted = {} /\ router = FALSE
        /\ \A a \in Sender : pool[a] = <<>>
        /\ press[Brand] = NoPress
    BY DEF DeliveryInit, BridgeInit, NetworkInit, ContractInit, ClientInit, User
  <1>2. RunPlaced /\ RunTold
    BY <1>1 DEF RunPlaced, RunTold, NoRun, None
  <1>3. DOMAIN burns = {} /\ \A a \in Sender : DOMAIN pool[a] = {}
    BY <1>1
  <1>4. MintsAttested
    BY <1>1, <1>3 DEF MintsAttested
  <1>5. FundingWrites
    BY <1>1 DEF FundingWrites, NoPress, None
  <1>6. Books
    <2>1. held[Brand][USDC] = 0 /\ held[Contract][USDC] = OfHome(USDC)
      BY AccountsApart, BridgeAssumption DEF DeliveryInit, ContractInit, OfHome, Account
    <2>2. Away = {}
      BY <1>3 DEF Away
    <2>3. Cardinality(Away) = 0
      BY <2>2, FS_EmptySet
    <2>4. OfHome(USDC) \in Nat
      BY DeliveryAssumption, TreasuryAssumption DEF OfHome
    <2>5. Amount * 0 = 0
      BY BridgeAssumption
    <2> QED
      BY <1>1, <2>1, <2>3, <2>4, <2>5, BridgeAssumption DEF Books
  <1> QED
    BY <1>2, <1>4, <1>5, <1>6 DEF FundingInv

LEMMA FundingFollows == VInv /\ FundingInv => FundingHolds
  <1> SUFFICES ASSUME VInv, FundingInv PROVE FundingHolds
    OBVIOUS
  <1>1. funding.told = "ok" => TookEffect(press[Brand].call)
    BY DEF FundingInv, FundingWrites, VInv, VerdictInv, ToldTrue, Effect, User
  <1> QED
    BY <1>1 DEF FundingInv, RunPlaced, Books, RunTold, FundingHolds

\* Whatever fails between the two chains, and whoever shares the relayer's account,
\* the brand's USDC is where the scripts say: no unit is lost or minted twice,
\* "ok" means minted or escrowed, and after an error nothing has left
\* (runBridge of the bridge script, and the script that funds a campaign).
THEOREM FundingAlwaysHolds == DeliverySpec => []FundingHolds
  <1>1. VInv /\ FundingInv /\ [DeliveryNext]_deliveryVars => VInv' /\ FundingInv'
    BY StepVerdicts, StepFunding
  <1>2. DeliveryInit => VInv /\ FundingInv
    BY InitVerdicts, InitFunding
  <1> QED
    BY <1>1, <1>2, FundingFollows, PTL DEF DeliverySpec

=============================================================================
