------------------------------ MODULE Delivery ------------------------------
(***************************************************************************)
(* How the calls of people and scripts get to the contracts.  Clippers     *)
(* make their way into a campaign for humans; or a brand brings its USDC   *)
(* from another chain and funds a campaign, while the verifier's keeper,   *)
(* which shares the relayer's account, is at work.                         *)
(***************************************************************************)
EXTENDS Onboarding, Bridge

CONSTANTS
    HomeOffer,  \* parameters of the campaign people join
    Habits      \* who may press what; the brand funds where nobody presses anything

ASSUME DeliveryAssumption ==
    /\ HomeOffer \in Offer
    /\ Home \in CampaignId
    /\ Habits \subseteq [Wallet -> SUBSET Button]

People == \E w \in Wallet : uses[w] # {}

deliveryVars ==
    <<contract, network, faults, relaying, proving, attesting, press, shown, bridging,
      uses>>

ContractInit ==
    /\ now = 0
    /\ relayer \in Relayer
    /\ issuerKey \in IssuerKey
    /\ walletOf = [c \in CampaignId |-> [n \in Nullifier |-> Nobody]]
    /\ nullifierOf = [c \in CampaignId |-> [w \in Wallet |-> NoNullifier]]
    /\ router = FALSE
    /\ joined = [c \in CampaignId |-> {}]
    /\ postIndex = [v \in Video |-> Unregistered]
    /\ usedProof = {}
    /\ LET escrow == IF People THEN HomeOffer.budget ELSE 0
           home == [NoCampaign EXCEPT !.params = HomeOffer, !.balance = HomeOffer.budget]
       IN  /\ count = IF People THEN Home ELSE 0
           /\ campaign = [c \in CampaignId |->
                            IF People /\ c = Home THEN home ELSE NoCampaign]
           /\ held = [a \in Account |-> [t \in Token |->
                        IF a = Contract /\ t = HomeOffer.token THEN escrow ELSE 0]]

DeliveryInit ==
    /\ uses \in Habits
    /\ ContractInit
    /\ NetworkInit
    /\ trusting \in BOOLEAN
    /\ People => trusting
    /\ RelayerInit
    /\ ProverInit
    /\ ProofServiceInit
    /\ ClientInit
    /\ OnboardingInit
    /\ BridgeInit

\* The verifier's process restarts.  Requests under way are cut off.
Restart ==
    /\ Fault
    /\ RelayerForgets /\ ProverForgets /\ ServiceForgets
    /\ press' = [u \in User |->
                   IF press[u].at = "proof" THEN Told(u, "failed") ELSE press[u]]
    /\ UNCHANGED <<contract, seq, seen, dropped, page, saved, shown, bridging>>

ServiceNext ==
    \/ \E v \in Video : /\ ReadPage(v) \/ GrowsOld(v)
                        /\ UNCHANGED proving
    \/ \E w \in Wallet : Expires(w) /\ UNCHANGED attesting

Everywhere ==
    \/ NetworkNext /\ UNCHANGED <<relaying, proving, attesting, press, shown, bridging>>
    \/ RelayerNext /\ UNCHANGED <<proving, attesting, press, shown, bridging>>
    \/ ClientNext /\ UNCHANGED <<shown, bridging>>
    \/ Restart

PeopleJoin ==
    /\ \/ OnboardingNext
       \/ ServiceNext /\ UNCHANGED <<contract, network, faults, relaying, press, shown>>
    /\ UNCHANGED bridging

BrandFunds ==
    /\ \/ BridgeNext
       \/ /\ \E k \in Job : KeeperSubmits(k)
          /\ UNCHANGED <<proving, attesting, press, bridging>>
    /\ UNCHANGED shown

DeliveryNext ==
    /\ \/ Everywhere
       \/ People /\ PeopleJoin
       \/ ~People /\ BrandFunds
    /\ UNCHANGED uses

-----------------------------------------------------------------------------
(***************************************************************************)
(* Fairness.  The network, the RPC node, the verifier, the attestors and   *)
(* the scripts go on; a kept proof grows old; a page that is stale is      *)
(* opened again some day.  People do not give up: they keep pressing the   *)
(* button their page offers, put the code into the description, and resume *)
(* a burn they have the hash of.  Nothing is fair about faults.            *)
(***************************************************************************)
NetworkGoesOn == \E a \in Sender : Land(a) \/ CatchUp(a)
RelayerGoesOn ==
    \/ ReadSequence \/ PreparationFails \/ SendRelayed \/ BadSequence
    \/ \E r \in Request : Polled(r) \/ PollTimesOut(r)
PageIsRead == \E v \in Video : ReadPage(v)
ProofsGrowOld == \E v \in Video : GrowsOld(v)
ProofsArrive == \E v \in Video : ProofArrives(v)
Writes(u) == Build(u) \/ SignAndSend(u) \/ Answered(u) \/ GivesUp(u)
OpensPage(w) == Refresh(w) \/ ShowCode(w)
Persists(w) == PressJoin(w) \/ PressRegister(w)
ScriptGoesOn ==
    \/ Trustline \/ BurnRefused \/ SendBurn \/ Receipt \/ WaitTimesOut \/ GotAttestation
    \/ PrepareMint \/ SendMint \/ MintClosed \/ MintTimesOut
OtherChainGoesOn == \E b \in Burn : Included(b) \/ Attests(b)

ledger == <<contract, network, faults>>
clients == <<ledger, relaying, proving, attesting, press>>
pages == <<clients, shown>>
scripts == <<ledger, bridging>>

Fairness ==
    /\ WF_ledger(NetworkGoesOn)
    /\ WF_<<ledger, relaying>>(RelayerGoesOn)
    /\ WF_clients(ProverAnswers)
    /\ WF_attesting(PageIsRead) /\ WF_clients(ProofsArrive) /\ WF_attesting(ProofsGrowOld)
    /\ \A u \in User : WF_clients(Writes(u))
    /\ \A w \in Wallet :
         SF_pages(OpensPage(w)) /\ WF_pages(Persists(w)) /\ SF_pages(PressDemo(w))
    /\ WF_scripts(ScriptGoesOn) /\ WF_<<ledger, press, bridging>>(Funded)
    /\ WF_scripts(OtherChainGoesOn)
    /\ \A b \in Burn : SF_scripts(Resume(b))

DeliverySpec == DeliveryInit /\ [][DeliveryNext]_deliveryVars /\ Fairness

-----------------------------------------------------------------------------
TookEffect(c) ==
    CASE c.fn = "register_zk" -> IsVerified(Home, c.by)
      [] c.fn = "join" -> c.by \in joined[Home]
      [] c.fn = "register_clip" -> postIndex[c.arg.video].owner = c.by
      [] c.fn = "create_campaign" ->
           \E i \in 1 .. count : campaign[i].params = c.arg /\ campaign[i].balance > 0

Waits(u) == press[u].at = "sent"

\* What a press is told is so, also of a press whose request was repeated: "done"
\* means that the call took effect, and unless it is "unsure", nothing of it is
\* left in the network that could take effect later.  The same holds of what the
\* verifier answers to a registration, and nothing has two copies in the network.
VerdictsHold ==
    /\ \A u \in User :
         /\ press[u].told = "done" => TookEffect(press[u].call)
         /\ Pending(u, u) \/ Outcomes(u, u) # {} => Waits(u)
         /\ Cardinality({i \in DOMAIN pool[u] : pool[u][i].asker = u}) <= 1
    /\ \A w \in Wallet :
         /\ asked[w] = "done" => IsVerified(Home, w)
         /\ Pending(relayer, w) => asked[w] = "polling"

\* After its last attempt a request of the relayer is refused for its number only
\* if, when the first was made, more of the account's transactions than it has
\* retries were taken and not yet reported; or if one was dropped.  A restart, and
\* the bridge, which uses the account without telling, are no excuse.
RelayerKeepsPace ==
    sending.tries = BadSeqRetries /\ sending.at = "send" /\ ~Taken
      => \/ relayer \in dropped
         \/ Upcoming(relayer) - sending.first > BadSeqRetries

Verified(w) == People /\ IsVerified(Home, w)
Joined(w) == w \in joined[Home]
Registered(w) == \E v \in Video : postIndex[v].owner = w

\* Who keeps pressing their page's button gets to its next step: is verified by
\* the relayer, joins, and has the video registered, with their code, however
\* often requests failed before.  (No step is ever undone.)
GetsThrough ==
    <>[] \A w \in Wallet :
           /\ "demo" \in uses[w] => Verified(w)
           /\ "join" \in uses[w] /\ Verified(w) => Joined(w)
           /\ "register" \in uses[w] /\ w \in DOMAIN VideoOf /\ Joined(w) => Registered(w)

Away == {b \in DOMAIN burns : burns[b].state \in {"burnt", "attested"} /\ b \notin minted}
OfHome(t) == IF People /\ t = HomeOffer.token THEN HomeOffer.budget ELSE 0

\* The brand's USDC is where the scripts say.  Every unit is on the other chain,
\* on its way, with the brand or in escrow; what is on its way can be received;
\* "ok" means minted, or escrowed; and after an error that gives no hash to
\* resume with, nothing has left.
FundingHolds ==
    /\ savings + Amount * Cardinality(Away) + held[Brand][USDC] + held[Contract][USDC]
         = Savings + OfHome(USDC)
    /\ burns # <<>> => trusting
    /\ run.told = "ok" => run.burn \in minted
    /\ run.told = "error" /\ ~run.resumed =>
         run.burn = 0 \/ burns[run.burn].state = "reverted"
    /\ funding.told = "ok" => TookEffect(press[Brand].call)

Known(b) == b \in DOMAIN burns /\ burns[b].known
Over(b) == b \in minted \/ (b \in DOMAIN burns /\ burns[b].state = "reverted")

\* A burn whose hash the script was given is minted in the end, or was reverted.
BurnsArrive == <>[] \A b \in Burn : Known(b) => Over(b)

=============================================================================
