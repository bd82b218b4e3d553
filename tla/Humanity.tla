------------------------------ MODULE Humanity ------------------------------
(***************************************************************************)
(* The humanity contract: which wallet stands for which person in a        *)
(* campaign.  The relayer registers wallets it has vetted; a person may    *)
(* register a wallet with an Anon Aadhaar proof; the admin may revoke.     *)
(* Both paths write the same two maps.                                     *)
(*                                                                         *)
(* A proof's nullifier is a function of the person and of the campaign the *)
(* proof was made for; the nullifier of the verifier's demo registration   *)
(* is a function of wallet and campaign.  The pairing check is taken as    *)
(* sound: it accepts a proof for exactly the inputs it was made with.      *)
(***************************************************************************)
EXTENDS Parties

CONSTANTS
    Person,
    Keypair,        \* those of them that are ed25519 accounts
    Relayer,        \* who may be made the relayer
    IssuerKey,      \* keys an identity document may be signed with
    ProofTime,      \* timestamps of identity documents
    MaxAge,         \* of a document, from the Anon Aadhaar configuration
    MaxFutureSkew,
    Horizon         \* bound: the last instant considered

ASSUME HumanityAssumption ==
    /\ Keypair \subseteq Wallet
    /\ Person \cap Wallet = {}
    /\ Nobody \notin IssuerKey \cup Person
    /\ ProofTime \subseteq Nat
    /\ MaxAge \in Nat /\ MaxFutureSkew \in Nat /\ Horizon \in Nat

VARIABLES
    now,          \* ledger timestamp
    relayer,
    issuerKey,    \* of the Anon Aadhaar configuration; Nobody before it is set
    walletOf,     \* per campaign and nullifier: the wallet it was used for
    nullifierOf   \* per campaign and wallet: its nullifier while registered

registry == <<relayer, issuerKey, walletOf, nullifierOf>>

Nullifier == [of : Person \cup Wallet, campaign : CampaignId]
NoNullifier == [of |-> Nobody, campaign |-> 0]
AadhaarProof ==
    [person : Person, campaign : CampaignId, wallet : Wallet, key : IssuerKey,
     ts : ProofTime]

RegistryInit ==
    /\ relayer \in Relayer
    /\ issuerKey = Nobody
    /\ walletOf = [c \in CampaignId |-> [n \in Nullifier |-> Nobody]]
    /\ nullifierOf = [c \in CampaignId |-> [w \in Wallet |-> NoNullifier]]

\* record: neither the nullifier nor the wallet may be in use.
MutRecord(c, n, w) ==  \* looks only at the wallets registered now
    /\ nullifierOf[c][w] = NoNullifier
    /\ walletOf' = [walletOf EXCEPT ![c][n] = w]
    /\ nullifierOf' = [nullifierOf EXCEPT ![c][w] = n]

Record(c, n, w) ==
    /\ walletOf[c][n] = Nobody
    /\ nullifierOf[c][w] = NoNullifier
    /\ walletOf' = [walletOf EXCEPT ![c][n] = w]
    /\ nullifierOf' = [nullifierOf EXCEPT ![c][w] = n]

\* The nullifier the verifier computes for a demo registration.
DemoNullifier(c, w) == [of |-> w, campaign |-> c]

Register(r, c, w) ==
    /\ r = relayer
    /\ Record(c, DemoNullifier(c, w), w)
    /\ UNCHANGED <<relayer, issuerKey>>

MutBound(p, c, w) == p.wallet = w  \* a proof made for any campaign will do

\* The inputs the contract computes itself, campaign and wallet, are the ones
\* the proof was made for.
Bound(p, c, w) == p.campaign = c /\ p.wallet = w

ProofNullifier(p) == [of |-> p.person, campaign |-> p.campaign]

RegisterZk(p, c, w) ==
    /\ w \in Keypair
    /\ p.ts <= now + MaxFutureSkew
    /\ now - p.ts <= MaxAge
    /\ p.key = issuerKey
    /\ Bound(p, c, w)
    /\ Record(c, ProofNullifier(p), w)
    /\ UNCHANGED <<relayer, issuerKey>>

MutRevoke(c, w) ==  \* forgets the nullifier as well
    /\ nullifierOf' = [nullifierOf EXCEPT ![c][w] = NoNullifier]
    /\ walletOf' = [walletOf EXCEPT ![c][nullifierOf[c][w]] = Nobody]
    /\ UNCHANGED <<relayer, issuerKey>>

\* The nullifier stays used.
Revoke(c, w) ==
    /\ nullifierOf' = [nullifierOf EXCEPT ![c][w] = NoNullifier]
    /\ UNCHANGED <<relayer, issuerKey, walletOf>>

SetRelayer(r) ==
    /\ relayer' = r
    /\ UNCHANGED <<issuerKey, walletOf, nullifierOf>>

SetAadhaarConfig(k) ==
    /\ issuerKey' = k
    /\ UNCHANGED <<relayer, walletOf, nullifierOf>>

MutIsVerified(c, w) ==  \* in whatever campaign
    \E d \in CampaignId : nullifierOf[d][w] # NoNullifier

IsVerified(c, w) == nullifierOf[c][w] # NoNullifier

RegistryNext ==
    \/ \E r \in Relayer, c \in CampaignId, w \in Wallet : Register(r, c, w)
    \/ \E p \in AadhaarProof, c \in CampaignId, w \in Wallet : RegisterZk(p, c, w)
    \/ \E c \in CampaignId, w \in Wallet : Revoke(c, w)
    \/ \E r \in Relayer : SetRelayer(r)
    \/ \E k \in IssuerKey : SetAadhaarConfig(k)

-----------------------------------------------------------------------------
RegistryTypeOK ==
    /\ relayer \in Relayer
    /\ issuerKey \in IssuerKey \cup {Nobody}
    /\ walletOf \in [CampaignId -> [Nullifier -> Wallet \cup {Nobody}]]
    /\ nullifierOf \in [CampaignId -> [Wallet -> Nullifier \cup {NoNullifier}]]

\* The wallets a person has ever stood behind in a campaign, and those through
\* which the person is verified now.
WalletsEver(c, p) ==
    {walletOf[c][n] : n \in {m \in Nullifier : m.of = p}} \ {Nobody}
WalletsNow(c, p) == {w \in Wallet : nullifierOf[c][w].of = p}

\* A person never stands behind two wallets of one campaign, not even after the
\* first was revoked, nor with a proof made for another campaign.
OnePersonOneWallet ==
    \A c \in CampaignId, p \in Person :
      \A w, x \in WalletsEver(c, p) \cup WalletsNow(c, p) : w = x

\* A nullifier once used stays with its wallet for good.
UsedForGood ==
    [][\A c \in CampaignId, n \in Nullifier :
         walletOf[c][n] # Nobody => walletOf'[c][n] = walletOf[c][n]]_registry

=============================================================================
