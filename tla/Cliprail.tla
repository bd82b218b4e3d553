------------------------------ MODULE Cliprail ------------------------------
(***************************************************************************)
(* The cliprail contract with all its campaigns: the money of Treasury,    *)
(* the humanity registry that join asks, and what the campaigns share      *)
(* besides, the index of registered posts and the replay keys.             *)
(***************************************************************************)
EXTENDS Humanity, Treasury

CONSTANTS
    Video,
    ProofStamp,  \* timestamps of attested responses
    MaxProofAge, ProofSkew

ASSUME CliprailAssumption ==
    ProofStamp \subseteq Nat /\ MaxProofAge \in Nat /\ ProofSkew \in Nat

VARIABLES
    joined,     \* per campaign: participants
    postIndex,  \* per video: the campaign and the participant it is registered for
    usedProof

posts == <<joined, postIndex, usedProof>>
cliprailVars == <<now, registry, treasury, posts>>

Unregistered == [campaign |-> 0, owner |-> Nobody]
\* An attested response about a post, whose text shows a participant's code.
PostProof ==
    [video : Video, campaign : CampaignId, owner : Wallet, ts : ProofStamp]

Init ==
    /\ now = 0
    /\ RegistryInit
    /\ TreasuryInit
    /\ joined = [c \in CampaignId |-> {}]
    /\ postIndex = [v \in Video |-> Unregistered]
    /\ usedProof = {}

\* create_campaign and create_campaign_with_swap: nothing starts in the past.
Create(o) ==
    /\ now <= o.start
    /\ Funding(o)
    /\ UNCHANGED <<now, registry, posts>>

Join(c, w) ==
    /\ Exists(c)
    /\ now < campaign[c].params.end
    /\ w \notin joined[c]
    /\ campaign[c].params.human => IsVerified(c, w)
    /\ joined' = [joined EXCEPT ![c] = @ \cup {w}]
    /\ UNCHANGED <<now, registry, treasury, postIndex, usedProof>>

\* Replay protection, shared by all campaigns and both kinds of proof.
Consume(p) ==
    /\ p \notin usedProof
    /\ usedProof' = usedProof \cup {p}

MutIndexed(v, c) == postIndex[v].campaign = c  \* one registration per campaign
Indexed(v, c) == postIndex[v] # Unregistered

RegisterClip(c, w, p) ==
    /\ Exists(c)
    /\ now < campaign[c].params.end
    /\ w \in joined[c]
    /\ ~Indexed(p.video, c)
    /\ p.ts <= now + ProofSkew
    /\ now - p.ts <= MaxProofAge
    /\ p.campaign = c /\ p.owner = w
    /\ Consume(p)
    /\ postIndex' = [postIndex EXCEPT ![p.video] = [campaign |-> c, owner |-> w]]
    /\ UNCHANGED <<now, registry, treasury, joined>>

\* What submit_proof does to the shared state: it takes a proof for a clip of that
\* campaign only, with its owner's code.  Its time windows and what it does to the
\* campaign's weights are in module Campaign.
SubmitProof(c, p) ==
    /\ Exists(c)
    /\ postIndex[p.video] = [campaign |-> c, owner |-> p.owner]
    /\ p.campaign = c
    /\ p.ts <= now + ProofSkew
    /\ Consume(p)
    /\ UNCHANGED <<now, registry, treasury, joined, postIndex>>

Tick ==
    /\ now < Horizon
    /\ now' = now + 1
    /\ UNCHANGED <<registry, treasury, posts>>

Next ==
    \/ Tick
    \/ RegistryNext /\ UNCHANGED <<now, treasury, posts>>
    \/ (SetRouter \/ Spending) /\ UNCHANGED <<now, registry, posts>>
    \/ \E o \in Offer : Create(o)
    \/ \E c \in CampaignId, w \in Wallet : Join(c, w)
    \/ \E c \in CampaignId, w \in Wallet, p \in PostProof : RegisterClip(c, w, p)
    \/ \E c \in CampaignId, p \in PostProof : SubmitProof(c, p)

Spec == Init /\ [][Next]_cliprailVars

-----------------------------------------------------------------------------
PostsTypeOK ==
    /\ now \in 0 .. Horizon
    /\ joined \in [CampaignId -> SUBSET Wallet]
    /\ postIndex \in [Video -> [campaign : CampaignId, owner : Wallet]
                               \cup {Unregistered}]
    /\ usedProof \in SUBSET PostProof

\* Every participant of a campaign for humans was vouched for by a nullifier of
\* that campaign, which vouches for nobody else: there are no more participants
\* than people (or wallets the relayer vetted), also after revocations.
ParticipantsArePeople ==
    \A c \in 1 .. count : campaign[c].params.human =>
      \A w \in joined[c] : \E n \in Nullifier : walletOf[c][n] = w

\* All proofs ever consumed for one post are for one campaign and one owner.
OnePostOneCampaign ==
    \A p, q \in usedProof :
      p.video = q.video => p.campaign = q.campaign /\ p.owner = q.owner

=============================================================================
