------------------------------ MODULE Parties -------------------------------
(***************************************************************************)
(* The names shared by the modules about all campaigns of the contract.    *)
(***************************************************************************)
EXTENDS Integers

CONSTANTS
    CampaignId,  \* as many campaigns as may be created
    Wallet,      \* addresses that may participate
    Nobody

ASSUME PartiesAssumption ==
    /\ CampaignId \subseteq Nat \ {0}
    /\ \A c \in CampaignId : 1 .. c \subseteq CampaignId
    /\ Nobody \notin Wallet

=============================================================================
