------------------------------- MODULE Bridge -------------------------------
(***************************************************************************)
(* The two scripts with which a brand funds a campaign from another chain. *)
(* The first burns USDC there, waits until the burn is attested and mints  *)
(* on Stellar, with the relayer's account unless told otherwise.  Between  *)
(* the burn and the mint the burn's hash on the screen is all there is: a  *)
(* run that dies is resumed with it.  The second creates a campaign with   *)
(* the budget the first moved last.  They are run one after the other.     *)
(***************************************************************************)
EXTENDS Client

CONSTANTS
    Burn,           \* numbers of the burns that may be made
    Savings,        \* USDC the brand has on the other chain
    Amount,         \* what a run is asked to move
    DefaultAmount,  \* what it believes to move if it is not asked
    USDC, NewOffer(_)

ASSUME BridgeAssumption ==
    /\ Savings \in Nat /\ Amount \in Nat /\ DefaultAmount \in Nat \ {0}
    /\ USDC \in Token
    /\ \A b \in {Amount, DefaultAmount} \ {0} : NewOffer(b) \in Offer
    /\ \A b \in Burn : b \in Nat /\ 1 .. b \subseteq Burn

VARIABLES
    run,      \* where a run of the bridge stands, and how the last one ended
    burns,    \* the burns broadcast so far
    savings,
    bridged,  \* the file: what the last run moved
    funding   \* where a run of the other script stands

bridging == <<run, burns, savings, bridged, funding>>

NoRun == [at |-> "rest", burn |-> 0, resumed |-> FALSE, base |-> 0, told |-> None]

BridgeInit ==
    /\ run = NoRun
    /\ burns = <<>>
    /\ savings = Savings
    /\ bridged = 0
    /\ funding = [at |-> "rest", escrow |-> 0, told |-> None]

RunGoes(place) == run' = [run EXCEPT !.at = place]
Stops(verdict) == run' = [run EXCEPT !.at = "rest", !.base = 0, !.told = verdict]
State(s) == burns[run.burn].state = s

StartBridge ==
    /\ run.at = "rest" /\ funding.at = "rest"
    /\ Len(burns) + 1 \in Burn
    /\ run' = [NoRun EXCEPT !.at = "trustline"]
    /\ UNCHANGED <<contract, network, burns, savings, bridged, funding, faults>>

\* With a hash that is on the screen, of a burn nobody was told has arrived.
Resume(b) ==
    /\ run.at = "rest" /\ funding.at = "rest"
    /\ b \in DOMAIN burns
    /\ burns[b].printed /\ ~burns[b].arrived
    /\ run' = [NoRun EXCEPT !.at = "trustline", !.burn = b, !.resumed = TRUE]
    /\ UNCHANGED <<contract, network, burns, savings, bridged, funding, faults>>

MutTrustline ==  \* goes on whether or not the trustline was added
    /\ run.at = "trustline"
    /\ \/ trusting' = TRUE /\ UNCHANGED faults
       \/ Fault /\ trusting' \in {trusting, TRUE}
    /\ RunGoes(IF run.resumed THEN "attestation" ELSE "burn")
    /\ UNCHANGED <<cliprailVars, minted, network, burns, savings, bridged, funding>>

\* The recipient's trustline, added if it is missing.
Trustline ==
    /\ run.at = "trustline"
    /\ \/ /\ trusting' = TRUE
          /\ RunGoes(IF run.resumed THEN "attestation" ELSE "burn")
          /\ UNCHANGED faults
       \/ /\ Fault
          /\ trusting' \in {trusting, TRUE}
          /\ Stops("error")
    /\ UNCHANGED <<cliprailVars, minted, network, burns, savings, bridged, funding>>

-----------------------------------------------------------------------------
Affordable == savings >= Amount

\* The burn is simulated before it is sent.
BurnRefused ==
    /\ run.at = "burn"
    /\ IF Affordable THEN Fault ELSE UNCHANGED faults
    /\ Stops("error")
    /\ UNCHANGED <<contract, network, burns, savings, bridged, funding>>

MutPrinted(hash) == FALSE  \* only once the receipt is there
Printed(hash) == hash

\* The transaction is broadcast; its hash is printed before it is waited for.
\* An error may take the hash away.
Broadcast(hash) ==
    burns' = Append(burns, [state |-> "sent", known |-> hash, printed |-> Printed(hash),
                            arrived |-> FALSE])

SendBurn ==
    /\ run.at = "burn"
    /\ Affordable
    /\ \/ /\ Broadcast(TRUE)
          /\ run' = [run EXCEPT !.at = "receipt", !.burn = Len(burns) + 1]
          /\ UNCHANGED faults
       \/ /\ Fault
          /\ Broadcast(FALSE)
          /\ Stops("unsure")
    /\ UNCHANGED <<contract, network, savings, bridged, funding>>

\* The other chain includes the burn, and Circle attests it.
Included(b) ==
    /\ b \in DOMAIN burns
    /\ burns[b].state = "sent"
    /\ \/ /\ Affordable
          /\ burns' = [burns EXCEPT ![b].state = "burnt"]
          /\ savings' = savings - Amount
          /\ UNCHANGED faults
       \/ /\ IF Affordable THEN Fault ELSE UNCHANGED faults
          /\ burns' = [burns EXCEPT ![b].state = "reverted"]
          /\ UNCHANGED savings
    /\ UNCHANGED <<contract, network, run, bridged, funding>>

Attests(b) ==
    /\ b \in DOMAIN burns
    /\ burns[b].state = "burnt"
    /\ burns' = [burns EXCEPT ![b].state = "attested"]
    /\ UNCHANGED <<contract, network, run, savings, bridged, funding, faults>>

Receipt ==
    /\ run.at = "receipt"
    /\ burns' = [burns EXCEPT ![run.burn].printed = TRUE]
    /\ \/ ~State("sent") /\ ~State("reverted") /\ RunGoes("attestation") /\ UNCHANGED faults
       \/ State("reverted") /\ Stops("error") /\ UNCHANGED faults
    /\ UNCHANGED <<contract, network, savings, bridged, funding>>

\* The receipt, or the attestation, is not waited for any longer.
WaitTimesOut ==
    /\ run.at \in {"receipt", "attestation"}
    /\ IF State("reverted") /\ run.at = "attestation" THEN UNCHANGED faults ELSE Fault
    /\ Stops("unsure")
    /\ UNCHANGED <<contract, network, burns, savings, bridged, funding>>

GotAttestation ==
    /\ run.at = "attestation"
    /\ State("attested")
    /\ RunGoes("mint")
    /\ UNCHANGED <<contract, network, burns, savings, bridged, funding, faults>>

-----------------------------------------------------------------------------
MintCall ==
    Call("mint_and_forward", relayer,
         [burn |-> run.burn, token |-> USDC, amount |-> Amount])

\* invoke: reads the account's number and simulates.  A mint that was made, by a
\* run that gave up on it, is refused.
PrepareMint ==
    /\ run.at = "mint"
    /\ \/ Refusal(MintCall) # None /\ Stops("resume")
       \/ /\ Refusal(MintCall) = None
          /\ run' = [run EXCEPT !.at = "send", !.base = seen[relayer]]
    /\ UNCHANGED <<contract, network, burns, savings, bridged, funding, faults>>

\* Not repeated, with whatever number.
SendMint ==
    /\ run.at = "send"
    /\ \/ /\ run.base = Upcoming(relayer)
          /\ Sends(relayer, MintCall, Brand)
          /\ RunGoes("minting")
       \/ /\ run.base # Upcoming(relayer)
          /\ Stops("resume")
          /\ UNCHANGED pool
    /\ UNCHANGED <<contract, seq, seen, closed, dropped, burns, savings, bridged, funding,
                   faults>>

\* TRY_AGAIN_LATER is taken for sent; an error ends the run.
SendMintFails ==
    /\ run.at = "send"
    /\ Fault
    /\ \/ RunGoes("minting") /\ UNCHANGED pool
       \/ Stops("unsure") /\ UNCHANGED pool
       \/ /\ run.base = Upcoming(relayer)
          /\ Sends(relayer, MintCall, Nobody)
          /\ Stops("unsure")
    /\ UNCHANGED <<contract, seq, seen, closed, dropped, burns, savings, bridged, funding>>

\* A resumed run is not told the amount by the command it was given.
MintClosed ==
    \E o \in Outcomes(relayer, Brand) :
      /\ run.at = "minting"
      /\ IF o.ok
         THEN /\ Stops("ok")
              /\ burns' = [burns EXCEPT ![run.burn].arrived = TRUE]
              /\ bridged' = IF run.resumed THEN DefaultAmount ELSE Amount
         ELSE /\ Stops("resume")
              /\ UNCHANGED <<burns, bridged>>
      /\ Forsake(relayer, Brand)
      /\ UNCHANGED <<contract, seq, seen, dropped, savings, funding, faults>>

\* The mint is not waited for any longer; or a read of its outcome, or of the
\* balance after it, fails, and the run ends without a hint.
MintTimesOut ==
    /\ run.at = "minting"
    /\ \/ /\ IF Pending(relayer, Brand) \/ Outcomes(relayer, Brand) # {} THEN Fault
             ELSE UNCHANGED faults
          /\ Stops("resume")
       \/ /\ Fault
          /\ Stops("unsure")
    /\ Forsake(relayer, Brand)
    /\ UNCHANGED <<contract, seq, seen, dropped, burns, savings, bridged, funding>>

-----------------------------------------------------------------------------
Budget == IF bridged = 0 THEN DefaultAmount ELSE bridged

FundCampaign ==
    /\ run.at = "rest" /\ funding.at = "rest"
    /\ trusting
    /\ held[Brand][USDC] >= Budget
    /\ count + 1 \in CampaignId
    /\ WriteDirectly(Brand, Call("create_campaign", Brand, NewOffer(Budget)))
    /\ funding' = [at |-> "writing", escrow |-> held[Contract][USDC], told |-> None]
    /\ UNCHANGED <<run, burns, savings, bridged>>

\* The campaign the call returned is read back, and the escrow compared.
Funded ==
    LET o == press[Brand].call.arg
    IN  /\ funding.at = "writing"
        /\ Resting(Brand)
        /\ funding' = [funding EXCEPT !.at = "rest", !.told =
             IF press[Brand].told # "done" THEN press[Brand].told
             ELSE IF held[Contract][USDC] - funding.escrow = o.budget THEN "ok"
             ELSE "MISMATCH"]
        /\ UNCHANGED <<contract, network, run, burns, savings, bridged, press, faults>>

BridgeNext ==
    \/ /\ \/ StartBridge \/ Trustline \/ BurnRefused \/ SendBurn \/ Receipt
          \/ WaitTimesOut \/ GotAttestation \/ PrepareMint \/ SendMint
          \/ SendMintFails \/ MintClosed \/ MintTimesOut
          \/ \E b \in Burn : Resume(b) \/ Included(b) \/ Attests(b)
       /\ UNCHANGED <<relaying, proving, attesting, press>>
    \/ FundCampaign
    \/ Funded /\ UNCHANGED <<relaying, proving, attesting>>

=============================================================================
