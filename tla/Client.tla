------------------------------- MODULE Client -------------------------------
(***************************************************************************)
(* The client library's writes.  A write asks the verifier for a proof if  *)
(* its call needs one, builds the transaction (which simulates it), has    *)
(* the wallet sign it, sends it and waits for the outcome.  Whoever made   *)
(* the write is told how it ended: done, the contract's refusal, declined  *)
(* in the wallet, failed, or unsure, when an answer was lost and the call  *)
(* may have taken effect or still may.                                     *)
(***************************************************************************)
EXTENDS Relayer, Prover, ProofService

CONSTANTS
    Identity,  \* the person each wallet's owner proves to be
    VideoOf,   \* of those that made one: the video
    Retries

ASSUME ClientAssumption ==
    /\ Identity \in [Wallet -> Person]
    /\ DOMAIN VideoOf \subseteq Wallet
    /\ \A w \in DOMAIN VideoOf : VideoOf[w] \in Video
    /\ Retries \in Nat

VARIABLE press  \* per account: its last write, where it stands, how it ended

User == Wallet \cup {Brand}
NoCall == Call("none", Nobody, Nobody)
NoPress == [call |-> NoCall, at |-> "rest", base |-> 0, tries |-> 0, told |-> None]

ClientInit == press = [u \in User |-> NoPress]

Resting(u) == press[u].at = "rest"
Goes(u, place) == press' = [press EXCEPT ![u].at = place]

MutRetryable(reason) == TRUE  \* whatever the error

\* What the write is repeated for.  The two other errors of the pattern are the
\* simulation's: before anything is sent, repeating it repeats a read.
Retryable(reason) == reason \in {"txBadSeq", "TRY_AGAIN_LATER"}

-----------------------------------------------------------------------------
(***************************************************************************)
(* The verifier's part of a write.                                         *)
(***************************************************************************)
IdentityProof(w) ==
    [person |-> Identity[w], campaign |-> Home, wallet |-> w,
     key |-> issuerKey, ts |-> now]

ClipProof(v, owner) == [video |-> v, campaign |-> Home, owner |-> owner, ts |-> now]

Starts(u, c, place) ==
    press' = [press EXCEPT ![u] = [NoPress EXCEPT !.call = c, !.at = place]]

\* registerHumanZk
VerifyByProof(w) ==
    /\ Resting(w)
    /\ Prove(w)
    /\ Starts(w, Call("register_zk", w, IdentityProof(w)),
              IF entry[w] = "proof" THEN "build" ELSE "proof")
    /\ UNCHANGED <<contract, network, relaying, attesting, faults>>

\* registerClip
ProveAndRegister(w) ==
    LET v == VideoOf[w]
    IN  /\ Resting(w)
        /\ \/ /\ Reusable(v)
              /\ Starts(w, Call("register_clip", w, ClipProof(v, saved[v].owner)), "build")
              /\ UNCHANGED attesting
           \/ /\ ~Reusable(v)
              /\ Fetches(v)
              /\ Starts(w, Call("register_clip", w, ClipProof(v, Nobody)), "proof")
              /\ UNCHANGED <<page, saved>>
        /\ UNCHANGED <<contract, network, relaying, proving, faults>>

\* join, createCampaign: straight to the contract.
WriteDirectly(u, c) ==
    /\ Resting(u)
    /\ Starts(u, c, "build")
    /\ UNCHANGED <<contract, network, relaying, proving, attesting, faults>>

Told(u, verdict) ==
    [press[u] EXCEPT !.at = "rest", !.base = 0, !.tries = 0, !.told = verdict]
Ends(u, verdict) == press' = [press EXCEPT ![u] = Told(u, verdict)]

ProverAnswers ==
    /\ jobs # <<>>
    /\ \E made \in BOOLEAN :
         /\ Settles(made)
         /\ IF made THEN UNCHANGED faults ELSE Fault
         /\ press' = IF Head(jobs).awaited
                     THEN [press EXCEPT ![Head(jobs).of] =
                             IF made THEN [@ EXCEPT !.at = "build"]
                             ELSE Told(Head(jobs).of, "failed")]
                     ELSE press
    /\ UNCHANGED <<contract, network, relaying, attesting>>

ProverTimesOut(w) ==
    /\ press[w].at = "proof" /\ press[w].call.fn = "register_zk"
    /\ Fault
    /\ NoLongerAwaited(w)
    /\ Ends(w, "failed")
    /\ UNCHANGED <<contract, network, relaying, entry, attesting>>

AwaitsProofOf(u, v) ==
    /\ press[u].at = "proof"
    /\ press[u].call.fn = "register_clip"
    /\ VideoOf[u] = v

ProofArrives(v) ==
    /\ Attested(v)
    /\ press' = [u \in User |->
                   IF AwaitsProofOf(u, v)
                   THEN [press[u] EXCEPT !.at = "build",
                           !.call.arg = ClipProof(v, fetching[v].owner)]
                   ELSE press[u]]
    /\ UNCHANGED <<contract, network, relaying, proving, faults>>

NoProofArrives(v) ==
    /\ FetchFails(v)
    /\ Fault
    /\ press' = [u \in User |-> IF AwaitsProofOf(u, v) THEN Told(u, "failed") ELSE press[u]]
    /\ UNCHANGED <<contract, network, relaying, proving>>

-----------------------------------------------------------------------------
(***************************************************************************)
(* runWrite.                                                               *)
(***************************************************************************)
Build(u) ==
    LET refusal == Refusal(press[u].call)
    IN  /\ press[u].at = "build"
        /\ \/ refusal # None /\ Ends(u, refusal)
           \/ /\ refusal = None
              /\ press' = [press EXCEPT ![u].at = "sign", ![u].base = seen[u]]
        /\ UNCHANGED <<contract, network, relaying, proving, attesting, faults>>

\* A failure of which the caller is certain: it may be worth another try.
Fails(u, reason) ==
    press' = [press EXCEPT ![u] =
                IF Retryable(reason) /\ press[u].tries < Retries
                THEN [press[u] EXCEPT !.at = "build", !.base = 0, !.tries = @ + 1]
                ELSE Told(u, "failed")]

Accepted(u) == press[u].base = Upcoming(u)

SignAndSend(u) ==
    /\ press[u].at = "sign"
    /\ \/ /\ Accepted(u)
          /\ Sends(u, press[u].call, u)
          /\ Goes(u, "sent")
       \/ /\ ~Accepted(u)
          /\ Fails(u, "txBadSeq")
          /\ UNCHANGED pool
    /\ UNCHANGED <<contract, seq, seen, closed, dropped, relaying, proving, attesting,
                   faults>>

Congested(u) ==
    /\ press[u].at = "sign"
    /\ Fault
    /\ Fails(u, "TRY_AGAIN_LATER")
    /\ UNCHANGED <<contract, network, relaying, proving, attesting>>

Declines(u) ==
    /\ press[u].at = "sign"
    /\ Fault
    /\ Ends(u, "wallet_rejected")
    /\ UNCHANGED <<contract, network, relaying, proving, attesting>>

\* The answer to the send is lost, after or before the network took it.
SendBreaks(u) ==
    /\ press[u].at = "sign"
    /\ Fault
    /\ \/ UNCHANGED pool
       \/ /\ Accepted(u)
          /\ Sends(u, press[u].call, IF Retryable("network") THEN u ELSE Nobody)
    /\ IF Retryable("network") THEN Fails(u, "network") ELSE Ends(u, "unsure")
    /\ UNCHANGED <<contract, seq, seen, closed, dropped, relaying, proving, attesting>>

Answered(u) ==
    \E o \in Outcomes(u, u) :
      /\ Ends(u, IF o.ok THEN "done" ELSE "failed")
      /\ Forsake(u, u)
      /\ UNCHANGED <<contract, seq, seen, dropped, relaying, proving, attesting, faults>>

\* The wait lasts as long as the transaction is good for.
GivesUp(u) ==
    /\ press[u].at = "sent"
    /\ ~Pending(u, u)
    /\ IF Outcomes(u, u) # {} THEN Fault ELSE UNCHANGED faults
    /\ Ends(u, "unsure")
    /\ Forsake(u, u)
    /\ UNCHANGED <<contract, seq, seen, dropped, relaying, proving, attesting>>

ClientNext ==
    \/ ProverAnswers
    \/ \E w \in Wallet : ProverTimesOut(w)
    \/ \E v \in Video : ProofArrives(v) \/ NoProofArrives(v)
    \/ \E u \in User : \/ Build(u) \/ SignAndSend(u) \/ Congested(u) \/ Declines(u)
                       \/ SendBreaks(u) \/ Answered(u) \/ GivesUp(u)

=============================================================================
