------------------------------ MODULE Relayer ------------------------------
(***************************************************************************)
(* The verifier's own account.  Its requests, registrations of the demo    *)
(* and the keeper's submissions, share one sequence of transactions: they  *)
(* are sent one at a time, first come first served, and each is then       *)
(* waited for on its own.  The process keeps the number of its last        *)
(* transaction in memory only.                                             *)
(***************************************************************************)
EXTENDS Network

CONSTANTS
    Job,           \* submissions of the keeper
    BadSeqRetries

ASSUME RelayerAssumption ==
    BadSeqRetries \in Nat /\ Job \cap (Wallet \cup {Nobody, Brand}) = {}

VARIABLES
    asked,    \* per request: how it stands, and in the end what its caller is told
    queue,    \* requests waiting to be sent, the one being sent first
    sending,  \* where the sending of the first stands
    lastSeq   \* number of the last transaction sent; 0 before the first

relaying == <<asked, queue, sending, lastSeq>>

Request == Wallet \cup Job
NotSending == [at |-> "rest", base |-> 0, bad |-> -1, tries |-> 0, first |-> 0]

RelayerInit ==
    /\ asked = [r \in Request |-> None]
    /\ queue = <<>>
    /\ sending = NotSending
    /\ lastSeq = 0

CallOf(r) ==
    IF r \in Wallet THEN Call("register", relayer, r)
    ELSE Call("submit_proof", relayer, Nobody)

InHand(r) == asked[r] \in {"queued", "polling"}

Ask(r) ==
    /\ asked' = [asked EXCEPT ![r] = "queued"]
    /\ queue' = Append(queue, r)

MutStepsPast(base) == base  \* trusts the node again

\* After a refusal the node may still report the number that just failed, for a
\* transaction of ours is pending: step past it.
StepsPast(base) ==
    IF sending.bad >= 0 /\ base <= sending.bad THEN sending.bad + 1 ELSE base

ReadSequence ==
    /\ queue # <<>>
    /\ sending.at \in {"rest", "again"}
    /\ LET reported == seen[relayer]
           base == IF reported < lastSeq THEN lastSeq ELSE reported
       IN  sending' = [sending EXCEPT
             !.at = "send",
             !.base = StepsPast(base),
             !.first = IF sending.at = "rest" THEN reported ELSE @]
    /\ UNCHANGED <<contract, network, asked, queue, lastSeq, faults>>

\* The first request leaves the lock.
Leaves(answer) ==
    /\ asked' = [asked EXCEPT ![Head(queue)] = answer]
    /\ queue' = Tail(queue)
    /\ sending' = NotSending

Taken == sending.base = Upcoming(relayer)

PreparationFails ==
    /\ sending.at = "send"
    /\ Refusal(CallOf(Head(queue))) # None
    /\ Leaves(Refusal(CallOf(Head(queue))))
    /\ UNCHANGED <<contract, network, lastSeq, faults>>

SendRelayed ==
    LET r == Head(queue)
    IN  /\ sending.at = "send"
        /\ Refusal(CallOf(r)) = None
        /\ Taken
        /\ Sends(relayer, CallOf(r), r)
        /\ lastSeq' = sending.base + 1
        /\ Leaves("polling")
        /\ UNCHANGED <<contract, seq, seen, closed, dropped, faults>>

\* Retried with a number read anew, while retries last.
BadSequence ==
    /\ sending.at = "send"
    /\ Refusal(CallOf(Head(queue))) = None
    /\ ~Taken
    /\ lastSeq' = 0
    /\ \/ /\ sending.tries < BadSeqRetries
          /\ sending' = [sending EXCEPT !.at = "again", !.bad = sending.base,
                                       !.tries = @ + 1]
          /\ UNCHANGED <<asked, queue>>
       \/ /\ sending.tries = BadSeqRetries
          /\ Leaves("failed")
    /\ UNCHANGED <<contract, network, faults>>

\* TRY_AGAIN_LATER, or a read that fails: nothing was sent.
NotSent ==
    /\ sending.at = "send"
    /\ Fault
    /\ lastSeq' \in {0, lastSeq}
    /\ Leaves("failed")
    /\ UNCHANGED <<contract, network>>

\* The answer to the send is lost, after or before the network took it.
SendThrows ==
    LET r == Head(queue)
    IN  /\ sending.at = "send"
        /\ Refusal(CallOf(r)) = None
        /\ Fault
        /\ pool' = pool \/ (Taken /\ Sends(relayer, CallOf(r), Nobody))
        /\ Leaves("unsure")
        /\ UNCHANGED <<contract, seq, seen, closed, dropped, lastSeq>>

\* Outside the lock.
Polled(r) ==
    \E o \in Outcomes(relayer, r) :
      /\ asked' = [asked EXCEPT ![r] = IF o.ok THEN "done" ELSE "failed"]
      /\ Forsake(relayer, r)
      /\ UNCHANGED <<contract, seq, seen, dropped, queue, sending, lastSeq, faults>>

\* Thirty seconds of polling, while a transaction is good for sixty.
PollTimesOut(r) ==
    /\ asked[r] = "polling"
    /\ IF Pending(relayer, r) \/ Outcomes(relayer, r) # {} THEN Fault
       ELSE UNCHANGED faults
    /\ asked' = [asked EXCEPT ![r] = "unsure"]
    /\ Forsake(relayer, r)
    /\ UNCHANGED <<contract, seq, seen, dropped, queue, sending, lastSeq>>

KeeperSubmits(k) ==
    /\ asked[k] = None
    /\ Ask(k)
    /\ UNCHANGED <<contract, network, sending, lastSeq, faults>>

RelayerNext ==
    \/ ReadSequence \/ PreparationFails \/ SendRelayed \/ BadSequence
    \/ NotSent \/ SendThrows
    \/ \E r \in Request : Polled(r) \/ PollTimesOut(r)

\* The process dies: its callers get no answer, its memory is gone.
RelayerForgets ==
    /\ asked' = [r \in Request |-> IF InHand(r) THEN "unsure" ELSE asked[r]]
    /\ pool' = [pool EXCEPT ![relayer] =
                  [i \in DOMAIN @ |-> IF @[i].asker \in Request
                                      THEN [@[i] EXCEPT !.asker = Nobody] ELSE @[i]]]
    /\ closed' = {o \in closed : ~(o.from = relayer /\ o.asker \in Request)}
    /\ queue' = <<>>
    /\ sending' = NotSending
    /\ lastSeq' = 0

=============================================================================
