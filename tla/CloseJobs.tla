------------------------------ MODULE CloseJobs ------------------------------
(***************************************************************************)
(* The verifier's close-proof jobs: one per clip and epoch, shared by the  *)
(* keeper and the callers of /proof/submit.  A job reads the chain, checks *)
(* what the contract will check, fetches a proof unless it has kept one,   *)
(* and sends it.  What it read may be stale by then; what it sent may be   *)
(* applied after the verifier has given up waiting, or never.  The four    *)
(* reads of a job are one step.                                            *)
(*                                                                         *)
(* The chain is module Campaign, without its payouts, which do not concern *)
(* the verifier.                                                           *)
(***************************************************************************)
EXTENDS Campaign

CONSTANTS
    Slack,        \* allowance for a ledger that lags behind the wall clock
    ProofMargin,  \* no fresh fetch this close to the end of the proof window
    MaxFetches,   \* per clip and epoch
    KeepFor,      \* a job is forgotten this long after the proof window
    MaxLag,       \* bound: how far the ledger lags
    MaxLate,      \* bound: transactions under way that nobody waits for
    HasCode       \* what an attested text may show: the participant's code or not

ASSUME CloseJobsAssumption ==
    /\ Slack \in Nat /\ ProofMargin \in Nat /\ MaxFetches \in Nat
    /\ KeepFor \in Nat /\ MaxLag \in Nat /\ MaxLate \in Nat
    /\ HasCode \subseteq BOOLEAN

VARIABLES
    wall,    \* the verifier's clock
    jobs,    \* per video and epoch
    spent,   \* per video and epoch: fetches made by this process
    late     \* proofs sent, not waited for any more, and not yet applied

jobVars == <<jobs, spent, late>>

Response == [proof : Proof, code : HasCode]

NoJob ==
    [fetches |-> 0, kept |-> {}, stage |-> "none", done |-> FALSE, failed |-> FALSE]

JobsInit ==
    /\ wall = 0
    /\ jobs = [v \in Video |-> [e \in Epoch |-> NoJob]]
    /\ spent = [v \in Video |-> [e \in Epoch |-> 0]]
    /\ late = {}

Running(v, e) == jobs[v][e].stage # "none"

\* One that runs or is over is answered as it is.
Startable(v, e) == ~Running(v, e) /\ ~jobs[v][e].done /\ ~jobs[v][e].failed

-----------------------------------------------------------------------------
OpenDispute(v, e) == dispute[v][e].status \in {"Open", "Responded"}

MutSettleable(k) == SettleAt(k) + Slack <= wall  \* whatever its disputes
Settleable(k) ==
    /\ \A v \in Video : ~OpenDispute(v, k)
    /\ SettleAt(k) + Slack <= wall

\* closePrecheck
Provable(v, e, haveProof) ==
    /\ clip[v].owner # Nobody
    /\ clip[v].firstEpoch <= e
    /\ ContentEnd(e) + Slack <= wall
    /\ wall < ProofEnd(e) - IF haveProof THEN Slack ELSE ProofMargin
    /\ clipEpoch[v][e].status \in {"None", "Active"}
    /\ \A k \in campaign.settledEpochs .. e - 1 : Settleable(k)

MayFetch(j) == j.fetches < MaxFetches

\* The first step of a job that the keeper has started, or that somebody asks for.
Read(v, e) ==
    LET j == jobs[v][e]
        to(stage) == [j EXCEPT !.stage = stage]
        fetch == [to("fetching") EXCEPT !.fetches = @ + 1]
        ok == Provable(v, e, j.kept # {})
    IN  /\ j.stage = "reading" \/ Startable(v, e)
        /\ \/ /\ ok /\ j.kept # {}
              /\ jobs' = [jobs EXCEPT ![v][e] = to("sending")]
              /\ UNCHANGED spent
           \/ /\ ok /\ j.kept = {} /\ MayFetch(j)
              /\ jobs' = [jobs EXCEPT ![v][e] = fetch]
              /\ spent' = [spent EXCEPT ![v][e] = @ + 1]
           \/ /\ ok => j.kept = {} /\ ~MayFetch(j)
              /\ jobs' = [jobs EXCEPT ![v][e] = to("none")]
              /\ UNCHANGED spent
        /\ UNCHANGED late

\* What a fetch for e may bring: the attestor signs what the post shows at some
\* moment since the fetch began.
Fetchable(v, e) ==
    {r \in Response : /\ r.proof.video = v
                      /\ r.proof.ts \in ContentEnd(e) + Slack .. wall}

Fetched(v, e, r) ==
    /\ jobs[v][e].stage = "fetching"
    /\ r \in Fetchable(v, e)
    /\ jobs' = [jobs EXCEPT ![v][e] = [@ EXCEPT !.kept = {r}, !.stage = "sending"]]
    /\ UNCHANGED <<spent, late>>

-----------------------------------------------------------------------------
\* How submit_proof answers a response: its first failing check, by name.
Answer(v, e, r) ==
    IF now < ContentEnd(e) THEN "EpochNotReady"
    ELSE IF ProofEnd(e) <= now THEN "WrongPhase"
    ELSE IF r.proof.ts + CloseSlack < ContentEnd(e) \/ now + FutureSkew < r.proof.ts
      THEN "ProofExpired"
    ELSE IF clipEpoch[v][e].status \notin {"None", "Active"} THEN "AlreadyDisputed"
    ELSE IF ~AllReady(e) THEN "OpenDisputes"
    ELSE IF ~r.code THEN "CodeNotFound"
    ELSE IF ~Fresh(r.proof) THEN "ProofReused"
    ELSE "accepted"

Permanent == {"WrongPhase", "AlreadyDisputed", "CodeNotFound"}
Refetch == {"ProofReused", "ProofExpired"}

\* The relayer simulates the call before it sends it; an error ends the job.
Send(v, e) ==
    /\ jobs[v][e].stage = "sending"
    /\ \E r \in jobs[v][e].kept :
         LET answer == Answer(v, e, r)
             keeps == IF answer \in Refetch THEN {} ELSE jobs[v][e].kept
         IN  jobs' = [jobs EXCEPT ![v][e] =
               [@ EXCEPT !.stage = IF answer = "accepted" THEN "sent" ELSE "none",
                         !.kept = keeps,
                         !.failed = answer \in Permanent]]
    /\ UNCHANGED <<spent, late>>

\* The transaction is applied while the verifier polls for it.
Applied(v, e) ==
    /\ jobs[v][e].stage = "sent"
    /\ \E r \in jobs[v][e].kept : r.code /\ SubmitProof(e, r.proof)
    /\ jobs' = [jobs EXCEPT ![v][e] = [@ EXCEPT !.stage = "none", !.done = TRUE]]
    /\ UNCHANGED <<spent, late>>

\* A read or a fetch fails; a transaction is not sent, dropped, or fails when it is applied.
Breaks(v, e) ==
    /\ Running(v, e)
    /\ jobs' = [jobs EXCEPT ![v][e].stage = "none"]
    /\ UNCHANGED <<spent, late>>

\* Polling gives up on a transaction that may still be applied.
GivesUp(v, e) ==
    /\ jobs[v][e].stage = "sent"
    /\ late' = late \cup {[epoch |-> e, proof |-> r.proof] : r \in jobs[v][e].kept}
    /\ Cardinality(late') <= MaxLate
    /\ jobs' = [jobs EXCEPT ![v][e].stage = "none"]
    /\ UNCHANGED spent

AppliedLate(tx) ==
    /\ tx \in late
    /\ SubmitProof(tx.epoch, tx.proof)
    /\ late' = late \ {tx}
    /\ UNCHANGED <<jobs, spent>>

Dropped(tx) ==
    /\ tx \in late
    /\ late' = late \ {tx}
    /\ UNCHANGED <<jobs, spent>>

MutForgotten(e, j) == j.stage = "none"  \* as soon as a job rests

\* prune.  A job that never got its first answer is kept for ever, but there is
\* nothing in it to be forgotten.
Forgotten(e, j) == j.stage = "none" /\ wall > ProofEnd(e) + KeepFor

Pruned(js) ==
    [v \in Video |-> [e \in Epoch |->
        IF Forgotten(e, js[v][e]) THEN NoJob ELSE js[v][e]]]

JobsLost ==
    /\ jobs' = [v \in Video |-> [e \in Epoch |-> NoJob]]
    /\ spent' = [v \in Video |-> [e \in Epoch |-> 0]]
    /\ late' = late \cup
         {[epoch |-> s[2], proof |-> s[3].proof] :
            s \in {t \in Video \X Epoch \X Response :
                     jobs[t[1]][t[2]].stage = "sent" /\ t[3] \in jobs[t[1]][t[2]].kept}}
    /\ Cardinality(late') <= MaxLate

=============================================================================
