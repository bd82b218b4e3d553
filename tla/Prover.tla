------------------------------- MODULE Prover -------------------------------
(***************************************************************************)
(* The verifier's Anon Aadhaar prover.  Proofs are made one at a time and  *)
(* take long; a request for one that is being made shares its job, and a   *)
(* proof made is kept for a while.  A request is given up after a time,    *)
(* its job is not.  Kept proofs and jobs are looked up under campaign,     *)
(* wallet and identity; here everybody has one campaign and one identity.  *)
(***************************************************************************)
EXTENDS Parties, Sequences

VARIABLES
    entry,  \* per wallet: what is kept for it, nothing, a job or its proof
    jobs    \* the jobs in order: for whom, whether still the one kept, and awaited

proving == <<entry, jobs>>

ProverInit ==
    /\ entry = [w \in Wallet |-> "none"]
    /\ jobs = <<>>

\* A request: what it finds, it shares.
Prove(w) ==
    CASE entry[w] = "none" ->
           /\ jobs' = Append(jobs, [of |-> w, kept |-> TRUE, awaited |-> TRUE])
           /\ entry' = [entry EXCEPT ![w] = "job"]
      [] entry[w] = "job" ->
           /\ jobs' = [i \in DOMAIN jobs |->
                         IF jobs[i].of = w /\ jobs[i].kept
                         THEN [jobs[i] EXCEPT !.awaited = TRUE] ELSE jobs[i]]
           /\ UNCHANGED entry
      [] OTHER -> UNCHANGED proving

\* The race against the clock is lost, or the caller has left.
NoLongerAwaited(w) ==
    jobs' = [i \in DOMAIN jobs |->
               IF jobs[i].of = w THEN [jobs[i] EXCEPT !.awaited = FALSE] ELSE jobs[i]]

\* The first job ends.  A failed one is forgotten, if it is still the one kept.
Settles(made) ==
    /\ jobs # <<>>
    /\ jobs' = Tail(jobs)
    /\ entry' = IF Head(jobs).kept
                THEN [entry EXCEPT ![Head(jobs).of] = IF made THEN "proof" ELSE "none"]
                ELSE entry

\* Entries expire by the time they were asked for, also while their job waits.
Expires(w) ==
    /\ entry[w] # "none"
    /\ entry' = [entry EXCEPT ![w] = "none"]
    /\ jobs' = [i \in DOMAIN jobs |->
                  IF jobs[i].of = w THEN [jobs[i] EXCEPT !.kept = FALSE] ELSE jobs[i]]

ProverForgets == entry' = [w \in Wallet |-> "none"] /\ jobs' = <<>>

=============================================================================
