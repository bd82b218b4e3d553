---------------------------- MODULE ProofService ----------------------------
(***************************************************************************)
(* The verifier's proofs of what a video's page shows.  A request is       *)
(* answered with the proof kept in the cache if that is young enough;      *)
(* otherwise the page is fetched, once for all who ask meanwhile, the      *)
(* response attested, and the proof kept.  The cache is on disk.           *)
(***************************************************************************)
EXTENDS Cliprail

VARIABLES
    page,      \* per video: the wallet whose code its description shows, or Nobody
    saved,     \* per video: the kept proof's owner, and how old it is
    fetching   \* per video: where a fetch stands, and what it has read

attesting == <<page, saved, fetching>>

NoFetch == [at |-> "rest", owner |-> Nobody]
NothingSaved == [owner |-> Nobody, age |-> "none"]

ProofServiceInit ==
    /\ page = [v \in Video |-> Nobody]
    /\ saved = [v \in Video |-> NothingSaved]
    /\ fetching = [v \in Video |-> NoFetch]

MutReusable(v) == saved[v] # NothingSaved  \* of any age
Reusable(v) == saved[v].age = "young"

\* The request starts a fetch unless one runs.
Fetches(v) ==
    fetching' = IF fetching[v].at = "rest"
                THEN [fetching EXCEPT ![v].at = "asked"] ELSE fetching

\* The attestor fetches the page.
ReadPage(v) ==
    /\ fetching[v].at = "asked"
    /\ fetching' = [fetching EXCEPT ![v] = [at |-> "read", owner |-> page[v]]]
    /\ UNCHANGED <<page, saved>>

Attested(v) ==
    /\ fetching[v].at = "read"
    /\ saved' = [saved EXCEPT ![v] = [owner |-> fetching[v].owner, age |-> "young"]]
    /\ fetching' = [fetching EXCEPT ![v] = NoFetch]
    /\ UNCHANGED page

FetchFails(v) ==
    /\ fetching[v].at # "rest"
    /\ fetching' = [fetching EXCEPT ![v] = NoFetch]
    /\ UNCHANGED <<page, saved>>

GrowsOld(v) ==
    /\ saved[v].age = "young"
    /\ saved' = [saved EXCEPT ![v].age = "old"]
    /\ UNCHANGED <<page, fetching>>

\* The clipper changes the video's description.
Edit(v, w) ==
    /\ page[v] # w
    /\ page' = [page EXCEPT ![v] = w]
    /\ UNCHANGED <<saved, fetching>>

ServiceForgets == fetching' = [v \in Video |-> NoFetch]

=============================================================================
