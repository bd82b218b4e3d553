---------------------------- MODULE KeeperProofs ----------------------------
(***************************************************************************)
(* Theorems about the keeper and its jobs, for every campaign and every    *)
(* setting of the verifier: beside a keeper the chain does what module     *)
(* Campaign lets it do, the quota of fetches holds although jobs are       *)
(* forgotten, no fetch is doomed, and nothing is sent in vain as long as   *)
(* the ledger lags no further behind than the verifier allows for.         *)
(***************************************************************************)
EXTENDS Keeper, CampaignProofs

-----------------------------------------------------------------------------
(***************************************************************************)
(* The invariant, in parts.                                                *)
(***************************************************************************)
Stage == {"none", "reading", "fetching", "sending", "sent"}
Job == [fetches : Nat, kept : SUBSET Response, stage : Stage, done : BOOLEAN,
        failed : BOOLEAN]
Pair == Video \X Epoch
Target == Pair \cup {NoTarget}

JobsTypeOK ==
    /\ wall \in Nat
    /\ jobs \in [Video -> [Epoch -> Job]]
    /\ spent \in [Video -> [Epoch -> Nat]]
    /\ late \subseteq [epoch : Epoch, proof : Proof]

TickTypeOK ==
    /\ tick \in [at : Place, target : Target, t : Nat, settled : Nat]
    /\ seen \in [Video -> [Epoch -> DisputeStatus \cup {"Finalized"}]]
    /\ todo \subseteq Pair
    /\ tick.at = "finalizing" => tick.target \in Pair
    /\ tick.at = "settling" => tick.settled \in Epoch

KInv == IInv /\ JobsTypeOK /\ TickTypeOK

\* A job's count is what has been spent, unless it was forgotten, and then it is
\* too late for another fetch.
QuotaKept ==
    \A v \in Video, e \in Epoch :
      /\ spent[v][e] <= MaxFetches
      /\ spent[v][e] = jobs[v][e].fetches \/ ProofEnd(e) + KeepFor < wall

\* The ledger is behind the wall clock, by MaxLag at most, and a tick goes by a
\* time that has been.
Paced == now <= wall /\ wall <= now + MaxLag /\ tick.t <= wall

Closed(v, e) == dispute[v][e].status \in {"ClipperWon", "ChallengerWon"}

\* A dispute still to be finalized can be, unless it is closed.
TodoIsDue == \A d \in todo : Closed(d[1], d[2]) \/ CanFinalize(d)

HasSeen == {"finalize", "finalizing", "settle", "settling", "clips"}

\* Of an epoch that is due by the tick's time, a dispute it has not seen to be
\* open is not.
SeenIsTrue ==
    tick.at \in HasSeen =>
      \A v \in Video, e \in Epoch :
        SettleAt(e) + Slack <= tick.t /\ OpenDispute(v, e)
          => seen[v][e] \in {"Open", "Responded"}

\* The tick settles what was pending when it read the campaign.
Follows == tick.at # "idle" => tick.settled <= campaign.settledEpochs

TickInv == Paced /\ TodoIsDue /\ SeenIsTrue /\ Follows

-----------------------------------------------------------------------------
(***************************************************************************)
(* The jobs.                                                               *)
(***************************************************************************)
LEMMA NoJobType == NoJob \in Job
BY DEF NoJob, Job, Stage

\* A job in stage s that has fetched as often as j.
Like(i, j, s) == i \in Job /\ i.fetches = j.fetches /\ i.stage = s

LEMMA JobWith ==
    ASSUME NEW j \in Job
    PROVE  /\ \A s \in Stage : Like([j EXCEPT !.stage = s], j, s)
           /\ \A K \in SUBSET Response : Like([j EXCEPT !.kept = K], j, j.stage)
           /\ \A b \in BOOLEAN : Like([j EXCEPT !.done = b], j, j.stage)
           /\ \A b \in BOOLEAN : Like([j EXCEPT !.failed = b], j, j.stage)
           /\ LET i == [j EXCEPT !.fetches = @ + 1]
              IN  i \in Job /\ i.fetches = j.fetches + 1 /\ i.stage = j.stage
<1>1. \A s \in Stage : Like([j EXCEPT !.stage = s], j, s)
  BY DEF Like, Job
<1>2. \A K \in SUBSET Response : Like([j EXCEPT !.kept = K], j, j.stage)
  BY DEF Like, Job
<1>3. \A b \in BOOLEAN : Like([j EXCEPT !.done = b], j, j.stage)
  BY DEF Like, Job
<1>4. \A b \in BOOLEAN : Like([j EXCEPT !.failed = b], j, j.stage)
  BY DEF Like, Job
<1>5. LET i == [j EXCEPT !.fetches = @ + 1]
      IN  i \in Job /\ i.fetches = j.fetches + 1 /\ i.stage = j.stage
  BY DEF Job
<1> QED
  BY <1>1, <1>2, <1>3, <1>4, <1>5

LEMMA JobWithMore ==
    ASSUME NEW j \in Job, NEW s \in Stage
    PROVE  /\ LET i == [[j EXCEPT !.stage = s] EXCEPT !.fetches = @ + 1]
              IN  i \in Job /\ i.fetches = j.fetches + 1 /\ i.stage = s
           /\ Like([j EXCEPT !.stage = s, !.done = TRUE], j, s)
           /\ \A K \in SUBSET Response : Like([j EXCEPT !.kept = K, !.stage = s], j, s)
           /\ \A K \in SUBSET Response, b \in BOOLEAN :
                Like([j EXCEPT !.stage = s, !.kept = K, !.failed = b], j, s)
<1> DEFINE i == [j EXCEPT !.stage = s]
<1>1. Like(i, j, s)
  BY JobWith
<1>2. Like([i EXCEPT !.done = TRUE], j, s) 
  <2> HIDE DEF i
  <2> QED
    BY <1>1, JobWith DEF Like
<1>3. LET k == [i EXCEPT !.fetches = @ + 1]
      IN  k \in Job /\ k.fetches = j.fetches + 1 /\ k.stage = s
  <2> HIDE DEF i
  <2> QED
    BY <1>1, JobWith DEF Like
<1>4. ASSUME NEW K \in SUBSET Response, NEW b \in BOOLEAN
      PROVE  Like([j EXCEPT !.stage = s, !.kept = K, !.failed = b], j, s)
  <2> DEFINE k == [i EXCEPT !.kept = K]
  <2>1. Like(k, j, s)
    <3> HIDE DEF i
    <3> QED
      BY <1>1, JobWith DEF Like
  <2>2. Like([k EXCEPT !.failed = b], j, s)
    <3> HIDE DEF k
    <3> QED
      BY <2>1, JobWith DEF Like
  <2> QED
    BY <2>2
<1>5. ASSUME NEW K \in SUBSET Response
      PROVE  Like([j EXCEPT !.kept = K, !.stage = s], j, s)
  <2> DEFINE k == [j EXCEPT !.kept = K]
  <2>1. Like(k, j, j.stage)
    BY JobWith
  <2>2. Like([k EXCEPT !.stage = s], j, s)
    <3> HIDE DEF k
    <3> QED
      BY <2>1, JobWith DEF Like
  <2> QED
    BY <2>2
<1> QED
  BY <1>2, <1>3, <1>4, <1>5

\* What a step of one job does to it, and to what is known of all of them.
JobMoves(v, e, j, n) ==
    /\ jobs' = [jobs EXCEPT ![v][e] = j]
    /\ spent' = [spent EXCEPT ![v][e] = n]

LEMMA JobMovesOK ==
    ASSUME JobsTypeOK, NEW v \in Video, NEW e \in Epoch, NEW j \in Job, NEW n \in Nat,
           JobMoves(v, e, j, n)
    PROVE  /\ jobs' \in [Video -> [Epoch -> Job]]
           /\ spent' \in [Video -> [Epoch -> Nat]]
           /\ jobs'[v][e] = j /\ spent'[v][e] = n
           /\ \A u \in Video, k \in Epoch :
                u # v \/ k # e => jobs'[u][k] = jobs[u][k] /\ spent'[u][k] = spent[u][k]
BY DEF JobsTypeOK, JobMoves

\* A fetch is counted twice over, and only begun if the closing proof can still
\* be made.
StartsFetch(v, e) ==
    /\ Provable(v, e, FALSE) /\ MayFetch(jobs[v][e])
    /\ jobs'[v][e].fetches = jobs[v][e].fetches + 1
    /\ spent'[v][e] = spent[v][e] + 1
    /\ UNCHANGED <<vars, wall>>

SameCounts(v, e) ==
    /\ jobs'[v][e].fetches = jobs[v][e].fetches
    /\ spent'[v][e] = spent[v][e]
    /\ jobs'[v][e].stage = "fetching" => jobs[v][e].stage = "fetching"

\* Most steps change neither count.
Rests(v, e) ==
    \E i \in Job : /\ JobMoves(v, e, i, spent[v][e])
                   /\ i.fetches = jobs[v][e].fetches
                   /\ i.stage # "fetching"

LEMMA RestsOK ==
    ASSUME JobsTypeOK, NEW v \in Video, NEW e \in Epoch, Rests(v, e), wall' = wall,
           late' \subseteq [epoch : Epoch, proof : Proof]
    PROVE  JobsTypeOK' /\ \A u \in Video, k \in Epoch : SameCounts(u, k)
<1>1. PICK i \in Job : /\ JobMoves(v, e, i, spent[v][e])
                       /\ i.fetches = jobs[v][e].fetches
                       /\ i.stage # "fetching"
  BY DEF Rests
<1>2. spent[v][e] \in Nat
  BY DEF JobsTypeOK
<1>3. /\ jobs' \in [Video -> [Epoch -> Job]]
      /\ spent' \in [Video -> [Epoch -> Nat]]
      /\ jobs'[v][e] = i /\ spent'[v][e] = spent[v][e]
      /\ \A u \in Video, k \in Epoch :
           u # v \/ k # e => jobs'[u][k] = jobs[u][k] /\ spent'[u][k] = spent[u][k]
  BY <1>1, <1>2, JobMovesOK
<1>4. JobsTypeOK'
  BY <1>3 DEF JobsTypeOK
<1>5. SameCounts(v, e)
  BY <1>1, <1>3 DEF SameCounts
<1>6. \A u \in Video, k \in Epoch : u # v \/ k # e => SameCounts(u, k)
  BY <1>3 DEF SameCounts
<1> QED
  BY <1>4, <1>5, <1>6

LEMMA RestsBy ==
    ASSUME JobsTypeOK, NEW v \in Video, NEW e \in Epoch, NEW i, NEW s,
           jobs' = [jobs EXCEPT ![v][e] = i], UNCHANGED spent,
           Like(i, jobs[v][e], s), s # "fetching"
    PROVE  Rests(v, e)
<1>1. spent' = [spent EXCEPT ![v][e] = spent[v][e]]
  BY DEF JobsTypeOK
<1> QED
  BY <1>1 DEF Rests, JobMoves, Like

LEMMA JobEffect ==
    ASSUME JobsTypeOK, NEW v \in Video, NEW e \in Epoch, JobNext(v, e)
    PROVE  /\ JobsTypeOK'
           /\ wall' = wall /\ UNCHANGED keeper
           /\ StartsFetch(v, e) \/ SameCounts(v, e)
           /\ \A u \in Video, k \in Epoch : u # v \/ k # e => SameCounts(u, k)
<1> DEFINE j == jobs[v][e]
           n == spent[v][e]
           Effect ==
             /\ JobsTypeOK'
             /\ StartsFetch(v, e) \/ SameCounts(v, e)
             /\ \A u \in Video, k \in Epoch : u # v \/ k # e => SameCounts(u, k)
           Sent == [epoch : Epoch, proof : Proof]
<1>1. /\ j \in Job /\ n \in Nat /\ n + 1 \in Nat
      /\ j.kept \in SUBSET Response
      /\ late \subseteq Sent
      /\ "sending" \in Stage /\ "none" \in Stage /\ "sent" \in Stage /\ "fetching" \in Stage
  BY DEF JobsTypeOK, Job, Stage
<1>2. wall' = wall /\ UNCHANGED keeper
  BY DEF JobNext, keeper
<1>3. Rests(v, e) /\ late' \subseteq Sent => Effect
  BY <1>2, RestsOK
<1> HIDE DEF Effect
<1>4. ASSUME Read(v, e), UNCHANGED vars
      PROVE  Effect
  <2>1. late' = late
    BY <1>4 DEF Read
  <2>2. ASSUME NEW s \in {"sending", "none"},
               jobs' = [jobs EXCEPT ![v][e] = [j EXCEPT !.stage = s]], UNCHANGED spent
        PROVE  Effect
    <3>1. Like([j EXCEPT !.stage = s], j, s)
      BY <1>1, JobWith
    <3>2. Rests(v, e)
      BY <2>2, <3>1, RestsBy
    <3> QED
      BY <1>1, <1>3, <2>1, <3>2
  <2>3. CASE jobs' = [jobs EXCEPT ![v][e] = [j EXCEPT !.stage = "sending"]] /\ UNCHANGED spent
    BY <2>2, <2>3
  <2>4. CASE jobs' = [jobs EXCEPT ![v][e] = [j EXCEPT !.stage = "none"]] /\ UNCHANGED spent
    BY <2>2, <2>4
  <2>5. CASE /\ Provable(v, e, j.kept # {}) /\ j.kept = {} /\ MayFetch(j)
             /\ jobs' = [jobs EXCEPT ![v][e] =
                           [[j EXCEPT !.stage = "fetching"] EXCEPT !.fetches = @ + 1]]
             /\ spent' = [spent EXCEPT ![v][e] = @ + 1]
    <3> DEFINE i == [[j EXCEPT !.stage = "fetching"] EXCEPT !.fetches = @ + 1]
    <3>1. i \in Job /\ i.fetches = j.fetches + 1
      BY <1>1, JobWithMore
    <3>2. jobs' = [jobs EXCEPT ![v][e] = i] /\ spent' = [spent EXCEPT ![v][e] = n + 1]
      BY <2>5
    <3> HIDE DEF i
    <3>3. /\ jobs' \in [Video -> [Epoch -> Job]] /\ spent' \in [Video -> [Epoch -> Nat]]
          /\ jobs'[v][e] = i /\ spent'[v][e] = n + 1
          /\ \A u \in Video, k \in Epoch :
               u # v \/ k # e => jobs'[u][k] = jobs[u][k] /\ spent'[u][k] = spent[u][k]
      <4>1. JobMoves(v, e, i, n + 1)
        BY <3>2 DEF JobMoves
      <4> QED
        BY <1>1, <3>1, <4>1, JobMovesOK
    <3>4. Provable(v, e, FALSE)
      <4>1. (j.kept # {}) = FALSE
        BY <2>5
      <4> QED
        BY <2>5, <4>1
    <3>5. StartsFetch(v, e)
      BY <1>2, <1>4, <2>5, <3>1, <3>3, <3>4 DEF StartsFetch
    <3>6. JobsTypeOK'
      BY <1>2, <2>1, <3>3 DEF JobsTypeOK
    <3>7. \A u \in Video, k \in Epoch : u # v \/ k # e => SameCounts(u, k)
      BY <3>3 DEF SameCounts
    <3> QED
      BY <3>5, <3>6, <3>7 DEF Effect
  <2> QED
    BY <1>4, <2>3, <2>4, <2>5 DEF Read
<1>5. ASSUME NEW r \in Response, Fetched(v, e, r)
      PROVE  Effect
  <2> DEFINE i == [j EXCEPT !.kept = {r}, !.stage = "sending"]
  <2>0. {r} \in SUBSET Response
    OBVIOUS
  <2>1. Like(i, j, "sending")
    BY <1>1, <2>0, JobWithMore
  <2>2. jobs' = [jobs EXCEPT ![v][e] = i] /\ UNCHANGED <<spent, late>>
    BY <1>5 DEF Fetched
  <2> HIDE DEF i
  <2> QED
    BY <1>1, <1>3, <2>1, <2>2, RestsBy
<1>6. ASSUME Send(v, e)
      PROVE  Effect
  <2>1. PICK r \in j.kept :
          jobs' = [jobs EXCEPT ![v][e] =
            [@ EXCEPT !.stage = IF Answer(v, e, r) = "accepted" THEN "sent" ELSE "none",
                      !.kept = IF Answer(v, e, r) \in Refetch THEN {} ELSE j.kept,
                      !.failed = Answer(v, e, r) \in Permanent]]
    BY <1>6 DEF Send
  <2> DEFINE s == IF Answer(v, e, r) = "accepted" THEN "sent" ELSE "none"
             K == IF Answer(v, e, r) \in Refetch THEN {} ELSE j.kept
             f == Answer(v, e, r) \in Permanent
             i == [j EXCEPT !.stage = s, !.kept = K, !.failed = f]
  <2>2. jobs' = [jobs EXCEPT ![v][e] = i]
    BY <2>1
  <2>3. s \in Stage /\ s # "fetching" /\ K \in SUBSET Response /\ f \in BOOLEAN
    BY <1>1
  <2> HIDE DEF s, K, f
  <2>4. Like(i, j, s)
    BY <1>1, <2>3, JobWithMore
  <2>5. UNCHANGED <<spent, late>>
    BY <1>6 DEF Send
  <2> HIDE DEF i
  <2> QED
    BY <1>1, <1>3, <2>2, <2>3, <2>4, <2>5, RestsBy
<1>7. ASSUME Applied(v, e)
      PROVE  Effect
  <2> DEFINE i == [j EXCEPT !.stage = "none", !.done = TRUE]
  <2>1. Like(i, j, "none")
    BY <1>1, JobWithMore
  <2>2. jobs' = [jobs EXCEPT ![v][e] = i] /\ UNCHANGED <<spent, late>>
    BY <1>7 DEF Applied
  <2> HIDE DEF i
  <2> QED
    BY <1>1, <1>3, <2>1, <2>2, RestsBy
<1>8. ASSUME Breaks(v, e) \/ GivesUp(v, e)
      PROVE  Effect
  <2> DEFINE i == [j EXCEPT !.stage = "none"]
  <2>1. Like(i, j, "none")
    BY <1>1, JobWith
  <2>2. jobs' = [jobs EXCEPT ![v][e] = i] /\ UNCHANGED spent
    BY <1>8 DEF Breaks, GivesUp
  <2> HIDE DEF i
  <2>3. Rests(v, e)
    BY <2>1, <2>2, RestsBy
  <2>4. \A r \in j.kept : [epoch |-> e, proof |-> r.proof] \in Sent
    BY <1>1 DEF Response
  <2>5. late' \subseteq Sent
    BY <1>1, <1>8, <2>4 DEF Breaks, GivesUp
  <2> QED
    BY <1>3, <2>3, <2>5
<1>9. Effect
  BY <1>4, <1>5, <1>6, <1>7, <1>8 DEF JobNext, Fetched, Fetchable
<1> QED
  BY <1>2, <1>9 DEF Effect

-----------------------------------------------------------------------------
(***************************************************************************)
(* What a step may do to the counts of a clip and epoch: nothing, one more *)
(* fetch, or forget them, either late enough or all at once.               *)
(***************************************************************************)
Forgets(v, e) ==
    /\ jobs'[v][e] = NoJob
    /\ spent'[v][e] = spent[v][e]
    /\ ProofEnd(e) + KeepFor < wall

StartsAnew(v, e) == jobs'[v][e] = NoJob /\ spent'[v][e] = 0

CountsMove(v, e) ==
    StartsFetch(v, e) \/ SameCounts(v, e) \/ Forgets(v, e) \/ StartsAnew(v, e)

JobsMove ==
    /\ JobsTypeOK'
    /\ wall <= wall'
    /\ \A v \in Video, e \in Epoch : CountsMove(v, e)

LEMMA PrunedOK ==
    ASSUME JobsTypeOK, NEW js \in [Video -> [Epoch -> Job]],
           \A v \in Video, e \in Epoch :
             /\ js[v][e].fetches = jobs[v][e].fetches
             /\ js[v][e].stage = "fetching" => jobs[v][e].stage = "fetching",
           jobs' = Pruned(js), UNCHANGED <<wall, spent, late>>
    PROVE  JobsMove
<1>1. ASSUME NEW v \in Video, NEW e \in Epoch
      PROVE  /\ jobs'[v][e] \in Job
             /\ \/ jobs'[v][e] = js[v][e]
                \/ jobs'[v][e] = NoJob /\ wall > ProofEnd(e) + KeepFor
  <2>1. jobs'[v][e] = IF Forgotten(e, js[v][e]) THEN NoJob ELSE js[v][e]
    BY DEF Pruned
  <2> QED
    BY <2>1, NoJobType DEF Forgotten
<1>2. jobs' \in [Video -> [Epoch -> Job]]
  BY <1>1 DEF Pruned
<1>3. JobsTypeOK' /\ wall <= wall'
  BY <1>2 DEF JobsTypeOK
<1>4. ASSUME NEW v \in Video, NEW e \in Epoch
      PROVE  CountsMove(v, e)
  <2>1. CASE jobs'[v][e] = js[v][e]
    BY <2>1 DEF CountsMove, SameCounts
  <2>2. CASE jobs'[v][e] = NoJob /\ wall > ProofEnd(e) + KeepFor
    <3>1. ProofEnd(e) + KeepFor \in Nat /\ wall \in Nat
      BY EpochType, TimelineType, CloseJobsAssumption DEF JobsTypeOK
    <3> QED
      BY <2>2, <3>1 DEF CountsMove, Forgets
  <2> QED
    BY <1>1, <2>1, <2>2
<1> QED
  BY <1>3, <1>4 DEF JobsMove

LEMMA SameJobs ==
    ASSUME JobsTypeOK, UNCHANGED <<jobs, spent>>, wall' \in Nat, wall <= wall',
           late' \subseteq [epoch : Epoch, proof : Proof]
    PROVE  JobsMove
BY DEF JobsTypeOK, JobsMove, CountsMove, SameCounts

LEMMA JobsStep ==
    ASSUME JobsTypeOK, [KeeperNext]_keeperVars
    PROVE  JobsMove
<1>0. wall \in Nat /\ wall <= wall /\ late \subseteq [epoch : Epoch, proof : Proof]
      /\ jobs \in [Video -> [Epoch -> Job]]
  BY DEF JobsTypeOK
<1>1. ASSUME UNCHANGED <<wall, jobVars>>
      PROVE  JobsMove
  BY <1>0, <1>1, SameJobs DEF jobVars
<1>2. CASE TickNext
  <2>1. ASSUME jobs' = Pruned(jobs), UNCHANGED <<wall, spent, late>>
        PROVE  JobsMove
    BY <1>0, <2>1, PrunedOK
  <2>2. CASE TickStart
    BY <1>0, <2>1, <2>2, SameJobs DEF TickStart, TickEnds
  <2>3. CASE ReadFails
    BY <2>1, <2>3 DEF ReadFails
  <2>4. CASE ReadClips
    <3> DEFINE js == [v \in Video |-> [e \in Epoch |->
                        IF Wanted(v, e) THEN [jobs[v][e] EXCEPT !.stage = "reading"]
                        ELSE jobs[v][e]]]
    <3>1. ASSUME NEW v \in Video, NEW e \in Epoch
          PROVE  /\ js[v][e] \in Job
                 /\ js[v][e].fetches = jobs[v][e].fetches
                 /\ js[v][e].stage = "fetching" => jobs[v][e].stage = "fetching"
      <4>1. jobs[v][e] \in Job /\ "reading" \in Stage
        BY <1>0 DEF Stage
      <4>2. Like([jobs[v][e] EXCEPT !.stage = "reading"], jobs[v][e], "reading")
        BY <4>1, JobWith
      <4> QED
        BY <4>1, <4>2 DEF Like
    <3>2. js \in [Video -> [Epoch -> Job]]
      BY <3>1
    <3>3. jobs' = Pruned(js) /\ UNCHANGED <<wall, spent, late>>
      BY <2>4 DEF ReadClips, TickEnds
    <3> HIDE DEF js
    <3> QED
      BY <3>1, <3>2, <3>3, PrunedOK
  <2>5. CASE /\ ~TickStart /\ ~ReadFails /\ ~ReadClips
    <3>1. UNCHANGED <<wall, jobVars>>
      BY <1>2, <2>5 DEF TickNext, ReadDisputes, SendFinalize, Finalized, FinalizeFails,
            FinalizedAll, SendSettle, SettledNext, SettleFails
    <3> QED
      BY <1>1, <3>1
  <2> QED
    BY <2>2, <2>3, <2>4, <2>5
<1>3. ASSUME NEW v \in Video, NEW e \in Epoch, JobNext(v, e)
      PROVE  JobsMove
  <2>1. /\ JobsTypeOK' /\ wall' = wall
        /\ StartsFetch(v, e) \/ SameCounts(v, e)
        /\ \A u \in Video, k \in Epoch : u # v \/ k # e => SameCounts(u, k)
    BY <1>3, JobEffect
  <2> QED
    BY <1>0, <2>1 DEF JobsMove, CountsMove
<1>4. ASSUME NEW tx \in late, LateNext(tx)
      PROVE  JobsMove
  <2>1. UNCHANGED <<jobs, spent, wall>> /\ late' \subseteq late
    BY <1>4 DEF LateNext, AppliedLate, Dropped
  <2> QED
    BY <1>0, <2>1, SameJobs
<1>5. CASE Restart
  <2>1. /\ jobs' = [v \in Video |-> [e \in Epoch |-> NoJob]]
        /\ spent' = [v \in Video |-> [e \in Epoch |-> 0]]
        /\ wall' = wall
    BY <1>5 DEF Restart, JobsLost
  <2>2. late' \subseteq [epoch : Epoch, proof : Proof]
    BY <1>0, <1>5 DEF Restart, JobsLost, Response
  <2>3. JobsTypeOK'
    BY <1>0, <2>1, <2>2, NoJobType DEF JobsTypeOK
  <2>4. \A v \in Video, e \in Epoch : StartsAnew(v, e)
    BY <2>1 DEF StartsAnew
  <2> QED
    BY <1>0, <2>1, <2>3, <2>4 DEF JobsMove, CountsMove
<1>6. CASE Others /\ UNCHANGED <<wall, jobVars, keeper, faults>>
  BY <1>1, <1>6
<1>7. CASE WallTick
  BY <1>0, <1>7, SameJobs DEF WallTick, jobVars
<1>8. CASE LedgerTick
  <2>1. UNCHANGED <<jobs, spent, wall>> /\ late' \subseteq late
    BY <1>8 DEF LedgerTick
  <2> QED
    BY <1>0, <2>1, SameJobs
<1>9. CASE UNCHANGED keeperVars
  BY <1>1, <1>9 DEF keeperVars
<1> QED
  BY <1>2, <1>3, <1>4, <1>5, <1>6, <1>7, <1>8, <1>9 DEF KeeperNext

\* The quota is kept.
LEMMA QuotaStep ==
    ASSUME JobsTypeOK, QuotaKept, JobsMove
    PROVE  QuotaKept'
<1> SUFFICES ASSUME NEW v \in Video, NEW e \in Epoch
             PROVE  /\ spent'[v][e] <= MaxFetches
                    /\ spent'[v][e] = jobs'[v][e].fetches \/ ProofEnd(e) + KeepFor < wall'
  BY DEF QuotaKept
<1>1. /\ spent[v][e] \in Nat /\ jobs[v][e].fetches \in Nat
      /\ wall \in Nat /\ wall' \in Nat /\ wall <= wall'
      /\ ProofEnd(e) \in Nat /\ KeepFor \in Nat /\ MaxFetches \in Nat /\ ProofMargin \in Nat
  BY EpochType, TimelineType, CloseJobsAssumption DEF JobsTypeOK, Job, JobsMove
<1>2. /\ spent[v][e] <= MaxFetches
      /\ spent[v][e] = jobs[v][e].fetches \/ ProofEnd(e) + KeepFor < wall
  BY DEF QuotaKept
<1>3. CASE SameCounts(v, e)
  BY <1>1, <1>2, <1>3 DEF SameCounts
<1>4. CASE StartsFetch(v, e)
  <2>1. wall < ProofEnd(e) - ProofMargin /\ jobs[v][e].fetches < MaxFetches
    BY <1>4 DEF StartsFetch, Provable, MayFetch
  <2> QED
    BY <1>1, <1>2, <1>4, <2>1 DEF StartsFetch
<1>5. CASE Forgets(v, e)
  BY <1>1, <1>2, <1>5 DEF Forgets
<1>6. CASE StartsAnew(v, e)
  BY <1>1, <1>6 DEF StartsAnew, NoJob
<1> QED
  BY <1>3, <1>4, <1>5, <1>6 DEF JobsMove, CountsMove

LEMMA InitJobs ==
    ASSUME JobsInit
    PROVE  JobsTypeOK /\ QuotaKept
<1>1. JobsTypeOK
  BY NoJobType DEF JobsInit, JobsTypeOK
<1>2. QuotaKept
  BY CloseJobsAssumption DEF JobsInit, QuotaKept, NoJob
<1> QED
  BY <1>1, <1>2

\* Between two restarts the verifier fetches no more than MaxFetches times for one
\* clip and epoch, although jobs are forgotten and asked for again.
THEOREM QuotaIsKept == KeeperSpec => []FetchesWithinQuota
<1>1. KeeperInit => JobsTypeOK /\ QuotaKept
  BY InitJobs DEF KeeperInit
<1>2. JobsTypeOK /\ QuotaKept /\ [KeeperNext]_keeperVars => (JobsTypeOK /\ QuotaKept)'
  BY JobsStep, QuotaStep DEF JobsMove
<1>3. QuotaKept => FetchesWithinQuota
  BY DEF QuotaKept, FetchesWithinQuota
<1> QED
  BY <1>1, <1>2, <1>3, PTL DEF KeeperSpec

-----------------------------------------------------------------------------
(***************************************************************************)
(* The tick, and the chain beside it.                                      *)
(***************************************************************************)
LEMMA IdleType == Idle.at = "idle" /\ Idle.t = 0 /\ Idle \in
                    [at : Place, target : Target, t : Nat, settled : Nat]
BY DEF Idle, Place, Target

LEMMA TickTypes ==
    ASSUME TypeOK, JobsTypeOK, TickTypeOK, [KeeperNext]_keeperVars
    PROVE  TickTypeOK'
<1> DEFINE TickRecord == [at : Place, target : Target, t : Nat, settled : Nat]
           SeenType == [Video -> [Epoch -> DisputeStatus \cup {"Finalized"}]]
<1>0. /\ tick \in TickRecord /\ seen \in SeenType /\ todo \subseteq Pair
      /\ wall \in Nat /\ Unseen \in SeenType
  BY DEF TickTypeOK, JobsTypeOK, Unseen, DisputeStatus
<1>1. ASSUME NEW p \in Place, Goto(p), p # "finalizing",
             p = "settling" => tick.settled \in Epoch,
             UNCHANGED <<seen, todo>>
      PROVE  TickTypeOK'
  BY <1>0, <1>1 DEF Goto, TickTypeOK
<1>2. ASSUME tick' = Idle /\ seen' = Unseen /\ todo' = {}
      PROVE  TickTypeOK'
  BY <1>0, <1>2, IdleType DEF TickTypeOK
<1>3. ASSUME NEW d \in Pair, NextDispute(d), seen' \in SeenType
      PROVE  TickTypeOK'
  <2>1. tick' \in TickRecord /\ tick'.at = "finalize"
    <3>1. NoTarget \in Target /\ "finalize" \in Place
      BY DEF Target, Place
    <3> HIDE DEF TickRecord
    <3>2. tick' = [tick EXCEPT !.at = "finalize", !.target = NoTarget]
      BY <1>3 DEF NextDispute
    <3> QED
      BY <1>0, <3>1, <3>2 DEF TickRecord
  <2>2. todo' \subseteq Pair
    BY <1>0, <1>3 DEF NextDispute
  <2> QED
    BY <1>3, <2>1, <2>2 DEF TickTypeOK
<1>4. ASSUME UNCHANGED <<tick, seen, todo>>
      PROVE  TickTypeOK'
  BY <1>4 DEF TickTypeOK
<1>5. CASE TickStart
  <2>1. CASE TickEnds(wall, jobs)
    BY <1>2, <2>1 DEF TickEnds
  <2>2. CASE /\ tick' = [tick EXCEPT !.at = "disputes", !.t = wall,
                                     !.settled = campaign.settledEpochs]
             /\ UNCHANGED <<seen, todo>>
    <3>1. campaign.settledEpochs \in Nat /\ "disputes" \in Place
      BY TimelineAssumption DEF TypeOK, CampaignRecord, Place
    <3>2. tick' \in TickRecord /\ tick'.at = "disputes"
      BY <1>0, <2>2, <3>1
    <3> QED
      BY <1>0, <2>2, <3>2 DEF TickTypeOK
  <2> QED
    BY <1>5, <2>1, <2>2 DEF TickStart
<1>6. CASE ReadDisputes
  <2>1. tick' \in TickRecord /\ tick'.at = "finalize"
    BY <1>0, <1>6 DEF ReadDisputes, Goto, Place
  <2>2. seen' \in SeenType
    BY <1>6 DEF ReadDisputes, TypeOK, Dispute
  <2>3. todo' \subseteq Pair
    BY <1>6 DEF ReadDisputes, Pair
  <2> QED
    BY <2>1, <2>2, <2>3 DEF TickTypeOK
<1>7. ASSUME NEW d \in todo, SendFinalize(d)
      PROVE  TickTypeOK'
  <2>1. d \in Pair /\ d \in Target
    BY <1>0 DEF Target
  <2>2. CASE Finalizing(d) /\ UNCHANGED todo
    <3>1. tick' \in TickRecord /\ tick'.at = "finalizing" /\ tick'.target = d
      BY <1>0, <2>1, <2>2 DEF Finalizing, Place
    <3> QED
      BY <1>0, <1>7, <2>1, <2>2, <3>1 DEF SendFinalize, TickTypeOK
  <2>3. CASE NextDispute(d)
    BY <1>0, <1>3, <1>7, <2>1, <2>3 DEF SendFinalize
  <2> QED
    BY <1>7, <2>2, <2>3 DEF SendFinalize
<1>8. CASE Finalized
  <2> DEFINE d == tick.target
  <2>1. d \in Pair /\ NextDispute(d)
    BY <1>8 DEF Finalized, TickTypeOK
  <2>2. seen' = [seen EXCEPT ![d[1]][d[2]] = "Finalized"]
    BY <1>8 DEF Finalized
  <2>3. seen' \in SeenType
    BY <1>0, <2>1, <2>2 DEF Pair
  <2> QED
    BY <1>3, <2>1, <2>3
<1>9. CASE FinalizeFails
  <2>1. tick.target \in Pair /\ NextDispute(tick.target) /\ seen' = seen
    BY <1>9 DEF FinalizeFails, TickTypeOK
  <2> QED
    BY <1>0, <1>3, <2>1
<1>10. CASE FinalizedAll
  BY <1>1, <1>10 DEF FinalizedAll, Place
<1>11. CASE SendSettle
  <2>1. CASE Due(tick.settled) /\ CanSettle(tick.settled)
    BY <1>1, <1>11, <2>1 DEF SendSettle, Due, Place
  <2>2. CASE ~(Due(tick.settled) /\ CanSettle(tick.settled))
    BY <1>1, <1>11, <2>2 DEF SendSettle, Place
  <2> QED
    BY <2>1, <2>2
<1>12. CASE SettledNext
  <2>1. tick' \in TickRecord /\ tick'.at = "settle"
    <3> DEFINE k == [tick EXCEPT !.at = "settle"]
               n == tick.settled + 1
    <3>1. k \in TickRecord /\ k.at = "settle" /\ n \in Nat
      BY <1>0 DEF Place
    <3>2. tick' = [k EXCEPT !.settled = n]
      BY <1>12 DEF SettledNext
    <3> HIDE DEF k, n
    <3> QED
      BY <3>1, <3>2
  <2> QED
    BY <1>0, <1>12, <2>1 DEF SettledNext, TickTypeOK
<1>13. CASE SettleFails
  BY <1>1, <1>13 DEF SettleFails, Place
<1>14. CASE ReadClips \/ ReadFails \/ Restart
  BY <1>2, <1>14 DEF ReadClips, TickEnds, ReadFails, Restart
<1>15. ASSUME NEW v \in Video, NEW e \in Epoch, JobNext(v, e)
       PROVE  TickTypeOK'
  BY <1>4, <1>15 DEF JobNext, keeper
<1>16. CASE (\E tx \in late : LateNext(tx)) \/ LedgerTick \/ WallTick \/ UNCHANGED keeperVars
            \/ UNCHANGED keeper
  BY <1>4, <1>16 DEF LateNext, LedgerTick, WallTick, keeper, keeperVars
<1> QED
  BY <1>5, <1>6, <1>7, <1>8, <1>9, <1>10, <1>11, <1>12, <1>13, <1>14, <1>15, <1>16
  DEF KeeperNext, TickNext

\* Whatever the verifier does, the chain takes a step of a campaign or none.
LEMMA ChainStep ==
    ASSUME JobsTypeOK, TickTypeOK, [KeeperNext]_keeperVars
    PROVE  [Next]_vars
<1>1. CASE Finalized
  <2>1. tick.target[1] \in Video /\ tick.target[2] \in Epoch
    BY <1>1 DEF Finalized, TickTypeOK, Pair
  <2> QED
    BY <1>1, <2>1 DEF Finalized, Next
<1>2. CASE SettledNext
  BY <1>2 DEF SettledNext, TickTypeOK, Next
<1>3. CASE TickNext /\ ~Finalized /\ ~SettledNext
  BY <1>3 DEF TickNext, TickStart, ReadDisputes, SendFinalize, FinalizeFails, FinalizedAll,
     SendSettle, SettleFails, ReadClips, ReadFails
<1>4. ASSUME NEW v \in Video, NEW e \in Epoch, JobNext(v, e)
      PROVE  [Next]_vars
  <2>1. CASE Applied(v, e)
    <3>1. PICK r \in jobs[v][e].kept : SubmitProof(e, r.proof)
      BY <2>1 DEF Applied
    <3>2. r.proof \in Proof
      BY DEF JobsTypeOK, Job, Response
    <3> QED
      BY <3>1, <3>2 DEF Next
  <2>2. CASE UNCHANGED vars
    BY <2>2
  <2> QED
    BY <1>4, <2>1, <2>2 DEF JobNext
<1>5. ASSUME NEW tx \in late, LateNext(tx)
      PROVE  [Next]_vars
  <2>1. tx.epoch \in Epoch /\ tx.proof \in Proof
    BY DEF JobsTypeOK
  <2> QED
    BY <1>5, <2>1 DEF LateNext, AppliedLate, Next
<1>6. CASE Others
  BY <1>6 DEF Others, Next
<1>7. CASE LedgerTick
  BY <1>7 DEF LedgerTick, Next
<1>8. CASE Restart \/ WallTick \/ UNCHANGED keeperVars
  BY <1>8 DEF Restart, WallTick, keeperVars
<1> QED
  BY <1>1, <1>2, <1>3, <1>4, <1>5, <1>6, <1>7, <1>8 DEF KeeperNext

LEMMA KeeperStep ==
    ASSUME KInv, [KeeperNext]_keeperVars
    PROVE  KInv' /\ [Next]_vars
<1>1. [Next]_vars /\ IInv'
  BY ChainStep, NextKeeps DEF KInv
<1>2. TickTypeOK'
  BY TickTypes DEF KInv, IInv
<1>3. JobsTypeOK'
  BY JobsStep DEF KInv, JobsMove
<1> QED
  BY <1>1, <1>2, <1>3 DEF KInv

LEMMA InitKeeper ==
    ASSUME KeeperInit
    PROVE  KInv /\ Init
<1>1. Init /\ IInv
  BY InitKeeps DEF KeeperInit
<1>2. JobsTypeOK
  BY InitJobs DEF KeeperInit
<1>3. TickTypeOK
  BY IdleType DEF KeeperInit, TickTypeOK, Unseen, DisputeStatus
<1> QED
  BY <1>1, <1>2, <1>3 DEF KInv

\* In every reachable state the records of the chain, the jobs and the tick have
\* their types, and the chain its invariant.
THEOREM KeeperInvariance == KeeperSpec => []KInv
<1>1. KeeperInit => KInv
  BY InitKeeper
<1>2. KInv /\ [KeeperNext]_keeperVars => KInv'
  BY KeeperStep
<1> QED
  BY <1>1, <1>2, PTL DEF KeeperSpec

\* The verifier implements the environment a campaign expects: beside a keeper, its
\* jobs, its late transactions and its restarts, the chain behaves as module Campaign
\* says, so that every theorem about a campaign holds here too.
THEOREM KeeperDrivesACampaign == KeeperSpec => Spec
<1>1. KeeperInit => Init
  BY DEF KeeperInit
<1>2. KInv /\ [KeeperNext]_keeperVars => [Next]_vars
  BY KeeperStep
<1> QED
  BY <1>1, <1>2, KeeperInvariance, PTL DEF KeeperSpec, Spec

-----------------------------------------------------------------------------
(***************************************************************************)
(* What a step of the chain does to a dispute.                             *)
(***************************************************************************)
LEMMA ProofFrame ==
    ASSUME NEW e, NEW p, SubmitProof(e, p)
    PROVE  UNCHANGED <<now, dispute>>
BY DEF SubmitProof

LEMMA CloseFrame ==
    ASSUME NEW v, NEW e, NEW w, Close(v, e, w)
    PROVE  UNCHANGED <<now, campaign>>
BY DEF Close

DisputeMovesOn(v, e) ==
    LET before == dispute[v][e].status
        after == dispute'[v][e].status
    IN  \/ after = before
        \/ before = "None" /\ after = "Open" /\ now < ChallengeEnd(e)
        \/ before = "Open" /\ after = "Responded" /\ now < DisputeEnd(e)
        \/ after \in {"ClipperWon", "ChallengerWon"}

LEMMA DisputesMoveOn ==
    ASSUME IInv, [Next]_vars, NEW v \in Video, NEW e \in Epoch
    PROVE  DisputeMovesOn(v, e)
<1>1. dispute \in [Video -> [Epoch -> Dispute]]
  BY DEF IInv, TypeOK
<1>2. ASSUME UNCHANGED dispute
      PROVE  DisputeMovesOn(v, e)
  BY <1>2 DEF DisputeMovesOn
<1>3. ASSUME NEW u \in Video, NEW k \in Epoch, NEW a \in Challenger, Challenge(u, k, a)
      PROVE  DisputeMovesOn(v, e)
  BY <1>1, <1>3 DEF Challenge, DisputeMovesOn
<1>4. ASSUME NEW u \in Video, NEW k \in Epoch, Respond(u, k)
      PROVE  DisputeMovesOn(v, e)
  <2>1. dispute' = [dispute EXCEPT ![u][k].status = "Responded"]
    BY <1>4 DEF Respond
  <2>2. u # v \/ k # e => dispute'[v][e] = dispute[v][e]
    BY <1>1, <2>1
  <2>3. u = v /\ k = e => dispute'[v][e].status = "Responded"
    BY <1>1, <2>1 DEF Dispute
  <2> QED
    BY <1>4, <2>2, <2>3 DEF Respond, DisputeMovesOn
<1>5. ASSUME NEW u \in Video, NEW k \in Epoch, NEW w \in BOOLEAN, Close(u, k, w)
      PROVE  DisputeMovesOn(v, e)
  <2>1. PICK s \in {"ClipperWon", "ChallengerWon"} :
          dispute' = [dispute EXCEPT ![u][k].status = s]
    BY <1>5 DEF Close
  <2>2. u # v \/ k # e => dispute'[v][e] = dispute[v][e]
    BY <1>1, <2>1
  <2>3. u = v /\ k = e => dispute'[v][e].status = s
    BY <1>1, <2>1 DEF Dispute
  <2> QED
    BY <2>2, <2>3 DEF DisputeMovesOn
<1>6. ASSUME NEW u \in Video, NEW k \in Epoch, NEW w \in BOOLEAN, Resolve(u, k, w)
      PROVE  DisputeMovesOn(v, e)
  BY <1>5, <1>6 DEF Resolve
<1>7. ASSUME NEW u \in Video, NEW k \in Epoch, Finalize(u, k)
      PROVE  DisputeMovesOn(v, e)
  BY <1>5, <1>7 DEF Finalize
<1>8. ASSUME \/ Tick \/ (\E u \in User : Join(u))
             \/ \E u \in User, p \in Proof : RegisterClip(u, p)
             \/ \E k \in Epoch, p \in Proof : SubmitProof(k, p)
             \/ (\E k \in Epoch : SettleEpoch(k)) \/ Refund
             \/ \E u \in Video, k \in Epoch : Claim(u, k) \/ ClaimHoldback(u, k)
             \/ UNCHANGED vars
      PROVE  UNCHANGED dispute
  BY <1>8, ProofFrame DEF vars, Tick, Join, RegisterClip, SettleEpoch, Claim, ClaimHoldback,
     Refund
<1> QED
  BY <1>2, <1>3, <1>4, <1>6, <1>7, <1>8 DEF Next

\* Settled epochs only become more.
LEMMA SettlesOn ==
    ASSUME IInv, [Next]_vars
    PROVE  campaign.settledEpochs <= campaign'.settledEpochs
<1>1. campaign \in CampaignRecord /\ campaign.settledEpochs \in Nat
  BY TimelineAssumption DEF IInv, TypeOK, CampaignRecord
<1>2. ASSUME campaign'.settledEpochs = campaign.settledEpochs
      PROVE  campaign.settledEpochs <= campaign'.settledEpochs
  BY <1>1, <1>2
<1>3. ASSUME NEW e \in Epoch, NEW p \in Proof, SubmitProof(e, p)
      PROVE  campaign.settledEpochs <= campaign'.settledEpochs
  BY <1>1, <1>3, EpochType DEF SubmitProof, Greatest, CampaignRecord
<1>4. ASSUME NEW e \in Epoch, SettleEpoch(e)
      PROVE  campaign.settledEpochs <= campaign'.settledEpochs
  <2>1. ~(e < campaign.settledEpochs)
    BY <1>4 DEF SettleEpoch, IInv, SettledInOrder
  <2>2. campaign'.settledEpochs = e + 1
    BY <1>1, <1>4 DEF SettleEpoch, CampaignRecord
  <2> QED
    BY <1>1, <2>1, <2>2, EpochType
<1>5. ASSUME NEW to, NEW amount, PayOut(to, amount)
      PROVE  campaign'.settledEpochs = campaign.settledEpochs
  BY <1>1, <1>5 DEF PayOut, CampaignRecord
<1>6. ASSUME Refund
      PROVE  campaign'.settledEpochs = campaign.settledEpochs
  BY <1>1, <1>6 DEF Refund, CampaignRecord
<1>8. ASSUME NEW v \in Video, NEW e \in Epoch, Claim(v, e) \/ ClaimHoldback(v, e)
      PROVE  campaign'.settledEpochs = campaign.settledEpochs
  BY <1>5, <1>8 DEF Claim, ClaimHoldback
<1>9. ASSUME \/ Tick \/ (\E u \in User : Join(u))
             \/ \E u \in User, p \in Proof : RegisterClip(u, p)
             \/ \E v \in Video, e \in Epoch, a \in Challenger : Challenge(v, e, a)
             \/ \E v \in Video, e \in Epoch : Respond(v, e)
             \/ \E v \in Video, e \in Epoch, w \in BOOLEAN : Resolve(v, e, w)
             \/ \E v \in Video, e \in Epoch : Finalize(v, e)
             \/ UNCHANGED vars
      PROVE  campaign' = campaign
  BY <1>9, CloseFrame DEF vars, Tick, Join, RegisterClip, Challenge, Respond, Resolve, Finalize
<1> QED
  BY <1>2, <1>3, <1>4, <1>6, <1>8, <1>9 DEF Next

-----------------------------------------------------------------------------
(***************************************************************************)
(* What a step does to the tick: nothing, or it ends, begins, reads the    *)
(* disputes, or goes on.                                                   *)
(***************************************************************************)
Rest == UNCHANGED <<tick, seen, todo>>
Over == tick' = Idle /\ todo' = {}
ReadsDisputes == ReadDisputes /\ tick' = [tick EXCEPT !.at = "finalize"]
Begins ==
    /\ tick'.at = "disputes" /\ tick'.t = wall /\ UNCHANGED <<wall, todo, vars>>
    /\ tick'.settled = campaign.settledEpochs
GoesOn ==
    /\ tick.at \in HasSeen /\ tick'.t = tick.t
    /\ todo' \subseteq todo /\ wall' = wall
    /\ \/ seen' = seen
       \/ Finalized /\ tick.target \in Pair
    /\ \/ tick'.settled = tick.settled
       \/ SettledNext /\ tick'.settled = tick.settled + 1

LEMMA TickMoves ==
    ASSUME TickTypeOK, [KeeperNext]_keeperVars
    PROVE  Rest \/ Over \/ Begins \/ ReadsDisputes \/ GoesOn
<1>0. tick \in [at : Place, target : Target, t : Nat, settled : Nat]
  BY DEF TickTypeOK
<1>1. CASE TickStart
  <2>1. CASE TickEnds(wall, jobs)
    BY <2>1 DEF TickEnds, Over
  <2>2. CASE /\ tick' = [tick EXCEPT !.at = "disputes", !.t = wall,
                                     !.settled = campaign.settledEpochs]
             /\ UNCHANGED todo
    BY <1>0, <1>1, <2>2 DEF TickStart, Begins
  <2> QED
    BY <1>1, <2>1, <2>2 DEF TickStart
<1>2. CASE ReadDisputes
  BY <1>2 DEF ReadsDisputes, ReadDisputes, Goto
<1>3. ASSUME NEW d \in todo, SendFinalize(d)
      PROVE  GoesOn
  <2>1. tick' = [tick EXCEPT !.at = "finalizing", !.target = d]
        \/ tick' = [tick EXCEPT !.at = "finalize", !.target = NoTarget]
    BY <1>3 DEF SendFinalize, Finalizing, NextDispute
  <2>2. tick'.t = tick.t /\ tick'.settled = tick.settled
    BY <1>0, <2>1
  <2> QED
    BY <1>3, <2>2 DEF SendFinalize, Finalizing, NextDispute, GoesOn, HasSeen
<1>4. CASE Finalized \/ FinalizeFails
  <2>1. tick' = [tick EXCEPT !.at = "finalize", !.target = NoTarget]
    BY <1>4 DEF Finalized, FinalizeFails, NextDispute
  <2>2. tick'.t = tick.t /\ tick'.settled = tick.settled
    BY <1>0, <2>1
  <2> QED
    BY <1>4, <2>2 DEF Finalized, FinalizeFails, NextDispute, GoesOn, HasSeen, TickTypeOK
<1>5. CASE FinalizedAll \/ SendSettle \/ SettleFails
  <2>1. PICK p : tick' = [tick EXCEPT !.at = p]
    BY <1>5 DEF FinalizedAll, SendSettle, SettleFails, Goto
  <2>2. tick'.t = tick.t /\ tick'.settled = tick.settled
    BY <1>0, <2>1
  <2> QED
    BY <1>5, <2>2 DEF FinalizedAll, SendSettle, SettleFails, GoesOn, HasSeen
<1>6. CASE SettledNext
  <2> DEFINE k == [tick EXCEPT !.at = "settle"]
             n == tick.settled + 1
  <2>1. k.t = tick.t /\ k \in [at : Place, target : Target, t : Nat, settled : Nat]
        /\ n \in Nat
    BY <1>0 DEF Place
  <2>2. tick' = [k EXCEPT !.settled = n]
    BY <1>6 DEF SettledNext
  <2>3. tick'.t = tick.t /\ tick'.settled = n
    <3> HIDE DEF k, n
    <3> QED
      BY <2>1, <2>2
  <2> QED
    BY <1>6, <2>3 DEF SettledNext, GoesOn, HasSeen
<1>7. CASE ReadClips \/ ReadFails \/ Restart
  BY <1>7 DEF ReadClips, TickEnds, ReadFails, Restart, Over
<1>8. ASSUME NEW v \in Video, NEW e \in Epoch, JobNext(v, e)
      PROVE  Rest
  BY <1>8 DEF JobNext, keeper, Rest
<1>9. CASE (\E tx \in late : LateNext(tx)) \/ LedgerTick \/ WallTick \/ UNCHANGED keeperVars
           \/ UNCHANGED keeper
  BY <1>9 DEF LateNext, LedgerTick, WallTick, keeper, keeperVars, Rest
<1> QED
  BY <1>1, <1>2, <1>3, <1>4, <1>5, <1>6, <1>7, <1>8, <1>9 DEF KeeperNext, TickNext

\* The clocks: the ledger's moves alone and after the wall clock, the wall clock
\* alone and no further than MaxLag ahead.
LEMMA ClocksMove ==
    ASSUME KInv, Paced, [KeeperNext]_keeperVars
    PROVE  /\ now \in Nat /\ now' \in Nat /\ wall \in Nat /\ wall' \in Nat
           /\ now <= now' /\ wall <= wall'
           /\ now' <= wall' /\ wall' <= now' + MaxLag
<1>1. now \in Nat /\ now' \in Nat /\ wall \in Nat /\ wall' \in Nat /\ MaxLag \in Nat
  <2>1. KInv'
    BY KeeperStep
  <2> QED
    BY <2>1, CampaignAssumption, CloseJobsAssumption DEF KInv, IInv, TypeOK, JobsTypeOK
<1>2. ASSUME UNCHANGED <<now, wall>>
      PROVE  now <= now' /\ wall <= wall' /\ now' <= wall' /\ wall' <= now' + MaxLag
  BY <1>1, <1>2 DEF Paced
<1>3. CASE WallTick
  <2>1. now' = now /\ wall' = wall + 1 /\ wall < now + MaxLag
    BY <1>3 DEF WallTick, vars
  <2>2. now <= wall
    BY DEF Paced
  <2> QED
    BY <1>1, <2>1, <2>2
<1>4. CASE LedgerTick
  <2>1. now' = now + 1 /\ wall' = wall /\ now < wall
    BY <1>4 DEF LedgerTick, Tick
  <2>2. wall <= now + MaxLag
    BY DEF Paced
  <2> QED
    BY <1>1, <2>1, <2>2
<1>5. ASSUME Others, wall' = wall
      PROVE  UNCHANGED <<now, wall>>
  <2>1. ASSUME \/ \E v \in Video, e \in Epoch, w \in BOOLEAN : Resolve(v, e, w)
               \/ \E v \in Video, e \in Epoch : Finalize(v, e)
        PROVE  now' = now
    BY <2>1, CloseFrame DEF Resolve, Finalize
  <2>2. ASSUME \/ \E u \in User : Join(u)
               \/ \E u \in User, p \in Proof : RegisterClip(u, p)
               \/ \E e \in Epoch, p \in Proof : SubmitProof(e, p)
               \/ \E e \in Epoch : SettleEpoch(e)
               \/ \E v \in Video, e \in Epoch, a \in Challenger : Challenge(v, e, a)
               \/ \E v \in Video, e \in Epoch : Respond(v, e)
        PROVE  now' = now
    BY <2>2, ProofFrame DEF Join, RegisterClip, SettleEpoch, Challenge, Respond
  <2> QED
    BY <1>5, <2>1, <2>2 DEF Others
<1>6. ASSUME TickNext
      PROVE  UNCHANGED <<now, wall>>
  BY <1>6 DEF TickNext, TickStart, ReadDisputes, SendFinalize, Finalized, FinalizeFails,
     FinalizedAll, SendSettle, SettledNext, SettleFails, ReadClips, ReadFails, TickEnds, vars,
     SettleEpoch, Finalize, Close
<1>7. ASSUME NEW v \in Video, NEW e \in Epoch, JobNext(v, e)
      PROVE  UNCHANGED <<now, wall>>
  BY <1>7 DEF JobNext, Applied, SubmitProof, vars
<1>8. ASSUME NEW tx \in late, LateNext(tx)
      PROVE  UNCHANGED <<now, wall>>
  BY <1>8 DEF LateNext, AppliedLate, SubmitProof, vars
<1>9. ASSUME Restart \/ UNCHANGED keeperVars
      PROVE  UNCHANGED <<now, wall>>
  BY <1>9 DEF Restart, keeperVars, vars
<1> QED
  BY <1>1, <1>2, <1>3, <1>4, <1>5, <1>6, <1>7, <1>8, <1>9 DEF KeeperNext

\* What is past by the tick's time is past on the ledger.
LEMMA PastOnLedger ==
    ASSUME KInv, Paced, MaxLag <= Slack, NEW x \in Nat, x + Slack <= tick.t
    PROVE  x <= now
<1>1. now \in Nat /\ wall \in Nat /\ tick.t \in Nat /\ MaxLag \in Nat /\ Slack \in Nat
  BY CampaignAssumption, CloseJobsAssumption
  DEF KInv, IInv, TypeOK, JobsTypeOK, TickTypeOK
<1>2. tick.t <= wall /\ wall <= now + MaxLag
  BY DEF Paced
<1> QED
  BY <1>1, <1>2

LEMMA CanFinalizeIs ==
    ASSUME NEW d \in Pair
    PROVE  CanFinalize(d) <=>
             \/ dispute[d[1]][d[2]].status = "Open" /\ DisputeEnd(d[2]) <= now
             \/ dispute[d[1]][d[2]].status = "Responded" /\ SettleAt(d[2]) <= now
<1>1. TRUE \in BOOLEAN /\ FALSE \in BOOLEAN
  OBVIOUS
<1> QED
  BY <1>1 DEF CanFinalize, DefaultRuling

LEMMA PacedStep ==
    ASSUME KInv, Paced, [KeeperNext]_keeperVars
    PROVE  Paced'
<1>1. /\ now \in Nat /\ now' \in Nat /\ wall \in Nat /\ wall' \in Nat
      /\ wall <= wall' /\ now' <= wall' /\ wall' <= now' + MaxLag
  BY ClocksMove
<1>2. /\ tick.t \in Nat /\ tick.t <= wall
      /\ tick \in [at : Place, target : Target, t : Nat, settled : Nat]
  BY DEF KInv, TickTypeOK, Paced
<1>3. tick'.t = tick.t \/ tick'.t = 0 \/ tick'.t = wall
  BY <1>2, TickMoves, IdleType DEF KInv, Rest, Over, Begins, ReadsDisputes, GoesOn
<1> QED
  BY <1>1, <1>2, <1>3 DEF Paced

\* A dispute that can be finalized stays so until it is closed.
LEMMA TodoStep ==
    ASSUME KInv, Paced, TodoIsDue, MaxLag <= Slack, [KeeperNext]_keeperVars
    PROVE  TodoIsDue'
<1>1. ASSUME NEW d \in Pair, Closed(d[1], d[2]) \/ CanFinalize(d)
      PROVE  (Closed(d[1], d[2]) \/ CanFinalize(d))'
  <2> DEFINE v == d[1]
             e == d[2]
  <2>1. v \in Video /\ e \in Epoch
    BY DEF Pair
  <2>2. DisputeMovesOn(v, e)
    BY <2>1, KeeperStep, DisputesMoveOn DEF KInv
  <2>3. /\ now \in Nat /\ now' \in Nat /\ now <= now'
        /\ ChallengeEnd(e) \in Nat /\ DisputeEnd(e) \in Nat /\ SettleAt(e) \in Nat
        /\ DisputeEnd(e) <= SettleAt(e)
    BY <2>1, ClocksMove, EpochType, TimelineType, PhasesInOrder
  <2>4. CanFinalize(d)' <=>
             \/ dispute'[d[1]][d[2]].status = "Open" /\ DisputeEnd(d[2]) <= now'
             \/ dispute'[d[1]][d[2]].status = "Responded" /\ SettleAt(d[2]) <= now'
    BY DEF CanFinalize, DefaultRuling
  <2>5. dispute[v][e].status # "None"
        /\ (dispute[v][e].status = "Open" => DisputeEnd(e) <= now)
        /\ (dispute[v][e].status = "Responded" => SettleAt(e) <= now)
    BY <1>1, CanFinalizeIs DEF Closed
  <2>6. \/ dispute'[v][e].status = dispute[v][e].status
        \/ dispute'[v][e].status \in {"ClipperWon", "ChallengerWon"}
    BY <2>2, <2>3, <2>5 DEF DisputeMovesOn
  <2>7. CASE dispute'[v][e].status \in {"ClipperWon", "ChallengerWon"}
    BY <2>7 DEF Closed
  <2>8. CASE dispute'[v][e].status = dispute[v][e].status
    <3>1. CASE Closed(v, e)
      BY <2>8, <3>1 DEF Closed
    <3>2. CASE CanFinalize(d)
      <4>1. \/ dispute[v][e].status = "Open" /\ DisputeEnd(e) <= now
            \/ dispute[v][e].status = "Responded" /\ SettleAt(e) <= now
        BY <3>2, CanFinalizeIs
      <4>2. \/ dispute'[v][e].status = "Open" /\ DisputeEnd(e) <= now'
            \/ dispute'[v][e].status = "Responded" /\ SettleAt(e) <= now'
        BY <2>3, <2>8, <4>1
      <4> QED
        BY <2>4, <4>2
    <3> QED
      BY <1>1, <3>1, <3>2
  <2> QED
    BY <2>6, <2>7, <2>8
<1>2. todo \subseteq Pair
  BY DEF KInv, TickTypeOK
<1>3. CASE todo' \subseteq todo
  BY <1>1, <1>2, <1>3 DEF TodoIsDue
<1>4. CASE ReadDisputes
  <2> SUFFICES ASSUME NEW d \in todo'
               PROVE  (Closed(d[1], d[2]) \/ CanFinalize(d))'
    BY DEF TodoIsDue
  <2>1. d \in Pair /\ Overdue(dispute[d[1]][d[2]].status, d[2])
    BY <1>4 DEF ReadDisputes, Pair
  <2>2. DisputeEnd(d[2]) \in Nat /\ SettleAt(d[2]) \in Nat
    BY <2>1, EpochType, TimelineType DEF Pair
  <2>3. \/ dispute[d[1]][d[2]].status = "Open" /\ DisputeEnd(d[2]) <= now
        \/ dispute[d[1]][d[2]].status = "Responded" /\ SettleAt(d[2]) <= now
    BY <2>1, <2>2, PastOnLedger DEF Overdue
  <2>4. CanFinalize(d)
    BY <2>1, <2>3, CanFinalizeIs
  <2> QED
    BY <1>1, <2>1, <2>4
<1> QED
  BY <1>3, <1>4, TickMoves DEF KInv, Rest, Over, Begins, ReadsDisputes, GoesOn

\* No dispute about an epoch that is due is opened or answered any more.
LEMMA SeenStep ==
    ASSUME KInv, Paced, SeenIsTrue, MaxLag <= Slack, [KeeperNext]_keeperVars
    PROVE  SeenIsTrue'
<1> SUFFICES ASSUME tick'.at \in HasSeen, NEW v \in Video, NEW e \in Epoch,
                    SettleAt(e) + Slack <= tick'.t, OpenDispute(v, e)'
             PROVE  seen'[v][e] \in {"Open", "Responded"}
  BY DEF SeenIsTrue
<1>0. /\ tick \in [at : Place, target : Target, t : Nat, settled : Nat]
      /\ seen \in [Video -> [Epoch -> DisputeStatus \cup {"Finalized"}]]
      /\ SettleAt(e) \in Nat /\ DisputeEnd(e) \in Nat /\ ChallengeEnd(e) \in Nat
      /\ ChallengeEnd(e) <= DisputeEnd(e) /\ DisputeEnd(e) <= SettleAt(e)
      /\ now \in Nat
  BY EpochType, TimelineType, PhasesInOrder, ClocksMove DEF KInv, TickTypeOK
<1>1. DisputeMovesOn(v, e)
  BY KeeperStep, DisputesMoveOn DEF KInv
<1>2. ASSUME tick'.t = tick.t
      PROVE  OpenDispute(v, e)
  <2>1. SettleAt(e) <= now
    BY <1>0, <1>2, PastOnLedger
  <2> QED
    BY <1>0, <1>1, <2>1 DEF OpenDispute, DisputeMovesOn
<1>3. ASSUME tick.at \in HasSeen, tick'.t = tick.t, seen' = seen
      PROVE  seen'[v][e] \in {"Open", "Responded"}
  BY <1>2, <1>3 DEF SeenIsTrue
<1>4. CASE Finalized /\ tick.target \in Pair /\ tick.at \in HasSeen /\ tick'.t = tick.t
  <2> DEFINE d == tick.target
  <2>1. d[1] \in Video /\ d[2] \in Epoch
    BY <1>4 DEF Pair
  <2>2. seen' = [seen EXCEPT ![d[1]][d[2]] = "Finalized"]
    BY <1>4 DEF Finalized
  <2>3. d[1] # v \/ d[2] # e
    <3>1. PICK w \in BOOLEAN : Close(d[1], d[2], w)
      BY <1>4 DEF Finalized, Finalize
    <3>2. PICK s \in {"ClipperWon", "ChallengerWon"} :
            dispute' = [dispute EXCEPT ![d[1]][d[2]].status = s]
      BY <3>1 DEF Close
    <3>3. dispute \in [Video -> [Epoch -> Dispute]]
      BY DEF KInv, IInv, TypeOK
    <3>4. dispute'[d[1]][d[2]].status = s
      BY <2>1, <3>2, <3>3 DEF Dispute
    <3> QED
      BY <3>4 DEF OpenDispute
  <2>4. seen'[v][e] = seen[v][e]
    BY <1>0, <2>1, <2>2, <2>3
  <2> QED
    BY <1>2, <1>4, <2>4 DEF SeenIsTrue
<1>5. CASE ReadDisputes
  BY <1>5 DEF ReadDisputes, OpenDispute, vars
<1>6. CASE Rest
  BY <1>3, <1>6 DEF Rest
<1>7. CASE Over \/ Begins
  BY <1>7, IdleType DEF Over, Begins, HasSeen
<1>8. CASE GoesOn
  BY <1>3, <1>4, <1>8 DEF GoesOn
<1> QED
  BY <1>5, <1>6, <1>7, <1>8, TickMoves DEF KInv, ReadsDisputes

LEMMA FollowsStep ==
    ASSUME KInv, Follows, [KeeperNext]_keeperVars
    PROVE  Follows'
<1>0. /\ tick \in [at : Place, target : Target, t : Nat, settled : Nat]
      /\ campaign.settledEpochs \in Nat /\ campaign'.settledEpochs \in Nat
      /\ campaign.settledEpochs <= campaign'.settledEpochs
  <2>1. KInv' /\ [Next]_vars
    BY KeeperStep
  <2>2. campaign \in CampaignRecord /\ campaign' \in CampaignRecord
    BY <2>1 DEF KInv, IInv, TypeOK
  <2> QED
    BY <2>1, <2>2, SettlesOn, TimelineAssumption DEF KInv, TickTypeOK, CampaignRecord
<1>1. CASE Rest
  BY <1>0, <1>1 DEF Rest, Follows
<1>2. CASE Over
  BY <1>2, IdleType DEF Over, Follows
<1>3. CASE Begins
  BY <1>0, <1>3 DEF Begins, Follows, vars
<1>4. CASE ReadsDisputes
  <2>1. tick'.settled = tick.settled /\ tick.at # "idle"
    BY <1>0, <1>4 DEF ReadsDisputes, ReadDisputes
  <2> QED
    BY <1>0, <2>1 DEF Follows
<1>5. CASE GoesOn
  <2>1. tick.at # "idle"
    BY <1>5 DEF GoesOn, HasSeen
  <2>2. CASE tick'.settled = tick.settled
    BY <1>0, <2>1, <2>2 DEF Follows
  <2>3. CASE SettledNext /\ tick'.settled = tick.settled + 1
    <3>1. campaign' = [campaign EXCEPT !.settledEpochs = tick.settled + 1]
      BY <2>3 DEF SettledNext, SettleEpoch
    <3>2. campaign'.settledEpochs = tick.settled + 1
      BY <3>1 DEF KInv, IInv, TypeOK, CampaignRecord
    <3> QED
      BY <1>0, <2>3, <3>2 DEF Follows
  <2> QED
    BY <1>5, <2>2, <2>3 DEF GoesOn
<1> QED
  BY <1>1, <1>2, <1>3, <1>4, <1>5, TickMoves DEF KInv

LEMMA TickInvStep ==
    ASSUME KInv, TickInv, MaxLag <= Slack, [KeeperNext]_keeperVars
    PROVE  TickInv'
BY PacedStep, TodoStep, SeenStep, FollowsStep DEF TickInv

LEMMA InitTick ==
    ASSUME KeeperInit
    PROVE  TickInv
<1>1. Paced
  BY IdleType, CloseJobsAssumption DEF KeeperInit, Init, JobsInit, Paced
<1> QED
  BY <1>1, IdleType DEF KeeperInit, TickInv, TodoIsDue, SeenIsTrue, HasSeen, Follows

-----------------------------------------------------------------------------
(***************************************************************************)
(* Nothing is sent in vain.                                                *)
(***************************************************************************)
\* The epoch the tick is at, if it is due, can be settled, unless it is.
LEMMA DueCanBeSettled ==
    ASSUME KInv, TickInv, MaxLag <= Slack, tick.at \in HasSeen, Due(tick.settled),
           ~epoch[tick.settled].settled
    PROVE  CanSettle(tick.settled)
<1> DEFINE e == tick.settled
<1>1. e \in Epoch /\ SettleAt(e) \in Nat /\ SettleAt(e) + Slack <= tick.t
  BY EpochType, TimelineType DEF Due
<1>2. SettleAt(e) <= now
  BY <1>1, PastOnLedger DEF TickInv
<1>3. Undecided(e) = {}
  <2>1. \A v \in Video : ~OpenDispute(v, e)
    BY <1>1 DEF TickInv, SeenIsTrue, Due
  <2> QED
    BY <2>1 DEF OpenDispute, Undecided
<1>4. epoch[e].openDisputes = 0
  BY <1>1, <1>3, FS_EmptySet DEF KInv, IInv, DisputesAgree
<1>5. e > 0 => epoch[e - 1].settled
  <2>1. tick.at # "idle"
    BY DEF HasSeen
  <2>2. e <= campaign.settledEpochs
    BY <2>1 DEF TickInv, Follows
  <2>3. campaign.settledEpochs \in Nat /\ e \in Nat
    BY TimelineAssumption DEF KInv, IInv, TypeOK, CampaignRecord, TickTypeOK
  <2>4. ASSUME e > 0
        PROVE  e - 1 \in Epoch /\ e - 1 < campaign.settledEpochs
    BY <1>1, <2>2, <2>3, <2>4, TimelineAssumption DEF Epoch
  <2> QED
    BY <2>4 DEF KInv, IInv, SettledInOrder
<1> QED
  BY <1>2, <1>4, <1>5 DEF CanSettle, Ready

LEMMA VainStep ==
    ASSUME KInv, TickInv, MaxLag <= Slack, [KeeperNext]_keeperVars
    PROVE  /\ \A d \in todo \ todo' :
                tick.at = "finalize" /\ tick'.at = "finalize"
                => dispute[d[1]][d[2]].status \in {"ClipperWon", "ChallengerWon"}
           /\ tick.at = "settle" /\ tick'.at = "clips" /\ Due(tick.settled)
              => epoch[tick.settled].settled
<1>0. tick \in [at : Place, target : Target, t : Nat, settled : Nat] /\ todo \subseteq Pair
  BY DEF KInv, TickTypeOK
<1>1. ASSUME NEW d \in todo \ todo', tick.at = "finalize", tick'.at = "finalize"
      PROVE  Closed(d[1], d[2])
  <2>1. PICK c \in todo : SendFinalize(c)
    <3>1. tick' # Idle
      BY <1>1, IdleType
    <3>2. ~(todo' = todo)
      BY <1>1
    <3> QED
      BY <1>1, <3>1, <3>2
      DEF KeeperNext, TickNext, TickStart, ReadDisputes, Finalized, FinalizeFails,
          FinalizedAll, SendSettle, SettledNext, SettleFails, ReadClips, TickEnds,
          ReadFails, Restart, JobNext, LateNext, WallTick, LedgerTick, keeper, keeperVars
  <2>2. ~Finalizing(c)
    BY <1>0, <1>1 DEF Finalizing, Place
  <2>3. ~CanFinalize(c) /\ todo' = todo \ {c}
    BY <2>1, <2>2 DEF SendFinalize, NextDispute
  <2>4. d = c
    BY <1>1, <2>3
  <2> QED
    BY <2>1, <2>3, <2>4 DEF TickInv, TodoIsDue
<1>2. ASSUME tick.at = "settle", tick'.at = "clips", Due(tick.settled),
             ~epoch[tick.settled].settled
      PROVE  FALSE
  <2>1. SendSettle
    <3>1. tick' # Idle /\ tick' # tick
      BY <1>2, IdleType
    <3> QED
      BY <1>0, <1>2, <3>1
      DEF KeeperNext, TickNext, TickStart, ReadDisputes, SendFinalize, Finalized,
          FinalizeFails, FinalizedAll, SettledNext, SettleFails, ReadClips, TickEnds,
          ReadFails, Restart, JobNext, LateNext, WallTick, LedgerTick, keeper, keeperVars
  <2>2. ~CanSettle(tick.settled)
    BY <1>0, <1>2, <2>1 DEF SendSettle, Goto
  <2> QED
    BY <1>2, <2>2, DueCanBeSettled DEF HasSeen
<1> QED
  BY <1>1, <1>2 DEF Closed

\* As long as the ledger lags no further behind than the allowance for it, whatever
\* the keeper finds refused has been done by somebody else: it is never too early.
THEOREM NothingIsSentInVain ==
    ASSUME MaxLag <= Slack
    PROVE  KeeperSpec => NothingSentInVain
<1>1. KeeperInit => TickInv
  BY InitTick
<1>2. KInv /\ TickInv /\ [KeeperNext]_keeperVars => TickInv'
  BY TickInvStep
<1>3. KInv /\ TickInv /\ [KeeperNext]_keeperVars =>
        [/\ \A d \in todo \ todo' :
              tick.at = "finalize" /\ tick'.at = "finalize"
              => dispute[d[1]][d[2]].status \in {"ClipperWon", "ChallengerWon"}
         /\ tick.at = "settle" /\ tick'.at = "clips" /\ Due(tick.settled)
            => epoch[tick.settled].settled]_keeperVars
  BY VainStep
<1> QED
  BY <1>1, <1>2, <1>3, KeeperInvariance, PTL DEF KeeperSpec, NothingSentInVain

-----------------------------------------------------------------------------
(***************************************************************************)
(* No fetch is doomed.                                                     *)
(***************************************************************************)
\* What the precheck finds provable by the wall clock the contract accepts by its
\* own.
LEMMA ProvableIsAnswered ==
    ASSUME KInv, Paced, MaxLag <= Slack, MaxLag <= FutureSkew,
           NEW v \in Video, NEW e \in Epoch, Provable(v, e, FALSE),
           NEW r \in Fetchable(v, e), r.code
    PROVE  Answer(v, e, r) \in {"accepted", "ProofReused"}
<1>1. /\ now \in Nat /\ wall \in Nat /\ MaxLag \in Nat /\ Slack \in Nat /\ FutureSkew \in Nat
      /\ CloseSlack \in Nat /\ ProofMargin \in Nat
      /\ ContentEnd(e) \in Nat /\ ProofEnd(e) \in Nat /\ r.proof.ts \in Int
      /\ now <= wall /\ wall <= now + MaxLag
  BY EpochType, TimelineType, CampaignAssumption, CloseJobsAssumption
  DEF KInv, IInv, TypeOK, JobsTypeOK, Paced, Fetchable
<1>2. ContentEnd(e) + Slack <= wall /\ wall < ProofEnd(e) - ProofMargin
      /\ clipEpoch[v][e].status \in {"None", "Active"}
      /\ \A k \in campaign.settledEpochs .. e - 1 : Settleable(k)
  BY DEF Provable
<1>3. ContentEnd(e) + Slack <= r.proof.ts /\ r.proof.ts <= wall
  BY <1>1 DEF Fetchable
<1>4. ~(now < ContentEnd(e)) /\ ~(ProofEnd(e) <= now)
      /\ ~(r.proof.ts + CloseSlack < ContentEnd(e) \/ now + FutureSkew < r.proof.ts)
  BY <1>1, <1>2, <1>3
<1>5. AllReady(e)
  <2> SUFFICES ASSUME NEW k \in campaign.settledEpochs .. e - 1
               PROVE  Ready(k)
    BY DEF AllReady
  <2>1. k \in Epoch /\ SettleAt(k) \in Nat
    <3>1. campaign.settledEpochs \in Nat
      BY TimelineAssumption DEF KInv, IInv, TypeOK, CampaignRecord
    <3>2. k \in Epoch
      BY <3>1, TimelineAssumption DEF Epoch
    <3> QED
      BY <3>2, EpochType, TimelineType
  <2>2. SettleAt(k) <= now
    BY <1>1, <1>2, <2>1 DEF Settleable
  <2>3. Undecided(k) = {}
    BY <1>2 DEF Settleable, OpenDispute, Undecided
  <2> QED
    BY <2>1, <2>2, <2>3, FS_EmptySet DEF Ready, KInv, IInv, DisputesAgree
<1> QED
  BY <1>2, <1>4, <1>5 DEF Answer

\* A fetch is begun only if the contract, as it is, would accept what it brings,
\* as long as the ledger lags no further behind than the keeper's allowance and the
\* contract's for clocks.
THEOREM NoFetchIsDoomed ==
    ASSUME MaxLag <= Slack, MaxLag <= FutureSkew
    PROVE  KeeperSpec => NoDoomedFetch
<1> DEFINE Doomless ==
             \A v \in Video, e \in Epoch :
               jobs[v][e].stage # "fetching" /\ jobs'[v][e].stage = "fetching"
               => \A r \in Fetchable(v, e) :
                    r.code => Answer(v, e, r) \in {"accepted", "ProofReused"}
<1>1. KeeperInit => TickInv
  BY InitTick
<1>2. KInv /\ TickInv /\ [KeeperNext]_keeperVars => TickInv'
  BY TickInvStep
<1>3. KInv /\ TickInv /\ [KeeperNext]_keeperVars => Doomless
  <2> SUFFICES ASSUME KInv, TickInv, [KeeperNext]_keeperVars, NEW v \in Video, NEW e \in Epoch,
                      jobs[v][e].stage # "fetching", jobs'[v][e].stage = "fetching",
                      NEW r \in Fetchable(v, e), r.code
               PROVE  Answer(v, e, r) \in {"accepted", "ProofReused"}
    BY DEF Doomless
  <2>1. CountsMove(v, e)
    BY JobsStep DEF KInv, JobsMove
  <2>2. StartsFetch(v, e)
    BY <2>1 DEF CountsMove, SameCounts, Forgets, StartsAnew, NoJob
  <2> QED
    BY <2>2, ProvableIsAnswered DEF StartsFetch, TickInv
<1>4. KInv /\ TickInv /\ [KeeperNext]_keeperVars => [Doomless]_keeperVars
  BY <1>3
<1> QED
  BY <1>1, <1>2, <1>4, KeeperInvariance, PTL DEF KeeperSpec, NoDoomedFetch, Doomless

-----------------------------------------------------------------------------
(***************************************************************************)
(* Every epoch is settled in time.  As long as nothing fails and nothing   *)
(* is late, a whole tick goes by at every instant: it closes the disputes  *)
(* that are due, and the tick of the next instant, which sees them closed, *)
(* settles the one epoch that is due by then and not settled.              *)
(***************************************************************************)
DisputesDueBy(e, t) == SettleAt(e) + Slack <= t
SettlementDueBy(e, t) == SettleAt(e) + Slack + 1 <= t

\* What was due before this instant is done, and what is due at it, if there has
\* been a whole tick.
PastDue(e) == DisputesDueBy(e, wall) /\ (ticked \/ SettleAt(e) + Slack < wall)
Overtime(e) == SettlementDueBy(e, wall) /\ (ticked \/ SettleAt(e) + Slack + 1 < wall)

TickIsNow == tick.at # "idle" => tick.t = wall
DisputesClosed == \A v \in Video, e \in Epoch : PastDue(e) => ~OpenDispute(v, e)
EpochsSettled == \A e \in Epoch : Overtime(e) => epoch[e].settled

\* The tick is to close every dispute that is due, and leaves none behind.
TodoIsAll ==
    /\ tick.at \in HasSeen =>
         \A v \in Video, e \in Epoch :
           DisputesDueBy(e, tick.t) /\ OpenDispute(v, e) => <<v, e>> \in todo
    /\ tick.at \in {"settle", "settling", "clips"} => todo = {}

\* Before an epoch that is due the tick has none to settle, and it has seen no open
\* dispute about it.
AllInTurn ==
    tick.at # "idle" =>
      \A e \in Epoch :
        SettlementDueBy(e, tick.t) =>
          /\ e <= tick.settled
          /\ tick.at \in HasSeen => \A v \in Video : seen[v][e] \notin {"Open", "Responded"}
          /\ tick.at = "clips" => epoch[e].settled

Prompt == TickIsNow /\ DisputesClosed /\ EpochsSettled /\ TodoIsAll /\ AllInTurn

PromptInv == ~campaign.refunded /\ faults \in Nat /\ (faults = 0 => Prompt)

LEMMA SettleAtRises ==
    ASSUME NEW e \in Nat, NEW k \in Nat, e < k
    PROVE  SettleAt(e) + 1 <= SettleAt(k)
<1>1. (k + 1) * EpochLen = (e + 1) * EpochLen + (k - e) * EpochLen
  BY TimelineAssumption
<1>2. (k - e) * EpochLen >= EpochLen
  BY TimelineAssumption
<1>3. (e + 1) * EpochLen \in Nat /\ (k + 1) * EpochLen \in Nat /\ (k - e) * EpochLen \in Nat
  BY TimelineAssumption
<1> QED
  BY <1>1, <1>2, <1>3, TimelineAssumption DEF ContentEnd, ProofEnd, DisputeEnd, SettleAt

\* What has been done stays done.
LEMMA DoneForGood ==
    ASSUME KInv, TickInv, MaxLag <= Slack, [KeeperNext]_keeperVars
    PROVE  /\ \A v \in Video, e \in Epoch :
                DisputesDueBy(e, wall) /\ ~OpenDispute(v, e) => ~OpenDispute(v, e)'
           /\ \A e \in Epoch : epoch[e].settled => epoch'[e].settled
<1>1. KInv' /\ [Next]_vars
  BY KeeperStep
<1>2. ASSUME NEW v \in Video, NEW e \in Epoch, DisputesDueBy(e, wall), ~OpenDispute(v, e)
      PROVE  ~OpenDispute(v, e)'
  <2>1. /\ now \in Nat /\ wall \in Nat /\ MaxLag \in Nat /\ Slack \in Nat
        /\ SettleAt(e) \in Nat /\ DisputeEnd(e) \in Nat /\ ChallengeEnd(e) \in Nat
        /\ ChallengeEnd(e) <= DisputeEnd(e) /\ DisputeEnd(e) <= SettleAt(e)
        /\ wall <= now + MaxLag
    BY EpochType, TimelineType, PhasesInOrder, CampaignAssumption, CloseJobsAssumption
    DEF KInv, IInv, TypeOK, JobsTypeOK, TickInv, Paced
  <2>2. ChallengeEnd(e) <= now
    BY <1>2, <2>1 DEF DisputesDueBy
  <2>3. DisputeMovesOn(v, e)
    BY <1>1, DisputesMoveOn DEF KInv
  <2> QED
    BY <1>2, <2>1, <2>2, <2>3 DEF DisputeMovesOn, OpenDispute
<1>3. ASSUME NEW e \in Epoch, epoch[e].settled
      PROVE  epoch'[e].settled
  <2>1. campaign.settledEpochs \in Nat /\ campaign'.settledEpochs \in Nat /\ e \in Nat
    BY <1>1, EpochType, TimelineAssumption DEF KInv, IInv, TypeOK, CampaignRecord
  <2>2. campaign.settledEpochs <= campaign'.settledEpochs
    BY <1>1, SettlesOn DEF KInv
  <2>3. e < campaign.settledEpochs
    BY <1>3 DEF KInv, IInv, SettledInOrder
  <2>4. e < campaign'.settledEpochs
    BY <2>1, <2>2, <2>3
  <2> QED
    BY <1>1, <2>4 DEF KInv, IInv, SettledInOrder
<1> QED
  BY <1>2, <1>3

\* Faults are counted, and nobody asks for the refund.
LEMMA FaultsCount ==
    ASSUME faults \in Nat, [KeeperNext]_keeperVars
    PROVE  faults' = faults \/ faults' = faults + 1
BY DEF KeeperNext, TickNext, TickStart, ReadDisputes, SendFinalize, Finalized, FinalizeFails,
   FinalizedAll, SendSettle, SettledNext, SettleFails, ReadClips, ReadFails, Restart,
   JobNext, LateNext, WallTick, LedgerTick, FaultIf, Fault, keeperVars

\* The part of the campaign that has no bearing on the keeper's work: the refund.
LEMMA NobodyRefunds ==
    ASSUME campaign \in CampaignRecord, [KeeperNext]_keeperVars
    PROVE  campaign'.refunded = campaign.refunded
<1>1. ASSUME NEW x, campaign' = [campaign EXCEPT !.settledEpochs = x]
      PROVE  campaign'.refunded = campaign.refunded
  BY <1>1 DEF CampaignRecord
<1>2. ASSUME NEW e, NEW p, SubmitProof(e, p)
      PROVE  campaign'.refunded = campaign.refunded
  BY <1>1, <1>2 DEF SubmitProof
<1>3. ASSUME NEW e, SettleEpoch(e)
      PROVE  campaign'.refunded = campaign.refunded
  BY <1>1, <1>3 DEF SettleEpoch
<1>4. ASSUME NEW v, NEW e, Finalize(v, e) \/ (\E w \in BOOLEAN : Resolve(v, e, w))
      PROVE  campaign' = campaign
  BY <1>4, CloseFrame DEF Finalize, Resolve
<1>5. CASE TickNext
  BY <1>3, <1>4, <1>5
  DEF TickNext, TickStart, ReadDisputes, SendFinalize, Finalized, FinalizeFails,
      FinalizedAll, SendSettle, SettledNext, SettleFails, ReadClips, ReadFails, vars
<1>6. ASSUME NEW v \in Video, NEW e \in Epoch, JobNext(v, e)
      PROVE  campaign'.refunded = campaign.refunded
  BY <1>2, <1>6 DEF JobNext, Applied, vars
<1>7. ASSUME NEW tx \in late, LateNext(tx)
      PROVE  campaign'.refunded = campaign.refunded
  BY <1>2, <1>7 DEF LateNext, AppliedLate, vars
<1>8. CASE Others
  BY <1>2, <1>3, <1>4, <1>8 DEF Others, Join, RegisterClip, Challenge, Respond
<1>9. CASE Restart \/ WallTick \/ LedgerTick \/ UNCHANGED keeperVars
  BY <1>9 DEF Restart, WallTick, LedgerTick, Tick, keeperVars, vars
<1> QED
  BY <1>5, <1>6, <1>7, <1>8, <1>9 DEF KeeperNext

LEMMA TimesAre ==
    ASSUME KInv
    PROVE  /\ wall \in Nat /\ Slack \in Nat /\ tick.t \in Nat /\ tick.settled \in Nat
           /\ \A e \in Epoch : e \in Nat /\ SettleAt(e) \in Nat
           /\ tick \in [at : Place, target : Target, t : Nat, settled : Nat]
BY EpochType, TimelineType, CloseJobsAssumption DEF KInv, JobsTypeOK, TickTypeOK

\* At the same instant, what has been done there stays done.
LEMMA DoneAtThisInstant ==
    ASSUME KInv, TickInv, MaxLag <= Slack, [KeeperNext]_keeperVars, Prompt,
           UNCHANGED <<wall, ticked>>
    PROVE  DisputesClosed' /\ EpochsSettled'
<1>1. \A e \in Epoch : (PastDue(e)' => PastDue(e)) /\ (Overtime(e)' => Overtime(e))
  BY DEF PastDue, Overtime, DisputesDueBy, SettlementDueBy
<1>2. DisputesClosed'
  BY <1>1, DoneForGood DEF Prompt, DisputesClosed, PastDue
<1>3. EpochsSettled'
  BY <1>1, DoneForGood DEF Prompt, EpochsSettled
<1> QED
  BY <1>2, <1>3

\* The steps of others leave the tick where it is.
LEMMA RestIsPrompt ==
    ASSUME KInv, TickInv, MaxLag <= Slack, [KeeperNext]_keeperVars, Prompt,
           UNCHANGED <<wall, ticked>>, Rest
    PROVE  Prompt'
<1>1. DisputesClosed' /\ EpochsSettled'
  BY DoneAtThisInstant
<1>2. TickIsNow'
  BY DEF Prompt, TickIsNow, Rest
<1>3. tick.at \in HasSeen => tick.t = wall
  BY DEF Prompt, TickIsNow, HasSeen
<1>4. TodoIsAll'
  BY <1>3, DoneForGood DEF Prompt, TodoIsAll, Rest, DisputesDueBy
<1>5. AllInTurn'
  BY DoneForGood DEF Prompt, AllInTurn, Rest, SettlementDueBy
<1> QED
  BY <1>1, <1>2, <1>4, <1>5 DEF Prompt

\* A step of a tick that has read the disputes and is not over.
LEMMA GoesOnPromptly ==
    ASSUME KInv, TickInv, MaxLag <= Slack, [KeeperNext]_keeperVars, Prompt,
           UNCHANGED <<wall, ticked>>, tick.at \in HasSeen, tick'.at \in HasSeen,
           tick'.t = tick.t, tick.settled <= tick'.settled, tick'.settled \in Nat,
           \A v \in Video, e \in Epoch :
             /\ <<v, e>> \in todo \ todo' => ~OpenDispute(v, e)'
             /\ seen'[v][e] \in {seen[v][e], "Finalized"},
           tick'.at \in {"settle", "settling", "clips"} => todo' = {},
           tick'.at = "clips" =>
             \A e \in Epoch : SettlementDueBy(e, tick.t) => epoch'[e].settled
    PROVE  Prompt'
<1>1. DisputesClosed' /\ EpochsSettled'
  BY DoneAtThisInstant
<1>2. tick.at # "idle" /\ tick'.at # "idle"
  BY DEF HasSeen
<1>3. TickIsNow' /\ tick.t = wall
  BY <1>2 DEF Prompt, TickIsNow
<1>4. TodoIsAll'
  <2> SUFFICES ASSUME NEW v \in Video, NEW e \in Epoch, DisputesDueBy(e, tick'.t),
                      OpenDispute(v, e)'
               PROVE  <<v, e>> \in todo'
    BY DEF TodoIsAll, DisputesDueBy
  <2>1. DisputesDueBy(e, wall)
    BY <1>3 DEF DisputesDueBy
  <2>2. OpenDispute(v, e)
    BY <2>1, DoneForGood
  <2>3. <<v, e>> \in todo
    BY <1>3, <2>1, <2>2 DEF Prompt, TodoIsAll
  <2> QED
    BY <2>3
<1>5. AllInTurn'
  <2> SUFFICES ASSUME NEW e \in Epoch, SettlementDueBy(e, tick'.t)
               PROVE  /\ e <= tick'.settled
                      /\ \A v \in Video : seen'[v][e] \notin {"Open", "Responded"}
                      /\ tick'.at = "clips" => epoch'[e].settled
    BY DEF AllInTurn, SettlementDueBy
  <2>1. SettlementDueBy(e, tick.t)
    BY DEF SettlementDueBy
  <2>2. e <= tick.settled /\ \A v \in Video : seen[v][e] \notin {"Open", "Responded"}
    BY <1>2, <2>1 DEF Prompt, AllInTurn
  <2>3. e <= tick'.settled
    BY <2>2, TimesAre
  <2> QED
    BY <2>1, <2>2, <2>3
<1> QED
  BY <1>1, <1>3, <1>4, <1>5 DEF Prompt

\* The clock moves on if there has been a whole tick at this instant.
LEMMA WallTickIsPrompt ==
    ASSUME KInv, TickInv, faults \in Nat, faults' = faults, WallTick, Prompt
    PROVE  Prompt'
<1>1. ticked /\ tick.at = "idle" /\ wall' = wall + 1 /\ ticked' = FALSE
      /\ UNCHANGED <<vars, tick, seen, todo>>
  BY DEF WallTick, FaultIf, Fault
<1>2. DisputesClosed'
  <2>1. \A e \in Epoch : PastDue(e)' => PastDue(e)
    BY <1>1, TimesAre DEF PastDue, DisputesDueBy
  <2> QED
    BY <1>1, <2>1 DEF vars, Prompt, DisputesClosed, OpenDispute
<1>3. EpochsSettled'
  <2>1. \A e \in Epoch : Overtime(e)' => Overtime(e)
    BY <1>1, TimesAre DEF Overtime, SettlementDueBy
  <2> QED
    BY <1>1, <2>1 DEF vars, Prompt, EpochsSettled
<1>4. TickIsNow' /\ TodoIsAll' /\ AllInTurn'
  BY <1>1 DEF TickIsNow, TodoIsAll, AllInTurn, HasSeen
<1> QED
  BY <1>2, <1>3, <1>4 DEF Prompt

\* At the end of a whole tick all that is due at its instant is done.
LEMMA TickEndsPromptly ==
    ASSUME KInv, tick' = Idle, wall' = wall, UNCHANGED vars,
           \A v \in Video, e \in Epoch : DisputesDueBy(e, wall) => ~OpenDispute(v, e),
           \A e \in Epoch : SettlementDueBy(e, wall) => epoch[e].settled
    PROVE  Prompt'
<1>1. DisputesClosed'
  BY DEF vars, DisputesClosed, PastDue, DisputesDueBy, OpenDispute
<1>2. EpochsSettled'
  BY DEF vars, EpochsSettled, Overtime, SettlementDueBy
<1>3. TickIsNow' /\ TodoIsAll' /\ AllInTurn'
  BY IdleType DEF TickIsNow, TodoIsAll, AllInTurn, HasSeen
<1> QED
  BY <1>1, <1>2, <1>3 DEF Prompt

\* A tick begins, or finds the campaign over; by then all is done.
LEMMA TickStartIsPrompt ==
    ASSUME KInv, TickInv, MaxLag <= Slack, Slack + 1 < ClaimGrace, ~campaign.refunded,
           [KeeperNext]_keeperVars, TickStart, Prompt
    PROVE  Prompt'
<1>1. CASE Finished /\ TickEnds(wall, jobs)
  <2>1. RefundAt <= wall
    BY <1>1 DEF Finished
  <2>2. ASSUME NEW e \in Epoch
        PROVE  SettleAt(e) + Slack + 1 < wall
    <3>1. SettleAt(e) <= SettleAt(Last) /\ SettleAt(Last) \in Nat
      <4>1. e \in Nat /\ Last \in Nat /\ e <= Last
        BY TimelineAssumption DEF Epoch, Last
      <4>2. SettleAt(e) \in Nat /\ SettleAt(Last) \in Nat
        BY <4>1, TimelineType
      <4>3. CASE e < Last
        <5>1. SettleAt(e) + 1 <= SettleAt(Last)
          BY <4>1, <4>3, SettleAtRises
        <5> QED
          BY <4>2, <5>1
      <4>4. CASE e = Last
        BY <4>2, <4>4
      <4> QED
        BY <4>1, <4>3, <4>4
    <3> QED
      BY <2>1, <3>1, TimesAre, TimelineAssumption DEF RefundAt
  <2>3. \A e \in Epoch : PastDue(e) /\ Overtime(e)
    BY <2>2, TimesAre DEF PastDue, Overtime, DisputesDueBy, SettlementDueBy
  <2> QED
    BY <1>1, <2>3, TickEndsPromptly DEF TickStart, TickEnds, Prompt, DisputesClosed,
       EpochsSettled
<1>2. CASE /\ tick' = [tick EXCEPT !.at = "disputes", !.t = wall,
                                   !.settled = campaign.settledEpochs]
           /\ UNCHANGED ticked
  <2>1. tick'.at = "disputes" /\ tick'.t = wall /\ tick'.settled = campaign.settledEpochs
    BY <1>2, TimesAre
  <2>2. DisputesClosed' /\ EpochsSettled'
    BY <1>2, DoneAtThisInstant DEF TickStart
  <2>3. TickIsNow' /\ TodoIsAll'
    BY <2>1 DEF TickStart, TickIsNow, TodoIsAll, HasSeen
  <2>4. ASSUME NEW e \in Epoch, SettlementDueBy(e, wall)
        PROVE  e <= campaign.settledEpochs
    <3>1. campaign.settledEpochs \in Nat /\ e \in Nat
      BY TimesAre, TimelineAssumption DEF KInv, IInv, TypeOK, CampaignRecord
    <3>2. CASE e = 0
      BY <3>1, <3>2
    <3>3. CASE e > 0
      <4>1. e - 1 \in Epoch /\ e - 1 < e
        BY <3>1, <3>3, TimelineAssumption DEF Epoch
      <4>2. SettleAt(e - 1) + 1 <= SettleAt(e)
        BY <3>1, <4>1, EpochType, SettleAtRises
      <4>3. Overtime(e - 1)
        BY <2>4, <4>1, <4>2, TimesAre DEF Overtime, SettlementDueBy
      <4>4. e - 1 < campaign.settledEpochs
        BY <4>1, <4>3 DEF Prompt, EpochsSettled, KInv, IInv, SettledInOrder
      <4> QED
        BY <3>1, <4>4
    <3> QED
      BY <3>1, <3>2, <3>3
  <2>5. AllInTurn'
    BY <2>1, <2>4 DEF AllInTurn, SettlementDueBy, HasSeen
  <2> QED
    BY <2>2, <2>3, <2>5 DEF Prompt
<1> QED
  BY <1>1, <1>2 DEF TickStart

\* The disputes that are due are all to be closed, and of an epoch that was due an
\* instant ago none is open any more.
LEMMA ReadDisputesIsPrompt ==
    ASSUME KInv, TickInv, MaxLag <= Slack, [KeeperNext]_keeperVars, ReadDisputes, Prompt
    PROVE  Prompt'
<1>1. /\ tick.at = "disputes" /\ tick'.at = "finalize" /\ tick'.t = tick.t
      /\ tick'.settled = tick.settled
  BY TimesAre DEF ReadDisputes, Goto, Place
<1>2. TickIsNow' /\ tick.t = wall
  BY <1>1 DEF ReadDisputes, Prompt, TickIsNow
<1>3. DisputesClosed' /\ EpochsSettled'
  BY DoneAtThisInstant DEF ReadDisputes
<1>4. TodoIsAll'
  <2> SUFFICES ASSUME NEW v \in Video, NEW e \in Epoch, DisputesDueBy(e, tick'.t),
                      OpenDispute(v, e)'
               PROVE  <<v, e>> \in todo'
    BY <1>1 DEF TodoIsAll, DisputesDueBy
  <2>1. SettleAt(e) + Slack <= tick.t /\ OpenDispute(v, e)
    BY <1>1 DEF ReadDisputes, vars, DisputesDueBy, OpenDispute
  <2>2. DisputeEnd(e) + Slack <= tick.t
    <3>1. DisputeEnd(e) \in Nat /\ DisputeEnd(e) <= SettleAt(e)
      BY EpochType, TimelineType, PhasesInOrder
    <3> QED
      BY <2>1, <3>1, TimesAre
  <2>3. Overdue(dispute[v][e].status, e)
    BY <2>1, <2>2 DEF Overdue, OpenDispute
  <2> QED
    BY <2>3 DEF ReadDisputes
<1>5. AllInTurn'
  <2> SUFFICES ASSUME NEW e \in Epoch, SettlementDueBy(e, tick'.t)
               PROVE  /\ e <= tick'.settled
                      /\ \A v \in Video : seen'[v][e] \notin {"Open", "Responded"}
    BY <1>1 DEF AllInTurn, SettlementDueBy
  <2>1. SettlementDueBy(e, tick.t)
    BY <1>1 DEF SettlementDueBy
  <2>2. PastDue(e)
    BY <1>2, <2>1, TimesAre DEF PastDue, DisputesDueBy, SettlementDueBy
  <2>3. \A v \in Video : seen'[v][e] \notin {"Open", "Responded"}
    BY <2>2 DEF Prompt, DisputesClosed, OpenDispute, ReadDisputes
  <2> QED
    BY <1>1, <2>1, <2>3 DEF Prompt, AllInTurn
<1> QED
  BY <1>2, <1>3, <1>4, <1>5 DEF Prompt

\* A dispute is left only when it is closed, if nothing fails.
LEMMA FinalizingIsPrompt ==
    ASSUME KInv, TickInv, MaxLag <= Slack, [KeeperNext]_keeperVars, Prompt, faults \in Nat,
           faults' = faults,
           (\E d \in todo : SendFinalize(d)) \/ Finalized \/ FinalizeFails \/ FinalizedAll
    PROVE  Prompt'
<1> USE DEF HasSeen
<1>1. ASSUME NEW d \in todo, Closed(d[1], d[2]), NEW v \in Video, NEW e \in Epoch,
             <<v, e>> = d, dispute' = dispute
      PROVE  ~OpenDispute(v, e)'
  BY <1>1 DEF Closed, OpenDispute
<1>2. ASSUME NEW d \in todo, SendFinalize(d)
      PROVE  Prompt'
  <2>1. CASE CanFinalize(d) /\ Finalizing(d) /\ UNCHANGED todo
    <3>1. tick'.at = "finalizing" /\ tick'.t = tick.t /\ tick'.settled = tick.settled
      BY <2>1, TimesAre DEF Finalizing
    <3> QED
      BY <1>2, <2>1, <3>1, TimesAre, GoesOnPromptly DEF SendFinalize
  <2>2. CASE ~CanFinalize(d) /\ NextDispute(d)
    <3>1. tick'.at = "finalize" /\ tick'.t = tick.t /\ tick'.settled = tick.settled
      BY <2>2, TimesAre DEF NextDispute
    <3>2. \A v \in Video, e \in Epoch : <<v, e>> \in todo \ todo' => ~OpenDispute(v, e)'
      BY <1>1, <1>2, <2>2 DEF NextDispute, SendFinalize, TickInv, TodoIsDue, vars
    <3> QED
      BY <1>2, <3>1, <3>2, TimesAre, GoesOnPromptly DEF SendFinalize
  <2> QED
    BY <1>2, <2>1, <2>2 DEF SendFinalize
<1>3. CASE Finalized
  <2> DEFINE d == tick.target
  <2>1. tick'.at = "finalize" /\ tick'.t = tick.t /\ tick'.settled = tick.settled
        /\ todo' = todo \ {d}
    BY <1>3, TimesAre DEF Finalized, NextDispute
  <2>2. d[1] \in Video /\ d[2] \in Epoch
    BY <1>3 DEF Finalized, KInv, TickTypeOK, Pair
  <2>3. \A v \in Video, e \in Epoch : <<v, e>> \in todo \ todo' => ~OpenDispute(v, e)'
    <3>1. PICK w \in BOOLEAN : Close(d[1], d[2], w)
      BY <1>3 DEF Finalized, Finalize
    <3>2. PICK s \in {"ClipperWon", "ChallengerWon"} :
            dispute' = [dispute EXCEPT ![d[1]][d[2]].status = s]
      BY <3>1 DEF Close
    <3>3. dispute \in [Video -> [Epoch -> Dispute]]
      BY DEF KInv, IInv, TypeOK
    <3>4. dispute'[d[1]][d[2]].status = s
      BY <2>2, <3>2, <3>3 DEF Dispute
    <3> QED
      BY <2>1, <3>4 DEF OpenDispute
  <2>4. \A v \in Video, e \in Epoch : seen'[v][e] \in {seen[v][e], "Finalized"}
    BY <1>3, <2>2 DEF Finalized, KInv, TickTypeOK
  <2> QED
    BY <1>3, <2>1, <2>3, <2>4, TimesAre, GoesOnPromptly DEF Finalized
<1>4. CASE FinalizeFails
  <2> DEFINE d == tick.target
  <2>1. tick'.at = "finalize" /\ tick'.t = tick.t /\ tick'.settled = tick.settled
        /\ todo' = todo \ {d}
    BY <1>4, TimesAre DEF FinalizeFails, NextDispute
  <2>2. ~CanFinalize(d)
    BY <1>4 DEF FinalizeFails, FaultIf, Fault
  <2>3. \A v \in Video, e \in Epoch : <<v, e>> \in todo \ todo' => ~OpenDispute(v, e)'
    BY <1>1, <1>4, <2>1, <2>2 DEF FinalizeFails, TickInv, TodoIsDue, vars
  <2> QED
    BY <1>4, <2>1, <2>3, TimesAre, GoesOnPromptly DEF FinalizeFails
<1>5. CASE FinalizedAll
  <2>1. tick'.at = "settle" /\ tick'.t = tick.t /\ tick'.settled = tick.settled
    BY <1>5, TimesAre DEF FinalizedAll, Goto, Place
  <2> QED
    BY <1>5, <2>1, TimesAre, GoesOnPromptly DEF FinalizedAll
<1> QED
  BY <1>2, <1>3, <1>4, <1>5

\* The tick goes on to the clips only when all that is due is settled.
LEMMA ToClips ==
    ASSUME KInv, TickInv, MaxLag <= Slack, Prompt, tick.at \in HasSeen, UNCHANGED vars,
           Due(tick.settled) => ~CanSettle(tick.settled), NEW e \in Epoch,
           SettlementDueBy(e, tick.t)
    PROVE  epoch'[e].settled
<1>1. tick.at # "idle"
  BY DEF HasSeen
<1>2. e <= tick.settled /\ \A v \in Video : seen[v][e] \notin {"Open", "Responded"}
  BY <1>1 DEF Prompt, AllInTurn
<1>3. CASE e = tick.settled
  <2>1. Due(e)
    BY <1>2, TimesAre DEF Due, SettlementDueBy
  <2> QED
    BY <1>3, <2>1, DueCanBeSettled DEF vars
<1>4. CASE e < tick.settled
  <2>1. tick.settled <= campaign.settledEpochs /\ campaign.settledEpochs \in Nat
    BY <1>1, TimelineAssumption DEF TickInv, Follows, KInv, IInv, TypeOK, CampaignRecord
  <2>2. e < campaign.settledEpochs
    BY <1>4, <2>1, TimesAre
  <2> QED
    BY <2>2 DEF KInv, IInv, SettledInOrder, vars
<1> QED
  BY <1>2, <1>3, <1>4, TimesAre

LEMMA SettlingIsPrompt ==
    ASSUME KInv, TickInv, MaxLag <= Slack, [KeeperNext]_keeperVars, Prompt, faults \in Nat,
           faults' = faults, SendSettle \/ SettledNext \/ SettleFails
    PROVE  Prompt'
<1> USE DEF HasSeen
<1>1. tick.at # "settling" => tick.at = "settle"
  BY DEF SendSettle, SettledNext, SettleFails
<1>2. todo = {}
  BY <1>1 DEF Prompt, TodoIsAll
<1>3. CASE SendSettle
  <2>1. tick'.t = tick.t /\ tick'.settled = tick.settled /\ tick'.at \in {"settling", "clips"}
        /\ (tick'.at = "clips" => ~(Due(tick.settled) /\ CanSettle(tick.settled)))
    BY <1>3, TimesAre DEF SendSettle, Goto, Place
  <2>2. tick'.at = "clips" =>
          \A e \in Epoch : SettlementDueBy(e, tick.t) => epoch'[e].settled
    BY <1>3, <2>1, ToClips DEF SendSettle
  <2> QED
    BY <1>2, <1>3, <2>1, <2>2, TimesAre, GoesOnPromptly DEF SendSettle
<1>4. CASE SettleFails
  <2>1. tick'.t = tick.t /\ tick'.settled = tick.settled /\ tick'.at = "clips"
    BY <1>4, TimesAre DEF SettleFails, Goto, Place
  <2>2. ~CanSettle(tick.settled)
    BY <1>4 DEF SettleFails, FaultIf, Fault
  <2>3. \A e \in Epoch : SettlementDueBy(e, tick.t) => epoch'[e].settled
    BY <1>4, <2>2, ToClips DEF SettleFails
  <2> QED
    BY <1>2, <1>4, <2>1, <2>3, TimesAre, GoesOnPromptly DEF SettleFails
<1>5. CASE SettledNext
  <2> DEFINE k == [tick EXCEPT !.at = "settle"]
             n == tick.settled + 1
  <2>1. /\ k.t = tick.t /\ k.at = "settle" /\ n \in Nat /\ tick.settled <= n
        /\ k \in [at : Place, target : Target, t : Nat, settled : Nat]
    BY TimesAre DEF Place
  <2>2. tick' = [k EXCEPT !.settled = n]
    BY <1>5 DEF SettledNext
  <2>3. tick'.t = tick.t /\ tick'.settled = n /\ tick'.at = "settle"
    <3> HIDE DEF k, n
    <3> QED
      BY <2>1, <2>2
  <2> QED
    BY <1>2, <1>5, <2>1, <2>3, TimesAre, GoesOnPromptly DEF SettledNext
<1> QED
  BY <1>3, <1>4, <1>5

LEMMA ReadClipsIsPrompt ==
    ASSUME KInv, ReadClips, Prompt
    PROVE  Prompt'
<1>1. tick.at = "clips" /\ tick.t = wall /\ tick' = Idle /\ UNCHANGED <<vars, wall>>
  BY DEF ReadClips, TickEnds, Prompt, TickIsNow
<1>2. \A v \in Video, e \in Epoch : DisputesDueBy(e, wall) => ~OpenDispute(v, e)
  BY <1>1 DEF Prompt, TodoIsAll, HasSeen
<1>3. \A e \in Epoch : SettlementDueBy(e, wall) => epoch[e].settled
  BY <1>1 DEF Prompt, AllInTurn
<1> QED
  BY <1>1, <1>2, <1>3, TickEndsPromptly

LEMMA PromptStep ==
    ASSUME KInv, TickInv, PromptInv, MaxLag <= Slack, Slack + 1 < ClaimGrace,
           [KeeperNext]_keeperVars
    PROVE  PromptInv'
<1>1. faults \in Nat /\ (faults' = faults \/ faults' = faults + 1)
  BY FaultsCount DEF PromptInv
<1>2. ~campaign'.refunded
  BY NobodyRefunds DEF PromptInv, KInv, IInv, TypeOK
<1>3. ASSUME faults' = 0
      PROVE  Prompt'
  <2>1. faults' = faults /\ Prompt /\ ~campaign.refunded
    BY <1>1, <1>3 DEF PromptInv
  <2>2. CASE TickNext
    <3>1. ~ReadFails
      BY <1>1, <2>1 DEF ReadFails, Fault
    <3> QED
      BY <1>1, <2>1, <2>2, <3>1, TickStartIsPrompt, ReadDisputesIsPrompt,
         FinalizingIsPrompt, SettlingIsPrompt, ReadClipsIsPrompt DEF TickNext
  <2>3. CASE WallTick
    BY <1>1, <2>1, <2>3, WallTickIsPrompt
  <2>4. ~Restart
    BY <1>1, <2>1 DEF Restart, Fault
  <2>5. ASSUME UNCHANGED <<wall, keeper>>
        PROVE  Prompt'
    BY <2>1, <2>5, RestIsPrompt DEF keeper, Rest
  <2>6. CASE \/ \E v \in Video, e \in Epoch : JobNext(v, e)
             \/ \E tx \in late : LateNext(tx)
             \/ LedgerTick \/ UNCHANGED keeperVars
    BY <2>5, <2>6 DEF JobNext, LateNext, LedgerTick, keeperVars
  <2> QED
    BY <2>2, <2>3, <2>4, <2>5, <2>6 DEF KeeperNext
<1> QED
  BY <1>1, <1>2, <1>3 DEF PromptInv

\* As long as nothing fails and nothing is late, every epoch is settled as soon as it
\* can be, at the latest a tick later if somebody else closes its dispute in between:
\* whatever others do, if the ledger lags no further behind than the allowance for it
\* and the time to claim is longer than that allowance, so that the keeper does not
\* stop before it has settled the last epoch.
THEOREM EpochsAreSettledInTime ==
    ASSUME MaxLag <= Slack, Slack + 1 < ClaimGrace
    PROVE  KeeperSpec => []SettledInTime
<1>1. KeeperInit => TickInv /\ PromptInv
  <2> SUFFICES ASSUME KeeperInit
               PROVE  PromptInv
    BY InitTick
  <2>1. wall = 0 /\ ticked = FALSE /\ tick.at = "idle" /\ faults = 0 /\ ~campaign.refunded
    BY IdleType DEF KeeperInit, Init, JobsInit
  <2>2. KInv
    BY InitKeeper
  <2>3. \A e \in Epoch : ~PastDue(e) /\ ~Overtime(e)
    BY <2>1, <2>2, TimesAre DEF PastDue, Overtime
  <2> QED
    BY <2>1, <2>3 DEF PromptInv, Prompt, TickIsNow, DisputesClosed, EpochsSettled, TodoIsAll,
       AllInTurn, HasSeen
<1>2. KInv /\ TickInv /\ PromptInv /\ [KeeperNext]_keeperVars => TickInv' /\ PromptInv'
  BY TickInvStep, PromptStep
<1>3. KInv /\ PromptInv => SettledInTime
  <2> SUFFICES ASSUME KInv, PromptInv, faults = 0, NEW e \in Epoch,
                      SettleAt(e) + Slack + 1 < wall
               PROVE  epoch[e].settled
    BY DEF SettledInTime
  <2>1. Overtime(e)
    BY TimesAre DEF Overtime, SettlementDueBy
  <2> QED
    BY <2>1 DEF PromptInv, Prompt, EpochsSettled
<1> QED
  BY <1>1, <1>2, <1>3, KeeperInvariance, PTL DEF KeeperSpec

=============================================================================
