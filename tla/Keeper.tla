------------------------------- MODULE Keeper -------------------------------
(***************************************************************************)
(* The verifier's keeper.  A tick reads the campaign and its disputes,     *)
(* finalizes the expired ones, settles the epochs that are due, and starts *)
(* a close-proof job for every clip whose epoch wants one.  It judges by   *)
(* the time and the statuses it read, while others act on the chain.       *)
(***************************************************************************)
EXTENDS CloseJobs

CONSTANT MaxFaults  \* bound: how often something fails or is late

ASSUME KeeperAssumption == MaxFaults \in Nat

VARIABLES
    tick,   \* where the tick is, the dispute it is at, its time and settled count
    seen,   \* dispute statuses it has read
    todo,   \* expired disputes still to be finalized in this tick
    ticked, \* there has been a whole tick at this instant
    faults  \* failures and delays so far

keeper == <<tick, seen, todo, ticked>>
keeperVars == <<vars, wall, jobVars, keeper, faults>>

Place == {"idle", "disputes", "finalize", "finalizing", "settle",
          "settling", "clips"}
NoTarget == <<>>
Idle == [at |-> "idle", target |-> NoTarget, t |-> 0, settled |-> 0]
Unseen == [v \in Video |-> [e \in Epoch |-> "None"]]

KeeperInit ==
    /\ Init /\ JobsInit
    /\ tick = Idle
    /\ seen = Unseen
    /\ todo = {}
    /\ ticked = FALSE
    /\ faults = 0

Goto(place) == tick' = [tick EXCEPT !.at = place]

Fault == faults < MaxFaults /\ faults' = faults + 1
FaultIf(failed) == IF failed THEN Fault ELSE UNCHANGED faults

\* The end of a tick that went by the time t: old jobs are forgotten.
TickEnds(t, js) ==
    /\ tick' = Idle /\ seen' = Unseen /\ todo' = {}
    /\ jobs' = Pruned(js)
    /\ ticked' = (ticked \/ t = wall)

Finished == campaign.refunded \/ RefundAt <= wall

\* The interval fires and the campaign is read; a tick still running is left alone.
TickStart ==
    /\ tick.at = "idle"
    /\ \/ /\ Finished
          /\ TickEnds(wall, jobs)
       \/ /\ ~Finished
          /\ tick' = [tick EXCEPT !.at = "disputes", !.t = wall,
                                 !.settled = campaign.settledEpochs]
          /\ UNCHANGED <<jobs, seen, todo, ticked>>
    /\ UNCHANGED <<vars, wall, spent, late, faults>>

MutOverdue(status, e) ==  \* leaves the answered ones to the arbiter
    status = "Open" /\ DisputeEnd(e) + Slack <= tick.t

\* Whether a dispute can be finalized, by the tick's own time.
Overdue(status, e) ==
    \/ status = "Open" /\ DisputeEnd(e) + Slack <= tick.t
    \/ status = "Responded" /\ SettleAt(e) + Slack <= tick.t

ReadDisputes ==
    /\ tick.at = "disputes"
    /\ seen' = [v \in Video |-> [e \in Epoch |-> dispute[v][e].status]]
    /\ todo' = {d \in Video \X Epoch : Overdue(dispute[d[1]][d[2]].status, d[2])}
    /\ Goto("finalize")
    /\ UNCHANGED <<vars, wall, jobVars, ticked, faults>>

-----------------------------------------------------------------------------
(***************************************************************************)
(* The calls a tick waits for.  Each is simulated before it is sent; a     *)
(* call the contract would refuse fails then, one that somebody else has   *)
(* made superfluous in between fails when it is applied.  A call that was  *)
(* given up on and is applied after all is like a stranger's.              *)
(***************************************************************************)
CanFinalize(d) == \E w \in BOOLEAN : DefaultRuling(d[1], d[2], w)

Finalizing(d) == tick' = [tick EXCEPT !.at = "finalizing", !.target = d]
NextDispute(d) ==
    /\ tick' = [tick EXCEPT !.at = "finalize", !.target = NoTarget]
    /\ todo' = todo \ {d}

SendFinalize(d) ==
    /\ tick.at = "finalize"
    /\ d \in todo
    /\ \/ CanFinalize(d) /\ Finalizing(d) /\ UNCHANGED todo
       \/ ~CanFinalize(d) /\ NextDispute(d)
    /\ UNCHANGED <<vars, wall, jobVars, seen, ticked, faults>>

Finalized ==
    LET d == tick.target
    IN  /\ tick.at = "finalizing"
        /\ Finalize(d[1], d[2])
        /\ seen' = [seen EXCEPT ![d[1]][d[2]] = "Finalized"]
        /\ NextDispute(d)
        /\ UNCHANGED <<wall, jobVars, ticked, faults>>

FinalizeFails ==
    /\ tick.at = "finalizing"
    /\ NextDispute(tick.target)
    /\ FaultIf(CanFinalize(tick.target))
    /\ UNCHANGED <<vars, wall, jobVars, seen, ticked>>

FinalizedAll ==
    /\ tick.at = "finalize" /\ todo = {}
    /\ Goto("settle")
    /\ UNCHANGED <<vars, wall, jobVars, seen, todo, ticked, faults>>

CanSettle(e) == ~epoch[e].settled /\ (e > 0 => epoch[e - 1].settled) /\ Ready(e)

MutDue(e) ==  \* whatever disputes it has seen
    e \in Epoch /\ SettleAt(e) + Slack <= tick.t

\* By its own time and what it has seen, epoch e is to be settled.
Due(e) ==
    /\ e \in Epoch
    /\ SettleAt(e) + Slack <= tick.t
    /\ \A v \in Video : seen[v][e] \notin {"Open", "Responded"}

SendSettle ==
    LET e == tick.settled
    IN  /\ tick.at = "settle"
        /\ Goto(IF Due(e) /\ CanSettle(e) THEN "settling" ELSE "clips")
        /\ UNCHANGED <<vars, wall, jobVars, seen, todo, ticked, faults>>

SettledNext ==
    /\ tick.at = "settling"
    /\ SettleEpoch(tick.settled)
    /\ tick' = [tick EXCEPT !.at = "settle", !.settled = @ + 1]
    /\ UNCHANGED <<wall, jobVars, seen, todo, ticked, faults>>

SettleFails ==
    /\ tick.at = "settling"
    /\ Goto("clips")
    /\ FaultIf(CanSettle(tick.settled))
    /\ UNCHANGED <<vars, wall, jobVars, seen, todo, ticked>>

-----------------------------------------------------------------------------
MutLive(e) ==  \* waits for the end of the window
    ProofEnd(e) - Slack <= tick.t /\ tick.t < ProofEnd(e)

Live(e) == ContentEnd(e) + Slack <= tick.t /\ tick.t < ProofEnd(e)

Wanted(v, e) ==
    LET j == jobs[v][e]
    IN  /\ Live(e)
        /\ clip[v].owner # Nobody /\ clip[v].firstEpoch <= e
        /\ clipEpoch[v][e].status \in {"None", "Active"}
        /\ clipEpoch[v][e].views = 0
        /\ Startable(v, e)
        /\ j.kept = {} => tick.t < ProofEnd(e) - ProofMargin /\ j.fetches < MaxFetches

\* The rest of the tick is one step: it starts the jobs, waits for none of them,
\* and forgets old ones.
ReadClips ==
    /\ tick.at = "clips"
    /\ TickEnds(tick.t, [v \in Video |-> [e \in Epoch |->
          IF Wanted(v, e) THEN [jobs[v][e] EXCEPT !.stage = "reading"]
          ELSE jobs[v][e]]])
    /\ UNCHANGED <<vars, wall, spent, late, faults>>

\* A read of the chain fails: the tick is over.
ReadFails ==
    /\ tick.at \in {"disputes", "clips"}
    /\ tick' = Idle /\ seen' = Unseen /\ todo' = {}
    /\ jobs' = Pruned(jobs)
    /\ Fault
    /\ UNCHANGED <<vars, wall, spent, late, ticked>>

\* Everything is in memory, also what has been sent and not yet been answered.
Restart ==
    /\ JobsLost
    /\ tick' = Idle /\ seen' = Unseen /\ todo' = {}
    /\ Fault
    /\ UNCHANGED <<vars, wall, ticked>>

-----------------------------------------------------------------------------
JobNext(v, e) ==
    \/ /\ \/ Read(v, e) \/ Send(v, e)
          \/ \E r \in Response : Fetched(v, e, r)
       /\ FaultIf(\E r \in jobs'[v][e].kept : ~r.code)
       /\ UNCHANGED <<vars, wall, keeper>>
    \/ Applied(v, e) /\ UNCHANGED <<wall, keeper, faults>>
    \/ /\ Breaks(v, e)
       /\ FaultIf(jobs[v][e].stage = "sent" =>
                   \E r \in jobs[v][e].kept : Answer(v, e, r) = "accepted")
       /\ UNCHANGED <<vars, wall, keeper>>
    \/ GivesUp(v, e) /\ Fault /\ UNCHANGED <<vars, wall, keeper>>

LateNext(tx) ==
    \/ AppliedLate(tx) /\ UNCHANGED <<wall, keeper, faults>>
    \/ Dropped(tx) /\ UNCHANGED <<vars, wall, keeper, faults>>

TickNext ==
    \/ TickStart \/ ReadDisputes
    \/ \E d \in todo : SendFinalize(d)
    \/ Finalized \/ FinalizeFails \/ FinalizedAll
    \/ SendSettle \/ SettledNext \/ SettleFails
    \/ ReadClips \/ ReadFails

\* What everybody else does to the campaign.
Others ==
    \/ \E u \in User : Join(u)
    \/ \E u \in User, p \in Proof : RegisterClip(u, p)
    \/ \E e \in Epoch, p \in Proof : SubmitProof(e, p)
    \/ \E e \in Epoch : SettleEpoch(e)
    \/ \E v \in Video, e \in Epoch, a \in Challenger : Challenge(v, e, a)
    \/ \E v \in Video, e \in Epoch : Respond(v, e)
    \/ \E v \in Video, e \in Epoch, w \in BOOLEAN : Resolve(v, e, w)
    \/ \E v \in Video, e \in Epoch : Finalize(v, e)

JobsRest == \A v \in Video, e \in Epoch : ~Running(v, e)

\* It is a delay if there was no whole tick at this instant, or not all is done.
WallTick ==
    /\ wall < Horizon /\ wall < now + MaxLag
    /\ wall' = wall + 1
    /\ ticked' = FALSE
    /\ FaultIf(~(ticked /\ tick.at = "idle" /\ JobsRest))
    /\ UNCHANGED <<vars, jobVars, tick, seen, todo>>

\* A proof under way when its window closes cannot be applied any more.
LedgerTick ==
    /\ now < wall
    /\ Tick
    /\ late' = {tx \in late : now' < ProofEnd(tx.epoch)}
    /\ UNCHANGED <<wall, jobs, spent, keeper, faults>>

KeeperNext ==
    \/ TickNext
    \/ \E v \in Video, e \in Epoch : JobNext(v, e)
    \/ \E tx \in late : LateNext(tx)
    \/ Restart
    \/ Others /\ UNCHANGED <<wall, jobVars, keeper, faults>>
    \/ WallTick
    \/ LedgerTick

KeeperSpec == KeeperInit /\ [][KeeperNext]_keeperVars

-----------------------------------------------------------------------------
\* One process never fetches more often than it may for a clip and epoch, although
\* jobs are forgotten and asked for again.
FetchesWithinQuota == \A v \in Video, e \in Epoch : spent[v][e] <= MaxFetches

\* A fetch is not wasted on a call the contract would refuse: if nobody does
\* anything else, the contract accepts what is fetched.
NoDoomedFetch ==
    [][\A v \in Video, e \in Epoch :
         jobs[v][e].stage # "fetching" /\ jobs'[v][e].stage = "fetching"
         => \A r \in Fetchable(v, e) :
              r.code => Answer(v, e, r) \in {"accepted", "ProofReused"}]_keeperVars

\* Calls the contract refuses at the keeper's simulation are only those somebody else
\* has made superfluous since it read: none comes too early, none too late.
NothingSentInVain ==
    [][/\ \A d \in todo \ todo' :
            tick.at = "finalize" /\ tick'.at = "finalize"
            => dispute[d[1]][d[2]].status \in {"ClipperWon", "ChallengerWon"}
       /\ tick.at = "settle" /\ tick'.at = "clips" /\ Due(tick.settled)
          => epoch[tick.settled].settled]_keeperVars

\* As long as the keeper keeps pace and nothing fails, no clip loses an epoch,
\* whatever disputes are opened, answered or left alone.
EveryClipProven ==
    faults = 0 => \A v \in Video, e \in Epoch :
      clip[v].owner # Nobody /\ clip[v].firstEpoch <= e /\ ProofEnd(e) <= now
      => clipEpoch[v][e].status # "None"

\* ... and every epoch is settled as soon as it can be, at the latest a tick later
\* if somebody else closes its dispute between the keeper's read and its call.
SettledInTime ==
    faults = 0 => \A e \in Epoch : SettleAt(e) + Slack + 1 < wall => epoch[e].settled

\* What ops.ts says of the errors it calls permanent: no later proof can help.
PermanentMeansHopeless ==
    \A v \in Video, e \in Epoch :
      jobs[v][e].failed => \A r \in Fetchable(v, e) : Answer(v, e, r) # "accepted"

=============================================================================
