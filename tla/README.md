# Cliprail verification project

TLA+ models of Cliprail (`contracts/`, `services/verifier/`, `packages/`, `scripts/`): a brand
escrows a budget on Stellar, participants register posts, and every content epoch pays them for
the views a zkTLS attestation proves, with bonded disputes, a per-epoch settlement and a holdback
that only posts still online receive.

Line numbers refer to the files of the repository. `tlasany M.tla` parses a module,
`tlc -workers 2 -config MCX.cfg MCY.tla` checks a run, `tlapm M.tla` checks the proofs.

## The system

| Part | State it keeps | Operations | Talks to |
|---|---|---|---|
| **cliprail contract** (`contracts/cliprail`) | per campaign: ledger balance, settled-epoch count, refunded flag; per clip: owner, baseline, high-water mark, first epoch; per clip and epoch: views, weight, status, claim flags; per participant and epoch: raw and capped weight; per epoch: totals, rate, spent, holdback; disputes; global: video index, used proofs, id counters, admin configuration | `create_campaign`, `create_campaign_with_swap`, `join`, `register_clip`, `submit_proof`, `settle_epoch`, `claim`, `claim_holdback`, `refund`, `challenge`, `respond`, `resolve`, `finalize_dispute`, admin setters, views | token contract (transfers), humanity contract (`is_verified`), Soroswap router |
| **reclaim-verify** (library of the contract) | none | checks an attested claim: signature, attestor, owner, URL, code, view count | cliprail's `proof.rs` |
| **humanity contract** (`contracts/humanity`) | nullifier → wallet and wallet → nullifier per campaign, relayer, Anon Aadhaar configuration | `register`, `register_zk`, `revoke`, setters, `is_verified` | cliprail's `join` |
| **verifier service** (`services/verifier`) | close-proof jobs, in-flight fetches, proof cache on disk, last sequence number, prover queue and cache, rate buckets; all but the proof cache are lost on restart | keeper tick (finalize, settle, submit), `/proof`, `/proof/submit`, `/humanity/*` | the chain through an RPC node, the attestor, snarkjs |
| **client package** (`packages/client`) | none that lasts; the in-memory API keeps whole campaigns | contract writes with retry, fiat anchor deposits and withdrawals, swap quotes, an API without a chain | wallet, RPC, verifier, anchor |
| **shared package** (`packages/shared`) | none | the clients' copy of the timeline and of the payout arithmetic | web application, client |
| **CCTP scripts** (`scripts/cctp`) | none but the printed burn hash | burn on another chain, wait for the attestation, mint on Stellar, fund a campaign | EVM chain, Circle, Stellar |
| **web application** (`apps/web`) | query caches, form state | drives the client package | verifier, RPC, wallet |

What is hard in it:

* *Order.* One campaign is driven by strangers (participants, challengers, the keeper, anybody
  who has seen an attested response), each transaction is atomic, but nothing orders them except
  half-open time windows. A proof, a ruling and a settlement of the same epoch may arrive in any
  order the windows allow; a closing proof settles earlier epochs on its way.
* *Arithmetic.* Payouts are rounded down three times in sequence, held parts up, totals are
  maintained incrementally in unsigned integers, and `pay_out` clamps silently.
* *Shared money.* Bonds of open disputes and the budgets of all campaigns are one token balance.
* *Time.* A dispute nobody answers or rules on has to be closed by default, or its epoch never
  settles.
* *The off-chain half.* The verifier acts on reads that are stale by the time it acts, its
  transactions can be lost, delayed or applied after it gave up on them, and its memory does not
  survive a restart.

`PROJECT.json` lists each hazard at its line, with the properties that cover it.

What makes each part correct:

* *escrow:* every claim is paid once and in full whatever the order; the contract always holds
  what it owes; a settled epoch is immutable; views are counted once; the holdback pot goes to the
  posts that are still online, completely decided before the first share is paid.
* *disputes:* each is closed exactly once, in bounded time whatever the parties do; the bond goes
  to the winner; the settlement waits for all of them.
* *humanity:* a person has one wallet per campaign; a revoked person does not come back.
* *verifier:* every provable clip is proven in its window; a fetch is not spent on a call that
  cannot succeed; no two transactions in flight share a sequence number for good; a restart loses
  nothing that the chain does not still say.
* *client, scripts:* what a write is told in the end is so; a retry never acts twice, and nothing in
  flight is forgotten by somebody who was told of a failure; every unit of the brand's money is
  somewhere, and a burn can be finished by whoever has its hash.
* *pages:* what they offer is accepted, what they show is paid, and somebody who keeps pressing the
  button a page offers gets to the next step.

## The modules

| Module | Content |
|---|---|
| `Timeline` | the instants at which windows open and close (`epoch.rs` 17-57), under what `validate_params` guarantees |
| `Payout` | weights, rate, spent, pays, held parts and shares (`epoch.rs` 59-182), as operators |
| `Campaign` | the state machine of one campaign: all entry points of `lib.rs` and `dispute.rs` that touch it after its creation, and ledger time |
| `CampaignProperties` | type invariant, safety, action and liveness properties |
| `Escrow` | the abstract promise of a campaign: a pot, claims that become fixed and are paid at most once, a rest handed back |
| `CampaignEscrow` | the refinement mapping: every `Campaign` is an `Escrow` |
| `Parties` | campaign ids and wallets, shared by the next three |
| `Humanity` | the humanity contract: both registration paths, revocation, the admin's setters |
| `Treasury` | the money of all campaigns: one token balance, a ledger per campaign, funding directly and through a swap |
| `Cliprail` | the contract with several campaigns: `Humanity` and `Treasury` composed through `create_campaign` and `join`, and the state campaigns share (video index, replay keys) |
| `CloseJobs` | the verifier's close-proof jobs (`ops.ts`) on top of `Campaign`: precheck, fetch, send, retry, forgetting |
| `Keeper` | the keeper's tick (`keeper.ts`) with those jobs, a lagging ledger, failures, restarts, and everybody else |
| `Anchor` | the fiat anchor and the classic side of the network, as the client uses them (external) |
| `AnchorRamp` | a deposit and a withdrawal of the client (`anchor.ts`, `anchor-ramp.ts`), await by await, and their mock |
| `RampDialog` | the dialog over them (`TryRampDialog.tsx`), with the ramp's properties |
| `MockCampaign` | the in-memory API (`mock.ts`) over the records of `Campaign` |
| `Site` | what the pages compute, the phase they highlight and which buttons they enable, over either API |
| `SiteProperties` | what the pages promise their users |
| `Network` | Stellar accounts, sequence numbers, pending transactions, a lagging RPC node; what the contracts answer and do (external, but for the answers), on top of `Cliprail` |
| `Relayer` | the verifier's send queue (`chain.ts`) |
| `Prover`, `ProofService` | the verifier's identity prover (`aadhaar.ts`) and its proofs of pages (`zkfetch.ts`, `cache.ts`) |
| `Client` | the client library's writes (`tx.ts`, `chain.ts`) through those three |
| `Onboarding` | the join and register pages (`JoinFlow`, `HumanStep`, `RegisterClip`) over `Client` |
| `Bridge` | the CCTP scripts (`bridge.ts`, `fund-campaign.ts`) over `Client` and the relayer's account |
| `Delivery` | all of them together, with restarts and fairness, and their properties |
| `MCCampaign`, `MCTreasury`, `MCCliprail`, `MCKeeper`, `MCRamp`, `MCSite`, `MCDelivery` | model values and symmetry for TLC |
| `Sums` | finite sums as the community modules compute them, with the induction principles and the lemmas the proofs need |
| `CampaignInvariant` | the inductive invariant of a campaign |
| `CampaignProofs` | what each of its parts needs to survive a step, one preservation lemma per action, then the theorems; after them the same for the records of clips: weights, view ranges, proofs, survivors, bonds |
| `SolvencyProofs` | theorems about a campaign's money, and the refinement of `Escrow`, step by step |
| `CliprailProofs` | theorems about the registry, the shared index and the ledgers of all campaigns |
| `RampProofs` | theorems about the ramp |
| `DeliveryProofs` | theorems about verdicts, the relayer's numbers and the brand's funds |
| `KeeperProofs` | theorems about the keeper and its jobs, and that a campaign beside them is a campaign |
| `SiteProofs` | the books of the in-memory API, and theorems about what the pages show and offer, over either API |

### How `Campaign` corresponds to the code

| Variable | Storage |
|---|---|
| `now` | `env.ledger().timestamp()` |
| `campaign` | `Campaign{balance, settled_epochs, refunded}`; the parameters are the constants; the counters `participants` and `clips` only feed views |
| `joined` | `Participant` entries |
| `clip` | `Clip` entries, named by video: `VideoIndex` makes them one-to-one |
| `clipEpoch`, `partEpoch`, `epoch` | `ClipEpoch`, `ParticipantEpoch`, `Epoch`; a default record stands for an absent entry, status `"None"` for an absent `ClipEpoch` |
| `dispute` | `Dispute` entries, named by clip and epoch: `ActiveDispute` is written once and never removed |
| `usedProof` | `UsedProof` |
| `token` | the balances of the campaign's token |

Each action is one successful invocation; a failing one is reverted by the host and changes
nothing. Its guards are the early returns in the code, and the nested calls are part of it:
`SubmitProof` contains the cascade of settlements, the consumption of the proof, the weight change
in the participant's and the epoch's totals, the high-water mark and the liveness credit of the
previous epoch. `Close` is the tail of `resolve` and `finalize`.

Abstractions, each of which keeps the control:

* An attested response is a record of the video it is about, the views it shows and its time
  stamp, drawn from small sets; it is identified by those three, as the replay key is by the claim's
  identifier and its time stamp. That it carries the participant's code is left out of `Campaign`,
  which so allows more proofs than the code does; `Cliprail` has it.
* Whether somebody is a verified human is left open at `Campaign`'s `Join`; `Cliprail` has it.
* `Campaign` is one campaign. What several share is in `Cliprail` and `Treasury` (below).
* The brand is not one of the users; in the code it might also join its own campaign.
* The 128- and 64-bit widths are not modelled: `MAX_BUDGET`, `MAX_RATE` and `MAX_CAP_VIEWS` keep
  every product below 2^127. That unsigned subtraction never underflows is part of `TypeOK`.
* Evidence, titles, events and entry expiry are left out.

`Horizon`, the sets `Views`, `ProofTimes`, `Video`, `User`, `Challenger`, and `Wallet` (what
challengers can spend on bonds) are the only bounds, all of them constants.

### Several campaigns: `Humanity`, `Treasury`, `Cliprail`

`Campaign` follows one campaign through its epochs. The three modules about all of them abstract
the epochs and keep what campaigns share.

| Variable | Storage |
|---|---|
| `relayer`, `issuerKey` | the humanity contract's `Relayer` and the key in its `AadhaarConfig` |
| `walletOf`, `nullifierOf` | `Nullifier` and `Wallet` entries; a revocation removes only the second (`lib.rs` 178-186) |
| `router`, `count` | whether `Router` is set; `CampaignCount` |
| `campaign` | per id the parameters that matter here, the ledger, the bonds of its open disputes, `refunded` |
| `held` | the token contract's balances |
| `joined`, `postIndex`, `usedProof` | `Participant`, `VideoIndex` with the owner of its clip, `UsedProof` |

* `Treasury!PayOut` pays any amount to anybody at any time before the refund, clamped as `pay_out`
  clamps it; `ReturnBond` pays a bond to anybody. When an amount is due is `Campaign`'s matter; that
  no campaign pays for another must not depend on it.
* The router is external code: it takes up to the allowed amount or less, gives whatever it has
  and reports whatever it likes. `FundBySwap` is the check the contract makes of it.
* An identity proof verifies for exactly the campaign and the wallet it was made for; its
  nullifier is a function of the person and that campaign. The relayer's demo registrations have
  nullifiers of the wallet: there the relayer, not the contract, vouches for the person.
* `Cliprail!SubmitProof` is the part of `submit_proof` that reads and writes shared state.

### The verifier: `CloseJobs`, `Keeper`

The keeper's world is `Campaign`: its steps are the keeper's calls and those of everybody else, whose
set leaves out payouts, which do not concern the verifier.

| Variable | Code |
|---|---|
| `wall` | the service's clock; the ledger's `now` follows it by at most `MaxLag` |
| `jobs` | `Ops.jobs` (`ops.ts` 61-73): fetches, kept proof, done and failed marks, and the stage at which its promise is suspended |
| `spent` | fetches made by this process; nothing in the code reads it, it is what the limit is about |
| `late` | transactions sent whose polling was given up (`chain.ts` 141-149), or whose sender restarted |
| `tick`, `seen`, `todo` | the running `Keeper.campaign` call: where it is suspended, its `now`, its settled count; the disputes it read; those still to finalize |
| `ticked`, `faults` | auxiliary: whether a whole tick has happened at this instant; how many things failed or were late |

* Every `await` at which something else may happen separates two steps: reading the campaign, reading the
  disputes, sending a call, seeing it applied, reading the clips. What is between two awaits is one step.
* A call is simulated when it is sent and can fail again when it is applied. The clip's loop starts jobs
  without waiting for them, as the code does.
* A job's four parallel reads are one step. A caller of `/proof/submit` starts a job by `Read` at any
  moment, which also stands for the first step of a job the keeper has marked. `Keeper.busy` never differs
  from the jobs' running marks and is left out.
* A finalization or settlement of the keeper's that is applied after it was given up is the same as a
  stranger's, which `Others` allows at any time; a late proof is not, as it is a proof the job still keeps.
* A failed read of the campaign's own record, and one of several campaigns, end a tick alike; there is
  one campaign.
* What an attested text shows besides the views is whether the participant's code is in it: `HasCode`.
* `faults` counts failed reads, fetches and calls, texts without the code, restarts, given-up transactions,
  and instants that pass before the keeper has made a whole tick and the jobs rest. The promptness
  properties speak of behaviours without any; the others of up to `MaxFaults`. A call that fails
  because somebody else made it superfluous is no fault.

The bounds are `MaxLag`, `MaxLate`, `MaxFaults` and `Horizon`.

### The ramp: `Anchor`, `AnchorRamp`, `RampDialog`

| Variable | Code |
|---|---|
| `attempt` | a running `anchorDepositTRY` or `anchorWithdrawToTRY`: the step it has reported (`onStep`), the await it is at, its error, its quote, its polls |
| `dialog` | which dialog is open and the attempt it shows |
| `mode` | `API_MODE` |
| `wallet`, `trust`, `seq`, `pool`, `others` | the account's USDC, trustline, sequence number and its transactions at Horizon; what it sends elsewhere |
| `kyc`, `rate`, `anchorTx` | the anchor's side: SEP-12 status, rate, and the transaction of each attempt with what it got and gave |

Each await is a step; the user, the anchor, the network and the account's other programs act between any
two. Any call may fail, the wallet's prompt may be declined or left open, the dialog may be left
(the attempt goes on) or the page reloaded (it is gone). Horizon answers late: the submission of a
payment may time out and still be decided. The anchor is external: it is honest and gives what it quoted.
Bounds: two attempts of one user, `MaxPolls` polls before a deadline, one transaction elsewhere, one move of
the rate.

After a time-out or an unreachable anchor the dialog's button starts a new anchor transaction, and a new
payment: somebody who presses it may exchange twice, as the error says. What holds is that each payment is for a
withdrawal of its own and of the amount agreed, and that after "failed" a second attempt is safe.

### The pages over a campaign: `MockCampaign`, `Site`

`Site` has one variable of its own, `api`. Its operators are what the pages compute from the records the
API returns: the timeline's highlighted phase, an epoch's estimate, a clip's cell, the buttons' conditions.
`MockCampaign` writes the same records as `Campaign` by the rules of `mock.ts`, which differ: no tokens,
bonds or proofs; weights summed afresh; an epoch's spending is the sum of its pays; no proof settles an
epoch; growth is counted from the previous epoch's record or, if that was skipped, from the registration's
baseline, so that views of an epoch before are counted again; a challenge of weight 0 is accepted; a claim is refused if nothing
is due at once, so that a pay held back to the last unit can never be claimed; anybody may refund.

### Getting calls through: `Network` to `Delivery`

| Variable | Code |
|---|---|
| `seq`, `seen`, `pool`, `closed`, `dropped` | per account the ledger's sequence number, the one the RPC node reports, what is pending; outcomes not read yet; accounts that lost a transaction |
| `asked`, `queue`, `sending`, `lastSeq` | `Chain`'s requests, its promise chain, the local variables of `run`, its `lastSeq` |
| `entry`, `jobs` | `AadhaarProver.cache` and its queue |
| `page`, `saved`, `fetching` | a video's description; the kept proof and its age; `ProofService.inflight` |
| `press` | per account its last write: the call, where `runWrite` stands, how it ended |
| `shown`, `uses` | what the join and register pages last read; which buttons a person ever presses (bound) |
| `run`, `burns`, `savings`, `bridged`, `funding` | a run of `bridge.ts`; the burns broadcast; the USDC on the other chain; the state file; a run of `fund-campaign.ts` |

* A call is simulated with the contract's checks in the contract's order (`Refusal`); a call that would be refused
  is not sent; one that others made superfluous meanwhile lands and fails.
* A transaction is taken only with the number after the account's last, counting the pending ones, which the
  RPC node's report does not. `ReadSequence` is the relayer's way around that.
* Everything that can fail is one `Fault`: a lost answer to a send (before or after the network took it), a
  dropped transaction with those that follow it, congestion, a declined signature, a page closed, a prover or a wait
  that times out, a failed fetch, a reverted burn, a restart of the verifier.
* An answer "unsure" is what a user or script has when an answer was lost; no property speaks of it but that it
  is given when something may still happen.
* Proofs are young (under 120 seconds, `app.ts` 72) or old; that an old one is also under the contract's limit of
  600 is not needed.
* The pages read again when opened and after a success (`ApiProvider.tsx` 63-75, `hooks.ts` 97-114); the queries
  for "human" and "joined" have no interval, so after a failure that was none they stay stale.

Bounds: people or a brand, not both at once; in each behaviour every wallet has a fixed set of buttons it uses;
one main press of a user at a time; one campaign to join and one to fund; `MaxFaults` = 1 (with 2 the three invariants
hold as well, over 565,174 states). Not in the model: the rate limit (an answer 429 is a failed request), the limit of
two fetches at a time, the end of the campaign during onboarding, two scripts at the same time, amounts below a whole unit.

## The runs

Two workers each, under three minutes each. Deadlock is checked in `keeper` alone: there the keeper always ticks. Elsewhere a campaign
that has run past its horizon with everything claimed stops, and so do several of them, a user
with no attempt left (`ramp`), and people and brands who have what they wanted (`delivery`). The first five runs use module
`MCCampaign`.

| Run | Instance | Shows |
|---|---|---|
| `money` (`MCMoney.cfg`) | 2 clips of one participant capped below their sum, 2 epochs, views 0, 1 or 3, no disputes | `SolventToTheLast`, `WeightsAddUp`, `SurvivorsShareThePot`, `PotFixedOnceShared` |
| `cascade` (`MCCascade.cfg`) | 1 clip, 3 epochs of one second, clock skew 1, so that a closing proof settles up to two epochs | `SettledInOrder`, `EachEpochItsOwnProof`, `ViewsCountOnce`, and `KeepsItsPromise`: every step of the campaign is one of `Escrow` or none |
| `disputes` (`MCDisputes.cfg`) | 2 clips, 2 participants, a participant and the brand as challengers with one bond each, all dispute windows open, no holdback | `TypeOK`, `EveryWalletReconciles`, `TokenBacking`, `DisputesAgree`, `SettledIsFrozen` |
| `live` (`MCCampaignLive.cfg`) | 2 clips, the brand challenges, fairness | `EveryDisputeCloses`, `EveryEpochSettles` |
| `exclusion` (`MCExclusion.cfg`) | 2 clips, 2 participants, the brand challenges; a budget of 12 per epoch, which two clips of weight 2 do not use up at the ceiling of 2500 | violates `ExcludedWeightStaysWithClippers` |
| `treasury` (`MCTreasury`) | 2 campaigns in 2 tokens, one wallet, an untrusted router, payments up to more than a ledger | `TreasuryTypeOK`, `TokensBackCampaigns`, `SwapFundsTheBudget` |
| `people` (`MCCliprail`) | 2 campaigns for humans, a person with two interchangeable wallets, one post | `OnePersonOneWallet`, `UsedForGood`, `ParticipantsArePeople`, `OnePostOneCampaign` |
| `keeper` (`MCKeeper.cfg`) | 1 clip, 2 epochs, the brand as challenger, ledger up to 1 behind, 1 fault, 1 late transaction, 2 fetches | `FetchesWithinQuota`, `NoDoomedFetch`, `NothingSentInVain`, `EveryClipProven`, `SettledInTime`, no deadlock |
| `hopeless` (`MCHopeless.cfg`) | 1 clip, 1 epoch, texts with and without the code, 2 faults | violates `PermanentMeansHopeless` |
| `ramp` (`MCRamp`) | 1 user, 2 attempts with either mode, all his USDC in one exchange | `VerdictIsTrue`, `PaymentsMatch`, `AttemptsEnd` |
| `site` (`MCSite`) | 2 clips of one participant, 2 epochs, either API | `OffersAccepted`, `ButtonsFollowTheBar`, `EarnedIsPaid`, `OffersStand`, `EstimatesHold` |
| `delivery` (`MCDelivery`) | 2 wallets of one person, one video, 6 sets of habits; 2 burns of which the savings cover one, one submission of the keeper; 1 fault | `VerdictsHold`, `RelayerKeepsPace`, `FundingHolds`, `GetsThrough`, `BurnsArrive` |

Why the bounds are enough for what they show. The budget of 9 over two or three epochs with a
rate ceiling of 2500 per thousand makes every division leave a remainder and puts epochs on both
sides of the ceiling. The per-human cap of 4 (in `money`) lies below the sum of two full weights and above
one clip's, so it binds for some weights only. Views that fall (3, then 0 or 1) exercise the
high-water mark. Two epochs are the least with a holdback and a last epoch without one; three
let one closing proof settle two epochs. Two clips are the least for sums, shared caps and two
disputes open at a time. The timeline lengths leave one instant in every phase of the dispute.
`disputes` leaves the holdback out: what a holdback pays is in `money`, that it is paid once and in full in `cascade` (`KeepsItsPromise`), and the five properties of this run are proved for every holdback.
In `keeper`, two epochs are the least in which a proof waits for an earlier epoch's dispute, one fault at
a time reaches every failure branch and the restart, and the slack of 1 equals `MaxLag`: the
code allows 6 seconds for the same lag (`ops.ts` 10).
In `ramp`, two attempts are the least in which a payment could be taken for another's, and the second can
only be funded if the first took nothing. In `site`, one participant with two clips is the least for a cap shared by cells; the
settings put an epoch on either side of the rate ceiling. In `delivery`, two transactions of the relayer
(two registrations; a submission and a mint) are the least that overtake each other, two wallets of one person the least
for a nullifier in use, and two burns the least for a hash that is not the last one's; savings of
3 with an amount of 2 make the second burn fail, before it is sent or after.

Fairness (`FairSpec`): time passes (`WF(Tick)`), and `settle_epoch` and `finalize_dispute` are
eventually invoked once they stay possible. Neither needs a signature (`lib.rs` 490-494,
`dispute.rs` 125-139), and the keeper sends both on every tick. Nothing is assumed of participants,
challengers, the brand or the arbiter. In `RampDialog` the awaits of an attempt settle, except a wallet's prompt.
In `Delivery` the network, the RPC node, the relayer's loop, the prover, the attestor and a script that runs go
on (`WF`); of the users `GetsThrough` and `BurnsArrive` speak only if they persist: they sign what they press, press what their page
offers, put the code into the description, open a stale page again some day, and resume a burn whose hash they have
(`SF` where a button comes and goes). Nothing is fair about faults.

### What disagrees with the documentation

`README.md` 97 and 477 say that the weight of an excluded clip is redistributed to the other
clippers and never returns to the brand. The rate is capped (`epoch.rs` 134-144), so in an epoch that
is not over-subscribed the rate cannot rise, the epoch spends less, and the difference is carried
and finally refunded. The run `exclusion` shows it with two clippers in an epoch: one is excluded, the other's rate is at the
ceiling before and after, and the epoch will spend 5 instead of 10. (`ExcludedWeightStaysWithClippers` leaves out epochs where nobody else has weight, and allows for
rounding; with a ceiling that never binds TLC finds no violation in the same instance.)

`services/verifier/src/ops.ts` 17 says of the errors it calls permanent that retrying cannot help, even with a
new proof. One of them is `CodeNotFound`. If a post lacks the participant's code when the proof is fetched and
shows it again within the proof window, the contract would accept a new proof, but the job's failed mark makes
the verifier refuse, also to callers, until the job is forgotten. Anybody may still submit a proof
without the verifier. The run `hopeless` shows it.

Seen while modelling, without a run of its own:

* `MePanel.tsx` 63, `CampaignFormPage.tsx` 238 and `ArbiterPage.tsx` 85, 94 and 103 tell of bonds of both
  sides; `respond` posts none (`dispute.rs` 85-108, README 97 "responds for free").
* `clipper.ts` 42 says that a forfeited holdback is left out of the totals; that of a cell not yet claimed is counted.
* `HumanStep.tsx` 98 and 143 tell a user whose own first registration took effect after its answer was lost
  that the identity was used "with another wallet": the contract checks the nullifier before the wallet (`humanity/src/lib.rs` 111-116).
* After a dropped transaction all three attempts of the relayer's next request are refused: `lastSeq`, and then
  stepping past it, are ahead of the network (`chain.ts` 106-109). `RelayerKeepsPace` excepts that case.
* `--resume` is printed without `--amount` (`bridge.ts` 208), so the state file of a resumed run records the default
  amount; `fund-campaign.ts` 41 takes the budget from it as "whatever the last bridge run moved".
* A run resumed for a burn that is already minted fails and suggests to resume again; an attestation that is
  not there in time ends a run without that hint; `stellar.ts` takes `TRY_AGAIN_LATER` for sent.
* The bridge pays with the relayer's account unless told otherwise, beside a running verifier: either's number may be refused.
* `fund-campaign.ts` run again after a time-out can create a second campaign.
* A kept proof is served although the description was corrected since, for up to two minutes (`zkfetch.ts` 124-128).

## What is proved

`tlapm` checks every proof; nothing is assumed beyond the constants' assumptions, which are
`validate_params`, naming conventions, that videos and accounts are finitely many (an address and a video id have a
fixed width), that the amounts of an exchange are positive, and that the verifier's account is no clipper's and not the brand's
(`scripts/setup-accounts.sh` makes it one of its own).

| Theorem | Says |
|---|---|
| `CampaignProofs!SettledByNextProofs` | an epoch may be settled by the time proofs of the next one are accepted |
| `CampaignProofs!SpentWithinBudget` | an epoch spends at most its budget |
| `CampaignProofs!HeldWithinPay` | the held part, although rounded up, is at most the pay |
| `CampaignProofs!Invariance` | `IInv` is an invariant of `Spec` |
| `CampaignProofs!TypeCorrect` | `TypeOK`; so no subtraction goes below zero |
| `CampaignProofs!SettlesInOrder` | `SettledInOrder` |
| `CampaignProofs!DisputesCounted` | `DisputesAgree` |
| `CampaignProofs!SettledStaysFrozen` | `SettledIsFrozen` |
| `CampaignProofs!TotalsAreSums` | `WeightsAddUp` |
| `CampaignProofs!RecordInvariance` | `RInv` is an invariant of `Spec` |
| `CampaignProofs!NoViewPaidTwice` | `ViewsCountOnce` |
| `CampaignProofs!ProofsServeOnce` | `EachEpochItsOwnProof` |
| `CampaignProofs!BalanceAndBondsApart` | `TokenBacking` |
| `CampaignProofs!SharesOfSurvivors` | `SurvivorsShareThePot` |
| `CampaignProofs!PotStaysFixed` | `PotFixedOnceShared` |
| `SolvencyProofs!MoneyInvariance` | `MInv` is an invariant of `Spec` |
| `SolvencyProofs!WalletsReconcile` | `EveryWalletReconciles` |
| `SolvencyProofs!AlwaysSolvent` | `SolventToTheLast` |
| `SolvencyProofs!CampaignKeepsItsPromise` | `KeepsItsPromise`: every campaign is an `Escrow` |
| `CliprailProofs!PeopleHaveOneWallet` | `OnePersonOneWallet` |
| `CliprailProofs!NullifiersUsedForGood` | `UsedForGood` |
| `CliprailProofs!PostsInOneCampaign` | `OnePostOneCampaign` |
| `CliprailProofs!LedgersStayNatural` | `TreasuryTypeOK`; so no ledger or balance goes below zero |
| `CliprailProofs!ParticipantsVouchedFor` | `ParticipantsArePeople` |
| `CliprailProofs!LedgersBackedByTokens` | `TokensBackCampaigns` |
| `CliprailProofs!SwapsDeliver` | `SwapFundsTheBudget` |
| `RampProofs!RampInvariance` | `RampInv` is an invariant of `DialogSpec` |
| `RampProofs!VerdictsAreTrue` | `VerdictIsTrue` |
| `RampProofs!EveryPaymentMatches` | `PaymentsMatch` |
| `DeliveryProofs!VerdictsAlwaysHold` | `VerdictsHold` |
| `DeliveryProofs!RelayerAlwaysKeepsPace` | `RelayerKeepsPace` |
| `DeliveryProofs!FundingAlwaysHolds` | `FundingHolds` |
| `KeeperProofs!KeeperDrivesACampaign` | `KeeperSpec` implements `Spec` of `Campaign` |
| `KeeperProofs!QuotaIsKept` | `FetchesWithinQuota` |
| `KeeperProofs!NothingIsSentInVain` | `NothingSentInVain`, if `MaxLag <= Slack` |
| `KeeperProofs!NoFetchIsDoomed` | `NoDoomedFetch`, if `MaxLag <= Slack` and `MaxLag <= FutureSkew` |
| `KeeperProofs!EpochsAreSettledInTime` | `SettledInTime`, if `MaxLag <= Slack` and `Slack + 1 < ClaimGrace` |
| `SiteProofs!SiteInvariance` | `SiteInv` is an invariant of `SiteSpec` |
| `SiteProofs!EarnedWasPaid` | `EarnedIsPaid` |
| `SiteProofs!BarTellsThePhase` | `ButtonsFollowTheBar` |
| `SiteProofs!OffersAreGood` | `OffersStand` |
| `SiteProofs!EstimatesAreRight` | `EstimatesHold` |

*Sums.* `MapThenSumSet` is a fold, a recursive function over the subsets of a finite set. The library's induction
theorems cannot be used, as they take an operator; `Sums` has induction in another form: a nonempty set of natural numbers,
and of finite sets, has a least member (`LeastElement`, `LeastSet`), so a statement that fails somewhere fails
at a least set, whose fold is one summand more than that of a smaller one. From this follow that a sum is a
natural number, is monotone, is at least each summand, distributes over addition, and changes by the
difference when one summand changes. The properties write their sums with the community modules' operators; a lemma of each
shows that they are these.

*The inductive invariant.* `TypeOK` alone is not inductive: that `totalWeight - pe.weight` stays a
natural number depends on the total being the sum of the participants' capped weights, and each
raw weight on being the sum of its clips'. `IInv` therefore adds `SumsKept`, which says that the totals are
sums. That `open_disputes - 1` does not go below zero
depends on `DisputesAgree`; that `budget - spent` does not, on `SpentBounded`. `SettledIsFrozen` needs `SettledWhenDue`: an epoch is
settled only at or after `SettleAt`, when no proof (before `ProofEnd`) and no ruling (before
`SettleAt`, or with a dispute still open) can reach it. `EntriesBelong` says that a clip's epochs
have records only if the clip is registered. The cascade of `submit_proof`
is a recursive function over epochs; `CampaignProofs` shows by an explicit chain of epoch states that each of
its steps keeps what one settlement keeps.

*Records.* `RInv` holds beside `IInv`. `ViewsCountOnce` needs `RecordsOrdered`: a record is made only when its epoch
is over, and lies between the clip's baseline and its high-water mark, which the next record starts from.
`EachEpochItsOwnProof` compares cardinalities; a step adds a record only with a new proof. `SurvivorsShareThePot`
needs `FlagsAgree` (a post is alive in an epoch only after that epoch is settled, and shares only after its survivors are final), so that
the pay that was added to the denominator when the post was seen alive is its pay for ever. `PotFixedOnceShared` follows from the
dates: shares are paid from `HoldbackReleaseEnd` on, when no proof of the next epoch is accepted any more.

*Money.* `MInv` has three parts. `Computed`: a settled epoch's budget, rate, spent and held total are
still the values `settle` computed. `Accounted`: before the refund the balance is the budget less everything paid. `Reconciled`: each wallet.
Solvency needs two more lemmas, both about rounding. Within an epoch the claims fit what is spent: the sum of the rounded-down
pays is at most the spent amount, because capped weights add up to the total; the held parts are rounded up, and still the part paid at once and the
total held back together are at most spent; the shares of the pot are at most the pot. Between epochs, the carries
telescope: what is spent up to an epoch, plus its carry, plus the base budgets to come, is the budget. The balance is then the budget less
what is paid, and what is paid and owed is at most what is spent.

*The refinement.* `Escrow` has a pot, a set of claims each with an amount that is fixed at some
moment, and a rest. `SolvencyProofs` shows that each step of a campaign under `IInv /\ RInv /\ MInv` fixes claims, pays one, hands back the rest,
or does nothing to the mapped state. A settlement fixes pays, the passing of the release date fixes shares; that
all fixed amounts fit into the pot is the argument for solvency again, and that a fixed amount never changes is `SettledIsFrozen` with
`PotFixedOnceShared`.

*The contract with all campaigns.* `CliprailProofs` proves each invariant for the part of the state it
is about, and shows once (`StepsOfRegistry`, `StepsOfTreasury`) that a step of the contract is a step
of that part or leaves it alone. `OnePersonOneWallet` needs `NullifiersKept`: a registered wallet's
nullifier is used for that wallet, and every used nullifier was made for the campaign it is
used in. `OnePostOneCampaign` needs `ProofsFollowIndex`: a consumed proof agrees with the index, which
never changes once written. `ParticipantsArePeople` survives revocations because the nullifier's
entry does, and needs that only campaigns that exist are joined and that a campaign's parameters
never change.

`TokensBackCampaigns` follows each call: a token's holdings and the one ledger it is about move by the same amount, so the sum over the
campaigns in a token moves with the contract's balance.

*The ramp.* `RampInv` says of each attempt, its transaction at the anchor and the payments in flight with its memo, how they
fit (`Sound`): before the step that moves money nothing is paid; there is at most one payment under way, only for a withdrawal
the anchor still expects (or has let expire), of the amount agreed; from the exchange until the end the client and the anchor agree on account, amounts and
kind; a result shown is the completed transaction's, and a failure shown is of one refunded or expired. An attempt that was given up or
reloaded is in it too, as its payment can still be taken. `VerdictIsTrue` and `PaymentsMatch` follow.

*Verdicts.* `VInv` is the types and four facts. `Matched`: a pending transaction that somebody asks about is the one its asker
waits for, the only one, and carries the call it waits for; an unread outcome belongs to such a wait, and if it is good the
call took effect. `ToldTrue`: "done" is told of calls that took effect. `Queued` and `JobsOrdered`: a request is in the relayer's
queue once, and a job of the prover that is awaited is awaited by the one press that waits for it. Two lemmas carry most cases:
the contracts only grow (`ApplyGrows`: no call undoes what another did, so what took effect stays so), and a step that
keeps the waits and at most thins the network keeps `Matched`; a wait may end only with all trace of its asker in the network
(`WaitsKept`), which is what `Forsake` is for. `RelayerKeepsPace` adds `Numbered`: with its n-th retry the relayer's number is at least n further
than what the node reported at first, and is not ahead of the account unless a transaction was dropped. The account's next number never falls otherwise (`Ahead`),
whoever else sends with it.

*Funds.* `FundingInv`: where a run stands tells about its burn (`RunPlaced`); only attested burns are minted, or have a mint pending (`MintsAttested`);
the sum over the other chain, the way, the brand and the escrow is constant (`Books`). A mint moves one burn from what is away to the brand, whichever of several pending mints of it
lands first: the others are refused. That "ok" means minted comes from `Matched`, as a run's wait for its mint is one of those waits.
The campaign the proof is about is funded directly: no router is configured in `Delivery`. The theorems hold for every set of habits.

*The keeper.* Whatever the verifier does, the chain takes a step of `Campaign` or none (`ChainStep`), so `KeeperSpec` implements
`Spec` and `IInv` is at hand. `QuotaKept`: a job's own count of fetches is what was spent, unless it was forgotten, and a job is forgotten
so late that no fetch for its epoch can begin any more. `TickInv` is what a tick may rely on although it has read long ago: a dispute on its list can be finalized
unless it is closed (`TodoIsDue`); a dispute about a due epoch that it has not seen to be open is not open (`SeenIsTrue`), because
by then the ledger is past the time for challenges; the count of settled epochs it read is at most what it is now (`Follows`). With these a refused call can only be a
superfluous one.

`SettledInTime` is about runs without a fault, in which a whole tick goes by at every instant, by the time of that instant (`TickIsNow`). `Prompt` says what is
done by when: a whole tick leaves no dispute open about an epoch that is due (`DisputesClosed`; during it, every such dispute is still on its list, `TodoIsAll`), so the
tick of the next instant sees none, and settles the epoch (`EpochsSettled`). It leaves the loop early if somebody else has settled the epoch it is at; that is harmless
as only one epoch can be due and unsettled at a time, all earlier ones being settled an instant before (`AllInTurn`).

The hypotheses are on the settings. `MaxLag <= Slack`: `ops.ts` calls `SLACK` (6 s) what the ledger time lags the wall clock by; a ledger that lags further is outside what the keeper is
built for. `MaxLag <= FutureSkew`: the contract accepts proofs up to 600 s ahead (`proof.rs`), a hundred times that. `Slack + 1 < ClaimGrace`: the keeper ignores
a campaign from its refund date on, so it must have the time to settle the last epoch; the contract lets any `claim_grace >= epoch_len > 0` through, but an epoch that holds
a proof window the keeper can use at all is longer than `SLACK`, and every campaign in the repository has a grace of 60 s or more.

*The pages.* `SiteInv` is, over the contract, `IInv /\ RInv /\ MInv` and `Standing`: an excluded clip weighs nothing, only a
clip that stands is paid or alive. Over the in-memory API it is `MockInv`, which has to be proved from nothing, as `mock.ts` keeps its books otherwise: an excluded
clip keeps its weight and is left out of the sums (`MockSums`), an epoch spends what its clips' pays add up to (`MockComputed`), and no guard keeps
the balance from going negative. `MockAccounted` says that balance and payments make up the budget; that the balance is a natural number needs
solvency again. The pays of an epoch add up to at most what the contract would spend (`MockPaysFit`: capped weights add up to the
total, and each division rounds down), the shares to at most the pot, and the carries telescope.

`EarnedIsPaid` groups the payments by user. The pages compute the weight of a cell from its clips anew, where contract and mock have it on record; these agree
(`CellsAreShown`) because an excluded clip weighs nothing on the contract and counts nowhere on the mock. `OffersStand` holds as the figures of
a settled epoch stay (`SettledWhenDue`: no proof and no ruling comes that late), and the held pay of the survivors, by which a share is divided, is final when shares are offered.
`EstimatesHold`: once the epoch before is settled its carry is fixed, so the estimate is what `settle` computes from the same state. On the mock the
rounding makes the amount spent at most the one shown.

`ButtonsFollowTheBar` needs dates. `PhaseTimeline` highlights, of all phases under way, those of the next epoch included, the one that started last; that
it is the button's follows from the order of the windows. A closing proof's window begins when the content of the next epoch does, and the tie goes to the proof. A dispute
is opened from `ProofEnd` on (`DisputesDated`), so a response is offered in the challenge or the response phase, although the window
for it runs from the challenge. The windows may be empty: then no button of theirs is enabled.

*Only model-checked:* `EveryClipProven` of `Keeper`, which rests on how view counts, fetch quota and attested times work together within the
bounds of the run: others may send a proof dated up to `FutureSkew` ahead; `OffersAccepted` of `SiteProperties`, which speaks of `ENABLED`; and liveness. `ENABLED`
and liveness are out of the prover's reach.

## Not modelled

Left out, although it could be modelled: the limiter of two fetches and the rate limit (`limit.ts`: nothing depends on
their being exact), the path search of `swap.ts` (`Treasury` has what the contract makes of its result), the other writes of the client (the same
`runWrite`; `Campaign` has their calls), `priceTRY`, which moves nothing, and SEP-24's `startInteractive`, which nothing calls.

Left out for good: the pairing check of `groth16.rs` and the signature recovery of
`reclaim-verify` (cryptography, taken as sound), the admin setters of cliprail (attestors, owners, platforms,
configuration read by later calls), generated contract clients, operator scripts,
the web application's presentation, forms and wallet connection, and storage expiry (every state-changing path extends the
entries it reads).
