----------------------------- MODULE AnchorRamp -----------------------------
(***************************************************************************)
(* The client's TRY ramp: anchorDepositTRY and anchorWithdrawToTRY, call   *)
(* by call.  Between two awaits the user, the anchor, the network and      *)
(* other attempts of the same user do what they like.  Every await may     *)
(* throw; the attempt then ends where it is, its step still shown.         *)
(***************************************************************************)
EXTENDS Anchor, Sequences

CONSTANTS
    Amount,    \* amounts of an exchange
    MaxPolls   \* bound: polls until the deadline of a wait

ASSUME RampAssumption == Amount \subseteq Nat \ {0} /\ MaxPolls \in Nat

VARIABLES
    mode,    \* API_MODE, of the build: "chain" or, for offline work, "mock"
    attempt  \* the attempts, with what the client knows in each

rampVars == <<ledger, anchorVars, mode, attempt>>

RampStep ==
    {"discover", "trustline", "auth", "kyc", "quote", "deposit",
     "bank_transfer", "withdraw", "payment", "waiting", "done"}

\* The errors whose difference the properties tell; "failed" is any other.
RampError == {"none", "failed", "tx_failed", "timeout", "pending_trust"}

\* Which await of the step it is at: a wallet prompt, a submission, or a call.
At == {"idle", "call", "balance", "sign", "sent", "post", "put", "reread",
       "poll", "ended", "gone"}

Idle == [at |-> "idle", step |-> "discover", err |-> "none", kind |-> "deposit",
         user |-> NoTransfer.user, amount |-> 0, quote |-> 0, polls |-> 0,
         seq |-> 0, shown |-> 0]

RampInit ==
    /\ AnchorInit
    /\ mode \in {"chain", "mock"}
    /\ attempt = [i \in Attempt |-> Idle]

A(i) == attempt[i]
Awaiting(i) == A(i).at \notin {"idle", "ended", "gone"}
At_(i, step, at) == A(i).step = step /\ A(i).at = at

Step(i, step, at) ==
    attempt' = [attempt EXCEPT ![i].step = step, ![i].at = at,
                               ![i].polls = 0, ![i].seq = 0]

\* A throw; the step stays.
Throws(i, err) ==
    attempt' = [attempt EXCEPT ![i].at = "ended", ![i].err = err, ![i].quote = 0,
                               ![i].polls = 0, ![i].seq = 0]

\* Any call may fail, and the user may reject what he is asked to sign.
CallFails(i) ==
    /\ mode = "chain" /\ Awaiting(i) /\ A(i).at # "sent"
    /\ Throws(i, "failed")
    /\ UNCHANGED <<ledger, anchorVars, mode>>

-----------------------------------------------------------------------------
\* What discoverAnchor can find: only the first lets the ramp go on.
Published == {"complete", "unreadable", "other_network", "no_transfer_server", "no_asset"}

Discover(i, toml) ==
    /\ At_(i, "discover", "call")
    /\ IF toml # "complete" THEN Throws(i, "failed")
       ELSE IF A(i).kind = "deposit" THEN Step(i, "trustline", "call")
       ELSE Step(i, "discover", "balance")
    /\ UNCHANGED <<ledger, anchorVars>>

Covers(u, amount) == trust[u] /\ wallet[u] >= amount

\* A withdrawal needs a trustline that holds enough.
CheckBalance(i) ==
    /\ At_(i, "discover", "balance")
    /\ IF Covers(A(i).user, A(i).amount)
       THEN Step(i, "auth", "call") ELSE Throws(i, "failed")
    /\ UNCHANGED <<ledger, anchorVars>>

\* The account is loaded and a transaction for its next sequence number is built.
Builds(i) ==
    attempt' = [attempt EXCEPT ![i].at = "sign", ![i].seq = seq[A(i).user] + 1]

EnsureTrustline(i) ==
    /\ At_(i, "trustline", "call")
    /\ IF trust[A(i).user] THEN Step(i, "auth", "call") ELSE Builds(i)
    /\ UNCHANGED <<ledger, anchorVars>>

\* The challenge is fetched and verified, signed, and exchanged for a token.
Challenge(i) ==
    /\ At_(i, "auth", "call")
    /\ Step(i, "auth", "sign")
    /\ UNCHANGED <<ledger, anchorVars>>

SignIn(i) ==
    /\ A(i).step = "auth"
    /\ \/ A(i).at = "sign" /\ Step(i, "auth", "post")
       \/ A(i).at = "post" /\ Step(i, "kyc", "call")
    /\ UNCHANGED <<ledger, anchorVars>>

-----------------------------------------------------------------------------
KycPassed(i, status) ==
    IF status = "REJECTED" THEN Throws(i, "failed") ELSE Step(i, "quote", "call")

\* The first read may fail: then the fields are sent as if none were accepted.
ReadKyc(i) ==
    LET status == kyc[A(i).user]
    IN  /\ A(i).step = "kyc"
        /\ \/ A(i).at = "call" /\ status = "ACCEPTED" /\ KycPassed(i, status)
           \/ A(i).at = "call" /\ Step(i, "kyc", "put")
           \/ A(i).at = "reread" /\ KycPassed(i, status)
        /\ UNCHANGED <<ledger, anchorVars>>

\* The answer to the fields sent may get lost.
PutKyc(i) ==
    /\ At_(i, "kyc", "put")
    /\ \E status \in CustomerStatus \ {"NEEDS_INFO"} :
          kyc' = [kyc EXCEPT ![A(i).user] = IF @ = "ACCEPTED" THEN @ ELSE status]
    /\ Step(i, "kyc", "reread") \/ Throws(i, "failed")
    /\ UNCHANGED <<ledger, rate, anchorTx>>

Bought(kind, amount) == IF kind = "deposit" THEN amount \div rate ELSE amount * rate

\* A firm quote at the present rate.
Quote(i) ==
    /\ At_(i, "quote", "call")
    /\ attempt' = [attempt EXCEPT ![i].at = "call", ![i].step = A(i).kind,
                     ![i].quote = Bought(A(i).kind, A(i).amount)]
    /\ UNCHANGED <<ledger, anchorVars>>

\* What the anchor is asked to pay out: it is bound to the quote it is named.
Quoted(i) == A(i).quote

\* The anchor opens a transaction for the quote it is named.
Created(i) ==
    /\ kyc[A(i).user] = "ACCEPTED"
    /\ anchorTx' = [anchorTx EXCEPT ![i] =
          [NoTransfer EXCEPT !.status = "pending_user_transfer_start",
             !.kind = A(i).kind, !.user = A(i).user, !.sell = A(i).amount,
             !.buy = Quoted(i)]]
    /\ UNCHANGED <<ledger, kyc, rate>>

\* The answer may get lost.
DepositExchange(i) ==
    /\ At_(i, "deposit", "call")
    /\ Created(i)
    /\ Step(i, "bank_transfer", "call") \/ Throws(i, "failed")

WithdrawExchange(i) ==
    /\ At_(i, "withdraw", "call")
    /\ Created(i)
    /\ Step(i, "withdraw", "poll") \/ Throws(i, "failed")

\* The anchor refuses: it does not know the customer, or the transfer comes too late.
Refused(i) ==
    /\ \/ At_(i, A(i).kind, "call") /\ kyc[A(i).user] # "ACCEPTED"
       \/ /\ At_(i, "bank_transfer", "call")
          /\ anchorTx[i].status # "pending_user_transfer_start"
    /\ Throws(i, "failed")
    /\ UNCHANGED <<ledger, anchorVars>>

\* The sandbox's bank transfer arrives; again the answer may get lost.
BankTransfer(i) ==
    /\ At_(i, "bank_transfer", "call")
    /\ anchorTx[i].status = "pending_user_transfer_start"
    /\ anchorTx' = [anchorTx EXCEPT ![i].status = "pending_anchor",
                                   ![i].got = anchorTx[i].sell]
    /\ Step(i, "waiting", "call") \/ Throws(i, "failed")
    /\ UNCHANGED <<ledger, kyc, rate>>

-----------------------------------------------------------------------------
MutPolls(i, until) ==  \* no deadline
    /\ anchorTx[i].status \notin Final \cup until
    /\ A(i).polls < MaxPolls
    /\ attempt' = [attempt EXCEPT ![i].polls = @ + 1]

\* One poll of waitForTransaction: a status it stops at is handed on, the others
\* are asked for again until the deadline.
Polls(i, until) ==
    LET status == anchorTx[i].status
    IN  /\ status \notin Final \cup until
        /\ IF A(i).polls < MaxPolls
           THEN attempt' = [attempt EXCEPT ![i].polls = @ + 1]
           ELSE Throws(i, "timeout")

\* The anchor waits for the payment.
ReadyForPayment(i) == anchorTx[i].status = "pending_user_transfer_start"

AwaitReady(i) ==
    /\ At_(i, "withdraw", "poll")
    /\ \/ Polls(i, {"pending_user_transfer_start"})
       \/ /\ anchorTx[i].status \in Final \cup {"pending_user_transfer_start"}
          /\ IF ReadyForPayment(i) THEN Step(i, "payment", "call")
             ELSE Throws(i, "tx_failed")
    /\ UNCHANGED <<ledger, anchorVars>>

BuildPayment(i) ==
    /\ At_(i, "payment", "call")
    /\ Builds(i)
    /\ UNCHANGED <<ledger, anchorVars>>

MutPaid(i) == A(i).quote  \* pays what is bought

\* The amount the user asked for, not one the anchor's answer names.
Paid(i) == A(i).amount

Tx(i) == [op |-> IF A(i).step = "trustline" THEN "trust" ELSE "pay",
          user |-> A(i).user, seq |-> A(i).seq, memo |-> i,
          amount |-> IF A(i).step = "trustline" THEN 0 ELSE Paid(i)]

\* The wallet signs and Horizon gets the transaction.
Submit(i) ==
    /\ A(i).at = "sign" /\ A(i).step # "auth"
    /\ pool' = pool \cup {Tx(i)}
    /\ attempt' = [attempt EXCEPT ![i].at = "sent"]
    /\ UNCHANGED <<wallet, trust, seq, others, anchorVars>>

\* Horizon answers, or it does not and the client gives up on a transaction that
\* may still get into a ledger.
Answered(i) ==
    /\ A(i).at = "sent"
    /\ \/ /\ Decided(Tx(i), TRUE)
          /\ IF A(i).step = "trustline" THEN Step(i, "auth", "call")
             ELSE Step(i, "waiting", "call")
       \/ Decided(Tx(i), FALSE) /\ Throws(i, "failed")

GivesUp(i) ==
    /\ A(i).at = "sent"
    /\ Throws(i, "failed")
    /\ UNCHANGED <<ledger, anchorVars>>

Completed(i) == anchorTx[i].status = "completed"

\* A deposit also stops to wait when only the trustline is missing.
Until(i) == IF A(i).kind = "deposit" THEN {"completed", "pending_trust"} ELSE {}

\* The result shows the anchor's amount, or else the quote's.
AwaitCompletion(i) ==
    /\ At_(i, "waiting", "call")
    /\ \/ Polls(i, Until(i))
       \/ /\ anchorTx[i].status \in Final \cup Until(i)
          /\ IF Completed(i)
             THEN \E amount \in {anchorTx[i].buy, A(i).quote} :
                    attempt' = [attempt EXCEPT ![i].at = "ended", ![i].step = "done",
                                  ![i].shown = amount]
             ELSE Throws(i, IF anchorTx[i].status = "pending_trust"
                            THEN "pending_trust" ELSE "tx_failed")
    /\ UNCHANGED <<ledger, anchorVars>>

-----------------------------------------------------------------------------
ChainNext(i) ==
    \/ \E toml \in Published : Discover(i, toml)
    \/ CheckBalance(i) \/ EnsureTrustline(i) \/ Challenge(i) \/ SignIn(i)
    \/ ReadKyc(i) \/ PutKyc(i) \/ Quote(i)
    \/ DepositExchange(i) \/ WithdrawExchange(i) \/ Refused(i) \/ BankTransfer(i)
    \/ AwaitReady(i) \/ BuildPayment(i) \/ Submit(i) \/ Answered(i) \/ GivesUp(i)
    \/ AwaitCompletion(i)

\* The offline ramp shows the same steps, a delay each, and then invents the rest.
MockSteps(kind) ==
    IF kind = "deposit"
    THEN <<"discover", "trustline", "auth", "kyc", "quote", "deposit",
           "bank_transfer", "waiting">>
    ELSE <<"discover", "auth", "kyc", "quote", "withdraw", "payment", "waiting">>

MockStep(i) ==
    LET steps == MockSteps(A(i).kind)
    IN  /\ Awaiting(i)
        /\ \E n \in 1 .. Len(steps) - 1 :
              /\ steps[n] = A(i).step
              /\ Step(i, steps[n + 1], "call")
        /\ UNCHANGED <<ledger, anchorVars>>

MockDone(i) ==
    LET out == Bought(A(i).kind, A(i).amount)
    IN  /\ At_(i, "waiting", "call")
        /\ anchorTx' = [anchorTx EXCEPT ![i] =
              [NoTransfer EXCEPT !.status = "completed", !.kind = A(i).kind,
                 !.user = A(i).user, !.sell = A(i).amount, !.buy = out, !.gave = out]]
        /\ attempt' = [attempt EXCEPT ![i].at = "ended", ![i].step = "done",
                         ![i].quote = out, ![i].shown = out]
        /\ UNCHANGED <<ledger, kyc, rate>>

\* What an attempt does when nothing fails on the way.
RampNext(i) ==
    /\ \/ mode = "chain" /\ ChainNext(i)
       \/ mode = "mock" /\ (MockStep(i) \/ MockDone(i))
    /\ UNCHANGED mode

=============================================================================
