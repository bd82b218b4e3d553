------------------------------- MODULE Anchor -------------------------------
(***************************************************************************)
(* What the TRY ramp of the web application talks to, modelled from how    *)
(* the client uses it: the classic side of the Stellar network, where a    *)
(* transaction needs the account's next sequence number and may be decided *)
(* long after the client gave up on it, and an honest SEP-6/12/38 anchor.  *)
(* There is at most one anchor transaction for each attempt of a user.     *)
(***************************************************************************)
EXTENDS Integers, FiniteSets

CONSTANTS
    User,
    Attempt,    \* numbers of the attempts, 1 .. n
    Funds,      \* USDC in every wallet at the start
    MaxOther    \* bound: other transactions of an account

ASSUME AnchorAssumption ==
    /\ Attempt = 1 .. Cardinality(Attempt)
    /\ Funds \in Nat
    /\ MaxOther \in Nat

VARIABLES
    wallet,   \* USDC of an account
    trust,    \* does it have the USDC trustline
    seq,      \* its sequence number
    pool,     \* transactions at Horizon that are not decided yet
    others,   \* transactions an account made elsewhere
    kyc,      \* SEP-12 status of an account
    rate,     \* TRY for one USDC
    anchorTx  \* the anchor's transaction of an attempt

ledger == <<wallet, trust, seq, pool, others>>
anchorVars == <<kyc, rate, anchorTx>>

Kind == {"deposit", "withdraw"}

CustomerStatus == {"ACCEPTED", "PROCESSING", "NEEDS_INFO", "REJECTED"}

\* The statuses an exchange goes through; "none" before it is created.
TransferStatus ==
    {"none", "pending_user_transfer_start", "pending_anchor", "pending_trust",
     "completed", "refunded", "expired"}

\* Statuses the client takes for the last of a transaction.
Final == {"completed", "refunded", "expired"}

NoTransfer == [status |-> "none", kind |-> "deposit", user |-> CHOOSE u \in User : TRUE,
               sell |-> 0, buy |-> 0, got |-> 0, gave |-> 0]

AnchorInit ==
    /\ wallet = [u \in User |-> Funds]
    /\ trust = [u \in User |-> Funds > 0]
    /\ seq = [u \in User |-> 0]
    /\ pool = {}
    /\ others = [u \in User |-> 0]
    /\ kyc = [u \in User |-> "NEEDS_INFO"]
    /\ rate = 1
    /\ anchorTx = [i \in Attempt |-> NoTransfer]

-----------------------------------------------------------------------------
\* A classic transaction: a trustline, or a payment to the anchor with the memo
\* of an attempt.
Payable(tx) == trust[tx.user] /\ wallet[tx.user] >= tx.amount

Decided(tx, ok) ==
    /\ tx \in pool
    /\ pool' = pool \ {tx}
    /\ ok <=> tx.seq = seq[tx.user] + 1 /\ (tx.op = "pay" => Payable(tx))
    /\ seq' = [seq EXCEPT ![tx.user] = IF tx.seq = @ + 1 THEN @ + 1 ELSE @]
    /\ IF ok /\ tx.op = "pay"
       THEN /\ wallet' = [wallet EXCEPT ![tx.user] = @ - tx.amount]
            /\ anchorTx' = [anchorTx EXCEPT ![tx.memo].got = @ + tx.amount]
            /\ UNCHANGED trust
       ELSE /\ trust' = [trust EXCEPT ![tx.user] = @ \/ (ok /\ tx.op = "trust")]
            /\ UNCHANGED <<wallet, anchorTx>>
    /\ UNCHANGED <<others, kyc, rate>>

\* Its time bound passes before it gets into a ledger.
TimedOut(tx) ==
    /\ tx \in pool
    /\ pool' = pool \ {tx}
    /\ UNCHANGED <<wallet, trust, seq, others, anchorVars>>

\* The account is used elsewhere, perhaps to give up an empty trustline.
OtherTx(u) ==
    /\ others[u] < MaxOther
    /\ others' = [others EXCEPT ![u] = @ + 1]
    /\ seq' = [seq EXCEPT ![u] = @ + 1]
    /\ \E keep \in BOOLEAN :
          trust' = [trust EXCEPT ![u] = @ /\ (keep \/ wallet[u] > 0)]
    /\ UNCHANGED <<wallet, pool, anchorVars>>

-----------------------------------------------------------------------------
RateMoves ==
    /\ rate = 1 /\ rate' = 2
    /\ UNCHANGED <<ledger, kyc, anchorTx>>

Goes(i, status) == anchorTx' = [anchorTx EXCEPT ![i].status = status]

\* The anchor finds the payment of a withdrawal by its memo.
Credit(i) ==
    /\ anchorTx[i].status = "pending_user_transfer_start"
    /\ anchorTx[i].kind = "withdraw" /\ anchorTx[i].got = anchorTx[i].sell
    /\ Goes(i, "pending_anchor")
    /\ UNCHANGED <<ledger, kyc, rate>>

\* It pays out what was agreed: TRY at the bank, USDC if there is a trustline.
PayOut(i) ==
    LET t == anchorTx[i]
    IN  /\ t.status \in {"pending_anchor", "pending_trust"}
        /\ t.kind = "deposit" => trust[t.user]
        /\ anchorTx' = [anchorTx EXCEPT ![i].status = "completed", ![i].gave = t.buy]
        /\ wallet' = [wallet EXCEPT ![t.user] =
                        IF t.kind = "deposit" THEN @ + t.buy ELSE @]
        /\ UNCHANGED <<trust, seq, pool, others, kyc, rate>>

NeedsTrust(i) ==
    /\ anchorTx[i].status = "pending_anchor" /\ anchorTx[i].kind = "deposit"
    /\ ~trust[anchorTx[i].user]
    /\ Goes(i, "pending_trust")
    /\ UNCHANGED <<ledger, kyc, rate>>

\* It gives back what it got, of a transaction it refuses or had given up.
GiveBack(i) ==
    LET t == anchorTx[i]
        refused == t.status = "pending_anchor"
    IN  /\ t.got > 0
        /\ refused \/ t.status \in {"expired", "refunded"}
        /\ t.kind = "withdraw" => trust[t.user]
        /\ anchorTx' = [anchorTx EXCEPT ![i].got = 0,
                          ![i].status = IF refused THEN "refunded" ELSE @]
        /\ wallet' = [wallet EXCEPT ![t.user] =
                        IF t.kind = "withdraw" THEN @ + t.got ELSE @]
        /\ UNCHANGED <<trust, seq, pool, others, kyc, rate>>

Expire(i) ==
    /\ anchorTx[i].status = "pending_user_transfer_start"
    /\ anchorTx[i].got = 0
    /\ Goes(i, "expired")
    /\ UNCHANGED <<ledger, kyc, rate>>

AnchorNext(i) ==
    \/ Credit(i) \/ PayOut(i) \/ NeedsTrust(i) \/ GiveBack(i) \/ Expire(i)

=============================================================================
