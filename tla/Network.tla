------------------------------ MODULE Network ------------------------------
(***************************************************************************)
(* The Stellar network as the programs use it.  Every account numbers its  *)
(* transactions; the network takes a transaction only with the number that *)
(* follows the account's last, counting those still pending.  A program    *)
(* asks an RPC node for the last number, which lags behind the ledger and  *)
(* never counts what is pending.                                           *)
(*                                                                         *)
(* A transaction carries one contract call.  It is simulated first, and a  *)
(* call the contract would refuse is never sent; one that others made      *)
(* superfluous meanwhile is applied and fails.  The network may drop a     *)
(* pending transaction, with those of its account that follow it.          *)
(***************************************************************************)
EXTENDS Cliprail, Sequences

CONSTANT MaxFaults  \* bound: how often something fails, in the network or beside it

\* The verifier's account is nobody else's (scripts/setup-accounts.sh makes it one
\* of its own).
ASSUME NetworkAssumption ==
    /\ MaxFaults \in Nat
    /\ Brand # Nobody /\ Nobody \notin Relayer
    /\ Relayer \cap (Wallet \cup {Brand}) = {}

VARIABLES
    seq,      \* per account: the number of its last transaction in the ledger
    seen,     \* per account: the number the RPC node reports
    pool,     \* per account: its pending transactions, in order
    closed,   \* outcomes nobody has read yet
    dropped,  \* accounts that had a transaction dropped
    minted,   \* burns on the other chain whose USDC was minted here
    trusting, \* whether the brand's account has a trustline for USDC
    faults

contract == <<cliprailVars, minted, trusting>>
network == <<seq, seen, pool, closed, dropped>>

Sender == Wallet \cup Relayer \cup {Brand}
None == "none"
Home == 1  \* the campaign that people join

NetworkInit ==
    /\ seq = [a \in Sender |-> 0]
    /\ seen = [a \in Sender |-> 0]
    /\ pool = [a \in Sender |-> <<>>]
    /\ closed = {}
    /\ dropped = {}
    /\ minted = {}
    /\ faults = 0

Fault == faults < MaxFaults /\ faults' = faults + 1

\* A contract call: the function, the account that calls, and its argument.
Call(fn, by, arg) == [fn |-> fn, by |-> by, arg |-> arg]

-----------------------------------------------------------------------------
(***************************************************************************)
(* What the contracts answer: the first check that fails.                  *)
(***************************************************************************)
RecordRefusal(n, w) ==
    IF walletOf[Home][n] # Nobody THEN "NullifierUsed"
    ELSE IF IsVerified(Home, w) THEN "WalletRegistered"
    ELSE None

JoinRefusal(w) ==
    IF w \in joined[Home] THEN "AlreadyJoined"
    ELSE IF ~IsVerified(Home, w) THEN "NotHuman"
    ELSE None

ClipRefusal(w, p) ==
    IF w \notin joined[Home] THEN "NotJoined"
    ELSE IF Indexed(p.video, Home) THEN "VideoAlreadyRegistered"
    ELSE IF p.owner # w THEN "CodeNotFound"
    ELSE None

BudgetRefusal(o) ==
    IF o.budget > held[Brand][o.token] THEN "insufficient_balance" ELSE None

MintRefusal(b) ==
    IF b.burn \in minted THEN "NonceUsed"
    ELSE IF ~trusting THEN "TrustlineMissing"
    ELSE None

Refusal(c) ==
    CASE c.fn = "register" -> RecordRefusal(DemoNullifier(Home, c.arg), c.arg)
      [] c.fn = "register_zk" -> RecordRefusal(ProofNullifier(c.arg), c.by)
      [] c.fn = "join" -> JoinRefusal(c.by)
      [] c.fn = "register_clip" -> ClipRefusal(c.by, c.arg)
      [] c.fn = "create_campaign" -> BudgetRefusal(c.arg)
      [] c.fn = "mint_and_forward" -> MintRefusal(c.arg)
      [] OTHER -> None

\* The forwarder mints what was burned to the recipient in the hook data.
Mint(b) ==
    /\ minted' = minted \cup {b.burn}
    /\ held' = [held EXCEPT ![Brand][b.token] = @ + b.amount]
    /\ UNCHANGED <<now, registry, router, count, campaign, posts, trusting>>

\* The call takes effect.  The keeper's calls are about other state.
Apply(c) ==
    \/ /\ c.fn = "register"
       /\ Register(c.by, Home, c.arg)
       /\ UNCHANGED <<now, treasury, posts, minted, trusting>>
    \/ /\ c.fn = "register_zk"
       /\ RegisterZk(c.arg, Home, c.by)
       /\ UNCHANGED <<now, treasury, posts, minted, trusting>>
    \/ c.fn = "join" /\ Join(Home, c.by) /\ UNCHANGED <<minted, trusting>>
    \/ c.fn = "register_clip" /\ RegisterClip(Home, c.by, c.arg) /\ UNCHANGED <<minted, trusting>>
    \/ c.fn = "create_campaign" /\ Create(c.arg) /\ UNCHANGED <<minted, trusting>>
    \/ c.fn = "mint_and_forward" /\ Mint(c.arg)
    \/ c.fn = "submit_proof" /\ UNCHANGED contract

-----------------------------------------------------------------------------
\* The number a transaction must follow to be taken.
Upcoming(a) == seq[a] + Len(pool[a])

\* Whether somebody still waits for a transaction of a is the transaction's asker.
Sends(a, c, asker) ==
    pool' = [pool EXCEPT ![a] = Append(@, [call |-> c, asker |-> asker])]

Pending(a, asker) == \E i \in DOMAIN pool[a] : pool[a][i].asker = asker
Outcomes(a, asker) == {o \in closed : o.from = a /\ o.asker = asker}

\* The asker no longer waits, whatever becomes of its transaction.
Forsake(a, asker) ==
    /\ pool' = [pool EXCEPT ![a] =
                  [i \in DOMAIN @ |-> IF @[i].asker = asker
                                      THEN [@[i] EXCEPT !.asker = Nobody] ELSE @[i]]]
    /\ closed' = closed \ Outcomes(a, asker)

Land(a) ==
    LET tx == Head(pool[a])
        ok == Refusal(tx.call) = None
    IN  /\ pool[a] # <<>>
        /\ seq' = [seq EXCEPT ![a] = @ + 1]
        /\ pool' = [pool EXCEPT ![a] = Tail(@)]
        /\ closed' = IF tx.asker = Nobody THEN closed
                     ELSE closed \cup {[from |-> a, asker |-> tx.asker, ok |-> ok]}
        /\ IF ok THEN Apply(tx.call) ELSE UNCHANGED contract
        /\ UNCHANGED <<seen, dropped, faults>>

Drop(a) ==
    /\ pool[a] # <<>>
    /\ Fault
    /\ \E i \in DOMAIN pool[a] : pool' = [pool EXCEPT ![a] = SubSeq(@, 1, i - 1)]
    /\ dropped' = dropped \cup {a}
    /\ UNCHANGED <<contract, seq, seen, closed>>

CatchUp(a) ==
    /\ seen[a] # seq[a]
    /\ seen' = [seen EXCEPT ![a] = seq[a]]
    /\ UNCHANGED <<contract, seq, pool, closed, dropped, faults>>

NetworkNext == \E a \in Sender : Land(a) \/ Drop(a) \/ CatchUp(a)

=============================================================================
