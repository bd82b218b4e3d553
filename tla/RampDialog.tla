----------------------------- MODULE RampDialog -----------------------------
(***************************************************************************)
(* The dialog "Deposit TRY" or "Withdraw to TRY" and what its user sees.   *)
(* It cannot be closed while its attempt runs, but the page can be left,   *)
(* where the attempt goes on, or reloaded, where it is gone.  After an     *)
(* error the same button starts all over with a new anchor transaction.    *)
(***************************************************************************)
EXTENDS AnchorRamp

VARIABLE dialog  \* what is open: the kind, and the attempt it shows or 0

dialogVars == <<rampVars, dialog>>

NoDialog == [kind |-> "none", shows |-> 0]

MutSteps(kind) ==  \* the transfer listed after the waiting
    IF kind = "deposit"
    THEN <<"discover", "trustline", "auth", "kyc", "quote", "deposit",
           "waiting", "bank_transfer", "done">>
    ELSE <<"discover", "auth", "kyc", "quote", "withdraw", "payment", "waiting", "done">>

\* The list of steps the dialog shows.
Steps(kind) ==
    IF kind = "deposit"
    THEN <<"discover", "trustline", "auth", "kyc", "quote", "deposit",
           "bank_transfer", "waiting", "done">>
    ELSE <<"discover", "auth", "kyc", "quote", "withdraw", "payment", "waiting", "done">>

DialogInit == RampInit /\ dialog = NoDialog

Running == dialog.shows # 0 /\ Awaiting(dialog.shows)
HasResult == dialog.shows # 0 /\ A(dialog.shows).step = "done"

\* The entry of the list that is marked active, or wrong.
StepIdx(i) == CHOOSE n \in 1 .. Len(Steps(A(i).kind)) : Steps(A(i).kind)[n] = A(i).step

Result(i) == [amount |-> A(i).shown, user |-> A(i).user]

Open(kind) ==
    /\ dialog = NoDialog
    /\ dialog' = [kind |-> kind, shows |-> 0]
    /\ UNCHANGED rampVars

\* Run, and run again after an error.
Run(i, u, amount) ==
    /\ dialog.kind # "none" /\ ~Running /\ ~HasResult
    /\ A(i).at = "idle" /\ \A j \in 1 .. i - 1 : A(j).at # "idle"
    /\ attempt' = [attempt EXCEPT ![i] =
          [Idle EXCEPT !.at = "call", !.kind = dialog.kind, !.user = u, !.amount = amount]]
    /\ dialog' = [dialog EXCEPT !.shows = i]
    /\ UNCHANGED <<ledger, anchorVars, mode>>

Close ==
    /\ dialog # NoDialog /\ ~Running
    /\ dialog' = NoDialog
    /\ UNCHANGED rampVars

\* Another page of the application: the promise goes on.
LeavePage ==
    /\ Running
    /\ dialog' = NoDialog
    /\ UNCHANGED rampVars

\* The tab is closed or reloaded.
Reload ==
    /\ \E i \in Attempt : Awaiting(i)
    /\ attempt' = [i \in Attempt |->
          IF Awaiting(i) THEN [A(i) EXCEPT !.at = "gone", !.quote = 0, !.polls = 0, !.seq = 0]
          ELSE A(i)]
    /\ dialog' = NoDialog
    /\ UNCHANGED <<ledger, anchorVars, mode>>

\* A transaction nobody waits for any more is decided all the same.
Unattended(tx) == A(tx.memo).at # "sent"

Environment ==
    \/ \E tx \in pool : /\ Unattended(tx)
                        /\ TimedOut(tx) \/ \E ok \in BOOLEAN : Decided(tx, ok)
    \/ \E u \in User : OtherTx(u)
    \/ RateMoves
    \/ \E i \in Attempt : AnchorNext(i)

DialogNext ==
    \/ \E kind \in Kind : Open(kind)
    \/ \E i \in Attempt, u \in User, amount \in Amount : Run(i, u, amount)
    \/ Close \/ LeavePage \/ Reload
    \/ mode = "chain" /\ Environment /\ UNCHANGED <<mode, attempt, dialog>>
    \/ \E i \in Attempt : (CallFails(i) \/ RampNext(i)) /\ UNCHANGED dialog

\* A browser's promises settle; a wallet's prompt may stay open for ever.
Fairness ==
    \A i \in Attempt : WF_dialogVars(RampNext(i) /\ A(i).at # "sign" /\ UNCHANGED dialog)

DialogSpec == DialogInit /\ [][DialogNext]_dialogVars /\ Fairness

-----------------------------------------------------------------------------
PointOfNoReturn(kind) == IF kind = "deposit" THEN "bank_transfer" ELSE "payment"

\* An attempt that ended before its list of steps came to the one that moves money.
EndedEarly(i) ==
    LET steps == Steps(A(i).kind)
    IN  /\ A(i).at \in {"ended", "gone"}
        /\ \E n \in StepIdx(i) + 1 .. Len(steps) : steps[n] = PointOfNoReturn(A(i).kind)

\* What the dialog says in the end is true.  What it shows as completed has been paid
\* out to the account it had, by the quote, although the rate moved meanwhile; once
\* "The anchor transaction failed." has been shown nothing is ever paid out for that
\* attempt, so that trying again cannot exchange the money twice; and an attempt that
\* stopped at an earlier step, by an error or a reload, costs nothing, now or later.
VerdictIsTrue ==
    \A i \in Attempt :
      /\ A(i).step = "done" =>
           /\ anchorTx[i].status = "completed" /\ anchorTx[i].gave = A(i).quote
           /\ Result(i) = [amount |-> anchorTx[i].gave, user |-> anchorTx[i].user]
      /\ A(i).err = "tx_failed" => anchorTx[i].gave = 0
      /\ EndedEarly(i) =>
           /\ anchorTx[i].got = 0 /\ anchorTx[i].gave = 0
           /\ \A tx \in pool : tx.memo = i => tx.op = "trust"

\* Whoever signs what, a payment that leaves the wallet is the first for a withdrawal
\* of that account, of the amount that was agreed.
PaymentsMatch ==
    [][\A i \in Attempt :
         anchorTx'[i].got > anchorTx[i].got
         => /\ anchorTx[i].got = 0 /\ anchorTx[i].gave = 0
            /\ anchorTx'[i].got = anchorTx[i].sell
            /\ anchorTx[i].status \in {"pending_user_transfer_start", "expired"}]_dialogVars

\* A dialog does not stay at "Working..." for ever, whatever the anchor does: it ends
\* or it waits for the user's wallet.
AttemptsEnd == \A i \in Attempt : []<>(~Awaiting(i) \/ A(i).at = "sign")

=============================================================================
