------------------------------- MODULE Escrow -------------------------------
(***************************************************************************)
(* What a campaign promises, without posts, epochs, proofs or disputes: a  *)
(* pot of money, claims whose amounts become fixed at some moment and stay *)
(* as they are, each paid at most once and in full, and a closing that     *)
(* hands the rest back.  Whatever is fixed can be paid out of the pot.     *)
(***************************************************************************)
EXTENDS Integers, FiniteSetsExt

CONSTANTS
    Entitlement,  \* everything that may ever be claimed
    Pot           \* what is put in at the beginning

VARIABLES
    fixed,   \* entitlements whose amount is known
    due,     \* their amounts, 0 for the others
    paid,    \* entitlements paid out
    closed,  \* the rest has been handed back
    pot      \* what is left

escrowVars == <<fixed, due, paid, closed, pot>>

Total(amount, cs) == MapThenSumSet(LAMBDA c : amount[c], cs)
Promised == Total(due, fixed)

Init ==
    /\ fixed = {} /\ due = [c \in Entitlement |-> 0]
    /\ paid = {} /\ closed = FALSE /\ pot = Pot

\* Amounts already fixed do not change, and all of them together fit the pot.
Fix ==
    /\ fixed \subseteq fixed' /\ fixed' \subseteq Entitlement
    /\ \A c \in fixed : due'[c] = due[c]
    /\ \A c \in Entitlement \ fixed' : due'[c] = 0
    /\ Promised' <= Pot
    /\ UNCHANGED <<paid, closed, pot>>

Pay(c) ==
    /\ c \in fixed \ paid
    /\ ~closed
    /\ paid' = paid \cup {c}
    /\ pot' = pot - due[c]
    /\ UNCHANGED <<fixed, due, closed>>

Close ==
    /\ ~closed
    /\ closed' = TRUE
    /\ pot' = 0
    /\ UNCHANGED <<fixed, due, paid>>

Next == Fix \/ Close \/ \E c \in Entitlement : Pay(c)

Spec == Init /\ [][Next]_escrowVars

=============================================================================
