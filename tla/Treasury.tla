------------------------------ MODULE Treasury ------------------------------
(***************************************************************************)
(* The money of all campaigns: one balance per token, and a ledger per     *)
(* campaign.  A campaign is funded from the brand's tokens, directly or    *)
(* through a router the contract does not trust; afterwards it pays out,   *)
(* holds bonds and gives them back, and is refunded.                       *)
(*                                                                         *)
(* When an amount is due is the matter of module Campaign.  Here a         *)
(* campaign may at any time before its refund pay any amount to anybody:   *)
(* more than the code does, whatever the campaigns' timelines.             *)
(***************************************************************************)
EXTENDS Parties, FiniteSetsExt

CONSTANTS
    Token,
    Brand, Contract, Market,  \* accounts beside the wallets
    Offer,       \* parameters of campaigns somebody may create
    Bond,
    Payment,     \* amounts asked of pay_out
    SwapAmount,  \* amounts a router may take, give or report
    Purse        \* what every account holds of every token at first

Account == Wallet \cup {Brand, Contract, Market}

ASSUME TreasuryAssumption ==
    /\ Cardinality({Brand, Contract, Market} \ Wallet) = 3
    /\ Offer \subseteq [token : Token, budget : Nat \ {0}, human : BOOLEAN,
                        start : Nat, end : Nat]
    /\ Bond \in Nat \ {0}
    /\ Payment \cup SwapAmount \subseteq Nat
    /\ Purse \in Nat

VARIABLES
    router,    \* whether a router is configured
    count,     \* campaigns created so far: their ids are 1 .. count
    campaign,  \* per id: its parameters, its ledger and the bonds it holds
    held       \* token balance of every account

treasury == <<router, count, campaign, held>>

NoOffer == [token |-> Nobody, budget |-> 0, human |-> FALSE, start |-> 0, end |-> 0]
NoCampaign == [params |-> NoOffer, balance |-> 0, bonds |-> 0, refunded |-> FALSE]

TreasuryInit ==
    /\ router = FALSE
    /\ count = 0
    /\ campaign = [c \in CampaignId |-> NoCampaign]
    /\ held = [a \in Account |-> [t \in Token |-> IF a = Contract THEN 0 ELSE Purse]]

Moved(h, from, to, t, amount) ==
    LET taken == [h EXCEPT ![from][t] = @ - amount]
    IN  [taken EXCEPT ![to][t] = @ + amount]

Exists(c) == c \in 1 .. count

-----------------------------------------------------------------------------
SetRouter ==
    /\ router' = TRUE
    /\ UNCHANGED <<count, campaign, held>>

\* escrow: takes the budget from what the brand holds in h.
Escrow(h, o) ==
    /\ count + 1 \in CampaignId
    /\ o.budget <= h[Brand][o.token]
    /\ held' = Moved(h, Brand, Contract, o.token, o.budget)
    /\ count' = count + 1
    /\ campaign' = [campaign EXCEPT ![count + 1] =
                      [NoCampaign EXCEPT !.params = o, !.balance = o.budget]]

FundDirectly(o) ==
    /\ Escrow(held, o)
    /\ UNCHANGED router

MutDelivered(o, given) == TRUE  \* believes the amounts the router reports

\* The brand's balance of the campaign's token rose by the budget at least.
Delivered(o, given) == given >= o.budget

\* The router takes and gives what it likes, and reports what it likes.
FundBySwap(o, tokenIn, maxIn, taken, given, reported) ==
    LET h == Moved(Moved(held, Brand, Market, tokenIn, taken),
                   Market, Brand, o.token, given)
    IN  /\ router
        /\ tokenIn # o.token
        /\ maxIn > 0
        /\ taken <= held[Brand][tokenIn] /\ taken <= maxIn
        /\ given <= held[Market][o.token]
        /\ 0 < reported /\ reported <= maxIn
        /\ Delivered(o, given)
        /\ Escrow(h, o)
        /\ UNCHANGED router

-----------------------------------------------------------------------------
MutClamped(c, amount) == amount  \* unclamped
Clamped(c, amount) ==
    IF amount <= campaign[c].balance THEN amount ELSE campaign[c].balance

\* pay_out, clamped to the campaign's ledger.
PayOut(c, a, amount) ==
    LET paid == Clamped(c, amount)
        t == campaign[c].params.token
    IN  /\ Exists(c)
        /\ ~campaign[c].refunded
        /\ paid <= held[Contract][t]
        /\ held' = Moved(held, Contract, a, t, paid)
        /\ campaign' = [campaign EXCEPT ![c].balance = @ - paid]
        /\ UNCHANGED <<router, count>>

PostBond(c, a) ==
    LET t == campaign[c].params.token
    IN  /\ Exists(c)
        /\ Bond <= held[a][t]
        /\ held' = Moved(held, a, Contract, t, Bond)
        /\ campaign' = [campaign EXCEPT ![c].bonds = @ + 1]
        /\ UNCHANGED <<router, count>>

ReturnBond(c, a) ==
    LET t == campaign[c].params.token
    IN  /\ Exists(c)
        /\ campaign[c].bonds > 0
        /\ Bond <= held[Contract][t]
        /\ held' = Moved(held, Contract, a, t, Bond)
        /\ campaign' = [campaign EXCEPT ![c].bonds = @ - 1]
        /\ UNCHANGED <<router, count>>

MutRefundOf(c) == held[Contract][campaign[c].params.token]  \* all there is
RefundOf(c) == campaign[c].balance

Refund(c) ==
    LET t == campaign[c].params.token
    IN  /\ Exists(c)
        /\ ~campaign[c].refunded
        /\ RefundOf(c) <= held[Contract][t]
        /\ held' = Moved(held, Contract, Brand, t, RefundOf(c))
        /\ campaign' = [campaign EXCEPT ![c].balance = 0, ![c].refunded = TRUE]
        /\ UNCHANGED <<router, count>>

Funding(o) ==
    \/ FundDirectly(o)
    \/ \E t \in Token, m, x, y, z \in SwapAmount : FundBySwap(o, t, m, x, y, z)

Spending ==
    \/ \E c \in CampaignId, a \in Wallet, n \in Payment : PayOut(c, a, n)
    \/ \E c \in CampaignId, a \in Wallet \cup {Brand} : PostBond(c, a)
    \/ \E c \in CampaignId, a \in Wallet \cup {Brand} : ReturnBond(c, a)
    \/ \E c \in CampaignId : Refund(c)

TreasuryNext == SetRouter \/ Spending \/ \E o \in Offer : Funding(o)

TreasurySpec == TreasuryInit /\ [][TreasuryNext]_treasury

-----------------------------------------------------------------------------
\* In particular no ledger ever goes below zero.
TreasuryTypeOK ==
    /\ router \in BOOLEAN
    /\ count \in CampaignId \cup {0}
    /\ campaign \in [CampaignId -> [params : Offer \cup {NoOffer}, balance : Nat,
                                    bonds : Nat, refunded : BOOLEAN]]
    /\ \A c \in 1 .. count : campaign[c].params \in Offer
    /\ held \in [Account -> [Token -> Nat]]

\* Of every token the contract holds exactly the ledgers of the campaigns in
\* that token and the bonds posted in them: no campaign pays for another.
TokensBackCampaigns ==
    \A t \in Token :
      held[Contract][t] =
        MapThenSumSet(LAMBDA c : campaign[c].balance + Bond * campaign[c].bonds,
                      {c \in 1 .. count : campaign[c].params.token = t})

\* A brand that funds a campaign by a swap ends with no less of the campaign's
\* token than before, whatever the router does.
SwapFundsTheBudget ==
    [][\A t, u \in Token :
         (/\ count' # count /\ t # u
          /\ campaign'[count'].params.token = u
          /\ held'[Brand][t] < held[Brand][t])
         => held'[Brand][u] >= held[Brand][u]]_treasury

=============================================================================
