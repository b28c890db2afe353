---------------------------- MODULE MCBuyerSpend ----------------------------
(* Instances of BuyerSpend for TLC. *)
EXTENDS BuyerSpendLedger, TLC

CONSTANTS c1, c2, p1, p2

\* Two clients may ask for the same; only safety is checked under this symmetry.
ClientSymmetry == Permutations(Clients)

\* Two decided campaigns compete for the allocation: executions, polling and
\* payment, without requests of clients and without production.
Decided == [NoCampaign EXCEPT !.st = "decision_ready", !.quote = 1]
BudgetInit ==
    /\ camp = [c \in Campaigns |-> Decided]
    /\ sel = [c \in Campaigns |-> [q \in Quotes |-> NoView]]
    /\ sent = [c \in Campaigns |-> [q \in Quotes |-> 0]]
    /\ call = [c \in Campaigns |-> AllIdle]
    /\ pack = [c \in Campaigns |-> "none"]
    /\ booting = FALSE
    /\ restarts = 0
BudgetNext == \E c \in Campaigns :
    \/ ExecuteCampaign(c) \/ ExecStep(c) \/ Poll(c)
    \/ \E p \in Procs : CallStep(c, p) \/ AnswerStep(c, p)
    \/ \E q \in Quotes : SellerProceeds(c, q) /\ sel'[c][q].prod = "idle"
BudgetSpec == BudgetInit /\ [][BudgetNext]_vars

\* What happens up to the payment, without production.
Unproduced == \A c \in Campaigns : \A q \in Quotes : sel[c][q] = NoView \/ sel[c][q].prod = "idle"
OverlapNext == Next /\ Unproduced'
OverlapSpec == Init /\ [][OverlapNext]_vars
=============================================================================
