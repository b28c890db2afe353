---------------------------- MODULE SpendLedger -----------------------------
(***************************************************************************)
(* What the Buyer's bookkeeping promises about one wallet allocation: held *)
(* amounts come and go, but an amount leaves for the wallet only if it     *)
(* fits beside everything held, sent and spent, and a sent amount never    *)
(* becomes free again.  It is booked as spent, or disowned: nothing is     *)
(* promised about that amount any more, and everything about the others.   *)
(***************************************************************************)
EXTENDS Naturals, FiniteSets, FiniteSetsExt

CONSTANTS Campaigns, Limit, MaxPending, MaxDebit

VARIABLE entry

Free == [state |-> "free", sats |-> 0]
Disowned == [state |-> "disowned", sats |-> 0]

LedgerInit == entry = [c \in Campaigns |-> Free]

InState(states) == {c \in Campaigns : entry[c].state \in states}
SatsOf(c) == entry[c].sats
Total(S) == MapThenSumSet(SatsOf, S)

\* The entry of c becomes one of the given state, for any amount up to MaxDebit.
Becomes(c, state) ==
    /\ entry'[c].state = state /\ entry'[c].sats \in 0 .. MaxDebit
    /\ entry' = [entry EXCEPT ![c] = entry'[c]]

Hold(c) == entry[c].state \in {"free", "held"} /\ Becomes(c, "held")

Release(c) ==
    /\ entry[c].state = "held"
    /\ entry' = [entry EXCEPT ![c] = Free]

Send(c) ==
    /\ entry[c].state \in {"free", "held"}
    /\ Becomes(c, "sent")
    /\ Total(InState({"held", "sent", "spent"}) \ {c}) + entry'[c].sats <= Limit
    /\ Cardinality(InState({"held", "sent"}) \ {c}) < MaxPending

Book(c) ==
    /\ entry[c].state = "sent"
    /\ entry' = [entry EXCEPT ![c].state = "spent"]

Disown(c) ==
    /\ entry[c].state = "sent"
    /\ entry' = [entry EXCEPT ![c] = Disowned]

LedgerNext == \E c \in Campaigns : Hold(c) \/ Release(c) \/ Send(c) \/ Book(c) \/ Disown(c)
LedgerSpec == LedgerInit /\ [][LedgerNext]_entry
=============================================================================
