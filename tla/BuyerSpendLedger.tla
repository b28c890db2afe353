-------------------------- MODULE BuyerSpendLedger --------------------------
(***************************************************************************)
(* BuyerSpend implements SpendLedger: a campaign's entry is spent once its *)
(* debit is booked, sent once submitPrepared was called, held while its    *)
(* reservation is active.  A decision written over a submission in         *)
(* progress disowns it.                                                    *)
(***************************************************************************)
EXTENDS BuyerSpend

EntryOf(c) ==
    IF camp[c].late THEN [state |-> "disowned", sats |-> 0]
    ELSE IF camp[c].paid THEN [state |-> "spent", sats |-> DebitOf(c)]
    ELSE IF ~Unsent(c) THEN [state |-> "sent", sats |-> DebitOf(c)]
    ELSE IF Active(camp[c]) THEN [state |-> "held", sats |-> camp[c].held]
    ELSE [state |-> "free", sats |-> 0]

Ledger == INSTANCE SpendLedger WITH
    entry <- [c \in Campaigns |-> EntryOf(c)],
    MaxDebit <- Price + Allowance

\* Whatever order the reservations, gates, receipts and answers of competing
\* campaigns come in, the wallet allocation moves as the ledger allows
\* (buyer-service.mjs 976-1012, 1145-1217): a sum over all campaigns is checked
\* where the payment leaves, not only where it was reserved.
ImplementsLedger == Ledger!LedgerSpec
=============================================================================
