---------------------------- MODULE AtomicStore -----------------------------
(***************************************************************************)
(* What a durable store promises: transactions take effect whole and one   *)
(* after the other, nothing takes effect unasked, what was reported is     *)
(* never lost, and every transaction is answered.  One that was refused,   *)
(* or whose process died, may have taken effect or not.                    *)
(***************************************************************************)
EXTENDS FiniteSets

CONSTANT Txns

VARIABLES
    asked,   \* the transactions that were ever requested
    value,   \* those whose effect the store holds
    sure,    \* those that were reported
    open     \* those that wait for an answer

atomicVars == <<asked, value, sure, open>>

AtomicInit == asked = {} /\ value = {} /\ sure = {} /\ open = {}

Ask(t) ==
    /\ t \notin asked
    /\ asked' = asked \cup {t} /\ open' = open \cup {t}
    /\ UNCHANGED <<value, sure>>

\* A transaction builds on all that was reported; an effect nobody was told of may go.
Write(t) ==
    /\ t \in open
    /\ \E kept \in SUBSET value : sure \subseteq kept /\ value' = kept \cup {t}
    /\ UNCHANGED <<asked, sure, open>>

Report(t) ==
    /\ t \in open \cap value
    /\ sure' = sure \cup {t} /\ open' = open \ {t}
    /\ UNCHANGED <<asked, value>>

Refuse(t) == t \in open /\ open' = open \ {t} /\ UNCHANGED <<asked, value, sure>>

\* The process that works dies, or the power fails: nobody waits any more.
Die ==
    /\ sure \subseteq value' /\ value' \subseteq asked
    /\ open' = {}
    /\ UNCHANGED <<asked, sure>>

AtomicNext == Die \/ \E t \in Txns : Ask(t) \/ Write(t) \/ Report(t) \/ Refuse(t)

Answered == \A t \in Txns : t \in open ~> t \notin open

AtomicSpec == AtomicInit /\ [][AtomicNext]_atomicVars /\ Answered
=============================================================================
