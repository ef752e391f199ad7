---------------------------- MODULE IndexHistory ----------------------------
(***************************************************************************)
(* What the index-history axis promises a consumer: a register that holds  *)
(* the trust baseline of one index URL.  It is established on first        *)
(* contact, moves only to states that dominate it, and is re-anchored only *)
(* by an explicit `milpa index accept`.                                    *)
(***************************************************************************)
EXTENDS IndexRatchet

CONSTANT Candidates     \* the index states a registry may serve

ASSUME CandidatesAssumption == Candidates \subseteq IndexState

VARIABLES
    baseline,       \* the state last trusted, NONE before first contact
    accepting       \* the operator has asked for the history to be accepted

Init == baseline = NONE /\ accepting = FALSE

\* Trust on first use: nothing to compare with, nothing to alarm on.
Establish(c) ==
    /\ baseline = NONE
    /\ baseline' = c
    /\ UNCHANGED accepting

\* Sticky advance: a clean difference replaces the baseline.
Advance(c) ==
    /\ baseline # NONE
    /\ Dominates(baseline, c)
    /\ baseline' = c
    /\ UNCHANGED accepting

\* `milpa index accept` has found a difference to accept; it writes the
\* baseline, or fails or dies before it does.
Request ==
    /\ ~accepting
    /\ accepting' = TRUE
    /\ UNCHANGED baseline

Accept(c) ==
    /\ accepting
    /\ baseline # NONE => ~ Dominates(baseline, c)
    /\ baseline' = c
    /\ accepting' = FALSE

Withdraw ==
    /\ accepting
    /\ accepting' = FALSE
    /\ UNCHANGED baseline

Next ==
    \/ \E c \in Candidates : Establish(c) \/ Advance(c) \/ Accept(c)
    \/ Request \/ Withdraw

Spec == Init /\ [][Next]_<<baseline, accepting>>
=============================================================================
