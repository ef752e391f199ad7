-------------------------- MODULE MCAnchoredHistory -------------------------
(* A small instance of AnchoredHistory: one or two entries, two values, and *)
(* candidates that vary the fields of one order kind at a time, so that     *)
(* chains of several legal transitions exist in every kind.                 *)
EXTENDS AnchoredHistory

CONSTANTS k1, k2, v1, v2, p1, p2

E0 == [content_hash |-> v1, published_at |-> NONE, rekor |-> NONE,
       attestation |-> NONE, provenances |-> [p \in {p1, p2} |-> 0],
       yanked |-> FALSE, dep_decl |-> NONE, dep_decl_schema_version |-> NONE]

R0 == [schema_version |-> NONE, attestation_epoch |-> NONE,
       attestation_epoch_commitment |-> NONE]

\* The states whose entries map exactly the keys of K to e, under root r.
State(K, e, r) == [root |-> r, entries |-> [k \in {k1, k2} |-> IF k \in K THEN e ELSE NONE]]

MCCandidates ==
    {State(K, E0, R0) : K \in SUBSET {k1, k2}}
    \cup {State({k1}, [E0 EXCEPT !.attestation = a, !.rekor = r], R0) :
            a \in Opt(Attestation), r \in {NONE, v1}}
    \cup {State({k1}, [E0 EXCEPT !.content_hash = h, !.published_at = t], R0) :
            h \in {NONE, v1, v2}, t \in {NONE, v1, v2}}
    \cup {State({k1}, [E0 EXCEPT !.dep_decl = d, !.dep_decl_schema_version = s], R0) :
            d \in {NONE, v1, v2}, s \in {NONE, 0, 1}}
    \cup {State({k1}, [E0 EXCEPT !.provenances = q, !.yanked = y], R0) :
            q \in [{p1, p2} -> 0..2], y \in BOOLEAN}
    \cup {State({k1}, E0, [schema_version |-> s, attestation_epoch |-> e,
                           attestation_epoch_commitment |-> c]) :
            s \in {NONE, 1, 2}, e \in {NONE, v1}, c \in {NONE, v1, v2}}

MCEntryKeys == {k1, k2}
MCValues == {v1, v2}
MCProvenances == {p1, p2}
=============================================================================
