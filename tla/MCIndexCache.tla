---------------------------- MODULE MCIndexCache ----------------------------
(* Small instances of IndexCache: a handful of index documents, the bundles *)
(* that attest them, and the configurations each run asks about.            *)
EXTENDS IndexCache, TLC

CONSTANTS k1, k2, v1, v2, doc_a, doc_b, doc_c, doc_e, doc_x

MCEntryKeys == {k1, k2}
MCValues == {v1, v2}
MCProvenances == {}

Version(h) ==
    [content_hash |-> h, published_at |-> NONE, rekor |-> NONE,
     attestation |-> NONE, provenances |-> [q \in {} |-> 0], yanked |-> FALSE,
     dep_decl |-> NONE, dep_decl_schema_version |-> NONE]

\* A document with the entries that h gives a hash, and epoch pointer e.
Document(h, e) ==
    [root |-> [schema_version |-> 1, attestation_epoch |-> NONE,
               attestation_epoch_commitment |-> e],
     entries |-> [k \in {k1, k2} |-> IF h[k] = NONE THEN NONE ELSE Version(h[k])]]

Hashes(h1, h2) == [k \in {k1, k2} |-> IF k = k1 THEN h1 ELSE h2]

\* doc_a publishes k1; doc_b and doc_c both add k2, with different contents;
\* doc_e arms the epoch of doc_a; doc_x does not parse.
Parse ==
    (doc_a :> Document(Hashes(v1, NONE), NONE))
    @@ (doc_b :> Document(Hashes(v1, v1), NONE))
    @@ (doc_c :> Document(Hashes(v1, v2), NONE))
    @@ (doc_e :> Document(Hashes(v1, NONE), v1))
    @@ (doc_x :> NONE)

MCDoc == [b \in Bytes |-> Parse[b]]

Attesting(S) == [attests : S, flaw : {"none"}]
HonestBundles == Attesting(Bytes)
FlawedBundles ==
    Attesting(Bytes)
        \cup [attests : {doc_a}, flaw : {"empty", "malformed", "signature", "signer"}]

Conf(P, H, E, R) == [policy : P, history : H, entry : E, refresh : R]

\* Every pair of policies; under index-trust "strict" also --refresh-index, with
\* the entry policy that arms the ratchet requirement.
MixedConfs ==
    Conf(Policies, Policies, {"warn"}, {FALSE})
        \cup Conf({"strict"}, Policies, {"strict"}, {TRUE})
StrictConfs == Conf({"strict"}, {"strict"}, {"warn"}, BOOLEAN)
HistoryConfs == Conf({"off"}, {"strict"}, {"warn"}, {TRUE})
=============================================================================
