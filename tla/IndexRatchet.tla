---------------------------- MODULE IndexRatchet ----------------------------
(***************************************************************************)
(* The append-only ratchet of the registry index: the pure dominance fold  *)
(* of milpa-core's ratchet.rs over the index state that                    *)
(* index_ratchet_seam.rs builds.                                           *)
(*                                                                         *)
(* An index state has one record of document-root fields and, for each     *)
(* entry key (namespace, name, raw version), one record of entry fields.   *)
(* A candidate dominates a baseline when every transition from the         *)
(* baseline's fields to the candidate's is legal in the order of that      *)
(* field's kind.                                                           *)
(*                                                                         *)
(* Abstractions: hashes, pins, time stamps and signers are opaque values;  *)
(* a provenance list is the function that counts each record in it; the    *)
(* canonical digest of a list of violations is injective, so the set of    *)
(* violations stands for it; a violation does not carry the baseline's     *)
(* value, which is only printed.                                           *)
(***************************************************************************)
EXTENDS Naturals

CONSTANTS
    EntryKeys,      \* the entry keys that occur (never the reserved root key)
    Values,         \* opaque field values: hashes, time stamps, pins, signers
    Provenances,    \* provenance records (git or oci), compared by value
    NONE            \* an absent optional field

-----------------------------------------------------------------------------
(* The index state. *)

Opt(S) == S \cup {NONE}

Attestation ==
    [kind : {"author-signed"}, signer : Values, bundle_pin : Opt(Values)]
        \cup [kind : {"milpa-vendored"}, signer : {NONE}, bundle_pin : Opt(Values)]

Entry ==
    [content_hash : Opt(Values), published_at : Opt(Values),
     rekor : Opt(Values), attestation : Opt(Attestation),
     provenances : [Provenances -> Nat], yanked : BOOLEAN,
     dep_decl : Opt(Values), dep_decl_schema_version : Opt(Nat)]

Root ==
    [schema_version : Opt(Nat), attestation_epoch : Opt(Values),
     attestation_epoch_commitment : Opt(Values)]

\* The map from entry keys to entries, NONE for a key that is not there.
IndexState == [root : Root, entries : [EntryKeys -> Opt(Entry)]]

Keys(s) == {k \in EntryKeys : s.entries[k] # NONE}

ASSUME NoneAssumption ==
    /\ NONE \notin Values
    /\ NONE \notin Nat
    /\ NONE \notin Attestation
    /\ NONE \notin Entry
    /\ NONE \notin IndexState

-----------------------------------------------------------------------------
(* Dominance, one operator per order kind: the kind of the violation that  *)
(* the transition from b to c is, or "ok".                                 *)

DominatesSetOnce(b, c) ==
    IF b = NONE \/ b = c THEN "ok"
    ELSE IF c = NONE THEN "frozen-unset" ELSE "frozen-changed"

DominatesAppendOnce(b, c) == DominatesSetOnce(b, c)

\* An absent schema_version is the default, 1.
AsOrdinal(v) == IF v = NONE THEN 1 ELSE v

DominatesOrdinal(b, c) ==
    IF AsOrdinal(c) < AsOrdinal(b) THEN "root-field-changed" ELSE "ok"

\* Mutant: the kinds ordered in the wrong direction.
DowngradeLegal(b, c) ==
    IF b # NONE /\ c # NONE /\ b.kind # c.kind
    THEN IF b.kind = "author-signed" THEN "ok" ELSE "monotone-downgraded"
    ELSE IF b = NONE \/ b = c THEN "ok" ELSE "monotone-repinned"

DominatesAttestation(b, c) ==
    CASE b = NONE -> "ok"
      [] b # NONE /\ c = NONE -> "monotone-stripped"
      [] b # NONE /\ c # NONE /\ b.kind = c.kind ->
            IF b.kind = "author-signed" /\ b.signer # c.signer
            THEN "monotone-reattributed"
            ELSE IF b.bundle_pin # c.bundle_pin THEN "monotone-repinned" ELSE "ok"
      [] b # NONE /\ c # NONE /\ b.kind # c.kind ->
            IF b.kind = "author-signed" THEN "monotone-downgraded" ELSE "ok"

DominatesMultiset(b, c) ==
    IF \A p \in Provenances : b[p] <= c[p] THEN "ok" ELSE "provenance-removed"

\* dep_decl and dep_decl_schema_version move together: the pair is present
\* when either is, and once present neither may change.
DeclPair(e) == <<e.dep_decl, e.dep_decl_schema_version>>

DominatesLockstep(b, c) ==
    IF DeclPair(b) = <<NONE, NONE>> \/ DeclPair(b) = DeclPair(c) THEN "ok"
    ELSE IF DeclPair(c) = <<NONE, NONE>> THEN "frozen-unset" ELSE "frozen-changed"

-----------------------------------------------------------------------------
(* The fold. *)

EntryFields ==
    {"content_hash", "published_at", "rekor", "attestation", "provenances",
     "dep_decl"}

RootFields ==
    {"schema_version", "attestation_epoch", "attestation_epoch_commitment"}

\* dispatch over the lattice; yanked is advisory and never violates.
EntryKind(f, b, c) ==
    CASE f \in {"content_hash", "published_at", "rekor"} ->
            DominatesSetOnce(b[f], c[f])
      [] f = "attestation" -> DominatesAttestation(b.attestation, c.attestation)
      [] f = "provenances" -> DominatesMultiset(b.provenances, c.provenances)
      [] f = "dep_decl" -> DominatesLockstep(b, c)

RootKind(f, b, c) ==
    CASE f = "schema_version" -> DominatesOrdinal(b.schema_version, c.schema_version)
      [] f = "attestation_epoch" ->
            DominatesSetOnce(b.attestation_epoch, c.attestation_epoch)
      [] f = "attestation_epoch_commitment" ->
            DominatesAppendOnce(b.attestation_epoch_commitment,
                                c.attestation_epoch_commitment)

\* What a violation of entry field f shows of the candidate.
CandidateValue(f, c) == IF f = "dep_decl" THEN DeclPair(c) ELSE <<c[f]>>

EntryViolations(k, b, c) ==
    {[class |-> "TNG-ENTRY-MUTATED", key |-> k, field |-> f,
      kind |-> EntryKind(f, b, c), value |-> CandidateValue(f, c)] :
        f \in {g \in EntryFields : EntryKind(g, b, c) # "ok"}}

RootViolations(b, c) ==
    {[class |-> "TNG-INDEX-ROOT-MUTATED", key |-> NONE, field |-> f,
      kind |-> "root-field-changed", value |-> <<c[f]>>] :
        f \in {g \in RootFields : RootKind(g, b, c) # "ok"}}

RollbackViolation(k) ==
    [class |-> "TNG-INDEX-ROLLBACK", key |-> k, field |-> "",
     kind |-> "frozen-unset", value |-> <<>>]

\* Baseline::check: every violation of going from baseline b to candidate c.
Check(b, c) ==
    RootViolations(b.root, c.root)
        \cup {RollbackViolation(k) : k \in Keys(b) \ Keys(c)}
        \cup UNION {EntryViolations(k, b.entries[k], c.entries[k]) :
                        k \in Keys(b) \cap Keys(c)}

Dominates(b, c) == Check(b, c) = {}

\* The slug a strict failure reports: the class of the first violation in
\* (class rank, key, field) order.
PrimaryClass(violations) ==
    CASE \E v \in violations : v.class = "TNG-INDEX-ROOT-MUTATED" ->
            "TNG-INDEX-ROOT-MUTATED"
      [] /\ ~ \E v \in violations : v.class = "TNG-INDEX-ROOT-MUTATED"
         /\ \E v \in violations : v.class = "TNG-INDEX-ROLLBACK" ->
            "TNG-INDEX-ROLLBACK"
      [] OTHER -> "TNG-ENTRY-MUTATED"
=============================================================================
