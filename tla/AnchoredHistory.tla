--------------------------- MODULE AnchoredHistory --------------------------
(***************************************************************************)
(* IndexHistory with an observer who remembers the state at which trust    *)
(* was last established or accepted, and what a consumer may rely on from  *)
(* then on.                                                                *)
(***************************************************************************)
EXTENDS IndexHistory

VARIABLE anchor

vars == <<baseline, accepting, anchor>>

TypeOK ==
    /\ baseline \in Opt(Candidates)
    /\ accepting \in BOOLEAN
    /\ anchor \in Opt(Candidates)

AnchoredInit == Init /\ anchor = NONE

AnchoredNext ==
    \/ \E c \in Candidates :
        \/ Establish(c) /\ anchor' = c
        \/ Advance(c) /\ UNCHANGED anchor
        \/ Accept(c) /\ anchor' = c
    \/ (Request \/ Withdraw) /\ UNCHANGED anchor

AnchoredSpec == AnchoredInit /\ [][AnchoredNext]_vars

-----------------------------------------------------------------------------
(* What a consumer may rely on, in terms of the fields alone.              *)

\* Whatever was set when trust was established is still there, unchanged.
FieldKept(f, a, b) == a[f] # NONE => b[f] = a[f]

\* An author's signature is never removed, replaced or handed to another
\* signer; a vendored one may only be upgraded to an author's.
AttestationKept(a, b) ==
    a # NONE =>
        /\ b # NONE
        /\ a.kind = "author-signed" => b = a
        /\ b.kind = "milpa-vendored" => b = a

EntryKept(a, b) ==
    /\ \A f \in {"content_hash", "published_at", "rekor"} : FieldKept(f, a, b)
    /\ AttestationKept(a.attestation, b.attestation)
    /\ \A p \in Provenances : b.provenances[p] >= a.provenances[p]
    /\ \/ a.dep_decl = NONE /\ a.dep_decl_schema_version = NONE
       \/ /\ b.dep_decl = a.dep_decl
          /\ b.dep_decl_schema_version = a.dep_decl_schema_version

RootKept(a, b) ==
    /\ FieldKept("attestation_epoch", a, b)
    /\ FieldKept("attestation_epoch_commitment", a, b)
    /\ AsOrdinal(b.schema_version) >= AsOrdinal(a.schema_version)

StateKept(a, b) ==
    /\ RootKept(a.root, b.root)
    /\ \A k \in Keys(a) :
        /\ k \in Keys(b)
        /\ EntryKept(a.entries[k], b.entries[k])

(* However many clean advances the baseline has made since the last time   *)
(* trust was established or accepted, it still holds everything the anchor *)
(* held: no entry gone, no hash, signer, pin, declaration or commitment    *)
(* rewritten (Baseline::check applied one snapshot at a time, ratchet.rs). *)
HistoryKept == baseline # NONE => anchor # NONE /\ StateKept(anchor, baseline)
=============================================================================
