------------------------ MODULE AnchoredHistoryProofs -----------------------
(***************************************************************************)
(* Proofs about AnchoredHistory, for every set of keys, values, provenance *)
(* records and candidates.  A clean check (Baseline::check) implies that   *)
(* every field is kept; keeping is reflexive and transitive on index       *)
(* states; so whatever was there when trust was last anchored is there     *)
(* after any number of clean advances.                                     *)
(***************************************************************************)
EXTENDS AnchoredHistory, TLAPS

(* A set-once transition that does not violate keeps a value that is set   *)
(* (dominates_set_once).                                                   *)
LEMMA SetOnceKeeps ==
    ASSUME NEW b, NEW c, DominatesSetOnce(b, c) = "ok"
    PROVE  b # NONE => c = b
  BY DEF DominatesSetOnce

(* A legal attestation transition keeps an author's signature and only     *)
(* upgrades a vendored one (dominates_attestation).                        *)
LEMMA AttestationKeeps ==
    ASSUME NEW b \in Opt(Attestation), NEW c \in Opt(Attestation),
           DominatesAttestation(b, c) = "ok"
    PROVE  AttestationKept(b, c)
  <1>1. ASSUME b # NONE PROVE c # NONE
    <2>1. CASE c = NONE
      <3>1. DominatesAttestation(b, c) = "monotone-stripped"
        BY <1>1, <2>1 DEF DominatesAttestation
      <3>2. QED BY <3>1
    <2>2. QED BY <2>1
  <1>2. ASSUME b # NONE, c # NONE
        PROVE  /\ b \in Attestation /\ c \in Attestation
               /\ b.kind = "author-signed" => b = c
               /\ c.kind = "milpa-vendored" => b = c
    <2>1. b \in Attestation /\ c \in Attestation
      BY <1>2 DEF Opt
    <2>2. CASE b.kind = c.kind
      <3>1. (IF b.kind = "author-signed" /\ b.signer # c.signer
             THEN "monotone-reattributed"
             ELSE IF b.bundle_pin # c.bundle_pin
                  THEN "monotone-repinned" ELSE "ok") = "ok"
        BY <1>2, <2>2 DEF DominatesAttestation
      <3>2. /\ b.kind = "author-signed" => b.signer = c.signer
            /\ b.bundle_pin = c.bundle_pin
        BY <3>1
      <3>3. b = c
        BY <2>1, <2>2, <3>2 DEF Attestation
      <3>4. QED BY <2>1, <3>3
    <2>3. CASE b.kind # c.kind
      <3>1. (IF b.kind = "author-signed" THEN "monotone-downgraded" ELSE "ok") = "ok"
        BY <1>2, <2>3 DEF DominatesAttestation
      <3>2. b.kind # "author-signed"
        BY <3>1
      <3>3. b.kind = "milpa-vendored" /\ c.kind = "author-signed"
        BY <2>1, <2>3, <3>2 DEF Attestation
      <3>4. QED BY <2>1, <3>3
    <2>4. QED BY <2>2, <2>3
  <1>3. QED BY <1>1, <1>2 DEF AttestationKept

(* An entry whose check finds no violation is kept (dominates_entry on an  *)
(* ordinary key).                                                          *)
LEMMA CleanEntryKept ==
    ASSUME NEW k, NEW b \in Entry, NEW c \in Entry,
           EntryViolations(k, b, c) = {}
    PROVE  EntryKept(b, c)
  <1>1. \A f \in EntryFields : EntryKind(f, b, c) = "ok"
    BY DEF EntryViolations
  <1>2. \A f \in {"content_hash", "published_at", "rekor"} : FieldKept(f, b, c)
    <2> SUFFICES ASSUME NEW f \in {"content_hash", "published_at", "rekor"}
                 PROVE  FieldKept(f, b, c)
      OBVIOUS
    <2>1. DominatesSetOnce(b[f], c[f]) = "ok"
      <3>1. EntryKind(f, b, c) = "ok"
        BY <1>1 DEF EntryFields
      <3>2. QED BY <3>1 DEF EntryKind
    <2>2. QED BY <2>1, SetOnceKeeps DEF FieldKept
  <1>3. AttestationKept(b.attestation, c.attestation)
    <2>1. EntryKind("attestation", b, c) = "ok"
      BY <1>1 DEF EntryFields
    <2>2. DominatesAttestation(b.attestation, c.attestation) = "ok"
      BY <2>1 DEF EntryKind
    <2>3. b.attestation \in Opt(Attestation) /\ c.attestation \in Opt(Attestation)
      BY DEF Entry
    <2>4. QED BY <2>2, <2>3, AttestationKeeps
  <1>4. \A p \in Provenances : c.provenances[p] >= b.provenances[p]
    <2>1. EntryKind("provenances", b, c) = "ok"
      BY <1>1 DEF EntryFields
    <2>2. DominatesMultiset(b.provenances, c.provenances) = "ok"
      BY <2>1 DEF EntryKind
    <2>3. \A p \in Provenances : b.provenances[p] <= c.provenances[p]
      BY <2>2 DEF DominatesMultiset
    <2>4. QED BY <2>3 DEF Entry
  <1>5. \/ b.dep_decl = NONE /\ b.dep_decl_schema_version = NONE
        \/ /\ c.dep_decl = b.dep_decl
           /\ c.dep_decl_schema_version = b.dep_decl_schema_version
    <2>1. EntryKind("dep_decl", b, c) = "ok"
      BY <1>1 DEF EntryFields
    <2>2. DominatesLockstep(b, c) = "ok"
      BY <2>1 DEF EntryKind
    <2>3. DeclPair(b) = <<NONE, NONE>> \/ DeclPair(b) = DeclPair(c)
      BY <2>2 DEF DominatesLockstep
    <2>4. QED BY <2>3 DEF DeclPair
  <1>6. QED BY <1>2, <1>3, <1>4, <1>5 DEF EntryKept

(* Root fields whose check finds no violation are kept (dominates_entry on *)
(* the reserved root key).                                                 *)
LEMMA CleanRootKept ==
    ASSUME NEW b \in Root, NEW c \in Root, RootViolations(b, c) = {}
    PROVE  RootKept(b, c)
  <1>1. \A f \in RootFields : RootKind(f, b, c) = "ok"
    BY DEF RootViolations
  <1>2. FieldKept("attestation_epoch", b, c)
    <2>1. RootKind("attestation_epoch", b, c) = "ok"
      BY <1>1 DEF RootFields
    <2>2. QED BY <2>1, SetOnceKeeps DEF RootKind, FieldKept
  <1>3. FieldKept("attestation_epoch_commitment", b, c)
    <2>1. RootKind("attestation_epoch_commitment", b, c) = "ok"
      BY <1>1 DEF RootFields
    <2>2. QED BY <2>1, SetOnceKeeps DEF RootKind, FieldKept, DominatesAppendOnce
  <1>4. AsOrdinal(c.schema_version) >= AsOrdinal(b.schema_version)
    <2>1. RootKind("schema_version", b, c) = "ok"
      BY <1>1 DEF RootFields
    <2>2. DominatesOrdinal(b.schema_version, c.schema_version) = "ok"
      BY <2>1 DEF RootKind
    <2>3. ~ AsOrdinal(c.schema_version) < AsOrdinal(b.schema_version)
      BY <2>2 DEF DominatesOrdinal
    <2>4. AsOrdinal(c.schema_version) \in Nat /\ AsOrdinal(b.schema_version) \in Nat
      BY DEF AsOrdinal, Root, Opt
    <2>5. QED BY <2>3, <2>4
  <1>5. QED BY <1>2, <1>3, <1>4 DEF RootKept

(* A candidate that dominates a baseline keeps all of it                   *)
(* (Baseline::check finds no violation).                                   *)
LEMMA CleanCheckKeeps ==
    ASSUME NEW b \in IndexState, NEW c \in IndexState, Dominates(b, c)
    PROVE  StateKept(b, c)
  <1>1. /\ RootViolations(b.root, c.root) = {}
        /\ {RollbackViolation(k) : k \in Keys(b) \ Keys(c)} = {}
        /\ \A k \in Keys(b) \cap Keys(c) :
              EntryViolations(k, b.entries[k], c.entries[k]) = {}
    BY DEF Dominates, Check
  <1>2. RootKept(b.root, c.root)
    BY <1>1, CleanRootKept DEF IndexState
  <1>3. \A k \in Keys(b) : k \in Keys(c)
    BY <1>1
  <1>4. ASSUME NEW k \in Keys(b)
        PROVE  EntryKept(b.entries[k], c.entries[k])
    <2>1. k \in Keys(b) \cap Keys(c)
      BY <1>3
    <2>2. b.entries[k] \in Entry /\ c.entries[k] \in Entry
      BY <2>1 DEF Keys, IndexState, Opt
    <2>3. EntryViolations(k, b.entries[k], c.entries[k]) = {}
      BY <1>1, <2>1
    <2>4. QED BY <2>2, <2>3, CleanEntryKept
  <1>5. QED BY <1>2, <1>3, <1>4 DEF StateKept

(* Every state keeps itself: the moment of anchoring. *)
LEMMA KeptReflexive ==
    ASSUME NEW s \in IndexState
    PROVE  StateKept(s, s)
  <1>1. RootKept(s.root, s.root)
    <2>1. AsOrdinal(s.root.schema_version) \in Nat
      BY DEF AsOrdinal, IndexState, Root, Opt
    <2>2. QED BY <2>1 DEF RootKept, FieldKept
  <1>2. ASSUME NEW k \in Keys(s)
        PROVE  EntryKept(s.entries[k], s.entries[k])
    <2>1. s.entries[k] \in Entry
      BY DEF Keys, IndexState, Opt
    <2>2. \A p \in Provenances : s.entries[k].provenances[p] \in Nat
      BY <2>1 DEF Entry
    <2>3. QED BY <2>2 DEF EntryKept, FieldKept, AttestationKept
  <1>3. QED BY <1>1, <1>2 DEF StateKept

(* Keeping an entry composes: the transitions of several clean advances    *)
(* add up, an upgrade of a vendored attestation in between included.       *)
LEMMA EntryKeptTransitive ==
    ASSUME NEW a \in Entry, NEW b \in Entry, NEW c \in Entry,
           EntryKept(a, b), EntryKept(b, c)
    PROVE  EntryKept(a, c)
  <1>1. \A f \in {"content_hash", "published_at", "rekor"} : FieldKept(f, a, c)
    BY DEF EntryKept, FieldKept
  <1>2. AttestationKept(a.attestation, c.attestation)
    <2>1. /\ AttestationKept(a.attestation, b.attestation)
          /\ AttestationKept(b.attestation, c.attestation)
      BY DEF EntryKept
    <2>2. /\ a.attestation \in Opt(Attestation)
          /\ b.attestation \in Opt(Attestation)
          /\ c.attestation \in Opt(Attestation)
      BY DEF Entry
    <2>3. \A x \in Opt(Attestation) :
             x # NONE => x.kind \in {"author-signed", "milpa-vendored"}
      BY DEF Opt, Attestation
    <2>4. QED BY <2>1, <2>2, <2>3 DEF AttestationKept
  <1>3. \A p \in Provenances : c.provenances[p] >= a.provenances[p]
    <2> SUFFICES ASSUME NEW p \in Provenances
                 PROVE  c.provenances[p] >= a.provenances[p]
      OBVIOUS
    <2>1. /\ a.provenances[p] \in Nat
          /\ b.provenances[p] \in Nat
          /\ c.provenances[p] \in Nat
      BY DEF Entry
    <2>2. /\ b.provenances[p] >= a.provenances[p]
          /\ c.provenances[p] >= b.provenances[p]
      BY DEF EntryKept
    <2>3. QED BY <2>1, <2>2
  <1>4. \/ a.dep_decl = NONE /\ a.dep_decl_schema_version = NONE
        \/ /\ c.dep_decl = a.dep_decl
           /\ c.dep_decl_schema_version = a.dep_decl_schema_version
    BY DEF EntryKept
  <1>5. QED BY <1>1, <1>2, <1>3, <1>4 DEF EntryKept

(* Keeping a state composes. *)
LEMMA KeptTransitive ==
    ASSUME NEW a \in IndexState, NEW b \in IndexState, NEW c \in IndexState,
           StateKept(a, b), StateKept(b, c)
    PROVE  StateKept(a, c)
  <1>1. RootKept(a.root, c.root)
    <2>1. /\ AsOrdinal(a.root.schema_version) \in Nat
          /\ AsOrdinal(b.root.schema_version) \in Nat
          /\ AsOrdinal(c.root.schema_version) \in Nat
      BY DEF AsOrdinal, IndexState, Root, Opt
    <2>2. RootKept(a.root, b.root) /\ RootKept(b.root, c.root)
      BY DEF StateKept
    <2>3. AsOrdinal(c.root.schema_version) >= AsOrdinal(a.root.schema_version)
      BY <2>1, <2>2 DEF RootKept
    <2>4. QED BY <2>2, <2>3 DEF RootKept, FieldKept
  <1>2. ASSUME NEW k \in Keys(a)
        PROVE  k \in Keys(c) /\ EntryKept(a.entries[k], c.entries[k])
    <2>1. k \in Keys(b) /\ EntryKept(a.entries[k], b.entries[k])
      BY DEF StateKept
    <2>2. k \in Keys(c) /\ EntryKept(b.entries[k], c.entries[k])
      BY <2>1 DEF StateKept
    <2>3. /\ a.entries[k] \in Entry
          /\ b.entries[k] \in Entry
          /\ c.entries[k] \in Entry
      BY <2>1, <2>2 DEF Keys, IndexState, Opt
    <2>4. QED BY <2>1, <2>2, <2>3, EntryKeptTransitive
  <1>3. QED BY <1>1, <1>2 DEF StateKept

-----------------------------------------------------------------------------

(* The register holds nothing but states the registry served. *)
THEOREM TypeCorrect == AnchoredSpec => []TypeOK
  <1>1. AnchoredInit => TypeOK
    BY DEF AnchoredInit, Init, TypeOK, Opt
  <1>2. TypeOK /\ [AnchoredNext]_vars => TypeOK'
    BY DEF TypeOK, AnchoredNext, Establish, Advance, Accept, Request, Withdraw, vars, Opt
  <1>3. QED BY <1>1, <1>2, PTL DEF AnchoredSpec

(* Since trust was last established or accepted, nothing the consumer saw  *)
(* has been removed or rewritten in the baseline, however many snapshots   *)
(* have been taken over in between.                                        *)
THEOREM HistoryAlwaysKept == AnchoredSpec => []HistoryKept
  <1>1. AnchoredInit => HistoryKept
    BY DEF AnchoredInit, Init, HistoryKept
  <1>2. TypeOK /\ HistoryKept /\ [AnchoredNext]_vars => HistoryKept'
    <2> SUFFICES ASSUME TypeOK, HistoryKept, [AnchoredNext]_vars
                 PROVE  HistoryKept'
      OBVIOUS
    <2>1. ASSUME NEW c \in Candidates, Establish(c), anchor' = c
          PROVE  HistoryKept'
      BY <2>1, KeptReflexive, CandidatesAssumption, NoneAssumption
         DEF Establish, HistoryKept
    <2>2. ASSUME NEW c \in Candidates, Advance(c), UNCHANGED anchor
          PROVE  HistoryKept'
      <3>1. /\ baseline # NONE /\ baseline \in IndexState
            /\ anchor # NONE /\ anchor \in IndexState
            /\ c \in IndexState
        BY <2>2, CandidatesAssumption DEF Advance, TypeOK, HistoryKept, Opt
      <3>2. StateKept(baseline, c)
        BY <2>2, <3>1, CleanCheckKeeps DEF Advance
      <3>3. StateKept(anchor, baseline)
        BY <3>1 DEF HistoryKept
      <3>4. StateKept(anchor, c)
        BY <3>1, <3>2, <3>3, KeptTransitive
      <3>5. QED BY <2>2, <3>1, <3>4 DEF Advance, HistoryKept
    <2>3. ASSUME NEW c \in Candidates, Accept(c), anchor' = c
          PROVE  HistoryKept'
      BY <2>3, KeptReflexive, CandidatesAssumption, NoneAssumption
         DEF Accept, HistoryKept
    <2>4. ASSUME Request \/ Withdraw, UNCHANGED anchor
          PROVE  HistoryKept'
      BY <2>4 DEF Request, Withdraw, HistoryKept
    <2>5. CASE UNCHANGED vars
      BY <2>5 DEF vars, HistoryKept
    <2>6. QED BY <2>1, <2>2, <2>3, <2>4, <2>5 DEF AnchoredNext
  <1>3. QED BY <1>1, <1>2, TypeCorrect, PTL DEF AnchoredSpec
=============================================================================
