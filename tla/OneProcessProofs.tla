------------------------- MODULE OneProcessProofs --------------------------
(***************************************************************************)
(* What the index cache promises while one milpa process runs at a time,   *)
(* with any policies from load to load, any crashes and failed writes: the *)
(* baseline file implements the register of IndexHistory, and, while only  *)
(* loads under index-history "strict" have replaced the index file, what   *)
(* any load returns dominates the baseline.                                *)
(***************************************************************************)
EXTENDS IndexCacheProofs

-----------------------------------------------------------------------------
(* The inductive invariant.                                                *)

\* One process at a time; it may exit, or be killed, and start again.
Alone == \A p, q \in Procs : p = q

\* The document of the text x dominates that of the baseline b.
Follows(b, x) == b # NONE => Dominates(Doc[b], Doc[x])

\* The labels at which the bytes in memory are those of the index file.
CachedAt ==
    {"serve-marker", "serve-stat", "serve-bundle", "write-stamp", "write-baseline",
     "write-meta", "epoch-pointer", "epoch-sidecar"}

\* The labels at which the gate has decided and the baseline is not written.
DecidedAt == {"write-unmark", "write-bundle", "write-mark", "write-index", "write-stamp"}

\* What memory m says, at label l under configuration c, of the baseline b and
\* the index i: the one that was read is the one that is still there, and a
\* strict gate has let through only what it advances to.
Fits(l, m, c, b, i) ==
    /\ l \in CachedAt => i # NONE /\ m.bytes = i
    /\ l = "gate-meta" => m.base = IF c.history = "off" THEN NONE ELSE b
    /\ (l \in DecidedAt /\ m.dec.advance) \/ l = "write-baseline" => Follows(b, m.bytes)
    /\ l \in DecidedAt /\ c.history = "strict" => m.dec.advance
    /\ l = "accept-baseline" => b = NONE \/ ~Follows(b, m.bytes)

\* What is minted is the index file i.
Right(o, i) == o.result = "minted" => i # NONE /\ o.bytes = i

ProcessFits ==
    \A p \in Procs :
        /\ Fits(pc[p], mem[p], conf[p], baseline, index)
        /\ IF pc[p] = "done" THEN Right(out[p], index)
           ELSE out[p].result # "minted"

FilesFit == ~lax /\ index # NONE => Follows(baseline, index)

SoloInv == IInv /\ ProcessFits /\ FilesFit

-----------------------------------------------------------------------------
(* Facts about the pure operators.                                         *)

(* A document dominates itself: re-reading the index that the baseline was *)
(* taken from raises no alarm (Baseline::check).                           *)
LEMMA DominatesItself == ASSUME NEW s \in IndexState PROVE Dominates(s, s)
  <1>1. RootViolations(s.root, s.root) = {}
    <2>1. s.root.schema_version \in Opt(Nat)
      BY DEF IndexState, Root
    <2>2. AsOrdinal(s.root.schema_version) \in Nat
      BY <2>1 DEF AsOrdinal, Opt
    <2>3. DominatesOrdinal(s.root.schema_version, s.root.schema_version) = "ok"
      BY <2>2 DEF DominatesOrdinal
    <2>4. \A v : DominatesSetOnce(v, v) = "ok" /\ DominatesAppendOnce(v, v) = "ok"
      BY DEF DominatesSetOnce, DominatesAppendOnce
    <2>5. \A f \in RootFields : RootKind(f, s.root, s.root) = "ok"
      <3>1. TAKE f \in RootFields
      <3>2. CASE f = "schema_version"
        BY <2>3, <3>2 DEF RootKind
      <3>3. CASE f = "attestation_epoch"
        BY <2>4, <3>3 DEF RootKind
      <3>4. CASE f = "attestation_epoch_commitment"
        BY <2>4, <3>4 DEF RootKind
      <3>5. QED BY <3>2, <3>3, <3>4 DEF RootFields
    <2>6. QED BY <2>5 DEF RootViolations
  <1>2. ASSUME NEW k \in Keys(s) PROVE EntryViolations(k, s.entries[k], s.entries[k]) = {}
    <2> DEFINE e == s.entries[k]
    <2>1. e \in Entry
      BY DEF Keys, IndexState, Opt
    <2>2. \A q \in Provenances : e.provenances[q] \in Nat
      BY <2>1 DEF Entry
    <2> HIDE DEF e
    <2>3. \A f \in EntryFields : EntryKind(f, e, e) = "ok"
      <3>1. TAKE f \in EntryFields
      <3>2. CASE f \in {"content_hash", "published_at", "rekor"}
        BY <3>2 DEF EntryKind, DominatesSetOnce
      <3>3. CASE f = "attestation"
        <4>1. DominatesAttestation(e.attestation, e.attestation) = "ok"
          BY DEF DominatesAttestation
        <4>2. QED BY <3>3, <4>1 DEF EntryKind
      <3>4. CASE f = "provenances"
        <4>1. DominatesMultiset(e.provenances, e.provenances) = "ok"
          BY <2>2 DEF DominatesMultiset
        <4>2. QED BY <3>4, <4>1 DEF EntryKind
      <3>5. CASE f = "dep_decl"
        BY <3>5 DEF EntryKind, DominatesLockstep
      <3>6. QED BY <3>2, <3>3, <3>4, <3>5 DEF EntryFields
    <2>4. QED BY <2>3 DEF EntryViolations, e
  <1>3. QED BY <1>1, <1>2 DEF Dominates, Check

(* The gate advances only to what dominates the baseline it was given, and *)
(* under "strict" lets nothing else through (evaluate_gate).               *)
LEMMA GateFollows ==
    ASSUME NEW h, NEW b \in Bytes, NEW base \in Opt(Bytes), NEW rep,
           NEW d, d = EvaluateGate(h, b, base, rep), d.error = "ok"
    PROVE  /\ d.advance => h # "off" /\ Follows(base, b)
           /\ h = "strict" => d.advance
  <1>1. Doc[b] # NONE
    BY DEF EvaluateGate, NoDecision
  <1>2. NoDecision.advance = FALSE /\ AdvanceDecision.advance = TRUE
    BY DEF NoDecision, AdvanceDecision
  <1>3. CASE h = "off"
    <2>1. d = NoDecision
      BY <1>1, <1>3 DEF EvaluateGate
    <2>2. QED BY <1>2, <1>3, <2>1
  <1>4. CASE h # "off" /\ base = NONE
    <2>1. d = AdvanceDecision
      BY <1>1, <1>4 DEF EvaluateGate
    <2>2. QED BY <1>2, <1>4, <2>1 DEF Follows
  <1>5. CASE h # "off" /\ base # NONE
    <2> DEFINE found == Check(Doc[base], Doc[b])
    <2>1. Doc[base] # NONE
      BY <1>1, <1>5 DEF EvaluateGate, NoDecision
    <2>2. CASE found = {}
      <3>1. d = AdvanceDecision
        BY <1>1, <1>5, <2>1, <2>2 DEF EvaluateGate
      <3>2. QED BY <1>2, <1>5, <2>2, <3>1 DEF Follows, Dominates
    <2>3. CASE found # {}
      <3>1. h # "strict"
        <4>1. SUFFICES ASSUME h = "strict" PROVE FALSE
          OBVIOUS
        <4>2. d = [NoDecision EXCEPT !.error = PrimaryClass(found)]
          BY <1>1, <1>5, <2>1, <2>3, <4>1 DEF EvaluateGate
        <4>3. d.error = PrimaryClass(found)
          BY <4>2 DEF NoDecision
        <4>4. QED BY <4>3, PrimaryClassType DEF Errors, Slugs, Results
      <3>2. \/ d = [NoDecision EXCEPT !.warning = "recurring", !.reported = found]
            \/ d = [NoDecision EXCEPT !.warning = "new", !.wmeta = TRUE, !.reported = found]
        BY <1>1, <1>5, <2>1, <2>3, <3>1 DEF EvaluateGate
      <3> HIDE DEF found
      <3>3. d.advance = FALSE
        BY <3>2 DEF NoDecision
      <3>4. QED BY <3>1, <3>3
    <2>4. QED BY <2>2, <2>3
  <1>6. QED BY <1>3, <1>4, <1>5

-----------------------------------------------------------------------------
(* The ways the one process moves on.                                      *)

(* Between a start and the return, nothing is minted.                      *)
LEMMA GotoFits ==
    ASSUME Alone, SoloInv, NEW p \in Procs, pc[p] \notin {"idle", "done"},
           NEW l, l \notin {"idle", "done"}, NEW m, Goto(p, l, m),
           Fits(l, m, conf[p], baseline', index')
    PROVE  ProcessFits'
  <1>1. \A q \in Procs : q = p
    BY DEF Alone
  <1>2. pc'[p] = l /\ mem'[p] = m /\ conf'[p] = conf[p] /\ out'[p] = out[p]
    BY DEF SoloInv, IInv, TypeOK, ProcessType, Goto
  <1>3. out[p].result # "minted"
    BY DEF SoloInv, ProcessFits
  <1>4. QED BY <1>1, <1>2, <1>3 DEF ProcessFits

(* Returning the index file, or an error.                                  *)
LEMMA ReturnFits ==
    ASSUME Alone, SoloInv, NEW p \in Procs, pc[p] \notin {"idle", "done"},
           NEW o, Return(p, o), Right(o, index')
    PROVE  ProcessFits'
  <1>1. \A q \in Procs : q = p
    BY DEF Alone
  <1>2. pc'[p] = "done" /\ conf'[p] = conf[p] /\ out'[p] = o
    BY DEF SoloInv, IInv, TypeOK, ProcessType, Return
  <1>3. Fits("done", mem'[p], conf[p], baseline', index')
    BY DEF Fits, CachedAt, DecidedAt
  <1>4. QED BY <1>1, <1>2, <1>3 DEF ProcessFits

LEMMA FinishFits ==
    ASSUME Alone, SoloInv, NEW p \in Procs, pc[p] \notin {"idle", "done"},
           NEW r, r # "minted", Finish(p, r)
    PROVE  ProcessFits'
  <1> DEFINE o == [NoOutcome EXCEPT !.result = r, !.cached = mem[p].sidecar = "cached"]
  <1>1. o.result = r
    BY DEF NoOutcome
  <1>2. Right(o, index')
    BY <1>1 DEF Right
  <1>3. Return(p, o)
    BY DEF Finish
  <1> HIDE DEF o
  <1>4. QED BY <1>2, <1>3, ReturnFits

(* Entering the epoch fold with the bytes of the index file.               *)
LEMMA ToEpochFits ==
    ASSUME Alone, SoloInv, NEW p \in Procs, pc[p] \notin {"idle", "done"},
           NEW m, ToEpoch(p, m), index' # NONE, m.bytes = index'
    PROVE  ProcessFits'
  <1>1. CASE conf[p].policy = "off"
    <2>1. Return(p, Minted(m, "Unarmed"))
      BY <1>1 DEF ToEpoch
    <2>2. Right(Minted(m, "Unarmed"), index')
      BY DEF Right, Minted
    <2>3. QED BY <2>1, <2>2, ReturnFits
  <1>2. CASE conf[p].policy # "off"
    <2> DEFINE e == [Blank EXCEPT !.bytes = m.bytes, !.bundle = m.bundle,
                                  !.verif = m.verif, !.sidecar = m.sidecar]
    <2>1. Goto(p, "epoch-pointer", e) /\ e.bytes = m.bytes
      BY <1>2 DEF ToEpoch, Blank
    <2> HIDE DEF e
    <2>2. Fits("epoch-pointer", e, conf[p], baseline', index')
      BY <2>1 DEF Fits, DecidedAt
    <2>3. QED BY <2>1, <2>2, GotoFits
  <1>3. QED BY <1>1, <1>2

(* Serving the cached bytes at the end of try_serve_from_cache.            *)
LEMMA ServeParsedFits ==
    ASSUME Alone, SoloInv, NEW p \in Procs, pc[p] \notin {"idle", "done"},
           NEW m, ServeParsed(p, m), index' # NONE, m.bytes = index'
    PROVE  ProcessFits'
  BY FinishFits, ToEpochFits DEF ServeParsed

-----------------------------------------------------------------------------
(* Every step keeps ProcessFits and FilesFit.                              *)

(* What the one process and the files are in.                              *)
LEMMA SoloFacts ==
    ASSUME SoloInv, NEW p \in Procs
    PROVE  /\ mem[p] \in Memory /\ Sound(pc[p], mem[p], conf[p], served)
           /\ Fits(pc[p], mem[p], conf[p], baseline, index)
           /\ FilesFit
           /\ index # NONE => index \in Good
           /\ baseline # NONE => baseline \in Good
  BY DEF SoloInv, IInv, TypeOK, ProcessType, ProcessInv, ProcessFits, CacheParses

(* try_serve_from_cache: the index file is read once, and does not change. *)
LEMMA ServeFits ==
    ASSUME Alone, SoloInv, NEW p \in Procs,
           ServeIndex(p) \/ ServeMarker(p) \/ ServeStat(p) \/ ServeUnmark(p)
              \/ ServeBundle(p)
    PROVE  ProcessFits' /\ FilesFit'
  <1>1. /\ UNCHANGED <<index, baseline, lax>>
        /\ pc[p] \in {"serve-index", "serve-marker", "serve-stat", "serve-unmark", "serve-bundle"}
    BY DEF ServeIndex, ServeMarker, ServeStat, ServeUnmark, ServeBundle, files, ghosts
  <1>2. mem[p] \in Memory /\ Fits(pc[p], mem[p], conf[p], baseline, index) /\ FilesFit
    BY SoloFacts
  <1>3. FilesFit'
    BY <1>1, <1>2 DEF FilesFit
  <1>4. pc[p] \notin {"idle", "done"}
    BY <1>1
  <1>5. ASSUME NEW l \in {"serve-marker", "serve-stat", "serve-unmark", "serve-bundle", "fetch"}
        PROVE  l \notin {"idle", "done"}
    OBVIOUS
  <1>6. ASSUME NEW l \in {"serve-marker", "serve-stat", "serve-unmark", "serve-bundle", "fetch"},
               NEW m, l \in CachedAt => index # NONE /\ m.bytes = index
        PROVE  Fits(l, m, conf[p], baseline', index')
    BY <1>1, <1>6 DEF Fits, DecidedAt
  <1>7. CASE ServeIndex(p)
    <2> DEFINE m == [mem[p] EXCEPT !.bytes = index, !.sidecar = "cached"]
    <2>1. CASE index = NONE
      BY <1>3, <1>4, <1>7, <2>1, FinishFits DEF ServeIndex
    <2>2. CASE index # NONE
      <3>1. m.bytes = index
        BY <1>2 DEF Memory
      <3>2. \/ ServeParsed(p, m)
            \/ Goto(p, "serve-marker", m)
        BY <1>7, <2>2 DEF ServeIndex
      <3> HIDE DEF m
      <3>3. QED BY <1>1, <1>3, <1>4, <1>5, <1>6, <2>2, <3>1, <3>2, ServeParsedFits, GotoFits
    <2>3. QED BY <2>1, <2>2
  <1>8. CASE ServeMarker(p)
    <2> DEFINE m == [mem[p] EXCEPT !.verif = "BundleMissing"]
    <2>1. index # NONE /\ mem[p].bytes = index /\ m.bytes = index
      BY <1>2, <1>8 DEF ServeMarker, Fits, CachedAt, Memory
    <2>2. \/ Goto(p, "serve-stat", mem[p])
          \/ Finish(p, "BundleMissing")
          \/ ServeParsed(p, m)
      BY <1>8 DEF ServeMarker
    <2> HIDE DEF m
    <2>3. QED BY <1>1, <1>3, <1>4, <1>5, <1>6, <2>1, <2>2, FinishFits, ServeParsedFits, GotoFits
  <1>9. CASE ServeStat(p)
    <2>1. index # NONE /\ mem[p].bytes = index
      BY <1>2, <1>9 DEF ServeStat, Fits, CachedAt
    <2>2. Goto(p, "serve-bundle", mem[p]) \/ Goto(p, "serve-unmark", mem[p])
      BY <1>9 DEF ServeStat
    <2>3. QED BY <1>1, <1>3, <1>4, <1>5, <1>6, <2>1, <2>2, GotoFits
  <1>10. CASE ServeUnmark(p)
    <2> DEFINE m == [Blank EXCEPT !.recovery = TRUE]
    <2>1. Finish(p, "MILPA-INDEX-UNREACHABLE") \/ Goto(p, "fetch", m)
      BY <1>10 DEF ServeUnmark
    <2>2. "fetch" \notin CachedAt
      BY DEF CachedAt
    <2> HIDE DEF m
    <2>3. QED BY <1>1, <1>3, <1>4, <1>5, <1>6, <2>1, <2>2, FinishFits, GotoFits
  <1>11. CASE ServeBundle(p)
    <2> DEFINE v == Verify(mem[p].bytes, bundle, FALSE)
               m == [mem[p] EXCEPT !.bundle = bundle, !.verif = v]
    <2>1. index # NONE /\ mem[p].bytes = index /\ m.bytes = index
      BY <1>2, <1>11 DEF ServeBundle, Fits, CachedAt, Memory
    <2>2. \/ Finish(p, "MILPA-INTERNAL-IO")
          \/ bundle # NONE /\ Finish(p, v)
          \/ ServeParsed(p, m)
      BY <1>11 DEF ServeBundle
    <2>3. bundle # NONE => v # "minted"
      <3>1. bundle # NONE => bundle \in Bundles
        BY DEF SoloInv, IInv, TypeOK, FilesType, Opt
      <3>2. bundle # NONE => v \in Results
        BY <3>1, VerifyType
      <3>3. QED BY <3>2 DEF Results
    <2> HIDE DEF m, v
    <2>4. QED BY <1>1, <1>3, <1>4, <2>1, <2>2, <2>3, FinishFits, ServeParsedFits
  <1>12. QED BY <1>7, <1>8, <1>9, <1>10, <1>11

(* The fetch and the ratchet gate: what the gate decides on is the         *)
(* baseline file as it still is.                                           *)
LEMMA GateFits ==
    ASSUME Alone, SoloInv, NEW p \in Procs,
           FetchFails(p) \/ Fetch(p) \/ GateBaseline(p) \/ GateMeta(p)
    PROVE  ProcessFits' /\ FilesFit'
  <1>1. /\ UNCHANGED <<index, baseline, lax>>
        /\ pc[p] \in {"fetch", "gate-baseline", "gate-meta"}
    BY DEF FetchFails, Fetch, GateBaseline, GateMeta, files, ghosts
  <1>2. /\ mem[p] \in Memory /\ Fits(pc[p], mem[p], conf[p], baseline, index)
        /\ Sound(pc[p], mem[p], conf[p], served) /\ FilesFit
    BY SoloFacts
  <1>3. FilesFit'
    BY <1>1, <1>2 DEF FilesFit
  <1>4. pc[p] \notin {"idle", "done"}
    BY <1>1
  <1>5. ASSUME NEW l \in {"serve-index", "gate-baseline"}, NEW m, Goto(p, l, m)
        PROVE  ProcessFits'
    <2>1. Fits(l, m, conf[p], baseline', index')
      BY DEF Fits, CachedAt, DecidedAt
    <2>2. l \notin {"idle", "done"}
      OBVIOUS
    <2>3. QED BY <1>4, <1>5, <2>1, <2>2, GotoFits
  <1>6. CASE FetchFails(p)
    <2>1. \/ Finish(p, "MILPA-INDEX-UNREACHABLE")
          \/ \E m : Goto(p, "serve-index", m)
      BY <1>6 DEF FetchFails
    <2>2. QED BY <1>3, <1>4, <1>5, <2>1, FinishFits
  <1>7. CASE Fetch(p)
    <2>1. PICK b \in Bytes, r \in BundleReplies, stale \in BOOLEAN :
            LET v == FetchVerdict(conf[p], mem[p].recovery, b, r, stale) IN
            \/ v.error # "ok" /\ Finish(p, v.error)
            \/ \E m : Goto(p, "gate-baseline", m)
      BY <1>7 DEF Fetch
    <2> DEFINE v == FetchVerdict(conf[p], mem[p].recovery, b, r, stale)
    <2>2. v.error # "ok" => v.error # "minted"
      <3>1. mem[p].recovery \in BOOLEAN
        BY <1>2 DEF Memory
      <3>2. VerdictFits(v, conf[p], b, r)
        BY <3>1, FetchVerdictType
      <3> HIDE DEF v
      <3>3. QED BY <3>2 DEF VerdictFits, Errors
    <2>3. (v.error # "ok" /\ Finish(p, v.error)) \/ \E m : Goto(p, "gate-baseline", m)
      BY <2>1
    <2> HIDE DEF v
    <2>4. QED BY <1>3, <1>4, <1>5, <2>2, <2>3, FinishFits
  <1>8. CASE GateBaseline(p)
    <2> DEFINE m == [mem[p] EXCEPT
                        !.base = IF conf[p].history = "off" THEN NONE ELSE baseline]
    <2>1. Goto(p, "gate-meta", m)
      BY <1>8 DEF GateBaseline
    <2>2. m.base = IF conf[p].history = "off" THEN NONE ELSE baseline
      BY <1>2 DEF Memory
    <2> HIDE DEF m
    <2>3. Fits("gate-meta", m, conf[p], baseline', index')
      BY <1>1, <2>2 DEF Fits, CachedAt, DecidedAt
    <2>4. QED BY <1>3, <1>4, <2>1, <2>3, GotoFits
  <1>9. CASE GateMeta(p)
    <2> DEFINE d == EvaluateGate(conf[p].history, mem[p].bytes, mem[p].base, meta)
               m == [mem[p] EXCEPT !.dec = d, !.base = NONE]
               l == FirstWrite(mem[p].sidecar)
    <2>1. /\ mem[p].bytes \in Bytes /\ mem[p].base \in Opt(Bytes)
          /\ mem[p].sidecar \in {"keep", "bundle", "marker"}
          /\ mem[p].base = IF conf[p].history = "off" THEN NONE ELSE baseline
      BY <1>2, <1>9 DEF GateMeta, Sound, Memory, Fits
    <2>2. d.error # "ok" => d.error \in Errors
      BY <2>1, EvaluateGateType
    <2>3. CASE d.error # "ok"
      <3>1. Finish(p, d.error)
        BY <1>9, <2>3 DEF GateMeta
      <3>2. d.error # "minted"
        BY <2>2, <2>3 DEF Errors
      <3> HIDE DEF d
      <3>3. QED BY <1>3, <1>4, <3>1, <3>2, FinishFits
    <2>4. CASE d.error = "ok"
      <3>1. Goto(p, l, m)
        BY <1>9, <2>4 DEF GateMeta
      <3>2. /\ d.advance => conf[p].history # "off" /\ Follows(mem[p].base, mem[p].bytes)
            /\ conf[p].history = "strict" => d.advance
        BY <2>1, <2>4, GateFollows
      <3> HIDE DEF d
      <3>3. m.bytes = mem[p].bytes /\ m.dec = d
        BY <1>2 DEF Memory
      <3> HIDE DEF m
      <3>4. l \in {"write-unmark", "write-mark", "write-index"}
        BY <2>1 DEF FirstWrite
      <3> HIDE DEF l
      <3>5. Fits(l, m, conf[p], baseline', index')
        BY <1>1, <2>1, <3>2, <3>3, <3>4 DEF Fits, CachedAt
      <3>6. l \notin {"idle", "done"}
        BY <3>4
      <3>7. QED BY <1>3, <1>4, <3>1, <3>5, <3>6, GotoFits
    <2>5. QED BY <2>3, <2>4
  <1>10. QED BY <1>6, <1>7, <1>8, <1>9

(* The writes: the index file becomes what the gate let through, and the   *)
(* baseline what the index file is.                                        *)
LEMMA WriteFits ==
    ASSUME Alone, SoloInv, NEW p \in Procs,
           WriteUnmark(p) \/ WriteBundle(p) \/ WriteMark(p) \/ WriteIndex(p)
              \/ WriteStamp(p) \/ WriteBaseline(p) \/ WriteMeta(p) \/ WriteFails(p)
    PROVE  ProcessFits' /\ FilesFit'
  <1> DEFINE m == mem[p]
             b == m.bytes
  <1>1. /\ m \in Memory /\ Fits(pc[p], m, conf[p], baseline, index)
        /\ Sound(pc[p], m, conf[p], served) /\ FilesFit
    BY SoloFacts
  <1>2. pc[p] \in Writing
    BY DEF WriteUnmark, WriteBundle, WriteMark, WriteIndex, WriteStamp, WriteBaseline,
           WriteMeta, WriteFails, Writing
  <1>3. pc[p] \notin {"idle", "done"} /\ b \in Good /\ b # NONE
    BY <1>1, <1>2, BytesAssumption DEF Writing, Sound, Good
  <1>4. \A l \in Writing : l \notin {"idle", "done"}
    BY DEF Writing
  <1>5. ASSUME UNCHANGED <<index, baseline, lax>> PROVE FilesFit'
    BY <1>1, <1>5 DEF FilesFit
  <1>6. CASE WriteUnmark(p) \/ WriteBundle(p) \/ WriteMark(p)
    <2>1. /\ UNCHANGED <<index, baseline, lax>> /\ pc[p] \in DecidedAt
          /\ Goto(p, "write-bundle", m) \/ Goto(p, "write-index", m)
      BY <1>6 DEF WriteUnmark, WriteBundle, WriteMark, DecidedAt, ghosts
    <2>2. \A l \in {"write-bundle", "write-index"} : Fits(l, m, conf[p], baseline', index')
      BY <1>1, <2>1 DEF Fits, CachedAt
    <2>3. {"write-bundle", "write-index"} \subseteq Writing
      BY DEF Writing
    <2> HIDE DEF m
    <2>4. QED BY <1>3, <1>4, <1>5, <2>1, <2>2, <2>3, GotoFits
  <1>7. CASE WriteIndex(p)
    <2>1. /\ index' = b /\ baseline' = baseline /\ pc[p] = "write-index"
          /\ ~lax' => conf[p].history = "strict"
          /\ Goto(p, "write-stamp", m)
      BY <1>7 DEF WriteIndex
    <2>2. /\ m.dec.advance => Follows(baseline, b)
          /\ conf[p].history = "strict" => m.dec.advance
      BY <1>1, <2>1 DEF Fits, DecidedAt
    <2>3. Fits("write-stamp", m, conf[p], baseline', index')
      BY <1>3, <2>1, <2>2 DEF Fits
    <2>4. FilesFit'
      BY <2>1, <2>2 DEF FilesFit, Follows
    <2>5. "write-stamp" \in Writing
      BY DEF Writing
    <2> HIDE DEF m
    <2>6. QED BY <1>3, <1>4, <2>1, <2>3, <2>4, <2>5, GotoFits
  <1>8. CASE WriteStamp(p)
    <2>1. /\ UNCHANGED <<index, baseline, lax>> /\ pc[p] = "write-stamp"
          /\ \/ m.dec.advance /\ Goto(p, "write-baseline", m)
             \/ Goto(p, "write-meta", m)
             \/ ToEpoch(p, m)
      BY <1>8 DEF WriteStamp, ghosts
    <2>2. index # NONE /\ b = index /\ (m.dec.advance => Follows(baseline, b))
      BY <1>1, <2>1 DEF Fits, CachedAt, DecidedAt
    <2>3. /\ m.dec.advance => Fits("write-baseline", m, conf[p], baseline', index')
          /\ Fits("write-meta", m, conf[p], baseline', index')
      BY <2>1, <2>2 DEF Fits, DecidedAt
    <2>4. {"write-baseline", "write-meta"} \subseteq Writing
      BY DEF Writing
    <2> HIDE DEF m
    <2>5. QED BY <1>3, <1>4, <1>5, <2>1, <2>2, <2>3, <2>4, GotoFits, ToEpochFits
  <1>9. CASE WriteBaseline(p)
    <2>1. /\ baseline' = b /\ index' = index /\ pc[p] = "write-baseline"
          /\ Goto(p, "write-meta", m)
      BY <1>9 DEF WriteBaseline
    <2>2. index # NONE /\ b = index
      BY <1>1, <2>1 DEF Fits, CachedAt
    <2>3. Dominates(Doc[b], Doc[b])
      <3>1. Doc[b] \in IndexState
        BY <1>3, BytesAssumption DEF Good, Opt
      <3>2. QED BY <3>1, DominatesItself
    <2>4. FilesFit'
      BY <2>1, <2>2, <2>3 DEF FilesFit, Follows
    <2>5. Fits("write-meta", m, conf[p], baseline', index')
      BY <2>1, <2>2 DEF Fits, DecidedAt
    <2>6. "write-meta" \in Writing
      BY DEF Writing
    <2> HIDE DEF m
    <2>7. QED BY <1>3, <1>4, <2>1, <2>4, <2>5, <2>6, GotoFits
  <1>10. CASE WriteMeta(p)
    <2>1. UNCHANGED <<index, baseline, lax>> /\ pc[p] = "write-meta" /\ ToEpoch(p, m)
      BY <1>10 DEF WriteMeta, ghosts
    <2>2. index # NONE /\ b = index
      BY <1>1, <2>1 DEF Fits, CachedAt
    <2> HIDE DEF m
    <2>3. QED BY <1>3, <1>5, <2>1, <2>2, ToEpochFits
  <1>11. CASE WriteFails(p)
    <2>1. UNCHANGED <<index, baseline, lax>> /\ Finish(p, "MILPA-INTERNAL-IO")
      BY <1>11 DEF WriteFails, files, ghosts
    <2>2. QED BY <1>3, <1>5, <2>1, FinishFits
  <1>12. QED BY <1>6, <1>7, <1>8, <1>9, <1>10, <1>11

(* The epoch fold mints the bytes it was given, which the index file still *)
(* holds.                                                                  *)
LEMMA EpochFits ==
    ASSUME Alone, SoloInv, NEW p \in Procs,
           EpochPointer(p) \/ EpochSettled(p) \/ EpochFetched(p) \/ EpochInvalid(p)
    PROVE  ProcessFits' /\ FilesFit'
  <1>1. UNCHANGED <<index, baseline, lax>> /\ pc[p] \in {"epoch-pointer", "epoch-sidecar"}
    BY DEF EpochPointer, EpochSettled, EpochFetched, EpochInvalid, files, ghosts
  <1>2. mem[p] \in Memory /\ Fits(pc[p], mem[p], conf[p], baseline, index) /\ FilesFit
    BY SoloFacts
  <1>3. FilesFit'
    BY <1>1, <1>2 DEF FilesFit
  <1>4. pc[p] \notin {"idle", "done"} /\ index # NONE /\ mem[p].bytes = index
    BY <1>1, <1>2 DEF Fits, CachedAt
  <1>5. CASE EpochPointer(p)
    <2> DEFINE m == [mem[p] EXCEPT !.pointer = PointerOf(index)]
    <2>1. Goto(p, "epoch-sidecar", m)
      BY <1>5 DEF EpochPointer
    <2>2. m.bytes = index
      BY <1>2, <1>4 DEF Memory
    <2> HIDE DEF m
    <2>3. Fits("epoch-sidecar", m, conf[p], baseline', index')
      BY <1>1, <1>4, <2>2 DEF Fits, DecidedAt
    <2>4. QED BY <1>3, <1>4, <2>1, <2>3, GotoFits
  <1>6. CASE EpochSettled(p) \/ EpochFetched(p) \/ EpochInvalid(p)
    <2>1. PICK status : MintEnforced(p, status)
      BY <1>6 DEF EpochSettled, EpochFetched, EpochInvalid
    <2> DEFINE e == EpochError(conf[p], status)
    <2>2. e # "minted"
      BY DEF EpochError
    <2>3. Right(Minted(mem[p], status), index')
      BY <1>1, <1>4 DEF Right, Minted
    <2>4. Return(p, Minted(mem[p], status)) \/ Finish(p, e)
      BY <2>1 DEF MintEnforced
    <2> HIDE DEF e
    <2>5. QED BY <1>3, <1>4, <2>2, <2>3, <2>4, ReturnFits, FinishFits
  <1>7. QED BY <1>5, <1>6

(* milpa index accept: what it found to differ from the baseline still     *)
(* does when it is written.                                                *)
LEMMA AcceptFits ==
    ASSUME Alone, SoloInv, NEW p \in Procs,
           AcceptFetch(p) \/ AcceptDiff(p) \/ AcceptBaseline(p) \/ AcceptMeta(p)
              \/ AcceptFails(p)
    PROVE  ProcessFits' /\ FilesFit'
  <1>1. /\ UNCHANGED <<index, baseline, lax>> \/ lax'
        /\ pc[p] \in {"accept-fetch", "accept-diff", "accept-baseline", "accept-meta"}
    BY DEF AcceptFetch, AcceptDiff, AcceptBaseline, AcceptMeta, AcceptFails, files, ghosts
  <1>2. mem[p] \in Memory /\ (baseline # NONE => baseline \in Good) /\ FilesFit
    BY SoloFacts
  <1>3. FilesFit'
    BY <1>1, <1>2 DEF FilesFit
  <1>4. pc[p] \notin {"idle", "done"}
    BY <1>1
  <1>5. ASSUME NEW l \in {"accept-diff", "accept-meta"}, NEW m, Goto(p, l, m)
        PROVE  ProcessFits'
    <2>1. Fits(l, m, conf[p], baseline', index') /\ l \notin {"idle", "done"}
      BY DEF Fits, CachedAt, DecidedAt
    <2>2. QED BY <1>4, <1>5, <2>1, GotoFits
  <1>6. CASE AcceptFetch(p)
    <2>1. CASE Finish(p, "MILPA-INDEX-UNREACHABLE")
      BY <1>3, <1>4, <2>1, FinishFits
    <2>2. ASSUME NEW b \in Bytes, NEW r \in BundleReplies, NEW stale \in BOOLEAN,
                 LET e == AcceptVerdict(conf[p].policy, b, r, stale) IN
                 IF e # "ok" THEN Finish(p, e)
                 ELSE Goto(p, "accept-diff", [mem[p] EXCEPT !.bytes = b])
          PROVE  ProcessFits'
      <3> DEFINE e == AcceptVerdict(conf[p].policy, b, r, stale)
      <3>1. e # "ok" => e # "minted"
        BY AcceptVerdictType DEF Errors
      <3>2. (e # "ok" /\ Finish(p, e)) \/ \E m : Goto(p, "accept-diff", m)
        BY <2>2
      <3> HIDE DEF e
      <3>3. QED BY <1>4, <1>5, <3>1, <3>2, FinishFits
    <2>3. QED BY <1>3, <1>6, <2>1, <2>2 DEF AcceptFetch
  <1>7. CASE AcceptDiff(p)
    <2> DEFINE m == [mem[p] EXCEPT !.dec = AdvanceDecision]
    <2>1. baseline' = baseline
      BY <1>7 DEF AcceptDiff, files
    <2>2. m.bytes = mem[p].bytes
      BY <1>2 DEF Memory
    <2>3. \/ Finish(p, "TNG-PARSE")
          \/ Finish(p, "nothing to accept")
          \/ /\ Goto(p, "accept-baseline", m)
             /\ ~ /\ baseline # NONE /\ Doc[baseline] # NONE
                  /\ Dominates(Doc[baseline], Doc[mem[p].bytes])
      BY <1>7 DEF AcceptDiff
    <2> HIDE DEF m
    <2>4. CASE /\ Goto(p, "accept-baseline", m)
               /\ ~ /\ baseline # NONE /\ Doc[baseline] # NONE
                    /\ Dominates(Doc[baseline], Doc[mem[p].bytes])
      <3>1. baseline = NONE \/ ~Follows(baseline, m.bytes)
        BY <1>2, <2>2, <2>4 DEF Follows, Good
      <3>2. Fits("accept-baseline", m, conf[p], baseline', index')
        BY <2>1, <3>1 DEF Fits, CachedAt, DecidedAt
      <3>3. QED BY <1>3, <1>4, <2>4, <3>2, GotoFits
    <2>5. QED BY <1>3, <1>4, <2>3, <2>4, FinishFits
  <1>8. CASE AcceptBaseline(p)
    <2>1. Goto(p, "accept-meta", mem[p])
      BY <1>8 DEF AcceptBaseline
    <2>2. QED BY <1>3, <1>5, <2>1
  <1>9. CASE AcceptMeta(p) \/ AcceptFails(p)
    <2>1. Finish(p, "accepted") \/ Finish(p, "TNG-INDEX-BASELINE-WRITE-FAILED")
      BY <1>9 DEF AcceptMeta, AcceptFails
    <2>2. QED BY <1>3, <1>4, <2>1, FinishFits
  <1>10. QED BY <1>6, <1>7, <1>8, <1>9

(* A verb starts; a process dies or exits.                                 *)
LEMMA StartFits ==
    ASSUME Alone, SoloInv, NEW p \in Procs,
           StartLoad(p) \/ StartAccept(p) \/ Crash(p) \/ Exit(p)
    PROVE  ProcessFits' /\ FilesFit'
  <1>1. UNCHANGED <<index, baseline, lax>>
    BY DEF StartLoad, StartAccept, Crash, Exit, Gone, files, ghosts
  <1>2. FilesFit'
    BY <1>1, SoloFacts DEF FilesFit
  <1>3. \A q \in Procs : q = p
    BY DEF Alone
  <1>4. TypeOK
    BY DEF SoloInv, IInv
  <1>5. CASE StartLoad(p)
    <2>1. pc'[p] \in {"serve-index", "fetch"} /\ pc[p] = "idle" /\ out'[p] = out[p]
      BY <1>4, <1>5 DEF StartLoad, TypeOK, ProcessType
    <2>2. out[p].result # "minted"
      BY <2>1 DEF SoloInv, ProcessFits
    <2>3. Fits(pc'[p], mem'[p], conf'[p], baseline', index')
      BY <2>1 DEF Fits, CachedAt, DecidedAt
    <2>4. QED BY <1>2, <1>3, <2>1, <2>2, <2>3 DEF ProcessFits
  <1>6. CASE StartAccept(p)
    <2>1. /\ pc'[p] = "accept-fetch" /\ pc[p] = "idle" /\ out'[p] = out[p]
      BY <1>4, <1>6 DEF StartAccept, TypeOK, ProcessType
    <2>2. out[p].result # "minted"
      BY <2>1 DEF SoloInv, ProcessFits
    <2>3. Fits(pc'[p], mem'[p], conf'[p], baseline', index')
      BY <2>1 DEF Fits, CachedAt, DecidedAt
    <2>4. QED BY <1>2, <1>3, <2>1, <2>2, <2>3 DEF ProcessFits
  <1>7. CASE Crash(p) \/ Exit(p)
    <2>1. pc'[p] = "idle" /\ out'[p] = NoOutcome
      BY <1>4, <1>7 DEF Crash, Exit, Gone, TypeOK, ProcessType
    <2>2. NoOutcome.result # "minted"
      BY DEF NoOutcome
    <2>3. Fits(pc'[p], mem'[p], conf'[p], baseline', index')
      BY <2>1 DEF Fits, CachedAt, DecidedAt
    <2>4. QED BY <1>2, <1>3, <2>1, <2>2, <2>3 DEF ProcessFits
  <1>8. QED BY <1>5, <1>6, <1>7

(* The empty cache satisfies the invariant.                                *)
LEMMA SoloInit == Init => SoloInv
  <1> SUFFICES ASSUME Init PROVE SoloInv
    OBVIOUS
  <1>1. IInv
    BY InitSafe
  <1>2. NoOutcome.result # "minted"
    BY DEF NoOutcome
  <1>3. ProcessFits
    BY <1>2 DEF Init, ProcessFits, Fits, CachedAt, DecidedAt
  <1>4. FilesFit
    BY DEF Init, FilesFit
  <1>5. QED BY <1>1, <1>3, <1>4 DEF SoloInv

(* Every step of the one process keeps it.                                 *)
LEMMA SoloNext == ASSUME Alone PROVE SoloInv /\ [Next]_vars => SoloInv'
  <1> SUFFICES ASSUME SoloInv, [Next]_vars PROVE SoloInv'
    OBVIOUS
  <1>1. IInv'
    BY NextSafe DEF SoloInv
  <1>2. ASSUME NEW p \in Procs, Step(p) PROVE ProcessFits' /\ FilesFit'
    BY <1>2, ServeFits, GateFits, WriteFits, EpochFits, AcceptFits DEF Step
  <1>3. ASSUME NEW p \in Procs, StartLoad(p) \/ StartAccept(p) \/ Crash(p) \/ Exit(p)
        PROVE  ProcessFits' /\ FilesFit'
    BY <1>3, StartFits
  <1>4. ASSUME Expire \/ UNCHANGED vars PROVE ProcessFits' /\ FilesFit'
    <2>1. UNCHANGED <<index, baseline, pc, conf, mem, out, lax>>
      BY <1>4 DEF Expire, vars, files, ghosts
    <2>2. QED BY <2>1 DEF SoloInv, ProcessFits, FilesFit
  <1>5. ProcessFits' /\ FilesFit'
    BY <1>2, <1>3, <1>4 DEF Next
  <1>6. QED BY <1>1, <1>5 DEF SoloInv

-----------------------------------------------------------------------------
(* The baseline file implements the register of IndexHistory.              *)

\* The register as the files and the one process show it.
Register == IF baseline = NONE THEN NONE ELSE Doc[baseline]
Accepting == \E p \in Procs : pc[p] = "accept-baseline"

(* The dominance of IndexHistory is that of IndexRatchet.                  *)
LEMMA SameDominance ==
    ASSUME NEW s, NEW c PROVE History!Dominates(s, c) <=> Dominates(s, c)
  BY DEF History!Dominates, History!Check, History!RootViolations, History!RollbackViolation,
         History!EntryViolations, History!Keys, History!RootKind, History!EntryKind,
         History!RootFields, History!EntryFields, History!CandidateValue, History!DeclPair,
         History!DominatesSetOnce, History!DominatesAppendOnce, History!DominatesOrdinal,
         History!AsOrdinal, History!DominatesAttestation, History!DominatesMultiset,
         History!DominatesLockstep,
         Dominates, Check, RootViolations, RollbackViolation, EntryViolations, Keys, RootKind,
         EntryKind, RootFields, EntryFields, CandidateValue, DeclPair, DominatesSetOnce,
         DominatesAppendOnce, DominatesOrdinal, AsOrdinal, DominatesAttestation,
         DominatesMultiset, DominatesLockstep

(* Only a load's and an accept's own write replace the baseline file.      *)
LEMMA BaselineWriters ==
    ASSUME [Next]_vars, baseline' # baseline
    PROVE  \E p \in Procs : WriteBaseline(p) \/ AcceptBaseline(p)
  <1>1. CASE Expire \/ UNCHANGED vars
    BY <1>1 DEF Expire, vars, files
  <1>2. ASSUME NEW p \in Procs, StartLoad(p) \/ StartAccept(p) \/ Crash(p) \/ Exit(p)
        PROVE  UNCHANGED baseline
    BY <1>2 DEF StartLoad, StartAccept, Crash, Exit, Gone, files
  <1>3. ASSUME NEW p \in Procs, Step(p), ~WriteBaseline(p), ~AcceptBaseline(p)
        PROVE  UNCHANGED baseline
    <2>1. CASE \/ ServeIndex(p) \/ ServeMarker(p) \/ ServeStat(p) \/ ServeUnmark(p)
               \/ ServeBundle(p) \/ FetchFails(p) \/ Fetch(p) \/ GateBaseline(p) \/ GateMeta(p)
      BY <2>1 DEF ServeIndex, ServeMarker, ServeStat, ServeUnmark, ServeBundle, FetchFails,
                  Fetch, GateBaseline, GateMeta, files
    <2>2. CASE \/ WriteUnmark(p) \/ WriteBundle(p) \/ WriteMark(p) \/ WriteIndex(p)
               \/ WriteStamp(p) \/ WriteMeta(p) \/ WriteFails(p)
      BY <2>2 DEF WriteUnmark, WriteBundle, WriteMark, WriteIndex, WriteStamp, WriteMeta,
                  WriteFails, files
    <2>3. CASE \/ EpochPointer(p) \/ EpochSettled(p) \/ EpochFetched(p) \/ EpochInvalid(p)
               \/ AcceptFetch(p) \/ AcceptDiff(p) \/ AcceptMeta(p) \/ AcceptFails(p)
      BY <2>3 DEF EpochPointer, EpochSettled, EpochFetched, EpochInvalid, AcceptFetch,
                  AcceptDiff, AcceptMeta, AcceptFails, files
    <2>4. QED BY <1>3, <2>1, <2>2, <2>3 DEF Step
  <1>4. QED BY <1>1, <1>2, <1>3 DEF Next

(* A step of the cache is a step of the register, or none.                 *)
LEMMA RegisterStep ==
    ASSUME Alone, SoloInv, [Next]_vars
    PROVE  [History!Next]_<<Register, Accepting>>
  <1>1. CASE baseline' = baseline
    <2>1. Register' = Register
      BY <1>1 DEF Register
    <2>2. CASE Accepting' = Accepting
      BY <2>1, <2>2
    <2>3. CASE Accepting' # Accepting
      <3>1. \/ ~Accepting /\ Accepting' = TRUE
            \/ Accepting /\ Accepting' = FALSE
        BY <2>3 DEF Accepting
      <3>2. History!Request \/ History!Withdraw
        BY <2>1, <3>1 DEF History!Request, History!Withdraw, Register, Accepting
      <3>3. QED BY <3>2 DEF History!Next
    <2>4. QED BY <2>2, <2>3
  <1>2. CASE baseline' # baseline
    <2>1. PICK p \in Procs : WriteBaseline(p) \/ AcceptBaseline(p)
      BY <1>2, BaselineWriters
    <2> DEFINE b == mem[p].bytes
    <2>2. /\ Fits(pc[p], mem[p], conf[p], baseline, index)
          /\ Sound(pc[p], mem[p], conf[p], served)
          /\ baseline # NONE => baseline \in Good
          /\ pc \in [Procs -> Labels]
      BY SoloFacts DEF SoloInv, IInv, TypeOK, ProcessType
    <2>3. \A q \in Procs : q = p
      BY DEF Alone
    <2>4. b \in Good /\ b # NONE /\ baseline' = b
      BY <2>1, <2>2, BytesAssumption
         DEF WriteBaseline, AcceptBaseline, Sound, Writing, Good
    <2>5. /\ Register' = Doc[b] /\ Doc[b] \in {Doc[x] : x \in Good}
          /\ Register = NONE <=> baseline = NONE
          /\ baseline # NONE => Register = Doc[baseline]
      BY <2>2, <2>4 DEF Register, Good
    <2>6. ASSUME History!Establish(Doc[b]) \/ History!Advance(Doc[b]) \/ History!Accept(Doc[b])
          PROVE  History!Next
      <3> DEFINE d == Doc[b]
      <3>1. /\ d \in {Doc[x] : x \in Good}
            /\ History!Establish(d) \/ History!Advance(d) \/ History!Accept(d)
        BY <2>5, <2>6
      <3> HIDE DEF d
      <3>2. \E c \in {Doc[x] : x \in Good} :
                History!Establish(c) \/ History!Advance(c) \/ History!Accept(c)
        BY <3>1 DEF History!Establish, History!Advance, History!Accept
      <3>3. QED BY <3>2 DEF History!Next
    <2>7. CASE WriteBaseline(p)
      <3>1. pc[p] = "write-baseline" /\ pc'[p] = "write-meta"
        BY <2>2, <2>7 DEF WriteBaseline, Goto
      <3>2. ~Accepting /\ ~Accepting'
        BY <2>3, <3>1 DEF Accepting
      <3>3. Follows(baseline, b)
        BY <2>2, <3>1 DEF Fits
      <3>4. CASE baseline = NONE
        <4>1. History!Establish(Doc[b])
          BY <2>5, <3>2, <3>4 DEF History!Establish, Register, Accepting
        <4>2. QED BY <2>6, <4>1
      <3>5. CASE baseline # NONE
        <4>1. History!Dominates(Doc[baseline], Doc[b])
          BY <3>3, <3>5, SameDominance DEF Follows
        <4>2. History!Advance(Doc[b])
          BY <2>5, <3>2, <3>5, <4>1 DEF History!Advance, Register, Accepting
        <4>3. QED BY <2>6, <4>2
      <3>6. QED BY <3>4, <3>5
    <2>8. CASE AcceptBaseline(p)
      <3>1. pc[p] = "accept-baseline" /\ pc'[p] = "accept-meta"
        BY <2>2, <2>8 DEF AcceptBaseline, Goto
      <3>2. Accepting /\ Accepting' = FALSE
        BY <2>3, <3>1 DEF Accepting
      <3>3. baseline # NONE => ~History!Dominates(Doc[baseline], Doc[b])
        BY <2>2, <3>1, SameDominance DEF Fits, Follows
      <3>4. History!Accept(Doc[b])
        BY <2>5, <3>2, <3>3 DEF History!Accept, Register, Accepting
      <3>5. QED BY <2>6, <3>4
    <2>9. QED BY <2>1, <2>7, <2>8
  <1>3. QED BY <1>1, <1>2

(* The empty cache is the empty register.                                  *)
LEMMA RegisterInit == Init => History!Init
  BY DEF Init, History!Init

-----------------------------------------------------------------------------
(* The theorems.                                                           *)

(* The invariant holds while one process runs at a time.                   *)
LEMMA SoloAlways == ASSUME Alone PROVE Spec => []SoloInv
  BY SoloInit, SoloNext, PTL DEF Spec

(* While one process runs at a time, the baseline file implements the      *)
(* history register: however loads under different policies, accepts,      *)
(* crashes and failed writes follow each other, it moves only to what      *)
(* dominates it, or by an accept (evaluate_gate, apply_ratchet_writes).    *)
THEOREM BaselineAlwaysRatchets == ASSUME Alone PROVE Spec => BaselineRatchets
  <1>1. SoloInv /\ [Next]_vars => [History!Next]_<<Register, Accepting>>
    BY RegisterStep
  <1>2. QED BY <1>1, RegisterInit, SoloAlways, PTL
            DEF Spec, BaselineRatchets, History!Spec, Register, Accepting

(* While one process runs at a time, only loads under index-history        *)
(* "strict" have replaced the index file and nothing was accepted, what a  *)
(* load under any policy returns dominates the baseline, from the network  *)
(* or from the cache, also when the write of the baseline was lost.        *)
THEOREM StrictHistoryAlways == ASSUME Alone PROVE Spec => []StrictHistoryHolds
  <1>1. SoloInv => StrictHistoryHolds
    <2> SUFFICES ASSUME SoloInv, NEW p \in Procs,
                        out[p].result = "minted", ~lax, baseline # NONE
                 PROVE  Dominates(Doc[baseline], Doc[out[p].bytes])
      BY DEF StrictHistoryHolds
    <2>1. Right(out[p], index)
      BY DEF SoloInv, ProcessFits
    <2>2. index # NONE /\ out[p].bytes = index
      BY <2>1 DEF Right
    <2>3. QED BY <2>2 DEF SoloInv, FilesFit, Follows
  <1>2. QED BY <1>1, SoloAlways, PTL
=============================================================================
