-------------------------- MODULE IndexCacheProofs --------------------------
(***************************************************************************)
(* For any number of processes, documents, bundles and configurations, and *)
(* with any crashes and failed writes: the state of the index cache is     *)
(* well typed, its files always parse, its baseline was always served, and *)
(* what is minted under "strict" is attested.                              *)
(***************************************************************************)
EXTENDS IndexCache, TLAPS

-----------------------------------------------------------------------------
(* The inductive invariant.  A process that has fetched, vetted, shown or  *)
(* had attested what it holds in memory is recognised by its label.        *)

Writing ==
    {"write-unmark", "write-bundle", "write-mark", "write-index", "write-stamp",
     "write-baseline", "write-meta"}

AttestedAt ==
    Writing \cup {"gate-baseline", "gate-meta", "epoch-pointer", "epoch-sidecar"}

\* A record (memory or outcome) whose bundle flawlessly attests its bytes.
Trusting(x) ==
    x.bundle # NONE /\ x.bundle.attests = x.bytes /\ x.bundle.flaw = "none"

\* What memory m may be at label l, under configuration c, when s is served.
Sound(l, m, c, s) ==
    /\ l \in {"gate-baseline", "gate-meta", "accept-diff"} => m.bytes \in Bytes
    /\ l \in {"gate-baseline", "gate-meta"} => m.sidecar # "cached"
    /\ l \in Writing \cup {"accept-baseline", "accept-meta"} => m.bytes \in Good
    /\ l \in {"write-stamp", "write-baseline"} => m.bytes \in s
    /\ l \in AttestedAt /\ c.policy = "strict" => Trusting(m)

\* The labels of a process that has not returned.
Running == Labels \ {"done"}

\* What may be returned under configuration c.
Honest(o, c) == o.result = "minted" /\ c.policy = "strict" => Trusting(o)

ProcessInv ==
    \A p \in Procs :
        /\ Sound(pc[p], mem[p], conf[p], served)
        /\ pc[p] = "done" => Honest(out[p], conf[p])

IInv == TypeOK /\ ProcessInv /\ CacheParses /\ BaselineWasServed

Errors == Slugs \ {"minted"}

-----------------------------------------------------------------------------
(* Facts about the pure operators. *)

(* The memory and the outcome of a process that has done nothing.          *)
LEMMA BlankType == Blank \in Memory /\ NoOutcome \in Outcomes
  BY DEF Blank, NoOutcome, Memory, Outcomes, NoDecision, Decisions, Opt, Slugs

(* The decisions to keep and to advance the baseline (GateDecision).        *)
LEMMA AdvanceType == NoDecision \in Decisions /\ AdvanceDecision \in Decisions
  BY DEF NoDecision, AdvanceDecision, Decisions, Opt, Slugs

(* verify_index_bundle returns a result for every pair, "Trusted" only for *)
(* a flawless bundle that attests the bytes.                               *)
LEMMA VerifyType ==
    ASSUME NEW b, NEW u \in Bundles, NEW stale \in BOOLEAN
    PROVE  /\ Verify(b, u, stale) \in Results
           /\ Verify(b, u, stale) = "Trusted" => u.attests = b /\ u.flaw = "none"
  <1>1. u.flaw \in {"none", "empty", "malformed", "signature", "signer"}
    BY BundlesAssumption
  <1>2. QED BY <1>1 DEF Verify, Results

\* What the verdict v on the download (b, r) under the settings c may be.
VerdictFits(v, c, b, r) ==
    /\ v.error # "ok" => v.error \in Errors
    /\ v.verif \in Opt(Results)
    /\ v.sidecar \in {"keep", "bundle", "marker"}
    /\ v.sidecar = "bundle" => r.bundle \in Bundles
    /\ v.error = "ok" /\ c.policy = "strict" =>
         /\ v.sidecar = "bundle"
         /\ r.bundle.attests = b
         /\ r.bundle.flaw = "none"

(* Every verdict on a fetched pair is an error slug, or "ok" with a        *)
(* verification result and a sidecar disposition; under "strict" it is     *)
(* "ok" only for a bundle that attests the bytes.                          *)
LEMMA FetchVerdictType ==
    ASSUME NEW c, NEW recovery \in BOOLEAN, NEW b \in Bytes,
           NEW r \in BundleReplies, NEW stale \in BOOLEAN
    PROVE  VerdictFits(FetchVerdict(c, recovery, b, r, stale), c, b, r)
  <1>1. CASE r.kind = "bytes"
    <2>1. r.bundle \in Bundles
      BY <1>1 DEF BundleReplies
    <2>2. /\ Verify(b, r.bundle, stale) \in Results
          /\ Verify(b, r.bundle, stale) = "Trusted" =>
                r.bundle.attests = b /\ r.bundle.flaw = "none"
      BY <2>1, VerifyType
    <2>3. QED
      BY <1>1, <2>1, <2>2
         DEF VerdictFits, FetchVerdict, Verdict, Enforced, Opt, Errors, Slugs, Results
  <1>2. CASE r.kind # "bytes"
    BY <1>2 DEF VerdictFits, FetchVerdict, Verdict, Enforced, Opt, Errors, Slugs, Results
  <1>3. QED BY <1>1, <1>2

(* fetch_verified_candidate_text ends in an error slug or "ok".            *)
LEMMA AcceptVerdictType ==
    ASSUME NEW q, NEW b \in Bytes, NEW r \in BundleReplies,
           NEW stale \in BOOLEAN, AcceptVerdict(q, b, r, stale) # "ok"
    PROVE  AcceptVerdict(q, b, r, stale) \in Errors
  <1>1. r.kind = "bytes" => Verify(b, r.bundle, stale) \in Results
    BY VerifyType DEF BundleReplies
  <1>2. QED BY <1>1 DEF AcceptVerdict, Errors, Slugs, Results

(* A strict failure reports one of the three ratchet slugs.                *)
LEMMA PrimaryClassType ==
    ASSUME NEW V
    PROVE  PrimaryClass(V) \in Errors
  BY DEF PrimaryClass, Errors, Slugs

(* The gate decides "ok" only on a candidate that parses. *)
LEMMA EvaluateGateType ==
    ASSUME NEW h, NEW b \in Bytes, NEW base \in Opt(Bytes), NEW rep
    PROVE  LET d == EvaluateGate(h, b, base, rep) IN
           /\ d \in Decisions
           /\ d.error = "ok" => b \in Good
           /\ d.error # "ok" => d.error \in Errors
  <1>1. CASE Doc[b] = NONE
    BY <1>1 DEF EvaluateGate, NoDecision, Decisions, Opt, Errors, Slugs
  <1>2. CASE Doc[b] # NONE /\ (h = "off" \/ base = NONE)
    BY <1>2, AdvanceType DEF EvaluateGate, Good, NoDecision, AdvanceDecision
  <1>3. CASE Doc[b] # NONE /\ h # "off" /\ base # NONE /\ Doc[base] = NONE
    BY <1>3 DEF EvaluateGate, NoDecision, Decisions, Opt, Errors, Slugs
  <1>4. CASE Doc[b] # NONE /\ h # "off" /\ base # NONE /\ Doc[base] # NONE
    <2> DEFINE found == Check(Doc[base], Doc[b])
    <2>1. b \in Good /\ base \in Good
      BY <1>4 DEF Good, Opt
    <2>2. found \in Digests
      BY <2>1 DEF Digests
    <2>3. PrimaryClass(found) \in Errors
      BY PrimaryClassType
    <2>4. QED
      BY <1>4, <2>1, <2>2, <2>3, AdvanceType
         DEF EvaluateGate, NoDecision, AdvanceDecision, Decisions, Opt, Errors
  <1>5. QED BY <1>1, <1>2, <1>3, <1>4

(* The pointer read from a cache file is absent or a value.                *)
LEMMA PointerOfType ==
    ASSUME NEW b \in Opt(Bytes)
    PROVE  PointerOf(b) \in Opt(Values)
  <1>1. b # NONE => Doc[b] \in Opt(IndexState)
    BY BytesAssumption DEF Opt
  <1>2. QED BY <1>1 DEF PointerOf, Opt, IndexState, Root

(* What a load mints is an outcome.                                        *)
LEMMA MintedType ==
    ASSUME NEW m \in Memory, NEW status \in {"Unarmed", "Armed", "ArmingInvalid"}
    PROVE  Minted(m, status) \in Outcomes
  BY DEF Minted, Outcomes, Memory, Slugs

-----------------------------------------------------------------------------
(* The ways a process moves on keep the types and the invariant of every   *)
(* process, given that what is served only grows.                          *)

(* Moving on with well-typed memory that is sound at the new label.        *)
LEMMA GotoSafe ==
    ASSUME TypeOK, ProcessInv, served \subseteq served',
           NEW p \in Procs, NEW l \in Running, NEW m \in Memory,
           Goto(p, l, m), Sound(l, m, conf[p], served')
    PROVE  ProcessType' /\ ProcessInv'
  <1>1. ProcessType'
    BY DEF TypeOK, ProcessType, Goto, Running
  <1>2. ProcessInv'
    <2> SUFFICES ASSUME NEW q \in Procs
                 PROVE  /\ Sound(pc'[q], mem'[q], conf'[q], served')
                        /\ pc'[q] = "done" => Honest(out'[q], conf'[q])
      BY DEF ProcessInv
    <2>1. CASE q = p
      BY <2>1 DEF TypeOK, ProcessType, Goto, ProcessInv, Running
    <2>2. CASE q # p
      <3>1. /\ pc'[q] = pc[q] /\ mem'[q] = mem[q]
            /\ conf'[q] = conf[q] /\ out'[q] = out[q]
        BY <2>2 DEF TypeOK, ProcessType, Goto
      <3>2. QED BY <3>1 DEF ProcessInv, Sound
    <2>3. QED BY <2>1, <2>2
  <1>3. QED BY <1>1, <1>2

(* Returning an honest outcome.                                            *)
LEMMA ReturnSafe ==
    ASSUME TypeOK, ProcessInv, served \subseteq served',
           NEW p \in Procs, NEW o \in Outcomes, Return(p, o), Honest(o, conf[p])
    PROVE  ProcessType' /\ ProcessInv'
  <1>1. ProcessType'
    BY BlankType DEF TypeOK, ProcessType, Return, Labels
  <1>2. ProcessInv'
    <2> SUFFICES ASSUME NEW q \in Procs
                 PROVE  /\ Sound(pc'[q], mem'[q], conf'[q], served')
                        /\ pc'[q] = "done" => Honest(out'[q], conf'[q])
      BY DEF ProcessInv
    <2>1. CASE q = p
      <3>1. pc'[q] = "done" /\ out'[q] = o /\ conf'[q] = conf[p]
        BY <2>1 DEF TypeOK, ProcessType, Return
      <3>2. QED BY <3>1 DEF Sound, Writing, AttestedAt
    <2>2. CASE q # p
      <3>1. /\ pc'[q] = pc[q] /\ mem'[q] = mem[q]
            /\ conf'[q] = conf[q] /\ out'[q] = out[q]
        BY <2>2 DEF TypeOK, ProcessType, Return
      <3>2. QED BY <3>1 DEF ProcessInv, Sound
    <2>3. QED BY <2>1, <2>2
  <1>3. QED BY <1>1, <1>2

(* Returning an error, or the end of an accept.                            *)
LEMMA FinishSafe ==
    ASSUME TypeOK, ProcessInv, served \subseteq served',
           NEW p \in Procs, NEW r \in Errors, Finish(p, r)
    PROVE  ProcessType' /\ ProcessInv'
  <1> DEFINE o == [NoOutcome EXCEPT !.result = r, !.cached = mem[p].sidecar = "cached"]
  <1>1. o \in Outcomes /\ o.result # "minted"
    BY DEF NoOutcome, Outcomes, Opt, Errors
  <1>2. Honest(o, conf[p])
    BY <1>1 DEF Honest
  <1>3. QED BY <1>1, <1>2, ReturnSafe DEF Finish

(* Entering the epoch fold, or minting when index-trust is off.            *)
LEMMA ToEpochSafe ==
    ASSUME TypeOK, ProcessInv, served \subseteq served',
           NEW p \in Procs, NEW m \in Memory, ToEpoch(p, m),
           conf[p].policy = "strict" => Trusting(m)
    PROVE  ProcessType' /\ ProcessInv'
  <1> DEFINE e == [Blank EXCEPT !.bytes = m.bytes, !.bundle = m.bundle,
                                !.verif = m.verif, !.sidecar = m.sidecar]
  <1>1. e \in Memory /\ e.bytes = m.bytes /\ e.bundle = m.bundle
    BY BlankType DEF Blank, Memory
  <1>2. CASE conf[p].policy = "off"
    <2>1. Minted(m, "Unarmed") \in Outcomes
      BY MintedType
    <2>2. Honest(Minted(m, "Unarmed"), conf[p])
      BY <1>2 DEF Honest
    <2>3. QED BY <1>2, <2>1, <2>2, ReturnSafe DEF ToEpoch
  <1>3. CASE conf[p].policy # "off"
    <2>1. "epoch-pointer" \in Running
      BY DEF Labels, Running
    <2>2. Sound("epoch-pointer", e, conf[p], served')
      BY <1>1 DEF Sound, Writing, Trusting
    <2>3. QED BY <1>1, <1>3, <2>1, <2>2, GotoSafe DEF ToEpoch
  <1>4. QED BY <1>2, <1>3

(* Parsing the cached bytes at the end of try_serve_from_cache.            *)
LEMMA ServeParsedSafe ==
    ASSUME TypeOK, ProcessInv, served \subseteq served',
           NEW p \in Procs, NEW m \in Memory, ServeParsed(p, m),
           conf[p].policy = "strict" => Trusting(m)
    PROVE  ProcessType' /\ ProcessInv'
  <1>1. "TNG-PARSE" \in Errors
    BY DEF Errors, Slugs
  <1>2. QED BY <1>1, FinishSafe, ToEpochSafe DEF ServeParsed

-----------------------------------------------------------------------------
(* Every step of try_serve_from_cache keeps the invariant. *)

(* A step that leaves the index, the baseline, meta and the observers'     *)
(* memory alone only has to keep the processes.                            *)
LEMMA QuietFiles ==
    ASSUME IInv, UNCHANGED <<index, baseline, meta, served, lax>>,
           bundle' \in Opt(Bundles), marker' \in BOOLEAN,
           stamp' \in {"fresh", "stale"}, sidecars' \subseteq Values,
           ProcessType' /\ ProcessInv'
    PROVE  IInv'
  BY DEF IInv, TypeOK, FilesType, CacheParses, BaselineWasServed

(* Every step of try_serve_from_cache keeps the invariant.                 *)
LEMMA ServeSafe ==
    ASSUME IInv, NEW p \in Procs,
           ServeIndex(p) \/ ServeMarker(p) \/ ServeStat(p) \/ ServeUnmark(p)
              \/ ServeBundle(p)
    PROVE  IInv'
  <1> USE DEF IInv
  <1>0. /\ mem[p] \in Memory
        /\ served \subseteq served'
        /\ {"serve-marker", "serve-stat", "serve-unmark", "serve-bundle", "fetch"}
                \subseteq Running
        /\ Results \cup {"MILPA-INTERNAL-IO", "MILPA-INDEX-UNREACHABLE"} \subseteq Errors
    BY DEF TypeOK, ProcessType, ServeIndex, ServeMarker, ServeStat, ServeUnmark,
           ServeBundle, ghosts, Labels, Running, Errors, Slugs, Results
  <1>1. CASE ServeIndex(p)
    <2> DEFINE m == [mem[p] EXCEPT !.bytes = index, !.sidecar = "cached"]
    <2>1. m \in Memory
      BY <1>0 DEF TypeOK, FilesType, Memory
    <2>2. Sound("serve-marker", m, conf[p], served')
      BY DEF Sound, Writing, AttestedAt
    <2>3. ProcessType' /\ ProcessInv'
      BY <1>0, <1>1, <2>1, <2>2, FinishSafe, ServeParsedSafe, GotoSafe DEF ServeIndex
    <2>4. QED BY <1>1, <2>3, QuietFiles DEF ServeIndex, files, ghosts, TypeOK, FilesType
  <1>2. CASE ServeMarker(p)
    <2> DEFINE m == [mem[p] EXCEPT !.verif = "BundleMissing"]
    <2>1. m \in Memory
      BY <1>0 DEF Memory, Opt, Results
    <2>2. Sound("serve-stat", mem[p], conf[p], served')
      BY DEF Sound, Writing, AttestedAt
    <2>3. "BundleMissing" \in Errors
      BY <1>0 DEF Results
    <2>4. ProcessType' /\ ProcessInv'
      BY <1>0, <1>2, <2>1, <2>2, <2>3, FinishSafe, ServeParsedSafe, GotoSafe
         DEF ServeMarker, Enforced
    <2>5. QED BY <1>2, <2>4, QuietFiles DEF ServeMarker, files, ghosts, TypeOK, FilesType
  <1>3. CASE ServeStat(p)
    <2>1. /\ Sound("serve-bundle", mem[p], conf[p], served')
          /\ Sound("serve-unmark", mem[p], conf[p], served')
      BY DEF Sound, Writing, AttestedAt
    <2>2. ProcessType' /\ ProcessInv'
      BY <1>0, <1>3, <2>1, GotoSafe DEF ServeStat
    <2>3. bundle' \in Opt(Bundles)
      BY <1>3 DEF ServeStat, BestEffort, TypeOK, FilesType, Opt
    <2>4. QED BY <1>3, <2>2, <2>3, QuietFiles DEF ServeStat, ghosts, TypeOK, FilesType
  <1>4. CASE ServeUnmark(p)
    <2> DEFINE m == [Blank EXCEPT !.recovery = TRUE]
    <2>1. m \in Memory
      BY BlankType DEF Memory
    <2>2. Sound("fetch", m, conf[p], served')
      BY DEF Sound, Writing, AttestedAt
    <2>3. ProcessType' /\ ProcessInv'
      BY <1>0, <1>4, <2>1, <2>2, FinishSafe, GotoSafe DEF ServeUnmark
    <2>4. marker' \in BOOLEAN
      BY <1>4 DEF ServeUnmark, BestEffort, TypeOK, FilesType
    <2>5. QED BY <1>4, <2>3, <2>4, QuietFiles DEF ServeUnmark, ghosts, TypeOK, FilesType
  <1>5. CASE ServeBundle(p)
    <2> DEFINE v == Verify(mem[p].bytes, bundle, FALSE)
               m == [mem[p] EXCEPT !.bundle = bundle, !.verif = v]
    <2>1. CASE bundle = NONE
      <3>1. ProcessType' /\ ProcessInv'
        BY <1>0, <1>5, <2>1, FinishSafe DEF ServeBundle
      <3>2. QED BY <1>5, <3>1, QuietFiles DEF ServeBundle, files, ghosts, TypeOK, FilesType
    <2>2. CASE bundle # NONE
      <3>1. bundle \in Bundles
        BY <2>2 DEF TypeOK, FilesType, Opt
      <3>2. v \in Results /\ (v = "Trusted" =>
                bundle.attests = mem[p].bytes /\ bundle.flaw = "none")
        BY <3>1, VerifyType
      <3>3. m \in Memory /\ m.bytes = mem[p].bytes /\ m.bundle = bundle
        BY <1>0, <3>1, <3>2 DEF Memory, Opt
      <3>4. CASE Enforced(conf[p].policy, v)
        <4>1. v \in Errors
          BY <1>0, <3>2
        <4>2. Finish(p, v)
          BY <1>5, <2>2, <3>4 DEF ServeBundle
        <4>3. QED BY <1>0, <4>1, <4>2, FinishSafe, <1>5, QuietFiles
                  DEF ServeBundle, files, ghosts, TypeOK, FilesType
      <3>5. CASE ~ Enforced(conf[p].policy, v)
        <4>1. conf[p].policy = "strict" => Trusting(m)
          BY <2>2, <3>2, <3>3, <3>5 DEF Enforced, Trusting
        <4>2. ServeParsed(p, m)
          BY <1>5, <2>2, <3>5 DEF ServeBundle
        <4>3. QED BY <1>0, <3>3, <4>1, <4>2, ServeParsedSafe, <1>5, QuietFiles
                  DEF ServeBundle, files, ghosts, TypeOK, FilesType
      <3>6. QED BY <3>4, <3>5
    <2>3. QED BY <2>1, <2>2
  <1>6. QED BY <1>1, <1>2, <1>3, <1>4, <1>5

-----------------------------------------------------------------------------
(* Every step of the network fetch and its gates keeps the invariant. *)

LEMMA FetchSafe ==
    ASSUME IInv, NEW p \in Procs,
           FetchFails(p) \/ Fetch(p) \/ GateBaseline(p) \/ GateMeta(p)
    PROVE  IInv'
  <1> USE DEF IInv
  <1>0. /\ mem[p] \in Memory
        /\ served \subseteq served'
        /\ {"serve-index", "gate-baseline", "gate-meta", "write-unmark", "write-mark",
            "write-index"} \subseteq Running
        /\ "MILPA-INDEX-UNREACHABLE" \in Errors
        /\ Sound(pc[p], mem[p], conf[p], served)
        /\ UNCHANGED <<files, ghosts>>
    BY DEF TypeOK, ProcessType, ProcessInv, FetchFails, Fetch, GateBaseline, GateMeta,
           ghosts, Labels, Running, Errors, Slugs
  <1>f. ProcessType' /\ ProcessInv' => IInv'
    BY <1>0, QuietFiles DEF files, ghosts, TypeOK, FilesType
  <1>1. CASE FetchFails(p)
    <2> DEFINE m == [mem[p] EXCEPT !.offline = TRUE]
    <2>1. m \in Memory
      BY <1>0 DEF Memory
    <2>2. Sound("serve-index", m, conf[p], served')
      BY DEF Sound, Writing, AttestedAt
    <2>3. QED BY <1>0, <1>f, <1>1, <2>1, <2>2, FinishSafe, GotoSafe DEF FetchFails
  <1>2. CASE Fetch(p)
    <2>1. PICK b \in Bytes, r \in BundleReplies, stale \in BOOLEAN :
            LET v == FetchVerdict(conf[p], mem[p].recovery, b, r, stale) IN
            IF v.error # "ok" THEN Finish(p, v.error)
            ELSE Goto(p, "gate-baseline",
                      [mem[p] EXCEPT !.bytes = b, !.verif = v.verif,
                                     !.sidecar = v.sidecar,
                                     !.bundle = IF v.sidecar = "bundle" THEN r.bundle
                                                ELSE NONE])
      BY <1>2 DEF Fetch
    <2> DEFINE v == FetchVerdict(conf[p], mem[p].recovery, b, r, stale)
               m == [mem[p] EXCEPT !.bytes = b, !.verif = v.verif, !.sidecar = v.sidecar,
                        !.bundle = IF v.sidecar = "bundle" THEN r.bundle ELSE NONE]
    <2>2. mem[p].recovery \in BOOLEAN
      BY <1>0 DEF Memory
    <2>3. /\ v.error # "ok" => v.error \in Errors
          /\ v.verif \in Opt(Results)
          /\ v.sidecar \in {"keep", "bundle", "marker"}
          /\ v.sidecar = "bundle" => r.bundle \in Bundles
          /\ v.error = "ok" /\ conf[p].policy = "strict" =>
                /\ v.sidecar = "bundle"
                /\ r.bundle.attests = b
                /\ r.bundle.flaw = "none"
      <3>1. VerdictFits(v, conf[p], b, r)
        <4> HIDE DEF m
        <4>1. QED BY <2>2, FetchVerdictType
      <3> HIDE DEF v, m
      <3>2. QED BY <3>1 DEF VerdictFits
    <2>4. CASE v.error # "ok"
      BY <1>0, <1>f, <2>1, <2>3, <2>4, FinishSafe
    <2>5. CASE v.error = "ok"
      <3> HIDE DEF v
      <3>1. /\ m \in Memory
            /\ m.bytes = b /\ m.sidecar # "cached"
            /\ m.bundle = IF v.sidecar = "bundle" THEN r.bundle ELSE NONE
        BY <1>0, <2>3 DEF Memory, Opt
      <3>2. conf[p].policy = "strict" => Trusting(m)
        BY <2>3, <2>5, <3>1, BundlesAssumption DEF Trusting
      <3>3. Sound("gate-baseline", m, conf[p], served')
        BY <3>1, <3>2 DEF Sound, Writing
      <3>4. Goto(p, "gate-baseline", m)
        BY <2>1, <2>5 DEF v
      <3>5. QED BY <1>0, <1>f, <3>1, <3>3, <3>4, GotoSafe
    <2>6. QED BY <2>4, <2>5
  <1>3. CASE GateBaseline(p)
    <2> DEFINE m == [mem[p] EXCEPT
                        !.base = IF conf[p].history = "off" THEN NONE ELSE baseline]
    <2>1. /\ m \in Memory
          /\ m.bytes = mem[p].bytes /\ m.bundle = mem[p].bundle
          /\ m.sidecar = mem[p].sidecar
      BY <1>0 DEF TypeOK, FilesType, Memory, Opt
    <2>2. Sound("gate-meta", m, conf[p], served')
      BY <1>0, <1>3, <2>1 DEF GateBaseline, Sound, Trusting, Writing, AttestedAt
    <2>3. QED BY <1>0, <1>f, <1>3, <2>1, <2>2, GotoSafe DEF GateBaseline
  <1>4. CASE GateMeta(p)
    <2> DEFINE d == EvaluateGate(conf[p].history, mem[p].bytes, mem[p].base, meta)
               m == [mem[p] EXCEPT !.dec = d, !.base = NONE]
               l == FirstWrite(mem[p].sidecar)
    <2>1. mem[p].bytes \in Bytes /\ mem[p].base \in Opt(Bytes)
      BY <1>0, <1>4 DEF GateMeta, Sound, Memory
    <2>2. /\ d \in Decisions
          /\ d.error = "ok" => mem[p].bytes \in Good
          /\ d.error # "ok" => d.error \in Errors
      BY <2>1, EvaluateGateType
    <2>3. CASE d.error # "ok"
      BY <1>0, <1>f, <1>4, <2>2, <2>3, FinishSafe DEF GateMeta
    <2>4. CASE d.error = "ok"
      <3>1. Goto(p, l, m)
        BY <1>4, <2>4 DEF GateMeta
      <3> HIDE DEF d
      <3>2. m \in Memory /\ m.bytes = mem[p].bytes /\ m.bundle = mem[p].bundle
        BY <1>0, <2>2 DEF Memory, Opt
      <3>3. mem[p].sidecar \in {"keep", "bundle", "marker"}
        BY <1>0, <1>4 DEF GateMeta, Sound, Memory
      <3>4. l \in {"write-unmark", "write-mark", "write-index"}
        BY <3>3 DEF FirstWrite
      <3>5. Sound(l, m, conf[p], served')
        BY <1>0, <1>4, <2>2, <2>4, <3>2, <3>4
           DEF GateMeta, Sound, Trusting, Writing, AttestedAt
      <3>6. QED BY <1>0, <1>f, <3>1, <3>2, <3>4, <3>5, GotoSafe
    <2>5. QED BY <2>3, <2>4
  <1>5. QED BY <1>1, <1>2, <1>3, <1>4

-----------------------------------------------------------------------------
(* Every write of a load, and its failure, keeps the invariant. *)

LEMMA WriteSafe ==
    ASSUME IInv, NEW p \in Procs,
           WriteUnmark(p) \/ WriteBundle(p) \/ WriteMark(p) \/ WriteIndex(p)
              \/ WriteStamp(p) \/ WriteBaseline(p) \/ WriteMeta(p) \/ WriteFails(p)
    PROVE  IInv'
  <1> USE DEF IInv
  <1>0. /\ mem[p] \in Memory
        /\ Writing \subseteq Running
        /\ "MILPA-INTERNAL-IO" \in Errors
        /\ Sound(pc[p], mem[p], conf[p], served)
    BY DEF TypeOK, ProcessType, ProcessInv, Writing, Labels, Running, Errors, Slugs
  <1>1. pc[p] \in Writing
    BY DEF WriteUnmark, WriteBundle, WriteMark, WriteIndex, WriteStamp, WriteBaseline,
           WriteMeta, WriteFails, Writing
  <1>2. /\ mem[p].bytes \in Good
        /\ conf[p].policy = "strict" => Trusting(mem[p])
        /\ mem[p].bundle \in Opt(Bundles)
        /\ mem[p].dec \in Decisions
    BY <1>0, <1>1 DEF Sound, AttestedAt, Memory
  <1>3. ASSUME NEW l \in Writing \ {"write-stamp", "write-baseline"}
        PROVE  Sound(l, mem[p], conf[p], served')
    BY <1>2 DEF Sound, Writing, Good
  <1>4. CASE WriteUnmark(p)
    <2>1. "write-bundle" \in Writing \ {"write-stamp", "write-baseline"}
      BY DEF Writing
    <2>2. served' = served
      BY <1>4 DEF WriteUnmark, ghosts
    <2>3. ProcessType' /\ ProcessInv'
      BY <1>0, <1>3, <1>4, <2>1, <2>2, GotoSafe DEF WriteUnmark
    <2>4. marker' \in BOOLEAN
      BY <1>4 DEF WriteUnmark, BestEffort, TypeOK, FilesType
    <2>5. QED BY <1>4, <2>3, <2>4, QuietFiles DEF WriteUnmark, ghosts, TypeOK, FilesType
  <1>5. CASE WriteBundle(p)
    <2>1. "write-index" \in Writing \ {"write-stamp", "write-baseline"}
      BY DEF Writing
    <2>2. served' = served
      BY <1>5 DEF WriteBundle, ghosts
    <2>3. ProcessType' /\ ProcessInv'
      BY <1>0, <1>3, <1>5, <2>1, <2>2, GotoSafe DEF WriteBundle
    <2>4. QED BY <1>2, <1>5, <2>3, QuietFiles DEF WriteBundle, ghosts, TypeOK, FilesType
  <1>6. CASE WriteMark(p)
    <2>1. "write-index" \in Writing \ {"write-stamp", "write-baseline"}
      BY DEF Writing
    <2>2. served' = served
      BY <1>6 DEF WriteMark, ghosts
    <2>3. ProcessType' /\ ProcessInv'
      BY <1>0, <1>3, <1>6, <2>1, <2>2, GotoSafe DEF WriteMark
    <2>4. marker' \in BOOLEAN
      BY <1>6 DEF WriteMark, BestEffort, TypeOK, FilesType
    <2>5. QED BY <1>6, <2>3, <2>4, QuietFiles DEF WriteMark, ghosts, TypeOK, FilesType
  <1>7. CASE WriteIndex(p)
    <2>1. "write-stamp" \in Running /\ served \subseteq served'
      BY <1>7 DEF Labels, Running, WriteIndex
    <2>2. Sound("write-stamp", mem[p], conf[p], served')
      BY <1>2, <1>7 DEF Sound, WriteIndex
    <2>3. ProcessType' /\ ProcessInv'
      BY <1>0, <1>7, <2>1, <2>2, GotoSafe DEF WriteIndex
    <2>4. FilesType' /\ CacheParses' /\ BaselineWasServed'
      BY <1>2, <1>7
         DEF WriteIndex, TypeOK, FilesType, CacheParses, BaselineWasServed, Good, Opt
    <2>5. QED BY <2>3, <2>4 DEF TypeOK
  <1>8. CASE WriteStamp(p)
    <2>1. served' = served /\ stamp' \in {"fresh", "stale"}
      BY <1>8 DEF WriteStamp, ghosts, BestEffort, TypeOK, FilesType
    <2>2. mem[p].bytes \in served
      BY <1>0, <1>8 DEF WriteStamp, Sound
    <2>3. Sound("write-baseline", mem[p], conf[p], served')
      BY <1>2, <2>1, <2>2 DEF Sound
    <2>4. {"write-baseline", "write-meta"} \subseteq Running
          /\ "write-meta" \in Writing \ {"write-stamp", "write-baseline"}
      BY DEF Labels, Running, Writing
    <2>5. ProcessType' /\ ProcessInv'
      BY <1>0, <1>2, <1>3, <1>8, <2>1, <2>3, <2>4, GotoSafe, ToEpochSafe DEF WriteStamp
    <2>6. QED BY <1>8, <2>1, <2>5, QuietFiles DEF WriteStamp, ghosts, TypeOK, FilesType
  <1>9. CASE WriteBaseline(p)
    <2>1. served' = served /\ "write-meta" \in Writing \ {"write-stamp", "write-baseline"}
      BY <1>9 DEF WriteBaseline, Writing, ghosts
    <2>2. ProcessType' /\ ProcessInv'
      BY <1>0, <1>3, <1>9, <2>1, GotoSafe DEF WriteBaseline
    <2>3. mem[p].bytes \in served
      BY <1>0, <1>9 DEF WriteBaseline, Sound
    <2>4. FilesType' /\ CacheParses' /\ BaselineWasServed'
      BY <1>2, <1>9, <2>3
         DEF WriteBaseline, TypeOK, FilesType, CacheParses, BaselineWasServed, Good, Opt,
             ghosts
    <2>5. QED BY <2>2, <2>4 DEF TypeOK
  <1>10. CASE WriteMeta(p)
    <2>1. served' = served
      BY <1>10 DEF WriteMeta, ghosts
    <2>2. ProcessType' /\ ProcessInv'
      BY <1>0, <1>2, <1>10, <2>1, ToEpochSafe DEF WriteMeta
    <2>3. mem[p].dec.reported \in Opt(Digests)
      BY <1>2 DEF Decisions
    <2>4. FilesType' /\ CacheParses' /\ BaselineWasServed'
      BY <1>10, <2>3
         DEF WriteMeta, TypeOK, FilesType, CacheParses, BaselineWasServed, ghosts
    <2>5. QED BY <2>2, <2>4 DEF TypeOK
  <1>11. CASE WriteFails(p)
    <2>1. UNCHANGED <<files, ghosts>>
      BY <1>11 DEF WriteFails
    <2>2. ProcessType' /\ ProcessInv'
      BY <1>0, <1>11, <2>1, FinishSafe DEF WriteFails, ghosts
    <2>3. QED BY <2>1, <2>2, QuietFiles DEF files, ghosts, TypeOK, FilesType
  <1>12. QED BY <1>4, <1>5, <1>6, <1>7, <1>8, <1>9, <1>10, <1>11

-----------------------------------------------------------------------------
(* Every step of the epoch fold keeps the invariant. *)

(* mint_enforced returns an index or an error.                             *)
LEMMA MintEnforcedSafe ==
    ASSUME TypeOK, ProcessInv, served \subseteq served', NEW p \in Procs,
           NEW status \in {"Unarmed", "Armed", "ArmingInvalid"},
           MintEnforced(p, status),
           conf[p].policy = "strict" => Trusting(mem[p])
    PROVE  ProcessType' /\ ProcessInv'
  <1>1. mem[p] \in Memory
    BY DEF TypeOK, ProcessType
  <1>2. CASE EpochError(conf[p], status) = "ok"
    <2>1. Minted(mem[p], status) \in Outcomes
      BY <1>1, MintedType
    <2>2. Honest(Minted(mem[p], status), conf[p])
      BY DEF Honest, Minted, Trusting
    <2>3. QED BY <1>2, <2>1, <2>2, ReturnSafe DEF MintEnforced
  <1>3. CASE EpochError(conf[p], status) # "ok"
    <2>1. EpochError(conf[p], status) \in Errors
      BY <1>3 DEF EpochError, Errors, Slugs, Results
    <2>2. QED BY <1>3, <2>1, FinishSafe DEF MintEnforced
  <1>4. QED BY <1>2, <1>3

LEMMA EpochSafe ==
    ASSUME IInv, NEW p \in Procs,
           EpochPointer(p) \/ EpochSettled(p) \/ EpochFetched(p) \/ EpochInvalid(p)
    PROVE  IInv'
  <1> USE DEF IInv
  <1>0. /\ mem[p] \in Memory
        /\ served' = served
        /\ conf[p].policy = "strict" => Trusting(mem[p])
    BY DEF TypeOK, ProcessType, ProcessInv, Sound, AttestedAt, EpochPointer,
           EpochSettled, EpochFetched, EpochInvalid, ghosts
  <1>1. CASE EpochPointer(p)
    <2> DEFINE m == [mem[p] EXCEPT !.pointer = PointerOf(index)]
    <2>1. PointerOf(index) \in Opt(Values)
      BY PointerOfType DEF TypeOK, FilesType
    <2>2. m \in Memory /\ m.bytes = mem[p].bytes /\ m.bundle = mem[p].bundle
      BY <1>0, <2>1 DEF Memory
    <2>3. Sound("epoch-sidecar", m, conf[p], served') /\ "epoch-sidecar" \in Running
      BY <1>0, <2>2 DEF Sound, Writing, Trusting, Labels, Running
    <2>4. ProcessType' /\ ProcessInv'
      BY <1>0, <1>1, <2>2, <2>3, GotoSafe DEF EpochPointer
    <2>5. QED BY <1>1, <2>4, QuietFiles DEF EpochPointer, files, ghosts, TypeOK, FilesType
  <1>2. CASE EpochSettled(p)
    <2>1. ProcessType' /\ ProcessInv'
      BY <1>0, <1>2, MintEnforcedSafe DEF EpochSettled
    <2>2. QED BY <1>2, <2>1, QuietFiles DEF EpochSettled, files, ghosts, TypeOK, FilesType
  <1>3. CASE EpochFetched(p)
    <2>1. ProcessType' /\ ProcessInv'
      BY <1>0, <1>3, MintEnforcedSafe DEF EpochFetched
    <2>2. mem[p].pointer \in Values
      BY <1>0, <1>3 DEF EpochFetched, Memory, Opt
    <2>3. sidecars' \subseteq Values
      BY <1>3, <2>2 DEF EpochFetched, BestEffort, TypeOK, FilesType
    <2>4. QED BY <1>3, <2>1, <2>3, QuietFiles DEF EpochFetched, ghosts, TypeOK, FilesType
  <1>4. CASE EpochInvalid(p)
    <2>1. ProcessType' /\ ProcessInv'
      BY <1>0, <1>4, MintEnforcedSafe DEF EpochInvalid
    <2>2. QED BY <1>4, <2>1, QuietFiles DEF EpochInvalid, files, ghosts, TypeOK, FilesType
  <1>5. QED BY <1>1, <1>2, <1>3, <1>4

-----------------------------------------------------------------------------
(* Every step of `milpa index accept` keeps the invariant. *)

LEMMA AcceptSafe ==
    ASSUME IInv, NEW p \in Procs,
           AcceptFetch(p) \/ AcceptDiff(p) \/ AcceptBaseline(p) \/ AcceptMeta(p)
              \/ AcceptFails(p)
    PROVE  IInv'
  <1> USE DEF IInv
  <1>0. /\ mem[p] \in Memory
        /\ {"accept-diff", "accept-baseline", "accept-meta"} \subseteq Running
        /\ {"MILPA-INDEX-UNREACHABLE", "TNG-PARSE", "nothing to accept", "accepted",
            "TNG-INDEX-BASELINE-WRITE-FAILED"} \subseteq Errors
        /\ Sound(pc[p], mem[p], conf[p], served)
    BY DEF TypeOK, ProcessType, ProcessInv, Labels, Running, Errors, Slugs
  <1>1. CASE AcceptFetch(p)
    <2>1. UNCHANGED <<files, ghosts>> /\ served \subseteq served'
      BY <1>1 DEF AcceptFetch, ghosts
    <2>2. CASE Finish(p, "MILPA-INDEX-UNREACHABLE")
      BY <1>0, <2>1, <2>2, FinishSafe, QuietFiles DEF files, ghosts, TypeOK, FilesType
    <2>3. ASSUME NEW b \in Bytes, NEW r \in BundleReplies, NEW stale \in BOOLEAN,
                 LET e == AcceptVerdict(conf[p].policy, b, r, stale) IN
                 IF e # "ok" THEN Finish(p, e)
                 ELSE Goto(p, "accept-diff", [mem[p] EXCEPT !.bytes = b])
          PROVE  IInv'
      <3> DEFINE e == AcceptVerdict(conf[p].policy, b, r, stale)
                 m == [mem[p] EXCEPT !.bytes = b]
      <3>1. m \in Memory /\ m.bytes = b
        BY <1>0 DEF Memory, Opt
      <3>2. Sound("accept-diff", m, conf[p], served')
        BY <3>1 DEF Sound, Writing, AttestedAt
      <3>3. e # "ok" => e \in Errors
        BY AcceptVerdictType
      <3>4. ProcessType' /\ ProcessInv'
        BY <1>0, <2>1, <2>3, <3>1, <3>2, <3>3, FinishSafe, GotoSafe
      <3>5. QED BY <2>1, <3>4, QuietFiles DEF files, ghosts, TypeOK, FilesType
    <2>4. QED BY <1>1, <2>2, <2>3 DEF AcceptFetch
  <1>2. CASE AcceptDiff(p)
    <2> DEFINE m == [mem[p] EXCEPT !.dec = AdvanceDecision]
    <2>1. UNCHANGED <<files, ghosts>> /\ served \subseteq served'
      BY <1>2 DEF AcceptDiff, ghosts
    <2>2. m \in Memory /\ m.bytes = mem[p].bytes
      BY <1>0, AdvanceType DEF Memory
    <2>3. Doc[mem[p].bytes] # NONE => Sound("accept-baseline", m, conf[p], served')
      BY <1>0, <1>2, <2>2 DEF AcceptDiff, Sound, Writing, AttestedAt, Good
    <2>4. ProcessType' /\ ProcessInv'
      BY <1>0, <1>2, <2>1, <2>2, <2>3, FinishSafe, GotoSafe DEF AcceptDiff
    <2>5. QED BY <2>1, <2>4, QuietFiles DEF files, ghosts, TypeOK, FilesType
  <1>3. CASE AcceptBaseline(p)
    <2>1. mem[p].bytes \in Good /\ served \subseteq served'
      BY <1>0, <1>3 DEF AcceptBaseline, Sound
    <2>2. Sound("accept-meta", mem[p], conf[p], served')
      BY <2>1 DEF Sound, Writing, AttestedAt
    <2>3. ProcessType' /\ ProcessInv'
      BY <1>0, <1>3, <2>1, <2>2, GotoSafe DEF AcceptBaseline
    <2>4. FilesType' /\ CacheParses' /\ BaselineWasServed'
      BY <1>3, <2>1
         DEF AcceptBaseline, TypeOK, FilesType, CacheParses, BaselineWasServed, Good, Opt
    <2>5. QED BY <2>3, <2>4 DEF TypeOK
  <1>4. CASE AcceptMeta(p)
    <2>1. served \subseteq served'
      BY <1>4 DEF AcceptMeta, ghosts
    <2>2. ProcessType' /\ ProcessInv'
      BY <1>0, <1>4, <2>1, FinishSafe DEF AcceptMeta
    <2>3. FilesType' /\ CacheParses' /\ BaselineWasServed'
      BY <1>4 DEF AcceptMeta, TypeOK, FilesType, CacheParses, BaselineWasServed, Opt, ghosts
    <2>4. QED BY <2>2, <2>3 DEF TypeOK
  <1>5. CASE AcceptFails(p)
    <2>1. UNCHANGED <<files, ghosts>> /\ served \subseteq served'
      BY <1>5 DEF AcceptFails, ghosts
    <2>2. ProcessType' /\ ProcessInv'
      BY <1>0, <1>5, <2>1, FinishSafe DEF AcceptFails
    <2>3. QED BY <2>1, <2>2, QuietFiles DEF files, ghosts, TypeOK, FilesType
  <1>6. QED BY <1>1, <1>2, <1>3, <1>4, <1>5

-----------------------------------------------------------------------------
(* Starting, dying and exiting keep the invariant, and so does time. *)

LEMMA StartSafe ==
    ASSUME IInv, NEW p \in Procs, StartLoad(p) \/ StartAccept(p)
    PROVE  IInv'
  <1> USE DEF IInv
  <1>1. /\ UNCHANGED <<files, mem, out, ghosts>>
        /\ pc[p] = "idle"
        /\ \E l \in {"serve-index", "fetch", "accept-fetch"} :
                pc' = [pc EXCEPT ![p] = l]
        /\ \E c \in Confs \cup {[NoConf EXCEPT !.policy = q] : q \in Policies} :
                conf' = [conf EXCEPT ![p] = c]
    <2>1. CASE StartLoad(p)
      BY <2>1 DEF StartLoad
    <2>2. CASE StartAccept(p)
      BY <2>2, ConfsAssumption DEF StartAccept
    <2>3. QED BY <2>1, <2>2
  <1>2. PICK l \in {"serve-index", "fetch", "accept-fetch"} : pc' = [pc EXCEPT ![p] = l]
    BY <1>1
  <1>3. ProcessType'
    BY <1>1, <1>2 DEF TypeOK, ProcessType, Labels
  <1>4. ProcessInv'
    <2> SUFFICES ASSUME NEW q \in Procs
                 PROVE  /\ Sound(pc'[q], mem'[q], conf'[q], served')
                        /\ pc'[q] = "done" => Honest(out'[q], conf'[q])
      BY DEF ProcessInv
    <2>1. CASE q = p
      <3>1. pc'[q] = l /\ out'[q] = out[p]
        BY <1>1, <1>2, <2>1 DEF TypeOK, ProcessType
      <3>2. Sound(pc'[q], mem'[q], conf'[q], served')
        BY <3>1 DEF Sound, Writing, AttestedAt
      <3>3. QED BY <3>1, <3>2
    <2>2. CASE q # p
      <3>1. /\ pc'[q] = pc[q] /\ mem'[q] = mem[q]
            /\ conf'[q] = conf[q] /\ out'[q] = out[q] /\ served' = served
        BY <1>1, <1>2, <2>2 DEF TypeOK, ProcessType, ghosts
      <3>2. QED BY <3>1 DEF ProcessInv
    <2>3. QED BY <2>1, <2>2
  <1>5. QED BY <1>1, <1>3, <1>4, QuietFiles DEF files, ghosts, TypeOK, FilesType

(* A process that dies or exits keeps the invariant.                       *)
LEMMA GoneSafe ==
    ASSUME IInv, NEW p \in Procs, Gone(p)
    PROVE  IInv'
  <1> USE DEF IInv
  <1>1. NoConf \in {[NoConf EXCEPT !.policy = q] : q \in Policies}
    BY DEF NoConf, Policies
  <1>2. ProcessType'
    BY <1>1, BlankType DEF TypeOK, ProcessType, Gone, Labels
  <1>3. ProcessInv'
    <2> SUFFICES ASSUME NEW q \in Procs
                 PROVE  /\ Sound(pc'[q], mem'[q], conf'[q], served')
                        /\ pc'[q] = "done" => Honest(out'[q], conf'[q])
      BY DEF ProcessInv
    <2>1. CASE q = p
      BY <2>1 DEF TypeOK, ProcessType, Gone, Sound, Writing, AttestedAt, Honest, NoOutcome
    <2>2. CASE q # p
      BY <2>2 DEF TypeOK, ProcessType, Gone, ProcessInv, ghosts
    <2>3. QED BY <2>1, <2>2
  <1>4. QED BY <1>2, <1>3, QuietFiles DEF Gone, files, ghosts, TypeOK, FilesType

-----------------------------------------------------------------------------
(* The theorems. *)

(* The empty cache satisfies the invariant.                                *)
LEMMA InitSafe == Init => IInv
  <1> SUFFICES ASSUME Init
               PROVE  IInv
    OBVIOUS
  <1>1. NoConf \in {[NoConf EXCEPT !.policy = q] : q \in Policies}
    BY DEF NoConf, Policies
  <1>2. TypeOK
    BY <1>1, BlankType DEF Init, TypeOK, FilesType, ProcessType, Opt, Labels
  <1>3. ProcessInv
    BY DEF Init, ProcessInv, Sound, Writing, AttestedAt, Honest, NoOutcome
  <1>4. CacheParses /\ BaselineWasServed
    BY DEF Init, CacheParses, BaselineWasServed
  <1>5. QED BY <1>2, <1>3, <1>4 DEF IInv

(* Every step of every process keeps it.                                   *)
LEMMA NextSafe == IInv /\ [Next]_vars => IInv'
  <1> SUFFICES ASSUME IInv, [Next]_vars
               PROVE  IInv'
    OBVIOUS
  <1>1. ASSUME NEW p \in Procs, Step(p)
        PROVE  IInv'
    BY <1>1, ServeSafe, FetchSafe, WriteSafe, EpochSafe, AcceptSafe DEF Step
  <1>2. ASSUME NEW p \in Procs, StartLoad(p) \/ StartAccept(p)
        PROVE  IInv'
    BY <1>2, StartSafe
  <1>3. ASSUME NEW p \in Procs, Crash(p) \/ Exit(p)
        PROVE  IInv'
    BY <1>3, GoneSafe DEF Crash, Exit
  <1>4. CASE Expire
    <2>1. ProcessType' /\ ProcessInv'
      BY <1>4 DEF Expire, IInv, TypeOK, ProcessType, ProcessInv, ghosts
    <2>2. QED BY <1>4, <2>1, QuietFiles DEF Expire, IInv, TypeOK, FilesType, ghosts
  <1>5. CASE UNCHANGED vars
    BY <1>5 DEF vars, files, ghosts, IInv, TypeOK, FilesType, ProcessType, ProcessInv,
                CacheParses, BaselineWasServed
  <1>6. QED BY <1>1, <1>2, <1>3, <1>4, <1>5 DEF Next

(* The inductive invariant holds for any number of processes: whatever a   *)
(* process holds in memory at a label is what the code has checked by then. *)
THEOREM Invariance == Spec => []IInv
  BY InitSafe, NextSafe, PTL DEF Spec

(* The cache and the memory of every process are well typed. *)
THEOREM TypeCorrect == Spec => []TypeOK
  BY Invariance, PTL DEF IInv

(* No crash, failed write or race leaves an index or a baseline that does  *)
(* not parse: parse-at-gate comes before every write, whatever the policy. *)
THEOREM CacheAlwaysParses == Spec => []CacheParses
  BY Invariance, PTL DEF IInv

(* Trust never advances past content that was served or accepted, for any  *)
(* number of racing processes: the write order alone ensures it.           *)
THEOREM BaselineAlwaysServed == Spec => []BaselineWasServed
  BY Invariance, PTL DEF IInv

(* Whatever races with it, a load under index-trust "strict" returns only  *)
(* bytes that a flawless bundle attests: the bytes are read once, and the  *)
(* bundle is checked against what is in memory, not what is on disk.       *)
THEOREM StrictAlwaysTrusted == Spec => []StrictMintsTrusted
  <1>1. IInv => StrictMintsTrusted
    BY DEF IInv, ProcessInv, Honest, Trusting, StrictMintsTrusted
  <1>2. QED BY <1>1, Invariance, PTL
=============================================================================
