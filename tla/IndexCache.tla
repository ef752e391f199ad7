----------------------------- MODULE IndexCache -----------------------------
(***************************************************************************)
(* The on-disk cache of one index URL, shared without a lock by every      *)
(* milpa process of a user: load_index_with_history (index_cache.rs) with  *)
(* its trust gate, ratchet gate and epoch-commitment fold, and             *)
(* `milpa index accept` (main.rs).                                         *)
(*                                                                         *)
(* Each action is one read or one write of a file (a write is a rename, so *)
(* it is atomic), or one exchange with the network; processes interleave   *)
(* between them, may crash between them, and a write may fail.             *)
(*                                                                         *)
(* Abstractions: index bytes are opaque and Doc parses them; a bundle is   *)
(* the bytes it attests and what is wrong with it; the network returns     *)
(* anything; the time stamp is within its TTL or it is not (absent is the  *)
(* same as stale); the metadata sidecar is the violation set it records    *)
(* as reported (its other fields are only displayed).                      *)
(***************************************************************************)
EXTENDS IndexRatchet

CONSTANTS
    Procs,          \* concurrent milpa invocations
    Bytes,          \* the index documents the network can return
    Doc,            \* the parser: an index state for each, NONE if malformed
    Bundles,        \* the bundles the network can return
    Confs,          \* the configurations a load can be started with
    AcceptPolicies, \* the trust policies `milpa index accept` can run under
    Crashes,        \* TRUE: a process may die between two steps
    IoFaults        \* TRUE: a write may fail

Policies == {"off", "warn", "strict"}

ASSUME BytesAssumption ==
    /\ NONE \notin Bytes
    /\ Doc \in [Bytes -> Opt(IndexState)]

ASSUME BundlesAssumption ==
    /\ Bundles \subseteq [attests : Bytes,
                          flaw : {"none", "empty", "malformed", "signature", "signer"}]
    /\ NONE \notin Bundles

ASSUME ConfsAssumption ==
    /\ Confs \subseteq [policy : Policies, history : Policies, entry : Policies,
                        refresh : BOOLEAN]
    /\ AcceptPolicies \subseteq Policies

ASSUME FaultsAssumption == Crashes \in BOOLEAN /\ IoFaults \in BOOLEAN

VARIABLES
    \* the files of the cache
    index, bundle, marker, stamp, baseline, meta, sidecars,
    \* the processes
    pc, conf, mem, out,
    \* observers' memory: what was ever renamed into the index file or
    \* explicitly accepted, and whether that was ever done by a load that is
    \* not under index-history "strict", or by an accept
    served, lax

files == <<index, bundle, marker, stamp, baseline, meta, sidecars>>
ghosts == <<served, lax>>
vars == <<files, pc, conf, mem, out, ghosts>>

Good == {b \in Bytes : Doc[b] # NONE}

-----------------------------------------------------------------------------
(* The trust gate. *)

Results ==
    {"Trusted", "BundleMissing", "BundleMalformed", "BundleStale",
     "DigestMismatch", "SigInvalid", "SignerMismatch"}

\* Mutant: the freshness bound returned before the subject digest is read.
VerifySkipDigest(b, u, stale) ==
    CASE u.flaw \in {"empty", "malformed"} -> "BundleMalformed"
      [] u.flaw \notin {"empty", "malformed"} /\ stale -> "BundleStale"
      [] OTHER -> "Trusted"

\* verify_index_bundle: stale only where the freshness bound is asserted.
Verify(b, u, stale) ==
    CASE u.flaw \in {"empty", "malformed"} -> "BundleMalformed"
      [] u.flaw \notin {"empty", "malformed"} /\ stale -> "BundleStale"
      [] u.flaw \notin {"empty", "malformed"} /\ ~stale ->
            IF u.attests # b THEN "DigestMismatch"
            ELSE IF u.flaw = "signature" THEN "SigInvalid"
            ELSE IF u.flaw = "signer" THEN "SignerMismatch" ELSE "Trusted"

\* enforce_index_trust: only strict turns a result into an error.
Enforced(policy, result) == policy = "strict" /\ result # "Trusted"

\* The outcomes of fetching the bundle.
BundleReplies ==
    [kind : {"bytes"}, bundle : Bundles] \cup [kind : {"404", "error"}, bundle : {NONE}]

\* The disposition of a fetched pair under a configuration: the error it
\* ends in, or "ok", with the verification result and the sidecar to write.
Verdict(e, v, s) == [error |-> e, verif |-> v, sidecar |-> s]

FetchVerdict(c, recovery, b, r, stale) ==
    IF c.policy = "off" THEN Verdict("ok", NONE, "keep")
    ELSE IF r.kind = "bytes" THEN
        LET v == Verify(b, r.bundle, stale) IN
        IF recovery /\ v # "Trusted" THEN Verdict("MILPA-INDEX-UNREACHABLE", v, "keep")
        ELSE IF Enforced(c.policy, v) THEN Verdict(v, v, "keep")
        ELSE Verdict("ok", v, "bundle")
    ELSE IF r.kind = "404" THEN
        IF recovery THEN Verdict("MILPA-INDEX-UNREACHABLE", NONE, "keep")
        ELSE IF c.policy = "strict" THEN Verdict("BundleMissing", NONE, "keep")
        ELSE Verdict("ok", "BundleMissing", "marker")
    ELSE
        IF recovery /\ c.policy = "strict"
        THEN Verdict("MILPA-INDEX-UNREACHABLE", NONE, "keep")
        ELSE IF Enforced(c.policy, "BundleMissing")
        THEN Verdict("BundleMissing", NONE, "keep")
        ELSE Verdict("ok", "BundleMissing", IF recovery THEN "marker" ELSE "keep")

-----------------------------------------------------------------------------
(* The ratchet gate. *)

\* The violation sets two documents can differ by: what meta can record.
Digests == {Check(Doc[x], Doc[y]) : x \in Good, y \in Good}

\* What the gate decides: write the baseline, write meta, record which
\* violations as reported, and the warning to print.
NoDecision ==
    [error |-> "ok", advance |-> FALSE, wmeta |-> FALSE, reported |-> NONE,
     warning |-> "none"]

AdvanceDecision == [NoDecision EXCEPT !.advance = TRUE, !.wmeta = TRUE]

\* Mutant: with the axis off the candidate is not parsed at the gate.
GateParsesLate(history, b, base, rep) ==
    IF history = "off" THEN NoDecision
    ELSE IF Doc[b] = NONE THEN [NoDecision EXCEPT !.error = "TNG-PARSE"]
    ELSE AdvanceDecision

\* Mutant: the baseline is advanced on a dirty difference under "warn".
GateAdvancesDirty(history, b, base, rep) ==
    IF Doc[b] = NONE THEN [NoDecision EXCEPT !.error = "TNG-PARSE"]
    ELSE IF history = "off" THEN NoDecision
    ELSE IF history = "strict" /\ base # NONE /\ Doc[base] # Doc[b]
    THEN [NoDecision EXCEPT !.error = "TNG-ENTRY-MUTATED"]
    ELSE AdvanceDecision

\* Mutant: "strict" violations are reported as under "warn".
GateStrictWarns(history, b, base, rep) ==
    IF Doc[b] = NONE THEN [NoDecision EXCEPT !.error = "TNG-PARSE"]
    ELSE IF base = NONE \/ (base # NONE /\ Check(Doc[base], Doc[b]) = {}) THEN AdvanceDecision
    ELSE [NoDecision EXCEPT !.warning = "new", !.wmeta = TRUE,
                            !.reported = Check(Doc[base], Doc[b])]

\* evaluate_gate on candidate b, the baseline text base that was read and
\* the violation set rep that meta records.
EvaluateGate(history, b, base, rep) ==
    IF Doc[b] = NONE THEN [NoDecision EXCEPT !.error = "TNG-PARSE"]
    ELSE IF history = "off" THEN NoDecision
    ELSE IF base = NONE THEN AdvanceDecision
    ELSE IF Doc[base] = NONE
    THEN [NoDecision EXCEPT !.error = "TNG-INDEX-BASELINE-CORRUPT"]
    ELSE LET found == Check(Doc[base], Doc[b]) IN
         IF found = {} THEN AdvanceDecision
         ELSE IF history = "strict"
         THEN [NoDecision EXCEPT !.error = PrimaryClass(found)]
         ELSE IF rep = found
         THEN [NoDecision EXCEPT !.warning = "recurring", !.reported = found]
         ELSE [NoDecision EXCEPT !.warning = "new", !.wmeta = TRUE,
                                 !.reported = found]

-----------------------------------------------------------------------------
(* State. *)

Blank ==
    [bytes |-> NONE, bundle |-> NONE, verif |-> NONE, sidecar |-> "keep",
     recovery |-> FALSE, offline |-> FALSE, base |-> NONE,
     dec |-> NoDecision, pointer |-> NONE]

NoOutcome ==
    [result |-> "none", bytes |-> NONE, bundle |-> NONE, verif |-> NONE,
     status |-> "Unarmed", cached |-> FALSE]

NoConf == [policy |-> "off", history |-> "off", entry |-> "off", refresh |-> FALSE]

Init ==
    /\ index = NONE /\ bundle = NONE /\ marker = FALSE /\ stamp = "stale"
    /\ baseline = NONE /\ meta = NONE /\ sidecars = {}
    /\ pc = [p \in Procs |-> "idle"]
    /\ conf = [p \in Procs |-> NoConf]
    /\ mem = [p \in Procs |-> Blank]
    /\ out = [p \in Procs |-> NoOutcome]
    /\ served = {} /\ lax = FALSE

\* Moving a process on, with an update m of its memory.
Goto(p, l, m) ==
    /\ pc' = [pc EXCEPT ![p] = l]
    /\ mem' = [mem EXCEPT ![p] = m]
    /\ UNCHANGED <<conf, out>>

\* Returning o to the caller, who uses it and exits.
Return(p, o) ==
    /\ pc' = [pc EXCEPT ![p] = "done"]
    /\ mem' = [mem EXCEPT ![p] = Blank]
    /\ out' = [out EXCEPT ![p] = o]
    /\ UNCHANGED conf

\* Returning r, an error or the end of an accept, without an index.
Finish(p, r) ==
    Return(p, [NoOutcome EXCEPT !.result = r, !.cached = mem[p].sidecar = "cached"])

\* A file operation whose failure the code ignores.
BestEffort(old, new) == IF IoFaults THEN {old, new} ELSE {new}

\* What a load that got past its gates returns.
Minted(m, status) ==
    [result |-> "minted", bytes |-> m.bytes, bundle |-> m.bundle, verif |-> m.verif,
     status |-> status, cached |-> m.sidecar = "cached"]

\* The epoch fold runs exactly when index-trust is on.
ToEpoch(p, m) ==
    IF conf[p].policy = "off" THEN Return(p, Minted(m, "Unarmed"))
    ELSE Goto(p, "epoch-pointer",
              [Blank EXCEPT !.bytes = m.bytes, !.bundle = m.bundle, !.verif = m.verif,
                            !.sidecar = m.sidecar])

\* The cached bytes are parsed once the bundle has been dealt with.
ServeParsed(p, m) ==
    IF Doc[m.bytes] = NONE THEN Finish(p, "TNG-PARSE") ELSE ToEpoch(p, m)

-----------------------------------------------------------------------------
(* Starting a load: a cache younger than its TTL is served unless          *)
(* --refresh-index is given.                                               *)

StartLoad(p) ==
    /\ pc[p] = "idle"
    /\ \E c \in Confs :
        /\ conf' = [conf EXCEPT ![p] = c]
        /\ pc' = [pc EXCEPT ![p] =
                    IF stamp = "fresh" /\ ~c.refresh THEN "serve-index" ELSE "fetch"]
    /\ UNCHANGED <<files, mem, out, ghosts>>

-----------------------------------------------------------------------------
(* try_serve_from_cache (States 1 and 3). *)

ServeIndex(p) ==
    /\ pc[p] = "serve-index"
    /\ IF index = NONE
       THEN Finish(p, "MILPA-INTERNAL-IO")
       ELSE LET m == [mem[p] EXCEPT !.bytes = index, !.sidecar = "cached"] IN
            IF conf[p].policy = "off" THEN ServeParsed(p, m)
            ELSE Goto(p, "serve-marker", m)
    /\ UNCHANGED <<files, ghosts>>

ServeMarker(p) ==
    /\ pc[p] = "serve-marker"
    /\ IF ~marker THEN Goto(p, "serve-stat", mem[p])
       ELSE IF Enforced(conf[p].policy, "BundleMissing") THEN Finish(p, "BundleMissing")
       ELSE ServeParsed(p, [mem[p] EXCEPT !.verif = "BundleMissing"])
    /\ UNCHANGED <<files, ghosts>>

\* An absent or empty bundle is removed, then the marker, then one recovery.
ServeStat(p) ==
    /\ pc[p] = "serve-stat"
    /\ IF bundle # NONE /\ bundle.flaw # "empty"
       THEN Goto(p, "serve-bundle", mem[p]) /\ UNCHANGED bundle
       ELSE Goto(p, "serve-unmark", mem[p]) /\ bundle' \in BestEffort(bundle, NONE)
    /\ UNCHANGED <<index, marker, stamp, baseline, meta, sidecars, ghosts>>

\* Mutant: the recovery re-fetch is tried again when the network is down.
ServeUnmarkUnbounded(p) ==
    /\ pc[p] = "serve-unmark"
    /\ marker' \in BestEffort(marker, FALSE)
    /\ Goto(p, "fetch", [Blank EXCEPT !.recovery = TRUE])
    /\ UNCHANGED <<index, bundle, stamp, baseline, meta, sidecars, ghosts>>

ServeUnmark(p) ==
    /\ pc[p] = "serve-unmark"
    /\ marker' \in BestEffort(marker, FALSE)
    /\ IF mem[p].offline
       THEN Finish(p, "MILPA-INDEX-UNREACHABLE")
       ELSE Goto(p, "fetch", [Blank EXCEPT !.recovery = TRUE])
    /\ UNCHANGED <<index, bundle, stamp, baseline, meta, sidecars, ghosts>>

ServeBundle(p) ==
    /\ pc[p] = "serve-bundle"
    /\ IF bundle = NONE THEN Finish(p, "MILPA-INTERNAL-IO")
       ELSE LET v == Verify(mem[p].bytes, bundle, FALSE) IN
            IF Enforced(conf[p].policy, v) THEN Finish(p, v)
            ELSE ServeParsed(p, [mem[p] EXCEPT !.bundle = bundle, !.verif = v])
    /\ UNCHANGED <<files, ghosts>>

-----------------------------------------------------------------------------
(* State 2: the network. *)

\* State 3 with a cache, State 4 without.
FetchFails(p) ==
    /\ pc[p] = "fetch"
    /\ IF index = NONE
       THEN Finish(p, "MILPA-INDEX-UNREACHABLE")
       ELSE Goto(p, "serve-index", [mem[p] EXCEPT !.offline = TRUE])
    /\ UNCHANGED <<files, ghosts>>

Fetch(p) ==
    /\ pc[p] = "fetch"
    /\ \E b \in Bytes, r \in BundleReplies, stale \in BOOLEAN :
        LET v == FetchVerdict(conf[p], mem[p].recovery, b, r, stale) IN
        IF v.error # "ok" THEN Finish(p, v.error)
        ELSE Goto(p, "gate-baseline",
                  [mem[p] EXCEPT !.bytes = b, !.verif = v.verif, !.sidecar = v.sidecar,
                                 !.bundle = IF v.sidecar = "bundle" THEN r.bundle ELSE NONE])
    /\ UNCHANGED <<files, ghosts>>

\* run_ratchet_gate reads the baseline, then meta, and decides.
GateBaseline(p) ==
    /\ pc[p] = "gate-baseline"
    /\ Goto(p, "gate-meta",
            [mem[p] EXCEPT !.base = IF conf[p].history = "off" THEN NONE ELSE baseline])
    /\ UNCHANGED <<files, ghosts>>

FirstWrite(sidecar) ==
    CASE sidecar = "bundle" -> "write-unmark"
      [] sidecar = "marker" -> "write-mark"
      [] sidecar = "keep" -> "write-index"

GateMeta(p) ==
    /\ pc[p] = "gate-meta"
    /\ LET d == EvaluateGate(conf[p].history, mem[p].bytes, mem[p].base, meta) IN
       IF d.error # "ok" THEN Finish(p, d.error)
       ELSE Goto(p, FirstWrite(mem[p].sidecar),
                 [mem[p] EXCEPT !.dec = d, !.base = NONE])
    /\ UNCHANGED <<files, ghosts>>

-----------------------------------------------------------------------------
(* The writes, in order. *)

WriteUnmark(p) ==
    /\ pc[p] = "write-unmark"
    /\ marker' \in BestEffort(marker, FALSE)
    /\ Goto(p, "write-bundle", mem[p])
    /\ UNCHANGED <<index, bundle, stamp, baseline, meta, sidecars, ghosts>>

WriteBundle(p) ==
    /\ pc[p] = "write-bundle"
    /\ bundle' = mem[p].bundle
    /\ Goto(p, "write-index", mem[p])
    /\ UNCHANGED <<index, marker, stamp, baseline, meta, sidecars, ghosts>>

WriteMark(p) ==
    /\ pc[p] = "write-mark"
    /\ marker' \in BestEffort(marker, TRUE)
    /\ Goto(p, "write-index", mem[p])
    /\ UNCHANGED <<index, bundle, stamp, baseline, meta, sidecars, ghosts>>

WriteIndex(p) ==
    /\ pc[p] = "write-index"
    /\ index' = mem[p].bytes
    /\ served' = served \cup {mem[p].bytes}
    /\ lax' = (lax \/ conf[p].history # "strict")
    /\ Goto(p, "write-stamp", mem[p])
    /\ UNCHANGED <<bundle, marker, stamp, baseline, meta, sidecars>>

\* apply_ratchet_writes: the baseline if it advances, then meta, then the
\* warning is printed and the epoch phase begins.
WriteStamp(p) ==
    /\ pc[p] = "write-stamp"
    /\ stamp' \in BestEffort(stamp, "fresh")
    /\ IF mem[p].dec.advance THEN Goto(p, "write-baseline", mem[p])
       ELSE IF mem[p].dec.wmeta THEN Goto(p, "write-meta", mem[p])
       ELSE ToEpoch(p, mem[p])
    /\ UNCHANGED <<index, bundle, marker, baseline, meta, sidecars, ghosts>>

WriteBaseline(p) ==
    /\ pc[p] = "write-baseline"
    /\ baseline' = mem[p].bytes
    /\ Goto(p, "write-meta", mem[p])
    /\ UNCHANGED <<index, bundle, marker, stamp, meta, sidecars, ghosts>>

WriteMeta(p) ==
    /\ pc[p] = "write-meta"
    /\ meta' = mem[p].dec.reported
    /\ ToEpoch(p, mem[p])
    /\ UNCHANGED <<index, bundle, marker, stamp, baseline, sidecars, ghosts>>

\* Mutant: a failed write of the index is ignored, as that of the stamp is.
WriteFailsIgnored(p) ==
    /\ IoFaults
    /\ pc[p] = "write-index"
    /\ Goto(p, "write-stamp", mem[p])
    /\ UNCHANGED <<files, ghosts>>

\* A rename that fails ends the load; the file keeps its old contents.
WriteFails(p) ==
    /\ IoFaults
    /\ pc[p] \in {"write-bundle", "write-index", "write-baseline", "write-meta"}
    /\ Finish(p, "MILPA-INTERNAL-IO")
    /\ UNCHANGED <<files, ghosts>>

-----------------------------------------------------------------------------
(* The epoch-commitment fold: the pointer is read again from the cache     *)
(* file, the sidecar it names comes from its own cache or the network, and *)
(* mint_enforced decides.                                                  *)

\* Mutant: the whole root where its commitment pointer is meant.
PointerIsRoot(b) == IF b = NONE \/ (b # NONE /\ Doc[b] = NONE) THEN NONE ELSE Doc[b].root

PointerOf(b) ==
    IF b = NONE \/ (b # NONE /\ Doc[b] = NONE) THEN NONE
    ELSE Doc[b].root.attestation_epoch_commitment

EpochPointer(p) ==
    /\ pc[p] = "epoch-pointer"
    /\ Goto(p, "epoch-sidecar", [mem[p] EXCEPT !.pointer = PointerOf(index)])
    /\ UNCHANGED <<files, ghosts>>

\* enforce_epoch_commitment and check_epoch_ratchet_requirement.
EpochError(c, status) ==
    CASE status = "ArmingInvalid" -> "TNG-INDEX-EPOCH-COMMITMENT-INVALID"
      [] status = "Armed" /\ c.entry = "strict" /\ c.history # "strict" ->
            "TNG-INDEX-EPOCH-RATCHET-REQUIRED"
      [] OTHER -> "ok"

MintEnforced(p, status) ==
    LET e == EpochError(conf[p], status) IN
    IF e = "ok" THEN Return(p, Minted(mem[p], status)) ELSE Finish(p, e)

\* load_epoch_commitment_status: no fetch without a pointer, none on a hit.
EpochSettled(p) ==
    /\ pc[p] = "epoch-sidecar"
    /\ mem[p].pointer = NONE \/ mem[p].pointer \in sidecars
    /\ MintEnforced(p, IF mem[p].pointer = NONE THEN "Unarmed" ELSE "Armed")
    /\ UNCHANGED <<files, ghosts>>

\* One fetch on a miss; only a sidecar that verifies is kept.
EpochFetched(p) ==
    /\ pc[p] = "epoch-sidecar"
    /\ mem[p].pointer # NONE /\ mem[p].pointer \notin sidecars
    /\ sidecars' \in BestEffort(sidecars, sidecars \cup {mem[p].pointer})
    /\ MintEnforced(p, "Armed")
    /\ UNCHANGED <<index, bundle, marker, stamp, baseline, meta, ghosts>>

EpochInvalid(p) ==
    /\ pc[p] = "epoch-sidecar"
    /\ mem[p].pointer # NONE /\ mem[p].pointer \notin sidecars
    /\ MintEnforced(p, "ArmingInvalid")
    /\ UNCHANGED <<files, ghosts>>

-----------------------------------------------------------------------------
(* milpa index accept: a fetch that touches no file, the difference, and   *)
(* the baseline pair.                                                      *)

StartAccept(p) ==
    /\ pc[p] = "idle"
    /\ \E q \in AcceptPolicies :
        conf' = [conf EXCEPT ![p] = [NoConf EXCEPT !.policy = q]]
    /\ pc' = [pc EXCEPT ![p] = "accept-fetch"]
    /\ UNCHANGED <<files, mem, out, ghosts>>

\* fetch_verified_candidate_text: any failure to get the bundle is a missing
\* bundle.
AcceptVerdict(policy, b, r, stale) ==
    IF policy = "off" THEN "ok"
    ELSE LET v == IF r.kind = "bytes" THEN Verify(b, r.bundle, stale)
                  ELSE "BundleMissing" IN
         IF Enforced(policy, v) THEN v ELSE "ok"

AcceptFetch(p) ==
    /\ pc[p] = "accept-fetch"
    /\ \/ Finish(p, "MILPA-INDEX-UNREACHABLE")
       \/ \E b \in Bytes, r \in BundleReplies, stale \in BOOLEAN :
            LET e == AcceptVerdict(conf[p].policy, b, r, stale) IN
            IF e # "ok" THEN Finish(p, e)
            ELSE Goto(p, "accept-diff", [mem[p] EXCEPT !.bytes = b])
    /\ UNCHANGED <<files, ghosts>>

AcceptDiff(p) ==
    /\ pc[p] = "accept-diff"
    /\ LET b == mem[p].bytes IN
       IF Doc[b] = NONE THEN Finish(p, "TNG-PARSE")
       ELSE IF /\ baseline # NONE
               /\ Doc[baseline] # NONE
               /\ Dominates(Doc[baseline], Doc[b])
       THEN Finish(p, "nothing to accept")
       ELSE Goto(p, "accept-baseline", [mem[p] EXCEPT !.dec = AdvanceDecision])
    /\ UNCHANGED <<files, ghosts>>

AcceptBaseline(p) ==
    /\ pc[p] = "accept-baseline"
    /\ baseline' = mem[p].bytes
    /\ served' = served \cup {mem[p].bytes} /\ lax' = TRUE
    /\ Goto(p, "accept-meta", mem[p])
    /\ UNCHANGED <<index, bundle, marker, stamp, meta, sidecars>>

AcceptMeta(p) ==
    /\ pc[p] = "accept-meta"
    /\ meta' = NONE
    /\ Finish(p, "accepted")
    /\ UNCHANGED <<index, bundle, marker, stamp, baseline, sidecars, ghosts>>

AcceptFails(p) ==
    /\ IoFaults
    /\ pc[p] \in {"accept-baseline", "accept-meta"}
    /\ Finish(p, "TNG-INDEX-BASELINE-WRITE-FAILED")
    /\ UNCHANGED <<files, ghosts>>

-----------------------------------------------------------------------------
(* The environment. *)

\* A process dies or exits: its memory is gone, the files stay as they are.
Gone(p) ==
    /\ pc' = [pc EXCEPT ![p] = "idle"]
    /\ conf' = [conf EXCEPT ![p] = NoConf]
    /\ mem' = [mem EXCEPT ![p] = Blank]
    /\ out' = [out EXCEPT ![p] = NoOutcome]
    /\ UNCHANGED <<files, ghosts>>

Crash(p) == Crashes /\ pc[p] \notin {"idle", "done"} /\ Gone(p)

Exit(p) == pc[p] = "done" /\ Gone(p)

\* The TTL of the cache runs out.
Expire ==
    /\ stamp = "fresh"
    /\ stamp' = "stale"
    /\ UNCHANGED <<index, bundle, marker, baseline, meta, sidecars, pc, conf, mem,
                   out, ghosts>>

-----------------------------------------------------------------------------

\* The steps a process takes once a verb has been started.
Step(p) ==
    \/ ServeIndex(p) \/ ServeMarker(p) \/ ServeStat(p) \/ ServeUnmark(p)
    \/ ServeBundle(p)
    \/ FetchFails(p) \/ Fetch(p) \/ GateBaseline(p) \/ GateMeta(p)
    \/ WriteUnmark(p) \/ WriteBundle(p) \/ WriteMark(p) \/ WriteIndex(p)
    \/ WriteStamp(p) \/ WriteBaseline(p) \/ WriteMeta(p)
    \/ WriteFails(p)
    \/ EpochPointer(p) \/ EpochSettled(p) \/ EpochFetched(p) \/ EpochInvalid(p)
    \/ AcceptFetch(p) \/ AcceptDiff(p) \/ AcceptBaseline(p) \/ AcceptMeta(p)
    \/ AcceptFails(p)

Next ==
    \/ \E p \in Procs : StartLoad(p) \/ StartAccept(p) \/ Step(p) \/ Crash(p) \/ Exit(p)
    \/ Expire

Spec == Init /\ [][Next]_vars

\* A process that has been started is scheduled until it returns.
FairSpec == Spec /\ \A p \in Procs : WF_vars(Step(p))

-----------------------------------------------------------------------------
(* Properties of any number of processes. *)

Labels ==
    {"idle", "done", "serve-index", "serve-marker", "serve-stat", "serve-unmark",
     "serve-bundle", "fetch", "gate-baseline", "gate-meta",
     "write-unmark", "write-bundle", "write-mark", "write-index", "write-stamp",
     "write-baseline", "write-meta", "epoch-pointer",
     "epoch-sidecar", "accept-fetch", "accept-diff", "accept-baseline",
     "accept-meta"}

Slugs ==
    Results \cup {"none", "minted", "nothing to accept", "accepted",
                  "MILPA-INDEX-UNREACHABLE", "MILPA-INTERNAL-IO", "TNG-PARSE",
                  "TNG-INDEX-BASELINE-CORRUPT", "TNG-INDEX-BASELINE-WRITE-FAILED",
                  "TNG-INDEX-ROOT-MUTATED", "TNG-INDEX-ROLLBACK",
                  "TNG-ENTRY-MUTATED", "TNG-INDEX-EPOCH-COMMITMENT-INVALID",
                  "TNG-INDEX-EPOCH-RATCHET-REQUIRED"}

Decisions ==
    [error : Slugs \cup {"ok"}, advance : BOOLEAN, wmeta : BOOLEAN,
     reported : Opt(Digests), warning : {"none", "new", "recurring"}]

Memory ==
    [bytes : Opt(Bytes), bundle : Opt(Bundles), verif : Opt(Results),
     sidecar : {"keep", "bundle", "marker", "cached"}, recovery : BOOLEAN,
     offline : BOOLEAN, base : Opt(Bytes), dec : Decisions, pointer : Opt(Values)]

Outcomes ==
    [result : Slugs, bytes : Opt(Bytes), bundle : Opt(Bundles),
     verif : Opt(Results), status : {"Unarmed", "Armed", "ArmingInvalid"},
     cached : BOOLEAN]

FilesType ==
    /\ index \in Opt(Bytes) /\ bundle \in Opt(Bundles) /\ marker \in BOOLEAN
    /\ stamp \in {"fresh", "stale"}
    /\ baseline \in Opt(Bytes) /\ meta \in Opt(Digests) /\ sidecars \subseteq Values
    /\ served \subseteq Bytes /\ lax \in BOOLEAN

ProcessType ==
    /\ pc \in [Procs -> Labels]
    /\ conf \in [Procs -> Confs \cup {[NoConf EXCEPT !.policy = q] : q \in Policies}]
    /\ mem \in [Procs -> Memory]
    /\ out \in [Procs -> Outcomes]

(* The files and the memory of every process hold values of their types.   *)
TypeOK == FilesType /\ ProcessType

(* An index minted under index-trust "strict" came with a flawless bundle  *)
(* that attests exactly its bytes, whichever of the files other processes  *)
(* replaced between the reads of try_serve_from_cache.                     *)
StrictMintsTrusted ==
    \A p \in Procs :
        pc[p] = "done" /\ out[p].result = "minted" /\ conf[p].policy = "strict" =>
            /\ out[p].bundle # NONE
            /\ out[p].bundle.attests = out[p].bytes
            /\ out[p].bundle.flaw = "none"

(* An unparseable candidate never clobbers the cache, and the baseline can *)
(* always be parsed again: TNG-INDEX-BASELINE-CORRUPT never follows from   *)
(* what milpa itself wrote (parse-at-gate in run_ratchet_gate).            *)
CacheParses ==
    /\ index # NONE => index \in Good
    /\ baseline # NONE => baseline \in Good

(* The baseline only ever reflects content that was renamed into the cache *)
(* or explicitly accepted: a crash or a failed write between the two never *)
(* advances trust past what was served (write order of State 2).           *)
BaselineWasServed == baseline # NONE => baseline \in served

-----------------------------------------------------------------------------
(* Properties of one process at a time, crashes and failed writes included. *)

History == INSTANCE IndexHistory WITH
    baseline <- IF baseline = NONE THEN NONE ELSE Doc[baseline],
    accepting <- \E p \in Procs : pc[p] = "accept-baseline",
    Candidates <- {Doc[b] : b \in Good}

(* The baseline file implements the history register: however loads under  *)
(* different policies, accepts, crashes and failed writes follow each      *)
(* other, it moves only to states that dominate it, or by an accept        *)
(* (evaluate_gate's sticky advance, apply_ratchet_writes).                 *)
BaselineRatchets == History!Spec

(* While only loads under index-history "strict" have replaced the index   *)
(* and nothing has been accepted, what any load returns dominates the      *)
(* baseline, also when it is served from a cache whose baseline write      *)
(* never happened (States 1 and 3 run no ratchet).                         *)
StrictHistoryHolds ==
    \A p \in Procs :
        out[p].result = "minted" /\ ~lax /\ baseline # NONE =>
            Dominates(Doc[baseline], Doc[out[p].bytes])

-----------------------------------------------------------------------------
(* Properties that the documents state and the code keeps only while       *)
(* nothing fails or no other process interferes.                           *)

(* Under index-history "strict", without an accept, a consumer who has a   *)
(* baseline replaces the index file only by a document that dominates it:  *)
(* what was served is never taken back (run_ratchet_gate compares with the *)
(* baseline file, which a crash leaves behind the index file).  A first    *)
(* use, without a baseline, anchors anew and is left out.                  *)
IndexReplaced ==
    index # NONE /\ baseline # NONE /\ index' # index => Dominates(Doc[index], Doc[index'])
StrictIndexNeverRewritten == [][IndexReplaced]_vars

(* The epoch fold reads the cached index a second time: what it finds are  *)
(* the bytes already vetted, so that the status an index is minted with is *)
(* that of its own bytes (read_cached_epoch_commitment_pointer).           *)
EpochMatchesIndex ==
    \A p \in Procs :
        out[p].result = "minted" /\ conf[p].policy # "off" =>
            (out[p].status = "Armed"
                <=> Doc[out[p].bytes].root.attestation_epoch_commitment # NONE)

(* A cached bundle that does not attest the cached index is recovered from *)
(* by one re-fetch, never reported to the user (try_serve_from_cache).     *)
MismatchRecovers ==
    \A p \in Procs : ~(out[p].result = "DigestMismatch" /\ out[p].cached)

-----------------------------------------------------------------------------
(* Liveness. *)

(* Every verb that is started returns, or is killed, whatever the network  *)
(* answers and the other writes leave: the recovery re-fetch of a broken   *)
(* bundle is bounded (load_index_with_history).                            *)
LoadReturns == \A p \in Procs : pc[p] \notin {"idle", "done"} ~> pc[p] \in {"idle", "done"}
=============================================================================
