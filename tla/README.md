# A TLA+ development of milpa

milpa is a package manager for Nim. A project declares its dependencies in
`milpa.kdl`; milpa resolves them against a registry index, fetches the sources
into a content-addressed store, links them into the project and records the
result in `milpa.lock`. The registry index is the root of its supply-chain
trust: it is fetched from a URL, checked against a Sigstore bundle, compared
with the history the user has already seen, cached on disk without a lock, and
served from that cache to every later command.

This development models the Rust implementation (`src/impls/rust/crates/`) in
four parts: the registry index with its append-only ratchet and cache; the
content-addressed store and the `_deps` views linked into it; the resolver with
the version-set algebra under it; and the files of a workspace with the verbs
that rewrite them.

## The system

### Components

| Component (source) | State it keeps | Operations | What makes it correct |
|---|---|---|---|
| Append-only ratchet (`milpa-core/ratchet.rs`) | none; a pure fold | `Baseline::check`, one dominance order per field kind | what is published is never removed or rewritten, also over many snapshots |
| Ratchet seam (`index_ratchet_seam.rs`) | none | `build_index_state`, `evaluate_gate` | parse before any write; advance only on a clean difference |
| Index cache (`index_cache.rs`) | seven kinds of file per URL: index, bundle, no-bundle marker, stamp, baseline, baseline metadata, epoch sidecars | `load_index_with_history` (four states and a recovery), `try_serve_from_cache`, `write_baseline_pair`, `fetch_verified_candidate_text`, the epoch fold | the files are safe in every combination that crashes, failed writes and races can leave |
| Index trust gate (`index_trust.rs`) | warned URLs of this process | `verify_index_bundle`, `enforce_index_trust` | under `strict` only attested bytes are used |
| Epoch commitment (`epoch_commitment.rs`) | none | `evaluate_epoch_commitment`, `enforce_epoch_commitment`, `check_epoch_ratchet_requirement` | the status belongs to the index it is stamped on |
| Gated index (`gated_index.rs`) | none | `mint` | no index is used that has not passed its gates |
| Atomic writes (`atomic_cache.rs`) | a temp-name counter | `atomic_write_bytes`, `read_verified_or_self_heal` | a reader sees the old or the new contents |
| Pinned sidecar caches (`dep_decl_store.rs`, `entry_bundle_store.rs`) | one file per pin | read, verify, self-heal, fetch | what is returned matches the pin |
| Entry trust (`entry_trust.rs`) | warned entries | the per-entry decision | no entry passes on a weaker basis than its policy asks |
| Store (`store.rs`), fetchers (`fetchers.rs`) | trees by identity, scratch directories | scratch, admit, link, list, resolve a prefix | a slot is empty or holds the whole tree of its identity, for ever; links resolve |
| Frozen resolution (`frozen.rs`) | the project's `_deps` links | `resolve_frozen`, `rebuild_deps_view` | a view reported as built is the graph's |
| Resolver (`resolver.rs`, `binding.rs`) | bindings, candidates, stubs, discovery order, a captured error | seed, admit, dispatch, materialise, the provider's queries | a graph is sound, one source per name, errors are not lost, the resolve ends |
| Solver (`milpa-solver`) | version sets; who constrained whom | the interval algebra, `from_constraint`, `prioritize`, `choose_version`, `get_dependencies` | sets mean what the constraint says; equality of representations is equality of sets |
| Lockfile, manifest writer, `nim.cfg`, workspace | project files | read, edit, write, compare | the files agree with one another, and a refused verb changes none |
| Command line (`milpa-cli/main.rs`) | none | the verbs, `index accept`, `index status` | the order in which a verb changes files |

`PROJECT.json` lists every component with its status. Vendored Sigstore code,
the Python implementation, the conformance fixtures and the test harness are
left aside.

### Interactions

Components call each other within one process; processes interact only through
files. A command asks for the index (`load_index_raw`), which goes through the
cache: State 1 serves a fresh cache, State 2 fetches, State 3 falls back to the
cache when the network is down, State 4 gives up. A fetched pair passes the
trust gate in memory, then the ratchet gate, which reads the baseline and its
metadata; then come the writes, in the order marker, bundle, index, stamp,
baseline, metadata; then the epoch fold, which reads the cached index again;
then the mint. `milpa index accept` fetches and verifies without touching the
cache and writes only the baseline pair.

A verb then resolves: the provider seeds the manifest's requirements, fetches
URL dependencies at once and registry ones when the solver asks for their
dependencies. Every fetch goes through the admitting fetcher into the store and
leaves a link in `_deps`. From the solution the view is rebuilt, and the verb
writes the manifest (if it changes it), the lock and, for `fetch`, each
member's `nim.cfg`. `--frozen` takes the graph from the lock and the store
instead; `--locked` resolves and compares.

### What is hard

- There is no lock. Two commands interleave between any two file operations.
- Each file is replaced atomically, but six files are replaced one by one, and
  a crash or a full disk can stop between any two of them.
- Some failures are errors (renames) and some are ignored (stamp, marker,
  removals).
- The policy of each axis (`off`, `warn`, `strict`) belongs to the project, the
  cache to the user: commands under different policies share the files.
- The network answers anything, and the bundle's transport fails independently
  of the index's.
- The solver calls back into a provider that fetches, binds names and discovers
  packages while the search is under way, and whose queries cannot fail.
- The identity of a fetched tree is computed through a link that other
  candidates of the same name share.
- A verb's outputs are inputs of the next: the lock's pins and bound, and
  `nim.cfg`, which lies inside the directory whose hash the lock records.

The list of hazards with their lines is in `PROJECT.json`.

## The modules

| Module | Models |
|---|---|
| `IndexRatchet` | `ratchet.rs` and the index state that the seam builds: the order of every field kind, the lockstep pair, root fields, rollback, and `Check`, the set of violations of a transition |
| `IndexHistory` | abstract specification: the baseline as a register that is established once, advances to dominating states, and is otherwise moved only by an accept |
| `AnchoredHistory` | `IndexHistory` with an observer who remembers the last anchor, and `HistoryKept`, what a consumer may rely on, stated on the fields and not through `Check` |
| `AnchoredHistoryProofs` | proofs for it |
| `IndexCache` | the cache of one URL and the processes that use it: `load_index_with_history`, `try_serve_from_cache`, the gates, the writes, the epoch fold, `milpa index accept`, crashes, failed writes, expiry |
| `IndexCacheProofs` | proofs for it, with any number of processes |
| `OneProcessProofs` | proofs for it, with one process at a time, the refinement of `IndexHistory` among them |
| `CasStore` | `store.rs`, `CasAdmittingFetcher`, `fetch_any_tracked`, `resolve_frozen`, `rebuild_deps_view`: concurrent jobs over one store and several projects |
| `WriteOnceStore` | abstract specification of the store, which `CasStore` implements |
| `CasStoreProofs` | proofs for both |
| `VersionSets` | `VersionSet` and its loops, `from_constraint`, `pick_version` |
| `VersionSetsProofs` | proofs for it: the algebra |
| `VersionMeaningProofs` | proofs for it: what clauses, equality and picks mean |
| `Resolve` | one resolve: `ResolveProvider`, `BindingResolver`, `ProviderAdapter`, and pubgrub as an external search |
| `ResolveProofs` | proofs for it |
| `ProjectFiles` | a workspace's manifests, lock and `nim.cfg` files, and the verbs |
| `ProjectFilesProofs` | proofs for it |
| `MCAnchoredHistory`, `MCIndexCache`, `MCVersionSets`, `MCResolve`, `MCProjectFiles` | instances for TLC; `CasStore` is run as it is |

### Correspondence of `IndexCache` with the code

Variables `index`, `bundle`, `marker`, `stamp`, `baseline`, `meta` are the
files `<key>.index.kdl`, `.bundle`, `.no-bundle`, `.at`, `.baseline`,
`.baseline.meta`; `sidecars` is the set of epoch commitments whose sidecar is
cached. `NONE` is an absent file; an absent stamp and one older than its TTL
are both `"stale"`, because the code treats them alike. `meta` is the violation
set whose digest it records; its dates are only displayed.

`pc[p]` is the next file operation of process `p`, `conf[p]` its policies and
`--refresh-index`, `mem[p]` its local variables, `out[p]` what it returned.
Each action is one file operation or one exchange with the network together
with the code that runs up to the next one:

- `StartLoad`: the choice between State 1 and State 2.
- `ServeIndex`, `ServeMarker`, `ServeStat`, `ServeBundle`: the four accesses of
  `try_serve_from_cache`; `ServeStat`, `ServeUnmark` also the two removals that
  precede a recovery.
- `FetchFails`: States 3 and 4. `Fetch`: State 2, with any document, any bundle
  reply (bytes, 404, other error) and any answer to the freshness bound;
  `FetchVerdict` is the table of its arms, recovery included.
- `GateBaseline`, `GateMeta`: the two reads of `run_ratchet_gate`, and
  `evaluate_gate`.
- `WriteUnmark`, `WriteBundle`, `WriteMark`, `WriteIndex`, `WriteStamp`,
  `WriteBaseline`, `WriteMeta`: the writes in order; `WriteFails` is a rename
  that fails. `BestEffort` is an operation whose failure is ignored.
- `EpochPointer`, `EpochSettled`, `EpochFetched`, `EpochInvalid`:
  `apply_epoch_fold`; `MintEnforced` is `mint_enforced`.
- `StartAccept`, `AcceptFetch`, `AcceptDiff`, `AcceptBaseline`, `AcceptMeta`,
  `AcceptFails`: `cmd_index_accept`.
- `Crash`, `Exit`, `Expire`: the environment.

Two variables belong to observers and influence nothing: `served`, the
documents ever renamed into the index file or accepted, and `lax`, whether a
load under another history policy than `strict` has replaced the index file, or
an accept the baseline.

Abstractions: documents are opaque and `Doc` is the parser (UTF-8, KDL and
validation failures are one error); a bundle is the document it attests and
what is wrong with it; the Sigstore and Rekor checks are that flag; a cached
epoch sidecar verified when it was written and does so again. `index_trust`'s
inputs (policy, verifier, transport) are all present or all absent, and the
epoch inputs with them, as `load_index_raw` passes them.

### Correspondence of `CasStore` with the code

`store[i]` is the slot `<root>/<algorithm>/<digest>`, `deps[d][n]` the entry
`_deps/n` of project `d`, `scratch[p]` the directory of process `p` under
`_scratch`. A process is one `milpa fetch`. Each action is one change of the
file system:

- `Choose`, `ClearDir`, `NextProvenance`: `fetch_any_tracked`, which clears the
  destination before each provenance and gives up after the last.
- `Stage`, `Download`, `DownloadFails`, `Admit`, `Rename`, `LinkClear`,
  `LinkMake`: `CasAdmittingFetcher::fetch` with `scratch`, `admit_inner` and
  `link`; `FetchFault` is any of these operations failing.
- `Hash`: the identity gate after the fetch, through the link.
- `LocalClear`, `LocalMake`: `fetch_local`.
- `StartFrozen`, `Solve`, `Prune`, `RelinkClear`, `RelinkMake`: the end of a
  frozen or live job, with `rebuild_deps_view`, whose errors are swallowed.
- `Clean`: `cmd_clean`. `Crash`: the environment.

### Correspondence of `VersionSets` with the code

A version is its rank, an integer; a prerelease is the rank below its release.
`reg` holds the three `VersionSet` values alive in `from_constraint`; `code` is
what is left of the current clause's constructor (`gt` is `eq`, `complement`,
`intersect` with `gte`; `lte` is `lt`, `union` with `eq`). `Merge` is one round
of `normalize_intervals`, `EmitGap` one gap of `complement`, so that what the
loops compute is an invariant of steps. `Pick` is `choose_version` with
`pick_version`. `mean` is an observer: what each register should denote. The
observer knows a set by its members among `Points`; `Bounds` are the ends that
intervals can have, and `Observed` says that `Points` is dense enough around
them: one version below all of them, each of them, and one right after each.

### Correspondence of `Resolve` with the code

`bind`, `cand`, `stubs`, `discovered`, `seen` are the tables of
`ResolveProvider` and `BindingResolver`; `frames` is the recursion of
`process_items`, one frame per call, each first admitting its whole batch
(`GateOnly`) and then dispatching it (`Dispatch`); a frame holds the places of
the requirements still to admit and still to dispatch, and takes the least
(`Leads`). The root has one term for each declaration, any other package one
for each solver variable (`Terms`, the dedup of `edgeset_to_extracted`). `asking` is the
`get_dependencies` call under way, inside which `MaterializeNamed` fetches and
discovers; `Fail` captures an error there and fails the resolve outside it.
`ChooseVersion` and `GetDependencies` are `ProviderAdapter`, `Prioritize` its
priorities. pubgrub is external: it propagates (`Allowed`), decides, learns a
minimal reason from a conflict and backtracks (`Conflict`). A world gives the
requirements of every package that can be fetched, and root declarations of one
name agree on its source (`WorldAssumption`; `reconcile_root_claims` raises
otherwise), and only a URL source can have an unknown version; namespaces, overrides, flags and the merging of
equal trees are left out.

### Correspondence of `ProjectFiles` with the code

`root` and `pkg` are the workspace's and the members' `milpa.kdl`, `lock` the
shared `milpa.lock`, `cfg` the members' `nim.cfg`. A verb is `Begin` (with the
verb's guards, `Refuses`), one of `Resolve`, `ResolveFrozen`, `ResolveFails`,
and then `WriteManifest`, `WriteLock` and a `WriteCfg` per member, in the order
of the code. `Resolutions` gives the locks that a resolve may return: pins are
kept where the prior lock and the bound allow it, and new ones are arbitrary.
`HashOf` is what `compute_content_hash` covers of a member's directory. `Kill`,
`Edit` and the failing writes are the environment. Two sharp edges of the code
are in the model: `update <dep>` in a member's directory looks for the lock
there, and the failure of a `nim.cfg` write is silent.

## The runs

| Run | Instance | Shows |
|---|---|---|
| `anchored_history` | two entries, two values, candidates of every field kind | `HistoryKept` over chains of any length |
| `cache_faults` | one process, `a e x`, every flaw, every policy pair, accepts, crashes, failed writes, fairness | `TypeOK`, `StrictMintsTrusted`, `CacheParses`, `BaselineWasServed`, `StrictHistoryHolds`, `LoadReturns`; the refinement `BaselineRatchets` |
| `store` | two processes in one or two projects, one name, two trees, two mirrors, crashes, faults, fairness | `TypeOK`, `NeverDangles`, `RecordsWhatWasServed`, `ViewIsGraph`, `ScratchCleared`, `RaceLoserSucceeds`, `JobReturns`; the refinement `WriteOnce` |
| `version_sets` | clauses of all kinds on 0.1.0 and 1.0.0, any number of clauses and arms | `Denotes`, `AlwaysCanonical`, `EqualityIsSemantic`, `ClauseIsRead`, `PickIsRight` |
| `resolve` | 7,560 worlds of four registry packages and three URLs, failing fetches, fairness | `TypeOK`, `SolutionIsSound`, `OneSourcePerName`, `KnownConstrainersCaught`, `ResolveReturns` |
| `project_files` | two directories, two dependencies, two versions, one bound; three verbs, edits or cleans; kills and failed writes | `TypeOK`, `FilesAgree`, `RefusedLeavesFiles`, `LockedIsLocked`, `FetchSettles`, `BoundKept` |
| `mismatch_crash` | one process, a crash | `MismatchRecovers` violated |
| `rewrite_crash` | one process, `a b c`, strict history, crashes | `StrictIndexNeverRewritten` violated |
| `epoch_race` | two processes, `a e`, strict policies, nothing fails | `EpochMatchesIndex` violated |
| `dropped_clause` | the worlds of `resolve`, no faults | `HonoursEveryClause` violated |
| `frozen_bound` | as `project_files` | `LockHonoursBound` violated |
| `refetch` | as `project_files` | `RefetchIsStable` violated |

The index runs are on one URL. `doc_a` publishes one entry; `doc_b` and `doc_c`
add a second one with different contents, so that both dominate `doc_a` and
neither dominates the other; `doc_e` arms the epoch of `doc_a`; `doc_x` does
not parse. Those state spaces are finite without counters or constraints: a
process returns to its initial state when it exits, so the runs cover any
number of commands one after the other. The same holds of `store` and
`version_sets`.

Bounds. In `cache_faults`, `e` is a clean advance of `a` and `a` a conflict with
`e`; a third document that parses, incomparable with one of them, makes the
state space too large beside every policy, flaw and fault, and is left to the
proofs, which have no bound on the documents. The index runs but `epoch_race` use one process,
because the refinement and the crash behaviour are about sequences of commands;
the properties that hold under races are proved for any number of processes,
and `epoch_race` needs two to show the one that does not. In
`store`, `MaxFetches` and `Mirrors` bound one job; two processes are one reader
and one writer of a slot or a view, and the proofs have no bound. In
`version_sets` the observed versions include the ones at, just below and just
above every bound a clause can produce, so that two different sets differ in
one of them; `MCVersionSets` assumes this (`ObservedEnough`) and TLC evaluates
it. The worlds of `resolve` combine requirements so that a diamond, a
cycle through URLs, a late second source for a name, a late constraint on an
unknown version, a name required twice and a conflict that needs two decisions
undone all occur. In `project_files`, `MaxVerbs` = 3: a verb to make the files,
an edit, a kill or another verb to disturb them, and a verb to judge;
`Directories` permutes the two members, which is sound as no property tells
them apart and none is liveness.

Fairness. `IndexCache` and `CasStore` assume weak fairness of a started
process' steps: the operating system schedules it and every network exchange
ends, in a reply or an error (the transports have time-outs). Nothing is
assumed of starting, crashing or expiry. `LoadReturns` says that recovery,
re-fetch and offline fall-back do not call each other for ever, `JobReturns`
that the fall-back over mirrors ends; a process that is killed has ended.
`Resolve` assumes weak fairness of its next-state relation: a resolve is one
synchronous call.

Deadlock is not checked in `resolve`, which stops when the call returns, and in
`project_files`, which stops at its bound.

### Where documents and code disagree

Each violation run refutes one sentence of a specification or comment;
`PROJECT.json` quotes them.

1. `mismatch_crash`: a cached bundle that does not match its index should be
   recovered from silently; the code recovers only from an absent or empty one,
   and reports a digest mismatch under strict trust after a crash between the
   two writes.
2. `rewrite_crash`: a crash between index and baseline is said to cost only a
   redundant comparison, and a consumer who never re-anchors to catch every
   rewrite. In the trace a first load establishes the baseline `a`, a second one
   replaces the index by `b` and dies before the baseline write, and a third,
   strict as the others, compares its candidate with the baseline `a` and
   replaces `b` by a document without `b`'s entry. `StrictIndexNeverRewritten`
   speaks only of steps at which there is a baseline, so that no first use, which
   may anchor anew (`registry-protocol.md:1621-1635`), can violate it.
3. `epoch_race`: the second read of the cache file, for the epoch pointer, is
   said to find the bytes already vetted. A second load that replaces the file in
   between makes the first one mint its own index with the other's status.
4. `dropped_clause`: every requirement should reach the solver; the second one
   of a package on the same dependency is dropped, constraint included.
5. `frozen_bound`: the frozen path is said to know no `--exclude-newer`; `fetch
   --frozen --exclude-newer T` accepts it and rewrites the lock with a bound
   its pins were not resolved under.
6. `refetch`: repeated fetches are said to be idempotent. The first fetch of a
   workspace hashes its members before it writes their `nim.cfg`; the second
   records other hashes, and until then `--locked` and `--frozen` refuse. Once
   `nim.cfg` is in place the lock settles (`FetchSettles`).

Smaller observations, without a run of their own:

- Under `--refresh-index` the old stamp may still be fresh, so a crash between
  index and stamp is not seen as stale (comment at `index_cache.rs:277`), and a
  strict failure does not re-alarm until the TTL runs out (policy table at
  `registry-protocol.md:1811`).
- After a crash between baseline and metadata, a warning is called recurring on
  the old digest (`registry-protocol.md:1708-1711` asks to treat it as unset).
- Two loads that race can replace a baseline by an incomparable one, where
  `registry-protocol.md:1742-1745` says that races self-heal.
- After a transport failure of the bundle, an older bundle or marker keeps the
  next read from recovering (`registry-protocol.md:1219-1222`).
- `rebuild_deps_view` swallows its errors: a job reports success over a view
  that is not its graph. `ViewIsGraph` excludes such jobs.
- A captured fetch error should be preferred to any solver outcome (comment at
  `resolver.rs:338-339`), but a solver error is returned before it is looked at.
- A package of unknown version can be selected under a constraint of another
  one of unknown version that is decided after it. The comment at
  `milpa-solver/src/lib.rs:1234-1238` says that the accumulated range is complete
  by then, and `resolver-semantics.md:282-299` that the classification is exact;
  both argue from the packages of known version alone. `KnownConstrainersCaught`
  says what does hold.
- Equality of `VersionSet`s is said to be equality of sets (comments at
  `milpa-solver/src/lib.rs:369-372` and `:515-517`). It is, except for bounds
  with no version between them: `>=0.0.0-0` allows every version, but is not
  `full()`, and a package of unknown version is refused under it. The theorem
  `EqualityAlwaysSemantic` states the hypothesis under which the comment holds.
- A failed lock write after the manifest's leaves the new manifest with the old
  lock (`cli-contract.md:1171` promises neither changes), and `nim.cfg` is
  written in place (`cli-contract.md:717-721` asks for atomic writes).
- `--locked` does not compare the lists of requirements.
- `lock --frozen` takes the frozen path: `main.rs:238` passes the flag on as for
  `fetch`. `cli-contract.md:748-749` says that it "is accepted but has no effect;
  `lock` always runs the full resolver", and `:27-28`, `:153-154` and the table
  at `:2453` agree. The model does what `main.rs` does; `LockedIsLocked` is about
  `--locked` and `fetch --frozen` only, and claims nothing of `lock --frozen`.
- A plain `fetch` always resolves in full. `cli-contract.md:148-151` requires it
  to take the frozen fast path when that succeeds, and to fall through when not.

## The proofs

`AnchoredHistoryProofs` proves `AnchoredSpec => []HistoryKept` for every set of
keys, values, provenance records and candidates. `Check` compares neighbours
only; the argument is that a clean check implies `StateKept`
(`CleanCheckKeeps`, one lemma per order kind), and that `StateKept` is
reflexive and transitive (`KeptReflexive`, `KeptTransitive`). Transitivity is
where it could go wrong: an attestation may change kind once, a lockstep pair
may appear once, an absent schema version is 1.

`IndexCacheProofs` proves `TypeOK`, `CacheParses`, `BaselineWasServed` and
`StrictMintsTrusted` of `Spec`, for any number of processes, documents,
bundles and configurations, with crashes and failed writes. None is inductive
alone. `IInv` adds `ProcessInv`: at each label, what the memory of a process
must be for the rest of the code to be safe (`Sound`). From the gate's decision
on, the bytes parse; from the index write to the baseline write, the bytes have
been served; from the trust gate on, under `strict`, the bundle in memory
attests the bytes in memory. Because it speaks of a process' own memory and of
the growing set `served`, no other process can disturb it; that is why these
four survive the races that break others. One lemma per phase (`ServeSafe`,
`FetchSafe`, `WriteSafe`, `EpochSafe`, `AcceptSafe`, `StartSafe`, `GoneSafe`)
shows that every action keeps it.

`CasStoreProofs` proves of `CasStore`, for any number of processes, projects,
names, trees, candidates and mirrors, with crashes and failing operations:
`TypeOK`, `NeverDangles`, `RecordsWhatWasServed`, `ViewIsGraph`,
`ScratchCleared`, and that the store implements `WriteOnceStore`. `IInv` has
three layers. `StoreSound`: a slot is empty or holds its own tree. `Sound`: at
each label, what scratch and memory are, and which slots are known to be full;
other processes only fill slots, so it is stable. `Framed` and `Exact`: for a
process alone in its project, what its view is at each label, what `Prune` and
the relinking have still to do, and what a finished job left; no process of
another project touches that view. `MoveKeeps` states once that a step within
its own frame disturbs nobody else's part, and each action has one lemma. The
refinement is a step simulation: `Rename` is an `Admit` of the abstract store,
everything else stutters.

`VersionSetsProofs` proves `Denotes` and `AlwaysCanonical` for constraints of
any length, any versions and any observed points. `Merging` says that the
canonical prefix and the intervals still to merge have, between them, exactly
the versions of the goal, and that the prefix begins before everything left;
`Gapping` says that the gaps emitted so far are what the set leaves out up to
the interval at hand. The work is in `MergeIntoRight` (one round of
`normalize_intervals`) and `GapRight` (one gap), which settle the cases of
touching, open, closed and unbounded ends.

`VersionMeaningProofs` goes on from there to what the sets are used for, for any
named versions and any `Base`.

- `ClauseIsRead`. `Reading` says, for each point in a clause's constructor, what
  its accumulator means and what the operations left will make of it. The
  arithmetic of `~` and `^` is in `NextMultiple`, `NextReleases` and
  `Compatible`: below the bound every release is compatible, and the bound
  itself is not. The hypothesis is that the bounds are among `Points`.
- `EqualityIsSemantic`. `EndsOK` says that every end of every interval is in
  `Bounds`. Two canonical sequences with the same versions are then compared at
  their first difference (`LeastOf`, from the well-foundedness of the naturals):
  what starts there first has a version the other lacks (`FirstVersion`,
  `StartsTogether`), and so has what ends last (`VersionAfter`, `EndsTogether`).
- `PickIsRight`. `PickedOK` says that the choice made was the code's for the
  final set; `LowerBoundIs` and `UnboundedIs` say that the lower bound
  `pick_semver` reads off the intervals has the major of the least version
  allowed, and that there is none exactly when the set reaches down to the
  lowest version.

The last two have the hypothesis `Observed`. It is not an artefact: the property
is false of bounds with nothing between them or below them: `<=1.0.0 |
>=1.0.1-0`, where 1.0.1-0 is the lowest prerelease and follows 1.0.0 directly,
and `>=0.0.0-0` (TLC finds the latter at once with `Named` = {-1}). Any releases satisfy it, with `Base` large enough. A release
named together with its own prerelease does not, because ranks have no version
between the two where semver has many; that case is left to `Denotes` and
`AlwaysCanonical`.

`ResolveProofs` proves `TypeOK`, `SolutionIsSound`, `OneSourcePerName` and
`KnownConstrainersCaught` of `Resolve`, for any manifests, sources and versions.
A graph is returned long after its edges were discovered, so the invariant
follows an edge from the manifest to the decision. `SettledOK`: every requirement of a fetched package
has its term, and its name is bound, or will be before the innermost call of
`process_items` dispatches anything; this is where admitting a whole batch
first matters, and where a frame left behind by an error would hurt. `ToldOK`:
what the solver was told is what the provider holds, until an error is
captured. `DecisionsOK` and `AskingOK`: the decisions satisfy each other's
terms, and the package being asked about fits them. `PhaseOK` then gives that a
graph is returned with no error captured and nothing left open.
`KnownConstrainersCaught` needs the order of the decisions. `UnknownOK`: a
package of unknown version is enumerated only when it is fetched, and under its
sentinel. `LateOK`: when such a package was decided, or is being asked about,
the decisions before it put no constraint on it and left only packages of
unknown version open. It survives backtracking because that leaves a prefix of
the decisions, and it survives discovery because what an earlier decision
requires is fixed when it is made; only a package that was itself of unknown
version can still be decided later, which is why the property speaks of known
constrainers. Three of the theorems have the hypothesis `NoAlias`: nothing is required
under two names. The proof needs it, since `edgeset_to_extracted` keeps one term for each solver
variable where it means one for each name: of two names for one source the
second one's constraint and claim are lost, the same dedup as in the finding on
dropped clauses. All worlds of the runs satisfy it.

`ProjectFilesProofs` proves `TypeOK`, `FilesAgree`, `RefusedLeavesFiles`,
`LockedIsLocked`, `FetchSettles` and `BoundKept`, for any number of members,
dependencies, versions and verbs; the run has three verbs. `IInv` has one
conjunct per place a verb may be at: what it has computed (`Covers`, `Hashed`,
`Kept`, `BoundCarried`, together `Answers`), and which files are still as it
found them. The work is at the manifest write of `add`, `remove` and the
workspace verbs: the lock was computed for the proposed manifests, and must
answer for the ones now on disk.

`OneProcessProofs` takes the hypothesis `Alone`, one process at a time with any
policies from load to load, and proves two properties of the cache that are
about sequences of commands and that races break: the refinement
`BaselineRatchets`, and `StrictHistoryHolds`. What could break them without a
race is a crash or a failed write between the index and the baseline, a change
of policy between two loads, and the cache path, which runs no ratchet. `Fits`
says, label by label, that what was read is still what is on disk (the bytes in
memory are the index file's, the baseline the gate judged is the one it will
replace), and that a strict gate has let through only what it advances to.
`FilesFit` says that until `lax` the index on disk dominates the baseline, also
between their two writes and after a crash there. The refinement is a step
simulation: only `WriteBaseline` and `AcceptBaseline` move the register, and
`GateFollows` shows the first one an advance. That an index is minted with the
epoch status of its own bytes is left to `epoch_race`: with one process nothing
could disturb it.

`CasStoreProofs` also proves the action property `RaceLoserSucceeds`: with
`Framed` extended by what a view holds between the two steps of `link`, every
way to `clear` is a fault or another process in the same project.

The assumptions are those of the modules: `NONE` is no value, `Doc` parses
every document to an index state or to nothing, bundles attest documents and
have one of the listed flaws, policies are the three of the code, `Candidates`
are index states, the markers of `CasStore` are no trees, versions are
integers and the ones named start at 0.0.0-0, the sources of `Resolve` are registry or URL ones and its worlds are
as said above, the markers of `ProjectFiles` are no digests and no
dependencies, and its `Needs` is the transitive closure of the dependencies. TLC
evaluates them in every run. Every inductive invariant was
checked by TLC, on the instance of its component's run, before it was proved.

What the proofs changed in the models: with an empty range among the root's
declarations the root was left undecided, and the solve now ends in a conflict;
root declarations became one term each; the type of a `nim.cfg` in
`ProjectFiles` allowed sets of sets; `SolutionIsSound` now also says that the
root is in the graph.

Only model-checked: the liveness properties `LoadReturns`, `JobReturns` and
`ResolveReturns`, which are out of the prover's reach. Every other property of
the passing runs is a theorem.

## The plan

Done: the ratchet and the index cache with `index accept`; the store, the
fetchers' admission and the `_deps` view; the version-set algebra; the
resolver's provider with the solver's adapter; the workspace files and verbs;
and the proofs above. Next, in this order:

1. `PinnedCache`: `dep_decl_store.rs`, `entry_bundle_store.rs` and
   `read_verified_or_self_heal`: what is returned matches its pin, a corrupt
   file is replaced, one fetch at most.
2. `EntryTrust`: the decision of `entry_trust.rs` as an operator, monotone in
   the policy and the epoch, composed with the epoch status of `IndexCache` and
   with the absent index of `load_index_raw`.
3. `reverify_cached_index` and the verify verb over the files of `IndexCache`.
4. Two verbs at once in one project; the fixpoint over feature flags.

## Not modelled

- Cryptography, text formats, archives and transports: data or I/O to every
  property here.
- The manifest, lock and index parsers and their validation (about a fifth of
  the Rust code): pure functions of text, whose results the models take as
  given.
- In the verbs: single-package projects (the same order of writes on one
  member), a `fetch` in a member's directory, the resolution strategy,
  `add --mirror`, `init`, certificates, feature flags, dependencies between
  members.
- In the resolver: namespaces, overrides, the flag fixpoint, the merging of
  equal trees in `finalize`, attested metadata.
- The vendored Sigstore code, the conformance runner, the tests inside each
  source file and the Python implementation. Together with the parsers and the
  text of the command line they are the greater part of the lines under `src/`;
  the mapped lines are the code behind the models above.

## Running the checks

    tlc -workers 2 -config CacheFaults.cfg MCIndexCache
    tlc -workers 2 -config CasStore.cfg CasStore
    tlc -workers 2 -config VersionSets.cfg MCVersionSets
    tlc -workers 2 -config Resolve.cfg MCResolve
    tlc -workers 2 -config ProjectFiles.cfg MCProjectFiles
    tlapm CasStoreProofs.tla

and likewise for the other runs of `PROJECT.json` and the other proof modules.
The longest runs take about a minute and a half.
