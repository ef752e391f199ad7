---------------------------- MODULE ProjectFiles ----------------------------
(***************************************************************************)
(* The files of a workspace and the verbs that rewrite them (cmd_fetch,    *)
(* cmd_update, cmd_add, cmd_remove and the workspace verbs of main.rs):    *)
(* the root manifest, the members' manifests, the shared milpa.lock and    *)
(* each member's nim.cfg.  A verb reads the files, resolves in memory, and *)
(* then writes them one after the other; it may be killed between two      *)
(* writes, a write may fail, and the user edits the files between verbs.   *)
(*                                                                         *)
(* Abstractions: a declaration is a name without a constraint, so the      *)
(* version of a locked dependency is kept whenever the resolve may keep it *)
(* and a new one is arbitrary among those not too new (for a URL, whose    *)
(* one version may be too new, the resolve then fails); any resolve may    *)
(* fail.  The `_deps` view is in CasStore.  One verb runs at a time.       *)
(***************************************************************************)
EXTENDS Naturals, FiniteSets

CONSTANTS
    Member,     \* directories with a package manifest, member or not
    Dep,        \* dependencies
    Needs,      \* Needs[d]: everything a dependency requires, transitively
    Version,    \* the contents a dependency may be locked to
    Time,       \* exclude-newer bounds
    Older,      \* Older[t]: the versions published before t
    None,       \* no bound, no lock, no pin, no file
    Torn,       \* a nim.cfg written half
    IoFaults,   \* TRUE: a write may fail, and a verb may be killed
    MaxVerbs    \* verbs, edits and kills in a behaviour

Bound == Time \cup {None}
Pin == Version \cup {None}
Cfg == (SUBSET Dep) \cup {None, Torn}
Digest == (SUBSET Dep) \X Cfg

ASSUME FilesAssumption ==
    /\ Needs \in [Dep -> SUBSET Dep]
    /\ \A d \in Dep : \A e \in Needs[d] : Needs[e] \subseteq Needs[d]
    /\ Older \in [Time -> SUBSET Version]
    /\ None \notin Version \cup Time \cup Member \cup Dep /\ Torn # None
    /\ None \notin Digest
    /\ IoFaults \in BOOLEAN /\ MaxVerbs \in Nat

VARIABLES
    root,   \* the root manifest: members, and the exclude-newer bound
    pkg,    \* pkg[m]: what the manifest of m declares
    lock,   \* milpa.lock: the pin of each dependency, the content hash of each
            \* member, what each member requires, and the bound; or None
    cfg,    \* cfg[m]: the dependencies on the path of m's nim.cfg
    pc,     \* where the verb is
    cmd,    \* the verb and its arguments
    new,    \* the lock it will write
    todo,   \* members whose nim.cfg it has still to write
    out,    \* how it ended
    was,    \* observer: root, pkg, lock and cfg when it started
    left    \* bound on the length of a behaviour

files == <<root, pkg, lock, cfg>>
vars == <<files, pc, cmd, new, todo, out, was, left>>

Lock == [pins : [Dep -> Pin], ids : [Member -> Digest \cup {None}],
         requires : [Member -> SUBSET Dep], bound : Bound]

\* mode: the plain live resolve, --locked, --frozen, or --upgrade [arg].
\* `lock` honours --frozen, as main does; cli-contract.md says it ignores it.
Fetch == [verb : {"fetch", "lock"}, mode : {"plain", "locked", "frozen", "upgrade"},
          at : {None}, arg : Dep \cup {None}, bound : Bound]
Others == [verb : {"update"}, mode : {"upgrade"}, at : Member \cup {None},
           arg : Dep \cup {None}, bound : {None}]
          \cup [verb : {"add", "remove"}, mode : {"plain"}, at : Member \cup {None},
                arg : Dep, bound : {None}]
          \cup [verb : {"add-member", "remove-member"}, mode : {"plain"}, at : {None},
                arg : Member, bound : {None}]
Commands == {c \in Fetch : c.mode # "upgrade" => c.arg = None} \cup Others

NoCmd == [verb |-> "none", mode |-> "plain", at |-> None, arg |-> None, bound |-> None]

-----------------------------------------------------------------------------
(* Reading the files. *)

Closure(ds) == ds \cup UNION {Needs[d] : d \in ds}

\* compute_content_hash of a member's directory: its manifest, and its nim.cfg.
HashOf(m) == <<pkg[m], cfg[m]>>

Locked(l) == {d \in Dep : l.pins[d] # None}

\* The manifests a verb proposes: those on disk, changed as its argument says.
ProposedMembers(c) ==
    CASE c.verb = "add-member"    -> root.members \cup {c.arg}
      [] c.verb = "remove-member" -> root.members \ {c.arg}
      [] OTHER                    -> root.members

ProposedDeps(c) ==
    CASE c.verb = "add"    -> [pkg EXCEPT ![c.at] = @ \cup {c.arg}]
      [] c.verb = "remove" -> [pkg EXCEPT ![c.at] = @ \ {c.arg}]
      [] OTHER             -> pkg

\* Mutant: the bound recorded in the lock is not carried forward.
EffectiveBoundTwoTiers(c) == IF c.bound # None THEN c.bound ELSE root.bound

\* resolve_effective_exclude_newer: fetch and lock leave the lock's tier out.
EffectiveBound(c) ==
    IF c.bound # None THEN c.bound
    ELSE IF root.bound # None \/ c.verb \in {"fetch", "lock"} \/ lock = None THEN root.bound
    ELSE lock.bound

\* maybe_prior_lockfile and strip_pins_for_upgrade: the pins a resolve is given.
PriorPin(c, d) ==
    IF lock = None \/ (c.mode = "upgrade" /\ c.arg \in {None, d}) THEN None ELSE lock.pins[d]

NotTooNew(b) == IF b = None THEN Version ELSE Older[b]

\* Mutant: with a lock, what it does not pin is not resolved.
ChoicesPinsOnly(c, d) ==
    LET allowed == NotTooNew(EffectiveBound(c)) IN
    IF PriorPin(c, d) \in allowed \/ lock # None THEN {PriorPin(c, d)} ELSE allowed

\* preference, within what the bound leaves.
Choices(c, d) ==
    LET allowed == NotTooNew(EffectiveBound(c)) IN
    IF PriorPin(c, d) \in allowed THEN {PriorPin(c, d)} ELSE allowed

\* Mutant: a member's hash is the one the lock has, if it has one.
MemberIdsFromPrior(c) ==
    [m \in Member |->
        IF m \notin ProposedMembers(c) THEN None
        ELSE IF lock # None /\ lock.ids[m] # None THEN lock.ids[m] ELSE HashOf(m)]

\* The members' own candidates: their directories are hashed as they are.
MemberIds(c) == [m \in Member |-> IF m \in ProposedMembers(c) THEN HashOf(m) ELSE None]

\* resolve_workspace_with_features and from_graph: the locks a resolve may give.
Resolutions(c) ==
    LET requires == [m \in Member |->
                        IF m \in ProposedMembers(c) THEN Closure(ProposedDeps(c)[m]) ELSE {}]
        solved == UNION {requires[m] : m \in Member} IN
    {[pins |-> p, ids |-> MemberIds(c), requires |-> requires, bound |-> EffectiveBound(c)] :
        p \in {f \in [Dep -> Pin] :
                \A d \in Dep : f[d] \in IF d \in solved THEN Choices(c, d) ELSE {None}}}

\* resolve_workspace_frozen, but for what is missing from the store.
FrozenAccepts ==
    /\ root.bound = lock.bound
    /\ \A m \in root.members : pkg[m] \subseteq Locked(lock)
    /\ \A m \in Member : lock.ids[m] # None => m \in root.members /\ lock.ids[m] = HashOf(m)

\* Mutant: what the resolve no longer has is not compared.
DriftsForward(l) ==
    \/ lock = None
    \/ \E d \in Locked(l) : l.pins[d] # lock.pins[d]
    \/ \E m \in Member : l.ids[m] \notin {lock.ids[m], None}
    \/ l.bound # lock.bound

\* check_locked_drift; the lists of requirements are not compared.
Drifts(l) ==
    \/ lock = None
    \/ l.pins # lock.pins
    \/ l.ids # lock.ids
    \/ l.bound # lock.bound

\* The guards of the verbs, before they resolve.
RefusesFetch(c) == c.mode = "frozen" /\ (lock = None \/ ~FrozenAccepts)

\* `update <dep>` in a member's directory looks for a lock there first.
RefusesUpgrade(c) ==
    c.mode = "upgrade" /\ c.arg # None /\ (c.at # None \/ lock = None \/ lock.pins[c.arg] = None)

RefusesAdd(c) == c.verb = "add" /\ (c.at = None \/ c.arg \in pkg[c.at])
RefusesRemove(c) == c.verb = "remove" /\ (c.at = None \/ c.arg \notin pkg[c.at])
RefusesAddMember(c) == c.verb = "add-member" /\ c.arg \in root.members
RefusesRemoveMember(c) == c.verb = "remove-member" /\ c.arg \notin root.members

Refuses(c) ==
    \/ RefusesFetch(c) \/ RefusesUpgrade(c) \/ RefusesAdd(c) \/ RefusesRemove(c)
    \/ RefusesAddMember(c) \/ RefusesRemoveMember(c)

-----------------------------------------------------------------------------
(* The verbs. *)

Init ==
    /\ root \in [members : SUBSET Member, bound : Bound]
    /\ pkg \in [Member -> SUBSET Dep]
    /\ lock = None
    /\ cfg = [m \in Member |-> None]
    /\ pc = "idle" /\ cmd = NoCmd /\ new = None /\ todo = {} /\ out = "none"
    /\ was = None
    /\ left = MaxVerbs

\* A verb named in a member's directory finds the workspace above it.
Begin(c) ==
    /\ pc = "idle" /\ left > 0
    /\ c.at = None \/ c.at \in root.members
    /\ left' = left - 1
    /\ cmd' = c
    /\ was' = [root |-> root, pkg |-> pkg, lock |-> lock, cfg |-> cfg]
    /\ pc' = IF Refuses(c) THEN "done" ELSE "resolve"
    /\ out' = IF Refuses(c) THEN "refused" ELSE "none"
    /\ UNCHANGED <<files, new, todo>>

Done(o) == pc' = "done" /\ out' = o

Edits(c) == c.verb \in {"add", "remove", "add-member", "remove-member"}

\* Mutant: the drift is reported once the lock has been written.
ResolveDriftsLate ==
    /\ pc = "resolve" /\ cmd.mode # "frozen"
    /\ new' \in Resolutions(cmd)
    /\ lock' = IF cmd.mode = "locked" /\ Drifts(new') THEN new' ELSE lock
    /\ IF cmd.mode = "locked" /\ Drifts(new')
       THEN Done("refused")
       ELSE pc' = (IF Edits(cmd) THEN "manifest" ELSE "lock") /\ UNCHANGED out
    /\ UNCHANGED <<root, pkg, cfg, cmd, todo, was, left>>

\* The live resolve, then --locked's comparison.
Resolve ==
    /\ pc = "resolve" /\ cmd.mode # "frozen"
    /\ new' \in Resolutions(cmd)
    /\ IF cmd.mode = "locked" /\ Drifts(new')
       THEN Done("refused")
       ELSE pc' = (IF Edits(cmd) THEN "manifest" ELSE "lock") /\ UNCHANGED out
    /\ UNCHANGED <<files, cmd, todo, was, left>>

\* The graph is read back from the lock; the bound is still the effective one.
ResolveFrozen ==
    /\ pc = "resolve" /\ cmd.mode = "frozen"
    /\ new' = [lock EXCEPT !.bound = EffectiveBound(cmd)]
    /\ pc' = "lock"
    /\ UNCHANGED <<files, cmd, todo, out, was, left>>

\* A fetch, the index or the store fails, or there is no solution.
ResolveFails ==
    /\ pc = "resolve"
    /\ Done("refused")
    /\ UNCHANGED <<files, cmd, new, todo, was, left>>

\* mutate_manifest_file or step 6 of apply_workspace_manifest_change.
WriteManifest ==
    /\ pc = "manifest"
    /\ root' = [root EXCEPT !.members = ProposedMembers(cmd)]
    /\ pkg' = ProposedDeps(cmd)
    /\ pc' = "lock"
    /\ UNCHANGED <<lock, cfg, cmd, new, todo, out, was, left>>

\* Mutant: nim.cfg is written for the members the lock has hashes of.
WriteLockedMembers ==
    /\ pc = "lock"
    /\ lock' = new
    /\ IF cmd.verb = "fetch" /\ root.members # {}
       THEN /\ pc' = "cfg" /\ UNCHANGED out
            /\ todo' = {m \in root.members : lock # None /\ lock.ids[m] # None}
       ELSE Done("ok") /\ UNCHANGED todo
    /\ UNCHANGED <<root, pkg, cfg, cmd, new, was, left>>

\* write_lockfile; `fetch` then writes the nim.cfg of every member.
WriteLock ==
    /\ pc = "lock"
    /\ lock' = new
    /\ IF cmd.verb = "fetch" /\ root.members # {}
       THEN pc' = "cfg" /\ todo' = root.members /\ UNCHANGED out
       ELSE Done("ok") /\ UNCHANGED todo
    /\ UNCHANGED <<root, pkg, cfg, cmd, new, was, left>>

\* A failed write of a manifest or of the lock leaves the old file.
WriteFails ==
    /\ IoFaults /\ pc \in {"manifest", "lock"}
    /\ Done("failed")
    /\ UNCHANGED <<files, cmd, new, todo, was, left>>

\* format_workspace_nimcfgs; a failed write is ignored, and may be half done.
WriteCfg(m) ==
    /\ pc = "cfg" /\ m \in todo
    /\ todo' = todo \ {m}
    /\ \/ /\ cfg' = [cfg EXCEPT ![m] = new.requires[m]]
          /\ out' = IF todo' = {} /\ out = "none" THEN "ok" ELSE out
       \/ /\ IoFaults
          /\ cfg' \in {cfg, [cfg EXCEPT ![m] = Torn]}
          /\ out' = "silent"
    /\ pc' = IF todo' = {} THEN "done" ELSE pc
    /\ UNCHANGED <<root, pkg, lock, cmd, new, was, left>>

\* The process exits: nothing of it is left but the files.
Gone ==
    /\ pc' = "idle" /\ cmd' = NoCmd /\ new' = None /\ todo' = {} /\ out' = "none"
    /\ was' = None

Exit == pc = "done" /\ Gone /\ UNCHANGED <<files, left>>

\* cmd_clean.
Clean ==
    /\ pc = "idle" /\ left > 0
    /\ left' = left - 1
    /\ cfg' = [m \in Member |-> IF m \in root.members THEN None ELSE cfg[m]]
    /\ UNCHANGED <<root, pkg, lock, pc, cmd, new, todo, out, was>>

-----------------------------------------------------------------------------
(* The environment. *)

\* The process is killed; the nim.cfg it was writing may be half written.
Kill ==
    /\ IoFaults /\ pc \in {"resolve", "manifest", "lock", "cfg"}
    /\ Gone
    /\ cfg' \in {cfg} \cup {[cfg EXCEPT ![m] = Torn] : m \in todo}
    /\ UNCHANGED <<root, pkg, lock, left>>

\* The user edits a manifest, or deletes the lock.
Edit ==
    /\ pc = "idle" /\ left > 0
    /\ left' = left - 1
    /\ \/ /\ \E m \in Member, d \in Dep :
               pkg' = [pkg EXCEPT ![m] = IF d \in @ THEN @ \ {d} ELSE @ \cup {d}]
          /\ UNCHANGED <<root, lock>>
       \/ /\ \E b \in Bound \ {root.bound} : root' = [root EXCEPT !.bound = b]
          /\ UNCHANGED <<pkg, lock>>
       \/ /\ \E m \in Member :
               root' = [root EXCEPT !.members = IF m \in @ THEN @ \ {m} ELSE @ \cup {m}]
          /\ UNCHANGED <<pkg, lock>>
       \/ lock # None /\ lock' = None /\ UNCHANGED <<root, pkg>>
    /\ UNCHANGED <<cfg, pc, cmd, new, todo, out, was>>

Step ==
    \/ Resolve \/ ResolveFrozen \/ ResolveFails
    \/ WriteManifest \/ WriteLock \/ WriteFails
    \/ \E m \in Member : WriteCfg(m)
    \/ Exit

Next == (\E c \in Commands : Begin(c)) \/ Step \/ Clean \/ Kill \/ Edit

Spec == Init /\ [][Next]_vars

-----------------------------------------------------------------------------
(* Properties. *)

\* The files are well formed: what the lock says a member requires, and so what
\* nim.cfg puts on its path, is locked.
TypeOK ==
    /\ root \in [members : SUBSET Member, bound : Bound]
    /\ pkg \in [Member -> SUBSET Dep]
    /\ lock # None => lock \in Lock /\ \A m \in Member : lock.requires[m] \subseteq Locked(lock)
    /\ cfg \in [Member -> Cfg]
    /\ pc \in {"idle", "resolve", "manifest", "lock", "cfg", "done"}
    /\ cmd \in Commands \cup {NoCmd}
    /\ new = None \/ new \in Lock
    /\ todo \subseteq Member
    /\ out \in {"none", "ok", "silent", "refused", "failed"}
    /\ left \in 0 .. MaxVerbs

Ended(os) == pc = "done" /\ out \in os
Live(c) == c.mode # "frozen"

\* A live verb that succeeds leaves a lock that is the closure of what the
\* manifests on disk declare, no more and no less, and after a `fetch` every
\* member's nim.cfg has exactly its part of it, whatever was killed, edited or
\* failed before.
FilesAgree ==
    Ended({"ok", "silent"}) /\ Live(cmd) =>
        /\ \A m \in root.members : lock.requires[m] = Closure(pkg[m])
        /\ Locked(lock) = UNION {Closure(pkg[m]) : m \in root.members}
        /\ {m \in Member : lock.ids[m] # None} = root.members
        /\ out = "ok" /\ cmd.verb = "fetch" =>
             \A m \in root.members : cfg[m] = Closure(pkg[m])

\* "On any failure, leave `milpa.kdl` and `milpa.lock` unmodified": so they are
\* when the verb is refused, or its resolve fails or drifts; a failed lock write
\* after the manifest's is the exception.
RefusedLeavesFiles ==
    /\ Ended({"refused"}) => root = was.root /\ pkg = was.pkg /\ lock = was.lock /\ cfg = was.cfg
    /\ Ended({"failed"}) => lock = was.lock /\ cfg = was.cfg

\* A successful --locked run leaves what the lock pins as it was, and so does a
\* `fetch --frozen` (check_locked_drift, resolve_frozen). Nothing is claimed of
\* `lock --frozen`, which should resolve in full and takes the frozen path.
LockedIsLocked ==
    (/\ Ended({"ok", "silent"})
     /\ cmd.mode = "locked" \/ (cmd.mode = "frozen" /\ cmd.verb = "fetch")) =>
        /\ was.lock # None
        /\ lock.pins = was.lock.pins /\ lock.ids = was.lock.ids
        /\ cmd.mode = "locked" => lock.bound = was.lock.bound

\* A `fetch` that finds every nim.cfg as it would write it leaves a lock that
\* `--frozen` accepts, if the manifest's bound was the one used.
FetchSettles ==
    Ended({"ok"}) /\ cmd.verb = "fetch" /\ Live(cmd) /\ cfg = was.cfg /\ root.bound = lock.bound
        => FrozenAccepts

\* "Dropping a previously-recorded bound relaxes semantics and MUST NOT happen
\* silently": only a live fetch or lock without --locked drops it.
BoundKept ==
    [][lock # None /\ lock' # None /\ lock.bound # None /\ lock'.bound = None
         => cmd.verb \in {"fetch", "lock"} /\ cmd.mode \in {"plain", "upgrade"}]_vars

\* Every locked version was published before the bound the lock records.
LockHonoursBound ==
    lock # None => \A d \in Locked(lock) : lock.pins[d] \in NotTooNew(lock.bound)

\* Repeated `milpa fetch` runs are idempotent for unchanged manifests: the lock
\* that a `fetch` wrote is the only one that the same `fetch` would write again.
RefetchIsStable ==
    Ended({"ok"}) /\ cmd.verb = "fetch" /\ cmd.mode = "plain" => Resolutions(cmd) = {lock}
=============================================================================
