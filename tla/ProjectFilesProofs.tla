------------------------- MODULE ProjectFilesProofs -------------------------
(***************************************************************************)
(* What ProjectFiles promises, for any number of members, dependencies,    *)
(* versions and verbs.  The invariant IInv says, for each place a verb may *)
(* stop at, what it has computed and what it has not yet changed on disk.  *)
(***************************************************************************)
EXTENDS ProjectFiles, TLAPS

-----------------------------------------------------------------------------
(* The inductive invariant.                                                *)

\* The files as a verb finds them.
Snapshot == [root |-> root, pkg |-> pkg, lock |-> lock, cfg |-> cfg]

\* A lock in which everything a member requires is pinned.
Whole(l) == l \in Lock /\ \A m \in Member : l.requires[m] \subseteq Locked(l)

\* The lock l is the closure of what the members ms declare in ds.
Covers(l, ms, ds) ==
    /\ \A m \in ms : l.requires[m] = Closure(ds[m])
    /\ Locked(l) = UNION {Closure(ds[m]) : m \in ms}
    /\ {m \in Member : l.ids[m] # None} = ms

\* The members are hashed with the nim.cfg that the verb found.
Hashed(l) == \A m \in root.members : l.ids[m] = <<pkg[m], was.cfg[m]>>

\* What --locked and --frozen keep of the lock the verb found.
Kept(l) ==
    cmd.mode \in {"locked", "frozen"} =>
        /\ was.lock # None
        /\ l.pins = was.lock.pins /\ l.ids = was.lock.ids
        /\ cmd.mode = "locked" => l.bound = was.lock.bound

\* Only a live fetch or lock without --locked loses the bound on disk.
BoundCarried(l) ==
    lock # None /\ lock.bound # None /\ l.bound = None
        => cmd.verb \in {"fetch", "lock"} /\ cmd.mode \in {"plain", "upgrade"}

\* The lock l answers the verb, with the manifests as they are now on disk.
Answers(l) ==
    /\ Whole(l)
    /\ Live(cmd) => Covers(l, root.members, pkg)
    /\ Live(cmd) /\ ~Edits(cmd) => Hashed(l)
    /\ Kept(l)

Running == pc # "idle" => cmd \in Commands

AtResolve ==
    pc = "resolve" => was = Snapshot /\ ~Refuses(cmd) /\ out = "none"

AtManifest ==
    pc = "manifest" =>
        /\ was = Snapshot /\ Edits(cmd) /\ out = "none"
        /\ Whole(new) /\ Covers(new, ProposedMembers(cmd), ProposedDeps(cmd))
        /\ BoundCarried(new)

AtLock ==
    pc = "lock" =>
        /\ lock = was.lock /\ cfg = was.cfg /\ out = "none"
        /\ Answers(new) /\ BoundCarried(new)

AtCfg ==
    pc = "cfg" =>
        /\ lock = new /\ Answers(new) /\ cmd.verb = "fetch"
        /\ todo \subseteq root.members /\ out \in {"none", "silent"}
        /\ out = "none" => \A m \in root.members \ todo : cfg[m] = new.requires[m]

AtDone ==
    pc = "done" =>
        /\ out \in {"ok", "silent"} =>
             /\ Answers(lock)
             /\ out = "ok" /\ cmd.verb = "fetch" =>
                  \A m \in root.members : cfg[m] = lock.requires[m]
        /\ out = "refused" => was = Snapshot
        /\ out = "failed" => lock = was.lock /\ cfg = was.cfg

IInv ==
    TypeOK /\ Running /\ AtResolve /\ AtManifest /\ AtLock /\ AtCfg /\ AtDone

-----------------------------------------------------------------------------
(* What a verb computes from the files.                                    *)

(* The arguments that the verbs of main.rs may carry.                      *)
LEMMA CommandFields ==
    ASSUME NEW c \in Commands
    PROVE  /\ c.mode \in {"plain", "locked", "frozen", "upgrade"}
           /\ c.bound \in Bound
           /\ c.at \in Member \cup {None}
           /\ c.mode \in {"locked", "frozen"} => c.verb \in {"fetch", "lock"}
           /\ c.verb \notin {"fetch", "lock"} => c.bound = None
           /\ c.verb \in {"add", "remove"} => c.arg \in Dep
           /\ c.verb \in {"add-member", "remove-member"} => c.arg \in Member
           /\ Edits(c) => c.mode = "plain"
  <1>1. CASE c \in Fetch
    BY <1>1 DEF Fetch, Edits
  <1>2. CASE c \in Others
    BY <1>2 DEF Others, Edits, Bound
  <1>3. QED BY <1>1, <1>2 DEF Commands

(* resolve_effective_exclude_newer yields a bound or none.                 *)
LEMMA BoundType ==
    ASSUME TypeOK, NEW c \in Commands
    PROVE  EffectiveBound(c) \in Bound
  <1>1. c.bound \in Bound /\ root.bound \in Bound
    BY CommandFields DEF TypeOK
  <1>2. lock # None => lock.bound \in Bound
    BY DEF TypeOK, Lock
  <1>3. QED BY <1>1, <1>2 DEF EffectiveBound

(* The manifests that a verb proposes are manifests.                       *)
LEMMA ProposedType ==
    ASSUME TypeOK, NEW c \in Commands
    PROVE  /\ ProposedMembers(c) \subseteq Member
           /\ ProposedDeps(c) \in [Member -> SUBSET Dep]
  <1>1. /\ root.members \subseteq Member /\ pkg \in [Member -> SUBSET Dep]
    BY DEF TypeOK
  <1>2. /\ c.verb \in {"add", "remove"} => c.arg \in Dep
        /\ c.verb \in {"add-member", "remove-member"} => c.arg \in Member
    BY CommandFields
  <1>3. ProposedMembers(c) \subseteq Member
    BY <1>1, <1>2 DEF ProposedMembers
  <1>4. ProposedDeps(c) \in [Member -> SUBSET Dep]
    BY <1>1, <1>2 DEF ProposedDeps
  <1>5. QED BY <1>3, <1>4

(* The closure of declarations contains them and only dependencies.        *)
LEMMA ClosureType ==
    ASSUME NEW ds \in SUBSET Dep
    PROVE  ds \subseteq Closure(ds) /\ Closure(ds) \subseteq Dep
  BY FilesAssumption DEF Closure

(* What the resolve may choose for a dependency is a version.              *)
LEMMA ChoicesType ==
    ASSUME TypeOK, NEW c \in Commands, NEW d \in Dep
    PROVE  Choices(c, d) \subseteq Version
  <1>1. NotTooNew(EffectiveBound(c)) \subseteq Version
    BY BoundType, FilesAssumption DEF NotTooNew, Bound
  <1>2. QED BY <1>1 DEF Choices

(* Only the lines that --frozen copies from the lock survive it.           *)
LEMMA FrozenLock ==
    ASSUME NEW l, Whole(l), NEW b \in Bound
    PROVE  LET f == [l EXCEPT !.bound = b] IN
           /\ Whole(f) /\ f.bound = b
           /\ f.pins = l.pins /\ f.ids = l.ids
  <1> DEFINE f == [l EXCEPT !.bound = b]
  <1>1. /\ f \in Lock /\ f.bound = b
        /\ f.pins = l.pins /\ f.ids = l.ids /\ f.requires = l.requires
    BY DEF Whole, Lock
  <1>2. Locked(f) = Locked(l)
    BY <1>1 DEF Locked
  <1>3. Whole(f)
    BY <1>1, <1>2 DEF Whole
  <1>4. QED BY <1>1, <1>3

(* resolve_workspace_with_features: every lock it may give is whole and is *)
(* the closure of the proposed manifests, neither more nor less.           *)
LEMMA ResolvedLock ==
    ASSUME TypeOK, NEW c \in Commands, NEW l \in Resolutions(c)
    PROVE  /\ Whole(l)
           /\ Covers(l, ProposedMembers(c), ProposedDeps(c))
           /\ l.ids = MemberIds(c) /\ l.bound = EffectiveBound(c)
  <1> DEFINE ms == ProposedMembers(c)
             ds == ProposedDeps(c)
             requires == [m \in Member |-> IF m \in ms THEN Closure(ds[m]) ELSE {}]
             solved == UNION {requires[m] : m \in Member}
  <1>1. PICK p \in [Dep -> Pin] :
          /\ \A d \in Dep : p[d] \in IF d \in solved THEN Choices(c, d) ELSE {None}
          /\ l = [pins |-> p, ids |-> MemberIds(c), requires |-> requires,
                  bound |-> EffectiveBound(c)]
    BY DEF Resolutions
  <1>2. ms \subseteq Member /\ ds \in [Member -> SUBSET Dep]
    BY ProposedType
  <1>f. /\ l.pins = p /\ l.ids = MemberIds(c) /\ l.requires = requires
        /\ l.bound = EffectiveBound(c)
    BY <1>1
  <1>3. \A m \in Member : ds[m] \subseteq Dep /\ Closure(ds[m]) \subseteq Dep
    BY <1>2, ClosureType
  <1> HIDE DEF ms, ds
  <1>4. /\ requires \in [Member -> SUBSET Dep]
        /\ \A m \in ms : requires[m] = Closure(ds[m])
        /\ \A m \in Member \ ms : requires[m] = {}
    BY <1>2, <1>3
  <1> HIDE DEF requires
  <1>5. solved = UNION {Closure(ds[m]) : m \in ms}
    BY <1>2, <1>4
  <1>6. solved \subseteq Dep
    BY <1>4
  <1> HIDE DEF solved
  <1>7. \A d \in Dep : p[d] # None <=> d \in solved
    BY <1>1, ChoicesType, FilesAssumption
  <1>8. Locked(l) = solved
    BY <1>f, <1>6, <1>7 DEF Locked
  <1>9. /\ MemberIds(c) \in [Member -> Digest \cup {None}]
        /\ {m \in Member : MemberIds(c)[m] # None} = ms
    <2>1. \A m \in Member : HashOf(m) \in Digest
      BY DEF TypeOK, HashOf, Digest
    <2>2. QED BY <1>2, <2>1, FilesAssumption DEF MemberIds, ms
  <1>10. l \in Lock
    BY <1>1, <1>4, <1>9, BoundType DEF Lock
  <1>11. \A m \in Member : l.requires[m] \subseteq solved
    BY <1>f DEF solved
  <1>12. Whole(l)
    BY <1>8, <1>10, <1>11 DEF Whole
  <1>13. Covers(l, ms, ds)
    BY <1>f, <1>4, <1>5, <1>8, <1>9 DEF Covers
  <1>14. QED BY <1>f, <1>12, <1>13 DEF ms, ds

(* A live resolve gives up the bound on disk only as fetch or lock, and    *)
(* without --locked.                                                       *)
LEMMA ResolvedBound ==
    ASSUME NEW c \in Commands, NEW l, l.bound = EffectiveBound(c),
           c.mode # "frozen", c.mode = "locked" => ~Drifts(l),
           lock # None, lock.bound # None, l.bound = None
    PROVE  c.verb \in {"fetch", "lock"} /\ c.mode \in {"plain", "upgrade"}
  <1>1. c.mode # "locked"
    BY DEF Drifts
  <1>2. c.verb \in {"fetch", "lock"}
    BY DEF EffectiveBound
  <1>3. QED BY <1>1, <1>2, CommandFields

-----------------------------------------------------------------------------
(* IInv is inductive.                                                      *)

LEMMA InitIInv == Init => IInv
  <1> SUFFICES ASSUME Init PROVE IInv
    OBVIOUS
  <1>1. TypeOK
    BY FilesAssumption DEF Init, TypeOK, Cfg, NoCmd
  <1>2. QED
    BY <1>1 DEF Init, IInv, Running, AtResolve, AtManifest, AtLock, AtCfg, AtDone

(* Begin: a verb starts from the files as they are, or is refused.         *)
LEMMA BeginSafe ==
    ASSUME IInv, NEW c \in Commands, Begin(c)
    PROVE  IInv'
  <1>1. UNCHANGED <<root, pkg, lock, cfg, new, todo>> /\ cmd' = c
        /\ left \in 0 .. MaxVerbs /\ left' \in 0 .. MaxVerbs
    BY FilesAssumption DEF Begin, files, IInv, TypeOK
  <1>2. \/ pc' = "done" /\ out' = "refused"
        \/ pc' = "resolve" /\ out' = "none" /\ ~Refuses(c)
    BY DEF Begin
  <1>3. TypeOK'
    BY <1>1, <1>2 DEF IInv, TypeOK, Locked
  <1>4. was' = Snapshot'
    BY <1>1 DEF Begin, Snapshot
  <1>5. Refuses(c)' <=> Refuses(c)
    BY <1>1 DEF Refuses, RefusesFetch, RefusesUpgrade, RefusesAdd, RefusesRemove,
                RefusesAddMember, RefusesRemoveMember, FrozenAccepts, HashOf
  <1>6. AtResolve'
    BY <1>1, <1>2, <1>4, <1>5 DEF AtResolve
  <1>7. QED
    BY <1>1, <1>2, <1>3, <1>4, <1>6
       DEF IInv, Running, AtManifest, AtLock, AtCfg, AtDone

(* Resolve: what the live resolve gives answers the verb, and --locked     *)
(* lets it pass only where it is what the lock has.                        *)
LEMMA ResolveSafe ==
    ASSUME IInv, Resolve
    PROVE  IInv'
  <1>1. /\ pc = "resolve" /\ cmd.mode # "frozen" /\ cmd \in Commands
        /\ new' \in Resolutions(cmd) /\ was = Snapshot /\ out = "none"
        /\ ~Refuses(cmd) /\ TypeOK
        /\ UNCHANGED <<root, pkg, lock, cfg, cmd, todo, was, left>>
    BY DEF IInv, Running, AtResolve, Resolve, files
  <1>2. \/ pc' = "done" /\ out' = "refused"
        \/ pc' = "manifest" /\ Edits(cmd) /\ out' = "none"
        \/ pc' = "lock" /\ ~Edits(cmd) /\ out' = "none" /\ (cmd.mode = "locked" => ~Drifts(new'))
    BY <1>1 DEF Resolve, Done
  <1>3. /\ Whole(new') /\ Covers(new', ProposedMembers(cmd), ProposedDeps(cmd))
        /\ new'.ids = MemberIds(cmd) /\ new'.bound = EffectiveBound(cmd)
    BY <1>1, ResolvedLock
  <1>4. TypeOK'
    BY <1>1, <1>2, <1>3 DEF TypeOK, Locked, Whole
  <1>5. was' = Snapshot' /\ Snapshot.lock = lock /\ Snapshot.cfg = cfg
    BY <1>1 DEF Snapshot
  <1>6. CASE pc' = "done" /\ out' = "refused"
    BY <1>1, <1>4, <1>5, <1>6
       DEF IInv, Running, AtResolve, AtManifest, AtLock, AtCfg, AtDone
  <1>7. CASE pc' = "manifest" /\ Edits(cmd) /\ out' = "none"
    <2>1. /\ ProposedMembers(cmd)' = ProposedMembers(cmd)
          /\ ProposedDeps(cmd)' = ProposedDeps(cmd)
      BY <1>1 DEF ProposedMembers, ProposedDeps
    <2>2. cmd.mode # "locked"
      BY <1>1, <1>7, CommandFields
    <2>3. BoundCarried(new')
      BY <1>1, <1>3, <2>2, ResolvedBound DEF BoundCarried
    <2>4. BoundCarried(new)'
      BY <1>1, <2>3 DEF BoundCarried
    <2>5. AtManifest'
      <3>1. Covers(new', ProposedMembers(cmd)', ProposedDeps(cmd)')
        BY <1>3, <2>1
      <3>2. QED BY <1>1, <1>3, <1>5, <1>7, <2>4, <3>1 DEF AtManifest, Edits
    <2>6. QED
      BY <1>1, <1>4, <1>7, <2>5 DEF IInv, Running, AtResolve, AtLock, AtCfg, AtDone
  <1>8. CASE pc' = "lock" /\ ~Edits(cmd) /\ out' = "none"
             /\ (cmd.mode = "locked" => ~Drifts(new'))
    <2>1. ProposedMembers(cmd) = root.members /\ ProposedDeps(cmd) = pkg
      BY <1>8 DEF Edits, ProposedMembers, ProposedDeps
    <2>2. Covers(new', root'.members, pkg')
      BY <1>1, <1>3, <2>1
    <2>3. Hashed(new)'
      <3>1. \A m \in root.members : m \in Member
        BY <1>1 DEF TypeOK
      <3>2. \A m \in root.members : new'.ids[m] = <<pkg[m], cfg[m]>>
        BY <1>3, <2>1, <3>1 DEF MemberIds, HashOf
      <3>3. QED BY <1>1, <1>5, <3>2 DEF Hashed
    <2>4. Kept(new)'
      BY <1>1, <1>5, <1>8 DEF Kept, Drifts
    <2>5. Answers(new)'
      BY <1>3, <2>2, <2>3, <2>4 DEF Answers
    <2>6. BoundCarried(new')
      BY <1>1, <1>3, <1>8, ResolvedBound DEF BoundCarried
    <2>7. BoundCarried(new)'
      BY <1>1, <2>6 DEF BoundCarried
    <2>8. AtLock'
      BY <1>1, <1>5, <1>8, <2>5, <2>7 DEF AtLock
    <2>9. QED
      BY <1>1, <1>4, <1>8, <2>8 DEF IInv, Running, AtResolve, AtManifest, AtCfg, AtDone
  <1>9. QED BY <1>2, <1>6, <1>7, <1>8

(* ResolveFrozen: the lock is answered with, but for its bound, and that   *)
(* cannot be lost, since the manifest was found to agree with it.          *)
LEMMA ResolveFrozenSafe ==
    ASSUME IInv, ResolveFrozen
    PROVE  IInv'
  <1>1. /\ pc = "resolve" /\ cmd.mode = "frozen" /\ cmd \in Commands
        /\ new' = [lock EXCEPT !.bound = EffectiveBound(cmd)] /\ was = Snapshot
        /\ out = "none" /\ ~Refuses(cmd) /\ TypeOK /\ pc' = "lock"
        /\ UNCHANGED <<root, pkg, lock, cfg, cmd, todo, out, was, left>>
    BY DEF IInv, Running, AtResolve, ResolveFrozen, files
  <1>2. lock # None /\ FrozenAccepts /\ Whole(lock)
    BY <1>1 DEF Refuses, RefusesFetch, TypeOK, Whole
  <1>3. /\ Whole(new') /\ new'.bound = EffectiveBound(cmd)
        /\ new'.pins = lock.pins /\ new'.ids = lock.ids
    BY <1>1, <1>2, BoundType, FrozenLock
  <1>4. TypeOK'
    BY <1>1, <1>3 DEF TypeOK, Locked, Whole
  <1>5. was'.lock = lock' /\ was'.cfg = cfg'
    BY <1>1 DEF Snapshot
  <1>6. Answers(new)'
    <2>1. ~Live(cmd)'
      BY <1>1 DEF Live
    <2>2. Kept(new)'
      BY <1>1, <1>2, <1>3, <1>5 DEF Kept
    <2>3. QED BY <1>3, <2>1, <2>2 DEF Answers
  <1>7. BoundCarried(new)'
    <2>1. lock.bound # None => EffectiveBound(cmd) # None
      BY <1>2 DEF FrozenAccepts, EffectiveBound
    <2>2. QED BY <1>1, <1>3, <2>1 DEF BoundCarried
  <1>8. AtLock'
    BY <1>1, <1>5, <1>6, <1>7 DEF AtLock
  <1>9. QED
    BY <1>1, <1>4, <1>8 DEF IInv, Running, AtResolve, AtManifest, AtCfg, AtDone

(* WriteManifest: the proposed manifests are now those on disk.            *)
LEMMA WriteManifestSafe ==
    ASSUME IInv, WriteManifest
    PROVE  IInv'
  <1>1. /\ pc = "manifest" /\ cmd \in Commands /\ was = Snapshot /\ Edits(cmd)
        /\ out = "none" /\ Whole(new) /\ BoundCarried(new) /\ TypeOK
        /\ Covers(new, ProposedMembers(cmd), ProposedDeps(cmd))
        /\ root' = [root EXCEPT !.members = ProposedMembers(cmd)]
        /\ pkg' = ProposedDeps(cmd) /\ pc' = "lock"
        /\ UNCHANGED <<lock, cfg, cmd, new, todo, out, was, left>>
    BY DEF IInv, Running, AtManifest, WriteManifest
  <1>2. /\ root' \in [members : SUBSET Member, bound : Bound]
        /\ root'.members = ProposedMembers(cmd)
        /\ pkg' \in [Member -> SUBSET Dep]
    <2>1. root \in [members : SUBSET Member, bound : Bound]
      BY <1>1 DEF TypeOK
    <2>2. QED BY <1>1, <2>1, ProposedType
  <1>3. TypeOK'
    BY <1>1, <1>2 DEF TypeOK, Locked
  <1>4. was'.lock = lock' /\ was'.cfg = cfg'
    BY <1>1 DEF Snapshot
  <1>5. Covers(new', root'.members, pkg')
    BY <1>1, <1>2
  <1>6. Answers(new)'
    <2>1. cmd.mode = "plain"
      BY <1>1, CommandFields
    <2>2. Edits(cmd)' /\ Whole(new')
      BY <1>1 DEF Edits
    <2>3. QED BY <1>1, <1>5, <2>1, <2>2 DEF Answers, Kept
  <1>7. BoundCarried(new)'
    BY <1>1 DEF BoundCarried
  <1>8. AtLock'
    BY <1>1, <1>4, <1>6, <1>7 DEF AtLock
  <1>9. QED
    BY <1>1, <1>3, <1>8 DEF IInv, Running, AtResolve, AtManifest, AtCfg, AtDone

(* Answers depends on the manifests, the verb and what the verb found.     *)
LEMMA AnswersFrame ==
    ASSUME NEW l, Answers(l), UNCHANGED <<root, pkg, cmd, was>>
    PROVE  /\ Whole(l)
           /\ Live(cmd') => Covers(l, root'.members, pkg')
           /\ Live(cmd') /\ ~Edits(cmd') =>
                \A m \in root'.members : l.ids[m] = <<pkg'[m], was'.cfg[m]>>
           /\ cmd'.mode \in {"locked", "frozen"} =>
                /\ was'.lock # None
                /\ l.pins = was'.lock.pins /\ l.ids = was'.lock.ids
                /\ cmd'.mode = "locked" => l.bound = was'.lock.bound
  BY DEF Answers, Hashed, Kept

(* WriteLock: the answer is now the lock on disk.                          *)
LEMMA WriteLockSafe ==
    ASSUME IInv, WriteLock
    PROVE  IInv'
  <1>1. /\ pc = "lock" /\ cmd \in Commands /\ out = "none" /\ Answers(new) /\ TypeOK
        /\ lock' = new /\ UNCHANGED <<root, pkg, cfg, cmd, new, was, left>>
    BY DEF IInv, Running, AtLock, WriteLock
  <1>2. \/ pc' = "cfg" /\ cmd.verb = "fetch" /\ todo' = root.members /\ out' = "none"
        \/ pc' = "done" /\ out' = "ok" /\ todo' = todo
           /\ (cmd.verb = "fetch" => root.members = {})
    BY <1>1 DEF WriteLock, Done
  <1>3. Answers(new)' /\ Answers(lock)'
    BY <1>1, AnswersFrame DEF Answers, Hashed, Kept
  <1>4. TypeOK'
    BY <1>1, <1>2 DEF TypeOK, Answers, Whole, Locked
  <1>5. QED
    BY <1>1, <1>2, <1>3, <1>4
       DEF IInv, Running, AtResolve, AtManifest, AtLock, AtCfg, AtDone

(* WriteCfg: a nim.cfg is written as the lock says, or the verb is marked  *)
(* as one that hid a failed write.                                         *)
LEMMA WriteCfgSafe ==
    ASSUME IInv, NEW m \in Member, WriteCfg(m)
    PROVE  IInv'
  <1>1. /\ pc = "cfg" /\ cmd \in Commands /\ lock = new /\ Answers(new) /\ TypeOK
        /\ cmd.verb = "fetch" /\ todo \subseteq root.members
        /\ out \in {"none", "silent"}
        /\ out = "none" => \A k \in root.members \ todo : cfg[k] = new.requires[k]
        /\ m \in todo /\ todo' = todo \ {m}
        /\ pc' = IF todo' = {} THEN "done" ELSE "cfg"
        /\ UNCHANGED <<root, pkg, lock, cmd, new, was, left>>
    BY DEF IInv, Running, AtCfg, WriteCfg
  <1>2. \/ /\ cfg' = [cfg EXCEPT ![m] = new.requires[m]]
           /\ out' = IF todo' = {} /\ out = "none" THEN "ok" ELSE out
        \/ cfg' \in {cfg, [cfg EXCEPT ![m] = Torn]} /\ out' = "silent"
    BY DEF WriteCfg
  <1>3. cfg \in [Member -> Cfg] /\ new.requires[m] \in Cfg /\ root.members \subseteq Member
    BY <1>1 DEF TypeOK, Answers, Whole, Lock, Cfg
  <1>4. cfg' \in [Member -> Cfg] /\ out' \in {"none", "ok", "silent"}
    BY <1>1, <1>2, <1>3 DEF Cfg
  <1>5. TypeOK'
    <2>1. todo' \subseteq Member
      BY <1>1 DEF TypeOK
    <2>2. QED BY <1>1, <1>4, <2>1 DEF TypeOK, Locked
  <1>6. Answers(new)' /\ Answers(lock)'
    BY <1>1, AnswersFrame DEF Answers, Hashed, Kept
  <1>7. out' \in {"none", "ok"} =>
            \A k \in root.members \ todo' : cfg'[k] = new.requires[k]
    BY <1>1, <1>2, <1>3
  <1>8. CASE todo' = {}
    <2>1. pc' = "done" /\ out' \in {"ok", "silent"}
      BY <1>1, <1>2, <1>8
    <2>2. AtDone'
      BY <1>1, <1>6, <1>7, <1>8, <2>1 DEF AtDone
    <2>3. QED
      BY <1>1, <1>5, <2>1, <2>2 DEF IInv, Running, AtResolve, AtManifest, AtLock, AtCfg
  <1>9. CASE todo' # {}
    <2>1. pc' = "cfg" /\ out' \in {"none", "silent"}
      BY <1>1, <1>2, <1>9
    <2>2. AtCfg'
      BY <1>1, <1>6, <1>7, <2>1 DEF AtCfg
    <2>3. QED
      BY <1>1, <1>5, <2>1, <2>2 DEF IInv, Running, AtResolve, AtManifest, AtLock, AtDone
  <1>10. QED BY <1>8, <1>9

(* ResolveFails and WriteFails: the verb ends; the lock and every nim.cfg  *)
(* are as it found them, and before the first write so are the manifests.  *)
LEMMA FailureSafe ==
    ASSUME IInv, ResolveFails \/ WriteFails
    PROVE  IInv'
  <1>1. /\ UNCHANGED <<root, pkg, lock, cfg, cmd, new, todo, was, left>>
        /\ pc' = "done" /\ cmd \in Commands /\ TypeOK
        /\ \/ out' = "refused" /\ was = Snapshot
           \/ out' = "failed" /\ was = Snapshot
           \/ out' = "failed" /\ lock = was.lock /\ cfg = was.cfg
    BY DEF IInv, Running, AtResolve, AtManifest, AtLock, ResolveFails, WriteFails, Done, files
  <1>2. TypeOK'
    BY <1>1 DEF TypeOK, Locked
  <1>3. AtDone'
    BY <1>1 DEF AtDone, Snapshot
  <1>4. QED
    BY <1>1, <1>2, <1>3 DEF IInv, Running, AtResolve, AtManifest, AtLock, AtCfg

(* A step that ends with no verb running only has the files to keep.       *)
LEMMA IdleSafe ==
    ASSUME TypeOK', pc' = "idle"
    PROVE  IInv'
  BY DEF IInv, Running, AtResolve, AtManifest, AtLock, AtCfg, AtDone

(* Exit, Clean, Kill and Edit end with no verb running.                    *)
LEMMA OutsideSafe ==
    ASSUME IInv, Exit \/ Clean \/ Kill \/ Edit
    PROVE  IInv'
  <1>0. TypeOK
    BY DEF IInv
  <1>1. CASE Exit
    BY <1>0, <1>1, IdleSafe DEF Exit, Gone, TypeOK, files, Locked
  <1>2. CASE Clean
    <2>1. cfg' \in [Member -> Cfg]
      BY <1>0, <1>2 DEF Clean, TypeOK, Cfg
    <2>2. left' \in 0 .. MaxVerbs
      BY <1>0, <1>2, FilesAssumption DEF Clean, TypeOK
    <2>3. TypeOK'
      BY <1>0, <1>2, <2>1, <2>2 DEF Clean, TypeOK, Locked
    <2>4. QED BY <1>2, <2>3, IdleSafe DEF Clean
  <1>3. CASE Kill
    <2>1. cfg' \in [Member -> Cfg]
      BY <1>0, <1>3 DEF Kill, TypeOK, Cfg
    <2>2. TypeOK'
      BY <1>0, <1>3, <2>1 DEF Kill, Gone, TypeOK, Locked
    <2>3. QED BY <1>3, <2>2, IdleSafe DEF Kill, Gone
  <1>4. CASE Edit
    <2>1. UNCHANGED <<cfg, pc, cmd, new, todo, out>> /\ pc' = "idle"
      BY <1>4 DEF Edit
    <2>2. left' \in 0 .. MaxVerbs
      BY <1>0, <1>4, FilesAssumption DEF Edit, TypeOK
    <2>3. /\ root \in [members : SUBSET Member, bound : Bound]
          /\ pkg \in [Member -> SUBSET Dep]
      BY <1>0 DEF TypeOK
    <2>4. root' \in [members : SUBSET Member, bound : Bound]
      BY <1>4, <2>3 DEF Edit
    <2>5. pkg' \in [Member -> SUBSET Dep]
      BY <1>4, <2>3 DEF Edit
    <2>6. lock' = lock \/ lock' = None
      BY <1>4 DEF Edit
    <2>7. TypeOK'
      BY <1>0, <2>1, <2>2, <2>4, <2>5, <2>6 DEF TypeOK, Locked
    <2>8. QED BY <2>1, <2>7, IdleSafe
  <1>5. QED BY <1>1, <1>2, <1>3, <1>4

LEMMA NextIInv == IInv /\ [Next]_vars => IInv'
  <1> SUFFICES ASSUME IInv, [Next]_vars PROVE IInv'
    OBVIOUS
  <1>1. ASSUME NEW c \in Commands, Begin(c) PROVE IInv'
    BY <1>1, BeginSafe
  <1>2. CASE Resolve
    BY <1>2, ResolveSafe
  <1>3. CASE ResolveFrozen
    BY <1>3, ResolveFrozenSafe
  <1>4. CASE WriteManifest
    BY <1>4, WriteManifestSafe
  <1>5. CASE WriteLock
    BY <1>5, WriteLockSafe
  <1>6. CASE ResolveFails \/ WriteFails
    BY <1>6, FailureSafe
  <1>7. ASSUME NEW m \in Member, WriteCfg(m) PROVE IInv'
    BY <1>7, WriteCfgSafe
  <1>8. CASE Exit \/ Clean \/ Kill \/ Edit
    BY <1>8, OutsideSafe
  <1>9. CASE UNCHANGED vars
    <2>1. UNCHANGED <<root, pkg, lock, cfg, pc, cmd, new, todo, out, was, left>>
      BY <1>9 DEF vars, files
    <2>2. TypeOK' <=> TypeOK
      BY <2>1 DEF TypeOK, Locked
    <2>3. Refuses(cmd)' <=> Refuses(cmd)
      BY <2>1 DEF Refuses, RefusesFetch, RefusesUpgrade, RefusesAdd, RefusesRemove,
                  RefusesAddMember, RefusesRemoveMember, FrozenAccepts, HashOf
    <2>4. /\ ProposedMembers(cmd)' = ProposedMembers(cmd)
          /\ ProposedDeps(cmd)' = ProposedDeps(cmd)
      BY <2>1 DEF ProposedMembers, ProposedDeps
    <2>5. /\ Covers(new, ProposedMembers(cmd), ProposedDeps(cmd))' <=>
               Covers(new, ProposedMembers(cmd), ProposedDeps(cmd))
          /\ Whole(new)' <=> Whole(new)
      BY <2>1, <2>4
    <2>6. /\ Answers(new)' <=> Answers(new)
          /\ Answers(lock)' <=> Answers(lock)
      BY <2>1 DEF Answers, Hashed, Kept, Live, Edits
    <2>7. /\ BoundCarried(new)' <=> BoundCarried(new)
          /\ Snapshot' = Snapshot
          /\ Edits(cmd)' <=> Edits(cmd)
      BY <2>1 DEF BoundCarried, Snapshot, Edits
    <2>8. QED
      BY <2>1, <2>2, <2>3, <2>5, <2>6, <2>7
         DEF IInv, Running, AtResolve, AtManifest, AtLock, AtCfg, AtDone
  <1>10. QED
    BY <1>1, <1>2, <1>3, <1>4, <1>5, <1>6, <1>7, <1>8, <1>9 DEF Next, Step

LEMMA AlwaysIInv == Spec => []IInv
  BY InitIInv, NextIInv, PTL DEF Spec

-----------------------------------------------------------------------------
(* The theorems.                                                           *)

(* The files of the workspace keep their shape through every verb, edit,   *)
(* kill and failed write, and whatever milpa.lock says a member requires   *)
(* it also pins.                                                           *)
THEOREM TypeCorrect == Spec => []TypeOK
  <1>1. IInv => TypeOK
    BY DEF IInv
  <1>2. QED BY <1>1, AlwaysIInv, PTL

(* A live verb that succeeds leaves a lock that is exactly the closure of  *)
(* the manifests on disk, whatever was killed, edited or failed before;    *)
(* after a fetch every member's nim.cfg has its part of it.                *)
THEOREM FilesAlwaysAgree == Spec => []FilesAgree
  <1>1. IInv => FilesAgree
    <2> SUFFICES ASSUME IInv, Ended({"ok", "silent"}), Live(cmd)
                 PROVE  /\ Covers(lock, root.members, pkg)
                        /\ out = "ok" /\ cmd.verb = "fetch" =>
                             \A m \in root.members : cfg[m] = Closure(pkg[m])
      BY DEF FilesAgree, Covers
    <2>1. /\ Answers(lock)
          /\ out = "ok" /\ cmd.verb = "fetch" =>
               \A m \in root.members : cfg[m] = lock.requires[m]
      BY DEF IInv, AtDone, Ended
    <2>2. Covers(lock, root.members, pkg)
      BY <2>1 DEF Answers
    <2>3. QED BY <2>1, <2>2 DEF Covers
  <1>2. QED BY <1>1, AlwaysIInv, PTL

(* A verb that is refused, or whose resolve fails or drifts, has changed   *)
(* no file; one whose write of the manifest or the lock failed has changed *)
(* neither the lock nor a nim.cfg.                                         *)
THEOREM RefusedAlwaysLeavesFiles == Spec => []RefusedLeavesFiles
  <1>1. IInv => RefusedLeavesFiles
    BY DEF IInv, AtDone, RefusedLeavesFiles, Ended, Snapshot
  <1>2. QED BY <1>1, AlwaysIInv, PTL

(* check_locked_drift and the frozen resolve: a --locked run or a          *)
(* `fetch --frozen` that succeeds leaves every pin and every member's hash *)
(* as it was.                                                              *)
THEOREM LockedAlwaysLocked == Spec => []LockedIsLocked
  <1>1. IInv => LockedIsLocked
    BY DEF IInv, AtDone, LockedIsLocked, Ended, Answers, Kept
  <1>2. QED BY <1>1, AlwaysIInv, PTL

(* A fetch that did not change any nim.cfg leaves a lock that --frozen     *)
(* accepts.  (One that does change a nim.cfg leaves the hash of the old    *)
(* one in the lock.)                                                       *)
THEOREM FetchAlwaysSettles == Spec => []FetchSettles
  <1>1. IInv => FetchSettles
    <2> SUFFICES ASSUME IInv, Ended({"ok"}), cmd.verb = "fetch", Live(cmd),
                        cfg = was.cfg, root.bound = lock.bound
                 PROVE  FrozenAccepts
      BY DEF FetchSettles
    <2>1. Answers(lock) /\ ~Edits(cmd)
      BY DEF IInv, AtDone, Ended, Edits
    <2>2. Covers(lock, root.members, pkg) /\ Hashed(lock)
      BY <2>1 DEF Answers
    <2>3. \A m \in root.members : pkg[m] \subseteq Locked(lock)
      <3>1. TAKE m \in root.members
      <3>2. pkg[m] \subseteq Closure(pkg[m])
        BY ClosureType DEF IInv, TypeOK
      <3>3. Closure(pkg[m]) \subseteq Locked(lock)
        BY <2>2 DEF Covers
      <3>4. QED BY <3>2, <3>3
    <2>4. \A m \in Member : lock.ids[m] # None => m \in root.members
      BY <2>2 DEF Covers
    <2>5. \A m \in root.members : lock.ids[m] = HashOf(m)
      BY <2>2 DEF Hashed, HashOf
    <2>6. QED BY <2>3, <2>4, <2>5 DEF FrozenAccepts
  <1>2. QED BY <1>1, AlwaysIInv, PTL

(* resolve_effective_exclude_newer: the lock's bound is lost only to a     *)
(* live fetch or lock without --locked; never to update, add, remove or    *)
(* the workspace verbs, and never to --locked or --frozen.                 *)
THEOREM BoundAlwaysKept == Spec => BoundKept
  <1> DEFINE Loses == lock # None /\ lock' # None /\ lock.bound # None /\ lock'.bound = None
             ByFetch == cmd.verb \in {"fetch", "lock"} /\ cmd.mode \in {"plain", "upgrade"}
  <1>1. IInv /\ [Next]_vars => [Loses => ByFetch]_vars
    <2> SUFFICES ASSUME IInv, Next, Loses PROVE ByFetch
      OBVIOUS
    <2>1. lock' # lock
      OBVIOUS
    <2>2. CASE WriteLock
      <3>1. BoundCarried(new) /\ lock' = new
        BY <2>2 DEF WriteLock, IInv, AtLock
      <3>2. QED BY <3>1 DEF BoundCarried
    <2>3. ASSUME ~WriteLock PROVE lock' = lock \/ lock' = None
      BY <2>3 DEF Next, Step, Begin, Resolve, ResolveFrozen, ResolveFails, WriteManifest,
                  WriteFails, WriteCfg, Exit, Clean, Kill, Edit, files
    <2>4. QED BY <2>1, <2>2, <2>3
  <1>2. QED BY <1>1, AlwaysIInv, PTL DEF Spec, BoundKept
=============================================================================
