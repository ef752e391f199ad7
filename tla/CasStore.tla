------------------------------ MODULE CasStore ------------------------------
(***************************************************************************)
(* The content-addressed store shared by a user's projects (store.rs), the *)
(* fetchers that admit into it (CasAdmittingFetcher in fetchers.rs,        *)
(* fetch_any_tracked in resolver.rs), and the `_deps` view of each project *)
(* that is rebuilt from a resolved graph (frozen.rs).                      *)
(*                                                                         *)
(* A process is one `milpa fetch`: a live one fetches candidates one at a  *)
(* time and rebuilds the view from the graph it chose; a frozen one checks *)
(* the lock against the store and rebuilds the view.  Nothing is locked;   *)
(* two processes may even run in one project.  Each action is one change   *)
(* of the file system; processes interleave and may die between them.      *)
(*                                                                         *)
(* Abstractions: a tree is its own content hash (the hash is injective);   *)
(* what an upstream serves, and which versions the solver picks among the  *)
(* fetched ones, are arbitrary.  The reads that precede a write (is_dir on *)
(* a slot) are taken with it: slots are never emptied.                     *)
(***************************************************************************)
EXTENDS Naturals, FiniteSets

CONSTANTS
    Procs,       \* concurrent milpa invocations
    Projects,    \* project directories, each with a _deps of its own
    Name,        \* the entries of _deps
    Tree,        \* source trees, each standing for its identity
    NoTree,      \* no tree, no identity
    Partial,     \* the contents of a scratch directory still being written
    Local,       \* a link to an editable directory outside the store
    MaxFetches,  \* bound: the candidates one live job fetches
    Mirrors,     \* bound: the provenances tried for one candidate
    Crashes,     \* TRUE: a process may die between two steps
    IoFaults     \* TRUE: a rename, removal or symlink may fail

ASSUME TreeAssumption ==
    /\ NoTree \notin Tree /\ Partial \notin Tree /\ Local \notin Tree
    /\ NoTree # Partial /\ NoTree # Local /\ Partial # Local

ASSUME BoundAssumption == MaxFetches \in Nat /\ Mirrors \in Nat

ASSUME SwitchAssumption == Crashes \in BOOLEAN /\ IoFaults \in BOOLEAN

VARIABLES
    store,    \* store[i]: the tree in the slot of identity i
    deps,     \* deps[d][n]: what the entry n of _deps in project d links to
    home,     \* the project each process runs in
    pc, mem,  \* each process
    scratch,  \* its current directory under _scratch
    out       \* how its last job ended

vars == <<store, deps, home, pc, mem, scratch, out>>

Identity == Tree \cup {NoTree}
Entry == Tree \cup {NoTree, Local}
Graph == [Name -> Entry]

\* name, pin and left: the candidate being fetched, its locked identity and
\* the provenances not tried yet; served: the tree the current provenance
\* served; fetched: the candidates recorded, with the tree each was served
\* as; count: the fetches done; graph: the graph chosen; todo: the entries
\* the rebuild has still to visit; swallowed: an error was ignored.
Blank ==
    [name |-> NoTree, pin |-> NoTree, left |-> 0, served |-> NoTree,
     fetched |-> {}, count |-> 0, graph |-> [n \in Name |-> NoTree],
     todo |-> {}, swallowed |-> FALSE]

NoOutcome ==
    [result |-> "none", graph |-> [n \in Name |-> NoTree], swallowed |-> FALSE]

Init ==
    /\ store = [i \in Tree |-> NoTree]
    /\ deps = [d \in Projects |-> [n \in Name |-> NoTree]]
    /\ home \in [Procs -> Projects]
    /\ pc = [p \in Procs |-> "idle"]
    /\ mem = [p \in Procs |-> Blank]
    /\ scratch = [p \in Procs |-> NoTree]
    /\ out = [p \in Procs |-> NoOutcome]

-----------------------------------------------------------------------------

Goto(p, l, m) ==
    /\ pc' = [pc EXCEPT ![p] = l]
    /\ mem' = [mem EXCEPT ![p] = m]
    /\ UNCHANGED <<home, out>>

Finish(p, r) ==
    /\ pc' = [pc EXCEPT ![p] = "idle"]
    /\ mem' = [mem EXCEPT ![p] = Blank]
    /\ out' = [out EXCEPT ![p] =
                 [result |-> r, graph |-> mem[p].graph, swallowed |-> mem[p].swallowed]]
    /\ UNCHANGED home

\* Mutant: a path is taken for a slot without a look at the disk.
ContainsAnything(i) == TRUE

\* CaStore::contains.
Contains(i) == store[i] # NoTree

\* The entry of process p's _deps that it is working on.
View(p) == deps[home[p]]
SetEntry(p, n, e) == deps' = [deps EXCEPT ![home[p]][n] = e]

\* Mutant: a provenance that failed is tried again.
SameProvenance(p) == Goto(p, "clear", [mem[p] EXCEPT !.served = NoTree])

\* The current provenance failed: fetch_any_tracked turns to the next.
NextProvenance(p) ==
    Goto(p, "clear", [mem[p] EXCEPT !.left = mem[p].left - 1, !.served = NoTree])

-----------------------------------------------------------------------------
(* A live job: fetch candidates. *)

StartLive(p) ==
    /\ pc[p] = "idle"
    /\ pc' = [pc EXCEPT ![p] = "choose"]
    /\ out' = [out EXCEPT ![p] = NoOutcome]
    /\ UNCHANGED <<store, deps, home, mem, scratch>>

\* What the solver may decide for each name: a fetched candidate, or to
\* leave it out.
Decided(p, n) == {NoTree} \cup {f.identity : f \in {x \in mem[p].fetched : x.name = n}}

\* The next candidate the resolver asks for (a name is bound to one source
\* for the whole graph: local, or fetched), pinned by the prior lock or
\* not, with its provenance and declared mirrors.
Choose(p) ==
    /\ pc[p] = "choose"
    /\ mem[p].count < MaxFetches
    /\ \E n \in Name, i \in Identity, k \in 1 .. Mirrors :
        /\ Decided(p, n) \subseteq Identity
        /\ Goto(p, "clear",
                [mem[p] EXCEPT !.name = n, !.pin = i, !.left = k, !.count = @ + 1])
    /\ UNCHANGED <<store, deps, scratch>>

\* clear_dir before each provenance, and once more when none is left.
ClearDir(p) ==
    /\ pc[p] = "clear"
    /\ SetEntry(p, mem[p].name, NoTree)
    /\ IF mem[p].left > 0 THEN Goto(p, "stage", mem[p])
       ELSE Finish(p, "FETCH-ALL-FAILED")
    /\ UNCHANGED <<store, scratch>>

\* CaStore::scratch: a directory no other process ever names.
Stage(p) ==
    /\ pc[p] = "stage"
    /\ scratch' = [scratch EXCEPT ![p] = Partial]
    /\ Goto(p, "download", mem[p])
    /\ UNCHANGED <<store, deps>>

\* Mutant: a transfer that was cut short passes for a whole tree.
DownloadCutShort(p) ==
    /\ pc[p] = "download"
    /\ Goto(p, "admit", [mem[p] EXCEPT !.served = scratch[p]])
    /\ UNCHANGED <<store, deps, scratch>>

\* The transport extracted a whole tree into scratch.
Download(p) ==
    /\ pc[p] = "download"
    /\ \E t \in Tree :
        /\ scratch' = [scratch EXCEPT ![p] = t]
        /\ Goto(p, "admit", [mem[p] EXCEPT !.served = t])
    /\ UNCHANGED <<store, deps>>

\* Mutant: the scratch directory of a failed fetch stays behind.
DownloadFailsLeaks(p) ==
    /\ pc[p] = "download"
    /\ NextProvenance(p)
    /\ UNCHANGED <<store, deps, scratch>>

\* The transport failed, or the staged tree exceeds the size cap.
DownloadFails(p) ==
    /\ pc[p] = "download"
    /\ scratch' = [scratch EXCEPT ![p] = NoTree]
    /\ NextProvenance(p)
    /\ UNCHANGED <<store, deps>>

\* admit_inner up to the rename: the hash of scratch is the claimed identity,
\* and a slot that is already there makes the admission a no-op.
Admit(p) ==
    /\ pc[p] = "admit"
    /\ IF scratch[p] # mem[p].served
       THEN scratch' = [scratch EXCEPT ![p] = NoTree] /\ NextProvenance(p)
       ELSE IF Contains(mem[p].served)
       THEN scratch' = [scratch EXCEPT ![p] = NoTree] /\ Goto(p, "link-clear", mem[p])
       ELSE UNCHANGED scratch /\ Goto(p, "rename", mem[p])
    /\ UNCHANGED <<store, deps>>

\* Mutant: a tree is filed under its locked identity instead of its hash.
RenameToPin(p) ==
    /\ pc[p] = "rename"
    /\ scratch' = [scratch EXCEPT ![p] = NoTree]
    /\ store' = IF Contains(mem[p].served) THEN store
                ELSE [store EXCEPT ![IF mem[p].pin = NoTree THEN mem[p].served
                                     ELSE mem[p].pin] = scratch[p]]
    /\ Goto(p, "link-clear", mem[p])
    /\ UNCHANGED deps

\* Mutant: the loser of a race on one slot is told that it failed.
RenameRaceLost(p) ==
    /\ pc[p] = "rename"
    /\ scratch' = [scratch EXCEPT ![p] = NoTree]
    /\ IF Contains(mem[p].served)
       THEN UNCHANGED store /\ NextProvenance(p)
       ELSE /\ store' = [store EXCEPT ![mem[p].served] = scratch[p]]
            /\ Goto(p, "link-clear", mem[p])
    /\ UNCHANGED deps

\* rename(2) into the slot; it fails if another process filled the slot
\* first, which is a hit all the same.
Rename(p) ==
    /\ pc[p] = "rename"
    /\ scratch' = [scratch EXCEPT ![p] = NoTree]
    /\ store' = IF Contains(mem[p].served) THEN store
                ELSE [store EXCEPT ![mem[p].served] = scratch[p]]
    /\ Goto(p, "link-clear", mem[p])
    /\ UNCHANGED deps

\* CaStore::link for a fetched candidate: the slot must exist, the stale
\* entry is removed, then the symlink is made.
LinkClear(p) ==
    /\ pc[p] = "link-clear"
    /\ IF Contains(mem[p].served)
       THEN SetEntry(p, mem[p].name, NoTree) /\ Goto(p, "link-make", mem[p])
       ELSE UNCHANGED deps /\ NextProvenance(p)
    /\ UNCHANGED <<store, scratch>>

\* symlink(2) does not replace an entry made meanwhile in the same project.
LinkMake(p) ==
    /\ pc[p] = "link-make"
    /\ IF View(p)[mem[p].name] = NoTree
       THEN SetEntry(p, mem[p].name, mem[p].served) /\ Goto(p, "hash", mem[p])
       ELSE UNCHANGED deps /\ NextProvenance(p)
    /\ UNCHANGED <<store, scratch>>

\* A file operation of the fetch fails: that provenance has failed, unless
\* it was clear_dir's, which ends the job.
FetchFault(p) ==
    /\ IoFaults
    /\ \/ pc[p] = "clear" /\ Finish(p, "MILPA-INTERNAL-IO") /\ UNCHANGED scratch
       \/ /\ pc[p] = "rename" /\ ~Contains(mem[p].served)
          /\ scratch' = [scratch EXCEPT ![p] = NoTree] /\ NextProvenance(p)
       \/ pc[p] \in {"stage", "link-clear", "link-make"} /\ NextProvenance(p)
          /\ UNCHANGED scratch
    /\ UNCHANGED <<store, deps>>

Record(p, i) ==
    Goto(p, "choose",
         [mem[p] EXCEPT !.fetched = @ \cup {[name |-> mem[p].name, identity |-> i,
                                             served |-> mem[p].served]},
                        !.name = NoTree, !.pin = NoTree, !.left = 0, !.served = NoTree])

\* Mutant: a pinned candidate is not hashed again, its pin is recorded.
HashTrustsPin(p) ==
    /\ pc[p] = "hash"
    /\ LET e == View(p)[mem[p].name] IN
       IF e \notin Tree THEN Finish(p, "MILPA-INTERNAL-IO")
       ELSE IF mem[p].pin # NoTree THEN Record(p, mem[p].pin)
       ELSE Record(p, store[e])
    /\ UNCHANGED <<store, deps, scratch>>

\* compute_content_hash(dest) through the link just made, and the gate on
\* the pin; divergent bytes end the job without trying another provenance.
Hash(p) ==
    /\ pc[p] = "hash"
    /\ LET e == View(p)[mem[p].name] IN
       IF e \notin Tree THEN Finish(p, "MILPA-INTERNAL-IO")
       ELSE IF mem[p].pin \notin {NoTree, store[e]}
       THEN Finish(p, "FETCH-PROVENANCE-DIVERGENCE")
       ELSE Record(p, store[e])
    /\ UNCHANGED <<store, deps, scratch>>

-----------------------------------------------------------------------------
(* A local dependency: never admitted, a link to the editable directory.   *)

\* fetch_local: the path is checked, then the stale entry is removed.
LocalClear(p) ==
    /\ pc[p] = "choose"
    /\ mem[p].count < MaxFetches
    /\ \E n \in Name :
        \/ /\ Decided(p, n) = {NoTree}
           /\ SetEntry(p, n, NoTree)
           /\ Goto(p, "local-make", [mem[p] EXCEPT !.name = n, !.count = @ + 1])
        \/ UNCHANGED deps /\ Finish(p, "FETCH-LOCAL-PATH-NOT-FOUND")
    /\ UNCHANGED <<store, scratch>>

LocalMake(p) ==
    /\ pc[p] = "local-make"
    /\ IF View(p)[mem[p].name] = NoTree
       THEN /\ SetEntry(p, mem[p].name, Local)
            /\ Goto(p, "choose",
                    [mem[p] EXCEPT
                        !.fetched = @ \cup {[name |-> mem[p].name, identity |-> Local,
                                             served |-> Local]},
                        !.name = NoTree])
       ELSE UNCHANGED deps /\ Finish(p, "FETCH-LOCAL-PATH-NOT-DIR")
    /\ UNCHANGED <<store, scratch>>

-----------------------------------------------------------------------------
(* A frozen job, and the rebuild of the view that ends both. *)

\* resolve_frozen with the lock it loaded: a local dependency or an identity
\* the store lacks ends it before _deps is touched.
StartFrozen(p) ==
    /\ pc[p] = "idle"
    /\ \E g \in Graph :
        LET m == [Blank EXCEPT !.graph = g] IN
        IF \A n \in Name : g[n] # Local /\ (g[n] \in Tree => Contains(g[n]))
        THEN /\ pc' = [pc EXCEPT ![p] = "prune"]
             /\ mem' = [mem EXCEPT ![p] = [m EXCEPT !.todo = {n \in Name : View(p)[n] # NoTree}]]
             /\ out' = [out EXCEPT ![p] = NoOutcome]
        ELSE /\ out' = [out EXCEPT ![p] = [NoOutcome EXCEPT !.result = "FROZEN"]]
             /\ UNCHANGED <<pc, mem>>
    /\ UNCHANGED <<store, deps, home, scratch>>

\* The solver's choice, or its failure, which leaves _deps as it is.
Solve(p) ==
    /\ pc[p] = "choose"
    /\ \/ \E g \in Graph :
            /\ \A n \in Name : g[n] \in Decided(p, n)
            /\ Goto(p, "prune", [mem[p] EXCEPT !.graph = g, !.fetched = {}, !.count = 0,
                                               !.todo = {n \in Name : View(p)[n] # NoTree}])
       \/ Finish(p, "SOLVE-CONFLICT")
    /\ UNCHANGED <<store, deps, scratch>>

\* Mutant: entries are only ever added to the view.
PruneNothing(p) ==
    /\ pc[p] = "prune"
    /\ Goto(p, "relink", [mem[p] EXCEPT !.todo = {n \in Name : mem[p].graph[n] \in Tree}])
    /\ UNCHANGED <<store, deps, scratch>>

\* rebuild_deps_view, step 2: entries of the directory listing that the
\* graph has no use for are removed one at a time, errors ignored.
Prune(p) ==
    /\ pc[p] = "prune"
    /\ LET stale == {n \in mem[p].todo : mem[p].graph[n] = NoTree} IN
       IF stale = {}
       THEN /\ Goto(p, "relink",
                    [mem[p] EXCEPT !.todo = {n \in Name : mem[p].graph[n] \in Tree}])
            /\ UNCHANGED deps
       ELSE \E n \in stale :
              \/ SetEntry(p, n, NoTree) /\ Goto(p, "prune", [mem[p] EXCEPT !.todo = @ \ {n}])
              \/ /\ IoFaults
                 /\ Goto(p, "prune", [mem[p] EXCEPT !.todo = @ \ {n}, !.swallowed = TRUE])
                 /\ UNCHANGED deps
    /\ UNCHANGED <<store, scratch>>

\* Step 3: store.link for each expected entry, in two steps, errors ignored.
RelinkClear(p) ==
    /\ pc[p] = "relink"
    /\ IF mem[p].todo = {}
       THEN Finish(p, "ok") /\ UNCHANGED deps
       ELSE \E n \in mem[p].todo :
              LET m == [mem[p] EXCEPT !.todo = @ \ {n}] IN
              IF Contains(mem[p].graph[n])
              THEN \/ SetEntry(p, n, NoTree) /\ Goto(p, "relink-make", [m EXCEPT !.name = n])
                   \/ /\ IoFaults
                      /\ Goto(p, "relink", [m EXCEPT !.swallowed = TRUE])
                      /\ UNCHANGED deps
              ELSE Goto(p, "relink", [m EXCEPT !.swallowed = TRUE]) /\ UNCHANGED deps
    /\ UNCHANGED <<store, scratch>>

RelinkMake(p) ==
    /\ pc[p] = "relink-make"
    /\ LET n == mem[p].name
           m == [mem[p] EXCEPT !.name = NoTree] IN
       \/ /\ View(p)[n] = NoTree
          /\ SetEntry(p, n, mem[p].graph[n])
          /\ Goto(p, "relink", m)
       \/ /\ IoFaults \/ View(p)[n] # NoTree
          /\ UNCHANGED deps
          /\ Goto(p, "relink", [m EXCEPT !.swallowed = TRUE])
    /\ UNCHANGED <<store, scratch>>

-----------------------------------------------------------------------------

\* A process is killed: the links and slots it made stay, and its scratch
\* directory is never named again.
Crash(p) ==
    /\ Crashes
    /\ pc[p] # "idle"
    /\ pc' = [pc EXCEPT ![p] = "idle"]
    /\ mem' = [mem EXCEPT ![p] = Blank]
    /\ scratch' = [scratch EXCEPT ![p] = NoTree]
    /\ out' = [out EXCEPT ![p] = [NoOutcome EXCEPT !.result = "killed"]]
    /\ UNCHANGED <<store, deps, home>>

\* `milpa clean`, run while no job is in the project, removes the entries of
\* _deps; the store is left alone.
Clean(d) ==
    /\ \A p \in Procs : home[p] = d => pc[p] = "idle"
    /\ deps' = [deps EXCEPT ![d] = [n \in Name |-> NoTree]]
    /\ out' = [p \in Procs |-> IF home[p] = d THEN NoOutcome ELSE out[p]]
    /\ UNCHANGED <<store, home, pc, mem, scratch>>

Step(p) ==
    \/ Choose(p) \/ ClearDir(p) \/ Stage(p) \/ Download(p) \/ DownloadFails(p)
    \/ Admit(p) \/ Rename(p) \/ LinkClear(p) \/ LinkMake(p) \/ FetchFault(p)
    \/ Hash(p) \/ LocalClear(p) \/ LocalMake(p)
    \/ Solve(p) \/ Prune(p) \/ RelinkClear(p) \/ RelinkMake(p)

Next ==
    \/ \E p \in Procs : StartLive(p) \/ StartFrozen(p) \/ Step(p) \/ Crash(p)
    \/ \E d \in Projects : Clean(d)

Spec == Init /\ [][Next]_vars

\* A process that has been started is scheduled until it returns.
FairSpec == Spec /\ \A p \in Procs : WF_vars(Step(p))

-----------------------------------------------------------------------------
Labels ==
    {"idle", "choose", "clear", "stage", "download", "admit", "rename", "link-clear",
     "link-make", "hash", "local-make", "prune", "relink", "relink-make"}

Results ==
    {"none", "ok", "killed", "FROZEN", "SOLVE-CONFLICT", "MILPA-INTERNAL-IO",
     "FETCH-ALL-FAILED", "FETCH-PROVENANCE-DIVERGENCE", "FETCH-LOCAL-PATH-NOT-FOUND",
     "FETCH-LOCAL-PATH-NOT-DIR"}

Candidate == [name : Name, identity : Tree \cup {Local}, served : Tree \cup {Local}]

Memory ==
    [name : Name \cup {NoTree}, pin : Identity, left : Nat, served : Identity,
     fetched : SUBSET Candidate, count : Nat, graph : Graph, todo : SUBSET Name,
     swallowed : BOOLEAN]

(* The store, the views and the memory of every process have their types.  *)
TypeOK ==
    /\ store \in [Tree -> Tree \cup {NoTree}]
    /\ deps \in [Projects -> Graph]
    /\ home \in [Procs -> Projects]
    /\ pc \in [Procs -> Labels]
    /\ mem \in [Procs -> Memory]
    /\ scratch \in [Procs -> Tree \cup {NoTree, Partial}]
    /\ out \in [Procs -> [result : Results, graph : Graph, swallowed : BOOLEAN]]

(* A slot of the store is empty or holds the whole tree of its identity,   *)
(* however admissions, their crashes and their races interleave            *)
(* (admit_inner), and once filled it never changes.                        *)
Slots == INSTANCE WriteOnceStore WITH slot <- store
WriteOnce == Slots!Spec

(* No entry of any _deps dangles: link checks the slot before it removes   *)
(* the old entry, and no verb takes a tree out of the store (the promise   *)
(* in the comment of CaStore::link).                                       *)
NeverDangles ==
    \A d \in Projects, n \in Name : deps[d][n] \in Tree => store[deps[d][n]] = deps[d][n]

\* No other process runs in p's project.
Alone(p) == \A q \in Procs : home[q] = home[p] => q = p

(* The identity recorded for a candidate is that of the tree its source    *)
(* served, although it is computed through a link in _deps that other      *)
(* candidates of the same name, and a fallback to a mirror, also pass      *)
(* through (fetch_any_tracked): it takes a second process in the same      *)
(* project to mix two up.                                                  *)
RecordsWhatWasServed ==
    \A p \in Procs : Alone(p) => \A f \in mem[p].fetched : f.identity = f.served

(* A job that reports success, and had no error to ignore, leaves exactly  *)
(* the view of its graph, whatever an earlier job that was killed had left *)
(* in _deps (rebuild_deps_view).                                           *)
ViewIsGraph ==
    \A p \in Procs :
        out[p].result = "ok" /\ pc[p] = "idle" /\ Alone(p) /\ ~out[p].swallowed =>
            \A n \in Name : View(p)[n] = out[p].graph[n]

(* A job that ran to its end, whether it succeeded or not, leaves no       *)
(* scratch directory behind (the error paths of CasAdmittingFetcher).      *)
ScratchCleared == \A p \in Procs : pc[p] \in {"idle", "choose", "clear"} => scratch[p] = NoTree

(* Losing the race for a slot is not a failure: once a tree is staged, a   *)
(* fetch only turns to its next provenance because a file operation failed *)
(* or because of another process in the same project (the rename fallback  *)
(* of admit_inner).                                                        *)
RaceLoserSucceeds ==
    [][\A p \in Procs :
         /\ pc[p] \in {"admit", "rename", "link-clear", "link-make"}
         /\ pc'[p] = "clear"
         => FetchFault(p) \/ ~Alone(p)]_vars

(* Every job ends, also when every provenance fails.                       *)
JobReturns == \A p \in Procs : pc[p] # "idle" ~> pc[p] = "idle"
=============================================================================
