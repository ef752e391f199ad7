--------------------------- MODULE CasStoreProofs ---------------------------
(***************************************************************************)
(* For any number of processes, projects, names and trees, with crashes    *)
(* and file system faults anywhere: the store implements WriteOnceStore,   *)
(* no entry of any _deps dangles, no scratch directory is left behind, and *)
(* a job that is alone in its project records what its sources served and  *)
(* leaves the view of its graph.                                           *)
(***************************************************************************)
EXTENDS CasStore, TLAPS

-----------------------------------------------------------------------------
(* The inductive invariant.  What a process may assume of the files at     *)
(* each label, and, when it is alone in its project, of its _deps.         *)

Fetching ==
    {"clear", "stage", "download", "admit", "rename", "link-clear", "link-make", "hash"}

Rebuilding == {"prune", "relink", "relink-make"}

\* What memory m and scratch s may be at label l, when the store is st.
Sound(l, m, s, st) ==
    /\ l \in {"admit", "rename"} => s \in Tree /\ m.served = s
    /\ l \notin {"download", "admit", "rename"} => s = NoTree
    /\ l \in {"link-clear", "link-make", "hash"} => m.served \in Tree /\ st[m.served] # NoTree
    /\ l \in Fetching \cup {"local-make", "relink-make"} => m.name \in Name
    /\ l \in Fetching \ {"clear"} => m.left > 0
    /\ l \in Rebuilding \cup {"idle"} => m.fetched = {}
    /\ l \in {"relink", "relink-make"} => \A n \in m.todo : m.graph[n] \in Tree
    /\ l = "relink-make" => m.graph[m.name] \in Tree /\ st[m.graph[m.name]] # NoTree

\* What memory m may be at label l, when nobody else touches the view v.
Framed(l, m, v) ==
    /\ \A f \in m.fetched : f.identity = f.served /\ (f.identity = Local => v[f.name] = Local)
    /\ l \in Fetching \cup {"local-make"} =>
         \A f \in m.fetched : f.name = m.name => f.identity # Local
    /\ l = "link-make" => v[m.name] = NoTree
    /\ l = "hash" => v[m.name] = m.served
    /\ l \in Rebuilding => \A n \in Name : m.graph[n] = Local => v[n] = Local
    /\ l = "prune" /\ ~m.swallowed =>
         \A n \in Name : m.graph[n] = NoTree /\ v[n] # NoTree => n \in m.todo
    /\ l \in {"relink", "relink-make"} /\ ~m.swallowed =>
         \A n \in Name :
            /\ m.graph[n] = NoTree => v[n] = NoTree
            /\ m.graph[n] \in Tree /\ n \notin m.todo
                 /\ (l = "relink-make" => n # m.name) => v[n] = m.graph[n]

\* What the outcome o says of the view v it left.
Exact(l, o, v) ==
    o.result = "ok" /\ l = "idle" /\ ~o.swallowed => \A n \in Name : v[n] = o.graph[n]

StoreSound == \A i \in Tree : store[i] \in {NoTree, i}

ProcessInv ==
    \A p \in Procs :
        /\ Sound(pc[p], mem[p], scratch[p], store)
        /\ Alone(p) => Framed(pc[p], mem[p], View(p)) /\ Exact(pc[p], out[p], View(p))

IInv == TypeOK /\ StoreSound /\ NeverDangles /\ ProcessInv

Outcome == [result : Results, graph : Graph, swallowed : BOOLEAN]

-----------------------------------------------------------------------------
(* The frame of a step: what process p may change of the files.            *)

StoreGrows ==
    /\ store' \in [Tree -> Tree \cup {NoTree}]
    /\ \A i \in Tree : store[i] # NoTree => store'[i] = store[i]
    /\ StoreSound'

ViewMoves(p) ==
    /\ deps' \in [Projects -> Graph]
    /\ \A d \in Projects : d # home[p] => deps'[d] = deps[d]
    /\ NeverDangles'

ScratchMoves(p) ==
    /\ scratch' \in [Procs -> Tree \cup {NoTree, Partial}]
    /\ \A q \in Procs : q # p => scratch'[q] = scratch[q]

Frame(p) == StoreGrows /\ ViewMoves(p) /\ ScratchMoves(p) /\ home' = home

(* The memory and the outcome of a process that has not started.           *)
LEMMA BlankType == Blank \in Memory /\ NoOutcome \in Outcome
  BY DEF Blank, NoOutcome, Memory, Outcome, Graph, Entry, Identity, Results

(* Leaving a file alone is within the frame of a step.                     *)
LEMMA Untouched ==
    ASSUME IInv, NEW p \in Procs
    PROVE  /\ UNCHANGED store => StoreGrows
           /\ UNCHANGED store /\ UNCHANGED <<deps, home>> => ViewMoves(p)
           /\ UNCHANGED scratch => ScratchMoves(p)
  <1>1. TypeOK /\ StoreSound /\ NeverDangles
    BY DEF IInv
  <1>2. UNCHANGED store => StoreGrows
    BY <1>1 DEF StoreGrows, StoreSound, TypeOK
  <1>3. UNCHANGED store /\ UNCHANGED <<deps, home>> => ViewMoves(p)
    BY <1>1 DEF ViewMoves, NeverDangles, TypeOK
  <1>4. UNCHANGED scratch => ScratchMoves(p)
    BY <1>1 DEF ScratchMoves, TypeOK
  <1>5. QED BY <1>2, <1>3, <1>4

(* A step of p within its frame that takes it to label l with memory m and *)
(* outcome o keeps the invariant if what l assumes holds of p: the other   *)
(* processes assume nothing that p may change.                             *)
LEMMA MoveKeeps ==
    ASSUME IInv, NEW p \in Procs, Frame(p),
           NEW l \in Labels, NEW m \in Memory, NEW o \in Outcome,
           pc' = [pc EXCEPT ![p] = l],
           mem' = [mem EXCEPT ![p] = m],
           out' = [out EXCEPT ![p] = o],
           Sound(l, m, scratch'[p], store'),
           Alone(p) => Framed(l, m, View(p)') /\ Exact(l, o, View(p)')
    PROVE  IInv'
  <1>1. TypeOK'
    BY DEF IInv, TypeOK, Frame, StoreGrows, ViewMoves, ScratchMoves, Outcome
  <1>2. StoreSound' /\ NeverDangles'
    BY DEF Frame, StoreGrows, ViewMoves
  <1>3. ProcessInv'
    <2> SUFFICES ASSUME NEW q \in Procs
                 PROVE  /\ Sound(pc'[q], mem'[q], scratch'[q], store')
                        /\ Alone(q)' => Framed(pc'[q], mem'[q], View(q)')
                                        /\ Exact(pc'[q], out'[q], View(q)')
      BY DEF ProcessInv
    <2>0. TypeOK
      BY DEF IInv
    <2>1. Alone(q)' = Alone(q)
      BY DEF Alone, Frame
    <2>2. CASE q = p
      <3>1. pc'[p] = l /\ mem'[p] = m /\ out'[p] = o
        BY <2>0 DEF TypeOK
      <3>2. QED BY <2>1, <2>2, <3>1
    <2>3. CASE q # p
      <3>1. /\ pc'[q] = pc[q] /\ mem'[q] = mem[q] /\ out'[q] = out[q]
            /\ scratch'[q] = scratch[q]
        BY <2>0, <2>3 DEF TypeOK, Frame, ScratchMoves
      <3>2. Sound(pc[q], mem[q], scratch[q], store)
        BY DEF IInv, ProcessInv
      <3>3. mem[q] \in Memory
        BY <2>0 DEF TypeOK
      <3>4. Sound(pc[q], mem[q], scratch[q], store')
        BY <3>2, <3>3 DEF Sound, Frame, StoreGrows, Memory
      <3>5. ASSUME Alone(q)
            PROVE  View(q)' = View(q)
        <4>1. home[q] \in Projects /\ home[p] # home[q]
          BY <3>5, <2>0, <2>3 DEF Alone, TypeOK
        <4>2. QED BY <4>1 DEF View, Frame, ViewMoves
      <3>6. Alone(q) => Framed(pc[q], mem[q], View(q)) /\ Exact(pc[q], out[q], View(q))
        BY DEF IInv, ProcessInv
      <3>7. QED BY <2>1, <3>1, <3>4, <3>5, <3>6
    <2>4. QED BY <2>2, <2>3
  <1>4. QED BY <1>1, <1>2, <1>3 DEF IInv

(* A process that moves on to label l.                                     *)
LEMMA GotoKeeps ==
    ASSUME IInv, NEW p \in Procs, StoreGrows, ViewMoves(p), ScratchMoves(p),
           NEW l \in Labels \ {"idle"}, NEW m \in Memory, Goto(p, l, m),
           Sound(l, m, scratch'[p], store'),
           Alone(p) => Framed(l, m, View(p)')
    PROVE  IInv'
  <1>1. out[p] \in Outcome /\ out' = [out EXCEPT ![p] = out[p]]
    BY DEF IInv, TypeOK, Goto, Outcome
  <1>2. Exact(l, out[p], View(p)')
    BY DEF Exact
  <1>3. /\ Frame(p)
        /\ pc' = [pc EXCEPT ![p] = l]
        /\ mem' = [mem EXCEPT ![p] = m]
    BY DEF Frame, Goto
  <1>4. QED BY <1>1, <1>2, <1>3, MoveKeeps

(* A process that ends, with an error or, after a rebuild, with the view   *)
(* of its graph.                                                           *)
LEMMA FinishKeeps ==
    ASSUME IInv, NEW p \in Procs, StoreGrows, ViewMoves(p), ScratchMoves(p),
           NEW r \in Results, Finish(p, r), scratch'[p] = NoTree,
           r = "ok" /\ Alone(p) /\ ~mem[p].swallowed =>
                \A n \in Name : View(p)'[n] = mem[p].graph[n]
    PROVE  IInv'
  <1> DEFINE o == [result |-> r, graph |-> mem[p].graph, swallowed |-> mem[p].swallowed]
  <1>1. o \in Outcome
    BY DEF IInv, TypeOK, Memory, Outcome
  <1>2. Blank \in Memory
    BY BlankType
  <1>3. Sound("idle", Blank, scratch'[p], store')
    BY DEF Sound, Fetching, Rebuilding, Blank
  <1>4. Framed("idle", Blank, View(p)')
    BY DEF Framed, Fetching, Rebuilding, Blank
  <1>5. Alone(p) => Exact("idle", o, View(p)')
    BY DEF Exact
  <1>6. /\ Frame(p)
        /\ pc' = [pc EXCEPT ![p] = "idle"]
        /\ mem' = [mem EXCEPT ![p] = Blank]
        /\ out' = [out EXCEPT ![p] = o]
    BY DEF Frame, Finish
  <1>7. "idle" \in Labels
    BY DEF Labels
  <1> HIDE DEF o
  <1>8. QED BY <1>1, <1>2, <1>3, <1>4, <1>5, <1>6, <1>7, MoveKeeps

(* Replacing one entry of the process's own _deps by one that resolves.    *)
LEMMA EntryMoves ==
    ASSUME IInv, NEW p \in Procs, NEW n \in Name, NEW e \in Entry, SetEntry(p, n, e),
           UNCHANGED <<store, home>>, e \in Tree => store[e] = e
    PROVE  ViewMoves(p) /\ View(p)' = [View(p) EXCEPT ![n] = e]
  <1>1. /\ deps \in [Projects -> [Name -> Entry]] /\ home[p] \in Projects
        /\ NeverDangles
    BY DEF IInv, TypeOK, Graph
  <1>2. deps' = [deps EXCEPT ![home[p]] = [deps[home[p]] EXCEPT ![n] = e]]
    BY DEF SetEntry
  <1>3. View(p)' = [View(p) EXCEPT ![n] = e]
    BY <1>1, <1>2 DEF View
  <1>4. deps' \in [Projects -> Graph]
    BY <1>1, <1>2 DEF Graph
  <1>5. NeverDangles'
    <2> SUFFICES ASSUME NEW d \in Projects, NEW k \in Name, deps'[d][k] \in Tree
                 PROVE  store[deps'[d][k]] = deps'[d][k]
      BY DEF NeverDangles
    <2>1. CASE d = home[p] /\ k = n
      BY <1>1, <1>2, <2>1
    <2>2. CASE ~(d = home[p] /\ k = n)
      <3>1. deps'[d][k] = deps[d][k]
        BY <1>1, <1>2, <2>2
      <3>2. QED BY <3>1, <1>1 DEF NeverDangles
    <2>3. QED BY <2>1, <2>2
  <1>6. \A d \in Projects : d # home[p] => deps'[d] = deps[d]
    BY <1>1, <1>2
  <1>7. QED BY <1>3, <1>4, <1>5, <1>6 DEF ViewMoves

(* Changing the process's own scratch directory.                           *)
LEMMA ScratchStep ==
    ASSUME IInv, NEW p \in Procs, NEW s \in Tree \cup {NoTree, Partial},
           scratch' = [scratch EXCEPT ![p] = s]
    PROVE  ScratchMoves(p) /\ scratch'[p] = s
  BY DEF IInv, TypeOK, ScratchMoves

(* What the invariant says of a process.                                   *)
LEMMA Known ==
    ASSUME IInv, NEW p \in Procs
    PROVE  /\ pc[p] \in Labels /\ mem[p] \in Memory /\ View(p) \in [Name -> Entry]
           /\ home[p] \in Projects
           /\ scratch[p] \in Tree \cup {NoTree, Partial}
           /\ Sound(pc[p], mem[p], scratch[p], store)
           /\ Alone(p) => Framed(pc[p], mem[p], View(p))
           /\ \A n \in Name : View(p)[n] \in Tree => store[View(p)[n]] = View(p)[n]
           /\ store \in [Tree -> Tree \cup {NoTree}]
           /\ \A i \in Tree : store[i] \in {NoTree, i}
  <1>1. TypeOK /\ ProcessInv /\ NeverDangles /\ StoreSound
    BY DEF IInv
  <1>2. home[p] \in Projects /\ View(p) \in [Name -> Entry]
    BY <1>1 DEF TypeOK, View, Graph
  <1>3. QED BY <1>1, <1>2 DEF TypeOK, ProcessInv, NeverDangles, View, StoreSound

-----------------------------------------------------------------------------
(* One lemma per action. *)

(* Turning to the next provenance, with the scratch directory gone.        *)
LEMMA NextProvenanceKeeps ==
    ASSUME IInv, NEW p \in Procs, NextProvenance(p), mem[p].left > 0,
           pc[p] \in Fetching, UNCHANGED <<store, deps>>, ScratchMoves(p),
           scratch'[p] = NoTree
    PROVE  IInv'
  <1> DEFINE m == [mem[p] EXCEPT !.left = mem[p].left - 1, !.served = NoTree]
  <1>1. mem[p] \in Memory
    BY Known
  <1>a. mem[p].left - 1 \in Nat
    BY <1>1 DEF Memory
  <1>2. m \in Memory
    BY <1>1, <1>a DEF Memory, Identity
  <1>3. UNCHANGED home /\ Goto(p, "clear", m)
    BY DEF NextProvenance, Goto
  <1>4. StoreGrows /\ ViewMoves(p)
    BY <1>3, Untouched
  <1>5. Sound("clear", m, scratch'[p], store')
    BY <1>1, Known DEF Sound, Fetching, Rebuilding, Memory
  <1>6. Alone(p) => Framed("clear", m, View(p)')
    BY <1>1, <1>3, Known DEF Framed, Fetching, Rebuilding, Memory, View
  <1>7. "clear" \in Labels \ {"idle"}
    BY DEF Labels
  <1> HIDE DEF m
  <1>8. QED BY <1>2, <1>3, <1>4, <1>5, <1>6, <1>7, GotoKeeps

(* StartLive. *)
LEMMA StartLiveKeeps == ASSUME IInv, NEW p \in Procs, StartLive(p) PROVE IInv'
  <1>1. pc[p] = "idle" /\ UNCHANGED <<store, deps, home, scratch>>
    BY DEF StartLive
  <1>2. mem[p] \in Memory /\ mem' = [mem EXCEPT ![p] = mem[p]]
    BY DEF StartLive, IInv, TypeOK
  <1>3. Frame(p)
    BY <1>1, Untouched DEF Frame
  <1>4. Sound("choose", mem[p], scratch'[p], store')
    BY <1>1, Known DEF Sound, Fetching, Rebuilding
  <1>5. Alone(p) => Framed("choose", mem[p], View(p)')
    BY <1>1, <1>2, Known DEF Framed, Fetching, Rebuilding, View
  <1>6. Exact("choose", NoOutcome, View(p)')
    BY DEF Exact
  <1>7. "choose" \in Labels /\ NoOutcome \in Outcome
    BY BlankType DEF Labels
  <1>8. QED BY <1>2, <1>3, <1>4, <1>5, <1>6, <1>7, MoveKeeps DEF StartLive

(* Choose. *)
LEMMA ChooseKeeps == ASSUME IInv, NEW p \in Procs, Choose(p) PROVE IInv'
  <1>1. PICK n \in Name, i \in Identity, k \in 1 .. Mirrors :
            /\ Decided(p, n) \subseteq Identity
            /\ Goto(p, "clear",
                    [mem[p] EXCEPT !.name = n, !.pin = i, !.left = k, !.count = @ + 1])
    BY DEF Choose
  <1> DEFINE m == [mem[p] EXCEPT !.name = n, !.pin = i, !.left = k, !.count = @ + 1]
  <1>2. pc[p] = "choose" /\ UNCHANGED <<store, deps, scratch, home>>
    BY <1>1 DEF Choose, Goto
  <1>3. mem[p] \in Memory
    BY Known
  <1>4. k \in Nat /\ k > 0
    BY BoundAssumption
  <1>a. mem[p].count + 1 \in Nat
    BY <1>3 DEF Memory
  <1>5. m \in Memory
    BY <1>3, <1>4, <1>a DEF Memory
  <1>6. StoreGrows /\ ViewMoves(p) /\ ScratchMoves(p)
    BY <1>2, Untouched
  <1>7. Sound("clear", m, scratch'[p], store')
    BY <1>2, <1>3, Known DEF Sound, Fetching, Rebuilding, Memory
  <1>8. Local \notin Identity
    BY TreeAssumption DEF Identity
  <1>9. \A f \in mem[p].fetched : f.name = n => f.identity # Local
    BY <1>1, <1>8 DEF Decided
  <1>10. Alone(p) => Framed("clear", m, View(p)')
    BY <1>2, <1>3, <1>9, Known DEF Framed, Fetching, Rebuilding, Memory, View
  <1>11. "clear" \in Labels \ {"idle"}
    BY DEF Labels
  <1>12. Goto(p, "clear", m)
    BY <1>1
  <1> HIDE DEF m
  <1>13. QED BY <1>5, <1>6, <1>7, <1>10, <1>11, <1>12, GotoKeeps

(* ClearDir. *)
LEMMA ClearDirKeeps == ASSUME IInv, NEW p \in Procs, ClearDir(p) PROVE IInv'
  <1>1. /\ pc[p] = "clear" /\ UNCHANGED <<store, scratch, home>>
        /\ SetEntry(p, mem[p].name, NoTree)
    BY DEF ClearDir, Goto, Finish
  <1>2. mem[p] \in Memory /\ mem[p].name \in Name /\ scratch[p] = NoTree
    BY <1>1, Known DEF Sound, Fetching, Rebuilding
  <1>3. NoTree \in Entry /\ NoTree \notin Tree
    BY TreeAssumption DEF Entry
  <1>4. ViewMoves(p) /\ View(p)' = [View(p) EXCEPT ![mem[p].name] = NoTree]
    BY <1>1, <1>2, <1>3, EntryMoves
  <1>5. StoreGrows /\ ScratchMoves(p)
    BY <1>1, Untouched
  <1>6. CASE mem[p].left > 0
    <2>1. Goto(p, "stage", mem[p])
      BY <1>6 DEF ClearDir
    <2>2. Sound("stage", mem[p], scratch'[p], store')
      BY <1>1, <1>2, <1>6, Known DEF Sound, Fetching, Rebuilding
    <2>3. Alone(p) => Framed("stage", mem[p], View(p)')
      BY <1>1, <1>2, <1>4, Known DEF Framed, Fetching, Rebuilding, Memory, Candidate
    <2>4. "stage" \in Labels \ {"idle"}
      BY DEF Labels
    <2>5. QED BY <1>2, <1>4, <1>5, <2>1, <2>2, <2>3, <2>4, GotoKeeps
  <1>7. CASE ~(mem[p].left > 0)
    <2>1. Finish(p, "FETCH-ALL-FAILED")
      BY <1>7 DEF ClearDir
    <2>2. QED BY <1>1, <1>2, <1>4, <1>5, <2>1, FinishKeeps DEF Results
  <1>8. QED BY <1>6, <1>7

(* Stage. *)
LEMMA StageKeeps == ASSUME IInv, NEW p \in Procs, Stage(p) PROVE IInv'
  <1>1. /\ pc[p] = "stage" /\ UNCHANGED <<store, deps, home>>
        /\ scratch' = [scratch EXCEPT ![p] = Partial] /\ Goto(p, "download", mem[p])
    BY DEF Stage, Goto
  <1>2. ScratchMoves(p) /\ mem[p] \in Memory
    BY <1>1, ScratchStep, Known
  <1>3. StoreGrows /\ ViewMoves(p)
    BY <1>1, Untouched
  <1>4. Sound("download", mem[p], scratch'[p], store')
    BY <1>1, Known DEF Sound, Fetching, Rebuilding
  <1>5. Alone(p) => Framed("download", mem[p], View(p)')
    BY <1>1, Known DEF Framed, Fetching, Rebuilding, View
  <1>6. "download" \in Labels \ {"idle"}
    BY DEF Labels
  <1>7. QED BY <1>1, <1>2, <1>3, <1>4, <1>5, <1>6, GotoKeeps

(* Download. *)
LEMMA DownloadKeeps == ASSUME IInv, NEW p \in Procs, Download(p) PROVE IInv'
  <1>1. PICK t \in Tree : /\ scratch' = [scratch EXCEPT ![p] = t]
                          /\ Goto(p, "admit", [mem[p] EXCEPT !.served = t])
    BY DEF Download
  <1> DEFINE m == [mem[p] EXCEPT !.served = t]
  <1>2. pc[p] = "download" /\ UNCHANGED <<store, deps, home>> /\ mem[p] \in Memory
    BY <1>1, Known DEF Download, Goto
  <1>3. ScratchMoves(p) /\ scratch'[p] = t
    BY <1>1, ScratchStep
  <1>4. StoreGrows /\ ViewMoves(p)
    BY <1>2, Untouched
  <1>5. m \in Memory
    BY <1>2 DEF Memory, Identity
  <1>6. Sound("admit", m, scratch'[p], store')
    BY <1>2, <1>3, Known DEF Sound, Fetching, Rebuilding, Memory
  <1>7. Alone(p) => Framed("admit", m, View(p)')
    BY <1>2, Known DEF Framed, Fetching, Rebuilding, View, Memory
  <1>8. "admit" \in Labels \ {"idle"} /\ Goto(p, "admit", m)
    BY <1>1 DEF Labels
  <1> HIDE DEF m
  <1>9. QED BY <1>3, <1>4, <1>5, <1>6, <1>7, <1>8, GotoKeeps

(* DownloadFails. *)
LEMMA DownloadFailsKeeps == ASSUME IInv, NEW p \in Procs, DownloadFails(p) PROVE IInv'
  <1>1. /\ pc[p] = "download" /\ UNCHANGED <<store, deps>> /\ NextProvenance(p)
        /\ scratch' = [scratch EXCEPT ![p] = NoTree]
    BY DEF DownloadFails
  <1>2. ScratchMoves(p) /\ scratch'[p] = NoTree
    BY <1>1, ScratchStep
  <1>3. mem[p].left > 0 /\ pc[p] \in Fetching
    BY <1>1, Known DEF Sound, Fetching, Rebuilding
  <1>4. QED BY <1>1, <1>2, <1>3, NextProvenanceKeeps

(* Admit. *)
LEMMA AdmitKeeps == ASSUME IInv, NEW p \in Procs, Admit(p) PROVE IInv'
  <1>1. pc[p] = "admit" /\ UNCHANGED <<store, deps>>
    BY DEF Admit
  <1>2. /\ mem[p] \in Memory /\ mem[p].left > 0 /\ pc[p] \in Fetching
        /\ scratch[p] \in Tree /\ mem[p].served = scratch[p]
    BY <1>1, Known DEF Sound, Fetching, Rebuilding
  <1>3. CASE Contains(mem[p].served)
    <2>1. /\ scratch' = [scratch EXCEPT ![p] = NoTree]
          /\ Goto(p, "link-clear", mem[p])
      BY <1>2, <1>3 DEF Admit
    <2>2. ScratchMoves(p) /\ scratch'[p] = NoTree
      BY <2>1, ScratchStep
    <2>3. UNCHANGED home
      BY <2>1 DEF Goto
    <2>4. StoreGrows /\ ViewMoves(p)
      BY <1>1, <2>3, Untouched
    <2>5. Sound("link-clear", mem[p], scratch'[p], store')
      BY <1>1, <1>2, <1>3, <2>2, Known DEF Sound, Fetching, Rebuilding, Contains
    <2>6. Alone(p) => Framed("link-clear", mem[p], View(p)')
      BY <1>1, <2>3, Known DEF Framed, Fetching, Rebuilding, View
    <2>7. "link-clear" \in Labels \ {"idle"}
      BY DEF Labels
    <2>8. QED BY <1>2, <2>1, <2>2, <2>4, <2>5, <2>6, <2>7, GotoKeeps
  <1>4. CASE ~Contains(mem[p].served)
    <2>1. UNCHANGED scratch /\ Goto(p, "rename", mem[p])
      BY <1>2, <1>4 DEF Admit
    <2>2. UNCHANGED home
      BY <2>1 DEF Goto
    <2>3. StoreGrows /\ ViewMoves(p) /\ ScratchMoves(p)
      BY <1>1, <2>1, <2>2, Untouched
    <2>4. Sound("rename", mem[p], scratch'[p], store')
      BY <1>1, <1>2, <2>1, Known DEF Sound, Fetching, Rebuilding
    <2>5. Alone(p) => Framed("rename", mem[p], View(p)')
      BY <1>1, <2>2, Known DEF Framed, Fetching, Rebuilding, View
    <2>6. "rename" \in Labels \ {"idle"}
      BY DEF Labels
    <2>7. QED BY <1>2, <2>1, <2>3, <2>4, <2>5, <2>6, GotoKeeps
  <1>5. QED BY <1>3, <1>4

(* Rename: the slot is still empty and takes the whole tree of its name,   *)
(* or it was filled by another process with the same tree.                 *)
LEMMA RenameKeeps == ASSUME IInv, NEW p \in Procs, Rename(p) PROVE IInv'
  <1>1. /\ pc[p] = "rename" /\ UNCHANGED <<deps, home>>
        /\ scratch' = [scratch EXCEPT ![p] = NoTree]
        /\ Goto(p, "link-clear", mem[p])
    BY DEF Rename, Goto
  <1>2. /\ mem[p] \in Memory
        /\ scratch[p] \in Tree /\ mem[p].served = scratch[p]
    BY <1>1, Known DEF Sound, Fetching, Rebuilding
  <1>3. ScratchMoves(p) /\ scratch'[p] = NoTree
    BY <1>1, ScratchStep
  <1>4. store \in [Tree -> Tree \cup {NoTree}] /\ \A i \in Tree : store[i] \in {NoTree, i}
    BY Known
  <1>5. store' = IF Contains(scratch[p]) THEN store
                 ELSE [store EXCEPT ![scratch[p]] = scratch[p]]
    BY <1>2 DEF Rename
  <1>6. StoreGrows /\ store'[scratch[p]] # NoTree
    BY <1>2, <1>4, <1>5, TreeAssumption DEF StoreGrows, StoreSound, Contains
  <1>7. ViewMoves(p)
    <2>1. NeverDangles'
      BY <1>1, <1>6, TreeAssumption DEF IInv, NeverDangles, StoreGrows
    <2>2. QED BY <1>1, <2>1 DEF ViewMoves, IInv, TypeOK
  <1>8. Sound("link-clear", mem[p], scratch'[p], store')
    BY <1>1, <1>2, <1>3, <1>6, Known DEF Sound, Fetching, Rebuilding
  <1>9. Alone(p) => Framed("link-clear", mem[p], View(p)')
    BY <1>1, Known DEF Framed, Fetching, Rebuilding, View
  <1>10. "link-clear" \in Labels \ {"idle"}
    BY DEF Labels
  <1>11. QED BY <1>1, <1>2, <1>3, <1>6, <1>7, <1>8, <1>9, <1>10, GotoKeeps

(* LinkClear. *)
LEMMA LinkClearKeeps == ASSUME IInv, NEW p \in Procs, LinkClear(p) PROVE IInv'
  <1>1. pc[p] = "link-clear" /\ UNCHANGED <<store, scratch>>
    BY DEF LinkClear
  <1>2. /\ mem[p] \in Memory /\ mem[p].name \in Name /\ scratch[p] = NoTree
        /\ Contains(mem[p].served)
    BY <1>1, Known DEF Sound, Fetching, Rebuilding, Contains
  <1>3. SetEntry(p, mem[p].name, NoTree) /\ Goto(p, "link-make", mem[p]) /\ UNCHANGED home
    BY <1>2 DEF LinkClear, Goto
  <1>4. NoTree \in Entry /\ NoTree \notin Tree
    BY TreeAssumption DEF Entry
  <1>5. ViewMoves(p) /\ View(p)' = [View(p) EXCEPT ![mem[p].name] = NoTree]
    BY <1>1, <1>2, <1>3, <1>4, EntryMoves
  <1>6. StoreGrows /\ ScratchMoves(p)
    BY <1>1, Untouched
  <1>7. Sound("link-make", mem[p], scratch'[p], store')
    BY <1>1, Known DEF Sound, Fetching, Rebuilding
  <1>8. Alone(p) => Framed("link-make", mem[p], View(p)')
    BY <1>1, <1>2, <1>5, Known DEF Framed, Fetching, Rebuilding, Memory, Candidate
  <1>9. "link-make" \in Labels \ {"idle"}
    BY DEF Labels
  <1>10. QED BY <1>2, <1>3, <1>5, <1>6, <1>7, <1>8, <1>9, GotoKeeps

(* LinkMake. *)
LEMMA LinkMakeKeeps == ASSUME IInv, NEW p \in Procs, LinkMake(p) PROVE IInv'
  <1>1. pc[p] = "link-make" /\ UNCHANGED <<store, scratch>>
    BY DEF LinkMake
  <1>2. /\ mem[p] \in Memory /\ mem[p].name \in Name /\ scratch[p] = NoTree
        /\ mem[p].left > 0 /\ pc[p] \in Fetching
        /\ mem[p].served \in Tree /\ store[mem[p].served] = mem[p].served
    BY <1>1, Known DEF Sound, Fetching, Rebuilding
  <1>3. CASE View(p)[mem[p].name] = NoTree
    <2>1. /\ SetEntry(p, mem[p].name, mem[p].served) /\ Goto(p, "hash", mem[p])
          /\ UNCHANGED home
      BY <1>3 DEF LinkMake, Goto
    <2>2. mem[p].served \in Entry
      BY <1>2 DEF Entry
    <2>3. ViewMoves(p) /\ View(p)' = [View(p) EXCEPT ![mem[p].name] = mem[p].served]
      BY <1>1, <1>2, <2>1, <2>2, EntryMoves
    <2>4. StoreGrows /\ ScratchMoves(p)
      BY <1>1, Untouched
    <2>5. Sound("hash", mem[p], scratch'[p], store')
      BY <1>1, Known DEF Sound, Fetching, Rebuilding
    <2>6. Alone(p) => Framed("hash", mem[p], View(p)')
      BY <1>1, <1>2, <2>3, Known DEF Framed, Fetching, Rebuilding, Memory, Candidate
    <2>7. "hash" \in Labels \ {"idle"}
      BY DEF Labels
    <2>8. QED BY <1>2, <2>1, <2>3, <2>4, <2>5, <2>6, <2>7, GotoKeeps
  <1>4. CASE View(p)[mem[p].name] # NoTree
    <2>1. UNCHANGED deps /\ NextProvenance(p)
      BY <1>4 DEF LinkMake
    <2>2. ScratchMoves(p) /\ scratch'[p] = NoTree
      BY <1>1, <1>2, Untouched
    <2>3. QED BY <1>1, <1>2, <2>1, <2>2, NextProvenanceKeeps
  <1>5. QED BY <1>3, <1>4

(* FetchFault. *)
LEMMA FetchFaultKeeps == ASSUME IInv, NEW p \in Procs, FetchFault(p) PROVE IInv'
  <1>1. UNCHANGED <<store, deps>>
    BY DEF FetchFault
  <1>2. CASE pc[p] = "clear" /\ Finish(p, "MILPA-INTERNAL-IO") /\ UNCHANGED scratch
    <2>1. UNCHANGED home /\ scratch[p] = NoTree
      BY <1>2, Known DEF Finish, Sound
    <2>2. StoreGrows /\ ViewMoves(p) /\ ScratchMoves(p) /\ scratch'[p] = NoTree
      BY <1>1, <1>2, <2>1, Untouched
    <2>3. QED BY <1>2, <2>2, FinishKeeps DEF Results
  <1>3. CASE /\ pc[p] = "rename"
             /\ scratch' = [scratch EXCEPT ![p] = NoTree] /\ NextProvenance(p)
    <2>1. ScratchMoves(p) /\ scratch'[p] = NoTree
      BY <1>3, ScratchStep
    <2>2. mem[p].left > 0 /\ pc[p] \in Fetching
      BY <1>3, Known DEF Sound, Fetching, Rebuilding
    <2>3. QED BY <1>1, <1>3, <2>1, <2>2, NextProvenanceKeeps
  <1>4. CASE /\ pc[p] \in {"stage", "link-clear", "link-make"} /\ NextProvenance(p)
             /\ UNCHANGED scratch
    <2>1. mem[p].left > 0 /\ pc[p] \in Fetching /\ scratch[p] = NoTree
      BY <1>4, Known DEF Sound, Fetching, Rebuilding
    <2>2. ScratchMoves(p) /\ scratch'[p] = NoTree
      BY <1>4, <2>1, Untouched
    <2>3. QED BY <1>1, <1>4, <2>1, <2>2, NextProvenanceKeeps
  <1>5. QED BY <1>2, <1>3, <1>4 DEF FetchFault

(* Hash: the link made last is the one hashed when p is alone.             *)
LEMMA HashKeeps == ASSUME IInv, NEW p \in Procs, Hash(p) PROVE IInv'
  <1> DEFINE e == View(p)[mem[p].name]
             f == [name |-> mem[p].name, identity |-> store[e], served |-> mem[p].served]
             m == [mem[p] EXCEPT !.fetched = @ \cup {f}, !.name = NoTree, !.pin = NoTree,
                                 !.left = 0, !.served = NoTree]
  <1>1. pc[p] = "hash" /\ UNCHANGED <<store, deps, scratch, home>>
    BY DEF Hash, Finish, Record, Goto
  <1>2. /\ mem[p] \in Memory /\ mem[p].name \in Name /\ scratch[p] = NoTree
        /\ mem[p].served \in Tree
    BY <1>1, Known DEF Sound, Fetching, Rebuilding
  <1>3. StoreGrows /\ ViewMoves(p) /\ ScratchMoves(p) /\ scratch'[p] = NoTree
    BY <1>1, <1>2, Untouched
  <1>4. CASE Finish(p, "MILPA-INTERNAL-IO")
    BY <1>3, <1>4, FinishKeeps DEF Results
  <1>5. CASE Finish(p, "FETCH-PROVENANCE-DIVERGENCE")
    BY <1>3, <1>5, FinishKeeps DEF Results
  <1>6. CASE e \in Tree /\ Record(p, store[e])
    <2>1. store[e] = e
      BY <1>2, <1>6, Known
    <2>2. f \in Candidate
      BY <1>2, <1>6, <2>1 DEF Candidate
    <2>3. m \in Memory
      BY <1>2, <2>2 DEF Memory, Identity
    <2>4. Sound("choose", m, scratch'[p], store')
      BY <1>3 DEF Sound, Fetching, Rebuilding
    <2>5. Alone(p) => Framed("choose", m, View(p)')
      <3> SUFFICES ASSUME Alone(p)
                   PROVE  Framed("choose", m, View(p))
        BY <1>1 DEF View
      <3>1. Framed("hash", mem[p], View(p))
        BY <1>1, Known
      <3>2. f.identity = f.served /\ f.identity # Local
        BY <1>6, <2>1, <3>1, TreeAssumption DEF Framed
      <3>3. m.fetched = mem[p].fetched \cup {f}
        BY <1>2 DEF Memory
      <3> HIDE DEF m, f, e
      <3>4. QED BY <3>1, <3>2, <3>3 DEF Framed, Fetching, Rebuilding
    <2>6. "choose" \in Labels \ {"idle"}
      BY DEF Labels
    <2>7. Goto(p, "choose", m)
      BY <1>6 DEF Record
    <2> HIDE DEF m
    <2>8. QED BY <1>3, <2>3, <2>4, <2>5, <2>6, <2>7, GotoKeeps
  <1>7. QED BY <1>4, <1>5, <1>6 DEF Hash

(* LocalClear. *)
LEMMA LocalClearKeeps == ASSUME IInv, NEW p \in Procs, LocalClear(p) PROVE IInv'
  <1>1. pc[p] = "choose" /\ UNCHANGED <<store, scratch, home>>
    BY DEF LocalClear, Goto, Finish
  <1>2. mem[p] \in Memory /\ scratch[p] = NoTree
    BY <1>1, Known DEF Sound, Fetching, Rebuilding
  <1>3. StoreGrows /\ ScratchMoves(p) /\ scratch'[p] = NoTree
    BY <1>1, <1>2, Untouched
  <1>4. PICK n \in Name :
          \/ /\ Decided(p, n) = {NoTree}
             /\ SetEntry(p, n, NoTree)
             /\ Goto(p, "local-make", [mem[p] EXCEPT !.name = n, !.count = @ + 1])
          \/ UNCHANGED deps /\ Finish(p, "FETCH-LOCAL-PATH-NOT-FOUND")
    BY DEF LocalClear
  <1>5. CASE UNCHANGED deps /\ Finish(p, "FETCH-LOCAL-PATH-NOT-FOUND")
    <2>1. ViewMoves(p)
      BY <1>1, <1>5, Untouched
    <2>2. QED BY <1>3, <1>5, <2>1, FinishKeeps DEF Results
  <1>6. CASE /\ Decided(p, n) = {NoTree}
             /\ SetEntry(p, n, NoTree)
             /\ Goto(p, "local-make", [mem[p] EXCEPT !.name = n, !.count = @ + 1])
    <2> DEFINE m == [mem[p] EXCEPT !.name = n, !.count = @ + 1]
    <2>1. NoTree \in Entry /\ NoTree \notin Tree /\ NoTree # Local
      BY TreeAssumption DEF Entry
    <2>2. ViewMoves(p) /\ View(p)' = [View(p) EXCEPT ![n] = NoTree]
      BY <1>1, <1>6, <2>1, EntryMoves
    <2>3. mem[p].count + 1 \in Nat
      BY <1>2 DEF Memory
    <2>4. m \in Memory
      BY <1>2, <2>3 DEF Memory
    <2>5. \A f \in mem[p].fetched : f.name = n => f.identity # Local
      BY <1>6, <2>1 DEF Decided
    <2>6. Sound("local-make", m, scratch'[p], store')
      BY <1>2, <1>3 DEF Sound, Fetching, Rebuilding, Memory
    <2>7. Alone(p) => Framed("local-make", m, View(p)')
      BY <1>1, <1>2, <2>2, <2>5, Known DEF Framed, Fetching, Rebuilding, Memory, Candidate
    <2>8. "local-make" \in Labels \ {"idle"} /\ Goto(p, "local-make", m)
      BY <1>6 DEF Labels
    <2> HIDE DEF m
    <2>9. QED BY <1>3, <2>2, <2>4, <2>6, <2>7, <2>8, GotoKeeps
  <1>7. QED BY <1>4, <1>5, <1>6

(* LocalMake. *)
LEMMA LocalMakeKeeps == ASSUME IInv, NEW p \in Procs, LocalMake(p) PROVE IInv'
  <1> DEFINE f == [name |-> mem[p].name, identity |-> Local, served |-> Local]
             m == [mem[p] EXCEPT !.fetched = @ \cup {f}, !.name = NoTree]
  <1>1. pc[p] = "local-make" /\ UNCHANGED <<store, scratch, home>>
    BY DEF LocalMake, Goto, Finish
  <1>2. mem[p] \in Memory /\ mem[p].name \in Name /\ scratch[p] = NoTree
    BY <1>1, Known DEF Sound, Fetching, Rebuilding
  <1>3. StoreGrows /\ ScratchMoves(p) /\ scratch'[p] = NoTree
    BY <1>1, <1>2, Untouched
  <1>4. CASE UNCHANGED deps /\ Finish(p, "FETCH-LOCAL-PATH-NOT-DIR")
    <2>1. ViewMoves(p)
      BY <1>1, <1>4, Untouched
    <2>2. QED BY <1>3, <1>4, <2>1, FinishKeeps DEF Results
  <1>5. CASE SetEntry(p, mem[p].name, Local) /\ Goto(p, "choose", m)
    <2>1. Local \in Entry /\ Local \notin Tree
      BY TreeAssumption DEF Entry
    <2>2. ViewMoves(p) /\ View(p)' = [View(p) EXCEPT ![mem[p].name] = Local]
      BY <1>1, <1>2, <1>5, <2>1, EntryMoves
    <2>3. f \in Candidate
      BY <1>2 DEF Candidate
    <2>4. m \in Memory
      BY <1>2, <2>3 DEF Memory
    <2>5. Sound("choose", m, scratch'[p], store')
      BY <1>3 DEF Sound, Fetching, Rebuilding
    <2>6. Alone(p) => Framed("choose", m, View(p)')
      <3> SUFFICES ASSUME Alone(p)
                   PROVE  Framed("choose", m, View(p)')
        OBVIOUS
      <3>1. Framed("local-make", mem[p], View(p)) /\ View(p) \in [Name -> Entry]
        BY <1>1, Known
      <3>2. m.fetched = mem[p].fetched \cup {f} /\ mem[p].fetched \subseteq Candidate
        BY <1>2 DEF Memory
      <3>3. \A g \in m.fetched : /\ g.identity = g.served
                                 /\ g.identity = Local => View(p)'[g.name] = Local
        BY <1>2, <2>2, <3>1, <3>2 DEF Framed, Candidate
      <3> HIDE DEF m, f
      <3>4. QED BY <3>3 DEF Framed, Fetching, Rebuilding
    <2>7. "choose" \in Labels \ {"idle"}
      BY DEF Labels
    <2> HIDE DEF m
    <2>8. QED BY <1>3, <1>5, <2>2, <2>4, <2>5, <2>6, <2>7, GotoKeeps
  <1>6. QED BY <1>4, <1>5 DEF LocalMake

-----------------------------------------------------------------------------
(* The frozen job and the rebuild. *)

(* StartFrozen. *)
LEMMA StartFrozenKeeps == ASSUME IInv, NEW p \in Procs, StartFrozen(p) PROVE IInv'
  <1>1. pc[p] = "idle" /\ UNCHANGED <<store, deps, home, scratch>>
    BY DEF StartFrozen
  <1>2. mem[p] \in Memory /\ scratch[p] = NoTree /\ Frame(p)
    BY <1>1, Known, Untouched DEF Frame, Sound
  <1>3. CASE /\ out' = [out EXCEPT ![p] = [NoOutcome EXCEPT !.result = "FROZEN"]]
             /\ UNCHANGED <<pc, mem>>
    <2> DEFINE o == [NoOutcome EXCEPT !.result = "FROZEN"]
    <2>1. o \in Outcome /\ o.result = "FROZEN"
      BY BlankType DEF Outcome, Results, NoOutcome
    <2>2. /\ pc' = [pc EXCEPT ![p] = "idle"] /\ mem' = [mem EXCEPT ![p] = mem[p]]
          /\ out' = [out EXCEPT ![p] = o]
      BY <1>1, <1>3 DEF IInv, TypeOK
    <2>3. Exact("idle", o, View(p)')
      BY <2>1 DEF Exact
    <2>4. /\ Sound("idle", mem[p], scratch'[p], store')
          /\ Alone(p) => Framed("idle", mem[p], View(p)')
      BY <1>1, Known DEF View
    <2>5. "idle" \in Labels
      BY DEF Labels
    <2> HIDE DEF o
    <2>6. QED BY <1>2, <2>1, <2>2, <2>3, <2>4, <2>5, MoveKeeps
  <1>4. CASE \E g \in Graph :
               /\ \A n \in Name : g[n] # Local
               /\ pc' = [pc EXCEPT ![p] = "prune"]
               /\ mem' = [mem EXCEPT ![p] =
                            [[Blank EXCEPT !.graph = g] EXCEPT
                                !.todo = {n \in Name : View(p)[n] # NoTree}]]
               /\ out' = [out EXCEPT ![p] = NoOutcome]
    <2>1. PICK g \in Graph :
               /\ \A n \in Name : g[n] # Local
               /\ pc' = [pc EXCEPT ![p] = "prune"]
               /\ mem' = [mem EXCEPT ![p] =
                            [[Blank EXCEPT !.graph = g] EXCEPT
                                !.todo = {n \in Name : View(p)[n] # NoTree}]]
               /\ out' = [out EXCEPT ![p] = NoOutcome]
      BY <1>4
    <2> DEFINE m == [[Blank EXCEPT !.graph = g] EXCEPT
                        !.todo = {n \in Name : View(p)[n] # NoTree}]
    <2>2. m \in Memory
      BY BlankType DEF Memory
    <2>3. /\ m.fetched = {} /\ m.graph = g
          /\ m.todo = {n \in Name : View(p)[n] # NoTree}
      BY DEF Blank
    <2>4. Sound("prune", m, scratch'[p], store')
      BY <1>1, <1>2, <2>3 DEF Sound, Fetching, Rebuilding
    <2>5. Framed("prune", m, View(p)')
      <3> HIDE DEF m
      <3>1. View(p)' = View(p)
        BY <1>1 DEF View
      <3>2. QED BY <2>1, <2>3, <3>1 DEF Framed, Fetching, Rebuilding
    <2>6. "prune" \in Labels /\ NoOutcome \in Outcome /\ Exact("prune", NoOutcome, View(p)')
      BY BlankType DEF Labels, Exact
    <2>7. mem' = [mem EXCEPT ![p] = m]
      BY <2>1
    <2> HIDE DEF m
    <2>8. QED BY <1>2, <2>1, <2>2, <2>4, <2>5, <2>6, <2>7, MoveKeeps
  <1>5. QED BY <1>3, <1>4 DEF StartFrozen

(* Solve. *)
LEMMA SolveKeeps == ASSUME IInv, NEW p \in Procs, Solve(p) PROVE IInv'
  <1>1. pc[p] = "choose" /\ UNCHANGED <<store, deps, scratch, home>>
    BY DEF Solve, Goto, Finish
  <1>2. mem[p] \in Memory /\ scratch[p] = NoTree
    BY <1>1, Known DEF Sound, Fetching, Rebuilding
  <1>3. StoreGrows /\ ViewMoves(p) /\ ScratchMoves(p) /\ scratch'[p] = NoTree
    BY <1>1, <1>2, Untouched
  <1>4. CASE Finish(p, "SOLVE-CONFLICT")
    BY <1>3, <1>4, FinishKeeps DEF Results
  <1>5. ASSUME NEW g \in Graph, \A n \in Name : g[n] \in Decided(p, n),
               Goto(p, "prune", [mem[p] EXCEPT !.graph = g, !.fetched = {}, !.count = 0,
                                    !.todo = {n \in Name : View(p)[n] # NoTree}])
        PROVE  IInv'
    <2> DEFINE m == [mem[p] EXCEPT !.graph = g, !.fetched = {}, !.count = 0,
                                   !.todo = {n \in Name : View(p)[n] # NoTree}]
    <2>1. m \in Memory
      BY <1>2 DEF Memory
    <2>2. m.fetched = {} /\ m.graph = g /\ m.todo = {n \in Name : View(p)[n] # NoTree}
      BY <1>2 DEF Memory
    <2>3. Sound("prune", m, scratch'[p], store')
      BY <1>3, <2>2 DEF Sound, Fetching, Rebuilding
    <2>4. Alone(p) => Framed("prune", m, View(p)')
      <3> SUFFICES ASSUME Alone(p)
                   PROVE  Framed("prune", m, View(p))
        BY <1>1 DEF View
      <3>1. Framed("choose", mem[p], View(p))
        BY <1>1, Known
      <3>2. ASSUME NEW n \in Name, g[n] = Local
            PROVE  View(p)[n] = Local
        <4>1. Local \in Decided(p, n)
          BY <1>5, <3>2
        <4>2. PICK f \in mem[p].fetched : f.name = n /\ f.identity = Local
          BY <4>1, TreeAssumption DEF Decided
        <4>3. QED BY <3>1, <4>2 DEF Framed
      <3> HIDE DEF m
      <3>3. QED BY <2>2, <3>2 DEF Framed, Fetching, Rebuilding
    <2>5. "prune" \in Labels \ {"idle"} /\ Goto(p, "prune", m)
      BY <1>5 DEF Labels
    <2> HIDE DEF m
    <2>6. QED BY <1>3, <2>1, <2>3, <2>4, <2>5, GotoKeeps
  <1>6. QED BY <1>4, <1>5 DEF Solve

(* Prune. *)
LEMMA PruneKeeps == ASSUME IInv, NEW p \in Procs, Prune(p) PROVE IInv'
  <1> DEFINE stale == {n \in mem[p].todo : mem[p].graph[n] = NoTree}
             done == [mem[p] EXCEPT !.todo = {n \in Name : mem[p].graph[n] \in Tree}]
             m(n) == [mem[p] EXCEPT !.todo = @ \ {n}]
             w(n) == [mem[p] EXCEPT !.todo = @ \ {n}, !.swallowed = TRUE]
  <1>1. pc[p] = "prune" /\ UNCHANGED <<store, scratch, home>>
    BY DEF Prune, Goto
  <1>2. mem[p] \in Memory /\ scratch[p] = NoTree /\ mem[p].fetched = {}
    BY <1>1, Known DEF Sound, Fetching, Rebuilding
  <1>3. StoreGrows /\ ScratchMoves(p) /\ scratch'[p] = NoTree
    BY <1>1, <1>2, Untouched
  <1>4. Alone(p) => Framed("prune", mem[p], View(p))
    BY <1>1, Known
  <1>5. "prune" \in Labels \ {"idle"} /\ "relink" \in Labels \ {"idle"}
    BY DEF Labels
  <1>6. mem[p].graph \in [Name -> Entry] /\ mem[p].todo \subseteq Name
        /\ mem[p].swallowed \in BOOLEAN
    BY <1>2 DEF Memory, Graph
  <1>7. CASE stale = {} /\ Goto(p, "relink", done) /\ UNCHANGED deps
    <2>1. done \in Memory
      BY <1>2 DEF Memory
    <2>2. /\ done.todo = {n \in Name : mem[p].graph[n] \in Tree}
          /\ done.graph = mem[p].graph /\ done.fetched = mem[p].fetched
          /\ done.swallowed = mem[p].swallowed
      BY <1>2 DEF Memory
    <2>3. Sound("relink", done, scratch'[p], store')
      BY <1>2, <1>3, <2>2 DEF Sound, Fetching, Rebuilding
    <2>4. ViewMoves(p) /\ View(p)' = View(p)
      BY <1>1, <1>7, Untouched DEF View
    <2>5. Alone(p) => Framed("relink", done, View(p)')
      <3> HIDE DEF done
      <3>1. QED BY <1>4, <1>7, <2>2, <2>4 DEF Framed, Fetching, Rebuilding
    <2> HIDE DEF done
    <2>6. QED BY <1>3, <1>5, <1>7, <2>1, <2>3, <2>4, <2>5, GotoKeeps
  <1>8. ASSUME NEW n \in stale, SetEntry(p, n, NoTree), Goto(p, "prune", m(n))
        PROVE  IInv'
    <2>1. n \in Name /\ NoTree \in Entry /\ NoTree \notin Tree /\ NoTree # Local
      BY <1>6, TreeAssumption DEF Entry
    <2>2. ViewMoves(p) /\ View(p)' = [View(p) EXCEPT ![n] = NoTree]
      BY <1>1, <1>8, <2>1, EntryMoves
    <2>3. m(n) \in Memory
      BY <1>2 DEF Memory
    <2>4. /\ m(n).todo = mem[p].todo \ {n} /\ m(n).graph = mem[p].graph
          /\ m(n).fetched = mem[p].fetched /\ m(n).swallowed = mem[p].swallowed
      BY <1>2 DEF Memory
    <2>5. Sound("prune", m(n), scratch'[p], store')
      BY <1>2, <1>3, <2>4 DEF Sound, Fetching, Rebuilding
    <2>6. Alone(p) => Framed("prune", m(n), View(p)')
      <3> SUFFICES ASSUME Alone(p)
                   PROVE  Framed("prune", m(n), View(p)')
        OBVIOUS
      <3>1. View(p) \in [Name -> Entry]
        BY Known
      <3> HIDE DEF m
      <3>2. QED BY <1>2, <1>4, <1>8, <2>1, <2>2, <2>4, <3>1 DEF Framed, Fetching, Rebuilding
    <2> HIDE DEF m
    <2>7. QED BY <1>3, <1>5, <1>8, <2>2, <2>3, <2>5, <2>6, GotoKeeps
  <1>9. ASSUME NEW n \in stale, UNCHANGED deps, Goto(p, "prune", w(n))
        PROVE  IInv'
    <2>1. w(n) \in Memory
      BY <1>2 DEF Memory
    <2>2. /\ w(n).graph = mem[p].graph /\ w(n).fetched = mem[p].fetched
          /\ w(n).swallowed = TRUE
      BY <1>2 DEF Memory
    <2>3. Sound("prune", w(n), scratch'[p], store')
      BY <1>2, <1>3, <2>2 DEF Sound, Fetching, Rebuilding
    <2>4. ViewMoves(p) /\ View(p)' = View(p)
      BY <1>1, <1>9, Untouched DEF View
    <2>5. Alone(p) => Framed("prune", w(n), View(p)')
      <3> HIDE DEF w
      <3>1. QED BY <1>4, <2>2, <2>4 DEF Framed, Fetching, Rebuilding
    <2> HIDE DEF w
    <2>6. QED BY <1>3, <1>5, <1>9, <2>1, <2>3, <2>4, <2>5, GotoKeeps
  <1>10. QED BY <1>7, <1>8, <1>9 DEF Prune

(* RelinkClear. *)
LEMMA RelinkClearKeeps == ASSUME IInv, NEW p \in Procs, RelinkClear(p) PROVE IInv'
  <1> DEFINE m(n) == [[mem[p] EXCEPT !.todo = @ \ {n}] EXCEPT !.name = n]
             w(n) == [[mem[p] EXCEPT !.todo = @ \ {n}] EXCEPT !.swallowed = TRUE]
  <1>1. pc[p] = "relink" /\ UNCHANGED <<store, scratch, home>>
    BY DEF RelinkClear, Goto, Finish
  <1>2. /\ mem[p] \in Memory /\ scratch[p] = NoTree /\ mem[p].fetched = {}
        /\ \A n \in mem[p].todo : mem[p].graph[n] \in Tree
    BY <1>1, Known DEF Sound, Fetching, Rebuilding
  <1>3. StoreGrows /\ ScratchMoves(p) /\ scratch'[p] = NoTree
    BY <1>1, <1>2, Untouched
  <1>4. Alone(p) => Framed("relink", mem[p], View(p))
    BY <1>1, Known
  <1>5. "relink" \in Labels \ {"idle"} /\ "relink-make" \in Labels \ {"idle"}
    BY DEF Labels
  <1>6. mem[p].graph \in [Name -> Entry] /\ mem[p].todo \subseteq Name
        /\ mem[p].swallowed \in BOOLEAN
    BY <1>2 DEF Memory, Graph
  <1>7. CASE mem[p].todo = {} /\ Finish(p, "ok") /\ UNCHANGED deps
    <2>1. ViewMoves(p) /\ View(p)' = View(p)
      BY <1>1, <1>7, Untouched DEF View
    <2>2. ASSUME Alone(p), ~mem[p].swallowed, NEW n \in Name
          PROVE  View(p)[n] = mem[p].graph[n]
      <3>1. mem[p].graph[n] \in Tree \cup {NoTree, Local}
        BY <1>6 DEF Entry
      <3>2. QED BY <1>4, <1>7, <2>2, <3>1 DEF Framed, Rebuilding
    <2>3. "ok" \in Results
      BY DEF Results
    <2>4. QED BY <1>3, <1>7, <2>1, <2>2, <2>3, FinishKeeps
  <1>8. ASSUME NEW n \in mem[p].todo, Contains(mem[p].graph[n]), SetEntry(p, n, NoTree),
               Goto(p, "relink-make", m(n))
        PROVE  IInv'
    <2>1. n \in Name /\ NoTree \in Entry /\ NoTree \notin Tree /\ NoTree # Local
          /\ Local \notin Tree
      BY <1>6, TreeAssumption DEF Entry
    <2>2. ViewMoves(p) /\ View(p)' = [View(p) EXCEPT ![n] = NoTree]
      BY <1>1, <1>8, <2>1, EntryMoves
    <2>3. m(n) \in Memory
      BY <1>2, <2>1 DEF Memory
    <2>4. /\ m(n).todo = mem[p].todo \ {n} /\ m(n).graph = mem[p].graph
          /\ m(n).fetched = mem[p].fetched /\ m(n).swallowed = mem[p].swallowed
          /\ m(n).name = n
      BY <1>2 DEF Memory
    <2>5. Sound("relink-make", m(n), scratch'[p], store')
      BY <1>1, <1>2, <1>3, <1>8, <2>1, <2>4 DEF Sound, Fetching, Rebuilding, Contains
    <2>6. Alone(p) => Framed("relink-make", m(n), View(p)')
      <3>1. View(p) \in [Name -> Entry] /\ mem[p].graph[n] \in Tree
        BY <1>2, Known
      <3> HIDE DEF m
      <3>2. QED BY <1>2, <1>4, <2>1, <2>2, <2>4, <3>1 DEF Framed, Fetching, Rebuilding
    <2> HIDE DEF m
    <2>7. QED BY <1>3, <1>5, <1>8, <2>2, <2>3, <2>5, <2>6, GotoKeeps
  <1>9. ASSUME NEW n \in mem[p].todo, UNCHANGED deps, Goto(p, "relink", w(n))
        PROVE  IInv'
    <2>1. w(n) \in Memory
      BY <1>2 DEF Memory
    <2>2. /\ w(n).graph = mem[p].graph /\ w(n).fetched = mem[p].fetched
          /\ w(n).swallowed = TRUE /\ w(n).todo = mem[p].todo \ {n}
      BY <1>2 DEF Memory
    <2>3. Sound("relink", w(n), scratch'[p], store')
      BY <1>2, <1>3, <2>2 DEF Sound, Fetching, Rebuilding
    <2>4. ViewMoves(p) /\ View(p)' = View(p)
      BY <1>1, <1>9, Untouched DEF View
    <2>5. Alone(p) => Framed("relink", w(n), View(p)')
      <3> HIDE DEF w
      <3>1. QED BY <1>2, <1>4, <2>2, <2>4 DEF Framed, Fetching, Rebuilding
    <2> HIDE DEF w
    <2>6. QED BY <1>3, <1>5, <1>9, <2>1, <2>3, <2>4, <2>5, GotoKeeps
  <1>10. QED BY <1>7, <1>8, <1>9 DEF RelinkClear

(* RelinkMake. *)
LEMMA RelinkMakeKeeps == ASSUME IInv, NEW p \in Procs, RelinkMake(p) PROVE IInv'
  <1> DEFINE n == mem[p].name
             m == [mem[p] EXCEPT !.name = NoTree]
             w == [m EXCEPT !.swallowed = TRUE]
  <1>1. pc[p] = "relink-make" /\ UNCHANGED <<store, scratch, home>>
    BY DEF RelinkMake, Goto
  <1>2. /\ mem[p] \in Memory /\ scratch[p] = NoTree /\ mem[p].fetched = {}
        /\ n \in Name /\ mem[p].graph[n] \in Tree /\ store[mem[p].graph[n]] # NoTree
        /\ \A k \in mem[p].todo : mem[p].graph[k] \in Tree
    BY <1>1, Known DEF Sound, Fetching, Rebuilding
  <1>3. StoreGrows /\ ScratchMoves(p) /\ scratch'[p] = NoTree
    BY <1>1, <1>2, Untouched
  <1>4. Alone(p) => Framed("relink-make", mem[p], View(p))
    BY <1>1, Known
  <1>5. "relink" \in Labels \ {"idle"}
    BY DEF Labels
  <1>6. m \in Memory /\ w \in Memory
    BY <1>2 DEF Memory
  <1>7. /\ m.graph = mem[p].graph /\ m.fetched = {} /\ m.swallowed = mem[p].swallowed
        /\ m.todo = mem[p].todo
        /\ w.graph = mem[p].graph /\ w.fetched = {} /\ w.swallowed = TRUE
        /\ w.todo = mem[p].todo
    BY <1>2 DEF Memory
  <1>8. /\ Sound("relink", m, scratch'[p], store')
        /\ Sound("relink", w, scratch'[p], store')
    BY <1>2, <1>3, <1>7 DEF Sound, Fetching, Rebuilding
  <1>9. CASE SetEntry(p, n, mem[p].graph[n]) /\ Goto(p, "relink", m)
    <2>1. mem[p].graph[n] \in Entry /\ store[mem[p].graph[n]] = mem[p].graph[n]
      BY <1>2, Known DEF Entry
    <2>2. ViewMoves(p) /\ View(p)' = [View(p) EXCEPT ![n] = mem[p].graph[n]]
      BY <1>1, <1>2, <1>9, <2>1, EntryMoves
    <2>3. View(p) \in [Name -> Entry] /\ NoTree \notin Tree /\ Local \notin Tree
      BY Known, TreeAssumption
    <2>4. Alone(p) => Framed("relink", m, View(p)')
      <3> HIDE DEF m
      <3>1. QED BY <1>2, <1>4, <1>7, <2>2, <2>3 DEF Framed, Fetching, Rebuilding
    <2> HIDE DEF m
    <2>5. QED BY <1>3, <1>5, <1>6, <1>8, <1>9, <2>2, <2>4, GotoKeeps
  <1>10. CASE UNCHANGED deps /\ Goto(p, "relink", w)
    <2>1. ViewMoves(p) /\ View(p)' = View(p)
      BY <1>1, <1>10, Untouched DEF View
    <2>2. Alone(p) => Framed("relink", w, View(p)')
      <3> HIDE DEF w
      <3>1. QED BY <1>4, <1>7, <2>1 DEF Framed, Fetching, Rebuilding
    <2> HIDE DEF w, m
    <2>3. QED BY <1>3, <1>5, <1>6, <1>8, <1>10, <2>1, <2>2, GotoKeeps
  <1>11. QED BY <1>9, <1>10 DEF RelinkMake

(* Crash: the files stay, and nothing is claimed of the view.              *)
LEMMA CrashKeeps == ASSUME IInv, NEW p \in Procs, Crash(p) PROVE IInv'
  <1> DEFINE o == [NoOutcome EXCEPT !.result = "killed"]
  <1>1. UNCHANGED <<store, deps, home>> /\ scratch' = [scratch EXCEPT ![p] = NoTree]
    BY DEF Crash
  <1>2. ScratchMoves(p) /\ scratch'[p] = NoTree
    BY <1>1, ScratchStep
  <1>3. Frame(p)
    BY <1>1, <1>2, Untouched DEF Frame
  <1>4. o \in Outcome /\ o.result = "killed"
    BY BlankType DEF Outcome, Results, NoOutcome
  <1>5. Exact("idle", o, View(p)')
    BY <1>4 DEF Exact
  <1>6. Sound("idle", Blank, scratch'[p], store')
    BY <1>2 DEF Sound, Fetching, Rebuilding, Blank
  <1>7. Framed("idle", Blank, View(p)')
    BY DEF Framed, Fetching, Rebuilding, Blank
  <1>8. "idle" \in Labels /\ Blank \in Memory
    BY BlankType DEF Labels
  <1>9. /\ pc' = [pc EXCEPT ![p] = "idle"] /\ mem' = [mem EXCEPT ![p] = Blank]
        /\ out' = [out EXCEPT ![p] = o]
    BY DEF Crash
  <1> HIDE DEF o
  <1>10. QED BY <1>3, <1>4, <1>5, <1>6, <1>7, <1>8, <1>9, MoveKeeps

(* Clean: nobody runs in the project, and its view is empty afterwards.    *)
LEMMA CleanKeeps == ASSUME IInv, NEW d \in Projects, Clean(d) PROVE IInv'
  <1>1. /\ UNCHANGED <<store, home, pc, mem, scratch>>
        /\ deps' = [deps EXCEPT ![d] = [n \in Name |-> NoTree]]
        /\ out' = [p \in Procs |-> IF home[p] = d THEN NoOutcome ELSE out[p]]
        /\ \A p \in Procs : home[p] = d => pc[p] = "idle"
    BY DEF Clean
  <1>2. TypeOK /\ [n \in Name |-> NoTree] \in Graph
    BY DEF IInv, Graph, Entry
  <1>3. TypeOK'
    BY <1>1, <1>2, BlankType DEF TypeOK, Outcome
  <1>4. StoreSound' /\ NeverDangles'
    BY <1>1, <1>2, TreeAssumption DEF IInv, StoreSound, NeverDangles, TypeOK
  <1>5. ProcessInv'
    <2> SUFFICES ASSUME NEW p \in Procs
                 PROVE  /\ Sound(pc[p], mem[p], scratch[p], store)
                        /\ Alone(p) => Framed(pc[p], mem[p], View(p)')
                                       /\ Exact(pc[p], out'[p], View(p)')
      BY <1>1 DEF ProcessInv, Alone
    <2>1. /\ Sound(pc[p], mem[p], scratch[p], store)
          /\ Alone(p) => Framed(pc[p], mem[p], View(p)) /\ Exact(pc[p], out[p], View(p))
      BY DEF IInv, ProcessInv
    <2>2. CASE home[p] = d
      <3>1. pc[p] = "idle" /\ out'[p] = NoOutcome /\ mem[p].fetched = {}
        BY <1>1, <2>1, <2>2 DEF Sound
      <3>2. Exact("idle", NoOutcome, View(p)') /\ Framed("idle", mem[p], View(p)')
        BY <3>1 DEF Exact, NoOutcome, Framed, Fetching, Rebuilding
      <3>3. QED BY <2>1, <3>1, <3>2
    <2>3. CASE home[p] # d
      <3>1. View(p)' = View(p) /\ out'[p] = out[p]
        BY <1>1, <1>2, <2>3 DEF View, TypeOK
      <3>2. QED BY <2>1, <3>1
    <2>4. QED BY <2>2, <2>3
  <1>6. QED BY <1>3, <1>4, <1>5 DEF IInv

-----------------------------------------------------------------------------

(* Every step keeps the invariant.                                         *)
LEMMA StepKeeps == ASSUME IInv, [Next]_vars PROVE IInv'
  <1>1. ASSUME NEW p \in Procs, Step(p) PROVE IInv'
    BY <1>1, ChooseKeeps, ClearDirKeeps, StageKeeps, DownloadKeeps, DownloadFailsKeeps,
       AdmitKeeps, RenameKeeps, LinkClearKeeps, LinkMakeKeeps, FetchFaultKeeps, HashKeeps,
       LocalClearKeeps, LocalMakeKeeps, SolveKeeps, PruneKeeps, RelinkClearKeeps,
       RelinkMakeKeeps DEF Step
  <1>2. CASE UNCHANGED vars
    BY <1>2 DEF IInv, TypeOK, StoreSound, NeverDangles, ProcessInv, Alone, View, vars
  <1>3. QED BY <1>1, <1>2, StartLiveKeeps, StartFrozenKeeps, CrashKeeps, CleanKeeps DEF Next

(* Initially nothing is stored, linked or running.                         *)
LEMMA InitKeeps == Init => IInv
  <1> SUFFICES ASSUME Init PROVE IInv
    OBVIOUS
  <1>1. [n \in Name |-> NoTree] \in Graph /\ "idle" \in Labels
    BY DEF Graph, Entry, Labels
  <1>2. TypeOK
    BY <1>1, BlankType DEF Init, TypeOK, Outcome
  <1>3. StoreSound /\ NeverDangles
    BY TreeAssumption DEF Init, StoreSound, NeverDangles
  <1>4. ASSUME NEW p \in Procs
        PROVE  /\ pc[p] = "idle" /\ mem[p] = Blank /\ scratch[p] = NoTree
               /\ out[p] = NoOutcome
    BY DEF Init
  <1>5. ProcessInv
    <2> SUFFICES ASSUME NEW p \in Procs
                 PROVE  /\ Sound(pc[p], mem[p], scratch[p], store)
                        /\ Framed(pc[p], mem[p], View(p)) /\ Exact(pc[p], out[p], View(p))
      BY DEF ProcessInv
    <2>1. Sound("idle", Blank, NoTree, store)
      BY DEF Sound, Fetching, Rebuilding, Blank
    <2>2. Framed("idle", Blank, View(p)) /\ Exact("idle", NoOutcome, View(p))
      BY DEF Exact, NoOutcome, Framed, Fetching, Rebuilding, Blank
    <2>3. QED BY <1>4, <2>1, <2>2
  <1>6. QED BY <1>2, <1>3, <1>5 DEF IInv

(* The inductive invariant holds of every behaviour of store.rs, the       *)
(* fetchers and the rebuild.                                               *)
THEOREM Invariance == Spec => []IInv
  BY InitKeeps, StepKeeps, PTL DEF Spec

(* The store, the views and every process stay well typed.                 *)
THEOREM TypeCorrect == Spec => []TypeOK
  <1>1. IInv => TypeOK
    BY DEF IInv
  <1>2. QED BY Invariance, <1>1, PTL

(* No entry of any _deps ever dangles, for any number of projects sharing  *)
(* the store and any processes, crashes and faults (CaStore::link).        *)
THEOREM LinksAlwaysResolve == Spec => []NeverDangles
  <1>1. IInv => NeverDangles
    BY DEF IInv
  <1>2. QED BY Invariance, <1>1, PTL

(* A process alone in its project records for every candidate the identity *)
(* of the tree its source served (fetch_any_tracked).                      *)
THEOREM RecordsAlwaysServed == Spec => []RecordsWhatWasServed
  <1>1. IInv => RecordsWhatWasServed
    BY DEF IInv, ProcessInv, RecordsWhatWasServed, Framed
  <1>2. QED BY Invariance, <1>1, PTL

(* A job alone in its project that reports success without having ignored  *)
(* an error leaves exactly the view of its graph, whatever killed jobs     *)
(* left before it (rebuild_deps_view).                                     *)
THEOREM ViewAlwaysGraph == Spec => []ViewIsGraph
  <1>1. IInv => ViewIsGraph
    BY DEF IInv, ProcessInv, ViewIsGraph, Exact
  <1>2. QED BY Invariance, <1>1, PTL

(* No scratch directory outlives the fetch it was made for, except that of *)
(* a process that is killed (CasAdmittingFetcher).                         *)
THEOREM ScratchAlwaysCleared == Spec => []ScratchCleared
  <1>1. IInv => ScratchCleared
    BY DEF IInv, ProcessInv, ScratchCleared, Sound
  <1>2. QED BY Invariance, <1>1, PTL

(* The store implements the write-once store: a slot goes from empty to    *)
(* the whole tree of its name in one step, and never changes again         *)
(* (admit_inner).                                                          *)
THEOREM StoreIsWriteOnce == Spec => WriteOnce
  <1>1. Init => Slots!Init
    BY DEF Init, Slots!Init
  <1>2. IInv /\ [Next]_vars => [Slots!Next]_store
    <2> SUFFICES ASSUME IInv, [Next]_vars
                 PROVE  UNCHANGED store \/ \E t \in Tree : Slots!Admit(t)
      BY DEF Slots!Next
    <2>1. ASSUME NEW p \in Procs, Rename(p)
          PROVE  UNCHANGED store \/ \E t \in Tree : Slots!Admit(t)
      <3>1. scratch[p] \in Tree /\ mem[p].served = scratch[p]
        BY <2>1, Known DEF Rename, Sound
      <3>2. UNCHANGED store \/ Slots!Admit(scratch[p])
        BY <2>1, <3>1 DEF Rename, Contains, Slots!Admit
      <3>3. QED BY <3>1, <3>2
    <2>2. ASSUME NEW p \in Procs, Step(p), ~Rename(p)
          PROVE  UNCHANGED store
      BY <2>2 DEF Step, Choose, ClearDir, Stage, Download, DownloadFails, Admit, LinkClear,
         LinkMake, FetchFault, Hash, LocalClear, LocalMake, Solve, Prune, RelinkClear,
         RelinkMake
    <2>3. QED BY <2>1, <2>2 DEF Next, StartLive, StartFrozen, Crash, Clean, vars
  <1>3. QED BY Invariance, <1>1, <1>2, PTL DEF Spec, WriteOnce, Slots!Spec

(* A step of one process leaves every other process where it is.           *)
LEMMA OthersStay ==
    ASSUME TypeOK, NEW q \in Procs, NEW p \in Procs, p # q,
           StartLive(q) \/ StartFrozen(q) \/ Step(q) \/ Crash(q)
    PROVE  pc'[p] = pc[p]
  <1>1. pc \in [Procs -> Labels]
    BY DEF TypeOK
  <1>2. (\E l : pc' = [pc EXCEPT ![q] = l]) \/ pc' = pc
    <2>1. CASE StartLive(q) \/ Crash(q)
      BY <2>1 DEF StartLive, Crash
    <2>2. CASE StartFrozen(q)
      BY <2>2 DEF StartFrozen
    <2>3. CASE Choose(q) \/ ClearDir(q) \/ Stage(q) \/ Download(q) \/ DownloadFails(q)
      BY <2>3 DEF Choose, ClearDir, Stage, Download, DownloadFails, NextProvenance,
                  Goto, Finish
    <2>4. CASE Admit(q) \/ Rename(q) \/ LinkClear(q) \/ LinkMake(q) \/ FetchFault(q)
      BY <2>4 DEF Admit, Rename, LinkClear, LinkMake, FetchFault, NextProvenance,
                  Goto, Finish
    <2>5. CASE Hash(q) \/ LocalClear(q) \/ LocalMake(q)
      BY <2>5 DEF Hash, Record, LocalClear, LocalMake, Goto, Finish
    <2>6. CASE Solve(q) \/ Prune(q) \/ RelinkClear(q) \/ RelinkMake(q)
      BY <2>6 DEF Solve, Prune, RelinkClear, RelinkMake, Goto, Finish
    <2>7. QED BY <2>1, <2>2, <2>3, <2>4, <2>5, <2>6 DEF Step
  <1>3. QED BY <1>1, <1>2

(* Between the staging of a tree and its link, a process that is alone in  *)
(* its project meets no obstacle: the slot is filled, by it or by a winner *)
(* of the race, and nobody fills the entry it has just cleared.            *)
LEMMA NoFalseFailure ==
    ASSUME IInv, NEW p \in Procs, Alone(p),
           pc[p] \in {"admit", "rename", "link-clear", "link-make"},
           Step(p), ~FetchFault(p)
    PROVE  pc'[p] # "clear"
  <1>1. /\ Sound(pc[p], mem[p], scratch[p], store)
        /\ Framed(pc[p], mem[p], View(p))
    BY Known
  <1>2. pc \in [Procs -> Labels]
    BY DEF IInv, TypeOK
  <1>3. CASE Admit(p)
    <2>1. scratch[p] = mem[p].served
      BY <1>1, <1>3 DEF Sound, Admit
    <2>2. QED BY <1>2, <1>3, <2>1 DEF Admit, Goto
  <1>4. CASE Rename(p)
    BY <1>2, <1>4 DEF Rename, Goto
  <1>5. CASE LinkClear(p)
    <2>1. Contains(mem[p].served)
      BY <1>1, <1>5 DEF Sound, LinkClear, Contains
    <2>2. QED BY <1>2, <1>5, <2>1 DEF LinkClear, Goto
  <1>6. CASE LinkMake(p)
    <2>1. View(p)[mem[p].name] = NoTree
      BY <1>1, <1>6 DEF Framed, LinkMake
    <2>2. QED BY <1>2, <1>6, <2>1 DEF LinkMake, Goto
  <1>7. Admit(p) \/ Rename(p) \/ LinkClear(p) \/ LinkMake(p)
    BY DEF Step, Choose, ClearDir, Stage, Download, DownloadFails, Hash, LocalClear,
           LocalMake, Solve, Prune, RelinkClear, RelinkMake
  <1>8. QED BY <1>3, <1>4, <1>5, <1>6, <1>7

(* Losing the race for a slot is a hit: whichever process renames first,   *)
(* the other turns to another provenance only after a failed file          *)
(* operation or when a second process works in its project.                *)
THEOREM RaceLoserAlwaysSucceeds == Spec => RaceLoserSucceeds
  <1> DEFINE A == \A p \in Procs :
                    /\ pc[p] \in {"admit", "rename", "link-clear", "link-make"}
                    /\ pc'[p] = "clear"
                    => FetchFault(p) \/ ~Alone(p)
  <1>1. IInv /\ [Next]_vars => [A]_vars
    <2> SUFFICES ASSUME IInv, Next, NEW p \in Procs,
                        pc[p] \in {"admit", "rename", "link-clear", "link-make"},
                        pc'[p] = "clear", Alone(p), ~FetchFault(p)
                 PROVE  FALSE
      OBVIOUS
    <2>1. TypeOK
      BY DEF IInv
    <2>2. pc'[p] # pc[p]
      OBVIOUS
    <2>3. ASSUME NEW q \in Procs, StartLive(q) \/ StartFrozen(q) \/ Step(q) \/ Crash(q)
          PROVE  FALSE
      <3>1. q = p
        BY <2>1, <2>2, <2>3, OthersStay
      <3>2. CASE Step(p)
        BY <3>2, NoFalseFailure
      <3>3. CASE StartLive(p) \/ StartFrozen(p)
        BY <3>3 DEF StartLive, StartFrozen
      <3>4. CASE Crash(p)
        BY <2>1, <3>4 DEF Crash, TypeOK
      <3>5. QED BY <2>3, <3>1, <3>2, <3>3, <3>4
    <2>4. ASSUME NEW d \in Projects, Clean(d) PROVE FALSE
      BY <2>2, <2>4 DEF Clean
    <2>5. QED BY <2>3, <2>4 DEF Next
  <1>2. QED BY <1>1, Invariance, PTL DEF Spec, RaceLoserSucceeds
=============================================================================
