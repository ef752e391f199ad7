------------------------------- MODULE Resolve ------------------------------
(***************************************************************************)
(* One `milpa` resolve: the provider (ResolveProvider in resolver.rs, with *)
(* BindingResolver in binding.rs), the adapter between it and pubgrub      *)
(* (ProviderAdapter in milpa-solver), and pubgrub itself, external, as a   *)
(* search that learns from conflicts.                                      *)
(*                                                                         *)
(* Discovery fetches URL dependencies depth first and enumerates registry  *)
(* ones as stubs.  During the solve a stub is fetched when its             *)
(* dependencies are first asked for, and what it requires is discovered    *)
(* then; the provider's queries cannot fail, so an error there is captured *)
(* and reported after the solve.                                           *)
(*                                                                         *)
(* Abstractions: a solver variable is its source, a constraint the set of  *)
(* versions it allows; the version picked among the allowed ones is        *)
(* arbitrary (pick_version is in VersionSets); namespaces, overrides,      *)
(* flags and the merging of equal trees are left out.                      *)
(***************************************************************************)
EXTENDS Naturals, FiniteSets, SequencesExt

CONSTANTS
    Names,      \* the names requirements use
    Registry,   \* registry sources: several versions, fetched when needed
    Urls,       \* URL sources: one version, fetched when discovered
    Published,  \* Published[s]: the versions of a registry source
    Root,       \* the synthetic root package
    Nothing,    \* no source, no package
    Version,    \* versions; 0 is the sentinel of the unknown ones
    Worlds,     \* the manifests there may be
    Faults      \* TRUE: a fetch may fail

Sources == Registry \cup Urls
Requirement == [name : Names, source : Sources, range : SUBSET Version]

ASSUME SourceAssumption ==
    /\ Registry \cap Urls = {} /\ Nothing \notin Sources /\ Root \notin Sources
    /\ Published \in [Registry -> SUBSET Version]
    /\ {0, 1} \subseteq Version

\* Every version that can be fetched has requirements; a registry version is
\* never unknown; declarations of one name at the root agree on its source (else
\* reconcile_root_claims raises).
ASSUME WorldAssumption ==
    \A w \in Worlds :
        /\ w.root \in Seq(Requirement)
        /\ \A d \in DOMAIN w.requires : w.requires[d] \in Seq(Requirement)
        /\ \A s \in Registry : \A v \in Published[s] : <<s, v>> \in DOMAIN w.requires
        /\ \A s \in Urls : <<s, IF s \in w.unknown THEN 0 ELSE 1>> \in DOMAIN w.requires
        /\ w.unknown \subseteq Urls
        /\ \A i, j \in DOMAIN w.root :
             w.root[i].name = w.root[j].name => w.root[i].source = w.root[j].source

VARIABLES
    world,       \* root: the root's requirements; requires[<<s, v>>]: those of
                 \* version v of s; unknown: URL sources that declare no version
    bind,        \* BindingResolver.bindings
    cand,        \* candidates, as the solver terms of each
    stubs,       \* versions enumerated but not fetched
    discovered,  \* discovery_order
    seen,        \* seen_url and seen_named
    frames,      \* the process_items calls under way, innermost first: whose
                 \* requirements, which are not admitted yet, which not dispatched
    phase,       \* "discover", "solve" or "done"
    asking,      \* the get_dependencies call under way
    dec,         \* pubgrub: the decisions, the root's first
    answers,     \* pubgrub: the dependencies it was told
    nogoods,     \* pubgrub: what it learnt
    constrainers,\* ProviderAdapter.constrainers
    error,       \* the captured error
    outcome

provider == <<bind, cand, stubs, discovered, seen, frames>>
search == <<dec, answers, nogoods, constrainers>>
vars == <<world, provider, phase, asking, search, error, outcome>>

RootNode == <<Root, 0>>
NoCall == [node |-> <<Nothing, 0>>, state |-> "none"]
Running == [kind |-> "none", graph |-> {}, names |-> {}]

-----------------------------------------------------------------------------
(* Bindings and requirements. *)

RootNames == {world.root[i].name : i \in DOMAIN world.root}

Requires(d) == IF d = RootNode THEN world.root ELSE world.requires[d]

\* candidate_label: the declared version, or the sentinel.
Label(s) == IF s \in world.unknown THEN 0 ELSE 1

\* canonical_key_for_requirement: the bound source, else the requirement's.
Key(r) == IF bind[r.name] # Nothing THEN bind[r.name] ELSE r.source

\* No earlier requirement of the sequence has the solver variable of the ith.
First(rs, i) == \A j \in 1 .. i - 1 : Key(rs[j]) # Key(rs[i])

\* edgeset_to_extracted: one term for each solver variable, the first.
Terms(rs) == {[to |-> Key(rs[i]), range |-> rs[i].range] : i \in {k \in DOMAIN rs : First(rs, k)}}

\* ... and the items: every URL, but a named one only with its term.
Items(rs) == {i \in DOMAIN rs : rs[i].source \in Urls \/ First(rs, i)}

\* A table with one more entry.
Store(f, d, x) == [e \in DOMAIN f \cup {d} |-> IF e = d THEN x ELSE f[e]]

\* record_discovery.
Discover(s) == discovered' = IF s \in ToSet(discovered) THEN discovered ELSE Append(discovered, s)

\* Entering process_items on a batch; a call with nothing left has returned.
Enter(d, items, rest) ==
    IF items = {} THEN rest ELSE <<[node |-> d, admit |-> items, go |-> {}]>> \o rest

Advance(f) == IF f.admit = {} /\ f.go = {} THEN Tail(frames) ELSE <<f>> \o Tail(frames)

\* The next of the items of a batch, in the order of the declarations.
Leads(i, items) == i \in items /\ \A j \in items : i <= j

\* seed_root: the root's claims are bound and discovered in order, and each is
\* a term of its own.
Init ==
    /\ world \in Worlds
    /\ bind = [n \in Names |->
                 IF n \in RootNames
                 THEN LET i == CHOOSE k \in DOMAIN world.root : world.root[k].name = n IN
                      world.root[i].source
                 ELSE Nothing]
    /\ cand = [d \in {RootNode} |->
                 {[to |-> r.source, range |-> r.range] : r \in ToSet(world.root)}]
    /\ stubs = {} /\ seen = {}
    /\ discovered = [i \in DOMAIN world.root |-> world.root[i].source]
    /\ frames = Enter(RootNode, DOMAIN world.root, <<>>)
    /\ phase = "discover" /\ asking = NoCall
    /\ dec = <<>> /\ answers = <<>> /\ nogoods = {} /\ constrainers = {}
    /\ error = "none" /\ outcome = Running

-----------------------------------------------------------------------------
(* The provider: process_items. *)

Finish(o) ==
    /\ outcome' = o
    /\ phase' = "done"

\* An error ends a resolve that is still discovering; during the solve it is
\* captured, if it is the first, and the call in progress is given up.
Fail(slug) ==
    /\ frames' = <<>>
    /\ error' = IF error = "none" THEN slug ELSE error
    /\ IF phase = "discover"
       THEN Finish([Running EXCEPT !.kind = "error"]) /\ UNCHANGED asking
       ELSE asking' = [asking EXCEPT !.state = "failed"] /\ UNCHANGED <<phase, outcome>>

\* Mutant: a second source for a name is taken for the first.
SubmitAnySource(r) ==
    IF bind[r.name] = Nothing THEN "new"
    ELSE IF bind[r.name] = r.source THEN "duplicate"
    ELSE "lost"

\* BindingResolver::submit.
Submit(r) ==
    IF bind[r.name] = Nothing THEN "new"
    ELSE IF bind[r.name] = r.source THEN "duplicate"
    ELSE IF r.name \in RootNames THEN "lost"
    ELSE "conflict"

\* gate_only, for the next item of the batch: all are admitted before any is
\* dispatched.
GateOnly ==
    /\ frames # <<>>
    /\ \E i \in Head(frames).admit :
        LET f == [Head(frames) EXCEPT !.admit = @ \ {i}]
            r == Requires(f.node)[i] IN
        /\ Leads(i, Head(frames).admit)
        /\ \/ /\ Submit(r) \in {"new", "duplicate"}
              /\ bind' = [bind EXCEPT ![r.name] = r.source]
              /\ Discover(r.source)
              /\ frames' = Advance([f EXCEPT !.go = @ \cup {i}])
              /\ UNCHANGED <<phase, asking, error, outcome>>
           \/ /\ Submit(r) = "lost"
              /\ Discover(bind[r.name])
              /\ frames' = Advance(f)
              /\ UNCHANGED <<bind, phase, asking, error, outcome>>
           \/ /\ Submit(r) = "conflict"
              /\ Fail("RES-BINDING-CONFLICT")
              /\ UNCHANGED <<bind, discovered>>
    /\ UNCHANGED <<world, cand, stubs, seen, search>>

\* Mutant: a URL is processed again for each requirement of it.
SeenNamedOnly(s) == s \in seen /\ s \in Registry

\* The dedup of process_url and process_named.
Seen(s) == s \in seen

\* process_named: every published version becomes a stub.
ProcessNamed(s, rest) ==
    /\ s \in Registry
    /\ stubs' = stubs \cup {<<s, v>> : v \in Published[s]}
    /\ frames' = rest
    /\ UNCHANGED <<cand, phase, asking, error, outcome>>

\* process_url: fetched at once, its requirements before the rest.
ProcessUrl(s, rest) ==
    /\ s \in Urls
    /\ LET d == <<s, Label(s)>> IN
       /\ cand' = Store(cand, d, Terms(Requires(d)))
       /\ frames' = Enter(d, Items(Requires(d)), rest)
    /\ UNCHANGED <<stubs, phase, asking, error, outcome>>

\* Not in the index, or not to be fetched.
ProcessFails ==
    /\ Faults
    /\ Fail("FETCH-FAILED")
    /\ UNCHANGED <<cand, stubs>>

\* dispatch of the next admitted item; one that was seen is passed over.
Dispatch ==
    /\ frames # <<>> /\ Head(frames).admit = {}
    /\ \E i \in Head(frames).go :
        LET f == [Head(frames) EXCEPT !.go = @ \ {i}]
            s == Requires(f.node)[i].source IN
        /\ Leads(i, Head(frames).go)
        /\ \/ /\ Seen(s)
              /\ frames' = Advance(f)
              /\ UNCHANGED <<cand, stubs, seen, phase, asking, error, outcome>>
           \/ /\ ~Seen(s)
              /\ seen' = seen \cup {s}
              /\ ProcessNamed(s, Advance(f)) \/ ProcessUrl(s, Advance(f)) \/ ProcessFails
    /\ UNCHANGED <<world, bind, discovered, search>>

\* Mutant: a version that has been fetched is still offered as a stub.
MaterializeNamedKeepsStub ==
    /\ asking.state = "asked" /\ asking.node \in stubs
    /\ LET d == asking.node IN
       /\ cand' = Store(cand, d, Terms(Requires(d)))
       /\ frames' = Enter(d, Items(Requires(d)), <<>>)
       /\ asking' = [asking EXCEPT !.state = "working"]
       /\ UNCHANGED <<stubs, phase, error, outcome>>
    /\ UNCHANGED <<world, bind, discovered, seen, search>>

\* materialize_named: the candidate is stored before its items are processed.
MaterializeNamed ==
    /\ asking.state = "asked" /\ asking.node \in stubs
    /\ LET d == asking.node IN
       \/ /\ cand' = Store(cand, d, Terms(Requires(d)))
          /\ stubs' = stubs \ {d}
          /\ frames' = Enter(d, Items(Requires(d)), <<>>)
          /\ asking' = [asking EXCEPT !.state = "working"]
          /\ UNCHANGED <<phase, error, outcome>>
       \/ /\ Faults
          /\ Fail("FETCH-FAILED")
          /\ UNCHANGED <<cand, stubs>>
    /\ UNCHANGED <<world, bind, discovered, seen, search>>

-----------------------------------------------------------------------------
(* pubgrub, and the queries of ProviderAdapter. *)

\* Version 0 of what is not a candidate yet is not known to be unknown.
IsVersionUnknown(s) == s \in world.unknown /\ <<s, 0>> \in DOMAIN cand

\* The versions of t that the decisions D allow, as their terms say.
Range0(D, t) == {v \in Version : \A d \in D : \A m \in answers[d] : m.to = t => v \in m.range}

\* Deciding d, with its terms, would contradict D.
Clashes(D, d, terms) ==
    \E m \in terms :
        \/ m.range \cap Range0(D, m.to) = {}
        \/ \E e \in D \cup {d} : e[1] = m.to /\ e[2] \notin m.range

\* The range pubgrub has derived for t.
Allowed(D, t) ==
    {v \in Range0(D, t) :
        /\ <<t, v>> \in DOMAIN answers => ~Clashes(D, <<t, v>>, answers[<<t, v>>])
        /\ \A N \in nogoods : N \ D # {<<t, v>>}}

\* Packages that D requires and has not decided.
Open(D) ==
    {t \in Sources :
        /\ \E d \in D : \E m \in answers[d] : m.to = t
        /\ \A d \in D : d[1] # t}

Versions(t) == {v \in Version : <<t, v>> \in DOMAIN cand \cup stubs}

Index(t) ==
    CHOOSE i \in DOMAIN discovered :
        discovered[i] = t /\ \A j \in 1 .. i - 1 : discovered[j] # t

\* Mutant: packages are decided in the order of their discovery alone.
PrioritizeByIndex(T) == {t \in T : \A s \in T : Index(t) <= Index(s)}

\* prioritize: version-unknown packages last, then the order of discovery.
Prioritize(T) ==
    {t \in T : \A s \in T :
        \/ ~IsVersionUnknown(t) /\ IsVersionUnknown(s)
        \/ IsVersionUnknown(t) = IsVersionUnknown(s) /\ Index(t) <= Index(s)}

Solving == phase = "solve" /\ frames = <<>> /\ asking = NoCall

Consistent(D) == \A t \in Open(D) : Allowed(D, t) # {}

\* Everything known is discovered: the solver starts with the root.
StartSolve ==
    /\ phase = "discover" /\ frames = <<>>
    /\ phase' = "solve"
    /\ asking' = [node |-> RootNode, state |-> "asked"]
    /\ UNCHANGED <<world, provider, search, error, outcome>>

\* choose_version for the package of highest priority.
ChooseVersion ==
    /\ Solving /\ Open(ToSet(dec)) # {} /\ Consistent(ToSet(dec))
    /\ \E t \in Prioritize(Open(ToSet(dec))) :
        LET range == Allowed(ToSet(dec), t) IN
        \/ /\ IsVersionUnknown(t) /\ range # Version
           /\ Finish([kind |-> "unknown", graph |-> ToSet(dec),
                      names |-> {c.consumer : c \in {x \in constrainers : x.target = t}}])
           /\ UNCHANGED <<asking, search>>
        \/ /\ ~(IsVersionUnknown(t) /\ range # Version)
           /\ \E v \in Versions(t) \cap range :
                IF <<t, v>> \in DOMAIN answers
                THEN dec' = Append(dec, <<t, v>>) /\ UNCHANGED asking
                ELSE asking' = [node |-> <<t, v>>, state |-> "asked"] /\ UNCHANGED dec
           /\ UNCHANGED <<answers, nogoods, constrainers, phase, outcome>>
    /\ UNCHANGED <<world, provider, error>>

\* get_dependencies returns: the consumer's earlier entries make way for its
\* non-full terms, and the decision is taken unless it contradicts the others
\* (there is nothing the root could contradict).
GetDependencies ==
    /\ frames = <<>>
    /\ \/ asking.state \in {"asked", "working"} /\ asking.node \in DOMAIN cand
       \/ asking.state = "failed"
    /\ LET d == asking.node
           told == IF asking.state = "failed" THEN {} ELSE cand[d] IN
       /\ answers' = Store(answers, d, told)
       /\ constrainers' =
            {c \in constrainers : c.consumer # d[1]} \cup
            {[target |-> m.to, consumer |-> d[1]] : m \in {x \in told : x.range # Version}}
       /\ dec' = IF d # RootNode /\ Clashes(ToSet(dec), d, told) THEN dec ELSE Append(dec, d)
    /\ asking' = NoCall
    /\ UNCHANGED <<world, provider, phase, nogoods, error, outcome>>

\* Some package that N requires has no version left.
Refuted(N) == \E t \in Open(N) : Allowed(N, t) \cap Versions(t) = {}

\* The decisions after all but the last of the places in at are undone; the
\* root's never is.
BackjumpTo(at) ==
    \E last \in at : \E k \in {1} \cup (at \ {last}) :
        /\ \A i \in at : i <= last /\ (i # last => i <= k)
        /\ dec' = SubSeq(dec, 1, k)

\* Conflict resolution: a minimal reason is learnt, and what it refutes undone.
Conflict ==
    /\ Solving /\ Open(ToSet(dec)) # {}
    /\ \/ ~Consistent(ToSet(dec))
       \/ \E t \in Prioritize(Open(ToSet(dec))) :
            /\ ~(IsVersionUnknown(t) /\ Allowed(ToSet(dec), t) # Version)
            /\ Allowed(ToSet(dec), t) \cap Versions(t) = {}
    /\ \E N \in SUBSET (ToSet(dec) \ {RootNode}) :
        /\ Refuted(N \cup {RootNode})
        /\ \A M \in SUBSET N : M # N => ~Refuted(M \cup {RootNode})
        /\ IF N = {}
           THEN /\ Finish([Running EXCEPT !.kind = "conflict"])
                /\ UNCHANGED <<dec, nogoods>>
           ELSE /\ nogoods' = nogoods \cup {N}
                /\ BackjumpTo({i \in DOMAIN dec : dec[i] \in N})
                /\ UNCHANGED <<phase, outcome>>
    /\ UNCHANGED <<world, provider, asking, answers, constrainers, error>>

\* Mutant: the error captured during the solve is not looked at.
SolveEndsUnchecked ==
    /\ Solving /\ Open(ToSet(dec)) = {}
    /\ Finish([Running EXCEPT !.kind = "graph", !.graph = ToSet(dec)])
    /\ UNCHANGED <<world, provider, asking, search, error>>

\* The solver has a solution: a captured error still fails the resolve.
SolveEnds ==
    /\ Solving /\ Open(ToSet(dec)) = {}
    /\ Finish(IF error # "none" THEN [Running EXCEPT !.kind = "error"]
              ELSE [Running EXCEPT !.kind = "graph", !.graph = ToSet(dec)])
    /\ UNCHANGED <<world, provider, asking, search, error>>

Next ==
    \/ GateOnly \/ Dispatch \/ MaterializeNamed
    \/ StartSolve \/ ChooseVersion \/ GetDependencies \/ Conflict \/ SolveEnds

Spec == Init /\ [][Next]_vars

\* A resolve is one synchronous call.
FairSpec == Spec /\ WF_vars(Next)

-----------------------------------------------------------------------------
Nodes == {RootNode} \cup {<<s, v>> : s \in Sources, v \in Version}
Term == [to : Sources, range : SUBSET Version]

(* The provider's tables and the solver's state have their types; a        *)
(* version is never both a stub and a candidate.                           *)
TypeOK ==
    /\ bind \in [Names -> Sources \cup {Nothing}]
    /\ DOMAIN cand \subseteq Nodes /\ \A d \in DOMAIN cand : cand[d] \subseteq Term
    /\ stubs \subseteq Nodes \ DOMAIN cand
    /\ ToSet(discovered) \subseteq Sources /\ seen \subseteq Sources
    /\ ToSet(dec) \subseteq DOMAIN answers /\ DOMAIN answers \subseteq Nodes
    /\ phase \in {"discover", "solve", "done"}
    /\ (phase = "done") = (outcome # Running)

\* The first requirement of package d on each name.
Firsts(d) ==
    LET rs == Requires(d) IN
    {rs[i] : i \in {k \in DOMAIN rs : \A j \in 1 .. k - 1 : rs[j].name # rs[k].name}}

Graph == IF outcome.kind = "graph" THEN outcome.graph ELSE {}

(* A graph is a solution: the root is in it, each package has one version, *)
(* was fetched, and finds every dependency it declares in the graph, in    *)
(* the range it asks for, also after lazy discovery, backtracking and      *)
(* failed fetches.                                                         *)
SolutionIsSound ==
    /\ outcome.kind = "graph" => RootNode \in Graph
    /\ \A d \in Graph :
        /\ d \in DOMAIN cand
        /\ \A e \in Graph : e[1] = d[1] => e = d
        /\ \A r \in Firsts(d) : \E e \in Graph : e[1] = bind[r.name] /\ e[2] \in r.range

(* In a graph a dependency comes from the source its declaration names,    *)
(* unless the root declares another for that name: also when the sources   *)
(* only meet in what is discovered during the solve (submit).              *)
OneSourcePerName ==
    \A d \in Graph : \A r \in Firsts(d) : bind[r.name] = r.source \/ r.name \in RootNames

Known(d) == d[1] \notin world.unknown

\* The packages of the graph that the root reaches through known ones.
KnownReach ==
    {d \in Graph :
        \A S \in SUBSET Graph :
            /\ RootNode \in S
            /\ \A e \in S : Known(e) =>
                 \A r \in Firsts(e) : {x \in Graph : x[1] = bind[r.name]} \subseteq S
            => d \in S}

Constrains(d, s) == \E r \in Firsts(d) : bind[r.name] = s /\ r.range # Version

(* A version-unknown package is never selected under the constraint of a   *)
(* package with a known version that the root reaches through such         *)
(* packages: prioritize puts it after all of them, however late they are   *)
(* discovered, and choose_version refuses it.                              *)
KnownConstrainersCaught ==
    \A d \in KnownReach, u \in Graph : Known(d) /\ ~Known(u) => ~Constrains(d, u[1])

(* Every resolve ends, whatever the cycles among the packages and however  *)
(* often the solver backtracks.                                            *)
ResolveReturns == <>(phase = "done")

(* "every declared requires clause becomes an Incompatibility term": a     *)
(* graph honours all of a package's constraints on a name.                 *)
HonoursEveryClause ==
    \A d \in Graph : \A i \in DOMAIN Requires(d) :
        LET r == Requires(d)[i] IN
        \E e \in Graph : e[1] = bind[r.name] /\ e[2] \in r.range
=============================================================================
