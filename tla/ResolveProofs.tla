---------------------------- MODULE ResolveProofs ---------------------------
(***************************************************************************)
(* What Resolve promises of its result for any manifests, however often    *)
(* discovery is resumed during the solve, the solver backtracks or a fetch *)
(* fails: the tables keep their types, and, if nothing is required under   *)
(* two names, a graph is a solution with one source for each name.         *)
(***************************************************************************)
EXTENDS Resolve, TLAPS

-----------------------------------------------------------------------------
(* The inductive invariant.                                                *)

\* The packages whose requirements the world knows.
Declaring == {RootNode} \cup DOMAIN world.requires

\* Some package requires the name n from the source s.
Claimed(n, s) ==
    \E d \in Declaring : \E i \in DOMAIN Requires(d) :
        Requires(d)[i].name = n /\ Requires(d)[i].source = s

\* Nothing is required under two names.  (edgeset_to_extracted looks for a
\* solver variable where it means a name: of two names for one source it drops
\* the second, with its constraint and its claim.)
NoAlias == \A n, k \in Names, s \in Sources : Claimed(n, s) /\ Claimed(k, s) => n = k

Frame == [node : Nodes, admit : SUBSET Nat, go : SUBSET Nat]

\* A call of process_items works on the requirements of one of the packages ds.
FrameOK(f, ds) ==
    f \in Frame /\ f.node \in ds /\ f.admit \cup f.go \subseteq DOMAIN Requires(f.node)

\* The calls under way, fs; only the innermost still admits.
StackOK(fs, ds) ==
    /\ fs \in Seq(Frame)
    /\ \A i \in DOMAIN fs : FrameOK(fs[i], ds) /\ (i > 1 => fs[i].admit = {})

FramesOK == StackOK(frames, DOMAIN cand)

\* What is enumerated or fetched is known to the world, and comes from a source
\* that has been seen.
TablesOK ==
    /\ RootNode \in DOMAIN cand
    /\ DOMAIN cand \cup stubs \subseteq Declaring
    /\ \A d \in (DOMAIN cand \cup stubs) \ {RootNode} : d[1] \in seen

\* Where the resolve is, and what that says of the call in progress.
PhaseOK ==
    /\ phase = "discover" => asking = NoCall /\ dec = <<>> /\ answers = <<>> /\ error = "none"
    /\ phase = "solve" =>
         \/ dec = <<>> /\ asking.node = RootNode /\ asking # NoCall
         \/ dec # <<>> /\ dec[1] = RootNode
    /\ phase = "solve" /\ frames # <<>> => asking # NoCall
    /\ phase = "done" => frames = <<>> /\ asking = NoCall
    /\ phase # "done" => outcome = Running
    /\ asking # NoCall =>
         /\ asking \in [node : Nodes, state : {"asked", "working", "failed"}]
         /\ asking.state # "working" => frames = <<>>
         /\ asking.state = "failed" => error # "none"
    /\ outcome.kind = "graph" =>
         /\ error = "none" /\ dec # <<>> /\ dec[1] = RootNode
         /\ outcome.graph = ToSet(dec) /\ Open(ToSet(dec)) = {}

\* What the solver was told is what the provider has, until an error is captured.
ToldOK ==
    /\ \A d \in DOMAIN answers : answers[d] \subseteq Term
    /\ error = "none" => \A d \in DOMAIN answers : d \in DOMAIN cand /\ answers[d] = cand[d]

\* The decisions agree with each other.
DecisionsOK ==
    /\ dec \in Seq(Nodes)
    /\ \A d, e \in ToSet(dec) :
         /\ d[1] = e[1] => d = e
         /\ \A m \in answers[d] : m.to = e[1] => e[2] \in m.range

\* The package being asked about is a new one, within what they require.
AskingOK ==
    asking # NoCall =>
         /\ asking.node \notin DOMAIN answers
         /\ \A d \in ToSet(dec) :
              /\ d[1] # asking.node[1]
              /\ \A m \in answers[d] : m.to = asking.node[1] => asking.node[2] \in m.range

\* The first requirement of package d on each name, by its place.
Leading(d) ==
    {i \in DOMAIN Requires(d) :
        \A j \in 1 .. i - 1 : Requires(d)[j].name # Requires(d)[i].name}

\* With the bindings b: the solver variable of r; its name is bound, and to its
\* own source unless the root has another; the terms ts have one for it.
KeyUnder(b, r) == IF b[r.name] # Nothing THEN b[r.name] ELSE r.source
Admitted(b, r) == b[r.name] # Nothing /\ (b[r.name] = r.source \/ r.name \in RootNames)
HasTerm(ts, b, r) == \E m \in ts : m.to = KeyUnder(b, r) /\ m.range = r.range

\* The ith requirement of package d is still to be admitted by the calls fs.
Pending(fs, d, i) == fs # <<>> /\ Head(fs).node = d /\ i \in Head(fs).admit

\* Every requirement has its term, and has its binding or will have it before
\* the innermost call dispatches anything.
Settled(c, b, fs) ==
    \A d \in DOMAIN c : \A i \in Leading(d) :
        /\ HasTerm(c[d], b, Requires(d)[i])
        /\ Admitted(b, Requires(d)[i]) \/ Pending(fs, d, i)

BindingsOK ==
    /\ \A i \in DOMAIN world.root : bind[world.root[i].name] = world.root[i].source
    /\ \A n \in Names : bind[n] # Nothing => Claimed(n, bind[n])

SettledOK == error = "none" /\ NoAlias => Settled(cand, bind, frames)

IInv ==
    /\ TypeOK /\ world \in Worlds /\ discovered \in Seq(Sources)
    /\ FramesOK /\ TablesOK /\ PhaseOK /\ ToldOK /\ DecisionsOK /\ AskingOK
    /\ BindingsOK /\ SettledOK

-----------------------------------------------------------------------------
(* Sequences, tables and the stack of calls.                               *)

(* A sequence with one more element has one more element.                  *)
LEMMA ToSetAppend ==
    ASSUME NEW S, NEW s \in Seq(S), NEW x \in S
    PROVE  /\ Append(s, x) \in Seq(S) /\ ToSet(Append(s, x)) = ToSet(s) \cup {x}
           /\ s # <<>> => Append(s, x)[1] = s[1]
           /\ s = <<>> => Append(s, x)[1] = x
           /\ Append(s, x) # <<>>
  <1>1. Append(s, x) \in Seq(S) /\ Len(Append(s, x)) = Len(s) + 1 /\ Len(s) \in Nat
    OBVIOUS
  <1>2. \A i \in 1 .. Len(s) : Append(s, x)[i] = s[i]
    OBVIOUS
  <1>3. Append(s, x)[Len(s) + 1] = x
    OBVIOUS
  <1>4. DOMAIN s = 1 .. Len(s) /\ DOMAIN Append(s, x) = 1 .. Len(s) + 1
    BY <1>1
  <1>5. ToSet(Append(s, x)) \subseteq ToSet(s) \cup {x}
    BY <1>1, <1>2, <1>3, <1>4 DEF ToSet
  <1>6. ToSet(s) \subseteq ToSet(Append(s, x))
    BY <1>1, <1>2, <1>4 DEF ToSet
  <1>7. x \in ToSet(Append(s, x))
    <2>1. Len(s) + 1 \in DOMAIN Append(s, x)
      BY <1>1, <1>4
    <2>2. QED BY <1>3, <2>1 DEF ToSet
  <1>8. /\ s # <<>> => Append(s, x)[1] = s[1]
        /\ s = <<>> => Append(s, x)[1] = x
        /\ Append(s, x) # <<>>
    OBVIOUS
  <1>9. QED BY <1>1, <1>5, <1>6, <1>7, <1>8

(* A prefix that is not empty has the same first element and no new one.   *)
LEMMA ToSetPrefix ==
    ASSUME NEW S, NEW s \in Seq(S), NEW k \in 1 .. Len(s)
    PROVE  /\ SubSeq(s, 1, k) \in Seq(S) /\ ToSet(SubSeq(s, 1, k)) \subseteq ToSet(s)
           /\ SubSeq(s, 1, k) # <<>> /\ SubSeq(s, 1, k)[1] = s[1]
  <1>1. /\ SubSeq(s, 1, k) \in Seq(S) /\ Len(SubSeq(s, 1, k)) = k /\ k \in Nat /\ k >= 1
        /\ \A i \in 1 .. k : SubSeq(s, 1, k)[i] = s[i]
    OBVIOUS
  <1>2. DOMAIN SubSeq(s, 1, k) = 1 .. k /\ 1 .. k \subseteq DOMAIN s
    BY <1>1
  <1>3. ToSet(SubSeq(s, 1, k)) \subseteq ToSet(s)
    BY <1>1, <1>2 DEF ToSet
  <1>4. QED BY <1>1, <1>3

(* The elements of a sequence are of its type.                             *)
LEMMA ToSetType == ASSUME NEW S, NEW s \in Seq(S) PROVE ToSet(s) \subseteq S
  BY DEF ToSet

(* The calls below the innermost one are a stack that admits nothing.      *)
LEMMA PopKeeps ==
    ASSUME NEW ds, NEW fs, StackOK(fs, ds), fs # <<>>
    PROVE  /\ FrameOK(Head(fs), ds)
           /\ StackOK(Tail(fs), ds)
           /\ \A i \in DOMAIN Tail(fs) : Tail(fs)[i].admit = {}
  <1>1. fs \in Seq(Frame) /\ Len(fs) \in Nat /\ Len(fs) > 0
    BY DEF StackOK
  <1>2. /\ Head(fs) = fs[1] /\ 1 \in DOMAIN fs
        /\ Tail(fs) \in Seq(Frame) /\ DOMAIN Tail(fs) = 1 .. Len(fs) - 1
        /\ \A i \in 1 .. Len(fs) - 1 : Tail(fs)[i] = fs[i + 1] /\ i + 1 \in DOMAIN fs
    BY <1>1
  <1>3. \A i \in DOMAIN Tail(fs) : FrameOK(Tail(fs)[i], ds) /\ Tail(fs)[i].admit = {}
    <2>1. TAKE i \in DOMAIN Tail(fs)
    <2>2. i + 1 \in DOMAIN fs /\ i + 1 > 1 /\ Tail(fs)[i] = fs[i + 1]
      BY <1>1, <1>2
    <2>3. QED BY <2>2 DEF StackOK
  <1>4. QED BY <1>2, <1>3 DEF StackOK

(* A new innermost call on a stack that admits nothing.                    *)
LEMMA PushKeeps ==
    ASSUME NEW ds, NEW fs, StackOK(fs, ds), NEW f, FrameOK(f, ds),
           \A i \in DOMAIN fs : fs[i].admit = {}
    PROVE  /\ StackOK(<<f>> \o fs, ds) /\ <<f>> \o fs # <<>>
           /\ Head(<<f>> \o fs) = f
  <1>1. fs \in Seq(Frame) /\ Len(fs) \in Nat /\ f \in Frame
    BY DEF StackOK, FrameOK
  <1>2. /\ <<f>> \o fs \in Seq(Frame) /\ Len(<<f>> \o fs) = Len(fs) + 1
        /\ (<<f>> \o fs)[1] = f
        /\ \A i \in 1 .. Len(fs) : (<<f>> \o fs)[i + 1] = fs[i]
    BY <1>1
  <1>3. ASSUME NEW i \in DOMAIN (<<f>> \o fs), i > 1
        PROVE  i - 1 \in DOMAIN fs /\ (<<f>> \o fs)[i] = fs[i - 1]
    <2>1. i \in 2 .. Len(fs) + 1
      BY <1>1, <1>2, <1>3
    <2>2. i - 1 \in 1 .. Len(fs) /\ (i - 1) + 1 = i
      BY <1>1, <2>1
    <2>3. QED BY <1>1, <1>2, <2>2
  <1>4. \A i \in DOMAIN (<<f>> \o fs) :
            FrameOK((<<f>> \o fs)[i], ds) /\ (i > 1 => (<<f>> \o fs)[i].admit = {})
    <2>1. TAKE i \in DOMAIN (<<f>> \o fs)
    <2>2. CASE i > 1
      <3>1. i - 1 \in DOMAIN fs /\ (<<f>> \o fs)[i] = fs[i - 1]
        BY <2>2, <1>3
      <3>2. QED BY <3>1 DEF StackOK
    <2>3. CASE ~(i > 1)
      <3>1. i = 1
        BY <1>1, <1>2, <2>3
      <3>2. QED BY <1>2, <2>3, <3>1
    <2>4. QED BY <2>2, <2>3
  <1>5. QED BY <1>1, <1>2, <1>4 DEF StackOK

(* Advance, on what is left of the innermost call: the stack stays in      *)
(* order, and only that call may still have something to admit.            *)
LEMMA AdvanceKeeps ==
    ASSUME NEW ds, StackOK(frames, ds), frames # <<>>, NEW f, FrameOK(f, ds)
    PROVE  /\ StackOK(Advance(f), ds)
           /\ f.admit # {} => Advance(f) # <<>> /\ Head(Advance(f)) = f
           /\ f.admit = {} => \A i \in DOMAIN Advance(f) : Advance(f)[i].admit = {}
  <1>1. /\ StackOK(Tail(frames), ds)
        /\ \A i \in DOMAIN Tail(frames) : Tail(frames)[i].admit = {}
    BY PopKeeps
  <1>2. CASE f.admit = {} /\ f.go = {}
    BY <1>1, <1>2 DEF Advance
  <1>3. CASE ~(f.admit = {} /\ f.go = {})
    <2>1. Advance(f) = <<f>> \o Tail(frames)
      BY <1>3 DEF Advance
    <2>2. /\ StackOK(<<f>> \o Tail(frames), ds) /\ <<f>> \o Tail(frames) # <<>>
          /\ Head(<<f>> \o Tail(frames)) = f
      BY <1>1, PushKeeps
    <2> DEFINE g == <<f>> \o Tail(frames)
    <2>3. g \in Seq(Frame) /\ g # <<>> /\ Head(g) = g[1]
      BY <2>2 DEF StackOK
    <2>4. StackOK(g, ds) /\ Head(g) = f
      BY <2>2
    <2> HIDE DEF g
    <2>5. f.admit = {} => \A i \in DOMAIN g : g[i].admit = {}
      <3>1. \A i \in DOMAIN g : i = 1 \/ i > 1
        BY <2>3
      <3>2. QED BY <2>3, <2>4, <3>1 DEF StackOK
    <2>6. QED BY <2>1, <2>2, <2>5 DEF g
  <1>4. QED BY <1>2, <1>3

(* Enter, on a batch of requirements of package d.                         *)
LEMMA EnterKeeps ==
    ASSUME NEW ds, NEW fs, StackOK(fs, ds), \A i \in DOMAIN fs : fs[i].admit = {},
           NEW d \in ds, d \in Nodes, NEW items, items \subseteq DOMAIN Requires(d),
           Requires(d) \in Seq(Requirement)
    PROVE  /\ StackOK(Enter(d, items, fs), ds)
           /\ items # {} => /\ Enter(d, items, fs) # <<>>
                            /\ Head(Enter(d, items, fs)).node = d
                            /\ Head(Enter(d, items, fs)).admit = items
  <1> DEFINE f == [node |-> d, admit |-> items, go |-> {}]
  <1>1. FrameOK(f, ds)
    <2>1. items \subseteq Nat
      OBVIOUS
    <2>2. QED BY <2>1 DEF FrameOK, Frame
  <1>2. f.node = d /\ f.admit = items
    OBVIOUS
  <1>3. CASE items = {}
    BY <1>3 DEF Enter
  <1>4. CASE items # {}
    <2>1. Enter(d, items, fs) = <<f>> \o fs
      BY <1>4 DEF Enter
    <2> HIDE DEF f
    <2>2. /\ StackOK(<<f>> \o fs, ds) /\ <<f>> \o fs # <<>> /\ Head(<<f>> \o fs) = f
      BY <1>1, PushKeeps
    <2>3. QED BY <1>2, <2>1, <2>2
  <1>5. QED BY <1>3, <1>4

-----------------------------------------------------------------------------
(* Requirements and terms.                                                 *)

(* What the world says that a package requires.                            *)
LEMMA RequiresType ==
    ASSUME world \in Worlds, NEW d \in Declaring
    PROVE  Requires(d) \in Seq(Requirement)
  BY WorldAssumption DEF Declaring, Requires

(* A node of a source is not the root.                                     *)
LEMMA RootApart == \A s \in Sources, v \in Version : <<s, v>> # RootNode /\ <<s, v>> \in Nodes
  BY SourceAssumption DEF RootNode, Nodes

(* A requirement's solver variable is a source.                            *)
LEMMA KeyType ==
    ASSUME bind \in [Names -> Sources \cup {Nothing}], NEW r \in Requirement
    PROVE  Key(r) \in Sources
  BY DEF Key, Requirement

(* edgeset_to_extracted yields terms on sources, and items of its input.   *)
LEMMA TermsType ==
    ASSUME bind \in [Names -> Sources \cup {Nothing}], NEW rs \in Seq(Requirement)
    PROVE  Terms(rs) \subseteq Term /\ Items(rs) \subseteq DOMAIN rs
  <1>1. \A i \in DOMAIN rs : rs[i] \in Requirement
    OBVIOUS
  <1>2. \A i \in DOMAIN rs : Key(rs[i]) \in Sources /\ rs[i].range \subseteq Version
    BY <1>1, KeyType DEF Requirement
  <1>3. QED BY <1>2 DEF Terms, Items, Term

-----------------------------------------------------------------------------
(* IInv is inductive.                                                      *)

(* What the world says does not change.                                    *)
LEMMA WorldFrame ==
    ASSUME UNCHANGED world
    PROVE  /\ StackOK(frames', DOMAIN cand') => FramesOK'
           /\ (error' = "none" /\ NoAlias => Settled(cand', bind', frames')) => SettledOK'
           /\ Declaring' = Declaring
           /\ /\ \A i \in DOMAIN world.root : bind'[world.root[i].name] = world.root[i].source
              /\ \A n \in Names : bind'[n] # Nothing => Claimed(n, bind'[n])
              => BindingsOK'
  <1>1. Declaring' = Declaring
    BY DEF Declaring
  <1>2. StackOK(frames', DOMAIN cand') => FramesOK'
    BY DEF FramesOK, StackOK, FrameOK, Requires
  <1>3. NoAlias' <=> NoAlias
    BY DEF NoAlias, Claimed, Declaring, Requires
  <1>4. Settled(cand', bind', frames') => Settled(cand, bind, frames)'
    BY DEF Settled, Leading, Admitted, RootNames, Requires
  <1>5. (error' = "none" /\ NoAlias => Settled(cand', bind', frames')) => SettledOK'
    BY <1>3, <1>4 DEF SettledOK
  <1>6. /\ \A i \in DOMAIN world.root : bind'[world.root[i].name] = world.root[i].source
        /\ \A n \in Names : bind'[n] # Nothing => Claimed(n, bind'[n])
        => BindingsOK'
    BY DEF BindingsOK, Claimed, Declaring, Requires
  <1>7. QED BY <1>1, <1>2, <1>5, <1>6

(* TypeOK, in the part of the provider and the part of the solver.         *)
ProviderTyped ==
    /\ bind \in [Names -> Sources \cup {Nothing}]
    /\ DOMAIN cand \subseteq Nodes /\ \A d \in DOMAIN cand : cand[d] \subseteq Term
    /\ stubs \subseteq Nodes \ DOMAIN cand
    /\ discovered \in Seq(Sources) /\ seen \subseteq Sources

SolverTyped ==
    /\ ToSet(dec) \subseteq DOMAIN answers /\ DOMAIN answers \subseteq Nodes
    /\ phase \in {"discover", "solve", "done"}
    /\ (phase = "done") = (outcome # Running)

(* ... which together are TypeOK.                                          *)
LEMMA Typed ==
    /\ TypeOK /\ discovered \in Seq(Sources) <=> ProviderTyped /\ SolverTyped
    /\ (TypeOK /\ discovered \in Seq(Sources))' <=> (ProviderTyped /\ SolverTyped)'
  BY ToSetType DEF TypeOK, ProviderTyped, SolverTyped

(* A step of the provider that tells the solver nothing.                   *)
LEMMA SolverWaits ==
    ASSUME IInv, UNCHANGED <<world, phase, dec, answers, error, outcome>>, phase # "done",
           \/ asking' = asking /\ frames # <<>>
           \/ asking # NoCall /\ asking' = [asking EXCEPT !.state = "working"],
           DOMAIN cand \subseteq DOMAIN cand', \A d \in DOMAIN cand : cand'[d] = cand[d]
    PROVE  SolverTyped' /\ PhaseOK' /\ ToldOK' /\ DecisionsOK' /\ AskingOK' /\ world' \in Worlds
  <1>1. TypeOK /\ discovered \in Seq(Sources) /\ PhaseOK /\ ToldOK /\ DecisionsOK /\ AskingOK
    BY DEF IInv
  <1>2. SolverTyped'
    BY <1>1, Typed DEF SolverTyped
  <1>3. /\ asking' # NoCall <=> asking # NoCall
        /\ asking' # NoCall => /\ asking'.node = asking.node /\ asking'.state = "working"
                                /\ asking' \in [node : Nodes, state : {"asked", "working", "failed"}]
    BY <1>1 DEF PhaseOK, NoCall
  <1>4. phase # "discover" => phase = "solve"
    BY <1>1 DEF TypeOK
  <1>5. PhaseOK'
    <2>1. outcome = Running
      BY <1>1 DEF PhaseOK
    <2>2. outcome.kind # "graph"
      BY <2>1 DEF Running
    <2>3. phase = "discover" => asking' = NoCall
      BY <1>1, <1>3 DEF PhaseOK
    <2>4. phase = "solve" => \/ dec = <<>> /\ asking'.node = RootNode /\ asking' # NoCall
                             \/ dec # <<>> /\ dec[1] = RootNode
      BY <1>1, <1>3 DEF PhaseOK
    <2>5. phase = "solve" => (frames' # <<>> => asking' # NoCall)
      BY <1>1, <1>3 DEF PhaseOK
    <2>6. QED BY <1>1, <1>3, <2>1, <2>2, <2>3, <2>4, <2>5 DEF PhaseOK
  <1>6. ToldOK'
    BY <1>1 DEF ToldOK
  <1>7. DecisionsOK'
    BY <1>1 DEF DecisionsOK
  <1>8. AskingOK'
    BY <1>1, <1>3 DEF AskingOK
  <1>9. world' \in Worlds
    BY DEF IInv
  <1>10. QED BY <1>2, <1>5, <1>6, <1>7, <1>8, <1>9

(* A query or the discovery fails: the resolve ends, or the call in        *)
(* progress is given up and the error is captured.                         *)
LEMMA FailSafe ==
    ASSUME IInv, NEW slug, slug # "none", Fail(slug),
           phase = "discover" \/ (phase = "solve" /\ asking # NoCall),
           UNCHANGED <<world, bind, cand, stubs, discovered, dec, answers>>,
           seen \subseteq seen', seen' \subseteq Sources
    PROVE  IInv'
  <1>1. /\ TypeOK /\ discovered \in Seq(Sources) /\ PhaseOK /\ ToldOK /\ DecisionsOK /\ AskingOK
        /\ FramesOK /\ TablesOK /\ BindingsOK /\ world' \in Worlds
    BY DEF IInv
  <1>2. frames' = <<>> /\ error' # "none"
    BY DEF Fail
  <1>3. \/ /\ phase = "discover" /\ phase' = "done" /\ asking' = asking /\ asking = NoCall
           /\ outcome' = [Running EXCEPT !.kind = "error"]
        \/ /\ phase = "solve" /\ phase' = phase /\ asking # NoCall
           /\ asking' = [asking EXCEPT !.state = "failed"] /\ outcome' = outcome
    BY <1>1 DEF Fail, Finish, PhaseOK
  <1>4. outcome'.kind # "graph" /\ (outcome' = Running <=> phase' # "done")
    BY <1>1, <1>3 DEF Running, PhaseOK
  <1>5. ProviderTyped'
    BY <1>1, Typed DEF ProviderTyped
  <1>6. SolverTyped'
    BY <1>1, <1>3, <1>4, Typed DEF SolverTyped
  <1>7. FramesOK'
    <2>1. StackOK(<<>>, DOMAIN cand')
      BY DEF StackOK
    <2>2. QED BY <1>2, <2>1, WorldFrame
  <1>8. TablesOK'
    BY <1>1, WorldFrame DEF TablesOK
  <1>9. phase' = "solve" =>
            /\ asking' # NoCall /\ asking'.node = asking.node /\ asking'.state = "failed"
            /\ asking' \in [node : Nodes, state : {"asked", "working", "failed"}]
    BY <1>1, <1>3 DEF PhaseOK, NoCall
  <1>10. PhaseOK'
    <2>1. CASE phase' = "done"
      BY <1>2, <1>3, <1>4, <2>1 DEF PhaseOK
    <2>2. CASE phase' = "solve"
      <3>1. \/ dec' = <<>> /\ asking'.node = RootNode
            \/ dec' # <<>> /\ dec'[1] = RootNode
        BY <1>1, <1>3, <1>9, <2>2 DEF PhaseOK
      <3>2. QED BY <1>2, <1>4, <1>9, <2>2, <3>1 DEF PhaseOK
    <2>3. QED BY <1>3, <2>1, <2>2
  <1>11. ToldOK' /\ DecisionsOK'
    BY <1>1, <1>2 DEF ToldOK, DecisionsOK
  <1>12. AskingOK'
    BY <1>1, <1>3, <1>9 DEF AskingOK
  <1>13. BindingsOK' /\ SettledOK'
    BY <1>1, <1>2, WorldFrame DEF BindingsOK
  <1>14. QED
    BY <1>1, <1>5, <1>6, <1>7, <1>8, <1>10, <1>11, <1>12, <1>13, Typed DEF IInv

(* What the innermost call works on.                                       *)
LEMMA InnermostCall ==
    ASSUME IInv, frames # <<>>
    PROVE  /\ FrameOK(Head(frames), DOMAIN cand) /\ StackOK(frames, DOMAIN cand)
           /\ Head(frames).node \in Declaring
           /\ Requires(Head(frames).node) \in Seq(Requirement)
           /\ \A i \in Head(frames).admit \cup Head(frames).go :
                /\ i \in DOMAIN Requires(Head(frames).node) /\ i \in Nat
                /\ Requires(Head(frames).node)[i] \in Requirement
           /\ phase # "done" /\ phase \in {"discover", "solve", "done"}
           /\ phase = "solve" => asking # NoCall
  <1>1. /\ StackOK(frames, DOMAIN cand) /\ world \in Worlds /\ TablesOK /\ PhaseOK /\ TypeOK
    BY DEF IInv, FramesOK
  <1>2. FrameOK(Head(frames), DOMAIN cand)
    BY <1>1, PopKeeps
  <1>3. Head(frames).node \in Declaring
    BY <1>1, <1>2 DEF FrameOK, TablesOK
  <1>4. Requires(Head(frames).node) \in Seq(Requirement)
    BY <1>1, <1>3, RequiresType
  <1>5. \A i \in Head(frames).admit \cup Head(frames).go :
            i \in DOMAIN Requires(Head(frames).node) /\ i \in Nat
    BY <1>2 DEF FrameOK, Frame
  <1>6. \A i \in Head(frames).admit \cup Head(frames).go :
            Requires(Head(frames).node)[i] \in Requirement
    BY <1>4, <1>5
  <1>7. /\ phase # "done" /\ phase \in {"discover", "solve", "done"}
        /\ phase = "solve" => asking # NoCall
    BY <1>1 DEF PhaseOK, TypeOK
  <1>8. QED BY <1>1, <1>2, <1>3, <1>4, <1>5, <1>6, <1>7

(* gate_only: the first item on its name is bound as its term says; a name *)
(* that was bound is not bound again, and the other items still pending    *)
(* are on other names.                                                     *)
LEMMA GateSettles ==
    ASSUME IInv, frames # <<>>, NoAlias, error = "none",
           NEW i \in Head(frames).admit, Leads(i, Head(frames).admit),
           NEW r, r = Requires(Head(frames).node)[i], NEW b, NEW fs,
           \/ Submit(r) = "lost" /\ b = bind
           \/ Submit(r) \in {"new", "duplicate"} /\ b = [bind EXCEPT ![r.name] = r.source],
           \A j \in Head(frames).admit : j # i => Pending(fs, Head(frames).node, j)
    PROVE  Settled(cand, b, fs)
  <1>1. /\ bind \in [Names -> Sources \cup {Nothing}] /\ world \in Worlds
        /\ Settled(cand, bind, frames) /\ DOMAIN cand \subseteq Declaring
    BY DEF IInv, TypeOK, SettledOK, TablesOK
  <1>2. r \in Requirement /\ i \in DOMAIN Requires(Head(frames).node)
    BY InnermostCall
  <1>3. r.name \in Names /\ r.source \in Sources /\ r.source # Nothing
    BY <1>2, SourceAssumption DEF Requirement
  <1>4. SUFFICES ASSUME NEW d \in DOMAIN cand, NEW j \in Leading(d)
                 PROVE  /\ HasTerm(cand[d], b, Requires(d)[j])
                        /\ Admitted(b, Requires(d)[j]) \/ Pending(fs, d, j)
    BY DEF Settled
  <1> DEFINE q == Requires(d)[j]
  <1>5. q \in Requirement /\ j \in DOMAIN Requires(d) /\ j \in Nat
    <2>1. Requires(d) \in Seq(Requirement)
      BY <1>1, RequiresType
    <2>2. j \in DOMAIN Requires(d)
      BY DEF Leading
    <2>3. QED BY <2>1, <2>2
  <1>6. q.name \in Names
    BY <1>5 DEF Requirement
  <1>7. HasTerm(cand[d], bind, q) /\ (Admitted(bind, q) \/ Pending(frames, d, j))
    BY <1>1 DEF Settled
  <1>8. ASSUME b[q.name] = bind[q.name]
        PROVE  /\ HasTerm(cand[d], b, q)
               /\ Admitted(bind, q) => Admitted(b, q)
    BY <1>7, <1>8 DEF HasTerm, KeyUnder, Admitted
  <1>9. CASE Admitted(bind, q)
    <2>1. bind[q.name] # Nothing
      BY <1>9 DEF Admitted
    <2>2. b[q.name] = bind[q.name]
      BY <1>1, <1>3, <1>6, <2>1 DEF Submit
    <2>3. QED BY <1>8, <1>9, <2>2
  <1>10. CASE ~Admitted(bind, q) /\ j # i
    <2>1. Head(frames).node = d /\ j \in Head(frames).admit
      BY <1>7, <1>10 DEF Pending
    <2>2. i \in 1 .. j - 1
      <3>1. i <= j /\ i # j /\ i \in Nat /\ i > 0
        BY <1>10, <2>1, InnermostCall DEF Leads
      <3>2. QED BY <1>5, <3>1
    <2>3. r.name # q.name
      BY <2>1, <2>2 DEF Leading
    <2>4. b[q.name] = bind[q.name]
      BY <1>1, <1>3, <1>6, <2>3
    <2>5. QED BY <1>8, <2>1, <2>4, <1>10
  <1>11. CASE ~Admitted(bind, q) /\ j = i
    <2>1. q = r
      BY <1>7, <1>11 DEF Pending
    <2>2. bind[r.name] = Nothing /\ b = [bind EXCEPT ![r.name] = r.source]
      BY <1>11, <2>1 DEF Admitted, Submit
    <2>3. b[r.name] = r.source
      BY <1>1, <1>3, <2>2
    <2>4. KeyUnder(b, r) = r.source /\ KeyUnder(bind, r) = r.source /\ Admitted(b, r)
      BY <1>3, <2>2, <2>3 DEF KeyUnder, Admitted
    <2>5. QED BY <1>7, <2>1, <2>4 DEF HasTerm
  <1>12. QED BY <1>9, <1>10, <1>11

(* GateOnly. *)
LEMMA GateOnlySafe == ASSUME IInv, GateOnly PROVE IInv'
  <1> DEFINE h == Head(frames)
  <1>1. PICK i \in h.admit :
            LET f == [h EXCEPT !.admit = @ \ {i}]
                r == Requires(f.node)[i] IN
            /\ Leads(i, h.admit)
            /\ \/ /\ Submit(r) \in {"new", "duplicate"}
                  /\ bind' = [bind EXCEPT ![r.name] = r.source]
                  /\ Discover(r.source)
                  /\ frames' = Advance([f EXCEPT !.go = @ \cup {i}])
                  /\ UNCHANGED <<phase, asking, error, outcome>>
               \/ /\ Submit(r) = "lost"
                  /\ Discover(bind[r.name])
                  /\ frames' = Advance(f)
                  /\ UNCHANGED <<bind, phase, asking, error, outcome>>
               \/ /\ Submit(r) = "conflict"
                  /\ Fail("RES-BINDING-CONFLICT")
                  /\ UNCHANGED <<bind, discovered>>
    BY DEF GateOnly
  <1>2. frames # <<>> /\ UNCHANGED <<world, cand, stubs, seen, dec, answers>>
    BY DEF GateOnly, search
  <1> DEFINE f == [h EXCEPT !.admit = @ \ {i}]
             g == [f EXCEPT !.go = @ \cup {i}]
             r == Requires(h.node)[i]
  <1>3. /\ FrameOK(h, DOMAIN cand) /\ StackOK(frames, DOMAIN cand) /\ h.node \in Declaring
        /\ i \in DOMAIN Requires(h.node) /\ r \in Requirement /\ i \in Nat
        /\ phase # "done" /\ phase \in {"discover", "solve", "done"}
        /\ phase = "solve" => asking # NoCall
    BY <1>2, InnermostCall
  <1>4. /\ FrameOK(f, DOMAIN cand) /\ f.node = h.node /\ f.admit = h.admit \ {i}
        /\ FrameOK(g, DOMAIN cand) /\ g.node = h.node /\ g.admit = h.admit \ {i}
    BY <1>3 DEF FrameOK, Frame
  <1>5. /\ TypeOK /\ discovered \in Seq(Sources) /\ TablesOK /\ BindingsOK /\ SettledOK
        /\ bind \in [Names -> Sources \cup {Nothing}] /\ seen \subseteq Sources
    BY DEF IInv, TypeOK
  <1>6. r.name \in Names /\ r.source \in Sources
    BY <1>3 DEF Requirement
  <1>7. CASE Submit(r) = "conflict" /\ Fail("RES-BINDING-CONFLICT") /\ UNCHANGED <<bind, discovered>>
    BY <1>2, <1>3, <1>5, <1>7, FailSafe
  <1>8. ASSUME NEW k, k = f \/ k = g, frames' = Advance(k),
               \/ Submit(r) = "lost" /\ bind' = bind
               \/ Submit(r) \in {"new", "duplicate"} /\ bind' = [bind EXCEPT ![r.name] = r.source],
               \E s \in Sources : Discover(s),
               UNCHANGED <<phase, asking, error, outcome>>
        PROVE  IInv'
    <2>1. FrameOK(k, DOMAIN cand) /\ k.node = h.node /\ k.admit = h.admit \ {i}
      BY <1>4, <1>8
    <2>2. SolverTyped' /\ PhaseOK' /\ ToldOK' /\ DecisionsOK' /\ AskingOK' /\ world' \in Worlds
      BY <1>2, <1>3, <1>8, SolverWaits
    <2>3. /\ StackOK(Advance(k), DOMAIN cand)
          /\ k.admit # {} => Advance(k) # <<>> /\ Head(Advance(k)) = k
      BY <1>2, <1>3, <2>1, AdvanceKeeps
    <2>4. FramesOK'
      BY <1>2, <1>8, <2>3, WorldFrame
    <2>5. TablesOK'
      BY <1>2, <1>5, WorldFrame DEF TablesOK
    <2>6. ProviderTyped'
      <3>1. bind' \in [Names -> Sources \cup {Nothing}]
        BY <1>5, <1>6, <1>8
      <3>2. discovered' \in Seq(Sources)
        <4>1. PICK s \in Sources : Discover(s)
          BY <1>8
        <4>2. QED BY <1>5, <4>1, ToSetAppend DEF Discover
      <3>3. QED BY <1>2, <1>5, <3>1, <3>2 DEF ProviderTyped, TypeOK
    <2>7. BindingsOK'
      <3>1. ASSUME NEW n \in Names, bind[n] # Nothing PROVE bind'[n] = bind[n]
        BY <1>5, <1>6, <1>8, <3>1 DEF Submit
      <3>2. \A m \in DOMAIN world.root : bind'[world.root[m].name] = world.root[m].source
        <4>1. TAKE m \in DOMAIN world.root
        <4>2. world.root \in Seq(Requirement)
          BY WorldAssumption DEF IInv
        <4>3. world.root[m] \in Requirement
          BY <4>2
        <4>4. world.root[m].name \in Names /\ world.root[m].source # Nothing
          BY <4>3, SourceAssumption DEF Requirement
        <4>5. bind[world.root[m].name] = world.root[m].source
          BY <1>5 DEF BindingsOK
        <4>6. QED BY <3>1, <4>4, <4>5
      <3>3. Claimed(r.name, r.source)
        BY <1>3 DEF Claimed
      <3>4. \A n \in Names : bind'[n] # Nothing => Claimed(n, bind'[n])
        <4>1. TAKE n \in Names
        <4>2. CASE bind'[n] = bind[n]
          BY <1>5, <4>2 DEF BindingsOK
        <4>3. CASE bind'[n] # bind[n]
          BY <1>5, <1>6, <1>8, <3>3, <4>3
        <4>4. QED BY <4>2, <4>3
      <3>5. QED BY <1>2, <3>2, <3>4, WorldFrame
    <2>8. SettledOK'
      <3>1. ASSUME error = "none", NoAlias PROVE Settled(cand, bind', frames')
        <4>1. \A j \in h.admit : j # i => Pending(frames', h.node, j)
          BY <1>8, <2>1, <2>3 DEF Pending
        <4>2. Leads(i, h.admit)
          BY <1>1
        <4>3. QED BY <1>2, <1>8, <3>1, <4>1, <4>2, GateSettles
      <3>2. QED BY <1>2, <1>8, <3>1, WorldFrame
    <2>9. QED BY <2>2, <2>4, <2>5, <2>6, <2>7, <2>8, Typed DEF IInv
  <1>9. CASE /\ Submit(r) \in {"new", "duplicate"}
             /\ bind' = [bind EXCEPT ![r.name] = r.source]
             /\ Discover(r.source) /\ frames' = Advance(g)
             /\ UNCHANGED <<phase, asking, error, outcome>>
    BY <1>6, <1>8, <1>9
  <1>10. CASE /\ Submit(r) = "lost" /\ Discover(bind[r.name]) /\ frames' = Advance(f)
              /\ UNCHANGED <<bind, phase, asking, error, outcome>>
    <2>1. bind[r.name] \in Sources
      BY <1>5, <1>6, <1>10 DEF Submit
    <2>2. QED BY <1>8, <1>10, <2>1
  <1>11. QED BY <1>1, <1>4, <1>7, <1>9, <1>10

(* A package that becomes a candidate has a term and an item for the first *)
(* requirement on each name, if nothing is required under two names.       *)
LEMMA NewTermsSettle ==
    ASSUME IInv, NoAlias, NEW d \in Declaring, NEW i \in Leading(d)
    PROVE  /\ HasTerm(Terms(Requires(d)), bind, Requires(d)[i])
           /\ i \in Items(Requires(d))
  <1> DEFINE rs == Requires(d)
  <1>1. rs \in Seq(Requirement) /\ bind \in [Names -> Sources \cup {Nothing}]
    BY RequiresType DEF IInv, TypeOK
  <1>2. i \in DOMAIN rs /\ i \in 1 .. Len(rs) /\ \A j \in 1 .. i - 1 : rs[j].name # rs[i].name
    BY <1>1 DEF Leading
  <1>3. ASSUME NEW j \in DOMAIN rs
        PROVE  rs[j].name \in Names /\ Key(rs[j]) \in Sources /\ Claimed(rs[j].name, Key(rs[j]))
    <2>1. rs[j] \in Requirement
      BY <1>1
    <2>2. rs[j].name \in Names /\ Key(rs[j]) \in Sources
      BY <1>1, <2>1, KeyType DEF Requirement
    <2>3. Claimed(rs[j].name, rs[j].source)
      BY DEF Claimed
    <2>4. bind[rs[j].name] # Nothing => Claimed(rs[j].name, bind[rs[j].name])
      BY <2>2 DEF IInv, BindingsOK
    <2>5. QED BY <2>2, <2>3, <2>4 DEF Key
  <1>4. First(rs, i)
    <2>1. SUFFICES ASSUME NEW j \in 1 .. i - 1 PROVE Key(rs[j]) # Key(rs[i])
      BY DEF First
    <2>2. j \in DOMAIN rs
      BY <1>1, <1>2
    <2>3. QED BY <1>2, <1>3, <2>2 DEF NoAlias
  <1>5. i \in Items(rs)
    BY <1>2, <1>4 DEF Items
  <1>6. [to |-> Key(rs[i]), range |-> rs[i].range] \in Terms(rs)
    BY <1>2, <1>4 DEF Terms
  <1>7. HasTerm(Terms(rs), bind, rs[i])
    BY <1>6 DEF HasTerm, KeyUnder, Key
  <1>8. QED BY <1>5, <1>7

(* A package is fetched while no call admits anything: its requirements    *)
(* are the next to be admitted.                                            *)
LEMMA FetchSafe ==
    ASSUME IInv, NEW d \in Declaring, d \in Nodes, d \notin DOMAIN cand, d \notin stubs',
           NEW fs, StackOK(fs, DOMAIN cand), \A i \in DOMAIN fs : fs[i].admit = {},
           frames # <<>> => Head(frames).admit = {},
           cand' = Store(cand, d, Terms(Requires(d))),
           frames' = Enter(d, Items(Requires(d)), fs),
           UNCHANGED <<world, bind, discovered, phase, dec, answers, error, outcome>>,
           phase # "done",
           \/ asking' = asking /\ frames # <<>>
           \/ asking # NoCall /\ asking' = [asking EXCEPT !.state = "working"],
           stubs' \subseteq stubs, seen \subseteq seen', seen' \subseteq Sources, d[1] \in seen'
    PROVE  IInv'
  <1>1. /\ TypeOK /\ discovered \in Seq(Sources) /\ TablesOK /\ BindingsOK /\ SettledOK
        /\ bind \in [Names -> Sources \cup {Nothing}] /\ world \in Worlds
    BY DEF IInv, TypeOK
  <1>2. Requires(d) \in Seq(Requirement)
    BY <1>1, RequiresType
  <1>3. Terms(Requires(d)) \subseteq Term /\ Items(Requires(d)) \subseteq DOMAIN Requires(d)
    BY <1>1, <1>2, TermsType
  <1>4. /\ DOMAIN cand' = DOMAIN cand \cup {d} /\ cand'[d] = Terms(Requires(d))
        /\ \A e \in DOMAIN cand : cand'[e] = cand[e]
    <2> DEFINE ts == Terms(Requires(d))
    <2>1. cand' = Store(cand, d, ts)
      OBVIOUS
    <2> HIDE DEF ts
    <2>2. DOMAIN cand' = DOMAIN cand \cup {d} /\ cand'[d] = ts
      BY <2>1 DEF Store
    <2>3. \A e \in DOMAIN cand : cand'[e] = cand[e]
      BY <2>1 DEF Store
    <2>4. QED BY <2>2, <2>3 DEF ts
  <1>5. SolverTyped' /\ PhaseOK' /\ ToldOK' /\ DecisionsOK' /\ AskingOK' /\ world' \in Worlds
    BY <1>4, SolverWaits
  <1>6. ProviderTyped'
    BY <1>1, <1>3, <1>4 DEF ProviderTyped, TypeOK
  <1>7. /\ StackOK(frames', DOMAIN cand')
        /\ Items(Requires(d)) # {} => /\ frames' # <<>> /\ Head(frames').node = d
                                      /\ Head(frames').admit = Items(Requires(d))
    <2>1. StackOK(fs, DOMAIN cand')
      BY <1>4 DEF StackOK, FrameOK
    <2>2. QED BY <1>2, <1>3, <1>4, <2>1, EnterKeeps
  <1>8. FramesOK'
    BY <1>7, WorldFrame
  <1>9. TablesOK'
    <2>1. Declaring' = Declaring
      BY WorldFrame
    <2>2. QED BY <1>1, <1>4, <2>1 DEF TablesOK
  <1>10. BindingsOK'
    BY <1>1, WorldFrame DEF BindingsOK
  <1>11. ASSUME error' = "none", NoAlias PROVE Settled(cand', bind', frames')
    <2>1. SUFFICES ASSUME NEW e \in DOMAIN cand', NEW i \in Leading(e)
                   PROVE  /\ HasTerm(cand'[e], bind, Requires(e)[i])
                          /\ Admitted(bind, Requires(e)[i]) \/ Pending(frames', e, i)
      BY DEF Settled
    <2>2. CASE e = d
      <3>1. HasTerm(Terms(Requires(d)), bind, Requires(d)[i]) /\ i \in Items(Requires(d))
        BY <1>11, <2>2, NewTermsSettle
      <3>2. QED BY <1>4, <1>7, <2>2, <3>1 DEF Pending
    <2>3. CASE e # d
      <3>1. e \in DOMAIN cand /\ cand'[e] = cand[e]
        BY <1>4, <2>3
      <3>2. /\ HasTerm(cand[e], bind, Requires(e)[i])
            /\ Admitted(bind, Requires(e)[i]) \/ Pending(frames, e, i)
        BY <1>1, <1>11, <3>1 DEF SettledOK, Settled
      <3>3. ~Pending(frames, e, i)
        BY DEF Pending
      <3>4. QED BY <3>1, <3>2, <3>3
    <2>4. QED BY <2>2, <2>3
  <1>12. SettledOK'
    BY <1>11, WorldFrame
  <1>13. QED BY <1>5, <1>6, <1>8, <1>9, <1>10, <1>12, Typed DEF IInv

(* A step that fetches nothing, while no call admits anything.             *)
LEMMA PassSafe ==
    ASSUME IInv, frames # <<>>, Head(frames).admit = {}, phase # "done",
           StackOK(frames', DOMAIN cand),
           UNCHANGED <<world, bind, cand, discovered, phase, asking, dec, answers, error, outcome>>,
           seen \subseteq seen', seen' \subseteq Sources,
           stubs' \subseteq (Nodes \cap Declaring) \ DOMAIN cand,
           \A d \in stubs' : d \in stubs \/ d[1] \in seen'
    PROVE  IInv'
  <1>1. /\ TypeOK /\ discovered \in Seq(Sources) /\ TablesOK /\ BindingsOK /\ SettledOK
    BY DEF IInv, TypeOK
  <1>2. SolverTyped' /\ PhaseOK' /\ ToldOK' /\ DecisionsOK' /\ AskingOK' /\ world' \in Worlds
    BY SolverWaits
  <1>3. ProviderTyped'
    BY <1>1 DEF ProviderTyped, TypeOK
  <1>4. FramesOK'
    BY WorldFrame
  <1>5. TablesOK'
    <2>1. Declaring' = Declaring
      BY WorldFrame
    <2>2. QED BY <1>1, <2>1 DEF TablesOK
  <1>6. BindingsOK'
    BY <1>1, WorldFrame DEF BindingsOK
  <1>7. ASSUME error' = "none", NoAlias PROVE Settled(cand', bind', frames')
    BY <1>1, <1>7 DEF SettledOK, Settled, Pending
  <1>8. SettledOK'
    BY <1>7, WorldFrame
  <1>9. QED BY <1>2, <1>3, <1>4, <1>5, <1>6, <1>8, Typed DEF IInv

(* Dispatch: a source that is not seen has neither a candidate nor a stub. *)
LEMMA DispatchSafe == ASSUME IInv, Dispatch PROVE IInv'
  <1> DEFINE h == Head(frames)
  <1>1. PICK i \in h.go :
            LET f == [h EXCEPT !.go = @ \ {i}]
                s == Requires(f.node)[i].source IN
            \/ /\ Seen(s) /\ frames' = Advance(f)
               /\ UNCHANGED <<cand, stubs, seen, phase, asking, error, outcome>>
            \/ /\ ~Seen(s)
               /\ seen' = seen \cup {s}
               /\ ProcessNamed(s, Advance(f)) \/ ProcessUrl(s, Advance(f)) \/ ProcessFails
    BY DEF Dispatch
  <1>2. frames # <<>> /\ h.admit = {} /\ UNCHANGED <<world, bind, discovered, dec, answers>>
    BY DEF Dispatch, search
  <1> DEFINE f == [h EXCEPT !.go = @ \ {i}]
             s == Requires(h.node)[i].source
  <1>3. /\ FrameOK(h, DOMAIN cand) /\ StackOK(frames, DOMAIN cand)
        /\ Requires(h.node)[i] \in Requirement
        /\ phase # "done" /\ phase \in {"discover", "solve", "done"}
        /\ phase = "solve" => asking # NoCall
    BY <1>2, InnermostCall
  <1>4. FrameOK(f, DOMAIN cand) /\ f.node = h.node /\ f.admit = {}
    BY <1>2, <1>3 DEF FrameOK, Frame
  <1>5. /\ StackOK(Advance(f), DOMAIN cand)
        /\ \A k \in DOMAIN Advance(f) : Advance(f)[k].admit = {}
    BY <1>2, <1>3, <1>4, AdvanceKeeps
  <1>6. s \in Sources
    BY <1>3 DEF Requirement
  <1>7. /\ TypeOK /\ TablesOK /\ world \in Worlds /\ seen \subseteq Sources
        /\ stubs \subseteq (Nodes \cap Declaring) \ DOMAIN cand
    BY DEF IInv, TypeOK, TablesOK
  <1>8. CASE /\ Seen(s) /\ frames' = Advance(f)
             /\ UNCHANGED <<cand, stubs, seen, phase, asking, error, outcome>>
    <2> HIDE DEF f
    <2> QED BY <1>2, <1>3, <1>5, <1>7, <1>8, PassSafe
  <1>9. ASSUME ~Seen(s) PROVE \A v \in Version : <<s, v>> \notin DOMAIN cand \cup stubs
    <2>1. \A v \in Version : <<s, v>> # RootNode /\ <<s, v>>[1] = s
      BY <1>6, RootApart
    <2>2. QED BY <1>7, <1>9, <2>1 DEF TablesOK, Seen
  <1>10. CASE ~Seen(s) /\ seen' = seen \cup {s} /\ ProcessNamed(s, Advance(f))
    <2>1. /\ s \in Registry /\ stubs' = stubs \cup {<<s, v>> : v \in Published[s]}
          /\ frames' = Advance(f) /\ UNCHANGED <<cand, phase, asking, error, outcome>>
      BY <1>10 DEF ProcessNamed
    <2>2. Published[s] \subseteq Version
      BY <2>1, SourceAssumption
    <2>3. \A v \in Published[s] : <<s, v>> \in Nodes /\ <<s, v>> \notin DOMAIN cand
      BY <1>6, <1>9, <1>10, <2>2, RootApart
    <2>4. \A v \in Published[s] : <<s, v>> \in Declaring
      BY <1>7, <2>1, WorldAssumption DEF Declaring
    <2>5. \A v \in Published[s] : <<s, v>>[1] \in seen'
      BY <1>10
    <2>6. /\ stubs' \subseteq (Nodes \cap Declaring) \ DOMAIN cand
          /\ \A d \in stubs' : d \in stubs \/ d[1] \in seen'
      BY <1>7, <2>1, <2>3, <2>4, <2>5
    <2>7. seen \subseteq seen' /\ seen' \subseteq Sources
      BY <1>6, <1>7, <1>10
    <2> HIDE DEF f, s
    <2>8. QED BY <1>2, <1>3, <1>5, <2>1, <2>6, <2>7, PassSafe
  <1>11. CASE ~Seen(s) /\ seen' = seen \cup {s} /\ ProcessUrl(s, Advance(f))
    <2> DEFINE d == <<s, Label(s)>>
    <2>1. /\ s \in Urls /\ cand' = Store(cand, d, Terms(Requires(d)))
          /\ frames' = Enter(d, Items(Requires(d)), Advance(f))
          /\ UNCHANGED <<stubs, phase, asking, error, outcome>>
      BY <1>11 DEF ProcessUrl
    <2>2. Label(s) \in Version
      BY SourceAssumption DEF Label
    <2>3. d \in Nodes /\ d \notin DOMAIN cand /\ d \notin stubs
      BY <1>6, <1>9, <1>11, <2>2, RootApart
    <2>4. d \in Declaring
      BY <1>7, <2>1, WorldAssumption DEF Declaring, Label
    <2>5. d[1] \in seen' /\ seen \subseteq seen' /\ seen' \subseteq Sources
      BY <1>6, <1>7, <1>11
    <2> HIDE DEF f, d, s
    <2>6. QED BY <1>2, <1>3, <1>5, <2>1, <2>3, <2>4, <2>5, FetchSafe
  <1>12. CASE ~Seen(s) /\ seen' = seen \cup {s} /\ ProcessFails
    <2>1. seen \subseteq seen' /\ seen' \subseteq Sources
      BY <1>6, <1>7, <1>12
    <2>2. Fail("FETCH-FAILED") /\ UNCHANGED <<cand, stubs>>
      BY <1>12 DEF ProcessFails
    <2>3. QED BY <1>2, <1>3, <2>1, <2>2, FailSafe
  <1>13. QED BY <1>1, <1>4, <1>8, <1>10, <1>11, <1>12

(* MaterializeNamed. *)
LEMMA MaterializeNamedSafe == ASSUME IInv, MaterializeNamed PROVE IInv'
  <1> DEFINE d == asking.node
  <1>1. /\ asking.state = "asked" /\ d \in stubs
        /\ UNCHANGED <<world, bind, discovered, seen, dec, answers>>
    BY DEF MaterializeNamed, search
  <1>2. asking # NoCall
    BY <1>1 DEF NoCall
  <1>3. TypeOK /\ TablesOK /\ PhaseOK /\ FramesOK
    BY DEF IInv
  <1>4. phase = "solve" /\ frames = <<>>
    BY <1>1, <1>2, <1>3 DEF PhaseOK, TypeOK
  <1>5. d \in Nodes /\ d \notin DOMAIN cand /\ d \in Declaring /\ seen \subseteq Sources
    BY <1>1, <1>3 DEF TypeOK, TablesOK
  <1>6. d[1] \in seen
    BY <1>1, <1>3, <1>5 DEF TablesOK
  <1>7. CASE Fail("FETCH-FAILED") /\ UNCHANGED <<cand, stubs>>
    BY <1>1, <1>2, <1>4, <1>5, <1>7, FailSafe
  <1>8. CASE /\ cand' = Store(cand, d, Terms(Requires(d)))
             /\ stubs' = stubs \ {d}
             /\ frames' = Enter(d, Items(Requires(d)), <<>>)
             /\ asking' = [asking EXCEPT !.state = "working"]
             /\ UNCHANGED <<phase, error, outcome>>
    <2>1. StackOK(<<>>, DOMAIN cand) /\ \A i \in DOMAIN <<>> : <<>>[i].admit = {}
      BY DEF StackOK
    <2>2. stubs' \subseteq stubs /\ d \notin stubs'
      BY <1>8
    <2> HIDE DEF d
    <2>3. QED BY <1>1, <1>2, <1>4, <1>5, <1>6, <1>8, <2>1, <2>2, FetchSafe
  <1>9. QED BY <1>7, <1>8 DEF MaterializeNamed

(* A step of the solver leaves the provider alone.                         *)
LEMMA ProviderWaits ==
    ASSUME IInv, UNCHANGED <<world, provider, error>>
    PROVE  /\ ProviderTyped' /\ FramesOK' /\ TablesOK' /\ BindingsOK' /\ SettledOK'
           /\ world' \in Worlds /\ UNCHANGED <<cand, frames>>
  <1>1. UNCHANGED <<bind, cand, stubs, discovered, seen, frames>>
    BY DEF provider
  <1>2. /\ TypeOK /\ discovered \in Seq(Sources) /\ FramesOK /\ TablesOK /\ BindingsOK /\ SettledOK
        /\ world' \in Worlds
    BY DEF IInv
  <1>3. ProviderTyped'
    BY <1>1, <1>2 DEF ProviderTyped, TypeOK
  <1>4. FramesOK'
    BY <1>1, <1>2, WorldFrame DEF FramesOK
  <1>5. TablesOK' /\ BindingsOK' /\ SettledOK'
    BY <1>1, <1>2, WorldFrame DEF TablesOK, BindingsOK, SettledOK
  <1>6. QED BY <1>1, <1>2, <1>3, <1>4, <1>5

(* The solver decides between queries, the root first.                     *)
LEMMA BetweenQueries ==
    ASSUME IInv, Solving
    PROVE  /\ asking = NoCall /\ frames = <<>> /\ phase = "solve" /\ outcome = Running
           /\ dec \in Seq(Nodes) /\ dec # <<>> /\ dec[1] = RootNode
           /\ ToSet(dec) \subseteq DOMAIN answers /\ DOMAIN answers \subseteq Nodes
           /\ PhaseOK /\ ToldOK /\ DecisionsOK
  BY DEF IInv, Solving, PhaseOK, DecisionsOK, TypeOK

(* One more decision that agrees with the others.                          *)
LEMMA DecideKeeps ==
    ASSUME dec \in Seq(Nodes), NEW d \in Nodes, dec' = Append(dec, d),
           \A e \in ToSet(dec) : answers'[e] = answers[e],
           DecisionsOK,
           \A e \in ToSet(dec) :
              /\ e[1] # d[1]
              /\ \A m \in answers[e] : m.to = d[1] => d[2] \in m.range,
           \A m \in answers'[d] : \A e \in ToSet(dec) \cup {d} : e[1] = m.to => e[2] \in m.range
    PROVE  /\ DecisionsOK' /\ ToSet(dec') = ToSet(dec) \cup {d} /\ dec' # <<>>
           /\ dec # <<>> => dec'[1] = dec[1]
           /\ dec = <<>> => dec'[1] = d
  <1>1. /\ dec' \in Seq(Nodes) /\ ToSet(dec') = ToSet(dec) \cup {d} /\ dec' # <<>>
        /\ dec # <<>> => dec'[1] = dec[1]
        /\ dec = <<>> => dec'[1] = d
    BY ToSetAppend
  <1>2. \A x, e \in ToSet(dec) \cup {d} : x[1] = e[1] => x = e
    BY DEF DecisionsOK
  <1>3. ASSUME NEW x \in ToSet(dec), NEW e \in ToSet(dec) \cup {d}, NEW m \in answers'[x],
               m.to = e[1]
        PROVE  e[2] \in m.range
    BY <1>3 DEF DecisionsOK
  <1>4. DecisionsOK'
    BY <1>1, <1>2, <1>3 DEF DecisionsOK
  <1>5. QED BY <1>1, <1>4

(* The resolve ends with something other than a graph.                     *)
LEMMA FinishSafe ==
    ASSUME IInv, NEW o, o # Running, o.kind # "graph", Finish(o), Solving,
           UNCHANGED <<world, provider, error, asking, dec, answers>>
    PROVE  IInv'
  <1>1. /\ asking = NoCall /\ frames = <<>> /\ dec \in Seq(Nodes)
        /\ TypeOK /\ ToldOK /\ DecisionsOK /\ AskingOK
    BY BetweenQueries DEF IInv
  <1>2. /\ ProviderTyped' /\ FramesOK' /\ TablesOK' /\ BindingsOK' /\ SettledOK'
        /\ world' \in Worlds /\ UNCHANGED <<cand, frames>>
    BY ProviderWaits
  <1>3. outcome' = o /\ phase' = "done"
    BY DEF Finish
  <1>4. SolverTyped'
    BY <1>1, <1>3 DEF SolverTyped, TypeOK
  <1>5. PhaseOK'
    BY <1>1, <1>2, <1>3 DEF PhaseOK
  <1>6. ToldOK' /\ DecisionsOK' /\ AskingOK'
    BY <1>1, <1>2 DEF ToldOK, DecisionsOK, AskingOK
  <1>7. QED BY <1>2, <1>4, <1>5, <1>6, Typed DEF IInv

(* StartSolve. *)
LEMMA StartSolveSafe == ASSUME IInv, StartSolve PROVE IInv'
  <1>1. /\ phase = "discover" /\ frames = <<>> /\ phase' = "solve"
        /\ asking' = [node |-> RootNode, state |-> "asked"]
        /\ UNCHANGED <<world, provider, error, dec, answers, outcome>>
    BY DEF StartSolve, search
  <1>2. /\ dec = <<>> /\ answers = <<>> /\ error = "none" /\ outcome = Running
        /\ TypeOK /\ ToldOK /\ DecisionsOK
    BY <1>1 DEF IInv, PhaseOK
  <1>3. /\ ProviderTyped' /\ FramesOK' /\ TablesOK' /\ BindingsOK' /\ SettledOK'
        /\ world' \in Worlds /\ UNCHANGED <<cand, frames>>
    BY <1>1, ProviderWaits
  <1>4. SolverTyped'
    BY <1>1, <1>2 DEF SolverTyped, TypeOK
  <1>5. /\ asking' # NoCall /\ asking'.node = RootNode /\ RootNode \in Nodes
        /\ asking' \in [node : Nodes, state : {"asked", "working", "failed"}]
        /\ asking'.state = "asked"
    BY <1>1 DEF NoCall, Nodes
  <1>6. PhaseOK'
    <2>1. outcome'.kind # "graph"
      BY <1>1, <1>2 DEF Running
    <2>2. QED BY <1>1, <1>2, <1>3, <1>5, <2>1 DEF PhaseOK
  <1>7. ToldOK' /\ DecisionsOK'
    BY <1>1, <1>2, <1>3 DEF ToldOK, DecisionsOK
  <1>8. AskingOK'
    <2>1. ToSet(dec') = {} /\ DOMAIN answers' = {}
      BY <1>1, <1>2 DEF ToSet
    <2>2. QED BY <2>1 DEF AskingOK
  <1>9. QED BY <1>3, <1>4, <1>6, <1>7, <1>8, Typed DEF IInv

(* ChooseVersion: the version is within the range the decisions leave, and *)
(* what is already known of it does not contradict them.                   *)
LEMMA ChooseVersionSafe == ASSUME IInv, ChooseVersion PROVE IInv'
  <1> DEFINE D == ToSet(dec)
  <1>1. Solving /\ UNCHANGED <<world, provider, error>>
    BY DEF ChooseVersion
  <1>2. /\ asking = NoCall /\ frames = <<>> /\ phase = "solve" /\ outcome = Running
        /\ dec \in Seq(Nodes) /\ dec # <<>> /\ dec[1] = RootNode
        /\ D \subseteq DOMAIN answers /\ DOMAIN answers \subseteq Nodes
        /\ PhaseOK /\ ToldOK /\ DecisionsOK
    BY <1>1, BetweenQueries
  <1>3. /\ ProviderTyped' /\ FramesOK' /\ TablesOK' /\ BindingsOK' /\ SettledOK'
        /\ world' \in Worlds /\ UNCHANGED <<cand, frames>>
    BY <1>1, ProviderWaits
  <1>4. PICK t \in Prioritize(Open(D)) :
            LET range == Allowed(D, t) IN
            \/ /\ Finish([kind |-> "unknown", graph |-> D,
                          names |-> {c.consumer : c \in {x \in constrainers : x.target = t}}])
               /\ UNCHANGED <<asking, search>>
            \/ /\ \E v \in Versions(t) \cap range :
                    IF <<t, v>> \in DOMAIN answers
                    THEN dec' = Append(dec, <<t, v>>) /\ UNCHANGED asking
                    ELSE asking' = [node |-> <<t, v>>, state |-> "asked"] /\ UNCHANGED dec
               /\ UNCHANGED <<answers, phase, outcome>>
    BY DEF ChooseVersion
  <1>5. t \in Sources /\ \A d \in D : d[1] # t
    BY DEF Prioritize, Open
  <1>6. CASE /\ Finish([kind |-> "unknown", graph |-> D,
                        names |-> {c.consumer : c \in {x \in constrainers : x.target = t}}])
             /\ UNCHANGED <<asking, search>>
    <2> DEFINE o == [kind |-> "unknown", graph |-> D,
                     names |-> {c.consumer : c \in {x \in constrainers : x.target = t}}]
    <2>1. o.kind = "unknown" /\ Running.kind = "none"
      BY DEF Running
    <2>2. o # Running /\ o.kind # "graph" /\ Finish(o) /\ UNCHANGED <<asking, dec, answers>>
      BY <1>6, <2>1 DEF search
    <2> HIDE DEF o
    <2>3. QED BY <1>1, <2>2, FinishSafe
  <1>7. ASSUME NEW v \in Versions(t) \cap Allowed(D, t), UNCHANGED <<answers, phase, outcome>>,
               IF <<t, v>> \in DOMAIN answers
               THEN dec' = Append(dec, <<t, v>>) /\ UNCHANGED asking
               ELSE asking' = [node |-> <<t, v>>, state |-> "asked"] /\ UNCHANGED dec
        PROVE  IInv'
    <2> DEFINE x == <<t, v>>
    <2>1. v \in Version /\ v \in Range0(D, t)
      BY DEF Allowed, Range0
    <2>2. x \in Nodes /\ x[1] = t /\ x[2] = v
      BY <1>5, <2>1, RootApart
    <2>3. \A d \in D : d[1] # x[1] /\ \A m \in answers[d] : m.to = x[1] => x[2] \in m.range
      BY <1>5, <2>1, <2>2 DEF Range0
    <2>4. outcome'.kind # "graph"
      BY <1>2, <1>7 DEF Running
    <2>5. ToldOK'
      BY <1>1, <1>2, <1>3, <1>7 DEF ToldOK
    <2>6. CASE x \in DOMAIN answers
      <3>1. dec' = Append(dec, x) /\ asking' = NoCall
        BY <1>2, <1>7, <2>6
      <3>2. ~Clashes(D, x, answers[x])
        BY <2>6 DEF Allowed
      <3>3. \A m \in answers'[x] : \A e \in D \cup {x} : e[1] = m.to => e[2] \in m.range
        BY <1>7, <3>2 DEF Clashes
      <3> HIDE DEF x
      <3>4. /\ DecisionsOK' /\ ToSet(dec') = D \cup {x} /\ dec' # <<>>
            /\ dec'[1] = RootNode
        BY <1>2, <1>7, <2>2, <2>3, <3>1, <3>3, DecideKeeps
      <3>5. SolverTyped'
        BY <1>2, <1>7, <2>6, <3>4 DEF SolverTyped
      <3>6. PhaseOK'
        BY <1>2, <1>3, <1>7, <2>4, <3>1, <3>4 DEF PhaseOK
      <3>7. AskingOK'
        BY <3>1 DEF AskingOK, NoCall
      <3>8. QED BY <1>3, <2>5, <3>4, <3>5, <3>6, <3>7, Typed DEF IInv
    <2>7. CASE x \notin DOMAIN answers
      <3>1. asking' = [node |-> x, state |-> "asked"] /\ dec' = dec
        BY <1>7, <2>7
      <3>2. /\ asking' # NoCall /\ asking'.node = x /\ asking'.state = "asked"
            /\ asking' \in [node : Nodes, state : {"asked", "working", "failed"}]
        BY <2>2, <3>1 DEF NoCall
      <3> HIDE DEF x
      <3>3. SolverTyped' /\ DecisionsOK'
        BY <1>2, <1>7, <3>1 DEF SolverTyped, DecisionsOK
      <3>4. PhaseOK'
        BY <1>2, <1>3, <1>7, <2>4, <3>1, <3>2 DEF PhaseOK
      <3>5. AskingOK'
        BY <1>7, <2>3, <2>7, <3>1, <3>2 DEF AskingOK
      <3>6. QED BY <1>3, <2>5, <3>3, <3>4, <3>5, Typed DEF IInv
    <2>8. QED BY <2>6, <2>7
  <1>8. QED BY <1>4, <1>6, <1>7

(* GetDependencies: the solver is told what the provider has, or nothing   *)
(* once an error is captured.                                              *)
LEMMA GetDependenciesSafe == ASSUME IInv, GetDependencies PROVE IInv'
  <1> DEFINE d == asking.node
             told == IF asking.state = "failed" THEN {} ELSE cand[d]
             D == ToSet(dec)
  <1>1. /\ frames = <<>>
        /\ \/ asking.state \in {"asked", "working"} /\ d \in DOMAIN cand
           \/ asking.state = "failed"
        /\ answers' = Store(answers, d, told)
        /\ dec' = IF d # RootNode /\ Clashes(D, d, told) THEN dec ELSE Append(dec, d)
        /\ asking' = NoCall
        /\ UNCHANGED <<world, provider, phase, error, outcome>>
    BY DEF GetDependencies
  <1>2. asking # NoCall
    BY <1>1 DEF NoCall
  <1>3. /\ TypeOK /\ PhaseOK /\ ToldOK /\ DecisionsOK /\ AskingOK /\ dec \in Seq(Nodes)
        /\ D \subseteq DOMAIN answers /\ DOMAIN answers \subseteq Nodes
    BY DEF IInv, TypeOK, DecisionsOK
  <1>4. /\ ProviderTyped' /\ FramesOK' /\ TablesOK' /\ BindingsOK' /\ SettledOK'
        /\ world' \in Worlds /\ UNCHANGED <<cand, frames>>
    BY <1>1, ProviderWaits
  <1>5. phase = "solve" /\ outcome = Running /\ outcome.kind # "graph"
    BY <1>2, <1>3 DEF PhaseOK, TypeOK, Running
  <1>6. d \in Nodes /\ d \notin DOMAIN answers /\ (asking.state = "failed" => error # "none")
    BY <1>2, <1>3 DEF PhaseOK, AskingOK
  <1>7. told \subseteq Term /\ (error = "none" => d \in DOMAIN cand /\ told = cand[d])
    BY <1>1, <1>3, <1>6 DEF TypeOK
  <1>8. \A e \in D : e[1] # d[1] /\ \A m \in answers[e] : m.to = d[1] => d[2] \in m.range
    BY <1>2, <1>3 DEF AskingOK
  <1> HIDE DEF told
  <1>9. /\ DOMAIN answers' = DOMAIN answers \cup {d} /\ answers'[d] = told
        /\ \A e \in DOMAIN answers : answers'[e] = answers[e]
    BY <1>1, <1>6 DEF Store
  <1>10. ToldOK'
    BY <1>1, <1>3, <1>4, <1>7, <1>9 DEF ToldOK
  <1>11. d = RootNode <=> dec = <<>>
    <2>1. dec = <<>> \/ (dec # <<>> /\ dec[1] = RootNode)
      BY <1>3, <1>5 DEF PhaseOK
    <2>2. dec = <<>> => d = RootNode
      BY <1>3, <1>5 DEF PhaseOK
    <2>3. dec # <<>> => dec[1] \in D
      BY <1>3 DEF ToSet
    <2>4. QED BY <1>8, <2>1, <2>2, <2>3
  <1>12. CASE d # RootNode /\ Clashes(D, d, told)
    <2>1. dec' = dec /\ dec # <<>> /\ dec[1] = RootNode
      BY <1>1, <1>3, <1>5, <1>11, <1>12 DEF PhaseOK
    <2>2. SolverTyped'
      BY <1>1, <1>3, <1>6, <1>9, <2>1 DEF SolverTyped, TypeOK
    <2>3. DecisionsOK'
      BY <1>3, <1>9, <2>1 DEF DecisionsOK
    <2>4. PhaseOK'
      BY <1>1, <1>4, <1>5, <2>1 DEF PhaseOK
    <2>5. AskingOK'
      BY <1>1 DEF AskingOK, NoCall
    <2>6. QED BY <1>4, <1>10, <2>2, <2>3, <2>4, <2>5, Typed DEF IInv
  <1>13. CASE d = RootNode \/ ~Clashes(D, d, told)
    <2>1. dec' = Append(dec, d)
      BY <1>1, <1>13
    <2>2. \A m \in told : \A e \in D \cup {d} : e[1] = m.to => e[2] \in m.range
      <3>1. CASE d = RootNode
        <4>1. D = {}
          BY <1>11, <3>1 DEF ToSet
        <4>2. \A m \in told : m.to # d[1]
          BY <1>7, <3>1, SourceAssumption DEF Term, RootNode
        <4>3. QED BY <4>1, <4>2
      <3>2. CASE ~Clashes(D, d, told)
        BY <3>2 DEF Clashes
      <3>3. QED BY <1>13, <3>1, <3>2
    <2> HIDE DEF d
    <2>3. /\ DecisionsOK' /\ ToSet(dec') = D \cup {d} /\ dec' # <<>>
          /\ dec # <<>> => dec'[1] = dec[1]
          /\ dec = <<>> => dec'[1] = d
      BY <1>3, <1>6, <1>8, <1>9, <2>1, <2>2, DecideKeeps
    <2>4. dec'[1] = RootNode
      BY <1>3, <1>5, <1>11, <2>3 DEF PhaseOK
    <2>5. SolverTyped'
      BY <1>1, <1>3, <1>6, <1>9, <2>3 DEF SolverTyped, TypeOK
    <2>6. PhaseOK'
      BY <1>1, <1>4, <1>5, <2>3, <2>4 DEF PhaseOK
    <2>7. AskingOK'
      BY <1>1 DEF AskingOK, NoCall
    <2>8. QED BY <1>4, <1>10, <2>3, <2>5, <2>6, <2>7, Typed DEF IInv
  <1>14. QED BY <1>12, <1>13

(* Conflict: what remains of the decisions is a prefix with the root.      *)
LEMMA ConflictSafe == ASSUME IInv, Conflict PROVE IInv'
  <1>1. Solving /\ UNCHANGED <<world, provider, error, asking, answers>>
    BY DEF Conflict
  <1>2. /\ asking = NoCall /\ frames = <<>> /\ phase = "solve" /\ outcome = Running
        /\ dec \in Seq(Nodes) /\ dec # <<>> /\ dec[1] = RootNode
        /\ ToSet(dec) \subseteq DOMAIN answers /\ DOMAIN answers \subseteq Nodes
        /\ PhaseOK /\ ToldOK /\ DecisionsOK
    BY <1>1, BetweenQueries
  <1>3. \/ Finish([Running EXCEPT !.kind = "conflict"]) /\ UNCHANGED dec
        \/ (\E k \in DOMAIN dec : dec' = SubSeq(dec, 1, k)) /\ UNCHANGED <<phase, outcome>>
    <2>1. 1 \in DOMAIN dec
      BY <1>2
    <2>2. ASSUME NEW N, BackjumpTo({i \in DOMAIN dec : dec[i] \in N})
          PROVE  \E k \in DOMAIN dec : dec' = SubSeq(dec, 1, k)
      BY <2>1, <2>2 DEF BackjumpTo
    <2>3. QED BY <2>2 DEF Conflict
  <1>4. CASE Finish([Running EXCEPT !.kind = "conflict"]) /\ UNCHANGED dec
    <2> DEFINE o == [Running EXCEPT !.kind = "conflict"]
    <2>1. o.kind = "conflict" /\ Running.kind = "none"
      BY DEF Running
    <2>2. Finish(o)
      BY <1>4
    <2> HIDE DEF o
    <2>3. o # Running /\ o.kind # "graph"
      BY <2>1
    <2>4. QED BY <1>1, <1>4, <2>2, <2>3, FinishSafe
  <1>5. ASSUME NEW k \in DOMAIN dec, dec' = SubSeq(dec, 1, k), UNCHANGED <<phase, outcome>>
        PROVE  IInv'
    <2>1. k \in 1 .. Len(dec)
      BY <1>2
    <2>2. /\ dec' \in Seq(Nodes) /\ ToSet(dec') \subseteq ToSet(dec)
          /\ dec' # <<>> /\ dec'[1] = RootNode
      BY <1>2, <1>5, <2>1, ToSetPrefix
    <2>3. /\ ProviderTyped' /\ FramesOK' /\ TablesOK' /\ BindingsOK' /\ SettledOK'
          /\ world' \in Worlds /\ UNCHANGED <<cand, frames>>
      BY <1>1, ProviderWaits
    <2>4. SolverTyped'
      BY <1>1, <1>2, <1>5, <2>2 DEF SolverTyped
    <2>5. DecisionsOK'
      BY <1>1, <1>2, <2>2 DEF DecisionsOK
    <2>6. ToldOK'
      BY <1>1, <1>2, <2>3 DEF ToldOK
    <2>7. PhaseOK'
      <3>1. outcome'.kind # "graph"
        BY <1>2, <1>5 DEF Running
      <3>2. QED BY <1>1, <1>2, <1>5, <2>2, <2>3, <3>1 DEF PhaseOK
    <2>8. AskingOK'
      BY <1>1, <1>2 DEF AskingOK, NoCall
    <2>9. QED BY <2>3, <2>4, <2>5, <2>6, <2>7, <2>8, Typed DEF IInv
  <1>6. QED BY <1>3, <1>4, <1>5

(* SolveEnds: a graph is what was decided, and no error was captured.      *)
LEMMA SolveEndsSafe == ASSUME IInv, SolveEnds PROVE IInv'
  <1>1. /\ Solving /\ Open(ToSet(dec)) = {}
        /\ UNCHANGED <<world, provider, error, asking, dec, answers>>
        /\ Finish(IF error # "none" THEN [Running EXCEPT !.kind = "error"]
                  ELSE [Running EXCEPT !.kind = "graph", !.graph = ToSet(dec)])
    BY DEF SolveEnds, search
  <1>2. /\ asking = NoCall /\ frames = <<>> /\ phase = "solve" /\ outcome = Running
        /\ dec \in Seq(Nodes) /\ dec # <<>> /\ dec[1] = RootNode
        /\ ToSet(dec) \subseteq DOMAIN answers /\ DOMAIN answers \subseteq Nodes
        /\ PhaseOK /\ ToldOK /\ DecisionsOK
    BY <1>1, BetweenQueries
  <1>3. CASE error # "none"
    <2> DEFINE o == [Running EXCEPT !.kind = "error"]
    <2>1. o.kind = "error" /\ Running.kind = "none"
      BY DEF Running
    <2>2. Finish(o)
      BY <1>1, <1>3
    <2> HIDE DEF o
    <2>3. o # Running /\ o.kind # "graph"
      BY <2>1
    <2>4. QED BY <1>1, <2>2, <2>3, FinishSafe
  <1>4. CASE error = "none"
    <2>1. phase' = "done" /\ outcome' = [Running EXCEPT !.kind = "graph", !.graph = ToSet(dec)]
      BY <1>1, <1>4 DEF Finish
    <2>2. outcome'.kind = "graph" /\ outcome'.graph = ToSet(dec) /\ outcome' # Running
      BY <2>1 DEF Running
    <2>3. /\ ProviderTyped' /\ FramesOK' /\ TablesOK' /\ BindingsOK' /\ SettledOK'
          /\ world' \in Worlds /\ UNCHANGED <<cand, frames>>
      BY <1>1, ProviderWaits
    <2>4. SolverTyped'
      BY <1>1, <1>2, <2>1, <2>2 DEF SolverTyped
    <2>5. Open(ToSet(dec))' = {}
      BY <1>1 DEF Open
    <2>6. ToldOK' /\ DecisionsOK' /\ AskingOK'
      BY <1>1, <1>2, <2>3 DEF ToldOK, DecisionsOK, AskingOK
    <2>7. PhaseOK'
      BY <1>1, <1>2, <1>4, <2>1, <2>2, <2>3, <2>5 DEF PhaseOK
    <2>8. QED BY <2>3, <2>4, <2>6, <2>7, Typed DEF IInv
  <1>5. QED BY <1>3, <1>4

-----------------------------------------------------------------------------
(* The theorems.                                                           *)

(* seed_root: the root's requirements are bound, and all have their terms. *)
LEMMA InitSafe == ASSUME Init PROVE IInv
  <1> DEFINE rs == world.root
  <1>1. /\ world \in Worlds /\ stubs = {} /\ seen = {} /\ phase = "discover" /\ asking = NoCall
        /\ dec = <<>> /\ answers = <<>> /\ error = "none" /\ outcome = Running
        /\ cand = [d \in {RootNode} |->
                     {[to |-> r.source, range |-> r.range] : r \in ToSet(rs)}]
        /\ discovered = [i \in DOMAIN rs |-> rs[i].source]
        /\ frames = Enter(RootNode, DOMAIN rs, <<>>)
    BY DEF Init
  <1>2. rs \in Seq(Requirement) /\ \A i, j \in DOMAIN rs : rs[i].name = rs[j].name => rs[i].source = rs[j].source
    BY <1>1, WorldAssumption
  <1>3. \A i \in DOMAIN rs :
            /\ rs[i] \in Requirement /\ rs[i].name \in Names /\ rs[i].source \in Sources
            /\ rs[i].range \subseteq Version /\ rs[i].name \in RootNames
    <2>1. TAKE i \in DOMAIN rs
    <2>2. rs[i] \in Requirement
      BY <1>2
    <2>3. rs[i].name \in RootNames
      BY DEF RootNames
    <2>4. QED BY <2>2, <2>3 DEF Requirement
  <1>4. RootNode \in Nodes /\ Requires(RootNode) = rs /\ RootNode \in Declaring
    BY DEF Nodes, Requires, Declaring
  <1>5. /\ \A i \in DOMAIN rs : bind[rs[i].name] = rs[i].source
        /\ \A n \in Names \ RootNames : bind[n] = Nothing
        /\ DOMAIN bind = Names /\ \E B : bind \in [Names -> B]
    <2> DEFINE k(n) == CHOOSE j \in DOMAIN rs : rs[j].name = n
    <2>1. bind = [n \in Names |-> IF n \in RootNames THEN rs[k(n)].source ELSE Nothing]
      BY DEF Init
    <2>2. \A i \in DOMAIN rs : k(rs[i].name) \in DOMAIN rs /\ rs[k(rs[i].name)].name = rs[i].name
      OBVIOUS
    <2> HIDE DEF k
    <2>3. \A i \in DOMAIN rs : bind[rs[i].name] = rs[i].source
      BY <1>2, <1>3, <2>1, <2>2
    <2>4. /\ \A n \in Names \ RootNames : bind[n] = Nothing
          /\ DOMAIN bind = Names /\ bind \in [Names -> {bind[n] : n \in Names}]
      BY <2>1
    <2>5. QED BY <2>3, <2>4
  <1>6. \A n \in Names : n \in RootNames => \E i \in DOMAIN rs : n = rs[i].name
    BY DEF RootNames
  <1>7. bind \in [Names -> Sources \cup {Nothing}]
    BY <1>3, <1>5, <1>6
  <1>8. \A n \in Names : bind[n] # Nothing => Claimed(n, bind[n])
    BY <1>4, <1>5, <1>6 DEF Claimed
  <1>9. BindingsOK
    BY <1>5, <1>8 DEF BindingsOK
  <1>10. /\ DOMAIN cand = {RootNode}
         /\ cand[RootNode] = {[to |-> r.source, range |-> r.range] : r \in ToSet(rs)}
    BY <1>1
  <1>11. cand[RootNode] \subseteq Term
    BY <1>3, <1>10 DEF ToSet, Term
  <1>12. discovered \in Seq(Sources)
    <2>1. DOMAIN rs = 1 .. Len(rs) /\ Len(rs) \in Nat
      BY <1>2
    <2>2. QED BY <1>1, <1>3, <2>1
  <1>13. ProviderTyped
    BY <1>1, <1>4, <1>7, <1>10, <1>11, <1>12 DEF ProviderTyped
  <1>14. ToSet(dec) = {} /\ DOMAIN answers = {}
    BY <1>1 DEF ToSet
  <1>15. SolverTyped
    BY <1>1, <1>14 DEF SolverTyped
  <1>16. FramesOK
    <2>1. StackOK(<<>>, DOMAIN cand) /\ \A i \in DOMAIN <<>> : <<>>[i].admit = {}
      BY DEF StackOK
    <2>2. QED BY <1>1, <1>2, <1>4, <1>10, <2>1, EnterKeeps DEF FramesOK
  <1>17. TablesOK
    BY <1>1, <1>4, <1>10 DEF TablesOK
  <1>18. PhaseOK
    <2>1. outcome.kind # "graph"
      BY <1>1 DEF Running
    <2>2. QED BY <1>1, <2>1 DEF PhaseOK
  <1>19. ToldOK /\ DecisionsOK /\ AskingOK
    BY <1>1, <1>14 DEF ToldOK, DecisionsOK, AskingOK
  <1>20. Settled(cand, bind, frames)
    <2>1. SUFFICES ASSUME NEW i \in Leading(RootNode)
                   PROVE  HasTerm(cand[RootNode], bind, rs[i]) /\ Admitted(bind, rs[i])
      BY <1>4, <1>10 DEF Settled
    <2>2. i \in DOMAIN rs
      BY <1>4 DEF Leading
    <2>3. bind[rs[i].name] = rs[i].source /\ rs[i].source # Nothing
      BY <1>3, <1>5, <2>2, SourceAssumption
    <2>4. [to |-> rs[i].source, range |-> rs[i].range] \in cand[RootNode]
      BY <1>10, <2>2 DEF ToSet
    <2>5. HasTerm(cand[RootNode], bind, rs[i])
      BY <2>3, <2>4 DEF HasTerm, KeyUnder
    <2>6. QED BY <2>3, <2>5 DEF Admitted
  <1>21. SettledOK
    BY <1>20 DEF SettledOK
  <1>22. QED
    BY <1>1, <1>9, <1>13, <1>15, <1>16, <1>17, <1>18, <1>19, <1>21, Typed DEF IInv

(* Every step keeps IInv.                                                  *)
LEMMA NextSafe == IInv /\ [Next]_vars => IInv'
  <1> SUFFICES ASSUME IInv, [Next]_vars PROVE IInv'
    OBVIOUS
  <1>1. CASE UNCHANGED vars
    <2>1. UNCHANGED <<world, provider, phase, asking, dec, answers, error, outcome>>
      BY <1>1 DEF vars, search
    <2>2. /\ ProviderTyped' /\ FramesOK' /\ TablesOK' /\ BindingsOK' /\ SettledOK'
          /\ world' \in Worlds /\ UNCHANGED <<cand, frames>>
      BY <2>1, ProviderWaits
    <2>3. TypeOK /\ PhaseOK /\ ToldOK /\ DecisionsOK /\ AskingOK
      BY DEF IInv
    <2>4. SolverTyped'
      BY <2>1, <2>3 DEF SolverTyped, TypeOK
    <2>5. Open(ToSet(dec))' = Open(ToSet(dec))
      BY <2>1 DEF Open
    <2>6. PhaseOK'
      BY <2>1, <2>2, <2>3, <2>5 DEF PhaseOK
    <2>7. ToldOK' /\ DecisionsOK' /\ AskingOK'
      BY <2>1, <2>2, <2>3 DEF ToldOK, DecisionsOK, AskingOK
    <2>8. QED BY <2>2, <2>4, <2>6, <2>7, Typed DEF IInv
  <1>2. CASE Next
    BY <1>2, GateOnlySafe, DispatchSafe, MaterializeNamedSafe, StartSolveSafe,
       ChooseVersionSafe, GetDependenciesSafe, ConflictSafe, SolveEndsSafe DEF Next
  <1>3. QED BY <1>1, <1>2

(* The inductive invariant holds.                                          *)
LEMMA AlwaysIInv == Spec => []IInv
  BY InitSafe, NextSafe, PTL DEF Spec

(* What a graph rests on: every decision was told what its package         *)
(* declares, and every first requirement is bound and decided.             *)
LEMMA GraphSettled ==
    ASSUME IInv, NoAlias, outcome.kind = "graph"
    PROVE  /\ Graph = ToSet(dec) /\ RootNode \in Graph
           /\ \A d \in Graph :
                /\ d \in DOMAIN cand
                /\ \A e \in Graph : e[1] = d[1] => e = d
                /\ \A r \in Firsts(d) :
                     /\ Admitted(bind, r)
                     /\ \E e \in Graph : e[1] = bind[r.name] /\ e[2] \in r.range
  <1>1. /\ TypeOK /\ PhaseOK /\ ToldOK /\ DecisionsOK /\ SettledOK
    BY DEF IInv
  <1>2. /\ error = "none" /\ dec # <<>> /\ dec[1] = RootNode /\ dec \in Seq(Nodes)
        /\ outcome.graph = ToSet(dec) /\ Open(ToSet(dec)) = {}
    BY <1>1 DEF PhaseOK, DecisionsOK
  <1>3. frames = <<>>
    BY <1>1 DEF PhaseOK, TypeOK, Running
  <1>4. Graph = ToSet(dec) /\ RootNode \in Graph
    <2>1. Graph = ToSet(dec)
      BY <1>2 DEF Graph
    <2>2. dec[1] \in ToSet(dec)
      BY <1>2 DEF ToSet
    <2>3. QED BY <1>2, <2>1, <2>2
  <1>5. ASSUME NEW d \in Graph
        PROVE  /\ d \in DOMAIN cand
               /\ \A e \in Graph : e[1] = d[1] => e = d
               /\ \A r \in Firsts(d) :
                    /\ Admitted(bind, r)
                    /\ \E e \in Graph : e[1] = bind[r.name] /\ e[2] \in r.range
    <2>1. d \in DOMAIN answers /\ d \in DOMAIN cand /\ answers[d] = cand[d]
      BY <1>1, <1>2, <1>4 DEF TypeOK, ToldOK
    <2>2. \A e \in Graph : e[1] = d[1] => e = d
      BY <1>1, <1>4 DEF DecisionsOK
    <2>3. ASSUME NEW r \in Firsts(d)
          PROVE  /\ Admitted(bind, r)
                 /\ \E e \in Graph : e[1] = bind[r.name] /\ e[2] \in r.range
      <3>1. PICK i \in Leading(d) : r = Requires(d)[i]
        BY DEF Firsts, Leading
      <3>2. HasTerm(cand[d], bind, r) /\ Admitted(bind, r)
        BY <1>1, <1>2, <1>3, <2>1, <3>1 DEF SettledOK, Settled, Pending
      <3>3. bind[r.name] # Nothing
        BY <3>2 DEF Admitted
      <3>4. PICK m \in answers[d] : m.to = bind[r.name] /\ m.range = r.range
        BY <2>1, <3>2, <3>3 DEF HasTerm, KeyUnder
      <3>5. m.to \in Sources
        BY <1>1, <2>1, <3>4 DEF ToldOK, Term
      <3>6. PICK e \in ToSet(dec) : e[1] = m.to
        BY <1>2, <1>4, <3>4, <3>5 DEF Open
      <3>7. e[2] \in m.range
        BY <1>1, <1>4, <3>4, <3>6 DEF DecisionsOK
      <3>8. QED BY <1>4, <3>2, <3>4, <3>6, <3>7
    <2>4. QED BY <2>1, <2>2, <2>3
  <1>6. QED BY <1>4, <1>5

(* The tables of ResolveProvider and the solver's state always have their  *)
(* types, and no version is at once a stub and a candidate.                *)
THEOREM TypeCorrect == Spec => []TypeOK
  <1>1. IInv => TypeOK
    BY DEF IInv
  <1>2. QED BY <1>1, AlwaysIInv, PTL

(* If nothing is required under two names, a graph that resolve returns is *)
(* a solution: the root is in it, each package has one version and was     *)
(* fetched, and each finds its dependencies in it, in the range it asks    *)
(* for, whatever was discovered late, undone by pubgrub or failed to be    *)
(* fetched.                                                                *)
THEOREM SolutionAlwaysSound == Spec => [](NoAlias => SolutionIsSound)
  <1>1. IInv => (NoAlias => SolutionIsSound)
    <2>1. SUFFICES ASSUME IInv, NoAlias PROVE SolutionIsSound
      OBVIOUS
    <2>2. CASE outcome.kind = "graph"
      BY <2>2, <2>1, GraphSettled DEF SolutionIsSound
    <2>3. CASE outcome.kind # "graph"
      BY <2>3 DEF SolutionIsSound, Graph
    <2>4. QED BY <2>2, <2>3
  <1>2. QED BY <1>1, AlwaysIInv, PTL

(* If nothing is required under two names, a package of a graph comes from *)
(* the source its consumer declares, unless the root has another for that  *)
(* name: BindingResolver::submit stops any other resolve.                  *)
THEOREM OneSourceAlways == Spec => [](NoAlias => OneSourcePerName)
  <1>1. IInv => (NoAlias => OneSourcePerName)
    <2>1. SUFFICES ASSUME IInv, NoAlias PROVE OneSourcePerName
      OBVIOUS
    <2>2. CASE outcome.kind = "graph"
      BY <2>2, <2>1, GraphSettled DEF OneSourcePerName, Admitted
    <2>3. CASE outcome.kind # "graph"
      BY <2>3 DEF OneSourcePerName, Graph
    <2>4. QED BY <2>2, <2>3
  <1>2. QED BY <1>1, AlwaysIInv, PTL
-----------------------------------------------------------------------------
(* Packages of unknown version are decided last.                           *)

\* A package of unknown version is enumerated only when it is fetched, and under
\* the sentinel.
UnknownOK ==
    \A d \in DOMAIN cand \cup stubs :
        d[1] \in world.unknown => d[2] = 0 /\ d \in DOMAIN cand

\* If the version of s is unknown, then the packages ds, which the solver told
\* ans of, put no constraint on s and have only such packages left to decide.
DecidedLast(ds, s, ans) ==
    s \in world.unknown =>
        \A d \in ds : \A m \in ans[d] :
            /\ m.to \in world.unknown \/ \E e \in ds : e[1] = m.to
            /\ m.to = s => m.range = Version

\* The decisions before the kth.
Prior(ds, k) == {ds[i] : i \in 1 .. k - 1}

LateOK ==
    /\ \A k \in DOMAIN dec : DecidedLast(Prior(dec, k), dec[k][1], answers)
    /\ asking # NoCall => DecidedLast(ToSet(dec), asking.node[1], answers)

LateInv == IInv /\ UnknownOK /\ LateOK

(* The root has a version, and so has what the registry publishes.         *)
LEMMA UnknownAreUrls ==
    ASSUME world \in Worlds
    PROVE  world.unknown \subseteq Urls /\ Root \notin world.unknown
  <1>1. world.unknown \subseteq Urls
    BY WorldAssumption
  <1>2. QED BY <1>1, SourceAssumption DEF Sources

(* One more decision: those before it are the earlier ones.                *)
LEMMA PriorAppend ==
    ASSUME NEW S, NEW ds \in Seq(S), NEW x \in S
    PROVE  \A k \in DOMAIN Append(ds, x) :
             \/ k \in DOMAIN ds /\ Append(ds, x)[k] = ds[k] /\ Prior(Append(ds, x), k) = Prior(ds, k)
             \/ Append(ds, x)[k] = x /\ Prior(Append(ds, x), k) = ToSet(ds)
  <1>1. /\ Len(ds) \in Nat /\ DOMAIN ds = 1 .. Len(ds)
        /\ DOMAIN Append(ds, x) = 1 .. Len(ds) + 1
        /\ \A i \in 1 .. Len(ds) : Append(ds, x)[i] = ds[i]
        /\ Append(ds, x)[Len(ds) + 1] = x
    OBVIOUS
  <1> DEFINE t == Append(ds, x)
  <1> HIDE DEF t
  <1>2. ASSUME NEW k \in 1 .. Len(ds) + 1
        PROVE  Prior(t, k) = {ds[i] : i \in 1 .. k - 1}
    <2>1. \A i \in 1 .. k - 1 : t[i] = ds[i]
      BY <1>1 DEF t
    <2>2. QED BY <2>1 DEF Prior
  <1>3. ASSUME NEW k \in 1 .. Len(ds) + 1
        PROVE  \/ k \in DOMAIN ds /\ t[k] = ds[k] /\ Prior(t, k) = Prior(ds, k)
               \/ t[k] = x /\ Prior(t, k) = ToSet(ds)
    <2>1. CASE k = Len(ds) + 1
      <3>1. 1 .. k - 1 = DOMAIN ds
        BY <1>1, <2>1
      <3>2. QED BY <1>1, <1>2, <2>1, <3>1 DEF ToSet, t
    <2>2. CASE k # Len(ds) + 1
      <3>1. k \in DOMAIN ds
        BY <1>1, <2>2
      <3>2. QED BY <1>1, <1>2, <3>1 DEF Prior, t
    <2>3. QED BY <2>1, <2>2
  <1>4. QED BY <1>1, <1>3 DEF t

(* ... and a prefix has the same decisions before each.                    *)
LEMMA PriorPrefix ==
    ASSUME NEW S, NEW ds \in Seq(S), NEW n \in 1 .. Len(ds)
    PROVE  \A k \in DOMAIN SubSeq(ds, 1, n) :
             /\ k \in DOMAIN ds /\ SubSeq(ds, 1, n)[k] = ds[k]
             /\ Prior(SubSeq(ds, 1, n), k) = Prior(ds, k)
  <1> DEFINE t == SubSeq(ds, 1, n)
  <1>1. /\ DOMAIN t = 1 .. n /\ \A i \in 1 .. n : t[i] = ds[i]
        /\ DOMAIN ds = 1 .. Len(ds) /\ Len(ds) \in Nat /\ n \in Nat
    OBVIOUS
  <1> HIDE DEF t
  <1>2. ASSUME NEW k \in 1 .. n PROVE Prior(t, k) = Prior(ds, k)
    <2>1. \A i \in 1 .. k - 1 : t[i] = ds[i]
      BY <1>1
    <2>2. QED BY <2>1 DEF Prior
  <1>3. QED BY <1>1, <1>2 DEF t

(* The decisions before one are decisions.                                 *)
LEMMA PriorDecided ==
    ASSUME NEW S, NEW ds \in Seq(S), NEW k \in DOMAIN ds
    PROVE  Prior(ds, k) \subseteq ToSet(ds)
  <1>1. 1 .. k - 1 \subseteq DOMAIN ds
    OBVIOUS
  <1>2. QED BY <1>1 DEF Prior, ToSet

(* A new decision that is taken last, the solver having been told no more  *)
(* of the earlier ones.                                                    *)
LEMMA DecideLate ==
    ASSUME dec \in Seq(Nodes), NEW d \in Nodes, dec' = Append(dec, d), UNCHANGED world,
           LateOK, \A e \in ToSet(dec) : answers'[e] = answers[e],
           DecidedLast(ToSet(dec), d[1], answers), asking' = NoCall
    PROVE  LateOK'
  <1>1. ASSUME NEW k \in DOMAIN dec'
        PROVE  DecidedLast(Prior(dec', k), dec'[k][1], answers')
    <2>1. CASE k \in DOMAIN dec /\ dec'[k] = dec[k] /\ Prior(dec', k) = Prior(dec, k)
      <3>1. DecidedLast(Prior(dec, k), dec[k][1], answers)
        BY <2>1 DEF LateOK
      <3>2. \A e \in Prior(dec, k) : answers'[e] = answers[e]
        BY <2>1, PriorDecided
      <3>3. QED BY <2>1, <3>1, <3>2 DEF DecidedLast
    <2>2. CASE dec'[k] = d /\ Prior(dec', k) = ToSet(dec)
      BY <2>2 DEF DecidedLast
    <2>3. QED BY <2>1, <2>2, PriorAppend
  <1>2. QED BY <1>1 DEF LateOK, DecidedLast

(* A step of the solver or of the provider after which the decisions, what *)
(* they were told and the package asked about are the same.                *)
LEMMA LateFrame ==
    ASSUME LateOK, UNCHANGED <<world, dec, answers>>,
           asking' # NoCall => asking # NoCall /\ asking'.node = asking.node
    PROVE  LateOK'
  BY DEF LateOK, DecidedLast

(* Discovery and lazy fetches: GateOnly, Dispatch, MaterializeNamed.       *)
LEMMA ProviderLate ==
    ASSUME LateInv, GateOnly \/ Dispatch \/ MaterializeNamed
    PROVE  UnknownOK' /\ LateOK'
  <1>1. UNCHANGED <<world, dec, answers>>
    BY DEF GateOnly, Dispatch, MaterializeNamed, search
  <1>2. /\ IInv /\ UnknownOK /\ LateOK /\ world \in Worlds /\ PhaseOK
        /\ world.unknown \subseteq Urls
    BY UnknownAreUrls DEF LateInv, IInv
  <1>3. asking' # NoCall => asking # NoCall /\ asking'.node = asking.node
    <2>1. CASE GateOnly \/ Dispatch
      <3>1. frames # <<>>
        BY <2>1 DEF GateOnly, Dispatch
      <3>2. phase = "discover" \/ asking # NoCall
        BY <1>2, <3>1 DEF IInv, TypeOK, PhaseOK
      <3>3. asking' = asking \/ (phase # "discover" /\ asking' = [asking EXCEPT !.state = "failed"])
        BY <2>1 DEF GateOnly, Dispatch, ProcessNamed, ProcessUrl, ProcessFails, Fail
      <3>4. asking # NoCall => asking \in [node : Nodes, state : {"asked", "working", "failed"}]
        BY <1>2 DEF PhaseOK
      <3>5. QED BY <3>2, <3>3, <3>4
    <2>2. CASE MaterializeNamed
      <3>1. asking # NoCall
        BY <2>2 DEF MaterializeNamed, NoCall
      <3>2. asking \in [node : Nodes, state : {"asked", "working", "failed"}]
        BY <1>2, <3>1 DEF PhaseOK
      <3>3. \/ asking' = asking
            \/ asking' = [asking EXCEPT !.state = "failed"]
            \/ asking' = [asking EXCEPT !.state = "working"]
        BY <2>2 DEF MaterializeNamed, Fail
      <3>4. QED BY <3>1, <3>2, <3>3
    <2>3. QED BY <2>1, <2>2
  <1>4. LateOK'
    BY <1>1, <1>2, <1>3, LateFrame
  <1> SUFFICES UnknownOK'
    BY <1>4
  <1>5. ASSUME NEW d, cand' = Store(cand, d, Terms(Requires(d))), stubs' \subseteq stubs,
               d[1] \in world.unknown => d[2] = 0
        PROVE  UnknownOK'
    BY <1>1, <1>2, <1>5 DEF UnknownOK, Store
  <1>6. CASE GateOnly
    BY <1>2, <1>6 DEF GateOnly, UnknownOK
  <1>7. CASE Dispatch
    <2>1. PICK s : \/ UNCHANGED <<cand, stubs>>
                   \/ ProcessNamed(s, frames')
                   \/ \E rest : ProcessUrl(s, rest)
      BY <1>7 DEF Dispatch, ProcessNamed, ProcessFails
    <2>2. CASE UNCHANGED <<cand, stubs>>
      BY <1>1, <1>2, <2>2 DEF UnknownOK
    <2>3. CASE ProcessNamed(s, frames')
      <3>1. s \in Registry /\ stubs' = stubs \cup {<<s, v>> : v \in Published[s]} /\ cand' = cand
        BY <2>3 DEF ProcessNamed
      <3>2. s \notin world.unknown
        BY <1>2, <3>1, SourceAssumption
      <3>3. QED BY <1>1, <1>2, <3>1, <3>2 DEF UnknownOK
    <2>4. ASSUME NEW rest, ProcessUrl(s, rest) PROVE UnknownOK'
      <3> DEFINE d == <<s, Label(s)>>
      <3>1. cand' = Store(cand, d, Terms(Requires(d))) /\ stubs' = stubs
        BY <2>4 DEF ProcessUrl
      <3>2. d[1] \in world.unknown => d[2] = 0
        BY DEF Label
      <3> HIDE DEF d
      <3>3. QED BY <1>5, <3>1, <3>2
    <2>5. QED BY <2>1, <2>2, <2>3, <2>4
  <1>8. CASE MaterializeNamed
    <2>1. asking.node[1] \notin world.unknown
      <3>1. asking.node \in stubs /\ asking.node \notin DOMAIN cand
        BY <1>2, <1>8 DEF MaterializeNamed, IInv, TypeOK
      <3>2. QED BY <1>2, <3>1 DEF UnknownOK
    <2>2. \/ UNCHANGED <<cand, stubs>>
          \/ /\ cand' = Store(cand, asking.node, Terms(Requires(asking.node)))
             /\ stubs' = stubs \ {asking.node}
      BY <1>8 DEF MaterializeNamed
    <2>3. CASE UNCHANGED <<cand, stubs>>
      BY <1>1, <1>2, <2>3 DEF UnknownOK
    <2>4. QED BY <1>5, <2>1, <2>2, <2>3
  <1>9. QED BY <1>6, <1>7, <1>8

(* prioritize and choose_version: a package of unknown version is taken    *)
(* when all that is open is such, and only if its range is full.           *)
LEMMA ChosenLast ==
    ASSUME LateInv, Solving, NEW t \in Prioritize(Open(ToSet(dec))),
           NEW v \in Versions(t) \cap Allowed(ToSet(dec), t),
           ~(IsVersionUnknown(t) /\ Allowed(ToSet(dec), t) # Version)
    PROVE  DecidedLast(ToSet(dec), t, answers)
  <1> DEFINE D == ToSet(dec)
  <1>1. SUFFICES ASSUME t \in world.unknown,
                        NEW d \in D, NEW m \in answers[d]
                 PROVE  /\ m.to \in world.unknown \/ \E e \in D : e[1] = m.to
                        /\ m.to = t => m.range = Version
    BY DEF DecidedLast
  <1>2. IsVersionUnknown(t)
    <2>1. <<t, v>> \in DOMAIN cand \cup stubs
      BY DEF Versions
    <2>2. v = 0 /\ <<t, v>> \in DOMAIN cand
      BY <1>1, <2>1 DEF LateInv, UnknownOK
    <2>3. QED BY <1>1, <2>2 DEF IsVersionUnknown
  <1>3. Allowed(D, t) = Version
    BY <1>2
  <1>4. Range0(D, t) = Version
    BY <1>3 DEF Allowed, Range0
  <1>5. m \in Term /\ D \subseteq DOMAIN answers
    BY BetweenQueries DEF LateInv, ToldOK
  <1>6. m.to \in Sources /\ m.range \subseteq Version
    BY <1>5 DEF Term
  <1>7. m.to = t => m.range = Version
    BY <1>4, <1>6 DEF Range0
  <1>8. \A s \in Open(D) : s \in world.unknown
    BY <1>2 DEF Prioritize, IsVersionUnknown
  <1>9. m.to \in world.unknown \/ \E e \in D : e[1] = m.to
    BY <1>6, <1>8 DEF Open
  <1>10. QED BY <1>7, <1>9

(* The solver's own steps.                                                 *)
LEMMA SolverLate ==
    ASSUME LateInv, StartSolve \/ ChooseVersion \/ GetDependencies \/ Conflict \/ SolveEnds
    PROVE  UnknownOK' /\ LateOK'
  <1>1. UNCHANGED <<world, cand, stubs>>
    BY DEF StartSolve, ChooseVersion, GetDependencies, Conflict, SolveEnds, provider
  <1>2. IInv /\ UnknownOK /\ LateOK /\ Root \notin world.unknown
    BY UnknownAreUrls DEF LateInv, IInv
  <1>3. UnknownOK'
    BY <1>1, <1>2 DEF UnknownOK
  <1>4. CASE StartSolve
    <2>1. asking'.node = RootNode /\ UNCHANGED <<dec, answers>>
      BY <1>4 DEF StartSolve, search
    <2>2. asking'.node[1] \notin world.unknown
      BY <1>2, <2>1 DEF RootNode
    <2>3. QED BY <1>1, <1>2, <1>3, <2>1, <2>2 DEF LateOK, DecidedLast
  <1>5. CASE ChooseVersion
    <2>1. Solving /\ asking = NoCall /\ dec \in Seq(Nodes)
      BY <1>2, <1>5, BetweenQueries DEF ChooseVersion
    <2>2. PICK t \in Prioritize(Open(ToSet(dec))) :
            \/ UNCHANGED <<asking, search>>
            \/ /\ ~(IsVersionUnknown(t) /\ Allowed(ToSet(dec), t) # Version)
               /\ \E v \in Versions(t) \cap Allowed(ToSet(dec), t) :
                    IF <<t, v>> \in DOMAIN answers
                    THEN dec' = Append(dec, <<t, v>>) /\ UNCHANGED asking
                    ELSE asking' = [node |-> <<t, v>>, state |-> "asked"] /\ UNCHANGED dec
               /\ UNCHANGED answers
      BY <1>5 DEF ChooseVersion
    <2>3. CASE UNCHANGED <<asking, search>>
      BY <1>1, <1>2, <1>3, <2>1, <2>3, LateFrame DEF search
    <2>4. ASSUME ~(IsVersionUnknown(t) /\ Allowed(ToSet(dec), t) # Version),
                 NEW v \in Versions(t) \cap Allowed(ToSet(dec), t),
                 IF <<t, v>> \in DOMAIN answers
                 THEN dec' = Append(dec, <<t, v>>) /\ UNCHANGED asking
                 ELSE asking' = [node |-> <<t, v>>, state |-> "asked"] /\ UNCHANGED dec,
                 UNCHANGED answers
          PROVE  LateOK'
      <3>1. DecidedLast(ToSet(dec), t, answers)
        BY <2>1, <2>4, ChosenLast
      <3>2. CASE <<t, v>> \in DOMAIN answers
        <4> DEFINE d == <<t, v>>
        <4>1. d \in Nodes /\ d[1] = t /\ dec' = Append(dec, d) /\ asking' = NoCall
          BY <1>2, <2>1, <2>4, <3>2 DEF IInv, TypeOK
        <4> HIDE DEF d
        <4>2. QED BY <1>1, <1>2, <2>1, <2>4, <3>1, <4>1, DecideLate
      <3>3. CASE <<t, v>> \notin DOMAIN answers
        <4>1. asking'.node[1] = t /\ dec' = dec /\ answers' = answers
          BY <2>4, <3>3
        <4>2. QED BY <1>1, <1>2, <3>1, <4>1 DEF LateOK, DecidedLast
      <3>4. QED BY <3>2, <3>3
    <2>5. QED BY <1>3, <2>2, <2>3, <2>4
  <1>6. CASE GetDependencies
    <2> DEFINE d == asking.node
    <2>1. /\ asking # NoCall /\ asking' = NoCall
          /\ dec' = dec \/ dec' = Append(dec, d)
          /\ \E told : answers' = Store(answers, d, told)
      BY <1>6 DEF GetDependencies, NoCall
    <2>2. d \in Nodes /\ d \notin DOMAIN answers /\ ToSet(dec) \subseteq DOMAIN answers
      BY <1>2, <2>1 DEF IInv, PhaseOK, AskingOK, TypeOK
    <2>3. \A e \in ToSet(dec) : answers'[e] = answers[e]
      BY <2>1, <2>2 DEF Store
    <2>4. DecidedLast(ToSet(dec), d[1], answers) /\ dec \in Seq(Nodes)
      BY <1>2, <2>1 DEF LateOK, IInv, DecisionsOK
    <2> HIDE DEF d
    <2>5. CASE dec' = Append(dec, d)
      BY <1>1, <1>2, <1>3, <2>1, <2>2, <2>3, <2>4, <2>5, DecideLate
    <2>6. CASE dec' = dec
      <3>1. ASSUME NEW k \in DOMAIN dec PROVE DecidedLast(Prior(dec, k), dec[k][1], answers')
        <4>1. \A e \in Prior(dec, k) : answers'[e] = answers[e]
          BY <2>3, <2>4, PriorDecided
        <4>2. DecidedLast(Prior(dec, k), dec[k][1], answers)
          BY <1>2 DEF LateOK
        <4>3. QED BY <4>1, <4>2 DEF DecidedLast
      <3>2. QED BY <1>1, <1>3, <2>1, <2>6, <3>1 DEF LateOK, DecidedLast
    <2>7. QED BY <2>1, <2>5, <2>6
  <1>7. CASE Conflict
    <2>1. /\ Solving /\ asking' = asking /\ answers' = answers /\ asking = NoCall
          /\ dec \in Seq(Nodes) /\ dec # <<>>
      BY <1>2, <1>7, BetweenQueries DEF Conflict
    <2>2. 1 \in DOMAIN dec
      BY <2>1
    <2>3. ASSUME NEW N, BackjumpTo({i \in DOMAIN dec : dec[i] \in N})
          PROVE  \E k \in DOMAIN dec : dec' = SubSeq(dec, 1, k)
      BY <2>2, <2>3 DEF BackjumpTo
    <2>4. dec' = dec \/ \E k \in DOMAIN dec : dec' = SubSeq(dec, 1, k)
      BY <1>7, <2>3 DEF Conflict
    <2>5. CASE dec' = dec
      BY <1>1, <1>2, <1>3, <2>1, <2>5, LateFrame
    <2>6. ASSUME NEW n \in DOMAIN dec, dec' = SubSeq(dec, 1, n) PROVE LateOK'
      <3>1. n \in 1 .. Len(dec)
        BY <2>1
      <3>2. \A k \in DOMAIN dec' :
              k \in DOMAIN dec /\ dec'[k] = dec[k] /\ Prior(dec', k) = Prior(dec, k)
        BY <2>1, <2>6, <3>1, PriorPrefix
      <3>3. ASSUME NEW k \in DOMAIN dec' PROVE DecidedLast(Prior(dec', k), dec'[k][1], answers)
        BY <1>2, <3>2 DEF LateOK
      <3>4. QED BY <1>1, <2>1, <3>3 DEF LateOK, DecidedLast
    <2>7. QED BY <1>3, <2>4, <2>5, <2>6
  <1>8. CASE SolveEnds
    <2>1. UNCHANGED <<asking, dec, answers>>
      BY <1>8 DEF SolveEnds, search
    <2>2. QED BY <1>1, <1>2, <1>3, <2>1, LateFrame
  <1>9. QED BY <1>4, <1>5, <1>6, <1>7, <1>8

(* ... so it always holds.                                                 *)
LEMMA AlwaysLate == Spec => []LateInv
  <1>1. Init => LateInv
    <2> SUFFICES ASSUME Init PROVE LateInv
      OBVIOUS
    <2>1. /\ IInv /\ world \in Worlds /\ DOMAIN cand = {RootNode} /\ stubs = {}
          /\ dec = <<>> /\ asking = NoCall
      BY InitSafe DEF Init
    <2>2. RootNode[1] \notin world.unknown
      BY <2>1, UnknownAreUrls DEF RootNode
    <2>3. QED BY <2>1, <2>2 DEF LateInv, UnknownOK, LateOK
  <1>2. LateInv /\ [Next]_vars => LateInv'
    <2> SUFFICES ASSUME LateInv, [Next]_vars PROVE LateInv'
      OBVIOUS
    <2>1. IInv'
      BY NextSafe DEF LateInv
    <2>2. CASE UNCHANGED vars
      <3>1. UNCHANGED <<world, cand, stubs, dec, answers, asking>>
        BY <2>2 DEF vars, provider, search
      <3>2. QED BY <2>1, <3>1, LateFrame DEF LateInv, UnknownOK
    <2>3. CASE Next
      BY <2>1, <2>3, ProviderLate, SolverLate DEF LateInv, Next
    <2>4. QED BY <2>2, <2>3
  <1>3. QED BY <1>1, <1>2, PTL DEF Spec

(* In a graph, what a package of known version declares of one of unknown  *)
(* version was known before that one was decided.                          *)
LEMMA CaughtInGraph ==
    ASSUME LateInv, NoAlias, outcome.kind = "graph",
           NEW d \in KnownReach, NEW u \in Graph, Known(d), ~Known(u)
    PROVE  ~Constrains(d, u[1])
  <1>1. /\ IInv /\ LateOK /\ PhaseOK /\ ToldOK /\ DecisionsOK /\ SettledOK
        /\ Graph = ToSet(dec) /\ RootNode \in Graph /\ dec \in Seq(Nodes)
        /\ dec[1] = RootNode /\ dec # <<>> /\ error = "none" /\ frames = <<>>
        /\ Root \notin world.unknown
    <2>1. IInv /\ LateOK /\ PhaseOK /\ ToldOK /\ DecisionsOK /\ SettledOK /\ world \in Worlds
      BY DEF LateInv, IInv
    <2>2. phase = "done"
      BY <2>1 DEF PhaseOK, IInv, TypeOK, Running
    <2>3. QED BY <2>1, <2>2, GraphSettled, UnknownAreUrls DEF PhaseOK, DecisionsOK
  <1>2. PICK k \in DOMAIN dec : dec[k] = u
    BY <1>1 DEF ToSet
  <1> DEFINE D == Prior(dec, k)
             S == D \cup {x \in Graph : ~Known(x)}
  <1>3. u[1] \in world.unknown
    BY DEF Known
  <1>4. \A e \in D : \A m \in answers[e] :
            /\ m.to \in world.unknown \/ \E x \in D : x[1] = m.to
            /\ m.to = u[1] => m.range = Version
    BY <1>1, <1>2, <1>3 DEF LateOK, DecidedLast
  <1>5. D \subseteq Graph
    BY <1>1, PriorDecided
  <1>6. ASSUME NEW e \in D, NEW r \in Firsts(e)
        PROVE  \E m \in answers[e] : m.to = bind[r.name] /\ m.range = r.range
    <2>1. e \in DOMAIN answers /\ e \in DOMAIN cand /\ answers[e] = cand[e]
      BY <1>1, <1>5 DEF IInv, TypeOK, ToldOK
    <2>2. PICK i \in Leading(e) : r = Requires(e)[i]
      BY DEF Firsts, Leading
    <2>3. HasTerm(cand[e], bind, r) /\ Admitted(bind, r)
      BY <1>1, <2>1, <2>2 DEF SettledOK, Settled, Pending
    <2>4. QED BY <2>1, <2>3 DEF HasTerm, KeyUnder, Admitted
  <1>7. RootNode \in D
    <2>1. k # 1
      BY <1>1, <1>2, <1>3 DEF RootNode
    <2>2. 1 \in 1 .. k - 1
      BY <1>1, <2>1
    <2>3. QED BY <1>1, <2>2 DEF Prior
  <1>8. \A x, y \in Graph : x[1] = y[1] => x = y
    BY <1>1 DEF DecisionsOK
  <1>9. ASSUME NEW e \in S, Known(e), NEW r \in Firsts(e), NEW x \in Graph, x[1] = bind[r.name]
        PROVE  x \in S
    <2>1. e \in D
      BY <1>9
    <2>2. x[1] \in world.unknown \/ \E y \in D : y[1] = x[1]
      BY <1>4, <1>6, <1>9, <2>1
    <2>3. QED BY <1>5, <1>8, <2>2 DEF Known
  <1>10. S \in SUBSET Graph /\ RootNode \in S
    BY <1>5, <1>7
  <1>11. d \in S
    <2> HIDE DEF S
    <2>1. \A e \in S : Known(e) => \A r \in Firsts(e) : {x \in Graph : x[1] = bind[r.name]} \subseteq S
      BY <1>9
    <2>2. QED BY <1>10, <2>1 DEF KnownReach
  <1>12. d \in D
    BY <1>11
  <1>13. QED BY <1>4, <1>6, <1>12 DEF Constrains

(* If nothing is required under two names, no graph has a package of       *)
(* unknown version under the constraint of a known one that the root       *)
(* reaches through known ones: prioritize puts it after all of them,       *)
(* however late they are discovered and however often pubgrub backtracks,  *)
(* and choose_version refuses it.                                          *)
THEOREM KnownAlwaysCaught == Spec => [](NoAlias => KnownConstrainersCaught)
  <1>1. LateInv => (NoAlias => KnownConstrainersCaught)
    <2>1. SUFFICES ASSUME LateInv, NoAlias PROVE KnownConstrainersCaught
      OBVIOUS
    <2>2. CASE outcome.kind = "graph"
      BY <2>1, <2>2, CaughtInGraph DEF KnownConstrainersCaught
    <2>3. CASE outcome.kind # "graph"
      BY <2>3 DEF KnownConstrainersCaught, KnownReach, Graph
    <2>4. QED BY <2>2, <2>3
  <1>2. QED BY <1>1, AlwaysLate, PTL
=============================================================================
