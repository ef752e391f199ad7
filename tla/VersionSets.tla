---------------------------- MODULE VersionSets -----------------------------
(***************************************************************************)
(* VersionSet (milpa-solver/src/lib.rs): a set of versions as a canonical  *)
(* sequence of disjoint intervals, and from_constraint, which builds one   *)
(* from a parsed constraint: arms joined by `|` of clauses joined by `&`.  *)
(*                                                                         *)
(* The loops are the model: each action merges one interval of             *)
(* normalize_intervals, or emits one gap of complement, so that what they  *)
(* compute is an invariant of the steps.  A constraint is its clauses, one *)
(* after the other; each clause is the sequence of operations its          *)
(* constructor performs.  At the end choose_version picks a candidate.     *)
(*                                                                         *)
(* Abstractions: a version is its rank, an integer: release M.m.p is       *)
(* 2 * (Base^2 * M + Base * m + p) and the rank below it is a prerelease   *)
(* of it.  The text of a constraint is left out.                           *)
(***************************************************************************)
EXTENDS Integers, Sequences

CONSTANTS
    NONE,       \* an absent bound
    Base,       \* components of a version are below Base
    Named,      \* the versions constraints mention
    Points,     \* the versions whose membership is observed
    Available   \* the candidates the provider enumerates

ASSUME NoneAssumption == NONE \notin Int
ASSUME BaseAssumption == Base \in Nat \ {0}
ASSUME VersionAssumption ==
    Named \subseteq Int /\ Points \subseteq Int /\ \A v \in Named : -1 <= v

VARIABLES
    reg,     \* the version sets at hand: a clause's, an arm's, the result
    code,    \* the operations left of the current clause
    rest,    \* normalize_intervals: intervals still to merge
    merged,  \* normalize_intervals: the canonical prefix
    gap,     \* complement: the interval whose gap is next, 0 outside
    dst,     \* the register the loop's result goes to
    phase,   \* "parse", "gaps", "merge", "parsed", "picked" or "error"
    arms,    \* the arm at hand: "none" yet, "open" with a clause, or "closed"
    picked,  \* the choice made, and what it was asked for
    mean     \* observer's memory: what reg and the loop should denote

vars == <<reg, code, rest, merged, gap, dst, phase, arms, picked, mean>>

-----------------------------------------------------------------------------
(* Intervals. *)

OptInt == Int \cup {NONE}
Interval == [lo : OptInt, hi : OptInt, lo_closed : BOOLEAN, hi_closed : BOOLEAN]

Iv(l, h, lc, hc) == [lo |-> l, hi |-> h, lo_closed |-> lc, hi_closed |-> hc]

\* interval_contains, one end at a time.
AboveLo(iv, v) ==
    \/ iv.lo = NONE
    \/ iv.lo # NONE /\ (iv.lo < v \/ (iv.lo_closed /\ iv.lo = v))

BelowHi(iv, v) ==
    \/ iv.hi = NONE
    \/ iv.hi # NONE /\ (v < iv.hi \/ (iv.hi_closed /\ iv.hi = v))

IntervalContains(iv, v) == AboveLo(iv, v) /\ BelowHi(iv, v)

\* VersionSet::contains.
Contains(s, v) == \E i \in DOMAIN s : IntervalContains(s[i], v)

\* interval_nonempty.
IntervalNonempty(iv) ==
    \/ iv.lo = NONE \/ iv.hi = NONE
    \/ /\ iv.lo # NONE /\ iv.hi # NONE
       /\ iv.lo < iv.hi \/ (iv.lo = iv.hi /\ iv.lo_closed /\ iv.hi_closed)

\* max_lo_with_closed and min_hi_with_closed: does the bound of a decide?
LoDecides(a, b) == b.lo = NONE \/ (a.lo # NONE /\ b.lo # NONE /\ b.lo < a.lo)
HiDecides(a, b) == b.hi = NONE \/ (a.hi # NONE /\ b.hi # NONE /\ a.hi < b.hi)

\* The intersection of two intervals: the larger lower bound and the smaller
\* upper bound; a shared bound is closed only if it is closed on both sides.
Meet(a, b) ==
    [lo |-> IF LoDecides(a, b) THEN a.lo ELSE b.lo,
     hi |-> IF HiDecides(a, b) THEN a.hi ELSE b.hi,
     lo_closed |-> IF a.lo = b.lo THEN a.lo_closed /\ b.lo_closed
                   ELSE IF LoDecides(a, b) THEN a.lo_closed ELSE b.lo_closed,
     hi_closed |-> IF a.hi = b.hi THEN a.hi_closed /\ b.hi_closed
                   ELSE IF HiDecides(a, b) THEN a.hi_closed ELSE b.hi_closed]

\* Unbounded ends have one representation.
Canon(iv) ==
    [iv EXCEPT !.lo_closed = iv.lo = NONE \/ iv.lo_closed,
               !.hi_closed = iv.hi # NONE /\ iv.hi_closed]

\* lo_sort_key: unbounded first, then by bound, closed before open.
Before(a, b) ==
    \/ a.lo = NONE
    \/ a.lo # NONE /\ b.lo # NONE
       /\ (a.lo < b.lo \/ (a.lo = b.lo /\ (a.lo_closed \/ ~b.lo_closed)))

\* Mutant: adjacent intervals are joined only if both hold the shared point.
ConnectableBoth(a, b) ==
    \/ a.hi = NONE \/ b.lo = NONE
    \/ a.hi # NONE /\ b.lo # NONE
       /\ (b.lo < a.hi \/ (a.hi = b.lo /\ a.hi_closed /\ b.lo_closed))

\* intervals_connectable, for a sorted before b.
Connectable(a, b) ==
    \/ a.hi = NONE \/ b.lo = NONE
    \/ a.hi # NONE /\ b.lo # NONE
       /\ (b.lo < a.hi \/ (a.hi = b.lo /\ (a.hi_closed \/ b.lo_closed)))

\* Mutant: the merged interval ends where the later one does.
ExtendToLast(a, b) == [a EXCEPT !.hi = b.hi, !.hi_closed = b.hi_closed]

\* The merged interval: max_bound of the upper ends.
Extend(a, b) ==
    IF a.hi = NONE \/ (a.hi # NONE /\ b.hi # NONE /\ b.hi < a.hi) THEN a
    ELSE [a EXCEPT !.hi = b.hi,
                   !.hi_closed = b.hi_closed \/ (a.hi = b.hi /\ a.hi_closed)]

\* Mutant: only intervals that overlap in more than a point are merged.
MergeIntoOverlapping(s, iv) ==
    IF ~IntervalNonempty(iv) THEN s
    ELSE IF s = <<>> THEN <<iv>>
    ELSE IF s[Len(s)].hi # NONE /\ iv.lo # NONE /\ s[Len(s)].hi = iv.lo THEN Append(s, iv)
    ELSE IF ~Connectable(s[Len(s)], iv) THEN Append(s, iv)
    ELSE [s EXCEPT ![Len(s)] = Extend(s[Len(s)], iv)]

\* One round of normalize_intervals.
MergeInto(s, iv) ==
    IF ~IntervalNonempty(iv) THEN s
    ELSE IF s = <<>> THEN <<iv>>
    ELSE IF ~Connectable(s[Len(s)], iv) THEN Append(s, iv)
    ELSE [s EXCEPT ![Len(s)] = Extend(s[Len(s)], iv)]

-----------------------------------------------------------------------------
(* Constructors, and the operations each kind of clause performs. *)

Full == <<Iv(NONE, NONE, TRUE, FALSE)>>
Empty == <<>>
Gte(v) == <<Iv(v, NONE, TRUE, FALSE)>>
Lt(v) == <<Iv(NONE, v, TRUE, FALSE)>>
Eq(v) == <<Iv(v, v, TRUE, TRUE)>>

\* VersionSet::is_full and is_empty.
IsFull(s) == s = Full
IsEmpty(s) == s = Empty

Major(v) == (v + 1) \div (2 * Base * Base)
Minor(v) == ((v + 1) \div (2 * Base)) % Base
Patch(v) == ((v + 1) \div 2) % Base
Release(M, m, p) == 2 * (Base * Base * M + Base * m + p)

\* The first version that `~v` and `^v` exclude.
TildeBound(v) ==
    IF Minor(v) = 0 /\ Patch(v) = 0 THEN Release(Major(v) + 1, 0, 0)
    ELSE Release(Major(v), Minor(v) + 1, 0)

CaretBound(v) ==
    IF Major(v) > 0 THEN Release(Major(v) + 1, 0, 0)
    ELSE IF Minor(v) > 0 THEN Release(0, Minor(v) + 1, 0)
    ELSE IF Patch(v) > 0 THEN Release(0, 0, Patch(v) + 1)
    ELSE Release(0, 1, 0)

Op(o, s) == [op |-> o, arg |-> s]

\* Mutant: `>` is read as `>=`.
ClauseGtIsGte(c, v) ==
    CASE c \in {">=", ">"} -> <<Op("load", Gte(v)), Op("and", Empty)>>
      [] c = "<=" -> <<Op("load", Lt(v)), Op("join", Eq(v)), Op("and", Empty)>>
      [] c = "<"  -> <<Op("load", Lt(v)), Op("and", Empty)>>
      [] c = "="  -> <<Op("load", Eq(v)), Op("and", Empty)>>
      [] c = "!=" -> <<Op("load", Eq(v)), Op("not", Empty), Op("and", Empty)>>
      [] c = "~"  -> <<Op("load", Gte(v)), Op("meet", Lt(TildeBound(v))), Op("and", Empty)>>
      [] c = "^"  -> <<Op("load", Gte(v)), Op("meet", Lt(CaretBound(v))), Op("and", Empty)>>

\* parse_clause, then the intersection with the arm.
Clause(c, v) ==
    CASE c = ">=" -> <<Op("load", Gte(v)), Op("and", Empty)>>
      [] c = "<=" -> <<Op("load", Lt(v)), Op("join", Eq(v)), Op("and", Empty)>>
      [] c = ">"  -> <<Op("load", Eq(v)), Op("not", Empty), Op("meet", Gte(v)), Op("and", Empty)>>
      [] c = "<"  -> <<Op("load", Lt(v)), Op("and", Empty)>>
      [] c = "="  -> <<Op("load", Eq(v)), Op("and", Empty)>>
      [] c = "!=" -> <<Op("load", Eq(v)), Op("not", Empty), Op("and", Empty)>>
      [] c = "~"  -> <<Op("load", Gte(v)), Op("meet", Lt(TildeBound(v))), Op("and", Empty)>>
      [] c = "^"  -> <<Op("load", Gte(v)), Op("meet", Lt(CaretBound(v))), Op("and", Empty)>>

Kinds == {">=", "<=", ">", "<", "=", "!=", "~", "^"}

\* The releases that `~v` and `^v` take for compatible with v.
SamePatchLevel(v, r) ==
    Major(r) = Major(v) /\ ((Minor(v) = 0 /\ Patch(v) = 0) \/ Minor(r) = Minor(v))

SameLeftmost(v, r) ==
    /\ Major(r) = Major(v)
    /\ Major(v) = 0 => Minor(r) = Minor(v)
    /\ Major(v) = 0 /\ Minor(v) = 0 /\ Patch(v) > 0 => Patch(r) = Patch(v)

\* Nothing between v and x is an incompatible release.
UpTo(v, x, Compatible(_, _)) ==
    v <= x /\ \A r \in Points : r % 2 = 0 /\ v <= r /\ r <= x => Compatible(v, r)

\* What a clause means, as the text of a constraint is read.
Means(c, v) ==
    {x \in Points :
        CASE c = ">=" -> v <= x
          [] c = "<=" -> x <= v
          [] c = ">"  -> v < x
          [] c = "<"  -> x < v
          [] c = "="  -> x = v
          [] c = "!=" -> x # v
          [] c = "~"  -> UpTo(v, x, SamePatchLevel)
          [] c = "^"  -> UpTo(v, x, SameLeftmost)}

\* The ends of the intervals that constraints lead to.
Bounds == Named \cup {TildeBound(v) : v \in Named} \cup {CaretBound(v) : v \in Named}

\* x is the first version observed after b: of b's major, before the next bound.
Follows(x, b) ==
    /\ b < x /\ Major(x) = Major(b)
    /\ \A y \in Points : b < y => x <= y
    /\ \A c \in Bounds : b < c => x < c

\* The versions observed tell the sets apart that constraints lead to: every
\* bound is observed, one version below them all, and one right after each.
Observed ==
    /\ Bounds \subseteq Points /\ Available \subseteq Points
    /\ \E p \in Points : (\A y \in Points : p <= y) /\ \A b \in Bounds : p < b
    /\ \A b \in Bounds : \E x \in Points : Follows(x, b)

-----------------------------------------------------------------------------
(* from_constraint. *)

Registers == {"acc", "arm", "result"}

\* Before the first arm: an empty result, and an arm that allows everything.
NoSets == [r \in Registers |-> IF r = "arm" THEN Full ELSE Empty]
NoMeaning == [r \in Registers \cup {"goal", "clause"} |-> IF r = "arm" THEN Points ELSE {}]

NoPick == [version |-> NONE, strategy |-> "none", preference |-> NONE]

Init ==
    /\ reg = NoSets
    /\ mean = NoMeaning
    /\ code = <<>> /\ rest = {} /\ merged = <<>> /\ gap = 0 /\ dst = "acc"
    /\ phase = "parse" /\ arms = "none" /\ picked = NoPick

\* The next clause of the arm.
ParseClause ==
    /\ phase = "parse" /\ code = <<>>
    /\ \E c \in Kinds, v \in Named :
        /\ code' = Clause(c, v)
        /\ mean' = [mean EXCEPT !.clause = Means(c, v)]
    /\ arms' = "open"
    /\ UNCHANGED <<reg, rest, merged, gap, dst, phase, picked>>

\* A clause without an operator, or a version that does not parse.
ParseFails ==
    /\ phase = "parse" /\ code = <<>>
    /\ phase' = "error"
    /\ UNCHANGED <<reg, code, rest, merged, gap, dst, arms, picked, mean>>

\* The end of an arm, another one may follow.
EndArm ==
    /\ phase = "parse" /\ code = <<>> /\ arms = "open"
    /\ code' = <<Op("or", Empty)>>
    /\ arms' = "closed"
    /\ UNCHANGED <<reg, rest, merged, gap, dst, phase, picked, mean>>

\* An absent, empty or "any version" constraint.
AnyVersion ==
    /\ phase = "parse" /\ code = <<>> /\ arms = "none"
    /\ reg' = [reg EXCEPT !.result = Full]
    /\ mean' = [mean EXCEPT !.result = Points]
    /\ phase' = "parsed"
    /\ UNCHANGED <<code, rest, merged, gap, dst, arms, picked>>

\* The last arm has been joined.
ParseEnds ==
    /\ phase = "parse" /\ code = <<>> /\ arms = "closed"
    /\ phase' = "parsed"
    /\ UNCHANGED <<reg, code, rest, merged, gap, dst, arms, picked, mean>>

\* Starting the loop of normalize_intervals on the intervals S, for what
\* should denote g.
Normalize(S, d, g) ==
    /\ rest' = {Canon(iv) : iv \in S}
    /\ merged' = <<>>
    /\ dst' = d
    /\ phase' = "merge"
    /\ mean' = [mean EXCEPT !.goal = g]

Elements(s) == {s[i] : i \in DOMAIN s}

\* The nonempty intersections of an interval of each.
Pairs(s, t) ==
    {iv \in {Meet(a, b) : a \in Elements(s), b \in Elements(t)} : IntervalNonempty(iv)}

\* VersionSet::intersect and union.
Intersect(s, t, d, g) == Normalize(Pairs(s, t), d, g)

Union(s, t, d, g) == Normalize(Elements(s) \cup Elements(t), d, g)

Denoted(s) == {x \in Points : Contains(s, x)}

Load ==
    /\ phase = "parse" /\ code # <<>> /\ Head(code).op = "load"
    /\ reg' = [reg EXCEPT !.acc = Head(code).arg]
    /\ mean' = [mean EXCEPT !.acc = Denoted(Head(code).arg)]
    /\ code' = Tail(code)
    /\ UNCHANGED <<rest, merged, gap, dst, phase, arms, picked>>

Combine ==
    /\ phase = "parse" /\ code # <<>> /\ Head(code).op \in {"meet", "join", "and", "or"}
    /\ LET o == Head(code) IN
       \/ /\ o.op = "meet"
          /\ Intersect(o.arg, reg.acc, "acc", Denoted(o.arg) \cap mean.acc)
       \/ /\ o.op = "join"
          /\ Union(reg.acc, o.arg, "acc", mean.acc \cup Denoted(o.arg))
       \/ /\ o.op = "and"
          /\ Intersect(reg.arm, reg.acc, "arm", mean.arm \cap mean.acc)
       \/ /\ o.op = "or"
          /\ Union(reg.result, reg.arm, "result", mean.result \cup mean.arm)
    /\ code' = Tail(code)
    /\ UNCHANGED <<reg, gap, arms, picked>>

\* The gap to the left of the first interval, with which complement begins.
LeftGap(s) ==
    IF s[1].lo = NONE THEN {} ELSE {Iv(NONE, s[1].lo, TRUE, ~s[1].lo_closed)}

\* complement of acc: full for the empty set, else one gap after the other.
Complement ==
    /\ phase = "parse" /\ code # <<>> /\ Head(code).op = "not"
    /\ mean' = [mean EXCEPT !.goal = Points \ mean.acc]
    /\ IF reg.acc = Empty
       THEN /\ rest' = Elements(Full) /\ gap' = 0 /\ phase' = "merge"
       ELSE /\ rest' = LeftGap(reg.acc) /\ gap' = 1 /\ phase' = "gaps"
    /\ merged' = <<>>
    /\ dst' = "acc"
    /\ code' = Tail(code)
    /\ UNCHANGED <<reg, arms, picked>>

\* The gap after interval i, up to the next one or to the end.
Gap(s, i) ==
    IF i < Len(s) THEN {Iv(s[i].hi, s[i + 1].lo, ~s[i].hi_closed, ~s[i + 1].lo_closed)}
    ELSE IF s[i].hi = NONE THEN {} ELSE {Iv(s[i].hi, NONE, ~s[i].hi_closed, FALSE)}

EmitGap ==
    /\ phase = "gaps"
    /\ rest' = rest \cup {Canon(iv) : iv \in Gap(reg.acc, gap)}
    /\ IF gap < Len(reg.acc) THEN gap' = gap + 1 /\ UNCHANGED phase
       ELSE gap' = 0 /\ phase' = "merge"
    /\ UNCHANGED <<reg, code, merged, dst, arms, picked, mean>>

\* One round of the merge loop, in sorted order.
Merge ==
    /\ phase = "merge"
    /\ \E iv \in rest :
        /\ \A other \in rest : Before(iv, other)
        /\ merged' = MergeInto(merged, iv)
        /\ rest' = rest \ {iv}
    /\ UNCHANGED <<reg, code, gap, dst, phase, arms, picked, mean>>

\* The loop is done; a joined arm makes way for the next.
Merged ==
    /\ phase = "merge" /\ rest = {}
    /\ reg' = IF dst = "result" THEN [reg EXCEPT !.result = merged, !.arm = Full]
              ELSE [reg EXCEPT ![dst] = merged]
    /\ mean' = [mean EXCEPT ![dst] = mean.goal,
                            !.arm = IF dst = "result" THEN Points
                                    ELSE IF dst = "arm" THEN mean.goal ELSE mean.arm]
    /\ phase' = "parse"
    /\ UNCHANGED <<code, rest, merged, gap, dst, arms, picked>>

-----------------------------------------------------------------------------
(* choose_version. *)

Candidates == {v \in Available : Contains(reg.result, v)}

HasLo(s) == s # Empty /\ \A i \in DOMAIN s : s[i].lo # NONE

\* VersionSet::lower_bound, where HasLo(s).
LowerBound(s) == CHOOSE l \in {s[i].lo : i \in DOMAIN s} : \A i \in DOMAIN s : l <= s[i].lo

Greatest(S) == IF S = {} THEN NONE ELSE CHOOSE v \in S : \A w \in S : w <= v
Least(S) == IF S = {} THEN NONE ELSE CHOOSE v \in S : \A w \in S : v <= w

\* Mutant: the fallback across majors.
PickSemverFallsBack(S, s) ==
    LET same == {v \in S : HasLo(s) /\ Major(v) = Major(LowerBound(s))} IN
    IF same # {} THEN Greatest(same) ELSE Greatest(S)

\* pick_semver.
PickSemver(S, s) ==
    IF HasLo(s) THEN Greatest({v \in S : Major(v) = Major(LowerBound(s))})
    ELSE Greatest(S)

\* effective_strategy.
Effective(strategy, direct) ==
    IF strategy = "lowest-direct" THEN (IF direct THEN "minver" ELSE "maxver")
    ELSE strategy

\* pick_version: a locked version that is still allowed wins.
PickVersion(S, s, strategy, preference) ==
    IF preference \in S THEN preference
    ELSE CASE strategy = "maxver" -> Greatest(S)
           [] strategy = "minver" -> Least(S)
           [] strategy = "semver" -> PickSemver(S, s)

Pick ==
    /\ phase = "parsed"
    /\ \E strategy \in {"maxver", "minver", "semver", "lowest-direct"},
          direct \in BOOLEAN, preference \in Available \cup {NONE} :
        picked' = [version |-> PickVersion(Candidates, reg.result,
                                           Effective(strategy, direct), preference),
                   strategy |-> Effective(strategy, direct), preference |-> preference]
    /\ phase' = "picked"
    /\ UNCHANGED <<reg, code, rest, merged, gap, dst, arms, mean>>

\* The next constraint.
Again ==
    /\ phase \in {"picked", "error"}
    /\ reg' = NoSets
    /\ mean' = NoMeaning
    /\ code' = <<>> /\ rest' = {} /\ merged' = <<>> /\ gap' = 0 /\ dst' = "acc"
    /\ phase' = "parse" /\ arms' = "none" /\ picked' = NoPick

Next ==
    \/ ParseClause \/ ParseFails \/ EndArm \/ AnyVersion \/ ParseEnds
    \/ Load \/ Combine \/ Complement \/ EmitGap \/ Merge \/ Merged
    \/ Pick \/ Again

Spec == Init /\ [][Next]_vars

-----------------------------------------------------------------------------

(* The registers and the loops hold intervals and operations.              *)
TypeOK ==
    /\ reg \in [Registers -> Seq(Interval)]
    /\ code \in Seq([op : {"load", "not", "meet", "join", "and", "or"}, arg : Seq(Interval)])
    /\ rest \subseteq Interval /\ merged \in Seq(Interval)
    /\ gap \in Nat /\ dst \in Registers
    /\ phase \in {"parse", "gaps", "merge", "parsed", "picked", "error"}
    /\ arms \in {"none", "open", "closed"}
    /\ mean \in [Registers \cup {"goal", "clause"} -> SUBSET Points]

(* Every set denotes what the algebra says: intersect, union and           *)
(* complement of canonical sequences, through normalize_intervals, contain *)
(* exactly the versions of the set-theoretic operation.                    *)
Denotes == \A r \in Registers, x \in Points : Contains(reg[r], x) <=> x \in mean[r]

Canonical(s) ==
    /\ \A i \in DOMAIN s : IntervalNonempty(s[i]) /\ Canon(s[i]) = s[i]
    /\ \A i, j \in DOMAIN s : i < j => Before(s[i], s[j]) /\ ~Connectable(s[i], s[j])

(* Every set is canonical: its intervals are nonempty, sorted, and no two  *)
(* could be merged, also when intervals meet in one point that only one of *)
(* them holds (normalize_intervals).                                       *)
AlwaysCanonical == \A r \in Registers : Canonical(reg[r])

(* Structural equality is set equality (the comment of VersionSet): two    *)
(* sets with the same versions are the same sequence, and a set is full or *)
(* empty exactly when is_full and is_empty say so.                         *)
EqualityIsSemantic ==
    \A r \in Registers :
        /\ \A q \in Registers : mean[r] = mean[q] => reg[r] = reg[q]
        /\ IsFull(reg[r]) <=> mean[r] = Points
        /\ IsEmpty(reg[r]) <=> mean[r] = {}

(* A clause has been read as it is written when it reaches its arm, also   *)
(* the ones that are built from other operators (`>`, `<=`, `!=`) or up to *)
(* the first incompatible release (`~`, `^`).                              *)
ClauseIsRead == code = <<Op("and", Empty)>> /\ phase = "parse" => mean.acc = mean.clause

(* What choose_version picks is available and allowed; a locked version    *)
(* that is still allowed is kept, else maxver and minver take the extreme, *)
(* and semver the greatest one of the major in which the allowed versions  *)
(* begin, and none at all rather than one of another major.                *)
PickIsRight ==
    phase = "picked" =>
        LET ok == Available \cap mean.result
            v == picked.version
            floor == Least(mean.result)
            bounded == Least(Points) \notin mean.result
            mates == {w \in ok : bounded => Major(w) = Major(floor)} IN
        /\ picked.preference \in ok => v = picked.preference
        /\ picked.preference \notin ok =>
             CASE picked.strategy = "maxver" -> v = Greatest(ok)
               [] picked.strategy = "minver" -> v = Least(ok)
               [] picked.strategy = "semver" -> v = Greatest(mates)
=============================================================================
