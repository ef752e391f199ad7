------------------------- MODULE VersionSetsProofs --------------------------
(***************************************************************************)
(* For every set of versions a constraint can name, and every version:     *)
(* the sets that from_constraint builds contain exactly what the algebra   *)
(* says, and are canonical.                                                *)
(***************************************************************************)
EXTENDS VersionSets, TLAPS

-----------------------------------------------------------------------------
(* Intervals. *)

(* An interval's type, field by field.                                     *)
LEMMA IntervalFields ==
    ASSUME NEW a \in Interval
    PROVE  a.lo \in OptInt /\ a.hi \in OptInt /\ a.lo_closed \in BOOLEAN /\ a.hi_closed \in BOOLEAN
  BY DEF Interval

(* An interval that interval_nonempty rejects has no version.              *)
LEMMA EmptyInterval ==
    ASSUME NEW a \in Interval, NEW x \in Int, ~IntervalNonempty(a)
    PROVE  ~IntervalContains(a, x)
  BY NoneAssumption DEF Interval, OptInt, IntervalNonempty, IntervalContains, AboveLo, BelowHi

(* Giving unbounded ends their one representation changes no membership.   *)
LEMMA CanonSame ==
    ASSUME NEW a \in Interval
    PROVE  /\ Canon(a) \in Interval /\ Canon(Canon(a)) = Canon(a)
           /\ \A x \in Int : IntervalContains(Canon(a), x) <=> IntervalContains(a, x)
  BY DEF Interval, Canon, IntervalContains, AboveLo, BelowHi

(* The intersection of two intervals has the versions of both.             *)
LEMMA MeetContains ==
    ASSUME NEW a \in Interval, NEW b \in Interval
    PROVE  /\ Meet(a, b) \in Interval
           /\ \A x \in Int : IntervalContains(Meet(a, b), x) <=>
                             IntervalContains(a, x) /\ IntervalContains(b, x)
  <1>1. Meet(a, b) \in Interval
    BY DEF Interval, Meet
  <1>2. ASSUME NEW x \in Int
        PROVE  AboveLo(Meet(a, b), x) <=> AboveLo(a, x) /\ AboveLo(b, x)
    BY NoneAssumption DEF Interval, OptInt, Meet, LoDecides, AboveLo
  <1>3. ASSUME NEW x \in Int
        PROVE  BelowHi(Meet(a, b), x) <=> BelowHi(a, x) /\ BelowHi(b, x)
    BY NoneAssumption DEF Interval, OptInt, Meet, HiDecides, BelowHi
  <1>4. QED BY <1>1, <1>2, <1>3 DEF IntervalContains

(* Two connectable intervals in order merge into their union.              *)
LEMMA ExtendContains ==
    ASSUME NEW a \in Interval, NEW b \in Interval, Before(a, b), Connectable(a, b),
           IntervalNonempty(a), IntervalNonempty(b), Canon(a) = a, Canon(b) = b
    PROVE  /\ Extend(a, b) \in Interval /\ Canon(Extend(a, b)) = Extend(a, b)
           /\ IntervalNonempty(Extend(a, b))
           /\ Extend(a, b).lo = a.lo /\ Extend(a, b).lo_closed = a.lo_closed
           /\ \A x \in Int : IntervalContains(Extend(a, b), x) <=>
                             IntervalContains(a, x) \/ IntervalContains(b, x)
  <1>1. /\ a.lo \in OptInt /\ a.hi \in OptInt /\ a.lo_closed \in BOOLEAN /\ a.hi_closed \in BOOLEAN
        /\ b.lo \in OptInt /\ b.hi \in OptInt /\ b.lo_closed \in BOOLEAN /\ b.hi_closed \in BOOLEAN
    BY IntervalFields
  <1>2. /\ a.lo = NONE => a.lo_closed
        /\ a.hi = NONE => ~a.hi_closed
        /\ b.hi = NONE => ~b.hi_closed
    BY <1>1 DEF Canon, Interval
  <1>3. /\ Extend(a, b) \in Interval
        /\ Extend(a, b).lo = a.lo /\ Extend(a, b).lo_closed = a.lo_closed
    BY DEF Extend, Interval
  <1>4. Extend(a, b).hi = NONE => ~Extend(a, b).hi_closed
    BY <1>1, <1>2 DEF Extend, Interval
  <1>5. Canon(Extend(a, b)) = Extend(a, b)
    BY <1>1, <1>2, <1>3, <1>4 DEF Canon, Interval
  <1>6. IntervalNonempty(Extend(a, b))
    BY <1>1, NoneAssumption DEF Extend, Interval, OptInt, IntervalNonempty, Before, Connectable
  <1>7. ASSUME NEW x \in Int
        PROVE  IntervalContains(Extend(a, b), x) <=>
               IntervalContains(a, x) \/ IntervalContains(b, x)
    <2>1. AboveLo(b, x) => AboveLo(a, x)
      BY <1>1, NoneAssumption DEF OptInt, AboveLo, Before
    <2>2. BelowHi(Extend(a, b), x) <=> BelowHi(a, x) \/ BelowHi(b, x)
      BY <1>1, NoneAssumption DEF OptInt, BelowHi, Extend, Interval
    <2>3. AboveLo(Extend(a, b), x) <=> AboveLo(a, x)
      BY <1>3 DEF AboveLo
    <2>4. ~BelowHi(a, x) => AboveLo(b, x)
      BY <1>1, NoneAssumption DEF OptInt, BelowHi, AboveLo, Connectable
    <2>5. QED BY <2>1, <2>2, <2>3, <2>4 DEF IntervalContains
  <1>8. QED BY <1>3, <1>5, <1>6, <1>7

-----------------------------------------------------------------------------
(* One round of normalize_intervals. *)

(* An index that is not the last one is before it.                         *)
LEMMA NotLast == \A i, n \in Nat : i <= n /\ i # n => i < n
  OBVIOUS

\* Nothing in S sorts before the last interval of s.
Leads(s, S) == s # <<>> => \A iv \in S : Before(s[Len(s)], iv)

(* A round keeps the merged prefix canonical, adds exactly the versions of *)
(* the interval, and stays ahead of what is left.                          *)
LEMMA MergeIntoRight ==
    ASSUME NEW s \in Seq(Interval), NEW iv \in Interval, NEW S \in SUBSET Interval,
           Canonical(s), Canon(iv) = iv, Leads(s, S \cup {iv}),
           \A other \in S : Before(iv, other)
    PROVE  /\ MergeInto(s, iv) \in Seq(Interval) /\ Canonical(MergeInto(s, iv))
           /\ Leads(MergeInto(s, iv), S)
           /\ \A x \in Int : Contains(MergeInto(s, iv), x) <=>
                             Contains(s, x) \/ IntervalContains(iv, x)
  <1>1. CASE ~IntervalNonempty(iv)
    BY <1>1, EmptyInterval DEF MergeInto, Leads
  <1>2. CASE IntervalNonempty(iv) /\ s = <<>>
    <2>1. MergeInto(s, iv) = <<iv>>
      BY <1>2 DEF MergeInto
    <2>2. /\ <<iv>> \in Seq(Interval) /\ Len(<<iv>>) = 1 /\ DOMAIN <<iv>> = {1}
          /\ <<iv>>[1] = iv
      OBVIOUS
    <2>3. Canonical(<<iv>>)
      BY <1>2, <2>2 DEF Canonical
    <2>4. Leads(<<iv>>, S)
      BY <2>2 DEF Leads
    <2>5. \A x \in Int : Contains(<<iv>>, x) <=> IntervalContains(iv, x)
      BY <2>2 DEF Contains
    <2>6. \A x \in Int : ~Contains(s, x)
      BY <1>2 DEF Contains
    <2>7. QED BY <2>1, <2>2, <2>3, <2>4, <2>5, <2>6
  <1>3. CASE IntervalNonempty(iv) /\ s # <<>> /\ ~Connectable(s[Len(s)], iv)
    <2> DEFINE t == Append(s, iv)
    <2>1. /\ MergeInto(s, iv) = t /\ t \in Seq(Interval) /\ Len(t) = Len(s) + 1
          /\ Len(s) \in Nat \ {0} /\ t[Len(t)] = iv
          /\ DOMAIN s = 1 .. Len(s) /\ DOMAIN t = 1 .. Len(s) + 1
          /\ \A i \in 1 .. Len(s) : t[i] = s[i] /\ s[i] \in Interval
      BY <1>3 DEF MergeInto
    <2> HIDE DEF t
    <2>2. \A x \in Int : Contains(t, x) <=> Contains(s, x) \/ IntervalContains(iv, x)
      BY <2>1 DEF Contains
    <2>3. ASSUME NEW i \in 1 .. Len(s)
          PROVE  Before(s[i], iv) /\ ~Connectable(s[i], iv)
      <3>1. s[i] \in Interval /\ s[Len(s)] \in Interval /\ IntervalNonempty(s[Len(s)])
            /\ IntervalNonempty(s[i])
        BY <2>1 DEF Canonical
      <3>2. Before(s[Len(s)], iv)
        BY <1>3 DEF Leads
      <3>3. CASE i = Len(s)
        BY <1>3, <3>2, <3>3
      <3>4. CASE i # Len(s)
        <4>1. i \in DOMAIN s /\ Len(s) \in DOMAIN s /\ i < Len(s)
          <5>1. Len(s) \in Nat /\ DOMAIN s = 1 .. Len(s)
            OBVIOUS
          <5>2. i \in Nat /\ 1 <= i /\ i <= Len(s)
            BY <2>3, <5>1
          <5>3. i # Len(s)
            BY <3>4
          <5>4. Len(s) # 0
            BY <5>1, <5>2
          <5>5. i < Len(s)
            BY <5>1, <5>2, <5>3, NotLast
          <5>6. i \in DOMAIN s
            BY <5>1, <5>2
          <5>7. Len(s) \in DOMAIN s
            BY <5>1, <5>4
          <5>8. QED BY <5>5, <5>6, <5>7
        <4>2. Before(s[i], s[Len(s)]) /\ ~Connectable(s[i], s[Len(s)])
          BY <4>1 DEF Canonical
        <4>3. QED BY <3>1, <3>2, <4>2, NoneAssumption, IntervalFields
                 DEF Before, Connectable, OptInt
      <3>5. QED BY <3>3, <3>4
    <2>4. Canonical(t)
      BY <1>3, <2>1, <2>3 DEF Canonical
    <2>5. Leads(t, S)
      BY <2>1 DEF Leads
    <2>6. QED BY <2>1, <2>2, <2>4, <2>5
  <1>4. CASE IntervalNonempty(iv) /\ s # <<>> /\ Connectable(s[Len(s)], iv)
    <2> DEFINE n == Len(s)
               e == Extend(s[n], iv)
               t == [s EXCEPT ![n] = e]
    <2>1. /\ n \in Nat \ {0} /\ DOMAIN s = 1 .. n /\ \A i \in 1 .. n : s[i] \in Interval
          /\ MergeInto(s, iv) = t
      BY <1>4 DEF MergeInto
    <2>2. /\ IntervalNonempty(s[n]) /\ Canon(s[n]) = s[n] /\ Before(s[n], iv)
          /\ s[n] \in Interval
      BY <1>4, <2>1 DEF Canonical, Leads
    <2>3. /\ e \in Interval /\ Canon(e) = e /\ IntervalNonempty(e)
          /\ e.lo = s[n].lo /\ e.lo_closed = s[n].lo_closed
          /\ \A x \in Int : IntervalContains(e, x) <=>
                            IntervalContains(s[n], x) \/ IntervalContains(iv, x)
      BY <1>4, <2>2, ExtendContains
    <2> HIDE DEF e
    <2>4. /\ t \in Seq(Interval) /\ Len(t) = n /\ DOMAIN t = 1 .. n /\ t[n] = e
          /\ \A i \in 1 .. n : i # n => t[i] = s[i]
      <3> HIDE DEF n
      <3>1. t = [i \in 1 .. n |-> IF i = n THEN e ELSE s[i]]
        BY <2>1
      <3>2. t \in [1 .. n -> Interval]
        BY <2>1, <2>3, <3>1
      <3>3. t \in Seq(Interval) /\ Len(t) = n
        BY <2>1, <3>2
      <3>4. QED BY <2>1, <3>1, <3>3
    <2> HIDE DEF t, n
    <2>5. \A x \in Int : Contains(t, x) <=> Contains(s, x) \/ IntervalContains(iv, x)
      BY <2>1, <2>3, <2>4 DEF Contains
    <2>6. ASSUME NEW i \in 1 .. n, NEW j \in 1 .. n, i < j
          PROVE  Before(t[i], t[j]) /\ ~Connectable(t[i], t[j])
      <3>1. Before(s[i], s[j]) /\ ~Connectable(s[i], s[j]) /\ t[i] = s[i]
        BY <2>1, <2>4, <2>6 DEF Canonical
      <3>2. t[j].lo = s[j].lo /\ t[j].lo_closed = s[j].lo_closed
        BY <2>3, <2>4
      <3>3. QED BY <3>1, <3>2 DEF Before, Connectable
    <2>7. Canonical(t)
      BY <2>1, <2>3, <2>4, <2>6 DEF Canonical
    <2>8. Leads(t, S)
      <3>1. \A o \in S : Before(s[n], o)
        BY <1>4 DEF Leads, n
      <3>2. QED BY <2>3, <2>4, <3>1 DEF Leads, Before
    <2>9. QED BY <2>1, <2>4, <2>5, <2>7, <2>8
  <1>5. QED BY <1>1, <1>2, <1>3, <1>4

-----------------------------------------------------------------------------
(* Canonical sequences, and the gaps that complement emits. *)

(* A single interval is canonical, and denotes itself.                     *)
LEMMA Single ==
    ASSUME NEW iv \in Interval, IntervalNonempty(iv), Canon(iv) = iv
    PROVE  /\ <<iv>> \in Seq(Interval) /\ Canonical(<<iv>>)
           /\ \A x \in Int : Contains(<<iv>>, x) <=> IntervalContains(iv, x)
  <1>1. /\ <<iv>> \in Seq(Interval) /\ DOMAIN <<iv>> = {1} /\ <<iv>>[1] = iv
    OBVIOUS
  <1>2. QED BY <1>1 DEF Canonical, Contains

(* The intervals of a canonical sequence lie apart, in order.              *)
LEMMA CanonicalOrder ==
    ASSUME NEW s \in Seq(Interval), Canonical(s), NEW x \in Int
    PROVE  /\ \A i \in DOMAIN s : AboveLo(s[i], x) \/ BelowHi(s[i], x)
           /\ \A i, j \in DOMAIN s : i < j /\ AboveLo(s[j], x) =>
                                     AboveLo(s[i], x) /\ ~BelowHi(s[i], x)
           /\ \A i, j \in DOMAIN s : i < j => s[i].hi # NONE /\ s[j].lo # NONE
  <1>1. \A i \in DOMAIN s : s[i] \in Interval
    OBVIOUS
  <1>2. ASSUME NEW i \in DOMAIN s
        PROVE  AboveLo(s[i], x) \/ BelowHi(s[i], x)
    <2>1. IntervalNonempty(s[i]) /\ s[i] \in Interval
      BY <1>1 DEF Canonical
    <2>2. QED BY <2>1, IntervalFields, NoneAssumption
             DEF AboveLo, BelowHi, IntervalNonempty, OptInt
  <1>3. ASSUME NEW i \in DOMAIN s, NEW j \in DOMAIN s, i < j
        PROVE  /\ AboveLo(s[j], x) => AboveLo(s[i], x) /\ ~BelowHi(s[i], x)
               /\ s[i].hi # NONE /\ s[j].lo # NONE
    <2>1. s[i] \in Interval /\ s[j] \in Interval
      BY <1>1
    <2>2. Before(s[i], s[j]) /\ ~Connectable(s[i], s[j])
      BY <1>3 DEF Canonical
    <2>3. QED BY <2>1, <2>2, IntervalFields, NoneAssumption
             DEF AboveLo, BelowHi, Before, Connectable, OptInt
  <1>4. QED BY <1>2, <1>3

(* Turned round, an end of an interval has exactly the versions the        *)
(* interval excludes at that end.                                          *)
LEMMA TurnedRound ==
    ASSUME NEW a \in Interval, NEW r, NEW x \in Int
    PROVE  /\ a.hi # NONE /\ r.lo = a.hi /\ (r.lo_closed <=> ~a.hi_closed) =>
                (AboveLo(r, x) <=> ~BelowHi(a, x))
           /\ a.lo # NONE /\ r.hi = a.lo /\ (r.hi_closed <=> ~a.lo_closed) =>
                (BelowHi(r, x) <=> ~AboveLo(a, x))
  <1>1. a.lo \in OptInt /\ a.hi \in OptInt
    BY IntervalFields
  <1>2. ASSUME a.hi # NONE, r.lo = a.hi, r.lo_closed <=> ~a.hi_closed
        PROVE  AboveLo(r, x) <=> ~BelowHi(a, x)
    <2>1. a.hi \in Int
      BY <1>1, <1>2 DEF OptInt
    <2>2. BelowHi(a, x) <=> x < a.hi \/ (a.hi_closed /\ a.hi = x)
      BY <1>2 DEF BelowHi
    <2>3. AboveLo(r, x) <=> a.hi < x \/ (~a.hi_closed /\ a.hi = x)
      BY <1>2 DEF AboveLo
    <2>4. x < a.hi \/ a.hi < x \/ a.hi = x
      BY <2>1
    <2>5. ~(x < a.hi /\ a.hi < x) /\ (a.hi = x => ~(x < a.hi) /\ ~(a.hi < x))
      BY <2>1
    <2>6. QED BY <2>2, <2>3, <2>4, <2>5
  <1>3. ASSUME a.lo # NONE, r.hi = a.lo, r.hi_closed <=> ~a.lo_closed
        PROVE  BelowHi(r, x) <=> ~AboveLo(a, x)
    <2>1. a.lo \in Int
      BY <1>1, <1>3 DEF OptInt
    <2>2. AboveLo(a, x) <=> a.lo < x \/ (a.lo_closed /\ a.lo = x)
      BY <1>3 DEF AboveLo
    <2>3. BelowHi(r, x) <=> x < a.lo \/ (~a.lo_closed /\ a.lo = x)
      BY <1>3 DEF BelowHi
    <2>4. x < a.lo \/ a.lo < x \/ a.lo = x
      BY <2>1
    <2>5. ~(x < a.lo /\ a.lo < x) /\ (a.lo = x => ~(x < a.lo) /\ ~(a.lo < x))
      BY <2>1
    <2>6. QED BY <2>2, <2>3, <2>4, <2>5
  <1>4. QED BY <1>2, <1>3

\* The versions before interval i that s leaves out.
LeftOf(s, i, x) == ~AboveLo(s[i], x) /\ ~Contains(s, x)

(* complement begins with the versions to the left of every interval.      *)
LEMMA LeftGapRight ==
    ASSUME NEW s \in Seq(Interval), Canonical(s), s # <<>>
    PROVE  /\ LeftGap(s) \subseteq Interval /\ \A iv \in LeftGap(s) : Canon(iv) = iv
           /\ \A x \in Int : (\E iv \in LeftGap(s) : IntervalContains(iv, x)) <=> LeftOf(s, 1, x)
  <1>1. 1 \in DOMAIN s /\ s[1] \in Interval /\ \A i \in DOMAIN s : i = 1 \/ 1 < i
    <2>1. Len(s) \in Nat \ {0} /\ DOMAIN s = 1 .. Len(s)
      OBVIOUS
    <2>2. QED BY <2>1
  <1>2. /\ LeftGap(s) \subseteq Interval /\ \A iv \in LeftGap(s) : Canon(iv) = iv
    <2>1. CASE s[1].lo = NONE
      BY <2>1 DEF LeftGap
    <2>2. CASE s[1].lo # NONE
      <3> DEFINE r == Iv(NONE, s[1].lo, TRUE, ~s[1].lo_closed)
      <3>1. LeftGap(s) = {r}
        BY <2>2 DEF LeftGap
      <3>2. s[1].lo \in OptInt /\ s[1].lo_closed \in BOOLEAN
        BY <1>1, IntervalFields
      <3>3. r \in Interval
        BY <3>2 DEF Iv, Interval, OptInt
      <3>4. Canon(r) = r
        <4>1. /\ r.lo = NONE /\ r.hi = s[1].lo /\ r.lo_closed = TRUE
              /\ r.hi_closed = ~s[1].lo_closed
          BY DEF Iv
        <4>2. r.hi_closed \in BOOLEAN
          BY <4>1
        <4> HIDE DEF r
        <4>3. (r.lo = NONE \/ r.lo_closed) = r.lo_closed
          BY <4>1
        <4>4. (r.hi # NONE /\ r.hi_closed) = r.hi_closed
          BY <2>2, <4>1, <4>2
        <4>5. QED BY <3>3, <4>3, <4>4 DEF Canon, Interval
      <3>5. QED BY <3>1, <3>3, <3>4
    <2>3. QED BY <2>1, <2>2
  <1>3. ASSUME NEW x \in Int
        PROVE  (\E iv \in LeftGap(s) : IntervalContains(iv, x)) <=> LeftOf(s, 1, x)
    <2>1. (\E iv \in LeftGap(s) : IntervalContains(iv, x)) <=> ~AboveLo(s[1], x)
      <3>1. CASE s[1].lo = NONE
        BY <3>1 DEF LeftGap, AboveLo
      <3>2. CASE s[1].lo # NONE
        <4> DEFINE r == Iv(NONE, s[1].lo, TRUE, ~s[1].lo_closed)
        <4>1. r.lo = NONE /\ r.hi = s[1].lo /\ (r.hi_closed <=> ~s[1].lo_closed)
          BY DEF Iv
        <4>2. LeftGap(s) = {r}
          BY <3>2 DEF LeftGap
        <4> HIDE DEF r
        <4>3. BelowHi(r, x) <=> ~AboveLo(s[1], x)
          BY <1>1, <3>2, <4>1, TurnedRound
        <4>4. AboveLo(r, x)
          BY <4>1 DEF AboveLo
        <4>5. QED BY <4>2, <4>3, <4>4 DEF IntervalContains
      <3>3. QED BY <3>1, <3>2
    <2>2. ~AboveLo(s[1], x) => ~Contains(s, x)
      BY <1>1, CanonicalOrder DEF Contains, IntervalContains
    <2>3. QED BY <2>1, <2>2 DEF LeftOf
  <1>4. QED BY <1>2, <1>3

(* The gap after an interval has the versions above it that come before    *)
(* the next interval.                                                      *)
LEMMA GapContains ==
    ASSUME NEW s \in Seq(Interval), Canonical(s), NEW g \in 1 .. Len(s), NEW x \in Int
    PROVE  (\E iv \in Gap(s, g) : IntervalContains(Canon(iv), x)) <=>
           ~BelowHi(s[g], x) /\ (g < Len(s) => ~AboveLo(s[g + 1], x))
  <1>1. Len(s) \in Nat /\ DOMAIN s = 1 .. Len(s) /\ g \in DOMAIN s /\ g \in Nat
    OBVIOUS
  <1>2. s[g] \in Interval
    BY <1>1
  <1>3. CASE g < Len(s)
    <2>1. g + 1 \in DOMAIN s /\ g < g + 1
      BY <1>1, <1>3
    <2>2. s[g + 1] \in Interval /\ s[g].hi # NONE /\ s[g + 1].lo # NONE
      BY <1>1, <2>1, CanonicalOrder
    <2> DEFINE iv == Iv(s[g].hi, s[g + 1].lo, ~s[g].hi_closed, ~s[g + 1].lo_closed)
    <2>3. iv \in Interval
      BY <1>2, <2>2, IntervalFields DEF Iv, Interval
    <2>4. /\ iv.lo = s[g].hi /\ (iv.lo_closed <=> ~s[g].hi_closed)
          /\ iv.hi = s[g + 1].lo /\ (iv.hi_closed <=> ~s[g + 1].lo_closed)
      BY DEF Iv
    <2>5. Gap(s, g) = {iv}
      BY <1>3 DEF Gap
    <2> HIDE DEF iv
    <2>6. AboveLo(iv, x) <=> ~BelowHi(s[g], x)
      BY <1>2, <2>2, <2>4, TurnedRound
    <2>7. BelowHi(iv, x) <=> ~AboveLo(s[g + 1], x)
      BY <2>2, <2>4, TurnedRound
    <2>8. IntervalContains(Canon(iv), x) <=> IntervalContains(iv, x)
      BY <2>3, CanonSame
    <2>9. QED BY <1>3, <2>5, <2>6, <2>7, <2>8 DEF IntervalContains
  <1>4. CASE ~(g < Len(s)) /\ s[g].hi = NONE
    BY <1>2, <1>4 DEF Gap, BelowHi
  <1>5. CASE ~(g < Len(s)) /\ s[g].hi # NONE
    <2> DEFINE iv == Iv(s[g].hi, NONE, ~s[g].hi_closed, FALSE)
    <2>1. iv \in Interval
      BY <1>2, IntervalFields DEF Iv, Interval, OptInt
    <2>2. iv.lo = s[g].hi /\ (iv.lo_closed <=> ~s[g].hi_closed) /\ iv.hi = NONE
      BY DEF Iv
    <2>3. Gap(s, g) = {iv}
      BY <1>5 DEF Gap
    <2> HIDE DEF iv
    <2>4. AboveLo(iv, x) <=> ~BelowHi(s[g], x)
      BY <1>2, <1>5, <2>2, TurnedRound
    <2>5. BelowHi(iv, x)
      BY <2>2 DEF BelowHi
    <2>6. IntervalContains(Canon(iv), x) <=> IntervalContains(iv, x)
      BY <2>1, CanonSame
    <2>7. QED BY <1>5, <2>3, <2>4, <2>5, <2>6 DEF IntervalContains
  <1>6. QED BY <1>3, <1>4, <1>5

(* With its gap, the versions left out before an interval become those     *)
(* left out before the next one, and after the last one, all of them.      *)
LEMMA GapRight ==
    ASSUME NEW s \in Seq(Interval), Canonical(s), NEW g \in 1 .. Len(s), NEW x \in Int
    PROVE  LeftOf(s, g, x) \/ (\E iv \in Gap(s, g) : IntervalContains(Canon(iv), x)) <=>
           IF g < Len(s) THEN LeftOf(s, g + 1, x) ELSE ~Contains(s, x)
  <1>1. Len(s) \in Nat /\ DOMAIN s = 1 .. Len(s) /\ g \in DOMAIN s /\ g \in Nat
    OBVIOUS
  <1>2. AboveLo(s[g], x) \/ BelowHi(s[g], x)
    BY <1>1, CanonicalOrder
  <1>3. ASSUME NEW i \in DOMAIN s, i < g, AboveLo(s[g], x)
        PROVE  ~IntervalContains(s[i], x)
    BY <1>1, <1>3, CanonicalOrder DEF IntervalContains
  <1>4. CASE g < Len(s)
    <2>1. g + 1 \in DOMAIN s /\ g < g + 1
      BY <1>1, <1>4
    <2>2. ~AboveLo(s[g], x) => ~AboveLo(s[g + 1], x)
      BY <1>1, <2>1, CanonicalOrder
    <2>3. ASSUME NEW i \in DOMAIN s, g < i, ~AboveLo(s[g + 1], x)
          PROVE  ~IntervalContains(s[i], x)
      <3>1. i = g + 1 \/ g + 1 < i
        BY <1>1, <2>3
      <3>2. QED BY <2>1, <2>3, <3>1, CanonicalOrder DEF IntervalContains
    <2>4. ~BelowHi(s[g], x) /\ ~AboveLo(s[g + 1], x) => ~Contains(s, x)
      <3>1. \A i \in DOMAIN s : i < g \/ i = g \/ g < i
        BY <1>1
      <3>2. QED BY <1>2, <1>3, <2>3, <3>1 DEF Contains, IntervalContains
    <2>5. AboveLo(s[g], x) /\ ~Contains(s, x) => ~BelowHi(s[g], x)
      BY <1>1 DEF Contains, IntervalContains
    <2>6. (\E iv \in Gap(s, g) : IntervalContains(Canon(iv), x)) <=>
          ~BelowHi(s[g], x) /\ ~AboveLo(s[g + 1], x)
      BY <1>4, GapContains
    <2>7. QED BY <1>4, <2>2, <2>4, <2>5, <2>6 DEF LeftOf
  <1>5. CASE ~(g < Len(s))
    <2>1. \A i \in DOMAIN s : i < g \/ i = g
      BY <1>1, <1>5
    <2>2. ~BelowHi(s[g], x) => ~Contains(s, x)
      BY <1>2, <1>3, <2>1 DEF Contains, IntervalContains
    <2>3. AboveLo(s[g], x) /\ ~Contains(s, x) => ~BelowHi(s[g], x)
      BY <1>1 DEF Contains, IntervalContains
    <2>4. (\E iv \in Gap(s, g) : IntervalContains(Canon(iv), x)) <=> ~BelowHi(s[g], x)
      BY <1>5, GapContains
    <2>5. QED BY <1>5, <2>2, <2>3, <2>4 DEF LeftOf
  <1>6. QED BY <1>4, <1>5

-----------------------------------------------------------------------------
(* The constructors and the operations of a clause. *)

(* The first version a `~` or `^` clause excludes is a version.            *)
LEMMA BoundsInt ==
    ASSUME NEW v \in Int
    PROVE  TildeBound(v) \in Int /\ CaretBound(v) \in Int
  <1>1. Base \in Int /\ Base * Base \in Int /\ 2 * Base * Base \in Int /\ 2 * Base \in Int
    BY BaseAssumption
  <1>2. Base * Base > 0
    BY BaseAssumption
  <1>3. 2 * Base * Base > 0 /\ 2 * Base > 0 /\ Base > 0
    BY <1>1, <1>2, BaseAssumption
  <1>4. Major(v) \in Int /\ Minor(v) \in Int /\ Patch(v) \in Int
    BY <1>1, <1>3 DEF Major, Minor, Patch
  <1>5. \A M, m, p \in Int : Release(M, m, p) \in Int
    BY <1>1 DEF Release
  <1>6. /\ Major(v) + 1 \in Int /\ Minor(v) + 1 \in Int /\ Patch(v) + 1 \in Int
        /\ 0 \in Int /\ 1 \in Int
    BY <1>4
  <1>7. /\ Release(Major(v) + 1, 0, 0) \in Int /\ Release(Major(v), Minor(v) + 1, 0) \in Int
        /\ Release(0, Minor(v) + 1, 0) \in Int /\ Release(0, 0, Patch(v) + 1) \in Int
        /\ Release(0, 1, 0) \in Int
    BY <1>4, <1>5, <1>6, Zenon
  <1>8. TildeBound(v) \in Int
    BY <1>7 DEF TildeBound
  <1>9. CaretBound(v) \in Int
    BY <1>7 DEF CaretBound
  <1>10. QED BY <1>8, <1>9

(* full, gte, lt and eq build one canonical interval.                      *)
LEMMA Constructors ==
    ASSUME NEW v \in Int
    PROVE  /\ Full \in Seq(Interval) /\ Canonical(Full)
           /\ Gte(v) \in Seq(Interval) /\ Canonical(Gte(v))
           /\ Lt(v) \in Seq(Interval) /\ Canonical(Lt(v))
           /\ Eq(v) \in Seq(Interval) /\ Canonical(Eq(v))
           /\ \A x \in Int : Contains(Full, x)
  <1>1. \A l, h \in OptInt, lc, hc \in BOOLEAN : Iv(l, h, lc, hc) \in Interval
    BY DEF Iv, Interval
  <1>2. v \in OptInt /\ NONE \in OptInt /\ v # NONE
    BY NoneAssumption DEF OptInt
  <1>3. ASSUME NEW iv \in {Iv(NONE, NONE, TRUE, FALSE), Iv(v, NONE, TRUE, FALSE),
                           Iv(NONE, v, TRUE, FALSE), Iv(v, v, TRUE, TRUE)}
        PROVE  iv \in Interval /\ IntervalNonempty(iv) /\ Canon(iv) = iv
    <2>1. iv \in Interval
      BY <1>1, <1>2
    <2>2. IntervalNonempty(iv)
      BY <1>2 DEF Iv, IntervalNonempty
    <2>3. Canon(iv) = iv
      <3>1. (iv.lo = NONE => iv.lo_closed) /\ (iv.hi = NONE => ~iv.hi_closed)
        BY <1>2 DEF Iv
      <3>2. /\ iv.lo \in OptInt /\ iv.hi \in OptInt
            /\ iv.lo_closed \in BOOLEAN /\ iv.hi_closed \in BOOLEAN
        BY <2>1, IntervalFields
      <3>3. QED BY <2>1, <3>1, <3>2 DEF Canon, Interval
    <2>4. QED BY <2>1, <2>2, <2>3
  <1>4. \A x \in Int : IntervalContains(Iv(NONE, NONE, TRUE, FALSE), x)
    BY DEF Iv, IntervalContains, AboveLo, BelowHi
  <1>5. QED BY <1>3, <1>4, Single DEF Full, Gte, Lt, Eq

\* Operations whose operand is a canonical set.
GoodOp == {o \in [op : {"load", "not", "meet", "join", "and", "or"}, arg : Seq(Interval)] :
             Canonical(o.arg)}

(* The operations of a clause have canonical operands.                     *)
LEMMA ClauseGood ==
    ASSUME NEW c \in Kinds, NEW v \in Int
    PROVE  Clause(c, v) \in Seq(GoodOp)
  <1>1. \A s : s \in Seq(Interval) /\ Canonical(s) =>
              \A o \in {"load", "not", "meet", "join", "and", "or"} : Op(o, s) \in GoodOp
    BY DEF Op, GoodOp
  <1>2. Empty \in Seq(Interval) /\ Canonical(Empty)
    BY DEF Empty, Canonical
  <1>3. \A o \in {"not", "and"} : Op(o, Empty) \in GoodOp
    BY <1>1, <1>2
  <1>4. \A w \in Int : /\ Op("load", Gte(w)) \in GoodOp /\ Op("meet", Gte(w)) \in GoodOp
                       /\ Op("load", Lt(w)) \in GoodOp /\ Op("meet", Lt(w)) \in GoodOp
                       /\ Op("load", Eq(w)) \in GoodOp /\ Op("join", Eq(w)) \in GoodOp
    BY <1>1, Constructors
  <1>5. TildeBound(v) \in Int /\ CaretBound(v) \in Int
    BY BoundsInt
  <1>6. \A a, b, d, e \in GoodOp : /\ <<a, b>> \in Seq(GoodOp) /\ <<a, b, d>> \in Seq(GoodOp)
                                  /\ <<a, b, d, e>> \in Seq(GoodOp)
    OBVIOUS
  <1>7. QED BY <1>3, <1>4, <1>5, <1>6 DEF Clause, Kinds

-----------------------------------------------------------------------------
(* The inductive invariant. *)

\* What the intervals of S have in common with x.
InSome(S, x) == \E iv \in S : IntervalContains(iv, x)

\* normalize_intervals: the prefix is canonical and leads what is left, and
\* between them they have the versions the result should have.
Merging ==
    phase = "merge" =>
        /\ Canonical(merged) /\ Leads(merged, rest)
        /\ \A iv \in rest : Canon(iv) = iv
        /\ \A x \in Points : x \in mean.goal <=> Contains(merged, x) \/ InSome(rest, x)

\* complement: the gaps so far have the versions left out before the interval
\* at hand.
Gapping ==
    phase = "gaps" =>
        /\ gap \in 1 .. Len(reg.acc) /\ merged = <<>>
        /\ \A iv \in rest : Canon(iv) = iv
        /\ mean.goal = Points \ mean.acc
        /\ \A x \in Points : InSome(rest, x) <=> LeftOf(reg.acc, gap, x)

IInv ==
    /\ TypeOK /\ Denotes /\ AlwaysCanonical
    /\ code \in Seq(GoodOp)
    /\ Merging /\ Gapping

LEMMA InitIInv == Init => IInv
  <1> SUFFICES ASSUME Init PROVE IInv
    OBVIOUS
  <1>1. reg = NoSets /\ mean = NoMeaning /\ phase = "parse"
    BY DEF Init
  <1>2. Full \in Seq(Interval) /\ Canonical(Full) /\ \A x \in Int : Contains(Full, x)
    BY Constructors
  <1>3. Empty \in Seq(Interval) /\ Canonical(Empty) /\ \A x : ~Contains(Empty, x)
    BY DEF Empty, Canonical, Contains
  <1>4. TypeOK
    <2>1. reg \in [Registers -> Seq(Interval)]
      BY <1>1, <1>2, <1>3 DEF NoSets
    <2>2. mean \in [Registers \cup {"goal", "clause"} -> SUBSET Points]
      BY <1>1 DEF NoMeaning
    <2>3. QED BY <2>1, <2>2 DEF Init, TypeOK, Registers
  <1>5. Denotes /\ AlwaysCanonical
    BY <1>1, <1>2, <1>3, VersionAssumption DEF Denotes, AlwaysCanonical, NoSets, NoMeaning
  <1>6. code \in Seq(GoodOp) /\ Merging /\ Gapping
    BY <1>1 DEF Init, Merging, Gapping
  <1>7. QED BY <1>4, <1>5, <1>6 DEF IInv

(* The facts the steps use of the invariant.                               *)
LEMMA Facts ==
    ASSUME IInv
    PROVE  /\ reg \in [Registers -> Seq(Interval)]
           /\ reg.acc \in Seq(Interval) /\ reg.arm \in Seq(Interval) /\ reg.result \in Seq(Interval)
           /\ Canonical(reg.acc) /\ Canonical(reg.arm) /\ Canonical(reg.result)
           /\ mean \in [Registers \cup {"goal", "clause"} -> SUBSET Points]
           /\ \A x \in Points : /\ Contains(reg.acc, x) <=> x \in mean.acc
                                /\ Contains(reg.arm, x) <=> x \in mean.arm
                                /\ Contains(reg.result, x) <=> x \in mean.result
  BY DEF IInv, TypeOK, Denotes, AlwaysCanonical, Registers

(* What an operation at the head of the code has.                          *)
LEMMA HeadGood ==
    ASSUME NEW c \in Seq(GoodOp), c # <<>>
    PROVE  /\ Head(c) \in GoodOp /\ Tail(c) \in Seq(GoodOp)
           /\ Head(c).arg \in Seq(Interval) /\ Canonical(Head(c).arg)
  <1>1. Head(c) \in GoodOp /\ Tail(c) \in Seq(GoodOp)
    OBVIOUS
  <1>2. QED BY <1>1 DEF GoodOp

(* Good operations are well typed ones.                                    *)
LEMMA GoodTyped ==
    ASSUME NEW c \in Seq(GoodOp)
    PROVE  c \in Seq([op : {"load", "not", "meet", "join", "and", "or"}, arg : Seq(Interval)])
  <1> DEFINE T == [op : {"load", "not", "meet", "join", "and", "or"}, arg : Seq(Interval)]
  <1>1. GoodOp \subseteq T
    BY DEF GoodOp
  <1> HIDE DEF T
  <1>2. Len(c) \in Nat /\ DOMAIN c = 1 .. Len(c) /\ \A i \in 1 .. Len(c) : c[i] \in T
    BY <1>1
  <1>3. c \in Seq(T)
    BY <1>2
  <1>4. QED BY <1>3 DEF T

(* Steps that touch no set and no loop.                                    *)
LEMMA StepQuiet ==
    ASSUME IInv, UNCHANGED <<reg, rest, merged, gap, dst>>,
           phase' \in {"parse", "parsed", "picked", "error"},
           arms' \in {"none", "open", "closed"}, code' \in Seq(GoodOp),
           \/ mean' = mean
           \/ \E m \in SUBSET Points : mean' = [mean EXCEPT !.clause = m]
    PROVE  IInv'
  <1>1. \A r \in Registers : mean'[r] = mean[r]
    BY DEF IInv, TypeOK, Registers
  <1>2. mean' \in [Registers \cup {"goal", "clause"} -> SUBSET Points]
    BY DEF IInv, TypeOK
  <1>3. TypeOK'
    <2>1. code' \in Seq([op : {"load", "not", "meet", "join", "and", "or"}, arg : Seq(Interval)])
      BY GoodTyped
    <2>2. QED BY <1>2, <2>1 DEF IInv, TypeOK
  <1>4. Denotes' /\ AlwaysCanonical'
    BY <1>1 DEF IInv, Denotes, AlwaysCanonical
  <1>5. Merging' /\ Gapping'
    BY DEF Merging, Gapping
  <1>6. QED BY <1>3, <1>4, <1>5 DEF IInv

LEMMA StepParse ==
    ASSUME IInv, ParseClause \/ ParseFails \/ EndArm \/ ParseEnds \/ Pick
    PROVE  IInv'
  <1>0. code \in Seq(GoodOp) /\ phase \in {"parse", "gaps", "merge", "parsed", "picked", "error"}
        /\ arms \in {"none", "open", "closed"}
    BY DEF IInv, TypeOK
  <1>1. CASE ParseClause
    <2>1. PICK c \in Kinds, v \in Named : /\ code' = Clause(c, v)
                                          /\ mean' = [mean EXCEPT !.clause = Means(c, v)]
      BY <1>1 DEF ParseClause
    <2>2. code' \in Seq(GoodOp)
      BY <2>1, ClauseGood, VersionAssumption
    <2>3. Means(c, v) \in SUBSET Points
      BY DEF Means
    <2>4. QED BY <1>1, <2>1, <2>2, <2>3, StepQuiet DEF ParseClause
  <1>2. CASE ParseFails
    BY <1>0, <1>2, StepQuiet DEF ParseFails
  <1>3. CASE EndArm
    <2>1. Op("or", Empty) \in GoodOp
      BY DEF Op, GoodOp, Empty, Canonical
    <2>2. code' \in Seq(GoodOp)
      BY <1>3, <2>1 DEF EndArm
    <2>3. QED BY <1>3, <2>2, StepQuiet DEF EndArm
  <1>4. CASE ParseEnds
    BY <1>0, <1>4, StepQuiet DEF ParseEnds
  <1>5. CASE Pick
    BY <1>0, <1>5, StepQuiet DEF Pick
  <1>6. QED BY <1>1, <1>2, <1>3, <1>4, <1>5

(* A register takes a set that denotes what it should.                     *)
LEMMA StepAssign ==
    ASSUME IInv, NEW r \in Registers, NEW s \in Seq(Interval), NEW m \in SUBSET Points,
           Canonical(s), \A x \in Points : Contains(s, x) <=> x \in m,
           reg' = [reg EXCEPT ![r] = s], mean' = [mean EXCEPT ![r] = m],
           UNCHANGED <<rest, merged, gap, dst, arms>>, code' \in Seq(GoodOp),
           phase' \in {"parse", "parsed"}
    PROVE  IInv'
  <1>1. reg \in [Registers -> Seq(Interval)] /\ mean \in [Registers \cup {"goal", "clause"} -> SUBSET Points]
    BY Facts
  <1>2. /\ reg' \in [Registers -> Seq(Interval)]
        /\ mean' \in [Registers \cup {"goal", "clause"} -> SUBSET Points]
        /\ reg'[r] = s /\ mean'[r] = m
        /\ \A q \in Registers : q # r => reg'[q] = reg[q] /\ mean'[q] = mean[q]
    BY <1>1
  <1>3. TypeOK'
    BY <1>2, GoodTyped DEF IInv, TypeOK
  <1>4. Denotes' /\ AlwaysCanonical'
    BY <1>2 DEF IInv, Denotes, AlwaysCanonical
  <1>5. Merging' /\ Gapping'
    BY DEF Merging, Gapping
  <1>6. QED BY <1>3, <1>4, <1>5 DEF IInv

LEMMA StepLoad ==
    ASSUME IInv, AnyVersion \/ Load
    PROVE  IInv'
  <1>1. code \in Seq(GoodOp) /\ phase \in {"parse", "gaps", "merge", "parsed", "picked", "error"}
    BY DEF IInv, TypeOK
  <1>2. CASE AnyVersion
    <2>1. /\ Full \in Seq(Interval) /\ Canonical(Full)
          /\ \A x \in Points : Contains(Full, x) <=> x \in Points
      BY Constructors, VersionAssumption
    <2>2. "result" \in Registers /\ Points \in SUBSET Points
      BY DEF Registers
    <2>3. QED BY <1>1, <1>2, <2>1, <2>2, StepAssign DEF AnyVersion
  <1>3. CASE Load
    <2> DEFINE s == Head(code).arg
    <2>1. s \in Seq(Interval) /\ Canonical(s) /\ code' \in Seq(GoodOp)
      BY <1>1, <1>3, HeadGood DEF Load
    <2>2. Denoted(s) \in SUBSET Points /\ \A x \in Points : Contains(s, x) <=> x \in Denoted(s)
      BY DEF Denoted
    <2>3. "acc" \in Registers
      BY DEF Registers
    <2>4. /\ reg' = [reg EXCEPT !["acc"] = s] /\ mean' = [mean EXCEPT !["acc"] = Denoted(s)]
          /\ UNCHANGED <<rest, merged, gap, dst, arms>> /\ phase' \in {"parse", "parsed"}
      BY <1>3 DEF Load
    <2> HIDE DEF s
    <2>5. QED BY <2>1, <2>2, <2>3, <2>4, StepAssign
  <1>4. QED BY <1>2, <1>3

LEMMA StepMerged ==
    ASSUME IInv, Merged
    PROVE  IInv'
  <1>1. /\ reg \in [Registers -> Seq(Interval)]
        /\ mean \in [Registers \cup {"goal", "clause"} -> SUBSET Points]
    BY Facts
  <1>2. /\ phase = "merge" /\ rest = {} /\ phase' = "parse" /\ dst \in Registers
        /\ UNCHANGED <<code, rest, merged, gap, dst, arms, picked>>
        /\ reg' = IF dst = "result" THEN [reg EXCEPT !.result = merged, !.arm = Full]
                  ELSE [reg EXCEPT ![dst] = merged]
        /\ mean' = [mean EXCEPT ![dst] = mean.goal,
                                !.arm = IF dst = "result" THEN Points
                                        ELSE IF dst = "arm" THEN mean.goal ELSE mean.arm]
    BY DEF Merged, IInv, TypeOK
  <1>3. /\ merged \in Seq(Interval) /\ Canonical(merged) /\ mean.goal \in SUBSET Points
        /\ \A x \in Points : Contains(merged, x) <=> x \in mean.goal
    BY <1>1, <1>2 DEF IInv, TypeOK, Merging, InSome
  <1>4. Full \in Seq(Interval) /\ Canonical(Full) /\ \A x \in Points : Contains(Full, x)
    BY Constructors, VersionAssumption
  <1>5. /\ reg' \in [Registers -> Seq(Interval)]
        /\ mean' \in [Registers \cup {"goal", "clause"} -> SUBSET Points]
    BY <1>1, <1>2, <1>3, <1>4
  <1>6. ASSUME NEW r \in Registers
        PROVE  \/ reg'[r] = reg[r] /\ mean'[r] = mean[r]
               \/ reg'[r] = merged /\ mean'[r] = mean.goal
               \/ reg'[r] = Full /\ mean'[r] = Points
    BY <1>1, <1>2 DEF Registers
  <1>7. TypeOK'
    BY <1>2, <1>5 DEF IInv, TypeOK
  <1>8. Denotes'
    BY <1>3, <1>4, <1>6 DEF IInv, Denotes
  <1>9. AlwaysCanonical'
    BY <1>3, <1>4, <1>6 DEF IInv, AlwaysCanonical
  <1>10. Merging' /\ Gapping'
    BY <1>2 DEF Merging, Gapping
  <1>11. QED BY <1>2, <1>7, <1>8, <1>9, <1>10 DEF IInv

LEMMA StepMerge ==
    ASSUME IInv, Merge
    PROVE  IInv'
  <1>1. PICK iv \in rest : /\ \A other \in rest : Before(iv, other)
                          /\ merged' = MergeInto(merged, iv)
                          /\ rest' = rest \ {iv}
    BY DEF Merge
  <1>2. /\ phase = "merge" /\ UNCHANGED <<reg, code, gap, dst, phase, arms, mean>>
        /\ merged \in Seq(Interval) /\ rest \in SUBSET Interval /\ iv \in Interval
    BY DEF Merge, IInv, TypeOK
  <1>3. /\ Canonical(merged) /\ Leads(merged, rest) /\ \A o \in rest : Canon(o) = o
        /\ \A x \in Points : x \in mean.goal <=> Contains(merged, x) \/ InSome(rest, x)
    BY <1>2 DEF IInv, Merging
  <1> DEFINE S == rest \ {iv}
  <1>4. S \cup {iv} = rest
    OBVIOUS
  <1>5. /\ merged' \in Seq(Interval) /\ Canonical(merged') /\ Leads(merged', S)
        /\ \A x \in Int : Contains(merged', x) <=> Contains(merged, x) \/ IntervalContains(iv, x)
    <2>1. /\ S \in SUBSET Interval /\ Canon(iv) = iv /\ Leads(merged, S \cup {iv})
          /\ \A other \in S : Before(iv, other)
      BY <1>1, <1>2, <1>3, <1>4
    <2> HIDE DEF S
    <2>2. QED BY <1>1, <1>2, <1>3, <2>1, MergeIntoRight
  <1>6. TypeOK'
    BY <1>1, <1>2, <1>5 DEF IInv, TypeOK
  <1>7. Denotes' /\ AlwaysCanonical' /\ code' \in Seq(GoodOp)
    BY <1>2 DEF IInv, Denotes, AlwaysCanonical
  <1>8. Merging'
    <2>1. \A x \in Points : InSome(rest, x) <=> InSome(S, x) \/ IntervalContains(iv, x)
      BY DEF InSome
    <2>2. QED BY <1>1, <1>2, <1>3, <1>5, <2>1, VersionAssumption DEF Merging
  <1>9. Gapping'
    BY <1>2 DEF Gapping
  <1>10. QED BY <1>6, <1>7, <1>8, <1>9 DEF IInv

LEMMA StepEmitGap ==
    ASSUME IInv, EmitGap
    PROVE  IInv'
  <1> DEFINE s == reg.acc
             G == {Canon(iv) : iv \in Gap(s, gap)}
  <1>1. /\ phase = "gaps" /\ UNCHANGED <<reg, code, merged, dst, arms, mean>>
        /\ rest' = rest \cup G
        /\ IF gap < Len(s) THEN gap' = gap + 1 /\ UNCHANGED phase
           ELSE gap' = 0 /\ phase' = "merge"
    BY DEF EmitGap
  <1>2. /\ s \in Seq(Interval) /\ Canonical(s) /\ Len(s) \in Nat
        /\ \A x \in Points : Contains(s, x) <=> x \in mean.acc
    BY Facts
  <1>3. /\ gap \in 1 .. Len(s) /\ merged = <<>> /\ \A iv \in rest : Canon(iv) = iv
        /\ mean.goal = Points \ mean.acc /\ rest \in SUBSET Interval
        /\ \A x \in Points : InSome(rest, x) <=> LeftOf(s, gap, x)
    BY <1>1 DEF IInv, TypeOK, Gapping
  <1>4. G \subseteq Interval /\ \A iv \in G : Canon(iv) = iv
    <2>1. Gap(s, gap) \subseteq Interval
      <3>1. s[gap] \in Interval /\ (gap < Len(s) => s[gap + 1] \in Interval)
        BY <1>2, <1>3
      <3>2. QED BY <3>1, IntervalFields DEF Gap, Iv, Interval, OptInt
    <2>2. QED BY <2>1, CanonSame
  <1>5. ASSUME NEW x \in Points
        PROVE  InSome(rest', x) <=> IF gap < Len(s) THEN LeftOf(s, gap + 1, x) ELSE ~Contains(s, x)
    <2>1. x \in Int
      BY VersionAssumption
    <2>2. InSome(rest', x) <=> InSome(rest, x) \/ \E iv \in Gap(s, gap) : IntervalContains(Canon(iv), x)
      BY <1>1 DEF InSome
    <2> HIDE DEF s
    <2>3. QED BY <1>2, <1>3, <2>1, <2>2, GapRight
  <1>6. rest' \in SUBSET Interval /\ \A iv \in rest' : Canon(iv) = iv
    BY <1>1, <1>3, <1>4
  <1>7. gap' \in Nat /\ phase' \in {"gaps", "merge"}
    BY <1>1, <1>2, <1>3
  <1>8. TypeOK'
    BY <1>1, <1>6, <1>7 DEF IInv, TypeOK
  <1>9. Denotes' /\ AlwaysCanonical' /\ code' \in Seq(GoodOp)
    BY <1>1 DEF IInv, Denotes, AlwaysCanonical
  <1>10. Merging'
    <2> SUFFICES ASSUME phase' = "merge" PROVE Merging'
      BY DEF Merging
    <2>1. ~(gap < Len(s)) /\ merged' = <<>> /\ mean' = mean
      BY <1>1, <1>3
    <2>2. Canonical(merged') /\ Leads(merged', rest') /\ \A x : ~Contains(merged', x)
      BY <2>1 DEF Canonical, Leads, Contains
    <2>3. \A x \in Points : x \in mean.goal <=> InSome(rest', x)
      BY <1>2, <1>3, <1>5, <2>1
    <2>4. QED BY <1>6, <2>1, <2>2, <2>3 DEF Merging
  <1>11. Gapping'
    <2> SUFFICES ASSUME phase' = "gaps" PROVE Gapping'
      BY DEF Gapping
    <2>1. gap < Len(s) /\ gap' = gap + 1 /\ reg' = reg /\ mean' = mean /\ merged' = <<>>
      BY <1>1, <1>3
    <2>2. gap' \in 1 .. Len(s)
      BY <1>2, <1>3, <2>1
    <2>3. \A x \in Points : InSome(rest', x) <=> LeftOf(s, gap', x)
      BY <1>5, <2>1
    <2>4. QED BY <1>3, <1>6, <2>1, <2>2, <2>3 DEF Gapping
  <1>12. QED BY <1>8, <1>9, <1>10, <1>11 DEF IInv

LEMMA StepComplement ==
    ASSUME IInv, Complement
    PROVE  IInv'
  <1> DEFINE s == reg.acc
  <1>1. /\ code # <<>> /\ code' = Tail(code) /\ merged' = <<>> /\ dst' = "acc"
        /\ mean' = [mean EXCEPT !.goal = Points \ mean.acc]
        /\ UNCHANGED <<reg, arms>>
        /\ IF s = Empty
           THEN rest' = Elements(Full) /\ gap' = 0 /\ phase' = "merge"
           ELSE rest' = LeftGap(s) /\ gap' = 1 /\ phase' = "gaps"
    BY DEF Complement
  <1>2. /\ s \in Seq(Interval) /\ Canonical(s)
        /\ mean \in [Registers \cup {"goal", "clause"} -> SUBSET Points]
        /\ \A x \in Points : Contains(s, x) <=> x \in mean.acc
    BY Facts
  <1>3. /\ code' \in Seq(GoodOp)
        /\ code' \in Seq([op : {"load", "not", "meet", "join", "and", "or"}, arg : Seq(Interval)])
    <2>1. code' \in Seq(GoodOp)
      BY <1>1, HeadGood DEF IInv
    <2>2. QED BY <2>1, GoodTyped
  <1>4. /\ mean' \in [Registers \cup {"goal", "clause"} -> SUBSET Points]
        /\ \A r \in Registers : mean'[r] = mean[r]
        /\ mean'.goal = Points \ mean.acc /\ mean'.acc = mean.acc
    BY <1>1, <1>2 DEF Registers
  <1>5. Denotes' /\ AlwaysCanonical'
    BY <1>1, <1>4 DEF IInv, Denotes, AlwaysCanonical
  <1>6. Canonical(merged') /\ Leads(merged', rest') /\ \A x : ~Contains(merged', x)
    BY <1>1 DEF Canonical, Leads, Contains
  <1>7. CASE s = Empty
    <2> DEFINE f == Iv(NONE, NONE, TRUE, FALSE)
    <2>1. f \in Interval /\ Canon(f) = f /\ \A x \in Int : IntervalContains(f, x)
      <3>1. f \in Interval
        BY DEF Iv, Interval, OptInt
      <3>2. f.lo = NONE /\ f.hi = NONE /\ f.lo_closed = TRUE /\ f.hi_closed = FALSE
        BY DEF Iv
      <3>3. Canon(f) = f
        <4> HIDE DEF f
        <4>1. QED BY <3>1, <3>2 DEF Canon, Interval
      <3>4. \A x \in Int : IntervalContains(f, x)
        BY <3>2 DEF IntervalContains, AboveLo, BelowHi
      <3>5. QED BY <3>1, <3>3, <3>4
    <2>2. Elements(Full) = {f}
      <3>1. DOMAIN <<f>> = {1} /\ <<f>>[1] = f
        OBVIOUS
      <3>2. QED BY <3>1 DEF Elements, Full
    <2> HIDE DEF f
    <2>3. \A x \in Points : x \notin mean.acc
      BY <1>2, <1>7 DEF Contains, Empty
    <2>4. Merging'
      BY <1>1, <1>4, <1>6, <1>7, <2>1, <2>2, <2>3, VersionAssumption DEF Merging, InSome
    <2>5. Gapping'
      BY <1>1, <1>7 DEF Gapping
    <2>6. TypeOK'
      <3>1. /\ rest' \subseteq Interval /\ merged' \in Seq(Interval) /\ gap' \in Nat
            /\ dst' \in Registers /\ phase' \in {"gaps", "merge"}
        BY <1>1, <1>7, <2>1, <2>2 DEF Registers
      <3>2. QED BY <1>1, <1>3, <1>4, <3>1 DEF IInv, TypeOK
    <2>7. QED BY <1>3, <1>5, <2>4, <2>5, <2>6 DEF IInv
  <1>8. CASE s # Empty
    <2>1. /\ LeftGap(s) \subseteq Interval /\ \A iv \in LeftGap(s) : Canon(iv) = iv
          /\ \A x \in Points : InSome(LeftGap(s), x) <=> LeftOf(s, 1, x)
      BY <1>2, <1>8, LeftGapRight, VersionAssumption DEF Empty, InSome
    <2>2. 1 \in 1 .. Len(s)
      BY <1>2, <1>8 DEF Empty
    <2>3. Merging'
      BY <1>1, <1>8 DEF Merging
    <2>4. Gapping'
      BY <1>1, <1>4, <1>8, <2>1, <2>2 DEF Gapping
    <2>5. TypeOK'
      <3>1. /\ rest' \subseteq Interval /\ merged' \in Seq(Interval) /\ gap' \in Nat
            /\ dst' \in Registers /\ phase' \in {"gaps", "merge"}
        BY <1>1, <1>8, <2>1 DEF Registers
      <3>2. QED BY <1>1, <1>3, <1>4, <3>1 DEF IInv, TypeOK
    <2>6. QED BY <1>3, <1>5, <2>3, <2>4, <2>5 DEF IInv
  <1>9. QED BY <1>7, <1>8

(* The loop of normalize_intervals starts on the canonical forms of        *)
(* intervals that have the versions asked for.                             *)
LEMMA StepNormalize ==
    ASSUME IInv, NEW S \in SUBSET Interval, NEW d \in Registers, NEW g \in SUBSET Points,
           Normalize(S, d, g), \A x \in Points : x \in g <=> InSome(S, x),
           code' \in Seq(GoodOp), UNCHANGED <<reg, gap, arms>>
    PROVE  IInv'
  <1>1. /\ rest' = {Canon(iv) : iv \in S} /\ merged' = <<>> /\ dst' = d /\ phase' = "merge"
        /\ mean' = [mean EXCEPT !.goal = g]
    BY DEF Normalize
  <1>2. mean \in [Registers \cup {"goal", "clause"} -> SUBSET Points]
    BY Facts
  <1>3. /\ mean' \in [Registers \cup {"goal", "clause"} -> SUBSET Points]
        /\ \A r \in Registers : mean'[r] = mean[r]
        /\ mean'.goal = g
    BY <1>1, <1>2 DEF Registers
  <1>4. rest' \subseteq Interval /\ \A iv \in rest' : Canon(iv) = iv
    BY <1>1, CanonSame
  <1>5. \A x \in Points : InSome(rest', x) <=> InSome(S, x)
    BY <1>1, CanonSame, VersionAssumption DEF InSome
  <1>6. Canonical(merged') /\ Leads(merged', rest') /\ \A x : ~Contains(merged', x)
    BY <1>1 DEF Canonical, Leads, Contains
  <1>7. TypeOK'
    <2>1. code' \in Seq([op : {"load", "not", "meet", "join", "and", "or"}, arg : Seq(Interval)])
      BY GoodTyped
    <2>2. merged' \in Seq(Interval)
      BY <1>1
    <2>3. QED BY <1>1, <1>3, <1>4, <2>1, <2>2 DEF IInv, TypeOK
  <1>8. Denotes' /\ AlwaysCanonical'
    BY <1>3 DEF IInv, Denotes, AlwaysCanonical
  <1>9. Merging' /\ Gapping'
    BY <1>1, <1>3, <1>4, <1>5, <1>6 DEF Merging, Gapping
  <1>10. QED BY <1>7, <1>8, <1>9 DEF IInv

(* The pairwise intersections of two sequences have the versions of both.  *)
LEMMA PairsContain ==
    ASSUME NEW s \in Seq(Interval), NEW t \in Seq(Interval)
    PROVE  /\ Pairs(s, t) \in SUBSET Interval
           /\ \A x \in Int : InSome(Pairs(s, t), x) <=> Contains(s, x) /\ Contains(t, x)
  <1> DEFINE S == Pairs(s, t)
  <1>0. S = {iv \in {Meet(a, b) : a \in Elements(s), b \in Elements(t)} : IntervalNonempty(iv)}
    BY DEF Pairs
  <1> HIDE DEF S
  <1>1. Elements(s) \subseteq Interval /\ Elements(t) \subseteq Interval
    BY DEF Elements
  <1>2. S \in SUBSET Interval
    BY <1>0, <1>1, MeetContains
  <1>3. ASSUME NEW x \in Int
        PROVE  InSome(S, x) <=> Contains(s, x) /\ Contains(t, x)
    <2>1. /\ Contains(s, x) <=> \E a \in Elements(s) : IntervalContains(a, x)
          /\ Contains(t, x) <=> \E b \in Elements(t) : IntervalContains(b, x)
      BY DEF Contains, Elements
    <2>2. ASSUME InSome(S, x) PROVE Contains(s, x) /\ Contains(t, x)
      <3>1. PICK iv \in S : IntervalContains(iv, x)
        BY <2>2 DEF InSome
      <3>2. PICK a \in Elements(s), b \in Elements(t) : iv = Meet(a, b)
        BY <1>0, <3>1
      <3>3. QED BY <1>1, <2>1, <3>1, <3>2, MeetContains
    <2>3. ASSUME Contains(s, x), Contains(t, x) PROVE InSome(S, x)
      <3>1. PICK a \in Elements(s), b \in Elements(t) :
              IntervalContains(a, x) /\ IntervalContains(b, x)
        BY <2>1, <2>3
      <3>2. Meet(a, b) \in Interval /\ IntervalContains(Meet(a, b), x)
        BY <1>1, <3>1, MeetContains
      <3>3. IntervalNonempty(Meet(a, b))
        BY <3>2, EmptyInterval
      <3>4. QED BY <1>0, <3>1, <3>2, <3>3 DEF InSome
    <2>4. QED BY <2>2, <2>3
  <1>4. QED BY <1>2, <1>3 DEF S

LEMMA StepIntersect ==
    ASSUME IInv, NEW s \in Seq(Interval), NEW t \in Seq(Interval), NEW d \in Registers,
           NEW m \in SUBSET Points, NEW n \in SUBSET Points,
           \A x \in Points : (Contains(s, x) <=> x \in m) /\ (Contains(t, x) <=> x \in n),
           Intersect(s, t, d, m \cap n), code' \in Seq(GoodOp), UNCHANGED <<reg, gap, arms>>
    PROVE  IInv'
  <1> DEFINE S == Pairs(s, t)
             g == m \cap n
  <1>1. Normalize(S, d, g)
    BY DEF Intersect
  <1>2. /\ S \in SUBSET Interval
        /\ \A x \in Int : InSome(S, x) <=> Contains(s, x) /\ Contains(t, x)
    BY PairsContain
  <1>3. g \in SUBSET Points
    OBVIOUS
  <1>4. \A x \in Points : x \in g <=> InSome(S, x)
    BY <1>2, VersionAssumption
  <1> HIDE DEF S, g
  <1>5. QED BY <1>1, <1>2, <1>3, <1>4, StepNormalize

LEMMA StepUnion ==
    ASSUME IInv, NEW s \in Seq(Interval), NEW t \in Seq(Interval), NEW d \in Registers,
           NEW m \in SUBSET Points, NEW n \in SUBSET Points,
           \A x \in Points : (Contains(s, x) <=> x \in m) /\ (Contains(t, x) <=> x \in n),
           Union(s, t, d, m \cup n), code' \in Seq(GoodOp), UNCHANGED <<reg, gap, arms>>
    PROVE  IInv'
  <1> DEFINE S == Elements(s) \cup Elements(t)
             g == m \cup n
  <1>1. Normalize(S, d, g)
    BY DEF Union
  <1>2. /\ S \in SUBSET Interval
        /\ \A x \in Points : InSome(S, x) <=> Contains(s, x) \/ Contains(t, x)
    BY DEF Elements, InSome, Contains
  <1>3. g \in SUBSET Points
    OBVIOUS
  <1>4. \A x \in Points : x \in g <=> InSome(S, x)
    BY <1>2
  <1> HIDE DEF S, g
  <1>5. QED BY <1>1, <1>2, <1>3, <1>4, StepNormalize

LEMMA StepCombine ==
    ASSUME IInv, Combine
    PROVE  IInv'
  <1> DEFINE a == Head(code).arg
  <1>1. code # <<>> /\ code' = Tail(code) /\ UNCHANGED <<reg, gap, arms>>
    BY DEF Combine
  <1>2. code' \in Seq(GoodOp) /\ a \in Seq(Interval)
    BY <1>1, HeadGood DEF IInv
  <1>3. Denoted(a) \in SUBSET Points /\ \A x \in Points : Contains(a, x) <=> x \in Denoted(a)
    BY DEF Denoted
  <1>4. /\ reg.acc \in Seq(Interval) /\ reg.arm \in Seq(Interval) /\ reg.result \in Seq(Interval)
        /\ \A x \in Points : /\ Contains(reg.acc, x) <=> x \in mean.acc
                             /\ Contains(reg.arm, x) <=> x \in mean.arm
                             /\ Contains(reg.result, x) <=> x \in mean.result
        /\ mean.acc \in SUBSET Points /\ mean.arm \in SUBSET Points /\ mean.result \in SUBSET Points
    BY Facts DEF Registers
  <1>5. "acc" \in Registers /\ "arm" \in Registers /\ "result" \in Registers
    BY DEF Registers
  <1> HIDE DEF a
  <1>6. CASE Intersect(a, reg.acc, "acc", Denoted(a) \cap mean.acc)
    BY <1>1, <1>2, <1>3, <1>4, <1>5, <1>6, StepIntersect
  <1>7. CASE Union(reg.acc, a, "acc", mean.acc \cup Denoted(a))
    BY <1>1, <1>2, <1>3, <1>4, <1>5, <1>7, StepUnion
  <1>8. CASE Intersect(reg.arm, reg.acc, "arm", mean.arm \cap mean.acc)
    BY <1>1, <1>2, <1>4, <1>5, <1>8, StepIntersect
  <1>9. CASE Union(reg.result, reg.arm, "result", mean.result \cup mean.arm)
    BY <1>1, <1>2, <1>4, <1>5, <1>9, StepUnion
  <1>10. QED BY <1>6, <1>7, <1>8, <1>9 DEF Combine, a

-----------------------------------------------------------------------------

(* The loops of VersionSet keep the invariant.                             *)
THEOREM Invariance == Spec => []IInv
  <1>1. Init => IInv
    BY InitIInv
  <1>2. IInv /\ [Next]_vars => IInv'
    <2> SUFFICES ASSUME IInv, [Next]_vars PROVE IInv'
      OBVIOUS
    <2>1. CASE ParseClause \/ ParseFails \/ EndArm \/ ParseEnds \/ Pick
      BY <2>1, StepParse
    <2>2. CASE AnyVersion \/ Load
      BY <2>2, StepLoad
    <2>3. CASE Combine
      BY <2>3, StepCombine
    <2>4. CASE Complement
      BY <2>4, StepComplement
    <2>5. CASE EmitGap
      BY <2>5, StepEmitGap
    <2>6. CASE Merge
      BY <2>6, StepMerge
    <2>7. CASE Merged
      BY <2>7, StepMerged
    <2>8. CASE Again
      <3>1. Init'
        BY <2>8 DEF Again, Init
      <3>2. QED BY <3>1, InitIInv, PTL
    <2>9. CASE UNCHANGED vars
      BY <2>9 DEF vars, IInv, TypeOK, Denotes, AlwaysCanonical, Merging, Gapping
    <2>10. QED BY <2>1, <2>2, <2>3, <2>4, <2>5, <2>6, <2>7, <2>8, <2>9 DEF Next
  <1>3. QED BY <1>1, <1>2, PTL DEF Spec

(* The set from_constraint builds has exactly the versions that the        *)
(* operations on sets say, for every constraint and every version.         *)
THEOREM AlwaysDenotes == Spec => []Denotes
  <1>1. IInv => Denotes
    BY DEF IInv
  <1>2. QED BY <1>1, Invariance, PTL

(* Every version set is canonical: sorted, disjoint, not mergeable.        *)
THEOREM SetsAlwaysCanonical == Spec => []AlwaysCanonical
  <1>1. IInv => AlwaysCanonical
    BY DEF IInv
  <1>2. QED BY <1>1, Invariance, PTL
=============================================================================
