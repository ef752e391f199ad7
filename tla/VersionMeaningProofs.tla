------------------------ MODULE VersionMeaningProofs ------------------------
(***************************************************************************)
(* What the sets of VersionSets mean, for every set of versions that       *)
(* constraints can name: a clause is read as it is written, two sets are   *)
(* equal when they have the same versions, and choose_version picks what   *)
(* the strategy says.                                                      *)
(***************************************************************************)
EXTENDS VersionSetsProofs, WellFoundedInduction

-----------------------------------------------------------------------------
(* The digits of a version, and the bounds of `~` and `^`. *)

(* Division, and what is left.                                             *)
LEMMA Quotient ==
    ASSUME NEW a \in Nat, NEW n \in Nat \ {0}
    PROVE  /\ a \div n \in Nat /\ a % n \in Nat /\ a % n < n
           /\ a = n * (a \div n) + (a % n)
  <1> DEFINE q == a \div n
             r == a % n
             m == n * q
  <1>1. r = a - m /\ q \in Nat /\ r \in Nat /\ r < n
    OBVIOUS
  <1>2. m \in Int
    BY <1>1
  <1>3. a = m + r
    <2> HIDE DEF m, r
    <2>1. QED BY <1>1, <1>2
  <1>4. QED BY <1>1, <1>3

(* A quotient is the number of times the divisor fits.                     *)
LEMMA QuotientIs ==
    ASSUME NEW a \in Nat, NEW n \in Nat \ {0}, NEW q \in Int
    PROVE  q = a \div n <=> n * q <= a /\ a < n * q + n
  OBVIOUS

\* The number of the release a version belongs to, in patches and in minors.
Patches(v) == (v + 1) \div 2
Minors(v) == (v + 1) \div (2 * Base)

(* The digits of a version.                                                *)
LEMMA Digits ==
    ASSUME NEW v \in Int, -1 <= v
    PROVE  /\ Patch(v) \in Nat /\ Minor(v) \in Nat /\ Major(v) \in Nat
           /\ Patch(v) < Base /\ Minor(v) < Base
           /\ Patches(v) \in Nat /\ Patches(v) = Base * Minors(v) + Patch(v)
           /\ Minors(v) \in Nat /\ Minors(v) = Base * Major(v) + Minor(v)
  <1> DEFINE x == v + 1
             B == Base
             J == x \div 2
             K == x \div (2 * B)
             M == x \div (2 * B * B)
  <1>1. x \in Nat /\ B \in Nat \ {0} /\ 2 * B \in Nat \ {0} /\ 2 * B * B \in Nat \ {0}
    BY BaseAssumption
  <1>2. J \in Nat /\ K \in Nat /\ M \in Nat
    BY <1>1, Quotient
  <1>3. /\ J % B \in Nat /\ J % B < B /\ K % B \in Nat /\ K % B < B
        /\ J = B * (J \div B) + (J % B) /\ K = B * (K \div B) + (K % B)
        /\ J \div B \in Nat /\ K \div B \in Nat
    BY <1>1, <1>2, Quotient
  <1>4. 2 * J <= x /\ x < 2 * J + 2
    BY <1>1, <1>2, QuotientIs
  <1>5. 2 * B * K <= x /\ x < 2 * B * K + 2 * B
    BY <1>1, <1>2, QuotientIs
  <1> HIDE DEF x, B, J, K, M
  <1>6. J \div B = K
    <2> DEFINE q == J \div B
    <2>1. q \in Nat /\ B * q \in Nat /\ B * q <= J /\ J + 1 <= B * q + B
      BY <1>1, <1>2, <1>3
    <2>2. 2 * B * q = 2 * (B * q)
      BY <1>1, <2>1
    <2> HIDE DEF q
    <2>3. 2 * B * q <= x /\ x < 2 * B * q + 2 * B
      BY <1>1, <1>2, <1>4, <2>1, <2>2
    <2>4. q = x \div (2 * B)
      BY <1>1, <2>1, <2>3, QuotientIs
    <2>5. QED BY <2>4 DEF q, K
  <1>7. K \div B = M
    <2> DEFINE q == K \div B
    <2>1. q \in Nat /\ B * q \in Nat /\ B * q <= K /\ K + 1 <= B * q + B
      BY <1>1, <1>2, <1>3
    <2> HIDE DEF q
    <2>2. 2 * B * (B * q) <= 2 * B * K /\ 2 * B * (K + 1) <= 2 * B * (B * q + B)
      BY <1>1, <1>2, <2>1
    <2>3. 2 * B * (B * q) = 2 * B * B * q /\ 2 * B * (K + 1) = 2 * B * K + 2 * B
          /\ 2 * B * (B * q + B) = 2 * B * B * q + 2 * B * B
      BY <1>1, <1>2, <2>1
    <2>4. 2 * B * B * q <= x /\ x < 2 * B * B * q + 2 * B * B
      BY <1>1, <1>2, <1>5, <2>1, <2>2, <2>3
    <2>5. q = x \div (2 * B * B)
      BY <1>1, <2>1, <2>4, QuotientIs
    <2>6. QED BY <2>5 DEF q, M
  <1>8. /\ Patch(v) = J % B /\ Minor(v) = K % B /\ Major(v) = M
        /\ Patches(v) = J /\ Minors(v) = K /\ Base = B
    BY DEF Patch, Minor, Major, Patches, Minors, x, B, J, K, M
  <1>9. QED BY <1>2, <1>3, <1>6, <1>7, <1>8

(* Of the releases after v, those before the next multiple of an even      *)
(* number have the same quotient by it.                                    *)
LEMMA NextMultiple ==
    ASSUME NEW n \in Nat \ {0}, \E h \in Nat : n = 2 * h, NEW v \in Int, -1 <= v
    PROVE  LET q == (v + 1) \div n IN
           /\ n * (q + 1) \in Int /\ v < n * (q + 1) /\ (n * (q + 1)) % 2 = 0
           /\ \A r \in Int : v <= r /\ r % 2 = 0 =>
                (r < n * (q + 1) <=> (r + 1) \div n = q)
  <1> DEFINE q == (v + 1) \div n
             m == n * q
  <1>1. v + 1 \in Nat
    OBVIOUS
  <1>2. q \in Nat
    BY <1>1, Quotient
  <1>3. ASSUME NEW x \in Nat
        PROVE  q = x \div n <=> m <= x /\ x < m + n
    <2> HIDE DEF q
    <2>1. QED BY <1>2, QuotientIs
  <1>4. m <= v + 1 /\ v + 1 < m + n
    BY <1>1, <1>3
  <1> HIDE DEF q
  <1>5. PICK e \in Nat : m \in Nat /\ n * (q + 1) = 2 * e /\ 2 * e = m + n
    <2>1. PICK h \in Nat : n = 2 * h
      OBVIOUS
    <2>2. h * (q + 1) \in Nat /\ m \in Nat /\ n * (q + 1) = 2 * (h * (q + 1)) /\ n * (q + 1) = m + n
      BY <1>2, <2>1
    <2>3. QED BY <2>2
  <1> HIDE DEF m
  <1>6. ASSUME NEW r \in Int, v <= r, r % 2 = 0
        PROVE  r < 2 * e <=> (r + 1) \div n = q
    <2>1. r < 2 * e <=> r + 1 < 2 * e
      BY <1>5, <1>6
    <2>2. m <= r + 1 /\ r + 1 \in Nat
      BY <1>4, <1>5, <1>6
    <2>3. QED BY <1>3, <1>5, <2>1, <2>2
  <1>7. (2 * e) % 2 = 0 /\ 2 * e \in Int
    BY <1>5
  <1>8. v < 2 * e
    BY <1>4, <1>5
  <1>9. QED BY <1>5, <1>6, <1>7, <1>8 DEF q

\* The first version after v of another patch, another minor, another major.
NextPatch(v) == 2 * (Patches(v) + 1)
NextMinor(v) == 2 * Base * (Minors(v) + 1)
NextMajor(v) == 2 * Base * Base * (Major(v) + 1)

(* ... is a release after v, and the releases before it are of v's.        *)
LEMMA NextReleases ==
    ASSUME NEW v \in Int, -1 <= v
    PROVE  /\ \A b \in {NextPatch(v), NextMinor(v), NextMajor(v)} : b \in Int /\ v < b /\ b % 2 = 0
           /\ \A r \in Int : v <= r /\ r % 2 = 0 =>
                /\ r < NextPatch(v) <=> Patches(r) = Patches(v)
                /\ r < NextMinor(v) <=> Minors(r) = Minors(v)
                /\ r < NextMajor(v) <=> Major(r) = Major(v)
  <1>2. /\ NextPatch(v) \in Int /\ v < NextPatch(v) /\ NextPatch(v) % 2 = 0
        /\ \A r \in Int : v <= r /\ r % 2 = 0 => (r < NextPatch(v) <=> Patches(r) = Patches(v))
    <2>1. 2 \in Nat \ {0} /\ \E h \in Nat : 2 = 2 * h
      OBVIOUS
    <2>2. QED BY <2>1, NextMultiple DEF NextPatch, Patches
  <1>3. /\ NextMinor(v) \in Int /\ v < NextMinor(v) /\ NextMinor(v) % 2 = 0
        /\ \A r \in Int : v <= r /\ r % 2 = 0 => (r < NextMinor(v) <=> Minors(r) = Minors(v))
    <2> DEFINE n == 2 * Base
    <2>1. n \in Nat \ {0} /\ \E h \in Nat : n = 2 * h
      BY BaseAssumption
    <2>2. /\ NextMinor(v) = n * ((v + 1) \div n + 1)
          /\ \A r : Minors(r) = (r + 1) \div n
      BY DEF NextMinor, Minors
    <2> HIDE DEF n
    <2>3. /\ n * ((v + 1) \div n + 1) \in Int /\ v < n * ((v + 1) \div n + 1)
          /\ (n * ((v + 1) \div n + 1)) % 2 = 0
          /\ \A r \in Int : v <= r /\ r % 2 = 0 =>
               (r < n * ((v + 1) \div n + 1) <=> (r + 1) \div n = (v + 1) \div n)
      BY <2>1, NextMultiple, Zenon
    <2>4. QED BY <2>2, <2>3, Zenon
  <1>4. /\ NextMajor(v) \in Int /\ v < NextMajor(v) /\ NextMajor(v) % 2 = 0
        /\ \A r \in Int : v <= r /\ r % 2 = 0 => (r < NextMajor(v) <=> Major(r) = Major(v))
    <2> DEFINE n == 2 * Base * Base
    <2>1. n \in Nat \ {0} /\ \E h \in Nat : n = 2 * h
      <3>1. Base * Base \in Nat \ {0} /\ n = 2 * (Base * Base)
        BY BaseAssumption
      <3>2. QED BY <3>1
    <2>2. /\ NextMajor(v) = n * ((v + 1) \div n + 1)
          /\ \A r : Major(r) = (r + 1) \div n
      BY DEF NextMajor, Major
    <2> HIDE DEF n
    <2>3. /\ n * ((v + 1) \div n + 1) \in Int /\ v < n * ((v + 1) \div n + 1)
          /\ (n * ((v + 1) \div n + 1)) % 2 = 0
          /\ \A r \in Int : v <= r /\ r % 2 = 0 =>
               (r < n * ((v + 1) \div n + 1) <=> (r + 1) \div n = (v + 1) \div n)
      BY <2>1, NextMultiple, Zenon
    <2>4. QED BY <2>2, <2>3, Zenon
  <1>5. QED BY <1>2, <1>3, <1>4

(* The bounds of `~v` and `^v`.                                            *)
LEMMA BoundsAre ==
    ASSUME NEW v \in Int, -1 <= v
    PROVE  /\ TildeBound(v) = IF Minor(v) = 0 /\ Patch(v) = 0 THEN NextMajor(v) ELSE NextMinor(v)
           /\ CaretBound(v) = IF Major(v) > 0 THEN NextMajor(v)
                              ELSE IF Minor(v) = 0 /\ Patch(v) > 0 THEN NextPatch(v)
                              ELSE NextMinor(v)
  <1> DEFINE B == Base
             M == Major(v)
             m == Minor(v)
             p == Patch(v)
  <1>1. /\ M \in Nat /\ m \in Nat /\ p \in Nat /\ B \in Nat
        /\ Minors(v) = B * M + m /\ Patches(v) = B * Minors(v) + p
    BY Digits, BaseAssumption
  <1> HIDE DEF B, M, m, p
  <1>2. Release(M + 1, 0, 0) = NextMajor(v)
    <2>1. 2 * (B * B * (M + 1) + B * 0 + 0) = 2 * B * B * (M + 1)
      BY <1>1
    <2>2. QED BY <2>1 DEF Release, NextMajor, B, M
  <1>3. Release(M, m + 1, 0) = NextMinor(v)
    <2>1. 2 * (B * B * M + B * (m + 1) + 0) = 2 * B * (B * M + m + 1)
      BY <1>1
    <2>2. QED BY <1>1, <2>1 DEF Release, NextMinor, B
  <1>4. M = 0 => Release(0, m + 1, 0) = NextMinor(v)
    BY <1>3
  <1>5. M = 0 /\ m = 0 => Release(0, 0, p + 1) = NextPatch(v)
    <2>1. 2 * (B * B * 0 + B * 0 + (p + 1)) = 2 * (p + 1) /\ B * 0 = 0
      BY <1>1
    <2>2. M = 0 /\ m = 0 => Patches(v) = p
      BY <1>1, <2>1
    <2>3. QED BY <1>1, <2>1, <2>2 DEF Release, NextPatch, B
  <1>6. M = 0 /\ m = 0 => Release(0, 1, 0) = NextMinor(v)
    BY <1>4
  <1>7. TildeBound(v) = IF m = 0 /\ p = 0 THEN NextMajor(v) ELSE NextMinor(v)
    BY <1>2, <1>3 DEF TildeBound, M, m, p
  <1>8. CaretBound(v) = IF M > 0 THEN NextMajor(v)
                        ELSE IF m = 0 /\ p > 0 THEN NextPatch(v) ELSE NextMinor(v)
    <2>1. CaretBound(v) = IF M > 0 THEN Release(M + 1, 0, 0)
                          ELSE IF m > 0 THEN Release(0, m + 1, 0)
                          ELSE IF p > 0 THEN Release(0, 0, p + 1)
                          ELSE Release(0, 1, 0)
      BY DEF CaretBound, M, m, p
    <2>2. (M > 0 \/ M = 0) /\ (m > 0 \/ m = 0) /\ ~(m > 0 /\ m = 0)
      BY <1>1
    <2>3. QED BY <1>2, <1>4, <1>5, <1>6, <2>1, <2>2
  <1>9. QED BY <1>7, <1>8 DEF M, m, p

(* ... the same release, digit by digit.                                   *)
LEMMA SameDigits ==
    ASSUME NEW v \in Int, -1 <= v, NEW r \in Int, -1 <= r
    PROVE  /\ Minors(r) = Minors(v) <=> Major(r) = Major(v) /\ Minor(r) = Minor(v)
           /\ Patches(r) = Patches(v) <=> Minors(r) = Minors(v) /\ Patch(r) = Patch(v)
  <1>1. ASSUME NEW q \in Nat, NEW k \in Nat, NEW i \in Nat, NEW j \in Nat, i < Base, j < Base
        PROVE  Base * q + i = Base * k + j <=> q = k /\ i = j
    <2>1. Base \in Nat \ {0} /\ Base * q \in Nat /\ Base * k \in Nat
      BY BaseAssumption
    <2>2. q < k => Base * q + Base <= Base * k
      BY BaseAssumption
    <2>3. k < q => Base * k + Base <= Base * q
      BY BaseAssumption
    <2>4. QED BY <1>1, <2>1, <2>2, <2>3
  <1>2. /\ Major(v) \in Nat /\ Minor(v) \in Nat /\ Minor(v) < Base
        /\ Minors(v) \in Nat /\ Minors(v) = Base * Major(v) + Minor(v)
        /\ Patch(v) \in Nat /\ Patch(v) < Base /\ Patches(v) = Base * Minors(v) + Patch(v)
    BY Digits
  <1>3. /\ Major(r) \in Nat /\ Minor(r) \in Nat /\ Minor(r) < Base
        /\ Minors(r) \in Nat /\ Minors(r) = Base * Major(r) + Minor(r)
        /\ Patch(r) \in Nat /\ Patch(r) < Base /\ Patches(r) = Base * Minors(r) + Patch(r)
    BY Digits
  <1>4. Minors(r) = Minors(v) <=> Major(r) = Major(v) /\ Minor(r) = Minor(v)
    BY <1>1, <1>2, <1>3
  <1>5. Patches(r) = Patches(v) <=> Minors(r) = Minors(v) /\ Patch(r) = Patch(v)
    BY <1>1, <1>2, <1>3
  <1>6. QED BY <1>4, <1>5

(* `~v` and `^v` exclude exactly the incompatible releases.                *)
LEMMA Compatible ==
    ASSUME NEW v \in Int, -1 <= v, NEW r \in Int, v <= r, r % 2 = 0
    PROVE  /\ r < TildeBound(v) <=> SamePatchLevel(v, r)
           /\ r < CaretBound(v) <=> SameLeftmost(v, r)
  <1>1. -1 <= r
    OBVIOUS
  <1>2. /\ Minors(r) = Minors(v) <=> Major(r) = Major(v) /\ Minor(r) = Minor(v)
        /\ Patches(r) = Patches(v) <=> Minors(r) = Minors(v) /\ Patch(r) = Patch(v)
    BY <1>1, SameDigits
  <1>3. /\ r < NextPatch(v) <=> Patches(r) = Patches(v)
        /\ r < NextMinor(v) <=> Minors(r) = Minors(v)
        /\ r < NextMajor(v) <=> Major(r) = Major(v)
    BY NextReleases
  <1>4. Major(v) \in Nat /\ Minor(v) \in Nat /\ Patch(v) \in Nat
    BY Digits
  <1>5. r < TildeBound(v) <=> SamePatchLevel(v, r)
    BY <1>2, <1>3, BoundsAre DEF SamePatchLevel
  <1>6. r < CaretBound(v) <=> SameLeftmost(v, r)
    <2>1. CASE Major(v) > 0
      BY <1>3, <1>4, <2>1, BoundsAre DEF SameLeftmost
    <2>2. CASE Major(v) = 0
      BY <1>2, <1>3, <1>4, <2>2, BoundsAre DEF SameLeftmost
    <2>3. QED BY <1>4, <2>1, <2>2
  <1>7. QED BY <1>5, <1>6
-----------------------------------------------------------------------------
(* What a clause means. *)

(* gte, lt and eq have the versions their names say.                       *)
LEMMA ConstructorsMean ==
    ASSUME NEW v \in Int
    PROVE  /\ Denoted(Gte(v)) = {x \in Points : v <= x}
           /\ Denoted(Lt(v)) = {x \in Points : x < v}
           /\ Denoted(Eq(v)) = {x \in Points : x = v}
  <1>1. \A a : DOMAIN <<a>> = {1} /\ <<a>>[1] = a
    OBVIOUS
  <1>2. v # NONE
    BY NoneAssumption
  <1>3. ASSUME NEW x \in Points
        PROVE  /\ Contains(Gte(v), x) <=> v <= x
               /\ Contains(Lt(v), x) <=> x < v
               /\ Contains(Eq(v), x) <=> x = v
    <2>1. x \in Int
      BY VersionAssumption
    <2>2. IntervalContains(Iv(v, NONE, TRUE, FALSE), x) <=> v <= x
      BY <1>2, <2>1 DEF IntervalContains, AboveLo, BelowHi, Iv
    <2>3. IntervalContains(Iv(NONE, v, TRUE, FALSE), x) <=> x < v
      BY <1>2, <2>1 DEF IntervalContains, AboveLo, BelowHi, Iv
    <2>4. IntervalContains(Iv(v, v, TRUE, TRUE), x) <=> x = v
      BY <1>2, <2>1 DEF IntervalContains, AboveLo, BelowHi, Iv
    <2>5. QED BY <1>1, <2>2, <2>3, <2>4 DEF Contains, Gte, Lt, Eq
  <1>4. QED BY <1>3 DEF Denoted

(* Up to a bound b, all releases are compatible and b is not.              *)
LEMMA UpToBound ==
    ASSUME Bounds \subseteq Points, NEW v \in Named, NEW x \in Points
    PROVE  /\ UpTo(v, x, SamePatchLevel) <=> v <= x /\ x < TildeBound(v)
           /\ UpTo(v, x, SameLeftmost) <=> v <= x /\ x < CaretBound(v)
  <1>1. v \in Int /\ -1 <= v /\ x \in Int /\ Points \subseteq Int
    BY VersionAssumption
  <1>2. /\ TildeBound(v) \in {NextMinor(v), NextMajor(v)}
        /\ CaretBound(v) \in {NextPatch(v), NextMinor(v), NextMajor(v)}
    BY <1>1, BoundsAre
  <1>3. \A b \in {TildeBound(v), CaretBound(v)} : b \in Int /\ v < b /\ b % 2 = 0 /\ b \in Points
    BY <1>1, <1>2, NextReleases DEF Bounds
  <1>4. \A r \in Points : v <= r /\ r % 2 = 0 => (r < TildeBound(v) <=> SamePatchLevel(v, r))
    BY <1>1, Compatible
  <1>5. \A r \in Points : v <= r /\ r % 2 = 0 => (r < CaretBound(v) <=> SameLeftmost(v, r))
    BY <1>1, Compatible
  <1>6. UpTo(v, x, SamePatchLevel) <=> v <= x /\ x < TildeBound(v)
    <2> DEFINE b == TildeBound(v)
    <2>1. b \in Int /\ v < b /\ b % 2 = 0 /\ b \in Points
      BY <1>3
    <2>2. \A r \in Points : v <= r /\ r % 2 = 0 => (r < b <=> SamePatchLevel(v, r))
      BY <1>4
    <2> HIDE DEF b
    <2>3. UpTo(v, x, SamePatchLevel) <=> v <= x /\ x < b
      BY <1>1, <2>1, <2>2 DEF UpTo
    <2>4. QED BY <2>3 DEF b
  <1>7. UpTo(v, x, SameLeftmost) <=> v <= x /\ x < CaretBound(v)
    <2> DEFINE b == CaretBound(v)
    <2>1. b \in Int /\ v < b /\ b % 2 = 0 /\ b \in Points
      BY <1>3
    <2>2. \A r \in Points : v <= r /\ r % 2 = 0 => (r < b <=> SameLeftmost(v, r))
      BY <1>5
    <2> HIDE DEF b
    <2>3. UpTo(v, x, SameLeftmost) <=> v <= x /\ x < b
      BY <1>1, <2>1, <2>2 DEF UpTo
    <2>4. QED BY <2>3 DEF b
  <1>8. QED BY <1>6, <1>7

\* What an operation of a clause makes of a set.
Effect(o, A) ==
    CASE o.op = "load" -> Denoted(o.arg)
      [] o.op = "meet" -> Denoted(o.arg) \cap A
      [] o.op = "join" -> A \cup Denoted(o.arg)
      [] o.op = "not"  -> Points \ A

\* What is left of a clause, up to its "and", makes of A.
After(c, A) ==
    CASE Len(c) = 1 -> A
      [] Len(c) = 2 -> Effect(c[1], A)
      [] Len(c) = 3 -> Effect(c[2], Effect(c[1], A))
      [] Len(c) = 4 -> Effect(c[3], Effect(c[2], Effect(c[1], A)))

\* The code of a clause that is not yet through.
IsClause(c) ==
    /\ Len(c) \in 1 .. 4
    /\ \A i \in 1 .. Len(c) - 1 : c[i].op \in {"load", "meet", "join", "not"}

(* The operations of a clause yield the versions it is read to mean.       *)
LEMMA ClauseMeans ==
    ASSUME Bounds \subseteq Points, NEW c \in Kinds, NEW v \in Named, NEW A
    PROVE  IsClause(Clause(c, v)) /\ After(Clause(c, v), A) = Means(c, v)
  <1>1. v \in Int /\ Points \subseteq Int
    BY VersionAssumption
  <1>2. TildeBound(v) \in Int /\ CaretBound(v) \in Int
    BY <1>1, BoundsInt
  <1>3. /\ Denoted(Gte(v)) = {x \in Points : v <= x}
        /\ Denoted(Lt(v)) = {x \in Points : x < v}
        /\ Denoted(Eq(v)) = {x \in Points : x = v}
        /\ Denoted(Lt(TildeBound(v))) = {x \in Points : x < TildeBound(v)}
        /\ Denoted(Lt(CaretBound(v))) = {x \in Points : x < CaretBound(v)}
    BY <1>1, <1>2, ConstructorsMean
  <1>4. \A o, s : Op(o, s).op = o /\ Op(o, s).arg = s
    BY DEF Op
  <1>5. ASSUME NEW a, NEW b, a.op = "load"
        PROVE  IsClause(<<a, b>>) /\ After(<<a, b>>, A) = Denoted(a.arg)
    BY <1>5 DEF IsClause, After, Effect
  <1>6. ASSUME NEW a, NEW b, NEW d, a.op = "load", b.op \in {"meet", "join", "not"}
        PROVE  IsClause(<<a, b, d>>) /\ After(<<a, b, d>>, A) = Effect(b, Denoted(a.arg))
    BY <1>6 DEF IsClause, After, Effect
  <1>7. ASSUME NEW a, NEW b, NEW d, NEW e, a.op = "load",
               b.op \in {"meet", "join", "not"}, d.op \in {"meet", "join", "not"}
        PROVE  /\ IsClause(<<a, b, d, e>>)
               /\ After(<<a, b, d, e>>, A) = Effect(d, Effect(b, Denoted(a.arg)))
    BY <1>7 DEF IsClause, After, Effect
  <1>8. \A S, D : /\ Effect(Op("meet", S), D) = Denoted(S) \cap D
                  /\ Effect(Op("join", S), D) = D \cup Denoted(S)
                  /\ Effect(Op("not", S), D) = Points \ D
    BY <1>4 DEF Effect
  <1>9. CASE c \in {">=", "<", "="}
    <2>1. \A s : LET k == <<Op("load", s), Op("and", Empty)>> IN
                 IsClause(k) /\ After(k, A) = Denoted(s)
      BY <1>4, <1>5
    <2>2. QED BY <1>3, <1>9, <2>1 DEF Clause, Means
  <1>10. CASE c = "<="
    <2>1. LET k == Clause(c, v) IN IsClause(k) /\ After(k, A) = Denoted(Lt(v)) \cup Denoted(Eq(v))
      BY <1>4, <1>6, <1>8, <1>10 DEF Clause
    <2>2. Means(c, v) = {x \in Points : x <= v}
      BY <1>10 DEF Means
    <2>3. \A x \in Points : x <= v <=> x < v \/ x = v
      BY <1>1
    <2>4. QED BY <1>3, <2>1, <2>2, <2>3
  <1>11. CASE c = ">"
    <2>1. LET k == Clause(c, v) IN
          IsClause(k) /\ After(k, A) = Denoted(Gte(v)) \cap (Points \ Denoted(Eq(v)))
      BY <1>4, <1>7, <1>8, <1>11 DEF Clause
    <2>2. Means(c, v) = {x \in Points : v < x}
      BY <1>11 DEF Means
    <2>3. \A x \in Points : v < x <=> v <= x /\ x # v
      BY <1>1
    <2>4. QED BY <1>3, <2>1, <2>2, <2>3
  <1>12. CASE c = "!="
    <2>1. LET k == Clause(c, v) IN IsClause(k) /\ After(k, A) = Points \ Denoted(Eq(v))
      BY <1>4, <1>6, <1>8, <1>12 DEF Clause
    <2>2. Means(c, v) = {x \in Points : x # v}
      BY <1>12 DEF Means
    <2>3. QED BY <1>3, <2>1, <2>2
  <1>13. CASE c = "~"
    <2>1. LET k == Clause(c, v) IN
          IsClause(k) /\ After(k, A) = Denoted(Lt(TildeBound(v))) \cap Denoted(Gte(v))
      BY <1>4, <1>6, <1>8, <1>13 DEF Clause
    <2>2. Means(c, v) = {x \in Points : UpTo(v, x, SamePatchLevel)}
      BY <1>13 DEF Means
    <2>3. \A x \in Points : UpTo(v, x, SamePatchLevel) <=> v <= x /\ x < TildeBound(v)
      BY UpToBound
    <2>4. QED BY <1>3, <2>1, <2>2, <2>3
  <1>14. CASE c = "^"
    <2>1. LET k == Clause(c, v) IN
          IsClause(k) /\ After(k, A) = Denoted(Lt(CaretBound(v))) \cap Denoted(Gte(v))
      BY <1>4, <1>6, <1>8, <1>14 DEF Clause
    <2>2. Means(c, v) = {x \in Points : UpTo(v, x, SameLeftmost)}
      BY <1>14 DEF Means
    <2>3. \A x \in Points : UpTo(v, x, SameLeftmost) <=> v <= x /\ x < CaretBound(v)
      BY UpToBound
    <2>4. QED BY <1>3, <2>1, <2>2, <2>3
  <1>15. QED BY <1>9, <1>10, <1>11, <1>12, <1>13, <1>14 DEF Kinds

(* One operation on, the rest of the clause makes the same of its effect.  *)
LEMMA AfterTail ==
    ASSUME NEW c \in Seq(GoodOp), c # <<>>, IsClause(c), Tail(c) # <<>>, NEW A
    PROVE  /\ IsClause(Tail(c)) /\ Head(c).op \in {"load", "meet", "join", "not"}
           /\ After(c, A) = After(Tail(c), Effect(Head(c), A))
  <1> DEFINE t == Tail(c)
  <1>1. /\ Len(c) \in 1 .. 4 /\ Len(t) = Len(c) - 1 /\ Len(t) # 0 /\ Head(c) = c[1]
        /\ \A i \in 1 .. Len(t) : t[i] = c[i + 1]
    <2>1. Len(c) \in 1 .. 4
      BY DEF IsClause
    <2>2. t \in Seq(GoodOp) /\ Len(t) = Len(c) - 1 /\ Head(c) = c[1]
      OBVIOUS
    <2>3. \A i \in 1 .. Len(t) : t[i] = c[i + 1]
      OBVIOUS
    <2>4. Len(t) # 0
      BY <2>2
    <2>5. QED BY <2>1, <2>2, <2>3, <2>4
  <1> HIDE DEF t
  <1>2. Len(c) \in 2 .. 4
    BY <1>1
  <1>3. \A i \in 1 .. Len(c) - 1 : c[i].op \in {"load", "meet", "join", "not"}
    BY DEF IsClause
  <1>4. Head(c).op \in {"load", "meet", "join", "not"}
    BY <1>1, <1>2, <1>3
  <1>5. IsClause(t)
    <2>1. Len(t) \in 1 .. 4
      BY <1>1, <1>2
    <2>2. ASSUME NEW i \in 1 .. Len(t) - 1 PROVE t[i].op \in {"load", "meet", "join", "not"}
      <3>1. i \in 1 .. Len(t) /\ i + 1 \in 1 .. Len(c) - 1
        BY <1>1, <1>2
      <3>2. QED BY <1>1, <1>3, <3>1
    <2>3. QED BY <2>1, <2>2 DEF IsClause
  <1>6. After(c, A) = After(t, Effect(c[1], A))
    <2>1. CASE Len(c) = 2
      BY <1>1, <2>1 DEF After
    <2>2. CASE Len(c) = 3
      <3>1. Len(t) = 2 /\ t[1] = c[2]
        BY <1>1, <2>2
      <3>2. QED BY <2>2, <3>1 DEF After
    <2>3. CASE Len(c) = 4
      <3>1. Len(t) = 3 /\ t[1] = c[2] /\ t[2] = c[3]
        BY <1>1, <2>3
      <3>2. QED BY <2>3, <3>1 DEF After
    <2>4. QED BY <1>2, <2>1, <2>2, <2>3
  <1>7. QED BY <1>1, <1>4, <1>5, <1>6 DEF t

\* What is left of a clause will make of acc, or of what acc is about to be,
\* what the clause means.
Reading ==
    code # <<>> /\ code[Len(code)].op = "and" =>
        /\ IsClause(code)
        /\ \/ phase = "parse" /\ After(code, mean.acc) = mean.clause
           \/ phase \in {"gaps", "merge"} /\ dst = "acc" /\ After(code, mean.goal) = mean.clause

(* The code without its head is what is left of the same clause.           *)
LEMMA TailReads ==
    ASSUME NEW c \in Seq(GoodOp), c # <<>>, Tail(c) # <<>>
    PROVE  Tail(c)[Len(Tail(c))] = c[Len(c)]
  OBVIOUS

(* Steps that leave the clause and its registers alone.                    *)
LEMMA ReadingFrame ==
    ASSUME Reading, UNCHANGED <<code, dst, mean>>,
           phase' = phase \/ (phase = "gaps" /\ phase' = "merge")
    PROVE  Reading'
  BY DEF Reading

LEMMA ReadingStep ==
    ASSUME Bounds \subseteq Points, IInv, Reading, [Next]_vars
    PROVE  Reading'
  <1>1. code \in Seq(GoodOp) /\ mean \in [Registers \cup {"goal", "clause"} -> SUBSET Points]
    BY DEF IInv, TypeOK
  <1>2. CASE ParseClause
    <2>1. PICK c \in Kinds, v \in Named : /\ code' = Clause(c, v)
                                          /\ mean' = [mean EXCEPT !.clause = Means(c, v)]
      BY <1>2 DEF ParseClause
    <2>2. mean'.clause = Means(c, v)
      BY <1>1, <2>1
    <2>3. IsClause(code') /\ After(code', mean'.acc) = mean'.clause
      BY <2>1, <2>2, ClauseMeans
    <2>4. phase' = "parse"
      BY <1>2 DEF ParseClause
    <2>5. QED BY <2>3, <2>4 DEF Reading
  <1>3. CASE ParseFails \/ AnyVersion \/ ParseEnds \/ Again
    BY <1>3 DEF ParseFails, AnyVersion, ParseEnds, Again, Reading
  <1>4. CASE EndArm
    <2>1. code' = <<Op("or", Empty)>>
      BY <1>4 DEF EndArm
    <2>2. code'[Len(code')].op = "or"
      BY <2>1 DEF Op
    <2>3. QED BY <2>2 DEF Reading
  <1>5. CASE Load
    <2>1. /\ phase = "parse" /\ code # <<>> /\ Head(code).op = "load" /\ code' = Tail(code)
          /\ phase' = "parse" /\ mean' = [mean EXCEPT !.acc = Denoted(Head(code).arg)]
      BY <1>5 DEF Load
    <2>2. mean'.acc = Effect(Head(code), mean.acc) /\ mean'.clause = mean.clause
      BY <1>1, <2>1 DEF Effect, Registers
    <2>3. QED BY <1>1, <2>1, <2>2, AfterTail, TailReads DEF Reading
  <1>6. CASE Combine \/ Complement
    <2>1. phase = "parse" /\ code # <<>> /\ code' = Tail(code) /\ phase' \in {"gaps", "merge"}
      BY <1>6 DEF Combine, Complement, Intersect, Union, Normalize
    <2>2. SUFFICES ASSUME Tail(code) # <<>>, code[Len(code)].op = "and"
                   PROVE  Reading'
      BY <1>1, <2>1, TailReads DEF Reading
    <2>3. IsClause(code) /\ After(code, mean.acc) = mean.clause
      BY <2>1, <2>2 DEF Reading
    <2>4. /\ IsClause(Tail(code)) /\ Head(code).op \in {"load", "meet", "join", "not"}
          /\ After(Tail(code), Effect(Head(code), mean.acc)) = mean.clause
      BY <1>1, <2>1, <2>2, <2>3, AfterTail
    <2>5. dst' = "acc" /\ mean' = [mean EXCEPT !.goal = Effect(Head(code), mean.acc)]
      BY <1>6, <2>4 DEF Combine, Complement, Intersect, Union, Normalize, Effect
    <2>6. mean'.goal = Effect(Head(code), mean.acc) /\ mean'.clause = mean.clause
      BY <1>1, <2>5 DEF Registers
    <2>7. QED BY <2>1, <2>4, <2>5, <2>6 DEF Reading
  <1>7. CASE EmitGap \/ Merge
    BY <1>7, ReadingFrame DEF EmitGap, Merge
  <1>8. CASE Merged
    <2>1. phase = "merge" /\ phase' = "parse" /\ UNCHANGED <<code, dst>>
      BY <1>8 DEF Merged
    <2>2. dst = "acc" => mean' = [mean EXCEPT !["acc"] = mean.goal, !.arm = mean.arm]
      BY <1>8 DEF Merged
    <2>3. dst = "acc" => mean'.acc = mean.goal /\ mean'.clause = mean.clause
      BY <1>1, <2>2 DEF Registers
    <2>4. QED BY <2>1, <2>3 DEF Reading
  <1>9. CASE Pick
    BY <1>9 DEF Pick, Reading
  <1>10. CASE UNCHANGED vars
    BY <1>10, ReadingFrame DEF vars
  <1>11. QED BY <1>2, <1>3, <1>4, <1>5, <1>6, <1>7, <1>8, <1>9, <1>10 DEF Next

(* If the bounds of `~` and `^` are observed, every clause has been read   *)
(* as it is written when it reaches its arm: from_constraint's clauses,    *)
(* also those it builds from other operators, mean what they say.          *)
THEOREM ClausesAlwaysRead ==
    ASSUME Bounds \subseteq Points
    PROVE  Spec => []ClauseIsRead
  <1>1. Init => Reading
    BY DEF Init, Reading
  <1>2. IInv /\ Reading /\ [Next]_vars => Reading'
    BY ReadingStep
  <1>3. Reading => ClauseIsRead
    <2>1. SUFFICES ASSUME Reading, code = <<Op("and", Empty)>>, phase = "parse"
                   PROVE  mean.acc = mean.clause
      BY DEF ClauseIsRead
    <2>2. Len(code) = 1 /\ code # <<>> /\ code[Len(code)].op = "and"
      BY <2>1 DEF Op
    <2>3. QED BY <2>1, <2>2 DEF Reading, After
  <1>4. QED BY <1>1, <1>2, <1>3, Invariance, PTL DEF Spec

-----------------------------------------------------------------------------
(* Every interval ends at a bound of some constraint. *)

EndsIn(iv) == iv.lo \in Bounds \cup {NONE} /\ iv.hi \in Bounds \cup {NONE}

Ends(s) == \A i \in DOMAIN s : EndsIn(s[i])

EndsOK ==
    /\ \A r \in Registers : Ends(reg[r])
    /\ \A i \in DOMAIN code : Ends(code[i].arg)
    /\ \A iv \in rest : EndsIn(iv)
    /\ Ends(merged)

(* Bounds are versions.                                                    *)
LEMMA BoundsAreInts == Bounds \subseteq Int
  BY VersionAssumption, BoundsInt DEF Bounds

(* The operations on intervals invent no ends.                             *)
LEMMA IntervalEnds ==
    ASSUME NEW a \in Interval, NEW b \in Interval, EndsIn(a), EndsIn(b)
    PROVE  EndsIn(Canon(a)) /\ EndsIn(Meet(a, b)) /\ EndsIn(Extend(a, b))
  <1>1. EndsIn(Canon(a))
    BY DEF EndsIn, Canon, Interval
  <1>2. EndsIn(Meet(a, b))
    BY DEF EndsIn, Meet
  <1>3. EndsIn(Extend(a, b))
    BY DEF EndsIn, Extend, Interval
  <1>4. QED BY <1>1, <1>2, <1>3

LEMMA MergeIntoEnds ==
    ASSUME NEW s \in Seq(Interval), NEW iv \in Interval, Ends(s), EndsIn(iv)
    PROVE  Ends(MergeInto(s, iv))
  <1>1. Len(s) \in Nat /\ DOMAIN s = 1 .. Len(s) /\ \A i \in 1 .. Len(s) : s[i] \in Interval
    OBVIOUS
  <1>2. CASE MergeInto(s, iv) = s
    BY <1>2
  <1>3. CASE MergeInto(s, iv) = <<iv>>
    <2>1. DOMAIN <<iv>> = {1} /\ <<iv>>[1] = iv
      OBVIOUS
    <2>2. QED BY <1>3, <2>1 DEF Ends
  <1>4. CASE MergeInto(s, iv) = Append(s, iv)
    <2>1. /\ DOMAIN Append(s, iv) = 1 .. Len(s) + 1 /\ Append(s, iv)[Len(s) + 1] = iv
          /\ \A i \in 1 .. Len(s) : Append(s, iv)[i] = s[i]
      OBVIOUS
    <2>2. \A i \in 1 .. Len(s) + 1 : i \in 1 .. Len(s) \/ i = Len(s) + 1
      BY <1>1
    <2>3. QED BY <1>1, <1>4, <2>1, <2>2 DEF Ends
  <1>5. CASE s # <<>> /\ MergeInto(s, iv) = [s EXCEPT ![Len(s)] = Extend(s[Len(s)], iv)]
    <2> DEFINE n == Len(s)
               e == Extend(s[n], iv)
    <2>1. n \in DOMAIN s
      BY <1>1, <1>5
    <2>2. EndsIn(e)
      BY <1>1, <2>1, IntervalEnds DEF Ends
    <2>3. /\ DOMAIN MergeInto(s, iv) = DOMAIN s
          /\ \A i \in DOMAIN s : MergeInto(s, iv)[i] = IF i = n THEN e ELSE s[i]
      BY <1>5
    <2> HIDE DEF n, e
    <2>4. QED BY <2>2, <2>3 DEF Ends
  <1>6. QED BY <1>2, <1>3, <1>4, <1>5 DEF MergeInto

(* The constructors end at their argument.                                 *)
LEMMA ConstructorEnds ==
    /\ Ends(Full) /\ Ends(Empty)
    /\ \A v \in Bounds : Ends(Gte(v)) /\ Ends(Lt(v)) /\ Ends(Eq(v))
  <1>1. \A a : EndsIn(a) => Ends(<<a>>)
    <2>1. \A a : DOMAIN <<a>> = {1} /\ <<a>>[1] = a
      OBVIOUS
    <2>2. QED BY <2>1 DEF Ends
  <1>2. \A l, h \in Bounds \cup {NONE} : \A lc, hc : EndsIn(Iv(l, h, lc, hc))
    BY DEF EndsIn, Iv
  <1>3. Ends(Empty)
    BY DEF Ends, Empty
  <1>4. QED BY <1>1, <1>2, <1>3 DEF Full, Gte, Lt, Eq

LEMMA ClauseEnds ==
    ASSUME NEW c \in Kinds, NEW v \in Named
    PROVE  \A i \in DOMAIN Clause(c, v) : Ends(Clause(c, v)[i].arg)
  <1>1. v \in Bounds /\ TildeBound(v) \in Bounds /\ CaretBound(v) \in Bounds
    BY DEF Bounds
  <1> DEFINE Good(o) == Ends(o.arg)
  <1>2. \A o, s : Ends(s) => Good(Op(o, s))
    BY DEF Op
  <1> HIDE DEF Good
  <1>3. ASSUME NEW a, NEW b, NEW d, NEW e
        PROVE  /\ Good(a) /\ Good(b) => \A i \in DOMAIN <<a, b>> : Good(<<a, b>>[i])
               /\ Good(a) /\ Good(b) /\ Good(d) => \A i \in DOMAIN <<a, b, d>> : Good(<<a, b, d>>[i])
               /\ Good(a) /\ Good(b) /\ Good(d) /\ Good(e) =>
                    \A i \in DOMAIN <<a, b, d, e>> : Good(<<a, b, d, e>>[i])
    <2>1. /\ DOMAIN <<a, b>> = {1, 2} /\ DOMAIN <<a, b, d>> = {1, 2, 3}
          /\ DOMAIN <<a, b, d, e>> = {1, 2, 3, 4}
      OBVIOUS
    <2>2. QED BY <2>1
  <1>4. \A i \in DOMAIN Clause(c, v) : Good(Clause(c, v)[i])
    BY <1>1, <1>2, <1>3, ConstructorEnds DEF Clause, Kinds
  <1>5. QED BY <1>4 DEF Good

(* The gaps of a set end where its intervals do.                           *)
LEMMA GapEnds ==
    ASSUME NEW s \in Seq(Interval), Ends(s), s # <<>>, NEW g \in 1 .. Len(s)
    PROVE  /\ \A iv \in LeftGap(s) : EndsIn(iv)
           /\ \A iv \in Gap(s, g) : EndsIn(iv)
  <1>1. Len(s) \in Nat /\ DOMAIN s = 1 .. Len(s) /\ 1 \in DOMAIN s /\ g \in DOMAIN s
        /\ (g < Len(s) => g + 1 \in DOMAIN s)
    OBVIOUS
  <1>2. \A iv \in LeftGap(s) : EndsIn(iv)
    BY <1>1 DEF LeftGap, Ends, EndsIn, Iv
  <1>3. \A iv \in Gap(s, g) : EndsIn(iv)
    BY <1>1 DEF Gap, Ends, EndsIn, Iv
  <1>4. QED BY <1>2, <1>3

(* Starting normalize_intervals.                                           *)
LEMMA NormalizeEnds ==
    ASSUME EndsOK, NEW S \in SUBSET Interval, \A iv \in S : EndsIn(iv), NEW d, NEW g,
           Normalize(S, d, g), UNCHANGED reg,
           \A i \in DOMAIN code' : Ends(code'[i].arg)
    PROVE  EndsOK'
  <1>1. rest' = {Canon(iv) : iv \in S} /\ merged' = <<>>
    BY DEF Normalize
  <1>2. \A iv \in rest' : EndsIn(iv)
    BY <1>1, IntervalEnds
  <1>3. Ends(merged')
    BY <1>1 DEF Ends
  <1>4. QED BY <1>2, <1>3 DEF EndsOK

LEMMA PairsEnd ==
    ASSUME NEW s \in Seq(Interval), NEW t \in Seq(Interval), Ends(s), Ends(t)
    PROVE  /\ \A iv \in Pairs(s, t) : EndsIn(iv)
           /\ \A iv \in Elements(s) \cup Elements(t) : EndsIn(iv)
           /\ Elements(s) \cup Elements(t) \in SUBSET Interval
  <1>1. \A i \in DOMAIN s : s[i] \in Interval /\ EndsIn(s[i])
    BY DEF Ends
  <1>2. \A i \in DOMAIN t : t[i] \in Interval /\ EndsIn(t[i])
    BY DEF Ends
  <1>3. \A a \in Elements(s) \cup Elements(t) : a \in Interval /\ EndsIn(a)
    BY <1>1, <1>2 DEF Elements
  <1>4. QED BY <1>3, IntervalEnds DEF Pairs

LEMMA InitEnds == Init => EndsOK
  <1>1. SUFFICES ASSUME Init PROVE EndsOK
    OBVIOUS
  <1>2. \A r \in Registers : Ends(reg[r])
    BY <1>1, ConstructorEnds DEF Init, NoSets
  <1>3. QED BY <1>1, <1>2 DEF Init, EndsOK, Ends

LEMMA EndsStep ==
    ASSUME IInv, EndsOK, [Next]_vars
    PROVE  EndsOK'
  <1>1. /\ code \in Seq(GoodOp) /\ reg \in [Registers -> Seq(Interval)]
        /\ rest \in SUBSET Interval /\ merged \in Seq(Interval)
        /\ reg.acc \in Seq(Interval) /\ reg.arm \in Seq(Interval) /\ reg.result \in Seq(Interval)
    BY Facts DEF IInv, TypeOK
  <1>2. Ends(reg.acc) /\ Ends(reg.arm) /\ Ends(reg.result)
    BY DEF EndsOK, Registers
  <1>3. ASSUME code # <<>>, code' = Tail(code)
        PROVE  /\ \A i \in DOMAIN code' : Ends(code'[i].arg)
               /\ Ends(Head(code).arg) /\ Head(code).arg \in Seq(Interval)
    <2>1. 1 \in DOMAIN code /\ Head(code) = code[1]
      BY <1>1, <1>3
    <2>2. \A i \in DOMAIN code' : i + 1 \in DOMAIN code /\ code'[i] = code[i + 1]
      BY <1>1, <1>3
    <2>3. QED BY <1>1, <1>3, <2>1, <2>2, HeadGood DEF EndsOK
  <1>4. CASE ParseClause
    <2>1. PICK c \in Kinds, v \in Named : code' = Clause(c, v)
      BY <1>4 DEF ParseClause
    <2>2. \A i \in DOMAIN code' : Ends(code'[i].arg)
      BY <2>1, ClauseEnds
    <2>3. UNCHANGED <<reg, rest, merged>>
      BY <1>4 DEF ParseClause
    <2>4. QED BY <2>2, <2>3 DEF EndsOK
  <1>5. CASE ParseFails \/ ParseEnds \/ Pick
    BY <1>5 DEF ParseFails, ParseEnds, Pick, EndsOK
  <1>6. CASE EndArm
    <2>1. code' = <<Op("or", Empty)>> /\ UNCHANGED <<reg, rest, merged>>
      BY <1>6 DEF EndArm
    <2>2. \A i \in DOMAIN code' : code'[i].arg = Empty
      BY <2>1 DEF Op
    <2>3. QED BY <2>1, <2>2, ConstructorEnds DEF EndsOK
  <1>7. CASE AnyVersion
    <2>1. reg' = [reg EXCEPT !.result = Full] /\ UNCHANGED <<code, rest, merged>>
      BY <1>7 DEF AnyVersion
    <2>2. \A r \in Registers : reg'[r] = reg[r] \/ reg'[r] = Full
      BY <1>1, <2>1
    <2>3. QED BY <2>1, <2>2, ConstructorEnds DEF EndsOK
  <1>8. CASE Load
    <2>1. /\ code # <<>> /\ code' = Tail(code) /\ UNCHANGED <<rest, merged>>
          /\ reg' = [reg EXCEPT !.acc = Head(code).arg]
      BY <1>8 DEF Load
    <2>2. \A r \in Registers : reg'[r] = reg[r] \/ reg'[r] = Head(code).arg
      BY <1>1, <2>1
    <2>3. QED BY <1>3, <2>1, <2>2 DEF EndsOK
  <1>9. CASE Combine
    <2> DEFINE a == Head(code).arg
    <2>1. code # <<>> /\ code' = Tail(code) /\ UNCHANGED reg
      BY <1>9 DEF Combine
    <2>2. PICK s \in {a, reg.acc, reg.arm, reg.result}, t \in {a, reg.acc, reg.arm, reg.result} :
            \E d, g : Intersect(s, t, d, g) \/ Union(s, t, d, g)
      BY <1>9 DEF Combine
    <2>3. \A i \in DOMAIN code' : Ends(code'[i].arg)
      BY <1>3, <2>1
    <2>4. s \in Seq(Interval) /\ t \in Seq(Interval) /\ Ends(s) /\ Ends(t)
      BY <1>1, <1>2, <1>3, <2>1
    <2>5. PICK S \in SUBSET Interval : (\A iv \in S : EndsIn(iv)) /\ \E d, g : Normalize(S, d, g)
      BY <2>2, <2>4, PairsEnd, PairsContain DEF Intersect, Union
    <2>6. QED BY <2>1, <2>3, <2>5, NormalizeEnds
  <1>10. CASE Complement
    <2>1. /\ code # <<>> /\ code' = Tail(code) /\ UNCHANGED reg /\ merged' = <<>>
          /\ rest' = IF reg.acc = Empty THEN Elements(Full) ELSE LeftGap(reg.acc)
      BY <1>10 DEF Complement
    <2>2. \A iv \in rest' : EndsIn(iv)
      <3>1. CASE reg.acc = Empty
        BY <2>1, <3>1, ConstructorEnds DEF Elements, Ends
      <3>2. CASE reg.acc # Empty
        <4>1. reg.acc # <<>> /\ 1 \in 1 .. Len(reg.acc)
          BY <1>1, <3>2 DEF Empty
        <4>2. QED BY <1>1, <1>2, <2>1, <3>2, <4>1, GapEnds
      <3>3. QED BY <3>1, <3>2
    <2>3. Ends(merged')
      BY <2>1 DEF Ends
    <2>4. QED BY <1>3, <2>1, <2>2, <2>3 DEF EndsOK
  <1>11. CASE EmitGap
    <2>1. /\ UNCHANGED <<reg, code, merged>> /\ phase = "gaps"
          /\ rest' = rest \cup {Canon(iv) : iv \in Gap(reg.acc, gap)}
      BY <1>11 DEF EmitGap
    <2>2. gap \in 1 .. Len(reg.acc) /\ reg.acc # <<>>
      <3>1. gap \in 1 .. Len(reg.acc)
        BY <2>1 DEF IInv, Gapping
      <3>2. QED BY <1>1, <3>1
    <2>3. Gap(reg.acc, gap) \subseteq Interval
      <3>1. reg.acc[gap] \in Interval /\ (gap < Len(reg.acc) => reg.acc[gap + 1] \in Interval)
        BY <1>1, <2>2
      <3>2. QED BY <3>1, IntervalFields DEF Gap, Iv, Interval, OptInt
    <2>4. \A iv \in rest' : EndsIn(iv)
      BY <1>1, <1>2, <2>1, <2>2, <2>3, GapEnds, IntervalEnds DEF EndsOK
    <2>5. QED BY <2>1, <2>4 DEF EndsOK
  <1>12. CASE Merge
    <2>1. PICK iv \in rest : merged' = MergeInto(merged, iv) /\ rest' = rest \ {iv}
      BY <1>12 DEF Merge
    <2>2. Ends(merged')
      BY <1>1, <2>1, MergeIntoEnds DEF EndsOK
    <2>3. UNCHANGED <<reg, code>>
      BY <1>12 DEF Merge
    <2>4. QED BY <2>1, <2>2, <2>3 DEF EndsOK
  <1>13. CASE Merged
    <2>1. \A r \in Registers : reg'[r] \in {reg[r], merged, Full}
      BY <1>1, <1>13 DEF Merged, Registers
    <2>2. UNCHANGED <<code, rest, merged>>
      BY <1>13 DEF Merged
    <2>3. QED BY <2>1, <2>2, ConstructorEnds DEF EndsOK
  <1>14. CASE Again
    <2>1. Init'
      BY <1>14 DEF Again, Init
    <2>2. QED BY <2>1, InitEnds, PTL
  <1>15. CASE UNCHANGED vars
    BY <1>15 DEF vars, EndsOK
  <1>16. QED BY <1>4, <1>5, <1>6, <1>7, <1>8, <1>9, <1>10, <1>11, <1>12, <1>13, <1>14, <1>15
         DEF Next

-----------------------------------------------------------------------------
(* Two canonical sets with the same observed versions are one sequence. *)

(* Every nonempty set of naturals has a least element.                     *)
LEMMA LeastOf ==
    ASSUME NEW B \in SUBSET Nat, B # {}
    PROVE  \E n \in B : \A m \in B : n <= m
  <1> DEFINE R == {ss \in Nat \X Nat : ss[1] < ss[2]}
  <1>1. IsWellFoundedOn(R, Nat)
    BY NatLessThanWellFounded DEF OpToRel
  <1> HIDE DEF R
  <1>2. PICK n \in B : \A m \in B : ~(<<m, n>> \in R)
    BY <1>1, WFMin
  <1>3. \A m \in B : m < n => <<m, n>> \in R
    BY DEF R
  <1>4. ASSUME NEW m \in B PROVE n <= m
    <2>1. ~(m < n)
      BY <1>2, <1>3
    <2>2. QED BY <2>1
  <1>5. QED BY <1>4

\* The intervals that canonical sets of constraints have.
Proper(a) == a \in Interval /\ IntervalNonempty(a) /\ Canon(a) = a /\ EndsIn(a)

(* ... with their ends, field by field.                                    *)
LEMMA ProperFields ==
    ASSUME NEW a, Proper(a), Observed
    PROVE  /\ a.lo \in Bounds \cup {NONE} /\ a.hi \in Bounds \cup {NONE}
           /\ a.lo \in OptInt /\ a.hi \in OptInt
           /\ a.lo_closed \in BOOLEAN /\ a.hi_closed \in BOOLEAN
           /\ a.lo = NONE => a.lo_closed
           /\ a.hi = NONE => ~a.hi_closed
           /\ a.lo # NONE /\ a.hi # NONE => a.lo < a.hi \/ (a.lo = a.hi /\ a.lo_closed /\ a.hi_closed)
           /\ a = Iv(a.lo, a.hi, a.lo_closed, a.hi_closed)
  <1>1. a \in Interval
    BY DEF Proper
  <1>2. /\ a.lo \in OptInt /\ a.hi \in OptInt
        /\ a.lo_closed \in BOOLEAN /\ a.hi_closed \in BOOLEAN
    BY <1>1, IntervalFields
  <1>3. a = Iv(a.lo, a.hi, a.lo_closed, a.hi_closed)
    BY <1>1 DEF Interval, Iv
  <1>4. Canon(a) = a
    BY DEF Proper
  <1>5. (a.lo = NONE => a.lo_closed) /\ (a.hi = NONE => ~a.hi_closed)
    BY <1>1, <1>2, <1>4 DEF Canon, Interval
  <1>6. QED BY <1>2, <1>3, <1>5 DEF Proper, EndsIn, IntervalNonempty

\* The lower, the upper end of a comes first.
StartsFirst(a, b) ==
    \/ a.lo = NONE /\ b.lo # NONE
    \/ a.lo # NONE /\ b.lo # NONE
       /\ (a.lo < b.lo \/ (a.lo = b.lo /\ a.lo_closed /\ ~b.lo_closed))

EndsFirst(a, b) ==
    \/ a.hi # NONE /\ b.hi = NONE
    \/ a.hi # NONE /\ b.hi # NONE
       /\ (a.hi < b.hi \/ (a.hi = b.hi /\ ~a.hi_closed /\ b.hi_closed))

(* Different intervals start or end at different places.                   *)
LEMMA Differ ==
    ASSUME Observed, NEW a, NEW b, Proper(a), Proper(b), a # b
    PROVE  \/ StartsFirst(a, b) \/ StartsFirst(b, a)
           \/ a.lo = b.lo /\ a.lo_closed = b.lo_closed /\ (EndsFirst(a, b) \/ EndsFirst(b, a))
  <1>1. /\ a.lo \in OptInt /\ a.hi \in OptInt /\ a.lo_closed \in BOOLEAN /\ a.hi_closed \in BOOLEAN
        /\ a.lo = NONE => a.lo_closed
        /\ a.hi = NONE => ~a.hi_closed
        /\ a = Iv(a.lo, a.hi, a.lo_closed, a.hi_closed)
    BY ProperFields
  <1>2. /\ b.lo \in OptInt /\ b.hi \in OptInt /\ b.lo_closed \in BOOLEAN /\ b.hi_closed \in BOOLEAN
        /\ b.lo = NONE => b.lo_closed
        /\ b.hi = NONE => ~b.hi_closed
        /\ b = Iv(b.lo, b.hi, b.lo_closed, b.hi_closed)
    BY ProperFields
  <1>3. \/ a.lo # b.lo \/ (a.lo_closed # b.lo_closed)
        \/ a.hi # b.hi \/ (a.hi_closed # b.hi_closed)
    BY <1>1, <1>2
  <1>4. ASSUME a.lo # b.lo \/ a.lo_closed # b.lo_closed
        PROVE  StartsFirst(a, b) \/ StartsFirst(b, a)
    BY <1>1, <1>2, <1>4, NoneAssumption DEF StartsFirst, OptInt
  <1>5. ASSUME a.hi # b.hi \/ a.hi_closed # b.hi_closed
        PROVE  EndsFirst(a, b) \/ EndsFirst(b, a)
    BY <1>1, <1>2, <1>5, NoneAssumption DEF EndsFirst, OptInt
  <1>6. QED BY <1>3, <1>4, <1>5

(* An interval has an observed version that no interval starting after it  *)
(* has: its closed end, the version right after its open end, or the first *)
(* version of all.                                                         *)
LEMMA FirstVersion ==
    ASSUME Observed, NEW a, Proper(a)
    PROVE  \E p \in Points : /\ IntervalContains(a, p)
                             /\ \A b : Proper(b) /\ StartsFirst(a, b) => ~AboveLo(b, p)
  <1>1. /\ a.lo \in Bounds \cup {NONE} /\ a.hi \in Bounds \cup {NONE}
        /\ a.lo # NONE /\ a.hi # NONE => a.lo < a.hi \/ (a.lo = a.hi /\ a.lo_closed /\ a.hi_closed)
        /\ a.lo_closed \in BOOLEAN
    BY ProperFields
  <1>2. \A b : Proper(b) => b.lo \in Bounds \cup {NONE} /\ b.lo_closed \in BOOLEAN
    BY ProperFields
  <1>3. Bounds \subseteq Points /\ Points \subseteq Int /\ Bounds \subseteq Int
    BY VersionAssumption DEF Observed
  <1>4. CASE a.lo = NONE
    <2>1. PICK p \in Points : \A b \in Bounds : p < b
      BY DEF Observed
    <2>2. IntervalContains(a, p)
      BY <1>1, <1>3, <1>4, <2>1 DEF IntervalContains, AboveLo, BelowHi
    <2>3. ASSUME NEW b, Proper(b), StartsFirst(a, b) PROVE ~AboveLo(b, p)
      <3>1. b.lo \in Bounds
        BY <1>2, <1>4, <2>3 DEF StartsFirst
      <3>2. p < b.lo /\ p \in Int /\ b.lo \in Int /\ b.lo # NONE
        BY <1>3, <2>1, <3>1, NoneAssumption
      <3>3. QED BY <3>2 DEF AboveLo
    <2>4. QED BY <2>2, <2>3
  <1>5. CASE a.lo # NONE /\ a.lo_closed
    <2>1. a.lo \in Points /\ a.lo \in Int
      BY <1>1, <1>3, <1>5
    <2>2. IntervalContains(a, a.lo)
      BY <1>1, <1>3, <1>5, <2>1 DEF IntervalContains, AboveLo, BelowHi
    <2>3. ASSUME NEW b, Proper(b), StartsFirst(a, b) PROVE ~AboveLo(b, a.lo)
      <3>1. b.lo \in Bounds /\ b.lo_closed \in BOOLEAN
        BY <1>2, <1>5, <2>3 DEF StartsFirst
      <3>2. b.lo \in Int /\ b.lo # NONE
        BY <1>3, <3>1, NoneAssumption
      <3>3. a.lo < b.lo \/ (a.lo = b.lo /\ ~b.lo_closed)
        BY <1>5, <2>3, <3>2 DEF StartsFirst
      <3>4. QED BY <2>1, <3>1, <3>2, <3>3 DEF AboveLo
    <2>4. QED BY <2>1, <2>2, <2>3
  <1>6. CASE a.lo # NONE /\ ~a.lo_closed
    <2>1. a.lo \in Bounds
      BY <1>1, <1>6
    <2>2. PICK p \in Points : Follows(p, a.lo)
      BY <2>1 DEF Observed
    <2>3. a.lo < p /\ p \in Int /\ \A c \in Bounds : a.lo < c => p < c
      BY <1>3, <2>2 DEF Follows
    <2>4. IntervalContains(a, p)
      BY <1>1, <1>3, <1>6, <2>3 DEF IntervalContains, AboveLo, BelowHi
    <2>5. ASSUME NEW b, Proper(b), StartsFirst(a, b) PROVE ~AboveLo(b, p)
      <3>1. b.lo \in Bounds /\ a.lo < b.lo
        BY <1>2, <1>6, <2>5 DEF StartsFirst
      <3>2. p < b.lo /\ b.lo \in Int /\ b.lo # NONE
        BY <1>3, <2>3, <3>1, NoneAssumption
      <3>3. QED BY <2>3, <3>2 DEF AboveLo
    <2>6. QED BY <2>4, <2>5
  <1>7. QED BY <1>1, <1>4, <1>5, <1>6

(* Of two intervals that start together, the one that ends last has an     *)
(* observed version that neither the other nor what may follow it has.     *)
LEMMA VersionAfter ==
    ASSUME Observed, NEW a, NEW b, Proper(a), Proper(b),
           a.lo = b.lo, a.lo_closed = b.lo_closed, EndsFirst(a, b)
    PROVE  \E p \in Points : /\ IntervalContains(b, p) /\ ~BelowHi(a, p)
                             /\ \A c : Proper(c) /\ ~Connectable(a, c) => ~AboveLo(c, p)
  <1>1. /\ a.lo \in Bounds \cup {NONE} /\ a.hi \in Bounds
        /\ a.lo # NONE => a.lo < a.hi \/ (a.lo = a.hi /\ a.lo_closed /\ a.hi_closed)
        /\ a.lo_closed \in BOOLEAN /\ a.hi_closed \in BOOLEAN
    BY ProperFields DEF EndsFirst
  <1>2. b.hi \in Bounds \cup {NONE} /\ b.hi_closed \in BOOLEAN
    BY ProperFields
  <1>3. \A c : Proper(c) => c.lo \in Bounds \cup {NONE} /\ c.lo_closed \in BOOLEAN
    BY ProperFields
  <1>4. Bounds \subseteq Points /\ Points \subseteq Int /\ Bounds \subseteq Int /\ a.hi # NONE
    BY <1>1, VersionAssumption, NoneAssumption DEF Observed
  <1>5. ASSUME NEW p \in Points, IF a.hi_closed THEN a.hi < p ELSE p = a.hi,
               \A c \in Bounds : a.hi < c => p < c
        PROVE  /\ ~BelowHi(a, p)
               /\ \A c : Proper(c) /\ ~Connectable(a, c) => ~AboveLo(c, p)
    <2>1. p \in Int /\ a.hi \in Int
      BY <1>1, <1>4
    <2>2. ~BelowHi(a, p)
      BY <1>4, <1>5, <2>1 DEF BelowHi
    <2>3. ASSUME NEW c, Proper(c), ~Connectable(a, c) PROVE ~AboveLo(c, p)
      <3>1. c.lo \in Bounds /\ c.lo # NONE /\ c.lo \in Int
        BY <1>3, <1>4, <2>3, NoneAssumption DEF Connectable
      <3>2. a.hi < c.lo \/ (a.hi = c.lo /\ ~a.hi_closed /\ ~c.lo_closed)
        BY <1>4, <2>1, <2>3, <3>1 DEF Connectable
      <3>3. CASE a.hi < c.lo
        <4>1. p < c.lo
          BY <1>5, <3>1, <3>3
        <4>2. QED BY <2>1, <3>1, <4>1 DEF AboveLo
      <3>4. CASE a.hi = c.lo /\ ~a.hi_closed /\ ~c.lo_closed /\ p = a.hi
        BY <2>1, <3>1, <3>4 DEF AboveLo
      <3>5. QED BY <1>5, <3>2, <3>3, <3>4
    <2>4. QED BY <2>2, <2>3
  <1>6. CASE ~a.hi_closed
    <2>1. a.hi \in Points /\ a.hi \in Int
      BY <1>1, <1>4
    <2>2. IntervalContains(b, a.hi)
      <3>1. AboveLo(b, a.hi)
        BY <1>1, <1>4, <1>6, <2>1 DEF AboveLo
      <3>2. BelowHi(b, a.hi)
        BY <1>2, <1>4, <2>1 DEF BelowHi, EndsFirst
      <3>3. QED BY <3>1, <3>2 DEF IntervalContains
    <2>3. QED BY <1>5, <1>6, <2>1, <2>2
  <1>7. CASE a.hi_closed
    <2>1. PICK p \in Points : Follows(p, a.hi)
      BY <1>1 DEF Observed
    <2>2. a.hi < p /\ p \in Int /\ a.hi \in Int /\ \A c \in Bounds : a.hi < c => p < c
      BY <1>1, <1>4, <2>1 DEF Follows
    <2>3. IntervalContains(b, p)
      <3>1. AboveLo(b, p)
        <4>1. a.lo = NONE \/ (a.lo \in Int /\ a.lo <= a.hi)
          <5>1. a.lo # NONE => a.lo \in Int /\ (a.lo < a.hi \/ a.lo = a.hi)
            BY <1>1, <1>4
          <5>2. QED BY <2>2, <5>1
        <4>2. a.lo = NONE \/ a.lo < p
          BY <2>2, <4>1
        <4>3. QED BY <4>2 DEF AboveLo
      <3>2. b.hi = NONE \/ (b.hi \in Bounds /\ a.hi < b.hi)
        BY <1>2, <1>7 DEF EndsFirst
      <3>3. BelowHi(b, p)
        BY <1>4, <2>2, <3>2 DEF BelowHi
      <3>4. QED BY <3>1, <3>3 DEF IntervalContains
    <2>4. QED BY <1>5, <1>7, <2>2, <2>3
  <1>8. QED BY <1>1, <1>6, <1>7

\* A sequence that from_constraint may build.
ProperSet(s) == s \in Seq(Interval) /\ Canonical(s) /\ Ends(s)

(* Up to the place k, s and t have the same intervals: if s goes on with   *)
(* an interval, then so does t, with one that does not start later.        *)
LEMMA StartsTogether ==
    ASSUME Observed, NEW s, NEW t, ProperSet(s), ProperSet(t), Denoted(s) = Denoted(t),
           NEW k \in DOMAIN s, \A i \in 1 .. k - 1 : i \in DOMAIN t /\ t[i] = s[i]
    PROVE  k \in DOMAIN t /\ ~StartsFirst(s[k], t[k])
  <1>1. /\ s \in Seq(Interval) /\ t \in Seq(Interval) /\ Canonical(s) /\ Canonical(t)
        /\ DOMAIN s = 1 .. Len(s) /\ DOMAIN t = 1 .. Len(t) /\ Len(s) \in Nat /\ Len(t) \in Nat
    BY DEF ProperSet
  <1>2. (\A i \in DOMAIN s : Proper(s[i])) /\ (\A i \in DOMAIN t : Proper(t[i]))
    BY <1>1 DEF ProperSet, Proper, Canonical, Ends
  <1>3. PICK p \in Points : /\ IntervalContains(s[k], p)
                            /\ \A b : Proper(b) /\ StartsFirst(s[k], b) => ~AboveLo(b, p)
    BY <1>2, FirstVersion
  <1>4. p \in Int /\ AboveLo(s[k], p) /\ p \in Denoted(s)
    BY <1>3, VersionAssumption DEF IntervalContains, Denoted, Contains
  <1>5. PICK j \in DOMAIN t : IntervalContains(t[j], p)
    BY <1>4 DEF Denoted, Contains
  <1>6. ~(j < k)
    <2>1. SUFFICES ASSUME j < k PROVE FALSE
      OBVIOUS
    <2>2. j \in 1 .. k - 1 /\ j \in DOMAIN s /\ t[j] = s[j]
      BY <1>1, <2>1
    <2>3. ~BelowHi(s[j], p)
      BY <1>1, <1>4, <2>1, <2>2, CanonicalOrder
    <2>4. QED BY <1>5, <2>2, <2>3 DEF IntervalContains
  <1>7. k \in DOMAIN t /\ (k = j \/ k < j)
    BY <1>1, <1>6
  <1>8. AboveLo(t[k], p)
    BY <1>1, <1>4, <1>5, <1>7, CanonicalOrder DEF IntervalContains
  <1>9. QED BY <1>2, <1>3, <1>7, <1>8

(* ... and if they start together, not one that ends later.                *)
LEMMA EndsTogether ==
    ASSUME Observed, NEW s, NEW t, ProperSet(s), ProperSet(t), Denoted(s) = Denoted(t),
           NEW k \in DOMAIN s, k \in DOMAIN t,
           s[k].lo = t[k].lo, s[k].lo_closed = t[k].lo_closed
    PROVE  ~EndsFirst(s[k], t[k])
  <1>1. /\ s \in Seq(Interval) /\ t \in Seq(Interval) /\ Canonical(s) /\ Canonical(t)
        /\ DOMAIN s = 1 .. Len(s) /\ DOMAIN t = 1 .. Len(t) /\ Len(s) \in Nat /\ Len(t) \in Nat
    BY DEF ProperSet
  <1>2. (\A i \in DOMAIN s : Proper(s[i])) /\ (\A i \in DOMAIN t : Proper(t[i]))
    BY <1>1 DEF ProperSet, Proper, Canonical, Ends
  <1>3. SUFFICES ASSUME EndsFirst(s[k], t[k]) PROVE FALSE
    OBVIOUS
  <1>4. PICK p \in Points : /\ IntervalContains(t[k], p) /\ ~BelowHi(s[k], p)
                            /\ \A c : Proper(c) /\ ~Connectable(s[k], c) => ~AboveLo(c, p)
    BY <1>2, <1>3, VersionAfter
  <1>5. p \in Int /\ p \in Denoted(t)
    BY <1>4, VersionAssumption DEF Denoted, Contains
  <1>6. PICK j \in DOMAIN s : IntervalContains(s[j], p)
    BY <1>5 DEF Denoted, Contains
  <1>7. AboveLo(s[k], p)
    BY <1>1, <1>4, <1>5, CanonicalOrder
  <1>8. ~(j < k)
    BY <1>1, <1>5, <1>6, <1>7, CanonicalOrder DEF IntervalContains
  <1>9. ~(k < j)
    <2>1. k < j => ~Connectable(s[k], s[j])
      BY <1>1 DEF Canonical
    <2>2. QED BY <1>2, <1>4, <1>6, <2>1 DEF IntervalContains
  <1>10. j = k
    BY <1>1, <1>8, <1>9
  <1>11. QED BY <1>4, <1>6, <1>10 DEF IntervalContains

(* Structural equality is set equality.                                    *)
LEMMA SameSetsEqual ==
    ASSUME Observed, NEW s, NEW t, ProperSet(s), ProperSet(t), Denoted(s) = Denoted(t)
    PROVE  s = t
  <1>1. /\ s \in Seq(Interval) /\ t \in Seq(Interval)
        /\ DOMAIN s = 1 .. Len(s) /\ DOMAIN t = 1 .. Len(t) /\ Len(s) \in Nat /\ Len(t) \in Nat
    BY DEF ProperSet
  <1> DEFINE Agree(i) == i \in DOMAIN s /\ i \in DOMAIN t /\ s[i] = t[i]
             D == {i \in DOMAIN s \cup DOMAIN t : ~Agree(i)}
  <1>2. ASSUME D # {} PROVE FALSE
    <2>1. D \in SUBSET Nat
      BY <1>1
    <2>2. PICK k \in D : \A m \in D : k <= m
      <3> HIDE DEF D
      <3>1. QED BY <1>2, <2>1, LeastOf
    <2>3. \A i \in 1 .. k - 1 : Agree(i)
      <3>1. \A i \in 1 .. k - 1 : i \in DOMAIN s \cup DOMAIN t /\ ~(k <= i)
        BY <1>1
      <3>2. QED BY <2>2, <3>1
    <2>4. k \in DOMAIN s => k \in DOMAIN t /\ ~StartsFirst(s[k], t[k])
      BY <2>3, StartsTogether
    <2>5. k \in DOMAIN t => k \in DOMAIN s /\ ~StartsFirst(t[k], s[k])
      BY <2>3, StartsTogether
    <2>6. k \in DOMAIN s /\ k \in DOMAIN t /\ s[k] # t[k]
      BY <2>2, <2>4, <2>5
    <2>7. Proper(s[k]) /\ Proper(t[k])
      BY <1>1, <2>6 DEF ProperSet, Proper, Canonical, Ends
    <2>8. /\ s[k].lo = t[k].lo /\ s[k].lo_closed = t[k].lo_closed
          /\ EndsFirst(s[k], t[k]) \/ EndsFirst(t[k], s[k])
      BY <2>4, <2>5, <2>6, <2>7, Differ
    <2>9. ~EndsFirst(s[k], t[k]) /\ ~EndsFirst(t[k], s[k])
      BY <2>6, <2>8, EndsTogether
    <2>10. QED BY <2>8, <2>9
  <1>3. DOMAIN s = DOMAIN t /\ \A i \in DOMAIN s : s[i] = t[i]
    BY <1>2
  <1>4. QED BY <1>1, <1>3

(* If the observed versions tell the bounds of constraints apart, sets     *)
(* with the same versions are the same sequence, so that the derived Eq of *)
(* VersionSet, is_full and is_empty decide what they should.               *)
THEOREM EqualityAlwaysSemantic ==
    ASSUME Observed
    PROVE  Spec => []EqualityIsSemantic
  <1>1. IInv /\ EndsOK => EqualityIsSemantic
    <2> SUFFICES ASSUME IInv, EndsOK PROVE EqualityIsSemantic
      OBVIOUS
    <2>1. \A r \in Registers : ProperSet(reg[r]) /\ Denoted(reg[r]) = mean[r]
      <3>1. ASSUME NEW r \in Registers PROVE ProperSet(reg[r])
        BY DEF IInv, TypeOK, AlwaysCanonical, EndsOK, ProperSet
      <3>2. ASSUME NEW r \in Registers PROVE Denoted(reg[r]) = mean[r]
        <4>1. mean[r] \in SUBSET Points /\ \A x \in Points : Contains(reg[r], x) <=> x \in mean[r]
          BY DEF IInv, TypeOK, Denotes
        <4>2. QED BY <4>1 DEF Denoted
      <3>3. QED BY <3>1, <3>2
    <2>2. ProperSet(Full) /\ Denoted(Full) = Points
      <3>1. Full \in Seq(Interval) /\ Canonical(Full) /\ \A x \in Int : Contains(Full, x)
        BY Constructors
      <3>2. QED BY <3>1, ConstructorEnds, VersionAssumption DEF ProperSet, Denoted
    <2>3. ProperSet(Empty) /\ Denoted(Empty) = {}
      <3>1. Empty \in Seq(Interval) /\ Canonical(Empty) /\ \A x : ~Contains(Empty, x)
        BY DEF Empty, Canonical, Contains
      <3>2. QED BY <3>1, ConstructorEnds DEF ProperSet, Denoted
    <2>4. QED BY <2>1, <2>2, <2>3, SameSetsEqual DEF EqualityIsSemantic, IsFull, IsEmpty
  <1>2. IInv /\ EndsOK /\ [Next]_vars => EndsOK'
    BY EndsStep
  <1>3. QED BY <1>1, <1>2, InitEnds, Invariance, PTL DEF Spec

-----------------------------------------------------------------------------
(* choose_version. *)

\* What has been picked is what pick_version returns for the result.
PickedOK ==
    phase = "picked" =>
        /\ picked.strategy \in {"maxver", "minver", "semver"}
        /\ picked.version = PickVersion(Candidates, reg.result, picked.strategy, picked.preference)

LEMMA PickedStep ==
    ASSUME PickedOK, [Next]_vars
    PROVE  PickedOK'
  <1>1. CASE Pick
    <2>1. PICK strategy \in {"maxver", "minver", "semver", "lowest-direct"},
               direct \in BOOLEAN, preference \in Available \cup {NONE} :
            picked' = [version |-> PickVersion(Candidates, reg.result,
                                               Effective(strategy, direct), preference),
                       strategy |-> Effective(strategy, direct), preference |-> preference]
      BY <1>1 DEF Pick
    <2>2. Effective(strategy, direct) \in {"maxver", "minver", "semver"}
      BY DEF Effective
    <2>3. reg' = reg /\ Candidates' = Candidates
      BY <1>1 DEF Pick, Candidates
    <2>4. /\ picked'.strategy = Effective(strategy, direct) /\ picked'.preference = preference
          /\ picked'.version = PickVersion(Candidates, reg.result,
                                           Effective(strategy, direct), preference)
      BY <2>1
    <2>5. QED BY <2>2, <2>3, <2>4 DEF PickedOK
  <1>2. CASE UNCHANGED vars
    BY <1>2 DEF vars, PickedOK, Candidates
  <1>3. CASE Next /\ ~Pick
    <2>1. phase' # "picked"
      BY <1>3 DEF Next, ParseClause, ParseFails, EndArm, AnyVersion, ParseEnds, Load, Combine,
                  Intersect, Union, Normalize, Complement, EmitGap, Merge, Merged, Again
    <2>2. QED BY <2>1 DEF PickedOK
  <1>4. QED BY <1>1, <1>2, <1>3

(* What Least and LowerBound choose.                                       *)
LEMMA LeastIs ==
    ASSUME NEW S \in SUBSET Int, NEW v \in S, \A w \in S : v <= w
    PROVE  Least(S) = v
  <1>1. \A u \in S : (\A w \in S : u <= w) => u = v
    OBVIOUS
  <1>2. QED BY <1>1 DEF Least

(* The lower bound of a set is that of its first interval: the versions of *)
(* the set begin there or right after it.                                  *)
LEMMA LowerBoundIs ==
    ASSUME Observed, NEW s, ProperSet(s), s # <<>>, s[1].lo # NONE
    PROVE  /\ HasLo(s) /\ LowerBound(s) \in Bounds
           /\ Least(Denoted(s)) \in Points
           /\ Major(Least(Denoted(s))) = Major(LowerBound(s))
           /\ \A x \in Denoted(s) : LowerBound(s) <= x
  <1>1. /\ s \in Seq(Interval) /\ Canonical(s) /\ DOMAIN s = 1 .. Len(s) /\ Len(s) \in Nat
        /\ 1 \in DOMAIN s /\ \A i \in DOMAIN s : i = 1 \/ 1 < i
    BY DEF ProperSet
  <1>2. \A i \in DOMAIN s : Proper(s[i])
    BY <1>1 DEF ProperSet, Proper, Canonical, Ends
  <1> DEFINE l == s[1].lo
  <1>3. Bounds \subseteq Points /\ Points \subseteq Int /\ Bounds \subseteq Int
    BY VersionAssumption DEF Observed
  <1>4. l \in Bounds /\ l \in Int /\ l \in Points /\ s[1].lo_closed \in BOOLEAN
    BY <1>1, <1>2, <1>3, ProperFields
  <1>5. \A i \in DOMAIN s : s[i].lo \in Bounds /\ s[i].lo # NONE
    <2>1. \A i \in DOMAIN s : s[i].lo # NONE
      BY <1>1, <1>4, CanonicalOrder
    <2>2. QED BY <1>2, <2>1, ProperFields
  <1>6. \A i \in DOMAIN s : l <= s[i].lo
    <2>1. ASSUME NEW i \in DOMAIN s, 1 < i PROVE l <= s[i].lo
      <3>1. Before(s[1], s[i])
        BY <1>1, <2>1 DEF Canonical
      <3>2. s[i].lo \in Int
        BY <1>3, <1>5
      <3>3. QED BY <1>4, <1>5, <3>1, <3>2 DEF Before
    <2>2. l <= l
      BY <1>4
    <2>3. QED BY <1>1, <2>1, <2>2
  <1>7. HasLo(s)
    BY <1>5 DEF HasLo, Empty
  <1>8. LowerBound(s) = l
    <2> DEFINE S == {s[i].lo : i \in DOMAIN s}
               Q(k) == \A i \in DOMAIN s : k <= s[i].lo
    <2>1. l \in S /\ Q(l) /\ S \subseteq Int
      BY <1>1, <1>3, <1>5, <1>6
    <2>2. \A k \in S : Q(k) => k = l
      <3>1. ASSUME NEW k \in S, Q(k) PROVE k = l
        <4>1. k \in Int /\ k <= l /\ l <= k
          BY <1>1, <1>6, <2>1, <3>1
        <4>2. QED BY <1>4, <4>1
      <3>2. QED BY <3>1
    <2>3. LowerBound(s) = CHOOSE k \in S : Q(k)
      BY DEF LowerBound
    <2> HIDE DEF S, Q
    <2>4. QED BY <2>1, <2>2, <2>3
  <1>9. ASSUME NEW x \in Denoted(s)
        PROVE  x \in Int /\ AboveLo(s[1], x)
    <2>1. x \in Int
      BY <1>3 DEF Denoted
    <2>2. PICK i \in DOMAIN s : AboveLo(s[i], x)
      BY DEF Denoted, Contains, IntervalContains
    <2>3. QED BY <1>1, <2>1, <2>2, CanonicalOrder
  <1>10. \A x \in Denoted(s) : l < x \/ (s[1].lo_closed /\ l = x)
    BY <1>9 DEF AboveLo
  <1>11. PICK p \in Points : /\ p \in Denoted(s) /\ Major(p) = Major(l)
                             /\ \A x \in Denoted(s) : p <= x
    <2>1. /\ s[1].hi \in Bounds \cup {NONE}
          /\ s[1].hi # NONE => l < s[1].hi \/ (l = s[1].hi /\ s[1].lo_closed /\ s[1].hi_closed)
      BY <1>1, <1>2, ProperFields
    <2>2. CASE s[1].lo_closed
      <3>1. IntervalContains(s[1], l)
        BY <1>3, <1>4, <2>1, <2>2 DEF IntervalContains, AboveLo, BelowHi
      <3>2. l \in Denoted(s)
        BY <1>1, <1>4, <3>1 DEF Denoted, Contains
      <3>3. \A x \in Denoted(s) : l <= x
        BY <1>4, <1>9, <1>10
      <3>4. QED BY <1>4, <3>2, <3>3
    <2>3. CASE ~s[1].lo_closed
      <3>1. PICK p \in Points : Follows(p, l)
        BY <1>4 DEF Observed
      <3>2. /\ l < p /\ p \in Int /\ Major(p) = Major(l)
            /\ \A y \in Points : l < y => p <= y
            /\ \A c \in Bounds : l < c => p < c
        BY <1>3, <3>1 DEF Follows
      <3>3. s[1].hi = NONE \/ (s[1].hi \in Bounds /\ p < s[1].hi)
        BY <2>1, <2>3, <3>2
      <3>4. IntervalContains(s[1], p)
        BY <1>3, <1>4, <3>2, <3>3 DEF IntervalContains, AboveLo, BelowHi
      <3>5. p \in Denoted(s)
        BY <1>1, <3>4 DEF Denoted, Contains
      <3>6. \A x \in Denoted(s) : p <= x
        BY <1>10, <2>3, <3>2 DEF Denoted
      <3>7. QED BY <3>2, <3>5, <3>6
    <2>4. QED BY <1>4, <2>2, <2>3
  <1>12. Least(Denoted(s)) = p
    <2>1. Denoted(s) \in SUBSET Int
      BY <1>9
    <2>2. QED BY <1>11, <2>1, LeastIs
  <1>13. \A x \in Denoted(s) : l <= x
    BY <1>4, <1>9, <1>10
  <1>14. QED BY <1>4, <1>7, <1>8, <1>11, <1>12, <1>13

(* A set is without a lower bound exactly if it has the first version.     *)
LEMMA UnboundedIs ==
    ASSUME Observed, NEW s, ProperSet(s), s # <<>>
    PROVE  /\ Least(Points) \in Denoted(s) <=> s[1].lo = NONE
           /\ s[1].lo = NONE => ~HasLo(s)
  <1>1. /\ s \in Seq(Interval) /\ 1 \in DOMAIN s /\ Proper(s[1])
        /\ Bounds \subseteq Int /\ Points \subseteq Int
    BY VersionAssumption, BoundsAreInts DEF ProperSet, Proper, Canonical, Ends
  <1>2. PICK p \in Points : (\A y \in Points : p <= y) /\ \A b \in Bounds : p < b
    BY DEF Observed
  <1>3. Least(Points) = p /\ p \in Int
    BY <1>1, <1>2, LeastIs
  <1>4. CASE s[1].lo = NONE
    <2>1. s[1].hi \in Bounds \cup {NONE}
      BY <1>1, ProperFields
    <2>2. IntervalContains(s[1], p)
      BY <1>1, <1>2, <1>3, <1>4, <2>1 DEF IntervalContains, AboveLo, BelowHi
    <2>3. p \in Denoted(s)
      BY <1>1, <2>2 DEF Denoted, Contains
    <2>4. QED BY <1>1, <1>3, <1>4, <2>3 DEF HasLo
  <1>5. CASE s[1].lo # NONE
    <2>1. LowerBound(s) \in Bounds /\ \A x \in Denoted(s) : LowerBound(s) <= x
      BY <1>5, LowerBoundIs
    <2>2. p \notin Denoted(s)
      <3>1. LowerBound(s) \in Int /\ p < LowerBound(s)
        BY <1>1, <1>2, <2>1
      <3>2. ~(LowerBound(s) <= p)
        BY <1>3, <3>1
      <3>3. QED BY <2>1, <3>2
    <2>3. QED BY <1>3, <1>5, <2>2
  <1>6. QED BY <1>4, <1>5

(* If the observed versions tell the bounds of constraints apart, what     *)
(* choose_version returns is what the strategy says of the versions that   *)
(* the constraint allows, and semver never leaves the major in which they  *)
(* begin.                                                                  *)
THEOREM PicksAlwaysRight ==
    ASSUME Observed
    PROVE  Spec => []PickIsRight
  <1>1. IInv /\ EndsOK /\ PickedOK => PickIsRight
    <2> SUFFICES ASSUME IInv, EndsOK, PickedOK, phase = "picked" PROVE PickIsRight
      BY DEF PickIsRight
    <2> DEFINE ok == Available \cap mean.result
               v == picked.version
               floor == Least(mean.result)
               bounded == Least(Points) \notin mean.result
               mates == {w \in ok : bounded => Major(w) = Major(floor)}
               s == reg.result
    <2>1. ProperSet(s) /\ Denoted(s) = mean.result
      <3>1. /\ mean.result \in SUBSET Points
            /\ \A x \in Points : Contains(s, x) <=> x \in mean.result
        BY Facts DEF Registers
      <3>2. ProperSet(s)
        BY Facts DEF EndsOK, ProperSet, Registers
      <3>3. QED BY <3>1, <3>2 DEF Denoted
    <2>2. Candidates = ok
      <3>1. Available \subseteq Points /\ \A x \in Points : Contains(s, x) <=> x \in mean.result
        BY Facts DEF Observed
      <3>2. QED BY <3>1 DEF Candidates
    <2>3. /\ picked.strategy \in {"maxver", "minver", "semver"}
          /\ v = PickVersion(ok, s, picked.strategy, picked.preference)
      BY <2>2 DEF PickedOK
    <2>4. PickSemver(ok, s) = Greatest(mates)
      <3>1. CASE s = <<>>
        <4>1. mean.result = {}
          BY <2>1, <3>1 DEF Denoted, Contains
        <4>2. ok = {} /\ mates = {} /\ ~HasLo(s)
          BY <3>1, <4>1 DEF HasLo, Empty
        <4>3. QED BY <4>2 DEF PickSemver
      <3>2. CASE s # <<>> /\ s[1].lo = NONE
        <4>1. ~bounded /\ ~HasLo(s)
          BY <2>1, <3>2, UnboundedIs
        <4>2. mates = ok
          BY <4>1
        <4>3. QED BY <4>1, <4>2 DEF PickSemver
      <3>3. CASE s # <<>> /\ s[1].lo # NONE
        <4>1. bounded
          BY <2>1, <3>3, UnboundedIs
        <4>2. HasLo(s) /\ Major(floor) = Major(LowerBound(s))
          BY <2>1, <3>3, LowerBoundIs
        <4>3. mates = {w \in ok : Major(w) = Major(LowerBound(s))}
          BY <4>1, <4>2
        <4>4. QED BY <4>2, <4>3 DEF PickSemver
      <3>4. QED BY <3>1, <3>2, <3>3
    <2> HIDE DEF ok, mates, v, s
    <2>5. picked.preference \in ok => v = picked.preference
      BY <2>3 DEF PickVersion
    <2>6. picked.preference \notin ok =>
            /\ picked.strategy = "maxver" => v = Greatest(ok)
            /\ picked.strategy = "minver" => v = Least(ok)
            /\ picked.strategy = "semver" => v = Greatest(mates)
      BY <2>3, <2>4 DEF PickVersion
    <2>7. QED BY <2>3, <2>5, <2>6 DEF PickIsRight, ok, mates, v
  <1>2. IInv /\ EndsOK /\ [Next]_vars => EndsOK'
    BY EndsStep
  <1>3. PickedOK /\ [Next]_vars => PickedOK'
    BY PickedStep
  <1>4. Init => PickedOK
    BY DEF Init, PickedOK
  <1>5. QED BY <1>1, <1>2, <1>3, <1>4, InitEnds, Invariance, PTL DEF Spec
=============================================================================
