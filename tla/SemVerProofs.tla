---------------------------- MODULE SemVerProofs ----------------------------
(***************************************************************************)
(* What the resolver relies on when it sorts versions and picks the        *)
(* highest one a constraint accepts, for every version and every u32::MAX. *)
(***************************************************************************)
EXTENDS WellFoundedInduction, SemVer, TLAPS

\* The identifiers a parsed prerelease is made of. Two that are not numbers and have
\* the same place in the order of strings are the same string.
AreIdentifiers(I) ==
  /\ I \in SUBSET ({"num", "huge", "word"} \X Nat)
  /\ \A x, y \in I : x[1] /= "num" /\ y[1] /= "num" /\ x[2] = y[2] => x = y

Versions(I) ==
  [major : 0..MaxU32, minor : 0..MaxU32, patch : 0..MaxU32, pre : Seq(I) \cup {NoSuffix}]

\* Every set of naturals that is not empty has a least member.
LEMMA LeastIndex ==
  ASSUME NEW T \in SUBSET Nat, T /= {}
  PROVE  \E m \in T : \A k \in T : m <= k
<1> DEFINE R == OpToRel(<, Nat)
<1>1. \A x, y \in Nat : y < x => <<y, x>> \in R
  BY DEF OpToRel
<1>2. T \subseteq Nat /\ IsWellFoundedOn(R, Nat)
  BY NatLessThanWellFounded
<1> HIDE DEF R
<1>3. PICK x \in T : \A y \in T : ~(<<y, x>> \in R)
  BY <1>2, WFMin, Zenon
<1>4. \A y \in T : ~(y < x)
  BY <1>1, <1>3
<1> QED BY <1>4

LEMMA SignOfDifference ==
  ASSUME NEW a \in Int, NEW b \in Int
  PROVE  /\ Sign(a - b) \in {-1, 0, 1} /\ Sign(a - b) = -Sign(b - a)
         /\ Sign(a - b) < 0 <=> a < b
         /\ Sign(a - b) = 0 <=> a = b
BY DEF Sign

\* Identifiers are totally ordered.
LEMMA IdentifierOrder ==
  ASSUME NEW I, AreIdentifiers(I), NEW x \in I, NEW y \in I
  PROVE  /\ cmp_identifier(x, y) \in {-1, 0, 1}
         /\ cmp_identifier(x, y) = -cmp_identifier(y, x)
         /\ cmp_identifier(x, y) = 0 <=> x = y
<1>1. /\ x = <<x[1], x[2]>> /\ y = <<y[1], y[2]>> /\ x[2] \in Int /\ y[2] \in Int
  BY DEF AreIdentifiers
<1>2. CASE x[1] = "num" /\ y[1] = "num"
  <2>1. cmp_identifier(x, y) = Sign(x[2] - y[2]) /\ cmp_identifier(y, x) = Sign(y[2] - x[2])
    BY <1>2 DEF cmp_identifier
  <2>2. x[2] = y[2] <=> x = y
    BY <1>1, <1>2
  <2> QED BY <1>1, <2>1, <2>2, SignOfDifference
<1>3. CASE x[1] = "num" /\ y[1] /= "num"
  BY <1>1, <1>3 DEF cmp_identifier
<1>4. CASE x[1] /= "num" /\ y[1] = "num"
  <2>1. cmp_identifier(x, y) = 1 /\ cmp_identifier(y, x) = -1
    BY <1>4 DEF cmp_identifier
  <2>2. x /= y
    BY <1>4
  <2>3. -cmp_identifier(y, x) = 1
    <3>1. cmp_identifier(y, x) \in Int /\ cmp_identifier(y, x) + 1 = 0
      BY <2>1
    <3> QED BY <3>1
  <2>4. cmp_identifier(x, y) \in {-1, 0, 1}
    BY <2>1
  <2> QED BY <2>1, <2>2, <2>3, <2>4
<1>5. CASE x[1] /= "num" /\ y[1] /= "num"
  <2>1. cmp_identifier(x, y) = Sign(x[2] - y[2]) /\ cmp_identifier(y, x) = Sign(y[2] - x[2])
    BY <1>5 DEF cmp_identifier
  <2>2. x[2] = y[2] <=> x = y
    BY <1>5 DEF AreIdentifiers
  <2> QED BY <1>1, <2>1, <2>2, SignOfDifference
<1> QED BY <1>2, <1>3, <1>4, <1>5

LEMMA IdentifierTransitive ==
  ASSUME NEW I, AreIdentifiers(I), NEW x \in I, NEW y \in I, NEW z \in I,
         cmp_identifier(x, y) < 0, cmp_identifier(y, z) < 0
  PROVE  cmp_identifier(x, z) < 0
<1>1. x[2] \in Int /\ y[2] \in Int /\ z[2] \in Int
  BY DEF AreIdentifiers
<1>2. \A a, b \in {x, y, z} :
        cmp_identifier(a, b) < 0 <=> \/ a[1] = "num" /\ b[1] /= "num"
                                     \/ (a[1] = "num" <=> b[1] = "num") /\ a[2] < b[2]
  <2> SUFFICES ASSUME NEW a \in {x, y, z}, NEW b \in {x, y, z}
               PROVE  cmp_identifier(a, b) < 0 <=>
                        \/ a[1] = "num" /\ b[1] /= "num"
                        \/ (a[1] = "num" <=> b[1] = "num") /\ a[2] < b[2]
    OBVIOUS
  <2>1. Sign(a[2] - b[2]) < 0 <=> a[2] < b[2]
    BY <1>1 DEF Sign
  <2>2. CASE a[1] = "num" <=> b[1] = "num"
    BY <2>1, <2>2 DEF cmp_identifier
  <2>3. CASE a[1] = "num" /\ b[1] /= "num"
    BY <2>3 DEF cmp_identifier
  <2>4. CASE a[1] /= "num" /\ b[1] = "num"
    BY <2>4 DEF cmp_identifier
  <2> QED BY <2>2, <2>3, <2>4
<1> QED BY <1>1, <1>2

----------------------------------------------------------------------------
\* The order of prereleases, said without a computation: at the first place where
\* they differ, or because one goes on where the other ends.
Agree(a, b, n) == \A j \in 1..n : a[j] = b[j]
DiffersAt(a, b, i) == i \in 1..Len(a) /\ i \in 1..Len(b) /\ Agree(a, b, i - 1) /\ a[i] /= b[i]
PreBefore(a, b) ==
  \/ \E i \in 1..Len(a) : DiffersAt(a, b, i) /\ cmp_identifier(a[i], b[i]) < 0
  \/ Len(a) < Len(b) /\ Agree(a, b, Len(a))

\* Either two prereleases differ at a place, which decides, or the lengths decide.
LEMMA FirstDifference ==
  ASSUME NEW I, AreIdentifiers(I), NEW a \in Seq(I), NEW b \in Seq(I)
  PROVE  \/ \E i \in 1..Len(a) :
              DiffersAt(a, b, i) /\ compare_prerelease(a, b) = cmp_identifier(a[i], b[i])
         \/ /\ \A j \in 1..Len(a) : j \in 1..Len(b) => a[j] = b[j]
            /\ compare_prerelease(a, b) = Sign(Len(a) - Len(b))
<1> DEFINE Differ == {i \in (DOMAIN a) \cap (DOMAIN b) : cmp_identifier(a[i], b[i]) /= 0}
           f == CHOOSE i \in Differ : \A j \in Differ : i <= j
<1>1. compare_prerelease(a, b) =
        IF Differ = {} THEN Sign(Len(a) - Len(b)) ELSE cmp_identifier(a[f], b[f])
  BY DEF compare_prerelease
<1>2. DOMAIN a = 1..Len(a) /\ DOMAIN b = 1..Len(b)
  OBVIOUS
<1>3. \A i : i \in Differ <=> i \in 1..Len(a) /\ i \in 1..Len(b) /\ a[i] /= b[i]
  <2>1. \A i \in 1..Len(a) : i \in 1..Len(b) => (cmp_identifier(a[i], b[i]) = 0 <=> a[i] = b[i])
    <3> SUFFICES ASSUME NEW i \in 1..Len(a), i \in 1..Len(b)
                 PROVE  cmp_identifier(a[i], b[i]) = 0 <=> a[i] = b[i]
      OBVIOUS
    <3>1. a[i] \in I /\ b[i] \in I
      OBVIOUS
    <3> QED BY <3>1, IdentifierOrder
  <2> QED BY <1>2, <2>1
<1>4. CASE Differ = {}
  BY <1>1, <1>3, <1>4
<1>5. CASE Differ /= {}
  <2>1. Differ \in SUBSET Nat
    BY <1>3
  <2>2. \E i \in Differ : \A j \in Differ : i <= j
    BY <1>5, <2>1, LeastIndex
  <2>3. f \in Differ /\ \A j \in Differ : f <= j
    BY <2>2
  <2> HIDE DEF f, Differ
  <2>4. f \in 1..Len(a) /\ f \in 1..Len(b) /\ a[f] /= b[f]
    BY <1>3, <2>3
  <2>5. Agree(a, b, f - 1)
    <3> SUFFICES ASSUME NEW j \in 1..(f - 1) PROVE a[j] = b[j]
      BY DEF Agree
    <3>1. j \in 1..Len(a) /\ j \in 1..Len(b) /\ ~(f <= j)
      BY <2>4
    <3> QED BY <1>3, <2>3, <3>1
  <2>6. compare_prerelease(a, b) = cmp_identifier(a[f], b[f])
    BY <1>1, <1>5
  <2>7. DiffersAt(a, b, f)
    BY <2>4, <2>5 DEF DiffersAt
  <2> QED BY <2>4, <2>6, <2>7
<1> QED BY <1>4, <1>5

\* There is one first place.
LEMMA OneDifference ==
  ASSUME NEW I, NEW a \in Seq(I), NEW b \in Seq(I), NEW i, NEW j, DiffersAt(a, b, i), DiffersAt(a, b, j)
  PROVE  i = j
<1>1. i \in Int /\ j \in Int /\ i >= 1 /\ j >= 1
  BY DEF DiffersAt
<1>2. ~(i < j)
  <2>1. i < j => i \in 1..(j - 1)
    BY <1>1
  <2> QED BY <2>1 DEF DiffersAt, Agree
<1>3. ~(j < i)
  <2>1. j < i => j \in 1..(i - 1)
    BY <1>1
  <2> QED BY <2>1 DEF DiffersAt, Agree
<1> QED BY <1>1, <1>2, <1>3

LEMMA DecidedAt ==
  ASSUME NEW I, AreIdentifiers(I), NEW a \in Seq(I), NEW b \in Seq(I), NEW i, DiffersAt(a, b, i)
  PROVE  compare_prerelease(a, b) = cmp_identifier(a[i], b[i])
<1>1. i \in 1..Len(a) /\ i \in 1..Len(b) /\ a[i] /= b[i]
  BY DEF DiffersAt
<1>2. PICK j \in 1..Len(a) :
        DiffersAt(a, b, j) /\ compare_prerelease(a, b) = cmp_identifier(a[j], b[j])
  BY <1>1, FirstDifference
<1>3. i = j
  BY <1>2, OneDifference
<1> QED BY <1>2, <1>3

LEMMA DecidedByLength ==
  ASSUME NEW I, AreIdentifiers(I), NEW a \in Seq(I), NEW b \in Seq(I),
         \A j \in 1..Len(a) : j \in 1..Len(b) => a[j] = b[j]
  PROVE  compare_prerelease(a, b) = Sign(Len(a) - Len(b))
<1>1. \A i \in 1..Len(a) : ~DiffersAt(a, b, i)
  BY DEF DiffersAt
<1> QED BY <1>1, FirstDifference

\* compare_prerelease computes that order.
LEMMA PrereleaseOrder ==
  ASSUME NEW I, AreIdentifiers(I), NEW a \in Seq(I), NEW b \in Seq(I)
  PROVE  /\ compare_prerelease(a, b) \in {-1, 0, 1}
         /\ compare_prerelease(a, b) = -compare_prerelease(b, a)
         /\ compare_prerelease(a, b) = 0 <=> a = b
         /\ compare_prerelease(a, b) < 0 <=> PreBefore(a, b)
<1>0. Len(a) \in Int /\ Len(b) \in Int
  OBVIOUS
<1>1. ASSUME NEW i \in 1..Len(a), DiffersAt(a, b, i)
      PROVE  /\ compare_prerelease(a, b) \in {-1, 0, 1}
             /\ compare_prerelease(a, b) = -compare_prerelease(b, a)
             /\ compare_prerelease(a, b) = 0 <=> a = b
             /\ compare_prerelease(a, b) < 0 <=> PreBefore(a, b)
  <2>1. i \in 1..Len(b) /\ a[i] /= b[i] /\ a[i] \in I /\ b[i] \in I
    BY <1>1 DEF DiffersAt
  <2>2. DiffersAt(b, a, i)
    BY <1>1 DEF DiffersAt, Agree
  <2>3. compare_prerelease(a, b) = cmp_identifier(a[i], b[i])
    BY <1>1, DecidedAt
  <2>4. compare_prerelease(b, a) = cmp_identifier(b[i], a[i])
    BY <2>2, DecidedAt
  <2>5. /\ cmp_identifier(a[i], b[i]) \in {-1, 0, 1}
        /\ cmp_identifier(a[i], b[i]) = -cmp_identifier(b[i], a[i])
        /\ cmp_identifier(a[i], b[i]) = 0 <=> a[i] = b[i]
    BY <2>1, IdentifierOrder
  <2>6. ASSUME PreBefore(a, b) PROVE cmp_identifier(a[i], b[i]) < 0
    <3>1. ~(Len(a) < Len(b) /\ Agree(a, b, Len(a)))
      BY <1>1, <2>1 DEF Agree
    <3>2. PICK j \in 1..Len(a) : DiffersAt(a, b, j) /\ cmp_identifier(a[j], b[j]) < 0
      BY <2>6, <3>1 DEF PreBefore
    <3>3. i = j
      BY <1>1, <3>2, OneDifference
    <3> QED BY <3>2, <3>3
  <2>7. cmp_identifier(a[i], b[i]) < 0 => PreBefore(a, b)
    BY <1>1 DEF PreBefore
  <2>8. a /= b
    BY <2>1
  <2> QED BY <2>1, <2>3, <2>4, <2>5, <2>6, <2>7, <2>8
<1>2. ASSUME \A j \in 1..Len(a) : j \in 1..Len(b) => a[j] = b[j]
      PROVE  /\ compare_prerelease(a, b) \in {-1, 0, 1}
             /\ compare_prerelease(a, b) = -compare_prerelease(b, a)
             /\ compare_prerelease(a, b) = 0 <=> a = b
             /\ compare_prerelease(a, b) < 0 <=> PreBefore(a, b)
  <2>1. compare_prerelease(a, b) = Sign(Len(a) - Len(b))
    BY <1>2, DecidedByLength
  <2>2. \A j \in 1..Len(b) : j \in 1..Len(a) => b[j] = a[j]
    BY <1>2
  <2>3. compare_prerelease(b, a) = Sign(Len(b) - Len(a))
    BY <2>2, DecidedByLength
  <2>4. /\ Sign(Len(a) - Len(b)) \in {-1, 0, 1} /\ Sign(Len(a) - Len(b)) = -Sign(Len(b) - Len(a))
        /\ Sign(Len(a) - Len(b)) < 0 <=> Len(a) < Len(b)
        /\ Sign(Len(a) - Len(b)) = 0 <=> Len(a) = Len(b)
    BY <1>0, SignOfDifference
  <2>5. Len(a) = Len(b) <=> a = b
    <3>1. ASSUME Len(a) = Len(b) PROVE a = b
      <4>1. \A j \in 1..Len(a) : a[j] = b[j]
        BY <1>2, <3>1
      <4> QED BY <3>1, <4>1
    <3> QED BY <3>1
  <2>6. PreBefore(a, b) <=> Len(a) < Len(b)
    <3>1. \A i \in 1..Len(a) : ~DiffersAt(a, b, i)
      BY <1>2 DEF DiffersAt
    <3>2. Len(a) < Len(b) => Agree(a, b, Len(a))
      BY <1>0, <1>2 DEF Agree
    <3> QED BY <3>1, <3>2 DEF PreBefore
  <2> QED BY <2>1, <2>3, <2>4, <2>5, <2>6
<1> QED BY <1>1, <1>2, FirstDifference

LEMMA PrereleaseTransitive ==
  ASSUME NEW I, AreIdentifiers(I), NEW a \in Seq(I), NEW b \in Seq(I), NEW c \in Seq(I),
         PreBefore(a, b), PreBefore(b, c)
  PROVE  PreBefore(a, c)
<1>0. Len(a) \in Nat /\ Len(b) \in Nat /\ Len(c) \in Nat
  OBVIOUS
<1>1. ASSUME NEW i \in 1..Len(a), DiffersAt(a, b, i), cmp_identifier(a[i], b[i]) < 0,
             NEW j \in 1..Len(b), DiffersAt(b, c, j), cmp_identifier(b[j], c[j]) < 0
      PROVE  PreBefore(a, c)
  <2>1. /\ i \in 1..Len(b) /\ Agree(a, b, i - 1) /\ a[i] /= b[i]
        /\ j \in 1..Len(c) /\ Agree(b, c, j - 1) /\ b[j] /= c[j]
    BY <1>1 DEF DiffersAt
  <2>2. CASE i < j
    <3>1. i \in 1..Len(c) /\ i \in 1..(j - 1) /\ \A k \in 1..(i - 1) : k \in 1..(j - 1)
      BY <2>1, <2>2
    <3>2. c[i] = b[i] /\ Agree(a, c, i - 1)
      BY <2>1, <3>1 DEF Agree
    <3> QED BY <1>1, <2>1, <3>1, <3>2 DEF PreBefore, DiffersAt
  <2>3. CASE i = j
    <3>1. Agree(a, c, i - 1)
      BY <2>1, <2>3 DEF Agree
    <3>2. a[i] \in I /\ b[i] \in I /\ c[i] \in I
      BY <2>1, <2>3
    <3>3. cmp_identifier(a[i], c[i]) < 0
      BY <1>1, <2>3, <3>2, IdentifierTransitive
    <3>4. cmp_identifier(a[i], c[i]) = 0 <=> a[i] = c[i]
      BY <3>2, IdentifierOrder
    <3>5. a[i] /= c[i]
      BY <3>3, <3>4
    <3> QED BY <2>1, <2>3, <3>1, <3>3, <3>5 DEF PreBefore, DiffersAt
  <2>4. CASE j < i
    <3>1. j \in 1..Len(a) /\ j \in 1..(i - 1) /\ \A k \in 1..(j - 1) : k \in 1..(i - 1)
      BY <2>1, <2>4
    <3>2. a[j] = b[j] /\ Agree(a, c, j - 1)
      BY <2>1, <3>1 DEF Agree
    <3> QED BY <1>1, <2>1, <3>1, <3>2 DEF PreBefore, DiffersAt
  <2> QED BY <2>2, <2>3, <2>4
<1>2. ASSUME NEW i \in 1..Len(a), DiffersAt(a, b, i), cmp_identifier(a[i], b[i]) < 0,
             Len(b) < Len(c), Agree(b, c, Len(b))
      PROVE  PreBefore(a, c)
  <2>1. i \in 1..Len(b) /\ Agree(a, b, i - 1) /\ a[i] /= b[i]
    BY <1>2 DEF DiffersAt
  <2>2. i \in 1..Len(c) /\ \A k \in 1..(i - 1) : k \in 1..Len(b)
    BY <1>0, <1>2, <2>1
  <2>3. c[i] = b[i] /\ Agree(a, c, i - 1)
    BY <1>2, <2>1, <2>2 DEF Agree
  <2> QED BY <1>2, <2>1, <2>2, <2>3 DEF PreBefore, DiffersAt
<1>3. ASSUME Len(a) < Len(b), Agree(a, b, Len(a)),
             NEW j \in 1..Len(b), DiffersAt(b, c, j), cmp_identifier(b[j], c[j]) < 0
      PROVE  PreBefore(a, c)
  <2>1. j \in 1..Len(c) /\ Agree(b, c, j - 1) /\ b[j] /= c[j]
    BY <1>3 DEF DiffersAt
  <2>2. CASE j \in 1..Len(a)
    <3>1. \A k \in 1..(j - 1) : k \in 1..Len(a)
      BY <1>0, <2>2
    <3>2. a[j] = b[j] /\ Agree(a, c, j - 1)
      BY <1>3, <2>1, <2>2, <3>1 DEF Agree
    <3> QED BY <1>3, <2>1, <2>2, <3>2 DEF PreBefore, DiffersAt
  <2>3. CASE j \notin 1..Len(a)
    <3>1. Len(a) < Len(c) /\ \A k \in 1..Len(a) : k \in 1..(j - 1)
      BY <1>0, <2>1, <2>3
    <3>2. Agree(a, c, Len(a))
      BY <1>3, <2>1, <3>1 DEF Agree
    <3> QED BY <3>1, <3>2 DEF PreBefore
  <2> QED BY <2>2, <2>3
<1>4. ASSUME Len(a) < Len(b), Agree(a, b, Len(a)), Len(b) < Len(c), Agree(b, c, Len(b))
      PROVE  PreBefore(a, c)
  <2>1. Len(a) < Len(c) /\ \A k \in 1..Len(a) : k \in 1..Len(b)
    BY <1>0, <1>4
  <2>2. Agree(a, c, Len(a))
    BY <1>4, <2>1 DEF Agree
  <2> QED BY <2>1, <2>2 DEF PreBefore
<1> QED BY <1>1, <1>2, <1>3, <1>4 DEF PreBefore
----------------------------------------------------------------------------
\* The order of two versions element by element.
VersionBefore(v, w) ==
  \/ v.major < w.major
  \/ v.major = w.major /\ v.minor < w.minor
  \/ v.major = w.major /\ v.minor = w.minor /\ v.patch < w.patch
  \/ /\ v.major = w.major /\ v.minor = w.minor /\ v.patch = w.patch
     /\ v.pre /= NoSuffix /\ (w.pre = NoSuffix \/ PreBefore(v.pre, w.pre))

LEMMA VersionOrder ==
  ASSUME NEW I, AreIdentifiers(I), NEW v \in Versions(I), NEW w \in Versions(I)
  PROVE  /\ cmp(v, w) \in {-1, 0, 1}
         /\ cmp(v, w) = -cmp(w, v)
         /\ cmp(v, w) = 0 <=> v = w
         /\ cmp(v, w) < 0 <=> VersionBefore(v, w)
<1>1. /\ v.major \in Int /\ v.minor \in Int /\ v.patch \in Int /\ v.pre \in Seq(I) \cup {NoSuffix}
      /\ w.major \in Int /\ w.minor \in Int /\ w.patch \in Int /\ w.pre \in Seq(I) \cup {NoSuffix}
  BY DEF Versions
<1>2. v = w <=> v.major = w.major /\ v.minor = w.minor /\ v.patch = w.patch /\ v.pre = w.pre
  BY DEF Versions
<1>3. \A a, b \in Int : /\ Sign(a - b) \in {-1, 0, 1}
                        /\ Sign(a - b) = -Sign(b - a)
                        /\ Sign(a - b) < 0 <=> a < b
                        /\ Sign(a - b) = 0 <=> a = b
  BY SignOfDifference
<1>4. CASE v.major /= w.major
  <2>1. cmp(v, w) = Sign(v.major - w.major) /\ cmp(w, v) = Sign(w.major - v.major)
    BY <1>4 DEF cmp
  <2>2. /\ Sign(v.major - w.major) \in {-1, 0, 1}
        /\ Sign(v.major - w.major) = -Sign(w.major - v.major)
        /\ Sign(v.major - w.major) < 0 <=> v.major < w.major
        /\ Sign(v.major - w.major) = 0 <=> v.major = w.major
    BY <1>1, <1>3
  <2>3. VersionBefore(v, w) <=> v.major < w.major
    BY <1>1, <1>4 DEF VersionBefore
  <2> QED BY <1>2, <1>4, <2>1, <2>2, <2>3
<1>5. CASE v.major = w.major /\ v.minor /= w.minor
  <2>1. cmp(v, w) = Sign(v.minor - w.minor) /\ cmp(w, v) = Sign(w.minor - v.minor)
    BY <1>5 DEF cmp
  <2>2. /\ Sign(v.minor - w.minor) \in {-1, 0, 1}
        /\ Sign(v.minor - w.minor) = -Sign(w.minor - v.minor)
        /\ Sign(v.minor - w.minor) < 0 <=> v.minor < w.minor
        /\ Sign(v.minor - w.minor) = 0 <=> v.minor = w.minor
    BY <1>1, <1>3
  <2>3. VersionBefore(v, w) <=> v.minor < w.minor
    BY <1>1, <1>5 DEF VersionBefore
  <2> QED BY <1>2, <1>5, <2>1, <2>2, <2>3
<1>6. CASE v.major = w.major /\ v.minor = w.minor /\ v.patch /= w.patch
  <2>1. cmp(v, w) = Sign(v.patch - w.patch) /\ cmp(w, v) = Sign(w.patch - v.patch)
    BY <1>6 DEF cmp
  <2>2. /\ Sign(v.patch - w.patch) \in {-1, 0, 1}
        /\ Sign(v.patch - w.patch) = -Sign(w.patch - v.patch)
        /\ Sign(v.patch - w.patch) < 0 <=> v.patch < w.patch
        /\ Sign(v.patch - w.patch) = 0 <=> v.patch = w.patch
    BY <1>1, <1>3
  <2>3. VersionBefore(v, w) <=> v.patch < w.patch
    BY <1>1, <1>6 DEF VersionBefore
  <2> QED BY <1>2, <1>6, <2>1, <2>2, <2>3
<1>7. CASE v.major = w.major /\ v.minor = w.minor /\ v.patch = w.patch
  <2>1. ~(v.major < w.major) /\ ~(v.minor < w.minor) /\ ~(v.patch < w.patch)
    BY <1>1, <1>7
  <2>2. VersionBefore(v, w) <=> v.pre /= NoSuffix /\ (w.pre = NoSuffix \/ PreBefore(v.pre, w.pre))
    BY <1>7, <2>1 DEF VersionBefore
  <2>3. CASE v.pre = NoSuffix \/ w.pre = NoSuffix
    <3>1. /\ cmp(v, w) = (IF v.pre = NoSuffix THEN 1 ELSE 0) - (IF w.pre = NoSuffix THEN 1 ELSE 0)
          /\ cmp(w, v) = (IF w.pre = NoSuffix THEN 1 ELSE 0) - (IF v.pre = NoSuffix THEN 1 ELSE 0)
      BY <1>7, <2>3 DEF cmp
    <3> QED BY <1>2, <1>7, <2>2, <2>3, <3>1
  <2>4. CASE v.pre /= NoSuffix /\ w.pre /= NoSuffix
    <3>1. cmp(v, w) = compare_prerelease(v.pre, w.pre) /\ cmp(w, v) = compare_prerelease(w.pre, v.pre)
      BY <1>7, <2>4 DEF cmp
    <3>2. v.pre \in Seq(I) /\ w.pre \in Seq(I)
      BY <1>1, <2>4
    <3>3. /\ compare_prerelease(v.pre, w.pre) \in {-1, 0, 1}
          /\ compare_prerelease(v.pre, w.pre) = -compare_prerelease(w.pre, v.pre)
          /\ compare_prerelease(v.pre, w.pre) = 0 <=> v.pre = w.pre
          /\ compare_prerelease(v.pre, w.pre) < 0 <=> PreBefore(v.pre, w.pre)
      BY <3>2, PrereleaseOrder
    <3> QED BY <1>2, <1>7, <2>2, <2>4, <3>1, <3>3
  <2> QED BY <2>3, <2>4
<1> QED BY <1>4, <1>5, <1>6, <1>7

LEMMA VersionTransitive ==
  ASSUME NEW I, AreIdentifiers(I), NEW u \in Versions(I), NEW v \in Versions(I), NEW w \in Versions(I),
         VersionBefore(u, v), VersionBefore(v, w)
  PROVE  VersionBefore(u, w)
<1>1. /\ u.major \in Int /\ u.minor \in Int /\ u.patch \in Int /\ u.pre \in Seq(I) \cup {NoSuffix}
      /\ v.major \in Int /\ v.minor \in Int /\ v.patch \in Int /\ v.pre \in Seq(I) \cup {NoSuffix}
      /\ w.major \in Int /\ w.minor \in Int /\ w.patch \in Int /\ w.pre \in Seq(I) \cup {NoSuffix}
  BY DEF Versions
<1>2. CASE u.major = v.major /\ u.minor = v.minor /\ u.patch = v.patch /\
           v.major = w.major /\ v.minor = w.minor /\ v.patch = w.patch
  <2>1. u.pre /= NoSuffix /\ (v.pre = NoSuffix \/ PreBefore(u.pre, v.pre))
    BY <1>1, <1>2 DEF VersionBefore
  <2>2. v.pre /= NoSuffix /\ (w.pre = NoSuffix \/ PreBefore(v.pre, w.pre))
    BY <1>1, <1>2 DEF VersionBefore
  <2>3. w.pre /= NoSuffix => PreBefore(u.pre, w.pre)
    BY <1>1, <2>1, <2>2, PrereleaseTransitive
  <2> QED BY <1>2, <2>1, <2>3 DEF VersionBefore
<1>3. CASE ~(u.major = v.major /\ u.minor = v.minor /\ u.patch = v.patch /\
             v.major = w.major /\ v.minor = w.minor /\ v.patch = w.patch)
  BY <1>1, <1>3 DEF VersionBefore
<1> QED BY <1>2, <1>3

\* The order of versions is total and agrees with equality, for every set of
\* versions: the sort of the candidates and the sets of the solver rely on it.
THEOREM VersionsAreTotallyOrdered ==
  ASSUME NEW I, AreIdentifiers(I)
  PROVE  OrderIsTotal(Versions(I))
<1> SUFFICES ASSUME NEW v \in Versions(I), NEW w \in Versions(I)
             PROVE  /\ cmp(v, w) = -cmp(w, v)
                    /\ cmp(v, w) = 0 <=> v = w
                    /\ \A u \in Versions(I) : Before(u, v) /\ Before(v, w) => Before(u, w)
  BY DEF OrderIsTotal
<1>1. cmp(v, w) = -cmp(w, v) /\ (cmp(v, w) = 0 <=> v = w)
  BY VersionOrder
<1>2. ASSUME NEW u \in Versions(I), Before(u, v), Before(v, w) PROVE Before(u, w)
  <2>1. VersionBefore(u, v) /\ VersionBefore(v, w)
    BY <1>2, VersionOrder DEF Before
  <2>2. VersionBefore(u, w)
    BY <2>1, VersionTransitive
  <2> QED BY <2>2, VersionOrder DEF Before
<1> QED BY <1>1, <1>2

\* ^low accepts exactly the releases from low on that share the elements up to its
\* left-most one that is not zero, and ~low those that share major and minor; where
\* the last of these is u32::MAX the bound wraps around and they accept nothing.
THEOREM RangesLockElements ==
  ASSUME NEW I, AreIdentifiers(I), NEW low \in Versions(I), NEW v \in Versions(I)
  PROVE  RangesLock(low, v)
<1> SUFFICES ASSUME v.pre = NoSuffix
             PROVE  /\ satisfies(v, [kind |-> "caret", low |-> low, high |-> low])
                         <=> /\ AtLeast(v, low) /\ Share(v, low, Locked(low))
                             /\ Elements(low)[Locked(low)] < MaxU32
                    /\ satisfies(v, [kind |-> "tilde", low |-> low, high |-> low])
                         <=> AtLeast(v, low) /\ Share(v, low, 2) /\ low.minor < MaxU32
  BY DEF RangesLock
<1>0. MaxU32 \in Nat
  BY SemVerAssumption
<1>1. /\ v.major \in Nat /\ v.minor \in Nat /\ v.patch \in Nat
      /\ low.major \in Nat /\ low.minor \in Nat /\ low.patch \in Nat
      /\ low.major <= MaxU32 /\ low.minor <= MaxU32 /\ low.patch <= MaxU32
  BY <1>0 DEF Versions
<1>a. bump(MaxU32) = 0
  <2>1. MaxU32 + 1 \in Nat /\ MaxU32 + 1 > 0
    BY <1>0
  <2>2. \A m \in Nat : m > 0 => m % m = 0
    OBVIOUS
  <2> QED BY <2>1, <2>2 DEF bump
<1>b. \A n \in Nat : n <= MaxU32 => n < MaxU32 \/ n = MaxU32
  BY <1>0
<1>2. \A n \in Nat : n < MaxU32 => bump(n) = n + 1 /\ bump(n) \in 0..MaxU32
  <2>1. \A n \in Nat : n < MaxU32 => n + 1 \in Nat /\ n + 1 < MaxU32 + 1
    BY <1>0
  <2>2. \A n, m \in Nat : n < m => n % m = n
    OBVIOUS
  <2> QED BY <1>0, <2>1, <2>2 DEF bump
<1>3. AtLeast(v, low) <=> ~VersionBefore(v, low)
  <2>1. /\ cmp(v, low) \in {-1, 0, 1}
        /\ cmp(v, low) = -cmp(low, v)
        /\ cmp(v, low) = 0 <=> v = low
        /\ cmp(v, low) < 0 <=> VersionBefore(v, low)
    BY VersionOrder
  <2> QED BY <2>1 DEF AtLeast
<1>4. AtLeast(v, low) =>
        /\ v.major >= low.major
        /\ v.major = low.major => v.minor >= low.minor
        /\ v.major = low.major /\ v.minor = low.minor => v.patch >= low.patch
  BY <1>1, <1>3 DEF VersionBefore
<1>5. ASSUME NEW x \in 0..MaxU32, NEW y \in 0..MaxU32, NEW z \in 0..MaxU32
      PROVE  Before(v, release(x, y, z)) <=>
               \/ v.major < x
               \/ v.major = x /\ v.minor < y
               \/ v.major = x /\ v.minor = y /\ v.patch < z
  <2> DEFINE r == release(x, y, z)
  <2>1. r \in Versions(I)
    BY DEF release, Versions
  <2>2. /\ cmp(v, r) \in {-1, 0, 1}
        /\ cmp(v, r) = -cmp(r, v)
        /\ cmp(v, r) = 0 <=> v = r
        /\ cmp(v, r) < 0 <=> VersionBefore(v, r)
    BY <2>1, VersionOrder
  <2>3. r.major = x /\ r.minor = y /\ r.patch = z
    BY DEF release
  <2> HIDE DEF r
  <2>4. VersionBefore(v, r) <=> \/ v.major < x
                                \/ v.major = x /\ v.minor < y
                                \/ v.major = x /\ v.minor = y /\ v.patch < z
    BY <2>3 DEF VersionBefore
  <2> QED BY <2>2, <2>4 DEF Before, r
<1>6. 0 \in 0..MaxU32
  BY <1>0
<1>7. /\ Share(v, low, 1) <=> v.major = low.major
      /\ Share(v, low, 2) <=> v.major = low.major /\ v.minor = low.minor
      /\ Share(v, low, 3) <=> v.major = low.major /\ v.minor = low.minor /\ v.patch = low.patch
  <2>1. 1..1 = {1} /\ 1..2 = {1, 2} /\ 1..3 = {1, 2, 3}
    OBVIOUS
  <2> QED BY <2>1 DEF Share, Elements
<1>8. satisfies(v, [kind |-> "caret", low |-> low, high |-> low])
        <=> AtLeast(v, low) /\ Share(v, low, Locked(low)) /\ Elements(low)[Locked(low)] < MaxU32
  <2>1. satisfies(v, [kind |-> "caret", low |-> low, high |-> low])
          <=> AtLeast(v, low) /\ Before(v, caret_upper_bound(low))
    BY DEF satisfies
  <2>2. CASE low.major > 0
    <3>1. caret_upper_bound(low) = release(bump(low.major), 0, 0) /\ bump(low.major) \in 0..MaxU32
      BY <1>1, <1>2, <1>6, <1>a, <1>b, <2>2 DEF caret_upper_bound
    <3>2. Before(v, caret_upper_bound(low)) <=>
            \/ v.major < bump(low.major)
            \/ v.major = bump(low.major) /\ v.minor < 0
            \/ v.major = bump(low.major) /\ v.minor = 0 /\ v.patch < 0
      BY <1>5, <1>6, <3>1
    <3>3. Locked(low) = 1 /\ Elements(low)[1] = low.major
      BY <1>1, <2>2 DEF Locked, Elements
    <3>4. Share(v, low, Locked(low)) <=> v.major = low.major
      BY <1>7, <2>2, <3>3
    <3>5. AtLeast(v, low) =>
            (Before(v, caret_upper_bound(low)) <=> v.major = low.major /\ low.major < MaxU32)
      <4>1. CASE low.major < MaxU32
        BY <1>1, <1>2, <1>4, <3>2, <4>1
      <4>2. CASE low.major = MaxU32
        BY <1>0, <1>1, <1>4, <1>a, <3>2, <4>2
      <4> QED BY <1>1, <1>b, <4>1, <4>2
    <3> QED BY <2>1, <3>3, <3>4, <3>5
  <2>3. CASE low.major = 0 /\ low.minor > 0
    <3>1. caret_upper_bound(low) = release(0, bump(low.minor), 0) /\ bump(low.minor) \in 0..MaxU32
      BY <1>1, <1>2, <1>6, <1>a, <1>b, <2>3 DEF caret_upper_bound
    <3>2. Before(v, caret_upper_bound(low)) <=>
            \/ v.major < 0
            \/ v.major = 0 /\ v.minor < bump(low.minor)
            \/ v.major = 0 /\ v.minor = bump(low.minor) /\ v.patch < 0
      BY <1>5, <1>6, <3>1
    <3>3. Locked(low) = 2 /\ Elements(low)[2] = low.minor
      BY <1>1, <2>3 DEF Locked, Elements
    <3>4. Share(v, low, Locked(low)) <=> v.major = 0 /\ v.minor = low.minor
      BY <1>7, <2>3, <3>3
    <3>5. AtLeast(v, low) =>
            (Before(v, caret_upper_bound(low)) <=>
               v.major = 0 /\ v.minor = low.minor /\ low.minor < MaxU32)
      <4>1. CASE low.minor < MaxU32
        BY <1>1, <1>2, <1>4, <2>3, <3>2, <4>1
      <4>2. CASE low.minor = MaxU32
        BY <1>0, <1>1, <1>4, <1>a, <2>3, <3>2, <4>2
      <4> QED BY <1>1, <1>b, <4>1, <4>2
    <3> QED BY <2>1, <3>3, <3>4, <3>5
  <2>4. CASE low.major = 0 /\ low.minor = 0
    <3>1. caret_upper_bound(low) = release(0, 0, bump(low.patch)) /\ bump(low.patch) \in 0..MaxU32
      BY <1>1, <1>2, <1>6, <1>a, <1>b, <2>4 DEF caret_upper_bound
    <3>2. Before(v, caret_upper_bound(low)) <=>
            \/ v.major < 0
            \/ v.major = 0 /\ v.minor < 0
            \/ v.major = 0 /\ v.minor = 0 /\ v.patch < bump(low.patch)
      BY <1>5, <1>6, <3>1
    <3>3. Locked(low) = 3 /\ Elements(low)[3] = low.patch
      BY <1>1, <2>4 DEF Locked, Elements
    <3>4. Share(v, low, Locked(low)) <=>
            v.major = 0 /\ v.minor = 0 /\ v.patch = low.patch
      BY <1>7, <2>4, <3>3
    <3>5. AtLeast(v, low) =>
            (Before(v, caret_upper_bound(low)) <=>
               v.major = 0 /\ v.minor = 0 /\ v.patch = low.patch /\ low.patch < MaxU32)
      <4>1. CASE low.patch < MaxU32
        BY <1>1, <1>2, <1>4, <2>4, <3>2, <4>1
      <4>2. CASE low.patch = MaxU32
        BY <1>0, <1>1, <1>4, <1>a, <2>4, <3>2, <4>2
      <4> QED BY <1>1, <1>b, <4>1, <4>2
    <3> QED BY <2>1, <3>3, <3>4, <3>5
  <2> QED BY <1>1, <2>2, <2>3, <2>4
<1>9. satisfies(v, [kind |-> "tilde", low |-> low, high |-> low])
        <=> AtLeast(v, low) /\ Share(v, low, 2) /\ low.minor < MaxU32
  <2>1. satisfies(v, [kind |-> "tilde", low |-> low, high |-> low])
          <=> AtLeast(v, low) /\ Before(v, tilde_upper_bound(low))
    BY DEF satisfies
  <2>2. /\ tilde_upper_bound(low) = release(low.major, bump(low.minor), 0)
        /\ bump(low.minor) \in 0..MaxU32 /\ low.major \in 0..MaxU32
    BY <1>0, <1>1, <1>2, <1>6, <1>a, <1>b DEF tilde_upper_bound
  <2>3. Before(v, tilde_upper_bound(low)) <=>
          \/ v.major < low.major
          \/ v.major = low.major /\ v.minor < bump(low.minor)
          \/ v.major = low.major /\ v.minor = bump(low.minor) /\ v.patch < 0
    BY <1>5, <1>6, <2>2
  <2>4. Share(v, low, 2) <=> v.major = low.major /\ v.minor = low.minor
    BY <1>7
  <2>5. AtLeast(v, low) =>
          (Before(v, tilde_upper_bound(low)) <=>
             v.major = low.major /\ v.minor = low.minor /\ low.minor < MaxU32)
    <3>1. CASE low.minor < MaxU32
      BY <1>1, <1>2, <1>4, <2>3, <3>1
    <3>2. CASE low.minor = MaxU32
      BY <1>0, <1>1, <1>4, <1>a, <2>3, <3>2
    <3> QED BY <1>1, <1>b, <3>1, <3>2
  <2> QED BY <2>1, <2>4, <2>5
<1> QED BY <1>8, <1>9
============================================================================
