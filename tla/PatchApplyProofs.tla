-------------------------- MODULE PatchApplyProofs --------------------------
(***************************************************************************)
(* Theorems about `ori patch apply`, for every file, every set of nodes    *)
(* and every patch.                                                        *)
(*                                                                         *)
(* The line helpers work on line numbers of the unpatched file, the        *)
(* reference on nodes. While the edits go upwards, both name the same      *)
(* place: the lines above the latest edit are where they were.             *)
(***************************************************************************)
EXTENDS PatchApply, SequenceTheorems, WellFoundedInduction, TLAPS

\* The lines an edit may be aimed at.
Spots == Nodes \cup {import_line}

Positive == Nat \ {0}
Marked == [node : Nat, line : Line]

Shape ==
  /\ lines \in Seq(Line) /\ newline \in BOOLEAN
  /\ wanted \in Seq(Marked)
  /\ lowest \in Nat /\ upward \in BOOLEAN /\ missed \in BOOLEAN

\* A text is what a split makes of it: without a final newline no blank line is
\* last.
Settled(ls, nl) == nl \/ Len(ls) = 0 \/ ls[Len(ls)] /= Blank

\* Both texts agree, the lines above the latest edit are the nodes they were, and
\* at most the last of them, a blank one, was taken for the final newline.
Aligned ==
  /\ \A k \in Positive : LineAt(lines, k) = LineAt(WantedLines, k)
  /\ lowest <= Len(wanted) + 1
  /\ lowest <= Len(lines) + 2
  /\ \A i \in DOMAIN wanted, n \in 1..(lowest - 1) : wanted[i].node = n <=> i = n

TextInv == Shape /\ Settled(lines, newline) /\ (upward /\ ~missed => Aligned)
----------------------------------------------------------------------------
(***************************************************************************)
(* The line helpers.                                                       *)
(***************************************************************************)

\* What Splice makes of the lines before, in and after the payload.
LEMMA SpliceLines ==
  ASSUME NEW S, NEW ls \in Seq(S), NEW p \in Seq(S), NEW i \in Nat, NEW n \in Nat,
         i + n <= Len(ls)
  PROVE  /\ Splice(ls, i, n, p) \in Seq(S)
         /\ Len(Splice(ls, i, n, p)) = Len(ls) - n + Len(p)
         /\ \A k \in 1..(Len(ls) - n + Len(p)) :
              Splice(ls, i, n, p)[k] = IF k <= i THEN ls[k]
                                       ELSE IF k <= i + Len(p) THEN p[k - i]
                                       ELSE ls[k - Len(p) + n]
<1> DEFINE a == SubSeq(ls, 1, i)
           b == SubSeq(ls, i + n + 1, Len(ls))
<1>0. Len(ls) \in Nat /\ Len(p) \in Nat /\ \A k \in 1..Len(ls) : ls[k] \in S
  BY LenProperties, ElementOfSeq
<1>1. a \in Seq(S) /\ Len(a) = i /\ \A k \in 1..i : a[k] = ls[k]
  <2>1. \A k \in 1..i : ls[k] \in S
    BY <1>0
  <2>2. /\ a \in Seq(S) /\ Len(a) = IF 1 <= i THEN i - 1 + 1 ELSE 0
        /\ \A k \in 1..(i - 1 + 1) : a[k] = ls[1 + k - 1]
    BY <2>1, SubSeqProperties
  <2> HIDE DEF a
  <2>3. i - 1 + 1 = i /\ \A k \in 1..i : 1 + k - 1 = k
    OBVIOUS
  <2> QED BY <2>2, <2>3
<1>2. /\ b \in Seq(S) /\ Len(b) = Len(ls) - i - n
      /\ \A k \in 1..(Len(ls) - i - n) : b[k] = ls[i + n + k]
  <2>1. \A k \in (i + n + 1)..Len(ls) : ls[k] \in S
    BY <1>0
  <2>2. /\ b \in Seq(S)
        /\ Len(b) = IF i + n + 1 <= Len(ls) THEN Len(ls) - (i + n + 1) + 1 ELSE 0
        /\ \A k \in 1..(Len(ls) - (i + n + 1) + 1) : b[k] = ls[(i + n + 1) + k - 1]
    BY <1>0, <2>1, SubSeqProperties
  <2> HIDE DEF b
  <2>3. /\ Len(ls) - (i + n + 1) + 1 = Len(ls) - i - n
        /\ \A k \in 1..(Len(ls) - i - n) : (i + n + 1) + k - 1 = i + n + k
    BY <1>0
  <2>4. Len(b) = Len(ls) - i - n
    <3>1. Len(ls) - i - n \in Nat /\ (~(i + n + 1 <= Len(ls)) => Len(ls) - i - n = 0)
      BY <1>0
    <3> QED BY <2>2, <2>3, <3>1
  <2> QED BY <2>2, <2>3, <2>4
<1> HIDE DEF a, b
<1>3. /\ a \o p \in Seq(S) /\ Len(a \o p) = i + Len(p)
      /\ \A k \in 1..(i + Len(p)) : (a \o p)[k] = IF k <= i THEN a[k] ELSE p[k - i]
  BY <1>1, ConcatProperties
<1> DEFINE c == a \o p
<1>4. c \in Seq(S) /\ Len(c) = i + Len(p)
  BY <1>3
<1>5. \A k \in 1..(i + Len(p)) : c[k] = IF k <= i THEN a[k] ELSE p[k - i]
  BY <1>3
<1>6. Splice(ls, i, n, p) = c \o b
  BY DEF Splice, a, b
<1> HIDE DEF c
<1>7. /\ c \o b \in Seq(S) /\ Len(c \o b) = Len(c) + Len(b)
      /\ \A k \in 1..(Len(c) + Len(b)) : (c \o b)[k] = IF k <= Len(c) THEN c[k] ELSE b[k - Len(c)]
  <2>1. b \in Seq(S)
    BY <1>2
  <2>2. c \o b \in Seq(S) /\ Len(c \o b) = Len(c) + Len(b)
    BY <1>4, <2>1, ConcatProperties
  <2>3. \A k \in 1..(Len(c) + Len(b)) : (c \o b)[k] = IF k <= Len(c) THEN c[k] ELSE b[k - Len(c)]
    BY <1>4, <2>1, ConcatProperties
  <2> QED BY <2>2, <2>3
<1>8. Len(c) + Len(b) = Len(ls) - n + Len(p)
  BY <1>0, <1>2, <1>4
<1>9. ASSUME NEW k \in 1..(Len(ls) - n + Len(p))
      PROVE  (c \o b)[k] = IF k <= i THEN ls[k] ELSE IF k <= i + Len(p) THEN p[k - i]
                           ELSE ls[k - Len(p) + n]
  <2>1. (c \o b)[k] = IF k <= i + Len(p) THEN c[k] ELSE b[k - (i + Len(p))]
    BY <1>4, <1>7, <1>8
  <2>2. CASE k <= i + Len(p)
    <3>1. k \in 1..(i + Len(p)) /\ (k <= i => k \in 1..i)
      BY <1>0, <2>2
    <3> QED BY <1>1, <1>5, <2>1, <2>2, <3>1
  <2>3. CASE ~(k <= i + Len(p))
    <3>1. /\ k - (i + Len(p)) \in 1..(Len(ls) - i - n) /\ ~(k <= i)
          /\ i + n + (k - (i + Len(p))) = k - Len(p) + n
      BY <1>0, <2>3
    <3> QED BY <1>2, <2>1, <2>3, <3>1
  <2> QED BY <2>2, <2>3
<1> QED BY <1>6, <1>7, <1>8, <1>9

\* How many lines a splice of lines has.
LEMMA SpliceLength ==
  ASSUME NEW ls \in Seq(Line), NEW p \in Seq(Line), NEW i \in Nat, NEW n \in Nat,
         i + n <= Len(ls)
  PROVE  Len(Splice(ls, i, n, p)) = Len(ls) - n + Len(p)
BY SpliceLines

\* rejoin, the split and join around every edit, changes at most blank lines at
\* the end, at most one of them, and never takes the newline at the end away.
LEMMA RejoinLines ==
  ASSUME NEW ls \in Seq(Line), NEW nl \in BOOLEAN
  PROVE  LET r == rejoin(ls, nl)
         IN  /\ r.lines \in Seq(Line) /\ r.newline \in BOOLEAN /\ (nl => r.newline)
             /\ \A k \in Positive : LineAt(r.lines, k) = LineAt(ls, k)
             /\ Settled(r.lines, r.newline) /\ Len(r.lines) >= Len(ls) - 1
             /\ Settled(ls, nl) => Len(r.lines) >= Len(ls)
<1> DEFINE r == rejoin(ls, nl)
<1>0. Len(ls) \in Nat /\ DOMAIN ls = 1..Len(ls)
  BY LenProperties
<1>00. Blank \in Line
  BY PatchAssumption DEF Blank, Line
<1> HIDE DEF r
<1>1. CASE nl
  <2>1. r = [lines |-> IF ls = <<>> THEN <<Blank>> ELSE ls, newline |-> TRUE]
    BY <1>1 DEF rejoin, r
  <2>2. CASE ls = <<>>
    <3>1. r.lines = <<Blank>> /\ r.newline = TRUE /\ DOMAIN <<Blank>> = {1} /\ <<Blank>>[1] = Blank
      BY <2>1, <2>2
    <3>2. <<Blank>> \in Seq(Line)
      BY <1>00
    <3>3. \A k : LineAt(<<Blank>>, k) = Blank /\ LineAt(ls, k) = Blank
      BY <2>2, <3>1 DEF LineAt
    <3>4. Len(<<Blank>>) = 1 /\ Len(ls) = 0
      BY <2>2
    <3>5. Settled(<<Blank>>, TRUE) /\ Len(<<Blank>>) >= Len(ls) - 1 /\ Len(<<Blank>>) >= Len(ls)
      BY <3>4 DEF Settled
    <3> QED BY <3>1, <3>2, <3>3, <3>5 DEF r
  <2>3. CASE ls /= <<>>
    <3>1. r.lines = ls /\ r.newline = TRUE /\ Len(ls) >= Len(ls) - 1 /\ Len(ls) >= Len(ls)
      BY <1>0, <2>1, <2>3
    <3> QED BY <3>1 DEF r, Settled
  <2> QED BY <2>2, <2>3
<1>2. CASE ~nl /\ Len(ls) > 1 /\ Last(ls) = Blank
  <2>1. r = [lines |-> Front(ls), newline |-> TRUE]
    BY <1>2 DEF rejoin, r
  <2> DEFINE fr == SubSeq(ls, 1, Len(ls) - 1)
  <2>2. fr \in Seq(Line) /\ Len(fr) = Len(ls) - 1 /\ \A k \in 1..(Len(ls) - 1) : fr[k] = ls[k]
    BY <1>0, <1>2, SubSeqProperties
  <2>3. ls[Len(ls)] = Blank /\ r.lines = fr /\ r.newline = TRUE
    BY <1>2, <2>1 DEF Last, Front
  <2> HIDE DEF fr
  <2>4. DOMAIN fr = 1..(Len(ls) - 1)
    BY <2>2, LenProperties
  <2>5. ASSUME NEW k \in Positive PROVE LineAt(fr, k) = LineAt(ls, k)
    <3> DEFINE n == Len(ls)
    <3>0. n \in Nat /\ n > 1 /\ k \in Nat /\ k >= 1
      BY <1>0, <1>2 DEF Positive
    <3>1. /\ DOMAIN ls = 1..n /\ DOMAIN fr = 1..(n - 1) /\ ls[n] = Blank
          /\ \A j \in 1..(n - 1) : fr[j] = ls[j]
      BY <1>0, <2>2, <2>3, <2>4
    <3> HIDE DEF n
    <3>2. CASE k \in 1..(n - 1)
      <4>1. k \in 1..n
        BY <3>0, <3>2
      <4> QED BY <3>1, <3>2, <4>1 DEF LineAt
    <3>3. CASE k = n
      <4>1. k \notin 1..(n - 1) /\ k \in 1..n
        BY <3>0, <3>3
      <4> QED BY <3>1, <3>3, <4>1 DEF LineAt
    <3>4. CASE k > n
      <4>1. k \notin 1..(n - 1) /\ k \notin 1..n
        BY <3>0, <3>4
      <4> QED BY <3>1, <4>1 DEF LineAt
    <3> QED BY <3>0, <3>2, <3>3, <3>4
  <2>6. Len(fr) >= Len(ls) - 1 /\ ~Settled(ls, nl)
    BY <1>0, <1>2, <2>2, <2>3 DEF Settled
  <2> QED BY <2>2, <2>3, <2>5, <2>6 DEF r, Settled
<1>3. CASE ~nl /\ ~(Len(ls) > 1 /\ Last(ls) = Blank)
  <2>1. r = [lines |-> IF ls = <<Blank>> THEN <<>> ELSE ls, newline |-> FALSE]
    BY <1>3 DEF rejoin, r
  <2>2. CASE ls = <<Blank>>
    <3>1. r.lines = <<>> /\ r.newline = FALSE /\ DOMAIN <<Blank>> = {1} /\ <<Blank>>[1] = Blank
      BY <2>1, <2>2
    <3>2. <<>> \in Seq(Line) /\ DOMAIN <<>> = {}
      OBVIOUS
    <3>3. \A k : LineAt(<<>>, k) = Blank /\ LineAt(<<Blank>>, k) = Blank
      BY <3>1, <3>2 DEF LineAt
    <3>4. Len(<<>>) = 0 /\ Len(ls) = 1 /\ ls[1] = Blank
      BY <2>2
    <3>5. Len(<<>>) >= Len(ls) - 1 /\ ~Settled(ls, nl)
      BY <1>3, <3>4 DEF Settled
    <3>6. Settled(<<>>, FALSE)
      BY DEF Settled
    <3> QED BY <1>3, <2>2, <3>1, <3>2, <3>3, <3>5, <3>6 DEF r
  <2>3. CASE ls /= <<Blank>>
    <3>1. r.lines = ls /\ r.newline = FALSE /\ Len(ls) >= Len(ls) - 1 /\ Len(ls) >= Len(ls)
      BY <1>0, <2>1, <2>3
    <3>2. Settled(ls, FALSE)
      <4>1. CASE Len(ls) > 1
        BY <1>3, <4>1 DEF Settled, Last
      <4>2. CASE Len(ls) = 1
        <5>1. ls = <<ls[1]>>
          BY <4>2
        <5> QED BY <2>3, <4>2, <5>1 DEF Settled
      <4>3. CASE Len(ls) = 0
        BY <4>3 DEF Settled
      <4>4. Len(ls) \in Nat
        BY <1>0
      <4>5. Len(ls) > 1 \/ Len(ls) = 1 \/ Len(ls) = 0
        BY <4>4
      <4> QED BY <4>1, <4>2, <4>3, <4>5
    <3> QED BY <1>3, <3>1, <3>2 DEF r
  <2> QED BY <2>2, <2>3
<1> QED BY <1>1, <1>2, <1>3

\* The lines of a spliced text, and the blanks that follow them.
LEMMA SpliceLineAt ==
  ASSUME NEW ms \in Seq(Line), NEW p \in Seq(Line), NEW i \in Nat, NEW n \in Nat,
         i + n <= Len(ms), NEW k \in Positive
  PROVE  LineAt(Splice(ms, i, n, p), k) = IF k <= i THEN LineAt(ms, k)
                                          ELSE IF k <= i + Len(p) THEN p[k - i]
                                          ELSE LineAt(ms, k - Len(p) + n)
<1>0. Len(ms) \in Nat /\ DOMAIN ms = 1..Len(ms) /\ Len(p) \in Nat /\ k \in Nat /\ k >= 1
  BY LenProperties DEF Positive
<1> DEFINE r == Splice(ms, i, n, p)
           m == Len(ms) - n + Len(p)
<1>1. /\ r \in Seq(Line) /\ Len(r) = m
      /\ \A j \in 1..m : r[j] = IF j <= i THEN ms[j] ELSE IF j <= i + Len(p) THEN p[j - i]
                                ELSE ms[j - Len(p) + n]
  <2>1. Splice(ms, i, n, p) \in Seq(Line)
    BY SpliceLines
  <2>2. Len(Splice(ms, i, n, p)) = Len(ms) - n + Len(p)
    BY SpliceLines
  <2>3. \A j \in 1..(Len(ms) - n + Len(p)) :
          Splice(ms, i, n, p)[j] = IF j <= i THEN ms[j] ELSE IF j <= i + Len(p) THEN p[j - i]
                                   ELSE ms[j - Len(p) + n]
    <3>1. ms \in Seq(Line) /\ p \in Seq(Line) /\ i \in Nat /\ n \in Nat /\ i + n <= Len(ms)
      OBVIOUS
    <3> HIDE DEF r, m
    <3> QED BY <3>1, SpliceLines, SMTT(60)
  <2> QED BY <2>1, <2>2, <2>3
<1> HIDE DEF r
<1>2. DOMAIN r = 1..m
  BY <1>1, LenProperties
<1>3. k \in 1..m <=> k <= m
  BY <1>0
<1>4. CASE k <= i
  <2>1. k <= m /\ k \in 1..Len(ms)
    BY <1>0, <1>4
  <2> QED BY <1>0, <1>1, <1>2, <1>3, <1>4, <2>1 DEF LineAt, r
<1>5. CASE ~(k <= i) /\ k <= i + Len(p)
  <2>1. k <= m
    BY <1>0, <1>5
  <2> QED BY <1>1, <1>2, <1>3, <1>5, <2>1 DEF LineAt, r
<1>6. CASE ~(k <= i) /\ ~(k <= i + Len(p))
  <2>1. k <= m <=> k - Len(p) + n \in 1..Len(ms)
    BY <1>0, <1>6
  <2> HIDE DEF m
  <2> QED BY <1>0, <1>1, <1>2, <1>3, <1>6, <2>1 DEF LineAt, r
<1> QED BY <1>4, <1>5, <1>6

\* Two texts that agree still do when both are spliced at the same place.
LEMMA SpliceAgrees ==
  ASSUME NEW ls \in Seq(Line), NEW ks \in Seq(Line), NEW p \in Seq(Line),
         NEW i \in Nat, NEW n \in Nat, i + n <= Len(ls), i + n <= Len(ks),
         \A k \in Positive : LineAt(ls, k) = LineAt(ks, k)
  PROVE  \A k \in Positive : LineAt(Splice(ls, i, n, p), k) = LineAt(Splice(ks, i, n, p), k)
<1>1. Len(p) \in Nat
  BY LenProperties
<1> TAKE k \in Positive
<1>2. ~(k <= i) /\ ~(k <= i + Len(p)) => k - Len(p) + n \in Positive
  BY <1>1 DEF Positive
<1> QED BY <1>2, SpliceLineAt
\* So they do when one ends above the line that is replaced in the other.
LEMMA AppendAgrees ==
  ASSUME NEW ls \in Seq(Line), NEW ks \in Seq(Line), NEW p \in Seq(Line),
         Len(ls) + 1 <= Len(ks),
         \A k \in Positive : LineAt(ls, k) = LineAt(ks, k)
  PROVE  \A k \in Positive : LineAt(ls \o p, k) = LineAt(Splice(ks, Len(ls), 1, p), k)
<1>0. Len(ls) \in Nat /\ DOMAIN ls = 1..Len(ls) /\ Len(p) \in Nat /\ DOMAIN p = 1..Len(p)
      /\ Len(ls \o p) = Len(ls) + Len(p) /\ ls \o p \in Seq(Line)
      /\ \A k \in 1..(Len(ls) + Len(p)) :
           (ls \o p)[k] = IF k <= Len(ls) THEN ls[k] ELSE p[k - Len(ls)]
  BY LenProperties, ConcatProperties
<1>1. DOMAIN (ls \o p) = 1..(Len(ls) + Len(p))
  BY <1>0, LenProperties
<1>a. Len(ls) \in Nat /\ Len(p) \in Nat
  BY <1>0
<1> TAKE k \in Positive
<1>2. k \in Nat /\ k >= 1
  BY DEF Positive
<1>3. LineAt(Splice(ks, Len(ls), 1, p), k) = IF k <= Len(ls) THEN LineAt(ks, k)
                                             ELSE IF k <= Len(ls) + Len(p) THEN p[k - Len(ls)]
                                             ELSE LineAt(ks, k - Len(p) + 1)
  BY <1>0, SpliceLineAt
<1>4. CASE k <= Len(ls)
  <2>1. k \in 1..Len(ls) /\ k \in 1..(Len(ls) + Len(p))
    BY <1>0, <1>2, <1>4
  <2>2. LineAt(ls \o p, k) = ls[k] /\ LineAt(ls, k) = ls[k]
    BY <1>0, <1>1, <1>4, <2>1 DEF LineAt
  <2> QED BY <1>3, <1>4, <2>2
<1>5. CASE ~(k <= Len(ls)) /\ k <= Len(ls) + Len(p)
  <2>1. k \in 1..(Len(ls) + Len(p))
    BY <1>0, <1>2, <1>5
  <2>2. LineAt(ls \o p, k) = p[k - Len(ls)]
    BY <1>0, <1>1, <1>5, <2>1 DEF LineAt
  <2> QED BY <1>3, <1>5, <2>2
<1>6. CASE ~(k <= Len(ls)) /\ ~(k <= Len(ls) + Len(p))
  <2>1. /\ k \notin 1..(Len(ls) + Len(p)) /\ k - Len(p) + 1 \in Positive
        /\ k - Len(p) + 1 \notin 1..Len(ls)
    BY <1>a, <1>2, <1>6 DEF Positive
  <2>2. LineAt(ls \o p, k) = Blank /\ LineAt(ls, k - Len(p) + 1) = Blank
    BY <1>0, <1>1, <2>1 DEF LineAt
  <2> QED BY <1>3, <1>6, <2>1, <2>2
<1> QED BY <1>4, <1>5, <1>6
----------------------------------------------------------------------------
(***************************************************************************)
(* Edits of the wanted text.                                               *)
(***************************************************************************)

\* The least of some naturals.
LEMMA LeastLine ==
  ASSUME NEW T \in SUBSET Nat, T /= {}
  PROVE  \E m \in T : \A k \in T : m <= k
<1> DEFINE R == {ss \in Nat \X Nat : ss[1] < ss[2]}
<1>1. \A x, y \in Nat : y < x => <<y, x>> \in R
  OBVIOUS
<1>2. T \subseteq Nat /\ IsWellFoundedOn(R, Nat)
  BY NatLessThanWellFounded DEF OpToRel
<1> HIDE DEF R
<1>3. PICK x \in T : \A y \in T : ~(<<y, x>> \in R)
  BY <1>2, WFMin, Zenon
<1>4. \A y \in T : ~(y < x)
  BY <1>1, <1>3
<1> QED BY <1>4

\* Lines are counted from 1, also the one that imports go below.
LEMMA SpotIsPositive ==
  ASSUME NEW n \in Spots
  PROVE  n \in Nat /\ n >= 1
<1>1. Source \in Seq(Line) /\ Len(Source) \in Nat /\ DOMAIN Source = 1..Len(Source)
      /\ Nodes \subseteq 1..Len(Source) /\ Header \subseteq Nodes
  BY PatchAssumption, LenProperties
<1> DEFINE H == Header \cup {1}
           T == {(Len(Source) + 1) - l : l \in H}
<1>2. \A l \in H : l \in Nat /\ l >= 1 /\ (Len(Source) + 1) - l \in Nat
  BY <1>1
<1>3. T \in SUBSET Nat /\ T /= {}
  BY <1>2
<1>4. PICK m \in T : \A k \in T : m <= k
  BY <1>3, LeastLine
<1>5. PICK l \in H : m = (Len(Source) + 1) - l
  BY <1>4
<1>6. \A k \in Header : k <= l
  <2> TAKE k \in Header
  <2>1. k \in H /\ (Len(Source) + 1) - k \in T
    OBVIOUS
  <2>2. (Len(Source) + 1) - l <= (Len(Source) + 1) - k
    BY <1>4, <1>5, <2>1
  <2> QED BY <1>1, <1>2, <2>1, <2>2
<1>7. import_line \in H
  BY <1>6 DEF import_line
<1> HIDE DEF H
<1>8. import_line \in Nat /\ import_line >= 1
  BY <1>2, <1>7
<1>9. \A k \in Nodes : k \in Nat /\ k >= 1
  BY <1>1
<1> QED BY <1>8, <1>9 DEF Spots

LEMMA FunctionIsSeq ==
  ASSUME NEW S, NEW n \in Nat, NEW f \in [1..n -> S]
  PROVE  f \in Seq(S) /\ Len(f) = n
OBVIOUS

LEMMA Lines == Blank \in Line /\ Fresh \in Line
BY PatchAssumption DEF Blank, Fresh, Line

LEMMA PayloadLines ==
  ASSUME NEW height \in Nat
  PROVE  Payload(height) \in Seq(Line)
<1>1. CASE height = 0
  BY <1>1, Lines DEF Payload
<1>2. CASE height /= 0
  <2>1. [i \in 1..height |-> Fresh] \in Seq(Line)
    BY Lines
  <2> QED BY <1>2, <2>1 DEF Payload
<1> QED BY <1>1, <1>2

LEMMA AddedLines ==
  ASSUME NEW p \in Seq(Line)
  PROVE  /\ Added(p) \in Seq(Marked) /\ Len(Added(p)) = Len(p)
         /\ \A i \in 1..Len(p) : Added(p)[i].node = 0 /\ Added(p)[i].line = p[i]
<1>1. Len(p) \in Nat /\ DOMAIN p = 1..Len(p) /\ \A i \in 1..Len(p) : p[i] \in Line
  BY LenProperties, ElementOfSeq
<1>2. \A i \in 1..Len(p) : [node |-> 0, line |-> p[i]] \in Marked
  BY <1>1 DEF Marked
<1>3. Added(p) = [i \in 1..Len(p) |-> [node |-> 0, line |-> p[i]]]
  BY <1>1 DEF Added
<1>4. Added(p) \in Seq(Marked)
  BY <1>1, <1>2, <1>3
<1>5. Len(Added(p)) = Len(p)
  BY <1>1, <1>3
<1> QED BY <1>3, <1>4, <1>5

LEMMA WantedTypes ==
  ASSUME Shape
  PROVE  /\ Len(wanted) \in Nat /\ DOMAIN wanted = 1..Len(wanted)
         /\ \A i \in 1..Len(wanted) : wanted[i].node \in Nat /\ wanted[i].line \in Line
         /\ WantedLines \in Seq(Line) /\ Len(WantedLines) = Len(wanted)
         /\ DOMAIN WantedLines = 1..Len(wanted)
         /\ \A i \in 1..Len(wanted) : WantedLines[i] = wanted[i].line
<1>1. Len(wanted) \in Nat /\ DOMAIN wanted = 1..Len(wanted)
      /\ \A i \in 1..Len(wanted) : wanted[i] \in Marked
  BY LenProperties, ElementOfSeq DEF Shape
<1>2. \A i \in 1..Len(wanted) : wanted[i].node \in Nat /\ wanted[i].line \in Line
  BY <1>1 DEF Marked
<1>3. WantedLines = [i \in 1..Len(wanted) |-> wanted[i].line]
  BY <1>1 DEF WantedLines
<1>4. WantedLines \in Seq(Line) /\ Len(WantedLines) = Len(wanted)
  BY <1>1, <1>2, <1>3
<1> QED BY <1>1, <1>2, <1>3, <1>4

\* What a splice makes of marked lines, and of the lines alone.
LEMMA MarkedSplice ==
  ASSUME NEW ws \in Seq(Marked), NEW p \in Seq(Line), NEW i \in Nat, NEW n \in Nat,
         i + n <= Len(ws)
  PROVE  LET r == Splice(ws, i, n, Added(p))
         IN  /\ r \in Seq(Marked) /\ Len(r) = Len(ws) - n + Len(p)
             /\ \A k \in 1..(Len(ws) - n + Len(p)) :
                  /\ k <= i => r[k] = ws[k]
                  /\ ~(k <= i) /\ k <= i + Len(p) => r[k].node = 0 /\ r[k].line = p[k - i]
                  /\ ~(k <= i) /\ ~(k <= i + Len(p)) => r[k] = ws[k - Len(p) + n]
<1> DEFINE r == Splice(ws, i, n, Added(p))
<1>0. Len(ws) \in Nat /\ Len(p) \in Nat /\ Len(Added(p)) = Len(p) /\ Added(p) \in Seq(Marked)
  BY LenProperties, AddedLines
<1>1. Splice(ws, i, n, Added(p)) \in Seq(Marked)
  BY <1>0, SpliceLines
<1>2. Len(Splice(ws, i, n, Added(p))) = Len(ws) - n + Len(Added(p))
  BY <1>0, SpliceLines
<1>3. \A k \in 1..(Len(ws) - n + Len(Added(p))) :
        Splice(ws, i, n, Added(p))[k]
          = IF k <= i THEN ws[k] ELSE IF k <= i + Len(Added(p)) THEN Added(p)[k - i]
            ELSE ws[k - Len(Added(p)) + n]
  <2>1. ASSUME NEW q \in Seq(Marked)
        PROVE  \A k \in 1..(Len(ws) - n + Len(q)) :
                 Splice(ws, i, n, q)[k] = IF k <= i THEN ws[k] ELSE IF k <= i + Len(q) THEN q[k - i]
                                          ELSE ws[k - Len(q) + n]
    BY SpliceLines
  <2> QED BY <1>0, <2>1, Zenon
<1>4. Len(r) = Len(ws) - n + Len(p)
  BY <1>0, <1>2
<1>5. \A k \in 1..(Len(ws) - n + Len(p)) :
        r[k] = IF k <= i THEN ws[k] ELSE IF k <= i + Len(p) THEN Added(p)[k - i]
               ELSE ws[k - Len(p) + n]
  BY <1>0, <1>3
<1> HIDE DEF r
<1>6. \A k \in 1..(Len(ws) - n + Len(p)) : ~(k <= i) /\ k <= i + Len(p) => k - i \in 1..Len(p)
  BY <1>0
<1>7. \A k \in 1..(Len(ws) - n + Len(p)) :
        ~(k <= i) /\ k <= i + Len(p) => r[k].node = 0 /\ r[k].line = p[k - i]
  BY <1>5, <1>6, AddedLines
<1>8. \A k \in 1..(Len(ws) - n + Len(p)) :
        /\ k <= i => r[k] = ws[k]
        /\ ~(k <= i) /\ ~(k <= i + Len(p)) => r[k] = ws[k - Len(p) + n]
  BY <1>5
<1> QED BY <1>1, <1>4, <1>7, <1>8 DEF r

LEMMA SplicedLines ==
  ASSUME NEW ws \in Seq(Marked), NEW p \in Seq(Line), NEW i \in Nat, NEW n \in Nat,
         i + n <= Len(ws)
  PROVE  LET r == Splice(ws, i, n, Added(p))
         IN  [k \in DOMAIN r |-> r[k].line] = Splice([k \in DOMAIN ws |-> ws[k].line], i, n, p)
<1> DEFINE r == Splice(ws, i, n, Added(p))
           ls == [k \in DOMAIN ws |-> ws[k].line]
           ks == Splice(ls, i, n, p)
           m == Len(ws) - n + Len(p)
<1>0. /\ Len(ws) \in Nat /\ Len(p) \in Nat /\ DOMAIN ws = 1..Len(ws)
      /\ \A k \in 1..Len(ws) : ws[k] \in Marked
  BY LenProperties, ElementOfSeq
<1>1. r \in Seq(Marked) /\ Len(r) = m
  BY MarkedSplice
<1>2. \A k \in 1..m : /\ k <= i => r[k] = ws[k]
                      /\ ~(k <= i) /\ k <= i + Len(p) => r[k].line = p[k - i]
                      /\ ~(k <= i) /\ ~(k <= i + Len(p)) => r[k] = ws[k - Len(p) + n]
  BY MarkedSplice
<1>3. ls \in Seq(Line) /\ Len(ls) = Len(ws) /\ \A k \in 1..Len(ws) : ls[k] = ws[k].line
  <2>1. ls = [k \in 1..Len(ws) |-> ws[k].line]
    BY <1>0
  <2>2. \A k \in 1..Len(ws) : ws[k].line \in Line
    BY <1>0 DEF Marked
  <2> HIDE DEF ls
  <2> QED BY <1>0, <2>1, <2>2
<1> HIDE DEF r, ls
<1>a. ls \in Seq(Line) /\ i + n <= Len(ls)
  BY <1>3
<1>b. /\ Splice(ls, i, n, p) \in Seq(Line)
      /\ Len(Splice(ls, i, n, p)) = Len(ls) - n + Len(p)
      /\ \A k \in 1..(Len(ls) - n + Len(p)) :
           Splice(ls, i, n, p)[k] = IF k <= i THEN ls[k]
                                    ELSE IF k <= i + Len(p) THEN p[k - i]
                                    ELSE ls[k - Len(p) + n]
  BY <1>a, SpliceLines
<1>4. ks \in Seq(Line)
  BY <1>b
<1>5. Len(Splice(ls, i, n, p)) = Len(ls) - n + Len(p)
  BY <1>b
<1>6. \A k \in 1..(Len(ls) - n + Len(p)) :
        Splice(ls, i, n, p)[k] = IF k <= i THEN ls[k] ELSE IF k <= i + Len(p) THEN p[k - i]
                                 ELSE ls[k - Len(p) + n]
  BY <1>b
<1>7. Len(ks) = m
  BY <1>3, <1>5
<1>8. \A k \in 1..m : ks[k] = IF k <= i THEN ls[k] ELSE IF k <= i + Len(p) THEN p[k - i]
                              ELSE ls[k - Len(p) + n]
  BY <1>3, <1>6
<1> HIDE DEF ks
<1>9. m \in Nat /\ \A k \in 1..m : /\ k <= i => k \in 1..Len(ws)
                                   /\ ~(k <= i) /\ ~(k <= i + Len(p)) => k - Len(p) + n \in 1..Len(ws)
  BY <1>0
<1> HIDE DEF m
<1>10. \A k \in 1..m : ks[k] = r[k].line
  BY <1>2, <1>3, <1>8, <1>9
<1>11. DOMAIN r = 1..m /\ DOMAIN ks = 1..m /\ ks = [k \in 1..m |-> ks[k]]
  BY <1>1, <1>4, <1>7, LenProperties
<1>12. ks = [k \in 1..m |-> r[k].line]
  BY <1>10, <1>11
<1> QED BY <1>11, <1>12 DEF ks, r, ls

\* The reference edits at nodes keep a list of marked lines.
LEMMA AtNodeShape ==
  ASSUME Shape, NEW line, NEW p \in Seq(Line), NEW up \in {0, 1}, NEW n \in {0, 1}, n <= up
  PROVE  AtNode(line, up, n, p) \in Seq(Marked)
<1>1. CASE Home(line) = {}
  BY <1>1 DEF AtNode, Shape
<1>2. CASE Home(line) /= {}
  <2> DEFINE i == CHOOSE i \in Home(line) : TRUE
  <2>1. i \in Home(line)
    BY <1>2
  <2>2. AtNode(line, up, n, p) = Splice(wanted, i - up, n, Added(p))
    BY <1>2 DEF AtNode
  <2> HIDE DEF i
  <2>3. i \in 1..Len(wanted) /\ Len(wanted) \in Nat
    BY <2>1, WantedTypes DEF Home
  <2>4. i - up \in Nat /\ n \in Nat /\ (i - up) + n <= Len(wanted)
    BY <2>3
  <2>5. wanted \in Seq(Marked) /\ Added(p) \in Seq(Marked)
    BY AddedLines DEF Shape
  <2>6. Splice(wanted, i - up, n, Added(p)) \in Seq(Marked)
    BY <2>4, <2>5, SpliceLines
  <2> QED BY <2>2, <2>6
<1> QED BY <1>1, <1>2

\* A line above the latest edit is where it was, in both texts, if it is there.
LEMMA SpotIsHome ==
  ASSUME Shape, Aligned, NEW line \in Spots, line < lowest
  PROVE  /\ line \in Nat /\ line >= 1 /\ line - 1 <= Len(lines) /\ line <= Len(wanted)
         /\ Home(line) = {line} /\ line \in 1..Len(wanted)
<1>1. line \in Nat /\ line >= 1
  BY SpotIsPositive
<1>2. line <= Len(wanted) /\ line \in 1..(lowest - 1) /\ line \in 1..Len(wanted)
  BY <1>1, WantedTypes DEF Aligned, Shape
<1>3. \A i \in DOMAIN wanted : wanted[i].node = line <=> i = line
  BY <1>2 DEF Aligned
<1>4. Home(line) = {line}
  BY <1>2, <1>3, WantedTypes DEF Home
<1>5. line - 1 <= Len(lines)
  BY <1>1, LenProperties DEF Shape, Aligned
<1> QED BY <1>1, <1>2, <1>4, <1>5

\* What the line helpers make of the text at a line: a splice like that of the
\* reference, or the payload at the end where the line was taken for the newline.
EditedAt(edited, line, up, n, p) ==
  \/ line - up + n <= Len(lines) /\ edited = Splice(lines, line - up, n, p)
  \/ line = Len(lines) + 1 /\ up = 1 /\ n = 1 /\ edited = lines \o p

\* An edit aimed above the ones before it keeps both texts aligned.
LEMMA AimedEdit ==
  ASSUME TextInv, NEW line \in Spots, NEW p \in Seq(Line),
         NEW up \in {0, 1}, NEW n \in {0, 1}, n <= up, NEW edited \in Seq(Line),
         Edit(edited, AtNode(line, up, n, p)), Aim(line),
         missed' \in BOOLEAN, missed => missed',
         upward' /\ ~missed' /\ Aligned => EditedAt(edited, line, up, n, p)
  PROVE  TextInv'
<1>1. /\ lines' = rejoin(edited, newline).lines /\ newline' = rejoin(edited, newline).newline
      /\ wanted' = AtNode(line, up, n, p)
      /\ lowest' = line /\ upward' = (upward /\ line < lowest)
  BY DEF Edit, Aim
<1>2. Shape /\ newline \in BOOLEAN /\ lines \in Seq(Line) /\ lowest \in Nat /\ Len(lines) \in Nat
  BY LenProperties DEF TextInv, Shape
<1>3. /\ lines' \in Seq(Line) /\ newline' \in BOOLEAN
      /\ \A k \in Positive : LineAt(lines', k) = LineAt(edited, k)
      /\ Settled(lines', newline') /\ Len(lines') >= Len(edited) - 1
  BY <1>1, <1>2, RejoinLines
<1>4. line \in Nat /\ line >= 1
  BY SpotIsPositive
<1>5. wanted' \in Seq(Marked)
  BY <1>1, <1>2, AtNodeShape
<1>6. Shape'
  BY <1>1, <1>2, <1>3, <1>4, <1>5 DEF Shape
<1>7. ASSUME upward', ~missed' PROVE Aligned'
  <2>1. upward /\ line < lowest /\ Aligned
    BY <1>1, <1>7 DEF TextInv
  <2>2. line - 1 <= Len(lines) /\ line <= Len(wanted) /\ Home(line) = {line}
    BY <1>2, <2>1, SpotIsHome
  <2> DEFINE at == line - up
             m == Len(p)
             w == Len(wanted)
  <2>3. at \in Nat /\ at >= line - 1 /\ at + n <= line /\ m \in Nat /\ w \in Nat /\ w >= line
        /\ n \in Nat
    BY <1>2, <1>4, <2>2, LenProperties, WantedTypes
  <2>4. /\ wanted' = Splice(wanted, at, n, Added(p))
        /\ \/ at + n <= Len(lines) /\ edited = Splice(lines, at, n, p)
           \/ at = Len(lines) /\ n = 1 /\ edited = lines \o p
    <3>1. (CHOOSE i \in Home(line) : TRUE) = line
      BY <2>2
    <3>2. wanted' = Splice(wanted, at, n, Added(p))
      BY <1>1, <2>2, <3>1 DEF AtNode
    <3>3. EditedAt(edited, line, up, n, p)
      BY <1>7, <2>1
    <3> QED BY <1>2, <1>4, <3>2, <3>3 DEF EditedAt
  <2> HIDE DEF at
  <2>5. /\ Len(wanted') = w - n + m
        /\ \A k \in 1..(w - n + m) :
             /\ k <= at => wanted'[k] = wanted[k]
             /\ ~(k <= at) /\ k <= at + m => wanted'[k].node = 0
             /\ ~(k <= at) /\ ~(k <= at + m) => wanted'[k] = wanted[k - m + n]
    <3>1. wanted \in Seq(Marked) /\ at + n <= Len(wanted)
      BY <1>2, <1>4, <2>3 DEF Shape
    <3>2. at \in Nat /\ n \in Nat
      BY <2>3
    <3>3. Len(wanted') = w - n + m
      BY <2>4, <3>1, <3>2, MarkedSplice
    <3>4. \A k \in 1..(w - n + m) : k <= at => wanted'[k] = wanted[k]
      BY <2>4, <3>1, <3>2, MarkedSplice, ZenonT(40)
    <3>6. \A k \in 1..(w - n + m) : ~(k <= at) /\ k <= at + m => wanted'[k].node = 0
      <4> DEFINE s == Splice(wanted, at, n, Added(p))
      <4>1. \A k \in 1..(w - n + m) : ~(k <= at) /\ k <= at + m => s[k].node = 0 /\ s[k].line = p[k - at]
        BY <3>1, <3>2, MarkedSplice, ZenonT(40)
      <4> HIDE DEF s
      <4>2. wanted' = s
        BY <2>4 DEF s
      <4> QED BY <4>1, <4>2
    <3>5. \A k \in 1..(w - n + m) :
            ~(k <= at) /\ ~(k <= at + m) => wanted'[k] = wanted[k - m + n]
      BY <2>4, <3>1, <3>2, MarkedSplice, ZenonT(40)
    <3> QED BY <3>3, <3>4, <3>5, <3>6
  <2>6. DOMAIN wanted' = 1..(w - n + m)
    BY <1>5, <2>5, LenProperties
  <2>7. \A k \in Positive : LineAt(lines', k) = LineAt(WantedLines', k)
    <3> DEFINE ks == Splice(WantedLines, at, n, p)
    <3>0. /\ WantedLines \in Seq(Line) /\ at + n <= Len(WantedLines)
          /\ \A k \in Positive : LineAt(lines, k) = LineAt(WantedLines, k)
      BY <1>2, <1>4, <2>1, <2>2, <2>3, WantedTypes DEF Aligned
    <3>1. \A k \in Positive : LineAt(edited, k) = LineAt(ks, k)
      <4>1. CASE at + n <= Len(lines) /\ edited = Splice(lines, at, n, p)
        BY <1>2, <2>3, <3>0, <4>1, SpliceAgrees
      <4>2. CASE at = Len(lines) /\ n = 1 /\ edited = lines \o p
        <5>1. Len(lines) + 1 <= Len(WantedLines)
          BY <3>0, <4>2
        <5> QED BY <1>2, <3>0, <4>2, <5>1, AppendAgrees
      <4> QED BY <2>4, <4>1, <4>2
    <3>2. ks = WantedLines'
      <4>1. wanted \in Seq(Marked) /\ at + n <= Len(wanted)
        BY <1>2, <1>4, <2>3 DEF Shape
      <4> QED BY <2>3, <2>4, <4>1, SplicedLines DEF WantedLines
    <3> HIDE DEF ks
    <3> QED BY <1>3, <3>1, <3>2
  <2>8. lowest' <= Len(wanted') + 1
    BY <1>1, <1>4, <2>3, <2>5
  <2>10. lowest' <= Len(lines') + 2
    <3>1. Len(edited) >= line - 1 /\ Len(edited) \in Nat /\ Len(lines') \in Nat
      <4>1. CASE at + n <= Len(lines) /\ edited = Splice(lines, at, n, p)
        <5>1. Len(edited) = Len(lines) - n + Len(p)
          <6>1. at \in Nat /\ n \in Nat /\ at + n <= Len(lines)
            BY <2>3, <4>1
          <6>2. Len(Splice(lines, at, n, p)) = Len(lines) - n + Len(p)
            BY <1>2, <6>1, SpliceLength
          <6> QED BY <4>1, <6>2
        <5> QED BY <1>2, <1>3, <1>4, <2>3, <4>1, <5>1, LenProperties
      <4>2. CASE at = Len(lines) /\ n = 1 /\ edited = lines \o p
        <5>1. Len(edited) = Len(lines) + Len(p)
          BY <1>2, <4>2, ConcatProperties
        <5> QED BY <1>2, <1>3, <1>4, <2>3, <4>2, <5>1, LenProperties
      <4> QED BY <2>4, <4>1, <4>2
    <3> QED BY <1>1, <1>3, <1>4, <3>1
  <2>9. ASSUME NEW i \in DOMAIN wanted', NEW j \in 1..(lowest' - 1)
        PROVE  wanted'[i].node = j <=> i = j
    <3>1. i \in 1..(w - n + m) /\ j \in 1..(line - 1) /\ j \in 1..(lowest - 1)
      BY <1>1, <1>2, <1>4, <2>1, <2>6
    <3>2. CASE i <= at
      <4>1. i \in 1..w
        BY <1>4, <2>3, <3>1, <3>2
      <4>2. i \in DOMAIN wanted /\ wanted'[i] = wanted[i]
        BY <1>2, <2>5, <3>1, <3>2, <4>1, WantedTypes
      <4> QED BY <2>1, <3>1, <4>2 DEF Aligned
    <3>3. CASE ~(i <= at) /\ i <= at + m
      <4>1. i - at \in 1..m /\ i /= j /\ j /= 0
        BY <1>4, <2>3, <3>1, <3>3
      <4>2. wanted'[i].node = 0
        BY <2>5, <3>1, <3>3
      <4> QED BY <4>1, <4>2
    <3>4. CASE ~(i <= at) /\ ~(i <= at + m)
      <4>1. i - m + n \in 1..w /\ i /= j /\ i - m + n /= j
        BY <1>4, <2>3, <3>1, <3>4
      <4>2. wanted'[i] = wanted[i - m + n] /\ i - m + n \in DOMAIN wanted
        BY <1>2, <2>5, <3>1, <3>4, <4>1, WantedTypes
      <4> QED BY <2>1, <3>1, <4>1, <4>2 DEF Aligned
    <3> QED BY <3>2, <3>3, <3>4
  <2> QED BY <2>7, <2>8, <2>9, <2>10 DEF Aligned
<1> QED BY <1>3, <1>6, <1>7 DEF TextInv

\* The three line helpers, aimed at a line of the unpatched file.
LEMMA InsertEdit ==
  ASSUME TextInv, NEW line \in Spots, NEW p \in Seq(Line),
         NEW position \in {"before", "after"}, Insert(line, position, p)
  PROVE  TextInv'
<1> DEFINE up == IF position = "before" THEN 1 ELSE 0
           idx == insert_index(lines, line, position)
<1>0. /\ Edit(insert_line(line, position, p), Put(line, position, p)) /\ Aim(line)
      /\ missed' = (missed \/ (position = "after" /\ line > Len(lines)))
  BY DEF Insert
<1>1. line \in Nat /\ line >= 1
  BY SpotIsPositive
<1>2. lines \in Seq(Line) /\ Len(lines) \in Nat /\ missed \in BOOLEAN /\ Shape
  BY LenProperties DEF TextInv, Shape
<1>3. /\ up \in {0, 1} /\ idx \in Nat /\ idx <= Len(lines)
      /\ line - up <= Len(lines) => idx = line - up
  <2>1. CASE position = "before"
    BY <1>1, <1>2, <2>1 DEF insert_index
  <2>2. CASE position = "after"
    BY <1>1, <1>2, <2>2 DEF insert_index
  <2> QED BY <2>1, <2>2
<1>4. insert_line(line, position, p) = Splice(lines, idx, 0, p)
  BY DEF insert_line
<1>5. Put(line, position, p) = AtNode(line, up, 0, p)
  BY DEF Put
<1>8. ASSUME upward', ~missed', Aligned PROVE EditedAt(Splice(lines, idx, 0, p), line, up, 0, p)
  <2>1. line - 1 <= Len(lines)
    <3>1. line < lowest
      BY <1>0, <1>8 DEF Aim
    <3> QED BY <1>2, <1>8, <3>1, SpotIsHome
  <2>2. line - up <= Len(lines)
    <3>1. CASE position = "before"
      BY <2>1, <3>1
    <3>2. CASE position = "after"
      <4>1. ~(line > Len(lines))
        BY <1>0, <1>8, <3>2
      <4> QED BY <1>1, <1>2, <3>2, <4>1
    <3> QED BY <3>1, <3>2
  <2> HIDE DEF up, idx
  <2>3. idx = line - up /\ line - up + 0 <= Len(lines)
    BY <1>1, <1>3, <2>2
  <2> QED BY <2>3 DEF EditedAt
<1> HIDE DEF up, idx
<1>6. Splice(lines, idx, 0, p) \in Seq(Line)
  <2>1. idx + 0 <= Len(lines)
    BY <1>3
  <2> QED BY <1>2, <1>3, <2>1, SpliceLines
<1>7. 0 <= up /\ missed' \in BOOLEAN /\ (missed => missed')
  BY <1>0, <1>2, <1>3
<1> QED BY <1>0, <1>3, <1>4, <1>5, <1>6, <1>7, <1>8, AimedEdit

LEMMA ReplaceEdit ==
  ASSUME TextInv, NEW line \in Spots, NEW p \in Seq(Line),
         NEW edited, Rewrite(line, edited, p),
         edited = IF line <= Len(lines) THEN Splice(lines, line - 1, 1, p) ELSE lines \o p
  PROVE  TextInv'
<1>0. Edit(edited, Replaced(line, p)) /\ Aim(line) /\ missed' = missed
  BY DEF Rewrite
<1>1. line \in Nat /\ line >= 1
  BY SpotIsPositive
<1>2. lines \in Seq(Line) /\ Len(lines) \in Nat /\ missed \in BOOLEAN /\ Shape
  BY LenProperties DEF TextInv, Shape
<1>3. edited \in Seq(Line)
  <2>1. CASE line <= Len(lines)
    <3>1. line - 1 \in Nat /\ 1 \in Nat /\ (line - 1) + 1 <= Len(lines)
      BY <1>1, <1>2, <2>1
    <3>2. Splice(lines, line - 1, 1, p) \in Seq(Line)
      BY <1>2, <3>1, SpliceLines
    <3> QED BY <2>1, <3>2
  <2>2. CASE ~(line <= Len(lines))
    BY <1>2, <2>2, ConcatProperties
  <2> QED BY <2>1, <2>2
<1>4. Replaced(line, p) = AtNode(line, 1, 1, p)
  BY DEF Replaced
<1>5. ASSUME upward', ~missed', Aligned PROVE EditedAt(edited, line, 1, 1, p)
  <2>1. line - 1 <= Len(lines)
    <3>1. line < lowest
      BY <1>0, <1>5 DEF Aim
    <3> QED BY <1>2, <1>5, <3>1, SpotIsHome
  <2>2. CASE line <= Len(lines)
    <3>1. line - 1 + 1 <= Len(lines) /\ edited = Splice(lines, line - 1, 1, p)
      BY <1>1, <2>2
    <3> QED BY <3>1 DEF EditedAt
  <2>3. CASE ~(line <= Len(lines))
    <3>1. line = Len(lines) + 1 /\ edited = lines \o p
      BY <1>1, <1>2, <2>1, <2>3
    <3> QED BY <3>1 DEF EditedAt
  <2> QED BY <2>2, <2>3
<1>6. 1 \in {0, 1} /\ 1 <= 1 /\ missed' \in BOOLEAN /\ (missed => missed')
  BY <1>0, <1>2
<1> QED BY <1>0, <1>3, <1>4, <1>5, <1>6, AimedEdit

\* What a rename makes of a line.
NewName(l, from, to) == IF l.name = from /\ ~l.quoted THEN [l EXCEPT !.name = to] ELSE l

LEMMA NamesStay ==
  ASSUME NEW from \in Names, NEW to \in Names, from /= "", to /= "", NEW l \in Line
  PROVE  NewName(l, from, to) \in Line /\ (NewName(l, from, to) = Blank <=> l = Blank)
<1> DEFINE k == NewName(l, from, to)
<1>1. /\ l = [name |-> l.name, quoted |-> l.quoted]
      /\ l.name \in Names /\ l.quoted \in BOOLEAN
  BY DEF Line
<1>2. CASE l.name = from /\ ~l.quoted
  <2>1. k = [name |-> to, quoted |-> l.quoted]
    BY <1>1, <1>2 DEF NewName
  <2> HIDE DEF k
  <2>2. k.name = to /\ Blank.name = ""
    BY <2>1 DEF Blank
  <2>3. k /= Blank /\ l /= Blank
    BY <1>2, <2>2
  <2>4. k \in Line
    BY <1>1, <2>1 DEF Line
  <2> QED BY <2>3, <2>4 DEF k
<1>3. CASE ~(l.name = from /\ ~l.quoted)
  BY <1>3 DEF NewName
<1> QED BY <1>2, <1>3

LEMMA LastIndex == ASSUME NEW n \in Nat, n /= 0 PROVE n \in 1..n
OBVIOUS

LEMMA StillNear ==
  ASSUME NEW a \in Nat, NEW b \in Nat, NEW c \in Nat, a <= b + 2, c >= b
  PROVE  a <= c + 2
OBVIOUS

\* A rename changes both texts alike and makes no line blank.
LEMMA RenameEdit ==
  ASSUME TextInv, NEW from \in Names, NEW to \in Names, from /= "", to /= "",
         Edit(rename_identifier(from, to), WantedNames(from, to)),
         UNCHANGED <<lowest, upward, missed>>
  PROVE  TextInv'
<1>1. Shape /\ Len(lines) \in Nat /\ DOMAIN lines = 1..Len(lines) /\ newline \in BOOLEAN
      /\ \A i \in 1..Len(lines) : lines[i] \in Line
  BY LenProperties, ElementOfSeq DEF TextInv, Shape
<1>2. \A l \in Line : NewName(l, from, to) \in Line /\ (NewName(l, from, to) = Blank <=> l = Blank)
  BY NamesStay
<1>3. Renamed(lines, from, to) = [i \in 1..Len(lines) |-> NewName(lines[i], from, to)]
  BY <1>1 DEF Renamed, NewName
<1>4. Renamed(WantedLines, from, to) = [i \in 1..Len(wanted) |-> NewName(wanted[i].line, from, to)]
  BY <1>1, WantedTypes DEF Renamed, NewName
<1>5. /\ wanted' = [i \in 1..Len(wanted) |-> [wanted[i] EXCEPT !.line = NewName(wanted[i].line, from, to)]]
  <2>1. wanted' = WantedNames(from, to)
    BY DEF Edit
  <2> QED BY <1>1, <1>4, <2>1, WantedTypes DEF WantedNames
<1>6. \A i \in 1..Len(wanted) : /\ wanted'[i] \in Marked /\ wanted'[i].node = wanted[i].node
                                /\ wanted'[i].line = NewName(wanted[i].line, from, to)
  <2> TAKE i \in 1..Len(wanted)
  <2>1. wanted'[i] = [wanted[i] EXCEPT !.line = NewName(wanted[i].line, from, to)]
    BY <1>5
  <2>2. wanted[i] \in Marked /\ NewName(wanted[i].line, from, to) \in Line
    BY <1>1, <1>2, WantedTypes, ElementOfSeq DEF Shape
  <2> QED BY <2>1, <2>2 DEF Marked
<1>7. wanted' \in Seq(Marked) /\ Len(wanted') = Len(wanted) /\ DOMAIN wanted' = 1..Len(wanted)
  <2>1. DOMAIN wanted' = 1..Len(wanted) /\ wanted' = [i \in 1..Len(wanted) |-> wanted'[i]]
    BY <1>5
  <2>2. Len(wanted) \in Nat
    BY <1>1, WantedTypes
  <2>3. \A i \in 1..Len(wanted) : wanted'[i] \in Marked
    BY <1>6
  <2>4. wanted' \in [1..Len(wanted) -> Marked]
    BY <2>1, <2>3
  <2> QED BY <2>1, <2>2, <2>4, FunctionIsSeq
<1> DEFINE edited == [i \in 1..Len(lines) |-> NewName(lines[i], from, to)]
<1>8. edited \in Seq(Line) /\ DOMAIN edited = 1..Len(lines) /\ Len(edited) = Len(lines)
  <2>1. \A i \in 1..Len(lines) : NewName(lines[i], from, to) \in Line
    BY <1>1, <1>2
  <2>2. edited \in [1..Len(lines) -> Line] /\ DOMAIN edited = 1..Len(lines)
    BY <2>1
  <2> QED BY <1>1, <2>2, FunctionIsSeq
<1>9. lines' = rejoin(edited, newline).lines /\ newline' = rejoin(edited, newline).newline
  BY <1>3 DEF Edit, rename_identifier
<1>10. /\ lines' \in Seq(Line) /\ newline' \in BOOLEAN
       /\ \A k \in Positive : LineAt(lines', k) = LineAt(edited, k)
       /\ Settled(lines', newline')
       /\ Settled(edited, newline) => Len(lines') >= Len(edited)
  <2> HIDE DEF edited
  <2> QED BY <1>1, <1>8, <1>9, RejoinLines
<1>11. Shape'
  BY <1>7, <1>10 DEF TextInv, Shape
<1>12. ASSUME upward', ~missed' PROVE Aligned'
  <2>1. Aligned /\ lowest' = lowest
    BY <1>12 DEF TextInv
  <2>2. \A k \in Positive : LineAt(edited, k) = NewName(LineAt(lines, k), from, to)
    <3>1. NewName(Blank, from, to) = Blank
      BY <1>2, Lines
    <3> QED BY <1>8, <1>1, <3>1 DEF LineAt
  <2>3. \A k \in Positive : LineAt(WantedLines', k) = NewName(LineAt(WantedLines, k), from, to)
    <3>1. NewName(Blank, from, to) = Blank
      BY <1>2, Lines
    <3>2. DOMAIN WantedLines' = 1..Len(wanted)
          /\ \A k \in 1..Len(wanted) : WantedLines'[k] = NewName(wanted[k].line, from, to)
      BY <1>6, <1>7 DEF WantedLines
    <3> QED BY <1>1, <3>1, <3>2, WantedTypes DEF LineAt
  <2>4. \A k \in Positive : LineAt(lines', k) = LineAt(WantedLines', k)
    BY <1>10, <2>1, <2>2, <2>3 DEF Aligned
  <2>5. \A i \in DOMAIN wanted', n \in 1..(lowest' - 1) : wanted'[i].node = n <=> i = n
    BY <1>1, <1>6, <1>7, <2>1, WantedTypes, ZenonT(40) DEF Aligned
  <2>6. lowest' <= Len(lines') + 2
    <3>1. Settled(edited, newline) /\ Len(edited) = Len(lines)
      <4>1. Len(edited) = Len(lines)
        BY <1>8
      <4>2. CASE newline \/ Len(lines) = 0
        BY <4>1, <4>2 DEF Settled
      <4>3. CASE lines[Len(lines)] /= Blank /\ Len(lines) /= 0
        <5>1. Len(lines) \in 1..Len(lines)
          BY <1>1, <4>3, LastIndex, Zenon
        <5>2. edited[Len(lines)] = NewName(lines[Len(lines)], from, to)
          BY <5>1
        <5>3. edited[Len(lines)] /= Blank
          BY <1>1, <1>2, <4>3, <5>1, <5>2
        <5> HIDE DEF edited
        <5> QED BY <4>1, <5>3 DEF Settled
      <4> QED BY <4>1, <4>2, <4>3 DEF TextInv, Settled
    <3> HIDE DEF edited
    <3>2. Len(lines') >= Len(lines) /\ Len(lines') \in Nat
      BY <1>10, <3>1, LenProperties
    <3>3. lowest <= Len(lines) + 2 /\ lowest \in Nat /\ Len(lines) \in Nat
      BY <1>1, <2>1 DEF Aligned, Shape
    <3>4. lowest' = lowest
      BY <2>1
    <3> QED BY <3>2, <3>3, <3>4, StillNear, Zenon
  <2> QED BY <1>7, <2>1, <2>4, <2>5, <2>6 DEF Aligned
<1> QED BY <1>10, <1>11, <1>12 DEF TextInv
----------------------------------------------------------------------------
(***************************************************************************)
(* The theorems.                                                           *)
(***************************************************************************)

LEMMA TextStep ==
  ASSUME TextInv, [Next]_vars
  PROVE  TextInv'
<1>a. ASSUME UNCHANGED <<lines, newline, wanted, lowest, upward, missed>> PROVE TextInv'
  BY <1>a DEF TextInv, Shape, Settled, Aligned, WantedLines
<1>b. ASSUME NEW code, Refuse(code) PROVE TextInv'
  BY <1>a, <1>b DEF Refuse, text, history
<1>c. Nodes \subseteq Spots /\ import_line \in Spots /\ 0 \notin Nodes
  <2>1. Source \in Seq(Line) /\ Nodes \subseteq DOMAIN Source
    BY PatchAssumption
  <2> QED BY <2>1, LenProperties DEF Spots
<1>d. \A id : resolve_line(id) /= 0 => resolve_line(id) = id /\ id \in Spots
  BY <1>c DEF resolve_line
<1>e. \A h \in Heights : Payload(h) \in Seq(Line)
  BY PayloadLines, PatchAssumption
<1>1. ASSUME NEW t \in Target, NEW a \in Target, NEW h \in Heights,
             NEW p \in {"before", "after", "absent"}, insert_node(t, p, a, h)
      PROVE  TextInv'
  <2> DEFINE where == IF p = "absent" THEN "after" ELSE p
             pos == resolve_position(where, a, resolve_line(t))
  <2>1. CASE resolve_line(t) = 0
    BY <1>1, <1>b, <2>1 DEF insert_node
  <2>2. CASE resolve_line(t) /= 0
    <3>1. Insert(pos.line, pos.position, Payload(h))
      BY <1>1, <2>2 DEF insert_node
    <3>2. where \in {"before", "after"}
      BY <1>1
    <3> HIDE DEF where
    <3>3. pos.position \in {"before", "after"} /\ pos.line \in Spots
      <4>1. CASE a = Absent
        BY <1>d, <2>2, <3>2, <4>1 DEF resolve_position
      <4>2. CASE a /= Absent /\ resolve_line(a) /= 0
        BY <1>d, <2>2, <3>2, <4>2 DEF resolve_position
      <4>3. CASE a /= Absent /\ resolve_line(a) = 0
        BY <1>d, <2>2, <3>2, <4>3 DEF resolve_position
      <4> QED BY <4>1, <4>2, <4>3
    <3> HIDE DEF pos
    <3> QED BY <1>e, <3>1, <3>3, InsertEdit
  <2> QED BY <2>1, <2>2
<1>2. ASSUME NEW t \in Target, NEW h \in Heights, insert_after(t, h) PROVE TextInv'
  <2>1. CASE resolve_line(t) = 0
    BY <1>2, <1>b, <2>1 DEF insert_after
  <2>2. CASE resolve_line(t) /= 0
    BY <1>2, <1>d, <1>e, <2>2, InsertEdit DEF insert_after
  <2> QED BY <2>1, <2>2
<1>3. ASSUME NEW op, NEW t \in Target, NEW h \in Heights, NEW given \in BOOLEAN,
             replace_node(op, t, h, given)
      PROVE  TextInv'
  <2>1. CASE resolve_line(t) = 0
    BY <1>3, <1>b, <2>1 DEF replace_node
  <2>2. CASE resolve_line(t) /= 0
    <3>1. Rewrite(t, replace_line(t, Payload(h)), Payload(h)) /\ t \in Spots
      BY <1>3, <1>d, <2>2 DEF replace_node
    <3>2. replace_line(t, Payload(h))
            = IF t <= Len(lines) THEN Splice(lines, t - 1, 1, Payload(h)) ELSE lines \o Payload(h)
      BY DEF replace_line
    <3> QED BY <1>e, <3>1, <3>2, ReplaceEdit
  <2> QED BY <2>1, <2>2
<1>4. ASSUME NEW t \in Target, delete_node(t) PROVE TextInv'
  <2>1. CASE resolve_line(t) = 0
    BY <1>4, <1>b, <2>1 DEF delete_node
  <2>2. CASE resolve_line(t) /= 0
    <3>1. Rewrite(t, delete_line(t), <<>>) /\ t \in Spots
      BY <1>4, <1>d, <2>2 DEF delete_node
    <3>2. <<>> \in Seq(Line) /\ lines \in Seq(Line)
      BY DEF TextInv, Shape
    <3>3. lines \o <<>> = lines
      BY <3>2, ConcatEmptySeq
    <3>4. delete_line(t) = IF t <= Len(lines) THEN Splice(lines, t - 1, 1, <<>>) ELSE lines \o <<>>
      BY <3>3 DEF delete_line
    <3> QED BY <3>1, <3>2, <3>4, ReplaceEdit
  <2> QED BY <2>1, <2>2
<1>5. ASSUME NEW h \in Heights, NEW given \in BOOLEAN, add_import(h, given) PROVE TextInv'
  BY <1>5, <1>c, <1>e, InsertEdit DEF add_import
<1>6. ASSUME NEW from \in Identifiers, NEW to \in Identifiers, NEW given \in BOOLEAN,
             rename_symbol(from, to, given)
      PROVE  TextInv'
  <2>1. CASE from = "" \/ to = ""
    BY <1>6, <1>b, <2>1 DEF rename_symbol
  <2>2. CASE from /= "" /\ to /= ""
    <3>1. from \in Names /\ to \in Names
      BY PatchAssumption
    <3>2. Edit(rename_identifier(from, to), WantedNames(from, to)) /\ UNCHANGED <<lowest, upward, missed>>
      BY <1>6, <2>2 DEF rename_symbol
    <3> QED BY <2>2, <3>1, <3>2, RenameEdit
  <2> QED BY <2>1, <2>2
<1>7. ASSUME NEW op, NEW t \in Target, NEW given \in BOOLEAN, insert_match_arm(op, t, given)
      PROVE  TextInv'
  <2>1. CASE resolve_line(t) = 0
    BY <1>7, <1>b, <2>1 DEF insert_match_arm
  <2>2. CASE resolve_line(t) /= 0
    BY <1>7, <1>d, <2>2, PayloadLines, InsertEdit DEF insert_match_arm
  <2> QED BY <2>1, <2>2
<1>8. ASSUME NEW op, NEW missing, unsupported(op, missing) PROVE TextInv'
  BY <1>8, <1>b DEF unsupported
<1>9. ASSUME NEW code, malformed(code) PROVE TextInv'
  BY <1>9, <1>b DEF malformed
<1>10. ASSUME NEW code, bad_document(code) PROVE TextInv'
  BY <1>10, <1>a DEF bad_document, text, history
<1>11. CASE finish
  BY <1>11, <1>a DEF finish, text, history
<1>12. CASE UNCHANGED vars
  BY <1>12, <1>a DEF vars, text, history
<1> QED BY <1>1, <1>2, <1>3, <1>4, <1>5, <1>6, <1>7, <1>8, <1>9, <1>10, <1>11, <1>12 DEF Next

LEMMA TextInit ==
  ASSUME Init
  PROVE  TextInv
<1>1. Source \in Seq(Line) /\ Len(Source) \in Nat /\ DOMAIN Source = 1..Len(Source)
      /\ \A i \in 1..Len(Source) : Source[i] \in Line
  BY PatchAssumption, LenProperties, ElementOfSeq
<1>2. wanted = [i \in 1..Len(Source) |-> [node |-> i, line |-> Source[i]]]
  BY <1>1 DEF Init
<1>3. \A i \in 1..Len(Source) : [node |-> i, line |-> Source[i]] \in Marked
  BY <1>1 DEF Marked
<1>4. wanted \in Seq(Marked) /\ Len(wanted) = Len(Source) /\ DOMAIN wanted = 1..Len(Source)
  BY <1>1, <1>2, <1>3
<1>5. /\ lines = Source /\ newline \in BOOLEAN /\ lowest = Len(Source) + 1 /\ upward = TRUE
      /\ missed = FALSE
  BY PatchAssumption DEF Init
<1>6. Shape
  <2>1. lines \in Seq(Line) /\ newline \in BOOLEAN /\ lowest \in Nat
    BY <1>1, <1>5
  <2>2. upward \in BOOLEAN /\ missed \in BOOLEAN
    BY <1>5, Zenon
  <2> QED BY <1>4, <2>1, <2>2, Zenon DEF Shape
<1>7. WantedLines = [i \in 1..Len(Source) |-> Source[i]]
  BY <1>2, <1>4 DEF WantedLines
<1>8. WantedLines = Source
  BY <1>1, <1>7
<1>9. Settled(lines, newline)
  <2>1. rejoin(lines, newline) = [lines |-> lines, newline |-> newline]
    BY DEF Init
  <2>2. lines \in Seq(Line) /\ rejoin(lines, newline).lines = lines
        /\ rejoin(lines, newline).newline = newline
    BY <1>1, <1>5, <2>1
  <2> QED BY <1>5, <2>2, RejoinLines
<1>10. Aligned
  BY <1>1, <1>2, <1>4, <1>5, <1>8 DEF Aligned
<1> QED BY <1>6, <1>9, <1>10 DEF TextInv

LEMMA TextIsExact ==
  ASSUME TextInv
  PROVE  BottomUpIsExact
<1> SUFFICES ASSUME upward, ~missed PROVE SameText(lines, WantedLines)
  BY DEF BottomUpIsExact
<1>1. DOMAIN lines \cup DOMAIN WantedLines \subseteq Positive
  BY LenProperties, WantedTypes DEF TextInv, Shape, Positive
<1> QED BY <1>1 DEF SameText, TextInv, Aligned

\* A patch whose edits go strictly upwards through the file does what it would do
\* to the nodes themselves, blank lines included, whatever it mixes and however
\* long it is. The line numbers apply_patch resolves once, before the first edit,
\* are then still right. The one exception is what is to go below a blank line
\* that the patch left last in a file without a final newline.
THEOREM UpwardEditsAreExact == Spec => []BottomUpIsExact
<1>1. Init => TextInv
  BY TextInit
<1>2. TextInv /\ [Next]_vars => TextInv'
  BY TextStep
<1>3. TextInv => BottomUpIsExact
  BY TextIsExact
<1> QED BY <1>1, <1>2, <1>3, PTL DEF Spec

\* What finish returns.
Returned ==
  report /= NoReport /\ codes \subseteq {"P1010"} /\ applied > 0
    => report.applied /\ report.after = lines

\* The counters only run while there is no report.
Counted ==
  /\ attempted \in Nat /\ applied \in Nat /\ applied <= attempted
  /\ codes = {} => applied = attempted
  /\ Returned

LEMMA CountStep ==
  ASSUME Counted, [Next]_vars
  PROVE  Counted'
<1>b. ASSUME NEW code, Refuse(code) PROVE Counted'
  <2>1. /\ attempted' = attempted + 1 /\ applied' = applied /\ codes' /= {} /\ report' = NoReport
    BY <1>b DEF Refuse, Attempt
  <2> QED BY <2>1 DEF Counted, Returned
<1>c. ASSUME NEW edited, NEW new_wanted, Edit(edited, new_wanted) PROVE Counted'
  <2>1. /\ attempted' = attempted + 1 /\ applied' = applied + 1 /\ codes' = codes
        /\ report' = NoReport
    BY <1>c DEF Edit, Attempt
  <2> QED BY <2>1 DEF Counted, Returned
<1>d. ASSUME NEW line, NEW position, NEW p, Insert(line, position, p) PROVE Counted'
  BY <1>c, <1>d DEF Insert
<1>e. ASSUME NEW line, NEW edited, NEW p, Rewrite(line, edited, p) PROVE Counted'
  BY <1>c, <1>e DEF Rewrite
<1>1. ASSUME NEW t, NEW a, NEW h, NEW p, insert_node(t, p, a, h) PROVE Counted'
  BY <1>1, <1>b, <1>d DEF insert_node
<1>2. ASSUME NEW t, NEW h, insert_after(t, h) PROVE Counted'
  BY <1>2, <1>b, <1>d DEF insert_after
<1>3. ASSUME NEW op, NEW t, NEW h, NEW given, replace_node(op, t, h, given) PROVE Counted'
  BY <1>3, <1>b, <1>e DEF replace_node
<1>4. ASSUME NEW t, delete_node(t) PROVE Counted'
  BY <1>4, <1>b, <1>e DEF delete_node
<1>5. ASSUME NEW h, NEW given, add_import(h, given) PROVE Counted'
  BY <1>5, <1>d DEF add_import
<1>6. ASSUME NEW from, NEW to, NEW given, rename_symbol(from, to, given) PROVE Counted'
  BY <1>6, <1>b, <1>c DEF rename_symbol
<1>7. ASSUME NEW op, NEW t, NEW given, insert_match_arm(op, t, given) PROVE Counted'
  BY <1>7, <1>b, <1>d DEF insert_match_arm
<1>8. ASSUME NEW op, NEW missing, unsupported(op, missing) PROVE Counted'
  BY <1>8, <1>b DEF unsupported
<1>9. ASSUME NEW code, malformed(code) PROVE Counted'
  BY <1>9, <1>b DEF malformed
<1>10. ASSUME NEW code, bad_document(code) PROVE Counted'
  BY <1>10 DEF bad_document, Counted, Returned
<1>11. CASE finish
  <2>1. /\ report' = [applied |-> codes \cap fatal_codes = {} /\ applied > 0,
                      after |-> IF codes \cap fatal_codes = {} /\ applied > 0
                                  THEN lines ELSE <<>>,
                      made |-> TRUE]
        /\ UNCHANGED <<lines, attempted, applied, codes>>
    BY <1>11 DEF finish, text
  <2>2. ASSUME codes \subseteq {"P1010"}, applied > 0
        PROVE  report'.applied /\ report'.after = lines
    <3>1. codes \cap fatal_codes = {}
      BY <2>2 DEF fatal_codes
    <3> QED BY <2>1, <2>2, <3>1
  <2> QED BY <2>1, <2>2 DEF Counted, Returned
<1>12. CASE UNCHANGED vars
  BY <1>12 DEF vars, text, Counted, Returned
<1> QED BY <1>1, <1>2, <1>3, <1>4, <1>5, <1>6, <1>7, <1>8, <1>9, <1>10, <1>11, <1>12 DEF Next

\* A stale target costs its own operation only and leaves no trace: the report
\* returns the text with all the others applied, and the nodes below are where the
\* reference has them. No operation is dropped in silence.
THEOREM StaleTargetsAreSkipped == Spec => []PartialApply
<1>1. Init => Counted /\ TextInv
  <2>1. Init => Counted
    BY DEF Init, Counted, Returned
  <2> QED BY <2>1, TextInit
<1>2. Counted /\ TextInv => PartialApply
  BY TextIsExact DEF Counted, Returned, PartialApply, BottomUpIsExact
<1>3. Counted /\ TextInv /\ [Next]_vars => Counted' /\ TextInv'
  BY CountStep, TextStep
<1> QED BY <1>1, <1>2, <1>3, PTL DEF Spec

\* No edit, however it splits and joins the text, takes away the newline at the
\* end of the file.
THEOREM FinalNewlineStays == Spec => NewlineIsKept
<1>a. ASSUME newline, NEW edited, NEW new_wanted, Edit(edited, new_wanted) PROVE newline'
  BY <1>a DEF Edit, rejoin
<1>b. ASSUME newline, UNCHANGED newline PROVE newline'
  BY <1>b
<1>1. ASSUME newline, Next PROVE newline'
  BY <1>1, <1>a, <1>b, ZenonT(40)
  DEF Next, insert_node, insert_after, replace_node, delete_node, add_import, rename_symbol,
      insert_match_arm, unsupported, malformed, bad_document, finish, Insert, Rewrite, Refuse,
      text
<1>2. [Next]_vars => [newline => newline']_newline
  BY <1>1 DEF vars, text
<1> QED BY <1>2, PTL DEF Spec, NewlineIsKept
============================================================================
