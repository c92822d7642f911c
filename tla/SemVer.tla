------------------------------- MODULE SemVer -------------------------------
(***************************************************************************)
(* Versions and constraints of crates/ori-pkg/src/version.rs.              *)
(*                                                                         *)
(* A text is split at its dots already. A token is a run of characters     *)
(* between two of them: "num" is a decimal number, "zeros" one with a      *)
(* leading zero, "huge" one that fits in no machine word, "word" has a     *)
(* letter or a hyphen, "bad" is empty (rank 0) or has another character.   *)
(* The rank of a num is its value, that of a huge or a word its place in   *)
(* the order of strings, where digits come before letters.                 *)
(***************************************************************************)
EXTENDS Integers, Sequences

CONSTANT MaxU32   \* u32::MAX

ASSUME SemVerAssumption == MaxU32 \in Nat \ {0}

NoSuffix == << <<"none", 0>> >>
num(n) == <<"num", n>>
fits(token) == token[1] = "num" /\ token[2] <= MaxU32

\* parse_numeric: "" is no error.
parse_numeric(token) ==
  CASE fits(token) -> ""
    [] token[1] \in {"num", "huge"} -> "NumericOverflow"
    [] OTHER -> "BadNumeric"

\* validate_prerelease and validate_build differ in the leading zeros of numbers.
prerelease_ok(pre) == \A i \in DOMAIN pre : pre[i][1] \in {"num", "huge", "word"}
build_ok(build) == \A i \in DOMAIN build : build[i][1] /= "bad"

FirstError(errors) ==
  IF \A i \in DOMAIN errors : errors[i] = "" THEN ""
  ELSE errors[CHOOSE i \in DOMAIN errors :
                /\ errors[i] /= ""
                /\ \A j \in 1..(i - 1) : errors[j] = ""]

\* The error of a text, "" for none. A text is [core, pre, build].
version_error(text) ==
  IF text.core = <<>> THEN "Empty"
  ELSE IF Len(text.core) /= 3 THEN "BadCore"
  ELSE FirstError(<<parse_numeric(text.core[1]), parse_numeric(text.core[2]),
                    parse_numeric(text.core[3]),
                    IF text.pre = NoSuffix \/ prerelease_ok(text.pre) THEN ""
                      ELSE "BadPrerelease",
                    IF text.build = NoSuffix \/ build_ok(text.build) THEN ""
                      ELSE "BadBuildMetadata">>)

\* The version of a text without an error; build metadata takes no part in Eq,
\* Ord and Hash.
parse_version(text) ==
  [major |-> text.core[1][2], minor |-> text.core[2][2], patch |-> text.core[3][2],
   pre |-> text.pre]

Sign(n) == IF n < 0 THEN -1 ELSE IF n > 0 THEN 1 ELSE 0

\* Two identifiers: numbers by value, before everything else.
cmp_identifier(x, y) ==
  CASE x[1] = "num" /\ y[1] = "num" -> Sign(x[2] - y[2])
    [] x[1] = "num" /\ y[1] /= "num" -> -1
    [] x[1] /= "num" /\ y[1] = "num" -> 1
    [] OTHER -> Sign(x[2] - y[2])

\* The first pair of identifiers that differ decides, then the longer list.
compare_prerelease(a, b) ==
  LET Differ == {i \in (DOMAIN a) \cap (DOMAIN b) : cmp_identifier(a[i], b[i]) /= 0}
  IN  IF Differ = {} THEN Sign(Len(a) - Len(b))
      ELSE LET i == CHOOSE i \in Differ : \A j \in Differ : i <= j
           IN  cmp_identifier(a[i], b[i])

cmp(v, w) ==
  IF v.major /= w.major THEN Sign(v.major - w.major)
  ELSE IF v.minor /= w.minor THEN Sign(v.minor - w.minor)
  ELSE IF v.patch /= w.patch THEN Sign(v.patch - w.patch)
  ELSE IF v.pre = NoSuffix \/ w.pre = NoSuffix
    THEN (IF v.pre = NoSuffix THEN 1 ELSE 0) - (IF w.pre = NoSuffix THEN 1 ELSE 0)
  ELSE compare_prerelease(v.pre, w.pre)

AtLeast(v, w) == cmp(v, w) >= 0
Before(v, w) == cmp(v, w) < 0
----------------------------------------------------------------------------
\* A release build wraps at u32::MAX; a debug build stops there.
bump(n) == (n + 1) % (MaxU32 + 1)
release(x, y, z) == [major |-> x, minor |-> y, patch |-> z, pre |-> NoSuffix]

\* Mutant: 0.y.z is treated as 0.0.z is.
caret_upper_bound_mutant(v) ==
  IF v.major > 0 THEN release(bump(v.major), 0, 0)
  ELSE release(0, v.minor, bump(v.patch))

caret_upper_bound(v) ==
  CASE v.major > 0 -> release(bump(v.major), 0, 0)
    [] v.major = 0 /\ v.minor > 0 -> release(0, bump(v.minor), 0)
    [] OTHER -> release(0, 0, bump(v.patch))

tilde_upper_bound(v) == release(v.major, bump(v.minor), 0)

\* A constraint is [kind, low, high]; high counts only in a range.
satisfies(v, c) ==
  CASE c.kind = "any" -> TRUE
    [] c.kind = "exact" -> v = c.low
    [] c.kind = "greater_eq" -> AtLeast(v, c.low)
    [] c.kind = "less_than" -> Before(v, c.low)
    [] c.kind = "caret" -> AtLeast(v, c.low) /\ Before(v, caret_upper_bound(c.low))
    [] c.kind = "tilde" -> AtLeast(v, c.low) /\ Before(v, tilde_upper_bound(c.low))
    [] c.kind = "range" -> AtLeast(v, c.low) /\ Before(v, c.high)

\* The error of a version text that has a comma and another version in its last
\* part: five parts in its core, or a comma in its suffix.
swallows_comma(low) ==
  CASE low.build /= NoSuffix ->
         FirstError(<<version_error([low EXCEPT !.build = NoSuffix]), "BadBuildMetadata">>)
    [] low.build = NoSuffix /\ low.pre /= NoSuffix ->
         FirstError(<<version_error([low EXCEPT !.pre = NoSuffix]), "BadPrerelease">>)
    [] OTHER -> "BadCore"

\* A constraint text is [op, low, comma, high]: the operator ("*" stands alone),
\* the version text after it, and, after a comma, "<" or something else with a
\* second text.
constraint_error(t) ==
  CASE t.op \in {"", "*"} /\ t.low.core = <<>> -> ""
    [] t.op = ">" -> "BadOperator"
    [] t.op = ">=" /\ t.comma /= "none" ->
         FirstError(<<version_error(t.low),
                      IF t.comma = "<" THEN version_error(t.high) ELSE "BadRange">>)
    [] t.op /= ">=" /\ t.comma /= "none" -> swallows_comma(t.low)
    [] OTHER -> version_error(t.low)

\* The constraint of a text without an error.
parse_constraint(t) ==
  [kind |-> CASE t.op \in {"", "*"} /\ t.low.core = <<>> -> "any"
              [] t.op = "^" -> "caret" [] t.op = "~" -> "tilde"
              [] t.op = ">=" /\ t.comma = "<" -> "range"
              [] t.op = ">=" /\ t.comma = "none" -> "greater_eq"
              [] t.op = "<" -> "less_than"
              [] OTHER -> "exact",
   low |-> IF t.low.core = <<>> THEN release(0, 0, 0) ELSE parse_version(t.low),
   high |-> IF t.comma = "<" THEN parse_version(t.high) ELSE release(0, 0, 0)]
----------------------------------------------------------------------------
\* cmp is a total order that agrees with Eq: antisymmetric, transitive, and equal
\* only for equal versions. BTreeSet and sort in the solver rely on it.
OrderIsTotal(versions) ==
  \A v, w \in versions :
    /\ cmp(v, w) = -cmp(w, v)
    /\ cmp(v, w) = 0 <=> v = w
    /\ \A u \in versions : Before(u, v) /\ Before(v, w) => Before(u, w)

\* "lock the left-most non-zero element": the number of elements up to it, which a
\* release inside ^low shares with low.
Locked(v) ==
  CASE v.major > 0 -> 1
    [] v.major = 0 /\ v.minor > 0 -> 2
    [] OTHER -> 3
Elements(v) == <<v.major, v.minor, v.patch>>
Share(v, w, n) == \A i \in 1..n : Elements(v)[i] = Elements(w)[i]

\* ^low accepts exactly the releases from low on that share its locked elements,
\* and ~low those that share major and minor. Where the last of these is u32::MAX
\* the bound wraps below low: they accept nothing, not even low.
RangesLock(low, v) ==
  v.pre = NoSuffix =>
    /\ satisfies(v, [kind |-> "caret", low |-> low, high |-> low])
         <=> AtLeast(v, low) /\ Share(v, low, Locked(low)) /\ Elements(low)[Locked(low)] < MaxU32
    /\ satisfies(v, [kind |-> "tilde", low |-> low, high |-> low])
         <=> AtLeast(v, low) /\ Share(v, low, 2) /\ low.minor < MaxU32
=============================================================================
