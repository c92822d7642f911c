----------------------------- MODULE Exhaustive -----------------------------
(***************************************************************************)
(* Match exhaustiveness, crates/ori-compiler/src/exhaustive.rs: how the    *)
(* variants of a module are discovered in its tokens, and what is reported *)
(* of a match. A token is <<kind, lexeme, line>>; upper-case names are the *)
(* members of Upper_. A pattern is a tuple whose first element names its   *)
(* shape.                                                                  *)
(***************************************************************************)
EXTENDS Integers, Sequences, FiniteSetsExt

LOCAL INSTANCE SequencesExt
LOCAL INSTANCE TLC

Upper_ == {"A", "B", "C", "D"}
ItemKeywords == {"fn", "type", "service", "view", "actor", "query", "migration", "capability",
                 "module", "import", "protocol", "impl"}
is_item_kw(token) == token[1] = "keyword" /\ token[2] \in ItemKeywords
IsSymbol(ts, i, s) == i <= Len(ts) /\ ts[i][1] = "symbol" /\ ts[i][2] = s

\* The position after the bracket that closes the one before i, or the end.
RECURSIVE after_close(_, _, _, _, _)
after_close(ts, i, open, close, depth) ==
  IF i > Len(ts) \/ depth = 0 THEN i
  ELSE after_close(ts, i + 1, open, close,
                   depth + (IF IsSymbol(ts, i, open) THEN 1 ELSE IF IsSymbol(ts, i, close) THEN -1 ELSE 0))

\* The constructors from position i on: a name after a bar, its payload skipped. A
\* brace gives the declaration up, an item keyword ends it.
RECURSIVE constructors(_, _, _, _)
constructors(ts, i, bar, found) ==
  CASE i > Len(ts) -> <<found, i>>
    [] i <= Len(ts) /\ is_item_kw(ts[i]) -> <<found, i>>
    [] IsSymbol(ts, i, "|") -> constructors(ts, i + 1, TRUE, found)
    [] i <= Len(ts) /\ ts[i][1] = "ident" /\ bar ->
         constructors(ts, IF IsSymbol(ts, i + 1, "(") THEN after_close(ts, i + 2, "(", ")", 1) ELSE i + 1,
                      FALSE, IF ts[i][2] \in Upper_ THEN Append(found, ts[i][2]) ELSE found)
    [] IsSymbol(ts, i, "{") -> <<<<>>, i>>
    [] OTHER -> constructors(ts, i + 1, bar, found)

\* parse_variant_decl_from_tokens: <<name, constructors, where to go on>>.
parse_variant_decl(ts, start) ==
  LET generics == IsSymbol(ts, start + 2, "[")
      eq == IF generics THEN after_close(ts, start + 3, "[", "]", 1) ELSE start + 2
      c == constructors(ts, eq + 1, FALSE, <<>>)
  IN  IF start + 1 > Len(ts) \/ ts[start + 1][1] /= "ident" \/ ~IsSymbol(ts, eq, "=") \/ c[1] = <<>>
      THEN <<>> ELSE <<ts[start + 1][2], c[1], c[2]>>

RECURSIVE collect_variants(_, _, _)
collect_variants(ts, i, variants) ==
  IF i > Len(ts) THEN variants
  ELSE LET d == IF ts[i][1] = "keyword" /\ ts[i][2] = "type" THEN parse_variant_decl(ts, i) ELSE <<>>
       IN  IF d = <<>> THEN collect_variants(ts, i + 1, variants)
           ELSE collect_variants(ts, d[3], (d[1] :> d[2]) @@ variants)

\* The view a signature gives: what stands between bars on its one line, payloads
\* included, so a bar in a payload is taken for one between constructors.
parse_variant_arms(segments) == SelectSeq(segments, LAMBDA s : s \in Upper_)

\* What is known of the variants when the source is at hand supersedes the signatures.
check_module_matches_with_source(of_signatures, ts) ==
  collect_variants(ts, 1, <<>>) @@ of_signatures
----------------------------------------------------------------------------
\* ctor_to_variant: the variants that declare a constructor; more than one is no
\* answer.
owners(variants, ctor) == {v \in DOMAIN variants : ctor \in Range(variants[v])}

Irrefutable(pattern) == pattern[1] \in {"Wildcard", "Binding"}
Seen(arms) == {arms[i][2] : i \in {j \in DOMAIN arms : arms[j][1] = "Constructor"}}

\* Mutant: a constructor that two variants declare belongs to either.
resolve_variant_mutant(arms, variants) ==
  LET found == UNION {owners(variants, c) : c \in Seen(arms)}
  IN  IF found = {} THEN "none" ELSE CHOOSE v \in found : TRUE

\* The one variant every constructor of the arms belongs to, or none.
resolve_variant(arms, variants) ==
  LET found == {owners(variants, c) : c \in Seen(arms)}
  IN  IF Cardinality(found) = 1 /\ \A o \in found : Cardinality(o) = 1
      THEN CHOOSE v \in UNION found : TRUE ELSE "none"

\* check_match: the constructors missing (E0540) and seen twice (W0541) and the
\* positions of the arms no value reaches (W0542).
check_match(arms, variants) ==
  LET wild == {i \in DOMAIN arms : Irrefutable(arms[i])}
      variant == resolve_variant(arms, variants)
  IN  [E0540 |-> IF variant = "none" \/ wild /= {} THEN {} ELSE Range(variants[variant]) \ Seen(arms),
       W0541 |-> {c \in Seen(arms) :
                    Cardinality({i \in DOMAIN arms : arms[i][1] = "Constructor" /\ arms[i][2] = c}) > 1},
       W0542 |-> IF wild = {} THEN {} ELSE (Min(wild) + 1)..Len(arms)]

\* The arms of every match in an expression, which walk_expr checks inside out: the
\* shapes with parts, each with where its parts are.
RECURSIVE matches_in(_)
matches_in(e) ==
  LET All(s) == FlattenSeq([i \in DOMAIN s |-> matches_in(s[i])])
      Opt(x) == IF x = <<>> THEN <<>> ELSE matches_in(x)
  IN  CASE e[1] = "Match" -> matches_in(e[2]) \o All([i \in DOMAIN e[3] |-> e[3][i][2]])
                             \o <<[i \in DOMAIN e[3] |-> e[3][i][1]]>>
        [] e[1] = "If" -> matches_in(e[2]) \o matches_in(e[3]) \o Opt(e[4])
        [] e[1] = "Block" -> FlattenSeq([i \in DOMAIN e[2] |-> Opt(e[2][i][2])]) \o Opt(e[3])
        [] e[1] = "Call" -> matches_in(e[2]) \o All(e[3])
        [] e[1] \in {"Field", "Try", "Return", "Unary"} -> Opt(e[2])
        [] e[1] = "Construct" -> All(e[3])
        [] e[1] \in {"Tuple", "InterpString"} -> All(e[2])
        [] e[1] = "Record" -> All([i \in DOMAIN e[2] |-> e[2][i][2]])
        [] e[1] = "Lambda" -> matches_in(e[3])
        [] e[1] = "Binary" -> matches_in(e[3]) \o matches_in(e[4])
        [] OTHER -> <<>>

walk_expr(e, variants) ==
  LET found == matches_in(e) IN [i \in DOMAIN found |-> check_match(found[i], variants)]
----------------------------------------------------------------------------
\* The values of a variant, a constructor with a payload of 0 or 1, and the arms that
\* take one: the meaning the reports are measured against.
Values(ctors) == {<<c, p>> : c \in Range(ctors), p \in {0, 1}}
Takes(arm, value) ==
  \/ Irrefutable(arm)
  \/ arm[1] = "Constructor" /\ arm[2] = value[1]
     /\ (arm[3] = <<>> \/ \A i \in DOMAIN arm[3] : Irrefutable(arm[3][i]) \/ arm[3][i][2] = value[2])
Taken(arms, value) == {i \in DOMAIN arms : Takes(arms[i], value)}

\* The arm takes no value that the ones before it leave.
Useless(arms, i, values) == \A v \in values : Taken(arms, v) = {} \/ Min(Taken(arms, v)) /= i

\* E0540: a match whose constructors all belong to one variant and take any payload is
\* reported exactly for the constructors some value of which falls through all of its
\* arms, and whatever is reported as missing is missing in every variant the arms may be
\* about. W0541 and W0542: a constructor arm that takes nothing new is reported, by one
\* or the other, and an arm that is reported takes nothing new; only of a constructor
\* written twice with different payloads may both arms be of use. Of catch-all arms the
\* ones after a catch-all are reported, not one that all constructors come before.
ReportsAreExact(arms, variants) ==
  LET r == check_match(arms, variants)
      plain == \A i \in DOMAIN arms : arms[i][1] = "Constructor" =>
                 \A j \in DOMAIN arms[i][3] : Irrefutable(arms[i][3][j])
      all == UNION {Values(variants[v]) : v \in DOMAIN variants}
      known == {i \in DOMAIN arms : arms[i][1] = "Constructor" /\ owners(variants, arms[i][2]) /= {}}
      repeated == {i \in known : /\ arms[i][2] \in r.W0541
                                 /\ \E j \in 1..(i - 1) : arms[j][1] = "Constructor" /\ arms[j][2] = arms[i][2]}
      useless == {i \in known : Useless(arms, i, all)}
  IN  /\ plain =>
           \A v \in DOMAIN variants :
             (Seen(arms) /= {} /\ \A c \in Seen(arms) : owners(variants, c) = {v}) =>
               r.E0540 = {c \in Range(variants[v]) : \E p \in {0, 1} : Taken(arms, <<c, p>>) = {}}
      /\ \A v \in DOMAIN variants : Seen(arms) \subseteq Range(variants[v]) =>
           r.E0540 \subseteq {c \in Range(variants[v]) : Taken(arms, <<c, 0>>) = {}}
      /\ \A i \in r.W0542 : Useless(arms, i, all)
      /\ useless \subseteq repeated \cup r.W0542
      /\ plain => repeated \subseteq useless
=============================================================================
