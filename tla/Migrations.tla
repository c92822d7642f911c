----------------------------- MODULE Migrations -----------------------------
(***************************************************************************)
(* The order of database migrations, the shapes of queries and the plan of *)
(* an edition change: migration_graph.rs, sql_check.rs and migrate.rs of   *)
(* crates/ori-compiler/src. A signature is the sequence of its tokens. The *)
(* id of a migration is a number, which stands for its place among the     *)
(* sorted ids; <<"id", n>> names it in the signature of another, and 0 is  *)
(* no migration.                                                           *)
(***************************************************************************)
EXTENDS Integers, Sequences, FiniteSetsExt, SequencesExt

\* parse_depends_on: after `after`, the first identifier and each first one after a
\* comma; any other identifier is passed over, and so is a further `after`.
RECURSIVE parse_depends_on(_, _, _, _)
parse_depends_on(tokens, inside, expect_id, deps) ==
  IF tokens = <<>> THEN deps
  ELSE LET t == Head(tokens)
           Next_(in, expect, ds) == parse_depends_on(Tail(tokens), in, expect, ds)
       IN  CASE ~inside -> Next_(t[1] = "after", TRUE, deps)
             [] inside /\ t[1] = "," -> Next_(TRUE, TRUE, deps)
             [] inside /\ t[1] = "after" -> Next_(TRUE, FALSE, IF expect_id THEN Append(deps, 0) ELSE deps)
             [] inside /\ t[1] = "id" -> Next_(TRUE, FALSE, IF expect_id THEN Append(deps, t[2]) ELSE deps)
             [] OTHER -> Next_(FALSE, TRUE, deps)

extract_migrations(signatures) ==
  [i \in DOMAIN signatures |->
     [id |-> signatures[i].id, depends_on |-> parse_depends_on(signatures[i].tokens, FALSE, TRUE, <<>>)]]

\* The edges topological_order keeps: from a migration to one that depends on it.
Ids(migrations) == {migrations[i].id : i \in DOMAIN migrations}
DependsOn(migrations, id) ==
  UNION {Range(migrations[i].depends_on) : i \in {j \in DOMAIN migrations : migrations[j].id = id}}

\* Mutant: a dependency that is named twice is counted twice.
in_degree_mutant(migrations, id) ==
  Len(SelectSeq(FlattenSeq([i \in DOMAIN migrations |->
                              IF migrations[i].id = id THEN migrations[i].depends_on ELSE <<>>]),
                LAMBDA d : d \in Ids(migrations) \ {id}))

in_degree(migrations, id) == Cardinality((DependsOn(migrations, id) \cap Ids(migrations)) \ {id})
self_loops(migrations) == {id \in Ids(migrations) : id \in DependsOn(migrations, id)}

RECURSIVE drain_ready(_, _, _, _)
drain_ready(migrations, degree, ready, ordered) ==
  IF ready = {} THEN ordered
  ELSE LET next == Min(ready)
           children == {id \in Ids(migrations) \ {next} : next \in DependsOn(migrations, id)}
           left == [id \in DOMAIN degree |-> IF id \in children /\ degree[id] > 0 THEN degree[id] - 1 ELSE degree[id]]
       IN  drain_ready(migrations, left,
                       (ready \ {next}) \cup {id \in children : left[id] = 0 /\ id \notin self_loops(migrations)},
                       Append(ordered, next))
topological_order(migrations) ==
  LET ids == Ids(migrations)
      degree == [id \in ids |-> in_degree(migrations, id)]
      ordered == drain_ready(migrations, degree, {id \in ids : degree[id] = 0} \ self_loops(migrations), <<>>)
  IN  IF Len(ordered) = Len(migrations) /\ self_loops(migrations) = {}
      THEN <<"Ok", ordered>>
      ELSE <<"Cycle", self_loops(migrations) \cup (ids \ Range(ordered))>>

build_migration_report(migrations) ==
  LET out == topological_order(migrations)
  IN  IF out[1] = "Ok" THEN [ordered |-> out[2], cycles |-> {}] ELSE [ordered |-> <<>>, cycles |-> {out[2]}]
----------------------------------------------------------------------------
\* A result row in braces: each field a name, a colon and a type.
RECURSIVE split_columns(_, _, _, _)
split_columns(text, depth, part, parts) ==
  LET Flush(ps) == IF part = <<>> THEN ps ELSE Append(ps, part)
  IN  IF text = <<>> THEN Flush(parts)
      ELSE LET c == Head(text)
               step == IF c \in {"[", "(", "{"} THEN 1 ELSE IF c \in {"]", ")", "}"} THEN -1 ELSE 0
           IN  IF c = "," /\ depth = 0 THEN split_columns(Tail(text), depth, <<>>, Flush(parts))
               ELSE split_columns(Tail(text), depth + step, Append(part, c), parts)
is_ident(s) == Len(s) = 1 /\ s[1] \notin {"[", "]", "(", ")", "{", "}", ",", ":", "->", "1"}
parse_field(field) ==
  LET colon == SelectInSeq(field, LAMBDA x : x = ":")
      name == SubSeq(field, 1, colon - 1)
      ty == SubSeq(field, colon + 1, Len(field))
  IN  IF colon = 0 \/ ~is_ident(name) \/ ty = <<>> THEN <<>> ELSE <<[name |-> name[1], ty |-> ty]>>
\* The columns, or "none" where no shape can be read.
extract_query_shape(signature) ==
  LET arrow == SelectInSeq(signature, LAMBDA x : x = "->")
      result == SubSeq(signature, arrow + 1, Len(signature))
      open == SelectInSeq(result, LAMBDA x : x = "{")
      rest == SubSeq(result, open + 1, Len(result))
      close == SelectLastInSeq(rest, LAMBDA x : x = "}")
      fields == split_columns(SubSeq(rest, 1, close - 1), 0, <<>>, <<>>)
      columns == [i \in DOMAIN fields |-> parse_field(fields[i])]
  IN  IF arrow = 0 \/ open = 0 \/ close = 0 THEN <<"none">>
      ELSE IF \E i \in DOMAIN columns : columns[i] = <<>> THEN <<"none">>
      ELSE <<"shape", FlattenSeq(columns)>>
render_shape(columns) ==
  LET Column(i) == (IF i > 1 THEN <<",">> ELSE <<>>) \o <<columns[i].name, ":">> \o columns[i].ty
  IN  <<"{">> \o FlattenSeq([i \in DOMAIN columns |-> Column(i)]) \o <<"}">>

PERMITTED_GENERICS == {"Option", "Result", "List", "Pair", "Fn", "Iter", "Query", "Map", "Set"}
strip_generic_head(ty) == Head(ty)
\* check_module_queries: the type of a column that nobody declares, Q0010, and each
\* shape that is not the first one's of its name, Q0020.
check_module_queries(queries, known) ==
  LET shape(i) == extract_query_shape(queries[i].signature)
      shaped == {i \in DOMAIN queries : shape(i)[1] = "shape"}
      first(i) == Min({j \in shaped : queries[j].name = queries[i].name})
  IN  {<<"Q0010", i>> : i \in {j \in shaped : \E c \in Range(shape(j)[2]) :
                                 strip_generic_head(c.ty) \notin PERMITTED_GENERICS \cup known}}
      \cup {<<"Q0020", i>> : i \in {j \in shaped : shape(j) /= shape(first(j))}}
----------------------------------------------------------------------------
\* plan_migration: what each module has of the old edition.
plan_2027_1_to_2028_1(modules) ==
  LET at(i) == modules[i]
  IN  {<<"rename_module", i, "mod">> : i \in {j \in DOMAIN modules : at(j).name = "app.service"}}
      \cup {<<"rename_module", i, "import">> : i \in {j \in DOMAIN modules : "app.service" \in at(j).imports}}
      \cup UNION {{<<"deprecate_effect", i, s>> : s \in {x \in DOMAIN at(i).symbols : "fs" \in at(i).symbols[x]}} :
                    i \in DOMAIN modules}
plan_migration(modules, from_edition, to_edition) ==
  CASE from_edition = to_edition -> {}
    [] from_edition = "2027.1" /\ to_edition = "2028.1" -> plan_2027_1_to_2028_1(modules)
    [] OTHER -> {<<"unsupported_edition", from_edition, to_edition>>}
----------------------------------------------------------------------------
\* The migrations that depend on themselves, through others too.
RECURSIVE Closure(_, _)
Closure(migrations, ids) ==
  LET more == ids \cup (UNION {DependsOn(migrations, id) : id \in ids})
  IN  IF more = ids THEN ids ELSE Closure(migrations, more)
OnACycle(migrations) == {id \in Ids(migrations) : id \in Closure(migrations, DependsOn(migrations, id))}

\* Every migration once and after the known ones it depends on, each the smallest that
\* could come next; refused only where something depends on itself, and what is
\* listed then is on a cycle or behind one.
OrderIsExact(migrations) ==
  LET out == topological_order(migrations)
      before(i) == {out[2][j] : j \in 1..(i - 1)}
      free(i) == {id \in Ids(migrations) \ before(i) : DependsOn(migrations, id) \cap Ids(migrations) \subseteq before(i)}
  IN  /\ out[1] = "Ok" <=> OnACycle(migrations) = {}
      /\ out[1] = "Ok" => /\ Range(out[2]) = Ids(migrations)
                          /\ \A i \in DOMAIN out[2] : out[2][i] = Min(free(i))
      /\ out[1] = "Cycle" =>
           /\ OnACycle(migrations) \subseteq out[2]
           /\ \A id \in out[2] \ OnACycle(migrations) : DependsOn(migrations, id) \cap out[2] /= {}

\* A shape that is written out is read back, and where no Q0020 is reported all the
\* shapes of one name are the same.
ShapesAgree(columns, queries) ==
  LET shape(i) == extract_query_shape(queries[i].signature)
  IN  /\ extract_query_shape(<<"query", "->">> \o render_shape(columns)) = <<"shape", columns>>
      /\ {r \in check_module_queries(queries, {"T"}) : r[1] = "Q0020"} = {} =>
           \A i, j \in DOMAIN queries :
             queries[i].name = queries[j].name /\ shape(i)[1] = "shape" /\ shape(j)[1] = "shape" => shape(i) = shape(j)

\* Once every candidate is applied nothing is left to plan.
Migrated(modules) ==
  [i \in DOMAIN modules |->
     LET plan == plan_migration(modules, "2027.1", "2028.1")
         m == modules[i]
     IN  [name |-> IF <<"rename_module", i, "mod">> \in plan THEN "app.services" ELSE m.name,
          imports |-> IF <<"rename_module", i, "import">> \in plan
                      THEN (m.imports \ {"app.service"}) \cup {"app.services"} ELSE m.imports,
          symbols |-> [s \in DOMAIN m.symbols |->
                         IF <<"deprecate_effect", i, s>> \in plan
                         THEN (m.symbols[s] \ {"fs"}) \cup {"fs.read", "fs.write"} ELSE m.symbols[s]]]]
PlanIsComplete(modules) == plan_migration(Migrated(modules), "2027.1", "2028.1") = {}
=============================================================================
