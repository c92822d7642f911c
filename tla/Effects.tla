------------------------------ MODULE Effects ------------------------------
(***************************************************************************)
(* Effects, crates/ori-compiler/src/effects.rs, effect_check.rs and        *)
(* effect_propagate.rs. A module is the sequence of its symbols, records   *)
(* of an id (a number, in the order of the ids' texts), a name, a kind,    *)
(* the sequence of the effects it declares and its signature; the parsed   *)
(* bodies are a function on ids. A signature is the sequence of its        *)
(* tokens, a dotted effect being one: the spaces between tokens are those  *)
(* compact_signature writes. Spans, wording and schemas are left out.      *)
(***************************************************************************)
EXTENDS ExprTree

KNOWN_EFFECTS ==
  <<"fs.read", "fs.write", "net.inbound", "net.outbound", "db.read", "db.write", "env.read", "process.spawn", "crypto",
    "time", "random", "ui", "gpu", "unsafe", "http", "db", "fs", "net", "auth", "mail.send">>

\* The names that begin with an upper-case letter, among those the model uses.
Capabilities == {"Mailer"}
is_known_effect_or_capability(eff) == eff \in Range(KNOWN_EFFECTS) \cup Capabilities

\* Every name of an effect the model uses, in the order of a BTreeSet.
Alphabetical ==
  <<"Mailer", "auth", "crypto", "db", "db.read", "db.write", "env.read", "fs", "fs.read", "fs.write", "gpu", "http",
    "mail.send", "net", "net.inbound", "net.outbound", "odd", "process.spawn", "random", "time", "ui", "unsafe">>
Sorted(effects) == SelectSeq(Alphabetical, LAMBDA eff : eff \in effects)
SortedIds(ids) == SetToSortSeq(ids, <)
----------------------------------------------------------------------------
\* build_capability_manifest: who uses what, and how it differs from the policy, which
\* is reported as it is written, twice named effects twice.
build_capability_manifest(symbols, declared_policy) ==
  LET used == UNION {Range(symbols[i].effects) : i \in DOMAIN symbols}
      Users(eff) == {symbols[i].id : i \in {j \in DOMAIN symbols : eff \in Range(symbols[j].effects)}}
      names == Sorted(used)
  IN  [effects |-> [i \in DOMAIN names |-> [name |-> names[i], uses |-> SortedIds(Users(names[i]))]],
       policy |-> [declared |-> declared_policy, undeclared |-> Sorted(used \ Range(declared_policy)),
                   unused |-> SelectSeq(declared_policy, LAMBDA eff : eff \notin used)]]

unknown_effect_diagnostic(id, eff) == [code |-> "W0401", symbol |-> id, expected |-> KNOWN_EFFECTS, found |-> <<eff>>]
undeclared_effect_diagnostic(id, eff) ==
  [code |-> "E0410", symbol |-> id, expected |-> <<"declare", eff>>, found |-> <<eff>>]

\* effect_diagnostics: an unknown effect is warned about and not held against the
\* policy; an empty policy forbids nothing; a symbol that is a module is passed over.
effect_diagnostics(symbols, declared_policy) ==
  LET Of(id, eff) ==
        IF ~is_known_effect_or_capability(eff) THEN <<unknown_effect_diagnostic(id, eff)>>
        ELSE IF declared_policy /= <<>> /\ eff \notin Range(declared_policy)
        THEN <<undeclared_effect_diagnostic(id, eff)>> ELSE <<>>
      OfSymbol(s) == IF s.kind = "Module" THEN <<>>
                     ELSE FlattenSeq([i \in DOMAIN s.effects |-> Of(s.id, s.effects[i])])
  IN  FlattenSeq([i \in DOMAIN symbols |-> OfSymbol(symbols[i])])
----------------------------------------------------------------------------
Functions(symbols) == SelectSeq(symbols, LAMBDA s : s.kind = "Function")

\* by_name: a name that several functions have is the first one's.
by_name(symbols) ==
  LET fns == Functions(symbols)
  IN  [n \in {fns[i].name : i \in DOMAIN fns} |-> fns[Min({i \in DOMAIN fns : fns[i].name = n})].id]

\* collect_callees: the ids of the functions called by name, at any depth, the caller's
\* own among them.
RECURSIVE collect_callees(_, _)
collect_callees(e, names) ==
  LET parts == Parts(e)
  IN  (IF e[1] = "Call" /\ e[2][1] = "Var" /\ e[2][2] \in DOMAIN names THEN {names[e[2][2]]} ELSE {})
      \cup UNION {collect_callees(parts[i], names) : i \in DOMAIN parts}

\* seed_function, for one function after the other: of two with one id, the later
\* declaration is the one kept.
Declared(symbols, id) ==
  LET fns == Functions(symbols) IN Range(fns[Max({i \in DOMAIN fns : fns[i].id = id})].effects)

\* build_effect_graph: the calls of every function, none for one without a body, and, to
\* begin with, the effects it declares.
build_effect_graph(symbols, bodies) ==
  LET fns == Functions(symbols)
      ids == {fns[i].id : i \in DOMAIN fns}
  IN  [edges |-> [id \in ids |-> IF id \in DOMAIN bodies THEN collect_callees(bodies[id], by_name(symbols)) ELSE {}],
       effects |-> [id \in ids |-> Declared(symbols, id)]]
effects_of(graph, id) == IF id \in DOMAIN graph.effects THEN graph.effects[id] ELSE {}

\* One round of the loop, from a snapshot of the sets.
Round(graph) ==
  [id \in DOMAIN graph.edges |-> graph.effects[id] \cup UNION {effects_of(graph, g) : g \in graph.edges[id]}]

\* Mutant: one round, not a fixpoint.
propagate_mutant(graph) == [graph EXCEPT !.effects = Round(graph)]

\* propagate_effects: rounds until no set changes; the ids whose set is no longer the
\* one they began with.
RECURSIVE propagate(_)
propagate(graph) == IF Round(graph) = graph.effects THEN graph ELSE propagate([graph EXCEPT !.effects = Round(graph)])
propagate_effects(graph) ==
  LET done == propagate(graph)
  IN  [graph |-> done, diffs |-> SortedIds({id \in DOMAIN done.effects : done.effects[id] /= graph.effects[id]})]
----------------------------------------------------------------------------
\* The fallback of first_callee_introducing: from the last id pushed, each id once,
\* passing the function itself over but not its calls.
RECURSIVE search(_, _, _, _, _)
search(graph, id, eff, frontier, visited) ==
  IF frontier = <<>> THEN "<unknown>"
  ELSE LET current == Last(frontier)
           rest == Front(frontier)
           seen == visited \cup {current}
       IN  IF current \in visited THEN search(graph, id, eff, rest, visited)
           ELSE IF current /= id /\ eff \in effects_of(graph, current) THEN current
           ELSE search(graph, id, eff, rest \o SortedIds(graph.edges[current] \ seen), seen)

\* first_callee_introducing: the first direct callee, by id, that has the effect.
first_callee_introducing(graph, id, eff) ==
  LET direct == {g \in graph.edges[id] \ {id} : eff \in effects_of(graph, g)}
  IN  IF direct /= {} THEN Min(direct) ELSE search(graph, id, eff, SortedIds(graph.edges[id]), {})

\* Where " uses " is first found: the spaces are there unless a neighbour takes them away.
find_uses(sig) ==
  LET at == {i \in 2..(Len(sig) - 1) : /\ sig[i] = "uses" /\ sig[i - 1] \notin {"(", "[", "."}
                                       /\ sig[i + 1] \notin {")", "]", ",", ":", ".", "(", "["}}
  IN  IF at = {} THEN 0 ELSE Min(at)

\* The parts between commas, without the empty ones, and the commas put back.
RECURSIVE split(_, _)
split(text, part) ==
  LET done == IF part = <<>> THEN <<>> ELSE <<part>>
  IN  IF text = <<>> THEN done
      ELSE IF Head(text) = "," THEN done \o split(Tail(text), <<>>) ELSE split(Tail(text), Append(part, Head(text)))
join(parts) == FlattenSeq([i \in DOMAIN parts |-> (IF i = 1 THEN <<>> ELSE <<",">>) \o parts[i]])

\* append_effect_to_uses: all that follows " uses " is taken for its clause, where the
\* effect goes last, once; without it a clause is added.
append_effect_to_uses(sig, eff) ==
  LET uses == find_uses(sig)
      existing == split(after(sig, uses), <<>>)
  IN  IF uses = 0 THEN sig \o <<"uses", eff>>
      ELSE before(sig, uses) \o <<"uses">>
           \o join(IF <<eff>> \in Range(existing) THEN existing ELSE Append(existing, <<eff>>))

\* build_diagnostic: with the signature that would declare the effect.
build_diagnostic(s, inferred, eff, callee) ==
  [code |-> "E0420", symbol |-> s.id, expected |-> Sorted(inferred), found |-> Sorted(Range(s.effects)),
   fix |-> [op |-> "change_signature", target |-> s.id, text |-> append_effect_to_uses(s.sig, eff)],
   minimal_context |-> <<s.id, callee, eff>>]

\* propagation_diagnostics: E0420 for each effect a function has by what it calls and
\* does not declare, in the order of the symbols and then of the effects.
propagation_diagnostics(symbols, graph) ==
  LET fns == Functions(symbols)
      OfSymbol(s) ==
        LET inferred == effects_of(graph, s.id)
            missing == Sorted(inferred \ Range(s.effects))
        IN  [i \in DOMAIN missing |->
               build_diagnostic(s, inferred, missing[i], first_callee_introducing(graph, s.id, missing[i]))]
  IN  FlattenSeq([i \in DOMAIN fns |-> OfSymbol(fns[i])])
----------------------------------------------------------------------------
\* collect_effects (parser.rs): the effects a signature declares, from its first "uses"
\* up to ":" or "->"; the words between two commas are one effect.
collect_effects(sig) ==
  LET uses == position(sig, "uses")
      ends == {i \in (uses + 1)..Len(sig) : sig[i] \in {":", "->"}}
      parts == split(SubSeq(sig, uses + 1, (IF ends = {} THEN Len(sig) + 1 ELSE Min(ends)) - 1), <<>>)
  IN  IF uses = 0 THEN <<>> ELSE [i \in DOMAIN parts |-> FoldLeft(LAMBDA text, word : text \o word, "", parts[i])]

\* The functions a function reaches by calls, in as many as there are functions.
RECURSIVE Reach(_, _, _)
Reach(edges, ids, n) == IF n = 0 THEN ids ELSE Reach(edges, ids \cup UNION {edges[id] : id \in ids}, n - 1)

\* The inferred effects of a function are what it and the functions its calls reach
\* declare, in rings too. Where every function has an id of its own, each effect it does
\* not declare is reported once, with a callee that really has it; and when each
\* signature's clause is its last part and not empty, applying one of the fixes declares
\* that effect, keeps those declared, and takes away that report and no other.
EffectsAreReachable(symbols, bodies) ==
  LET graph == build_effect_graph(symbols, bodies)
      ids == DOMAIN graph.edges
      Reached(id) == Reach(graph.edges, {id}, Cardinality(ids))
      done == propagate_effects(graph).graph
      found == propagation_diagnostics(symbols, done)
      Eff(d) == d.minimal_context[3]
      ByHand(id) == UNION {graph.effects[g] : g \in Reached(id)}
      fns == Functions(symbols)
      distinct == \A i, j \in DOMAIN fns : fns[i].id = fns[j].id => i = j
      Clean(sig) == position(sig, "uses") /= 0 => /\ find_uses(sig) = position(sig, "uses")
                                                  /\ Range(after(sig, find_uses(sig))) \cap {":", "->"} = {}
      Fixed(d) == [i \in DOMAIN symbols |->
                     IF symbols[i] \in Range(fns) /\ symbols[i].id = d.fix.target
                     THEN [symbols[i] EXCEPT !.sig = d.fix.text, !.effects = collect_effects(d.fix.text)] ELSE symbols[i]]
      Again(d) == propagation_diagnostics(Fixed(d), propagate_effects(build_effect_graph(Fixed(d), bodies)).graph)
      Reports(ds) == {<<ds[i].symbol, Eff(ds[i])>> : i \in DOMAIN ds}
  IN  /\ done.effects = [id \in ids |-> ByHand(id)]
      /\ distinct =>
           /\ Reports(found) = UNION {{id} \X (ByHand(id) \ graph.effects[id]) : id \in ids}
           /\ Cardinality(Reports(found)) = Len(found)
           /\ \A i \in DOMAIN found : LET callee == found[i].minimal_context[2]
                                      IN  /\ callee \in Reached(found[i].symbol) \ {found[i].symbol}
                                          /\ Eff(found[i]) \in done.effects[callee]
           /\ \A i \in DOMAIN found : (\A j \in DOMAIN fns : Clean(fns[j].sig)) =>
                Reports(Again(found[i])) = Reports(found) \ {<<found[i].symbol, Eff(found[i])>>}

\* A module that passes under a policy that is not empty uses only what the policy
\* names, but for the effects nobody knows and those of symbols that are modules; what
\* the manifest calls unused may go from the policy without a new report; and each
\* report's symbol is one the manifest lists for the effect.
PolicyIsKept(symbols, declared) ==
  LET manifest == build_capability_manifest(symbols, declared)
      found == effect_diagnostics(symbols, declared)
      Errors(p) == SelectSeq(effect_diagnostics(symbols, p), LAMBDA d : d.code = "E0410")
      less == SelectSeq(declared, LAMBDA eff : eff \notin Range(manifest.policy.unused))
      plain == \A i \in DOMAIN symbols : symbols[i].kind /= "Module"
  IN  /\ declared /= <<>> /\ plain /\ Errors(declared) = <<>> =>
           \A eff \in Range(manifest.policy.undeclared) : ~is_known_effect_or_capability(eff)
      /\ less /= <<>> => Errors(less) = Errors(declared)
      /\ \A i \in DOMAIN found : \E e \in Range(manifest.effects) :
           e.name = found[i].found[1] /\ found[i].symbol \in Range(e.uses)
=============================================================================
