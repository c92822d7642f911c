------------------------------- MODULE Borrow -------------------------------
(***************************************************************************)
(* The borrow checker, crates/ori-compiler/src/borrow.rs, and its regions, *)
(* borrow_regions.rs. A signature is the sequence of its words; a          *)
(* diagnostic is its code and the name it is about.                        *)
(***************************************************************************)
EXTENDS ExprTree

LOCAL INSTANCE TLC
----------------------------------------------------------------------------
\* Signatures.
Punctuation == {"(", ")", "[", "]", ",", ":", "&", "->", "'", "uses"}
UNIQUE_RESOURCE_EFFECTS == {"db.write", "fs.write", "process.spawn", "crypto"}
is_builtin_type(head) == head \in {"Int", "Str", "Bool"}
Uppercase == {"T", "N", "M"}

type_head(ty) == IF ty = <<>> \/ Head(ty) \in Punctuation THEN "" ELSE Head(ty)

\* classify_borrow and strip_borrow_prefix: the kind of a type and what it borrows.
classify_borrow(ty) ==
  CASE ty = <<>> \/ Head(ty) /= "&" -> [kind |-> "Owned", ty |-> ty]
    [] Len(ty) > 1 /\ Head(ty) = "&" /\ ty[2] = "mut" -> [kind |-> "Mut", ty |-> after(ty, 2)]
    [] OTHER -> [kind |-> "Shared", ty |-> Tail(ty)]
strip_borrow_prefix(ty) == classify_borrow(ty).ty

parse_one_parameter(part) ==
  LET colon == position(part, ":")
  IN  IF colon <= 1 \/ colon = Len(part) THEN <<>>
      ELSE <<[name |-> before(part, colon)] @@ classify_borrow(after(part, colon))>>

parse_parameters(sig) ==
  LET open == position(sig, "(")
      body == after(sig, open)
      close == matching_close(body, 1, 0)
      parts == split_top_level_commas(before(body, close))
  IN  IF open = 0 \/ close = 0 THEN <<>>
      ELSE FlattenSeq([i \in DOMAIN parts |-> parse_one_parameter(parts[i])])

\* The words after the first arrow, up to the effects; <<>> when there are none.
parse_return_type(sig) ==
  LET arrow == position(sig, "->")
      rest == after(sig, arrow)
      uses == position(rest, "uses")
  IN  IF arrow = 0 THEN <<>> ELSE IF uses = 0 THEN rest ELSE before(rest, uses)

\* The head of `Head[...]`, or the whole type.
split_generic(ty) ==
  LET open == position(ty, "[")
  IN  IF open > 0 /\ Last(ty) = "]" THEN before(ty, open) ELSE ty

\* A newtype `type N wraps Base` and the head of its base.
extract_wraps_base(sig) == LET w == position(sig, "wraps") IN IF w = 0 THEN <<>> ELSE after(sig, w)
collect_newtype_bases(types) ==
  LET head(i) == type_head(extract_wraps_base(types[i].sig))
      known == {i \in DOMAIN types : is_builtin_type(head(i)) \/ head(i) \in Uppercase}
  IN  [n \in {types[i].name : i \in known} |-> head(Max({i \in known : types[i].name = n}))]

Count(params, name, kind) == Cardinality({i \in DOMAIN params : params[i].name = name /\ params[i].kind = kind})

check_unsafe(s) == IF "unsafe" \in s.effects \cup Range(s.sig) THEN {<<"B0040", s.name>>} ELSE {}
check_mut_alias(params) ==
  {d \in {<<IF Count(params, n, "Mut") >= 2 THEN "B0010" ELSE "B0011", n>> :
            n \in {params[i].name : i \in DOMAIN params}} :
     Count(params, d[2], "Mut") >= 2 \/ (Count(params, d[2], "Mut") = 1 /\ Count(params, d[2], "Shared") >= 1)}
check_newtype_confusion(params, bases) ==
  LET heads == {type_head(params[i].ty) : i \in DOMAIN params} \cap DOMAIN bases
  IN  {<<"B0020", bases[h]>> : h \in {x \in heads : \E y \in heads : y /= x /\ bases[y] = bases[x]}}
check_shared_over_unique(s, ret) ==
  IF ret /= <<>> /\ split_generic(ret) = <<"Shared">> /\ s.effects \cap UNIQUE_RESOURCE_EFFECTS /= {}
  THEN {<<"B0030", s.name>>} ELSE {}
check_dangling_borrow(s, params, ret) ==
  LET base == type_head(strip_borrow_prefix(ret))
      sources == {i \in DOMAIN params : /\ params[i].kind /= "Owned"
                                        /\ type_head(strip_borrow_prefix(params[i].ty)) = base}
  IN  IF ret /= <<>> /\ Head(ret) = "&" /\ base /= "" /\ sources = {} THEN {<<"B0050", s.name>>} ELSE {}

\* borrow_check_module, on one function or query.
borrow_check_signature(s, types) ==
  LET params == parse_parameters(s.sig)
      ret == parse_return_type(s.sig)
  IN  check_unsafe(s) \cup check_mut_alias(params)
      \cup check_newtype_confusion(params, collect_newtype_bases(types))
      \cup check_shared_over_unique(s, ret) \cup check_dangling_borrow(s, params, ret)
----------------------------------------------------------------------------
\* RegionMap: the stack of the open regions, each with its locals and its borrows.
enter(regions) == Append(regions, [locals |-> {}, borrows |-> <<>>])
exit(regions) == IF regions = <<>> THEN regions ELSE Front(regions)
declare_local(regions, name) ==
  IF regions = <<>> THEN regions ELSE [regions EXCEPT ![Len(regions)].locals = @ \cup {name}]
add_borrow(regions, name, mode) ==
  IF regions = <<>> THEN regions ELSE [regions EXCEPT ![Len(regions)].borrows = Append(@, <<name, mode>>)]
is_local(regions, name) == \E i \in DOMAIN regions : name \in regions[i].locals
live_borrows(regions) == FlattenSeq([i \in DOMAIN regions |-> regions[i].borrows])
borrows_of(regions, name) == SelectSeq(live_borrows(regions), LAMBDA b : b[1] = name)

find_borrow_conflict(regions, name, mode) ==
  \E i \in DOMAIN borrows_of(regions, name) :
    ~(mode = "Shared" /\ borrows_of(regions, name)[i][2] = "Shared")

SHARED_BORROW_FNS == {"borrow", "borrow_shared", "ref"}
MUT_BORROW_FNS == {"borrow_mut", "mut_ref", "mut_borrow"}
MOVE_FNS == {"move", "consume", "take"}
borrow_mode(name) == IF name \in SHARED_BORROW_FNS THEN "Shared" ELSE "Mut"
detect_borrow_call(e) ==
  /\ e[1] = "Call" /\ e[2][1] = "Var" /\ e[2][2] \in SHARED_BORROW_FNS \cup MUT_BORROW_FNS
  /\ e[3] /= <<>> /\ e[3][1][1] = "Var"

\* The walk keeps the regions and what it has reported. `tail` says that the value of
\* the expression leaves the block it stands in.
Walk(r, d) == [r |-> r, d |-> d]
RECURSIVE check_b0070_and_b0080(_, _, _), walk_each(_, _, _), walk_stmts_for_borrows(_, _)

\* Expressions from left to right, each with its own `tail`.
walk_each(es, tails, w) ==
  IF es = <<>> THEN w ELSE walk_each(Tail(es), Tail(tails), check_b0070_and_b0080(Head(es), Head(tails), w))

\* A name becomes a local once its initialiser is done.
walk_stmts_for_borrows(stmts, w) ==
  IF stmts = <<>> THEN w
  ELSE LET s == Head(stmts)
           x == IF s[2] = <<>> THEN w ELSE check_b0070_and_b0080(s[2], s[1] = "Return", w)
       IN  walk_stmts_for_borrows(Tail(stmts), IF s[1] = "Let" THEN [x EXCEPT !.r = declare_local(@, s[3])] ELSE x)

check_b0070_and_b0080(e, tail, w) ==
  LET parts == Parts(e)
      All(f) == [i \in DOMAIN parts |-> f]
  IN  CASE e[1] = "Block" ->
             LET x == walk_stmts_for_borrows(e[2], Walk(enter(w.r), w.d))
                 y == IF e[3] = <<>> THEN x ELSE check_b0070_and_b0080(e[3], TRUE, x)
             IN  [y EXCEPT !.r = exit(@)]
        [] detect_borrow_call(e) ->
             LET name == e[3][1][2]
                 mode == borrow_mode(e[2][2])
                 escapes == IF tail /\ is_local(w.r, name) THEN <<<<"B0080", name>>>> ELSE <<>>
                 clashes == IF find_borrow_conflict(w.r, name, mode) THEN <<<<"B0070", name>>>> ELSE <<>>
             IN  walk_each(Tail(e[3]), [i \in 1..(Len(e[3]) - 1) |-> FALSE],
                           Walk(add_borrow(w.r, name, mode), w.d \o escapes \o clashes))
        [] e[1] = "Return" -> walk_each(parts, All(TRUE), w)
        [] e[1] \in {"If", "Match"} -> walk_each(parts, [i \in DOMAIN parts |-> i > 1 /\ tail], w)
        [] e[1] = "Lambda" ->
             LET x == check_b0070_and_b0080(e[3], FALSE, Walk(enter(w.r), w.d)) IN [x EXCEPT !.r = exit(@)]
        [] e[1] \notin {"Block", "Return", "If", "Match", "Lambda"} /\ ~detect_borrow_call(e) ->
             walk_each(parts, All(FALSE), w)
----------------------------------------------------------------------------
\* record_moves_in_expr: the names an expression moves. A lambda moves what it captures.
RECURSIVE record_moves(_)
record_moves(e) ==
  LET parts == Parts(e)
      below == UNION {record_moves(parts[i]) : i \in DOMAIN parts}
      Name(x) == IF x /= <<>> /\ x[1] = "Var" THEN {x[2]} ELSE {}
  IN  CASE e[1] = "Return" -> Name(e[2]) \cup below
        [] e[1] = "Call" -> below \cup (IF e[2][1] = "Var" /\ e[2][2] \in MOVE_FNS /\ e[3] /= <<>>
                                        THEN Name(e[3][1]) ELSE {})
        [] e[1] = "Lambda" -> Range(visit_var_uses(e[3])) \ Range(e[2])
        [] e[1] = "Block" -> below \cup UNION {Name(e[2][i][2]) : i \in {j \in DOMAIN e[2] : e[2][j][1] = "Return"}}
        [] OTHER -> below

\* Mutant: the tail of a block is not compared with what was moved.
walk_block_for_moves_mutant(body) ==
  LET steps == IF body[1] = "Block" THEN FlattenSeq([i \in DOMAIN body[2] |-> Opt(body[2][i][2])]) ELSE <<body>>
  IN  FlattenSeq([i \in DOMAIN steps |->
        LET moved == UNION {record_moves(steps[j]) : j \in 1..(i - 1)}
        IN  SetToSeq({<<"B0060", n>> : n \in moved \cap Range(visit_var_uses(steps[i]))})])

\* walk_block_for_moves: the statements of the body one after the other, then its
\* tail; each reports the moved names it uses and then adds the ones it moves.
walk_block_for_moves(body) ==
  LET steps == IF body[1] = "Block" THEN FlattenSeq([i \in DOMAIN body[2] |-> Opt(body[2][i][2])]) \o Opt(body[3])
               ELSE <<body>>
  IN  FlattenSeq([i \in DOMAIN steps |->
        LET moved == UNION {record_moves(steps[j]) : j \in 1..(i - 1)}
        IN  SetToSeq({<<"B0060", n>> : n \in moved \cap Range(visit_var_uses(steps[i]))})])

\* borrow_check_bodies, on the body of one function.
check_function_body(body) ==
  check_b0070_and_b0080(body, FALSE, Walk(enter(<<>>), <<>>)).d \o walk_block_for_moves(body)
----------------------------------------------------------------------------
\* What the reports are measured against: a body as the list of what happens in it,
\* the regions that open and close included. `out` is how many of the open regions the
\* value of the expression leaves: a `return` leaves them all, the tail of a block that
\* block and the ones the block is the value of.
AllRegions == 99
Mentions == {"use", "borrow", "move"}
Depth(ev, i) == Cardinality({j \in 1..i : ev[j][1] = "enter"}) - Cardinality({j \in 1..i : ev[j][1] = "exit"})
Open(ev, i, j) == i < j /\ \A k \in i..j : Depth(ev, k) >= Depth(ev, i)

\* The `let` or the parameter a name stands for where it is mentioned; 0 is one from
\* outside.
Binding(ev, k) ==
  Max({0} \cup {i \in 1..(k - 1) : ev[i][1] \in {"let", "param"} /\ ev[i][2] = ev[k][2] /\ Open(ev, i, k)})

RECURSIVE Events(_, _)
Events(e, out) ==
  LET parts == Parts(e)
      Each(outs) == FlattenSeq([i \in DOMAIN parts |-> Events(parts[i], outs[i])])
      None == [i \in DOMAIN parts |-> 0]
  IN  CASE e[1] = "Var" -> <<<<"use", e[2]>>>>
        [] e[1] = "Block" ->
             <<<<"enter">>>>
             \o FlattenSeq([i \in DOMAIN e[2] |->
                  (IF e[2][i][2] = <<>> THEN <<>>
                   ELSE Events(e[2][i][2], IF e[2][i][1] = "Return" THEN AllRegions ELSE 0))
                  \o (IF e[2][i][1] = "Let" THEN <<<<"let", e[2][i][3]>>>> ELSE <<>>)])
             \o (IF e[3] = <<>> THEN <<>> ELSE Events(e[3], out + 1)) \o <<<<"exit">>>>
        [] detect_borrow_call(e) -> <<<<"borrow", e[3][1][2], borrow_mode(e[2][2]), out>>>>
        [] e[1] = "Call" /\ ~detect_borrow_call(e) ->
             IF e[2][1] = "Var" /\ e[2][2] \in MOVE_FNS
             THEN <<<<"use", e[3][1][2]>>, <<"move", e[3][1][2]>>>> ELSE Each(None)
        [] e[1] = "Lambda" ->
             LET inside == <<<<"enter">>>> \o [i \in DOMAIN e[2] |-> <<"param", e[2][i]>>]
                           \o Events(e[3], 1) \o <<<<"exit">>>>
             IN  inside \o SetToSeq({<<"move", inside[i][2]>> :
                                       i \in {j \in DOMAIN inside : inside[j][1] \in Mentions /\ Binding(inside, j) = 0}})
        [] e[1] = "Return" -> Each([i \in DOMAIN parts |-> AllRegions])
        [] e[1] \in {"If", "Match"} -> Each([i \in DOMAIN parts |-> IF i = 1 THEN 0 ELSE out])
        [] e[1] \notin {"Var", "Block", "Call", "Lambda", "Return", "If", "Match"} -> Each(None)

Borrows(ev) == {k \in DOMAIN ev : ev[k][1] = "borrow"}
SameBinding(ev, i, k) == ev[i][2] = ev[k][2] /\ Binding(ev, i) = Binding(ev, k)
Clashes(ev) ==
  {<<"B0070", ev[k][2]>> : k \in {j \in Borrows(ev) :
     \E i \in Borrows(ev) : Open(ev, i, j) /\ SameBinding(ev, i, j) /\ "Mut" \in {ev[i][3], ev[j][3]}}}
Stale(ev) ==
  {<<"B0060", ev[k][2]>> : k \in {j \in DOMAIN ev : ev[j][1] \in {"use", "borrow"} /\
     \E i \in 1..(j - 1) : ev[i][1] = "move" /\ SameBinding(ev, i, j)}}

\* The borrows that leave a block with a local of the function, and the ones among them
\* that also leave the block the local was declared in.
Leaving(ev) == {k \in Borrows(ev) : ev[k][4] > 0 /\ Binding(ev, k) > 0 /\ ev[Binding(ev, k)][1] = "let"}
Dangles(ev, k) == Depth(ev, Binding(ev, k)) > Depth(ev, k) - ev[k][4]
Escapes(ev) == {<<"B0080", ev[k][2]>> : k \in {j \in Leaving(ev) : Dangles(ev, j)}}

\* Where the reports are about something else, by name. The moves and the live borrows
\* are kept by name, so one that is bound again is taken for what it was before; the
\* name of a function that a lambda calls counts as captured by it; and a borrow that is
\* the tail of an inner block is reported although its local lives on outside.
Rebound(ev) ==
  {ev[k][2] : k \in {j \in DOMAIN ev : ev[j][1] \in Mentions /\
     \E i \in DOMAIN ev : ev[i][1] \in Mentions /\ ev[i][2] = ev[j][2] /\ Binding(ev, i) /= Binding(ev, j)}}
RECURSIVE Called(_)
Called(e) == (IF e[1] = "Call" /\ e[2][1] = "Var" THEN {e[2][2]} ELSE {})
             \cup UNION {Called(Parts(e)[i]) : i \in DOMAIN Parts(e)}
LivesOn(ev) == {ev[k][2] : k \in {j \in Leaving(ev) : ~Dangles(ev, j)}}

\* Of a name that stands for one binding, two borrows are reported exactly when one is
\* exclusive and the first is still open at the second, and what is reported as used
\* after its move was moved before, in whatever block or lambda; of every name, each
\* clash and each borrow that leaves the block of its local is reported, and only of a
\* local that lives on outside is one reported that does not. In a body whose statements
\* each do one thing no use after a move is missed.
BodyReportsAreReal(body) ==
  LET ev == Events(body, AllRegions)
      found == Range(check_function_body(body))
      Of(code, aside) == {d \in found : d[1] = code /\ d[2] \notin aside}
      Plain(diagnostics) == {d \in diagnostics : d[2] \notin Rebound(ev) \cup Called(body)}
      flat == body[1] /= "Block" \/ \A i \in DOMAIN body[2] : body[2][i][2] = <<>> \/ Parts(body[2][i][2]) = <<>>
                \/ (body[2][i][2][1] = "Call" /\ \A j \in DOMAIN Parts(body[2][i][2]) : Parts(body[2][i][2])[j][1] = "Var")
  IN  /\ Clashes(ev) \subseteq found
      /\ Of("B0070", Rebound(ev)) \subseteq Clashes(ev)
      /\ Escapes(ev) \subseteq found
      /\ Of("B0080", LivesOn(ev)) \subseteq Escapes(ev)
      /\ Plain(Of("B0060", {})) \subseteq Stale(ev)
      /\ flat /\ (body[1] = "Block" => body[3] = <<>> \/ body[3][1] = "Var") => Plain(Stale(ev)) \subseteq found

\* A signature as it is meant, and the words it is written with: a parameter has a
\* name, a kind and a type that is a head and its arguments.
Prefix == [Owned |-> <<>>, Shared |-> <<"&">>, Mut |-> <<"&", "mut">>]
WriteType(t) ==
  Prefix[t.kind] \o <<t.head>> \o
  (IF t.args = <<>> THEN <<>>
   ELSE <<"[">> \o [i \in 1..(2 * Len(t.args) - 1) |-> IF i % 2 = 1 THEN t.args[(i + 1) \div 2] ELSE ","] \o <<"]">>)
WriteParams(params) ==
  FlattenSeq([i \in DOMAIN params |-> (IF i = 1 THEN <<>> ELSE <<",">>) \o <<params[i].name, ":">> \o WriteType(params[i])])
WriteSignature(params, ret, effects) ==
  <<"fn", "f", "(">> \o WriteParams(params) \o <<")", "->">> \o WriteType(ret)
  \o (IF effects = {} THEN <<>> ELSE <<"uses">> \o SetToSeq(effects))

\* Whatever its types hold, a signature is reported for what it means: two exclusive
\* borrows of a name or one beside a shared one, two newtypes of one base, a shared
\* alias of a unique resource, a borrow returned that no parameter can be the source of.
SignatureReportsAreReal(params, ret, effects, bases) ==
  LET types == [i \in DOMAIN bases |-> [name |-> bases[i][1], sig |-> <<"type", bases[i][1], "wraps", bases[i][2]>>]]
      found == borrow_check_signature([name |-> "f", sig |-> WriteSignature(params, ret, effects), effects |-> effects], types)
      Two(P(_, _)) == \E i, j \in DOMAIN params : i /= j /\ P(params[i], params[j])
      Base(h) == {bases[i][2] : i \in {j \in DOMAIN bases : bases[j][1] = h}}
      Has(code) == \E d \in found : d[1] = code
  IN  /\ Has("B0010") <=> Two(LAMBDA p, q : p.name = q.name /\ p.kind = "Mut" /\ q.kind = "Mut")
      /\ Has("B0011") => Two(LAMBDA p, q : p.name = q.name /\ p.kind = "Mut" /\ q.kind = "Shared")
      /\ Two(LAMBDA p, q : p.name = q.name /\ p.kind = "Mut" /\ q.kind /= "Owned") => Has("B0010") \/ Has("B0011")
      /\ Has("B0020") <=> Two(LAMBDA p, q : p.head /= q.head /\ Base(p.head) \cap Base(q.head) /= {})
      /\ Has("B0030") <=> ret.kind = "Owned" /\ ret.head = "Shared" /\ effects \cap UNIQUE_RESOURCE_EFFECTS /= {}
      /\ Has("B0050") <=> ret.kind /= "Owned"
                          /\ \A i \in DOMAIN params : params[i].kind = "Owned" \/ params[i].head /= ret.head
      /\ Has("B0040") <=> "unsafe" \in effects
----------------------------------------------------------------------------
(***************************************************************************)
(* Lifetimes, crates/ori-compiler/src/borrow_lifetimes.rs: the parameters and *)
(* bounds of a signature and the solver of constraints on them. A lifetime is *)
(* one word; the order of lifetimes is the one they have in Alphabetical.  *)
(***************************************************************************)
Alphabetical == <<"'a", "'b", "'c", "'d">>
Lifetimes == Range(Alphabetical)
Rank(lt) == CHOOSE i \in DOMAIN Alphabetical : Alphabetical[i] = lt
Bound(outer, inner) == <<outer, inner>>
----------------------------------------------------------------------------
\* find_generic_brackets: what stands in the first angle brackets, which must close
\* before the parameters begin.
RECURSIVE angle_close(_, _, _)
angle_close(sig, i, depth) ==
  IF i > Len(sig) \/ sig[i] = "(" THEN 0
  ELSE IF sig[i] = ">" /\ depth = 1 THEN i
  ELSE angle_close(sig, i + 1, depth + (IF sig[i] = "<" THEN 1 ELSE IF sig[i] = ">" THEN -1 ELSE 0))
generic_body(sig) ==
  LET open == position(sig, "<")
      close == angle_close(sig, open + 1, 1)
  IN  IF open = 0 \/ close = 0 THEN <<>> ELSE SubSeq(sig, open + 1, close - 1)
where_clause(sig) == LET w == position(sig, "where") IN IF w = 0 THEN <<>> ELSE after(sig, w)

\* One part, a lifetime and after a colon the ones it outlives, joined by pluses.
Outer(part) == IF part /= <<>> /\ Head(part) \in Lifetimes THEN <<Head(part)>> ELSE <<>>
Inner(part) == LET colon == position(part, ":")
               IN  IF colon = 0 THEN <<>> ELSE SelectSeq(after(part, colon), LAMBDA w : w \in Lifetimes)
part_bounds(part) == IF Outer(part) = <<>> THEN <<>>
                     ELSE [i \in DOMAIN Inner(part) |-> Bound(Head(part), Inner(part)[i])]

push_unique(lts) == LET new == {i \in DOMAIN lts : \A j \in 1..(i - 1) : lts[j] /= lts[i]}
                    IN  [i \in 1..Cardinality(new) |-> lts[SetToSortSeq(new, <)[i]]]

\* extract_lifetimes: the generic part declares and bounds, the where clause bounds.
extract_lifetimes(sig) ==
  LET parts == split_top_level_commas(generic_body(sig))
      also == split_top_level_commas(where_clause(sig))
  IN  [params |-> push_unique(FlattenSeq([i \in DOMAIN parts |-> Outer(parts[i])])),
       bounds |-> FlattenSeq([i \in DOMAIN parts |-> part_bounds(parts[i])])
                  \o FlattenSeq([i \in DOMAIN also |-> part_bounds(also[i])])]

scan_lifetime_uses(text) == Range(text) \cap Lifetimes
----------------------------------------------------------------------------
\* reachable: a search that puts a lifetime on its stack once.
RECURSIVE reachable(_, _, _, _)
reachable(bounds, to, stack, seen) ==
  IF stack = <<>> THEN FALSE
  ELSE LET next == {b[2] : b \in {c \in Range(bounds) : c[1] = Last(stack)}}
       IN  to \in next \/ reachable(bounds, to, Front(stack) \o SetToSeq(next \ seen), seen \cup next)
check_outlives(outer, inner, env) == outer = inner \/ reachable(env.bounds, inner, <<outer>>, {outer})

\* UnionFind: the smaller of two roots becomes the root of both.
Root(parent, lt) == LET RECURSIVE up(_)
                        up(x) == IF parent[x] = x THEN x ELSE up(parent[x])
                    IN  up(lt)
union(parent, a, b) ==
  LET ra == Root(parent, a)
      rb == Root(parent, b)
  IN  IF ra = rb THEN parent
      ELSE IF Rank(ra) <= Rank(rb) THEN [parent EXCEPT ![rb] = ra] ELSE [parent EXCEPT ![ra] = rb]
RECURSIVE unite(_, _)
unite(parent, constraints) ==
  IF constraints = <<>> THEN parent
  ELSE LET c == Head(constraints)
       IN  unite(IF c[1] = "Equal" THEN union(parent, c[2], c[3]) ELSE parent, Tail(constraints))

\* The pairs of different roots that two edges join both ways.
two_cycles(edges) == {e \in edges : e[1] /= e[2] /\ <<e[2], e[1]>> \in edges}

\* solve_constraints: every lifetime declared; no two roots that outlive each other,
\* by the bounds and the requirements together; every requirement between two roots a
\* consequence of the bounds alone, as they are written. The answer names the root of
\* each declared lifetime.
solve_constraints(env, constraints) ==
  LET undeclared == {i \in DOMAIN constraints : {constraints[i][2], constraints[i][3]} \ Range(env.params) /= {}}
      parent == unite([lt \in Lifetimes |-> lt], constraints)
      wants == SelectSeq(constraints, LAMBDA c : c[1] = "Outlives")
      edges == {<<Root(parent, b[1]), Root(parent, b[2])>> : b \in Range(env.bounds)}
               \cup {<<Root(parent, wants[i][2]), Root(parent, wants[i][3])>> : i \in DOMAIN wants}
      short == {i \in DOMAIN wants : /\ Root(parent, wants[i][2]) /= Root(parent, wants[i][3])
                                     /\ ~check_outlives(wants[i][2], wants[i][3], env)}
  IN  CASE undeclared /= {} -> <<"Mismatch">>
        [] undeclared = {} /\ two_cycles(edges) /= {} -> <<"Cycle">>
        [] undeclared = {} /\ two_cycles(edges) = {} /\ short /= {} -> <<"TooShort">>
        [] OTHER -> <<"Ok", [lt \in Range(env.params) |-> Root(parent, lt)]>>
----------------------------------------------------------------------------
\* A lifetime as a length: the lengths that agree with the bounds and the equalities.
Lengths(bounds, constraints) ==
  {len \in [Lifetimes -> 0..3] :
     /\ \A b \in Range(bounds) : len[b[1]] >= len[b[2]]
     /\ \A i \in DOMAIN constraints : constraints[i][1] = "Equal" => len[constraints[i][2]] = len[constraints[i][3]]}

\* What the solver accepts holds: however long the lifetimes are, as long as the
\* bounds and the equalities hold, the one that was asked to outlives the other. Two
\* lifetimes have the same representative exactly when the equalities force them
\* together, and it is the first of theirs in the alphabet. Without equalities a
\* requirement is refused as too short only when some lengths refute it.
SolutionsAreForced(env, constraints) ==
  LET answer == solve_constraints(env, constraints)
      lengths == Lengths(env.bounds, constraints)
      equal == Lengths(<<>>, constraints)
      Same(a, b) == \A len \in equal : len[a] = len[b]
      wants == SelectSeq(constraints, LAMBDA c : c[1] = "Outlives")
  IN  /\ answer[1] = "Ok" =>
           /\ \A i \in DOMAIN wants : \A len \in lengths : len[wants[i][2]] >= len[wants[i][3]]
           /\ \A a, b \in Range(env.params) : answer[2][a] = answer[2][b] <=> Same(a, b)
           /\ \A a \in Range(env.params) : Rank(answer[2][a]) = Min({Rank(b) : b \in {x \in Lifetimes : Same(a, x)}})
      /\ answer[1] = "TooShort" /\ wants = constraints =>
           \E i \in DOMAIN wants, len \in lengths : len[wants[i][2]] < len[wants[i][3]]

\* The words of a signature that declares lifetimes, with the bounds of each inline or
\* in a where clause.
WriteBounds(bounds) ==
  FlattenSeq([i \in DOMAIN bounds |->
    (IF i = 1 THEN <<>> ELSE <<",">>) \o <<bounds[i][1]>> \o
    (IF bounds[i][2] = <<>> THEN <<>>
     ELSE <<":">> \o [j \in 1..(2 * Len(bounds[i][2]) - 1) |-> IF j % 2 = 1 THEN bounds[i][2][(j + 1) \div 2] ELSE "+"])])
Flat(bounds) == FlattenSeq([i \in DOMAIN bounds |->
                  [j \in DOMAIN bounds[i][2] |-> Bound(bounds[i][1], bounds[i][2][j])]])

\* A signature declares what it names in its brackets, once each, and carries every
\* bound, inline ones before the ones of the where clause.
BoundsAreKept(inline, also) ==
  LET sig == <<"fn", "f", "<">> \o WriteBounds(inline) \o <<">", "(", "x", ":", "&", "'a", "T", ")">>
             \o (IF also = <<>> THEN <<>> ELSE <<"where">> \o WriteBounds(also))
      env == extract_lifetimes(sig)
  IN  /\ Range(env.params) = {inline[i][1] : i \in DOMAIN inline}
      /\ Len(env.params) = Cardinality(Range(env.params))
      /\ env.bounds = Flat(inline) \o Flat(also)
=============================================================================
