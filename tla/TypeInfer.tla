----------------------------- MODULE TypeInfer -----------------------------
(***************************************************************************)
(* Types of bodies, crates/ori-compiler/src/type_infer.rs. A type is       *)
(* Prim(n), Named(n), Generic(n, args), Fn(params, ret) or Unknown; a      *)
(* signature is the sequence of its words. An annotated `let` is           *)
(* <<"Let", init, name, type>>. What is inferred is a type and the codes   *)
(* of the diagnostics, those of the parts first.                           *)
(***************************************************************************)
EXTENDS ExprTree

LOCAL INSTANCE TLC

Prim(n) == <<"Primitive", n>>
Named(n) == <<"Named", n>>
Generic(n, args) == <<"Generic", n, args>>
FnType(params, ret) == <<"Fn", params, ret>>
Unknown == <<"Unknown">>
Unit_ == Prim("Unit")
is_builtin_type(n) == n \in {"Int", "Int32", "Float64", "Str", "Bool", "Unit"}

Head_(ty) == IF ty[1] \in {"Primitive", "Named"} THEN ty[2] ELSE ""
is_integer_type(ty) == Head_(ty) \in {"Int", "Int8", "Int16", "Int32", "Int64",
                                      "UInt", "UInt8", "UInt16", "UInt32", "UInt64"}
is_float_type(ty) == Head_(ty) \in {"Float", "Float32", "Float64", "Decimal"}
is_numeric_type(ty) == is_integer_type(ty) \/ is_float_type(ty)
is_bool_type(ty) == Head_(ty) = "Bool"
is_string_type(ty) == Head_(ty) \in {"Str", "String"}
----------------------------------------------------------------------------
\* Signatures: a type is a head with arguments in brackets, or one word.
RECURSIVE parse_type_ref_from_text(_)
parse_type_ref_from_text(text) ==
  LET open == position(text, "[")
      args == split_top_level_commas(SubSeq(text, open + 1, Len(text) - 1))
  IN  CASE text = <<>> -> Unknown
        [] text /= <<>> /\ open > 0 /\ Last(text) = "]" ->
             Generic(text[1], [i \in DOMAIN args |-> parse_type_ref_from_text(args[i])])
        [] text /= <<>> /\ ~(open > 0 /\ Last(text) = "]") ->
             IF is_builtin_type(text[1]) THEN Prim(text[1]) ELSE Named(text[1])
parse_return_type(sig) ==
  LET arrow == position(sig, "->")
      rest == after(sig, arrow)
      uses == position(rest, "uses")
  IN  IF arrow = 0 THEN Unit_ ELSE parse_type_ref_from_text(IF uses = 0 THEN rest ELSE before(rest, uses))
\* The parameters with their types; one without a colon has none that is known.
parse_parameters(sig) ==
  LET open == position(sig, "(")
      close == matching_close(after(sig, open), 1, 0)
      parts == split_top_level_commas(before(after(sig, open), close))
      Of(part) == LET colon == position(part, ":")
                  IN  <<part[1], IF colon = 0 THEN Unknown ELSE parse_type_ref_from_text(after(part, colon))>>
  IN  IF open = 0 \/ close = 0 THEN <<>> ELSE [i \in DOMAIN parts |-> Of(parts[i])]
collect_function_returns(symbols) ==
  [n \in {symbols[i].name : i \in DOMAIN symbols} |->
     parse_return_type(symbols[Max({i \in DOMAIN symbols : symbols[i].name = n})].sig)]
----------------------------------------------------------------------------
Got(t, d) == [t |-> t, d |-> d]

\* What a literal becomes where a type is expected of it.
RECURSIVE propagate_expected(_, _)
propagate_expected(e, expected) ==
  CASE e[1] = "Lit" /\ e[2][1] = "Int" /\ is_numeric_type(expected) -> expected
    [] e[1] = "Lit" /\ e[2][1] = "Float" /\ is_float_type(expected) -> expected
    [] e[1] = "Unary" /\ e[3] = "-" -> propagate_expected(e[2], expected)
    [] OTHER -> Unknown
refine(e, expected, inferred) ==
  IF expected = Unknown \/ propagate_expected(e, expected) = Unknown THEN inferred
  ELSE propagate_expected(e, expected)

RECURSIVE return_types_compatible(_, _)
return_types_compatible(declared, inferred) ==
  \/ Unknown \in {declared, inferred}
  \/ Head_(declared) /= "" /\ Head_(declared) = Head_(inferred)
  \/ /\ declared[1] = "Generic" /\ inferred[1] = "Generic" /\ declared[2] = inferred[2]
     /\ Len(declared[3]) = Len(inferred[3])
     /\ \A i \in DOMAIN declared[3] : return_types_compatible(declared[3][i], inferred[3][i])
return_mismatch_diagnostics(declared, inferred) ==
  IF return_types_compatible(declared, inferred) THEN <<>> ELSE <<"W0540", "E0222">>

\* Mutant: branches of different types have the type of the first.
unify_branches_mutant(left, right) ==
  CASE left = Unknown -> Got(right, <<>>)
    [] OTHER -> Got(left, <<>>)

unify_branches(left, right) ==
  CASE left = Unknown -> Got(right, <<>>)
    [] left /= Unknown /\ right \in {Unknown, left} -> Got(left, <<>>)
    [] OTHER -> Got(Unknown, <<"W0541">>)

binop_family(op) ==
  CASE op \in {"+", "-", "*", "/", "%"} -> "Arith"
    [] op \in {"==", "!=", "<", "<=", ">", ">="} -> "Compare"
    [] op \in {"&&", "||"} -> "Logical"
    [] op = "??" -> "Coalesce"

\* infer_binary, on the types of the sides: a literal takes the numeric type of the
\* other side, the left one first.
infer_binary(op, lhs, rhs, left, right) ==
  LET l == IF is_numeric_type(right) THEN refine(lhs, right, left) ELSE left
      r == IF is_numeric_type(l) THEN refine(rhs, l, right) ELSE right
      family == binop_family(op)
      vague == Unknown \in {l, r}
  IN  CASE family = "Arith" ->
             IF op = "+" /\ is_string_type(l) /\ is_string_type(r) THEN Got(l, <<>>)
             ELSE IF is_numeric_type(l) /\ l = r THEN Got(l, <<>>)
             ELSE IF ~vague THEN Got(Unknown, <<"E0220">>)
             ELSE Got(IF is_numeric_type(l) THEN l ELSE IF is_numeric_type(r) THEN r ELSE Unknown, <<>>)
        [] family = "Compare" -> Got(Prim("Bool"), IF l = r \/ vague THEN <<>> ELSE <<"E0220">>)
        [] family = "Logical" ->
             Got(Prim("Bool"), IF \A t \in {l, r} : is_bool_type(t) \/ t = Unknown THEN <<>> ELSE <<"E0220">>)
        [] family = "Coalesce" -> Got(IF r /= Unknown THEN r ELSE l, <<>>)
infer_unary(op, t) ==
  CASE op = "-" -> IF is_numeric_type(t) \/ t = Unknown THEN Got(t, <<>>) ELSE Got(Unknown, <<"E0221">>)
    [] op = "!" -> Got(Prim("Bool"), IF is_bool_type(t) \/ t = Unknown THEN <<>> ELSE <<"E0221">>)

infer_construct(variant, ts) ==
  LET payload == IF ts = <<>> THEN Unknown ELSE ts[1]
  IN  CASE variant = "Ok" -> Generic("Result", <<payload, Unknown>>)
        [] variant = "Err" -> Generic("Result", <<Unknown, payload>>)
        [] variant = "Some" -> Generic("Option", <<payload>>)
        [] variant = "None" -> Generic("Option", <<Unknown>>)
        [] OTHER -> Unknown
infer_literal(v) == Prim(CASE v[1] = "Float" -> "Float64" [] OTHER -> v[1])

\* The arms of a match, on their types: the first one's, unified with each that follows.
infer_match_arms(ts) ==
  LET step[i \in 0..Len(ts)] ==
        IF i = 0 THEN Got(Unknown, <<>>)
        ELSE IF i = 1 THEN Got(ts[1], <<>>)
        ELSE LET u == unify_branches(step[i - 1].t, ts[i]) IN Got(u.t, step[i - 1].d \o u.d)
  IN  step[Len(ts)]

RECURSIVE infer_expr(_, _, _), infer_all(_, _, _, _), infer_block(_, _, _, _, _)

\* The types of expressions, in order.
infer_all(es, env, ctx, acc) ==
  IF es = <<>> THEN acc
  ELSE LET r == infer_expr(Head(es), env, ctx)
       IN  infer_all(Tail(es), env, ctx, Got(Append(acc.t, r.t), acc.d \o r.d))

\* A `let` binds its annotation, or else what was inferred; the tail of any block is
\* held against the return type of the function.
infer_block(stmts, tail, env, ctx, d) ==
  LET Against(e, expected) == LET r == infer_expr(e, env, ctx) IN Got(refine(e, expected, r.t), r.d)
  IN  IF stmts = <<>>
      THEN IF tail = <<>> THEN Got(Unit_, d)
           ELSE LET r == Against(tail, ctx.declared) IN Got(r.t, d \o r.d)
      ELSE LET s == Head(stmts)
               Rest(e, more) == infer_block(Tail(stmts), tail, e, ctx, d \o more)
           IN  CASE s[1] = "Let" ->
                      LET annotation == IF Len(s) = 4 THEN s[4] ELSE Unknown
                          r == Against(s[2], annotation)
                      IN  Rest((s[3] :> (IF annotation = Unknown THEN r.t ELSE annotation)) @@ env, r.d)
                 [] s[1] = "Expr" -> Rest(env, infer_expr(s[2], env, ctx).d)
                 [] s[1] = "Return" /\ s[2] = <<>> -> Rest(env, <<>>)
                 [] s[1] = "Return" /\ s[2] /= <<>> ->
                      LET r == Against(s[2], ctx.declared)
                      IN  Rest(env, r.d \o return_mismatch_diagnostics(ctx.declared, r.t))

infer_call(callee, exprs, env, ctx) ==
  LET args == infer_all(exprs, env, ctx, Got(<<>>, <<>>))
  IN  IF callee[1] /= "Var" THEN Got(Unknown, args.d \o infer_expr(callee, env, ctx).d)
      ELSE IF callee[2] \in DOMAIN ctx.returns THEN Got(ctx.returns[callee[2]], args.d)
      ELSE Got(Unknown, Append(args.d, "W0531"))
infer_lambda(e, env, ctx) ==
  LET names == e[2]
      types == IF Len(e) = 4 THEN e[4] ELSE [i \in DOMAIN names |-> Unknown]
      scope == [n \in Range(names) |-> types[Max({i \in DOMAIN names : names[i] = n})]] @@ env
      body == infer_expr(e[3], scope, ctx)
  IN  Got(FnType(types, body.t), body.d)

infer_expr(e, env, ctx) ==
  LET all == infer_all(Parts(e), env, ctx, Got(<<>>, <<>>))
  IN  CASE e[1] = "Lit" -> Got(infer_literal(e[2]), <<>>)
        [] e[1] = "Var" -> IF e[2] \in DOMAIN env THEN Got(env[e[2]], <<>>) ELSE Got(Unknown, <<"W0530">>)
        [] e[1] = "Block" -> infer_block(e[2], e[3], env, ctx, <<>>)
        [] e[1] = "Call" -> infer_call(e[2], e[3], env, ctx)
        [] e[1] = "If" /\ e[4] = <<>> -> Got(IF all.t[2] = Unknown THEN Unknown ELSE Unit_, all.d)
        [] e[1] = "If" /\ e[4] /= <<>> ->
             LET u == unify_branches(all.t[2], all.t[3]) IN Got(u.t, all.d \o u.d)
        [] e[1] = "Match" ->
             LET arms == infer_match_arms(Tail(all.t)) IN Got(arms.t, all.d \o arms.d)
        [] e[1] = "Return" ->
             IF e[2] = <<>> THEN Got(ctx.declared, <<>>)
             ELSE Got(ctx.declared,
                      all.d \o return_mismatch_diagnostics(ctx.declared, refine(e[2], ctx.declared, all.t[1])))
        [] e[1] = "Construct" -> Got(infer_construct(e[2], all.t), all.d)
        [] e[1] = "Try" ->
             Got(IF all.t[1][1] = "Generic" /\ all.t[1][2] = "Result" /\ all.t[1][3] /= <<>>
                 THEN all.t[1][3][1] ELSE Unknown, all.d)
        [] e[1] = "Lambda" -> infer_lambda(e, env, ctx)
        [] e[1] = "Binary" ->
             LET b == infer_binary(e[2], e[3], e[4], all.t[1], all.t[2]) IN Got(b.t, all.d \o b.d)
        [] e[1] = "Unary" -> LET u == infer_unary(e[3], all.t[1]) IN Got(u.t, all.d \o u.d)
        [] e[1] \in {"InterpString", "RawStr"} -> Got(Prim("Str"), all.d)
        [] OTHER -> Got(Unknown, all.d)

\* check_module_bodies: every function in turn.
check_function(symbol, returns) ==
  LET params == parse_parameters(symbol.sig)
      env == [n \in {params[i][1] : i \in DOMAIN params} |->
                params[Max({i \in DOMAIN params : params[i][1] = n})][2]]
      declared == parse_return_type(symbol.sig)
      r == infer_expr(symbol.body, env, [returns |-> returns, declared |-> declared])
  IN  r.d \o return_mismatch_diagnostics(declared, r.t)
check_module_bodies(symbols) ==
  FlattenSeq([i \in DOMAIN symbols |->
    IF symbols[i].body = <<>> THEN <<>> ELSE check_function(symbols[i], collect_function_returns(symbols))])
----------------------------------------------------------------------------
\* The values of a type.
RECURSIVE HasType(_, _)
HasType(v, ty) ==
  CASE ty[1] = "Primitive" -> v[1] = ty[2]
    [] ty[1] = "Generic" /\ ty[2] = "Result" ->
         \/ v[1] = "Ok" /\ HasType(v[2], ty[3][1])
         \/ v[1] = "Err" /\ HasType(v[2], ty[3][2])
    [] ty[1] = "Generic" /\ ty[2] = "Option" -> v[1] = "None" \/ (v[1] = "Some" /\ HasType(v[2], ty[3][1]))
    [] OTHER -> TRUE
=============================================================================
