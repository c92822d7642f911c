----------------------------- MODULE ExprParser -----------------------------
(***************************************************************************)
(* The parser of function bodies, crates/ori-compiler/src/expr.rs, with    *)
(* the operators of expr_ops.rs.                                           *)
(*                                                                         *)
(* A token is <<kind, lexeme, glued>>: glued when it starts where the one  *)
(* before it ends. The lexeme of a string is the sequence of its           *)
(* characters, and a name in the hole of a string is one character. A      *)
(* parsing operator takes the tokens and a position and answers [e, i, d]: *)
(* what it built, where it stopped and the codes it reported. Expressions  *)
(* have the shapes the interpreter evaluates; types are skipped.           *)
(***************************************************************************)
EXTENDS Integers, Sequences, StringLits

LOCAL INSTANCE SequencesExt

Error == <<"Error">>
UnitLit == <<"Lit", <<"Unit">>>>
Got(e, i, d) == [e |-> e, i |-> i, d |-> d]
at_eof(ts, i) == i > Len(ts)
Kind(ts, i) == IF at_eof(ts, i) THEN "eof" ELSE ts[i][1]
Lexeme(ts, i) == IF Kind(ts, i) \in {"eof", "string"} THEN "" ELSE ts[i][2]
check_symbol(ts, i, s) == Kind(ts, i) = "symbol" /\ Lexeme(ts, i) = s
check_keyword(ts, i, s) == Kind(ts, i) = "keyword" /\ Lexeme(ts, i) = s
\* eat_symbol, eat_keyword when nothing depends on whether it was there.
Skip(ts, i, s) == IF check_symbol(ts, i, s) \/ check_keyword(ts, i, s) THEN i + 1 ELSE i

is_constructor_name(name) == name \in {"Ok", "Err", "Some", "None", "Unit", "A", "B"}
is_at_stmt_terminator(ts, i) == at_eof(ts, i) \/ check_symbol(ts, i, ";")
is_at_expr_terminator(ts, i) ==
  \/ at_eof(ts, i)
  \/ Kind(ts, i) = "symbol" /\ Lexeme(ts, i) \in {";", ",", ")", "}", "]", "=>", "->", "|", ":"}
  \/ check_keyword(ts, i, "else")
next_is_glued_question(ts, i) ==
  check_symbol(ts, i, "?") /\ check_symbol(ts, i + 1, "?") /\ ts[i + 1][3]

\* expr_ops: how tight an operator binds.
BinOps == {"+", "-", "*", "/", "%", "==", "!=", "<", "<=", ">", ">=", "&&", "||"}
UnOps == {"-", "!"}
precedence(op) ==
  CASE op = "||" -> 1 [] op = "&&" -> 2 [] op \in {"==", "!="} -> 3
    [] op \in {"<", "<=", ">", ">="} -> 4 [] op \in {"+", "-"} -> 5
    [] op \in {"*", "/", "%"} -> 6 [] op = "??" -> 7

is_right_associative(op) == op = "??"

\* The operator at i, or none.
peek_binop(ts, i) ==
  IF next_is_glued_question(ts, i) THEN "??"
  ELSE IF Kind(ts, i) = "symbol" /\ Lexeme(ts, i) \in BinOps THEN Lexeme(ts, i) ELSE "none"

\* The kind of a character in the hole of a string.
lex_hole(text) ==
  [k \in DOMAIN text |-> IF text[k] \in BinOps \cup {"?", ".", ","} THEN <<"symbol", text[k], TRUE>>
                         ELSE <<"ident", text[k], TRUE>>]

RECURSIVE parse_binary_expr(_, _, _), parse_unary_expr(_, _), parse_postfix(_, _), parse_primary(_, _),
          parse_items(_, _, _, _, _, _, _), parse_fields(_, _, _, _), parse_arms(_, _, _, _),
          parse_pattern(_, _), parse_params(_, _, _, _), parse_type_ref(_, _), parse_stmts(_, _, _, _),
          parse_body(_), lower_parts(_, _, _)

parse_expr(ts, i) == parse_binary_expr(ts, i, 0)

\* Types are read for the tokens they take.
parse_type_ref(ts, i) ==
  IF Kind(ts, i) \notin {"ident", "keyword"} THEN Got(<<>>, i, <<>>)
  ELSE IF check_symbol(ts, i + 1, "[") THEN parse_items("type", "]", <<>>, ts, i + 2, <<>>, <<>>)
  ELSE Got(<<>>, i + 1, <<>>)

\* After an item r of a list. A comma may be missing; what takes no token is skipped.
item_done(kind, close, code, ts, i, acc, r) ==
  CASE check_symbol(ts, r.i, ",") -> parse_items(kind, close, code, ts, r.i + 1, acc, r.d)
    [] check_symbol(ts, r.i, close) -> Got(acc, r.i + 1, r.d)
    [] OTHER -> parse_items(kind, close, code, ts, IF r.i = i THEN i + 1 ELSE r.i, acc, r.d)

\* What is reported comes before what r reports; and the node that r becomes.
Before(d, r) == [r EXCEPT !.d = d \o @]
Node(shape, r) == [r EXCEPT !.e = <<shape, @>>]

\* The loop all lists share: arguments, tuples, lists, patterns and type arguments,
\* up to the closing symbol.
parse_items(kind, close, code, ts, i, acc, d) ==
  IF check_symbol(ts, i, close) THEN Got(acc, i + 1, d)
  ELSE IF at_eof(ts, i) THEN Got(acc, i, d \o code)
  ELSE LET Item(r) == item_done(kind, close, code, ts, i, Append(acc, r.e), Before(d, r))
       IN  Item(CASE kind = "expr" -> parse_expr(ts, i)
                  [] kind = "pattern" -> parse_pattern(ts, i)
                  [] kind = "type" -> parse_type_ref(ts, i))
parse_call_args(ts, i) == parse_items("expr", ")", <<"E1120">>, ts, i + 1, <<>>, <<>>)

\* A pattern; one that is not understood takes a token and matches all.
parse_pattern(ts, i) ==
  CASE Kind(ts, i) = "ident" /\ Lexeme(ts, i) = "_" -> Got(<<"Wildcard">>, i + 1, <<>>)
    [] Kind(ts, i) = "ident" /\ Lexeme(ts, i) /= "_" ->
         IF ~is_constructor_name(Lexeme(ts, i)) THEN Got(<<"Binding", Lexeme(ts, i)>>, i + 1, <<>>)
         ELSE IF check_symbol(ts, i + 1, "(")
              THEN [parse_items("pattern", ")", <<>>, ts, i + 2, <<>>, <<>>)
                      EXCEPT !.e = <<"Constructor", Lexeme(ts, i), @>>]
              ELSE Got(<<"Constructor", Lexeme(ts, i), <<>>>>, i + 1, <<>>)
    [] Kind(ts, i) = "number" -> Got(<<"Literal", <<"Int", Lexeme(ts, i)>>>>, i + 1, <<>>)
    [] Kind(ts, i) = "string" -> Got(<<"Literal", <<"Str", ts[i][2]>>>>, i + 1, <<>>)
    [] Kind(ts, i) = "eof" -> Got(<<"Wildcard">>, i, <<>>)
    [] OTHER -> Got(<<"Wildcard">>, i + 1, <<>>)

\* The arms of a match; each but the first needs its bar, and all their arrow.
arm_done(ts, arms, p, body) ==
  LET next == Skip(ts, body.i, ",")
      more == Append(arms, <<p.e, body.e>>)
  IN  IF check_symbol(ts, next, "|") THEN parse_arms(ts, next, more, p.d \o body.d)
      ELSE Got(more, next, p.d \o body.d)
parse_arm(ts, i, arms, p) ==
  IF check_symbol(ts, p.i, "=>") \/ check_symbol(ts, p.i, "->")
  THEN arm_done(ts, arms, p, parse_expr(ts, p.i + 1))
  ELSE parse_arms(ts, IF p.i = i THEN i + 1 ELSE p.i, arms, Append(p.d, "E1130"))
parse_arms(ts, i, arms, d) ==
  LET bar == check_symbol(ts, i, "|")
      j == IF bar THEN i + 1 ELSE i
  IN  IF at_eof(ts, j) \/ (~bar /\ arms /= <<>>) THEN Got(arms, j, d)
      ELSE parse_arm(ts, j, arms, Before(d, parse_pattern(ts, j)))

\* The fields of a record, up to the brace.
field_done(ts, i, fields, r) ==
  CASE check_symbol(ts, r.i, ",") -> parse_fields(ts, r.i + 1, fields, r.d)
    [] check_symbol(ts, r.i, "}") -> Got(fields, r.i + 1, r.d)
    [] OTHER -> parse_fields(ts, IF r.i = i THEN i + 1 ELSE r.i, fields, r.d)
parse_fields(ts, i, fields, d) ==
  CASE check_symbol(ts, i, "}") -> Got(fields, i + 1, d)
    [] at_eof(ts, i) -> Got(fields, i, Append(d, "E1124"))
    [] Kind(ts, i) \in {"ident", "keyword"} ->
         IF ~check_symbol(ts, i + 1, ":")
         THEN parse_fields(ts, Skip(ts, i + 1, ","), Append(fields, <<Lexeme(ts, i), Error>>),
                           Append(d, "E1126"))
         ELSE LET Field(r) == field_done(ts, i + 2, Append(fields, <<Lexeme(ts, i), r.e>>), Before(d, r))
              IN  Field(parse_expr(ts, i + 2))
    [] OTHER -> parse_fields(ts, i + 1, fields, Append(d, "E1125"))
parse_record(ts, i) == Node("Record", parse_fields(ts, i + 1, <<>>, <<>>))

\* The parameters of a lambda.
parse_params(ts, i, params, d) ==
  IF check_symbol(ts, i, ")") THEN Got(params, i + 1, d)
  ELSE IF at_eof(ts, i) THEN Got(params, i, d)
  ELSE LET named == Kind(ts, i) = "ident"
           all == Append(params, IF named THEN Lexeme(ts, i) ELSE "_")
           typed == IF check_symbol(ts, i + 1, ":") THEN parse_type_ref(ts, i + 2).i ELSE i + 1
           codes == IF named THEN d ELSE Append(d, "E1140")
       IN  IF check_symbol(ts, typed, ")") THEN Got(all, typed + 1, codes)
           ELSE parse_params(ts, Skip(ts, typed, ","), all, codes)
parse_lambda(ts, i) ==
  LET Body(p) == [Before(p.d, parse_expr(ts, Skip(ts, Skip(ts, p.i, "=>"), ":"))) EXCEPT !.e = <<"Lambda", p.e, @>>]
  IN  Body(IF check_symbol(ts, i + 1, "(") THEN parse_params(ts, i + 2, <<>>, <<>>) ELSE Got(<<>>, i + 1, <<>>))

paren_or_tuple(ts, first) ==
  CASE check_symbol(ts, first.i, ")") -> Got(first.e, first.i + 1, first.d)
    [] check_symbol(ts, first.i, ",") ->
         Node("Tuple", parse_items("expr", ")", <<"E1121">>, ts, first.i + 1, <<first.e>>, first.d))
    [] OTHER -> Got(first.e, first.i, Append(first.d, "E1122"))
parse_paren_or_tuple(ts, i) ==
  IF check_symbol(ts, i + 1, ")") THEN Got(UnitLit, i + 2, <<>>) ELSE paren_or_tuple(ts, parse_expr(ts, i + 1))

\* A string with holes becomes an interpolated one, each hole parsed as a body; an
\* empty hole and a malformed literal are reported.
lower_parts(parts, acc, d) ==
  IF parts = <<>> THEN Got(acc, 0, d)
  ELSE LET p == Head(parts)
           Hole(r) == lower_parts(Tail(parts), Append(acc, r.e), d \o r.d)
       IN  IF p[1] = "Lit" THEN lower_parts(Tail(parts), acc, d)
           ELSE Hole(IF p[2] = <<>> THEN Got(Error, 0, <<"S1302">>) ELSE parse_body(lex_hole(p[2])))
RECURSIVE lexeme_has_unescaped_brace(_)
lexeme_has_unescaped_brace(s) ==
  s /= <<>> /\ (\/ Head(s) = "{"
                \/ Head(s) = Slash /\ Len(s) > 1 /\ lexeme_has_unescaped_brace(Tail(Tail(s)))
                \/ Head(s) \notin {"{", Slash} /\ lexeme_has_unescaped_brace(Tail(s)))
lower_literal(plain, lit) ==
  IF lit.kind \notin {"Plain", "Interpolated", "Multiline", "Raw"} THEN Got(plain, 0, <<lit.kind>>)
  ELSE IF ~is_interpolated(lit) THEN Got(<<"Lit", <<"Str", lit.parts[1][2]>>>>, 0, <<>>)
  ELSE Node("InterpString", lower_parts(lit.parts, <<>>, <<>>))
build_string_expr(s) ==
  LET plain == <<"Lit", <<"Str", s>>>>
  IN  IF ~lexeme_has_unescaped_brace(s) THEN Got(plain, 0, <<>>)
      ELSE lower_literal(plain, lex_string_extended(<<Quote>> \o s \o <<Quote>>))

\* `r`, hashes and a string, all glued, are a raw string: how many hashes, or -1.
RECURSIVE raw_hashes(_, _, _)
raw_hashes(ts, i, n) ==
  IF at_eof(ts, i) \/ ~ts[i][3] THEN -1
  ELSE IF check_symbol(ts, i, "#") THEN raw_hashes(ts, i + 1, n + 1)
  ELSE IF Kind(ts, i) = "string" THEN n ELSE -1

\* An `if` or `else` takes one statement.
parse_branch_block(ts, i) ==
  IF check_keyword(ts, i, "else") \/ at_eof(ts, i) THEN Got(UnitLit, i, <<>>)
  ELSE [parse_stmts("one", ts, i, <<>>) EXCEPT !.e = IF @[1] = "Expr" THEN @[2] ELSE <<"Block", <<@>>, <<>>>>]
parse_else(ts, cond, then) ==
  IF check_keyword(ts, then.i, "else")
  THEN [Before(then.d, parse_branch_block(ts, Skip(ts, then.i + 1, ":"))) EXCEPT !.e = <<"If", cond.e, then.e, @>>]
  ELSE [then EXCEPT !.e = <<"If", cond.e, @, <<>>>>]
parse_then(ts, cond) ==
  Before(cond.d, parse_else(ts, cond, parse_branch_block(ts, Skip(ts, cond.i, ":"))))
parse_if(ts, i) == parse_then(ts, parse_expr(ts, i + 1))
parse_match(ts, i) ==
  LET Arms(on) == [parse_arms(ts, Skip(ts, on.i, ":"), <<>>, on.d) EXCEPT !.e = <<"Match", on.e, @>>]
  IN  Arms(parse_expr(ts, i + 1))

\* A value that is an Error is dropped from its `return`.
parse_return(ts, i) ==
  IF is_at_stmt_terminator(ts, i + 1) THEN Got(<<"Return", <<>>>>, i + 1, <<>>)
  ELSE [parse_expr(ts, i + 1) EXCEPT !.e = <<"Return", IF @ = Error THEN <<>> ELSE @>>]

parse_ident(ts, i) ==
  LET name == Lexeme(ts, i)
      hashes == IF name = "r" THEN raw_hashes(ts, i + 1, 0) ELSE -1
  IN  IF hashes >= 0 THEN Got(<<"RawStr", ts[i + 1 + hashes][2], hashes>>, i + 2 + hashes, <<>>)
      ELSE IF check_symbol(ts, i + 1, "{")
           THEN [parse_record(ts, i + 1) EXCEPT !.e = <<"Construct", name, <<@>>>>]
      ELSE IF ~is_constructor_name(name) THEN Got(<<"Var", name>>, i + 1, <<>>)
      ELSE IF check_symbol(ts, i + 1, "(")
           THEN [parse_call_args(ts, i + 1) EXCEPT !.e = <<"Construct", name, @>>]
      ELSE Got(<<"Construct", name, <<>>>>, i + 1, <<>>)

parse_primary(ts, i) ==
  CASE Kind(ts, i) = "eof" -> Got(UnitLit, i, <<>>)
    [] Kind(ts, i) = "number" -> Got(<<"Lit", <<"Int", Lexeme(ts, i)>>>>, i + 1, <<>>)
    [] Kind(ts, i) = "string" -> [build_string_expr(ts[i][2]) EXCEPT !.i = i + 1]
    [] check_keyword(ts, i, "if") -> parse_if(ts, i)
    [] check_keyword(ts, i, "match") -> parse_match(ts, i)
    [] check_keyword(ts, i, "return") -> parse_return(ts, i)
    [] check_keyword(ts, i, "fn") -> parse_lambda(ts, i)
    [] Kind(ts, i) = "ident" -> parse_ident(ts, i)
    [] check_symbol(ts, i, "(") -> parse_paren_or_tuple(ts, i)
    [] check_symbol(ts, i, "{") -> parse_record(ts, i)
    [] check_symbol(ts, i, "[") ->
         [parse_items("expr", "]", <<"E1123">>, ts, i + 1, <<>>, <<>>) EXCEPT !.e = <<"Construct", "List", @>>]
    [] OTHER -> Got(Error, i + 1, <<"E1100">>)

\* What follows an expression: fields, arguments and `?`, but not half of a `??`.
RECURSIVE postfix(_, _)
postfix(ts, r) ==
  CASE check_symbol(ts, r.i, ".") ->
         IF Kind(ts, r.i + 1) \in {"ident", "keyword"}
         THEN postfix(ts, Got(<<"Field", r.e, Lexeme(ts, r.i + 1)>>, r.i + 2, r.d))
         ELSE postfix(ts, Got(Error, r.i + 1, Append(r.d, "E1110")))
    [] check_symbol(ts, r.i, "(") ->
         postfix(ts, [Before(r.d, parse_call_args(ts, r.i)) EXCEPT !.e = <<"Call", r.e, @>>])
    [] check_symbol(ts, r.i, "?") /\ ~next_is_glued_question(ts, r.i) ->
         postfix(ts, Got(<<"Try", r.e>>, r.i + 1, r.d))
    [] OTHER -> r
parse_postfix(ts, i) == postfix(ts, parse_primary(ts, i))

parse_unary_expr(ts, i) ==
  IF ~(Kind(ts, i) = "symbol" /\ Lexeme(ts, i) \in UnOps) THEN parse_postfix(ts, i)
  ELSE IF is_at_expr_terminator(ts, i + 1) THEN Got(<<"Unary", Error, Lexeme(ts, i)>>, i + 1, <<"E1200">>)
  ELSE [parse_unary_expr(ts, i + 1) EXCEPT !.e = <<"Unary", @, Lexeme(ts, i)>>]

\* The climbing loop: an operator that binds at least as tight as `min` takes what is
\* there for its left side and climbs on for its right one.
RECURSIVE climb(_, _, _)
climb_with(ts, op, left, min) ==
  LET at == left.i + (IF op = "??" THEN 2 ELSE 1)
  IN  IF op = "none" THEN left
      ELSE IF precedence(op) < min THEN left
      ELSE IF is_at_expr_terminator(ts, at)
           THEN Got(<<"Binary", op, left.e, Error>>, at, Append(left.d, "E1200"))
      ELSE climb(ts, [Before(left.d, parse_binary_expr(ts, at, precedence(op) + (IF is_right_associative(op) THEN 0 ELSE 1)))
                        EXCEPT !.e = <<"Binary", op, left.e, @>>], min)
climb(ts, left, min) == climb_with(ts, peek_binop(ts, left.i), left, min)
parse_binary_expr(ts, i, min) == climb(ts, parse_unary_expr(ts, i), min)

\* A binding. Without its `=`, or with nothing after it, the initialiser is an Error.
parse_init(ts, i, name, codes) ==
  IF ~check_symbol(ts, i, "=") THEN Got(<<"Let", Error, name>>, i, Append(codes, "E1102"))
  ELSE IF is_at_stmt_terminator(ts, i + 1) THEN Got(<<"Let", Error, name>>, i + 1, Append(codes, "E1103"))
  ELSE [Before(codes, parse_expr(ts, i + 1)) EXCEPT !.e = <<"Let", @, name>>]
parse_let(ts, i) ==
  LET n == Skip(ts, i + 1, "mut")
      named == Kind(ts, n) = "ident"
      after == IF named THEN n + 1 ELSE n
      typed == IF check_symbol(ts, after, ":") THEN parse_type_ref(ts, after + 1).i ELSE after
  IN  parse_init(ts, typed, IF named THEN Lexeme(ts, n) ELSE "_", IF named THEN <<>> ELSE <<"E1101">>)

parse_stmt(ts, i) ==
  IF check_keyword(ts, i, "let") \/ check_keyword(ts, i, "var") THEN parse_let(ts, i)
  ELSE IF check_keyword(ts, i, "return") THEN parse_return(ts, i)
  ELSE Node("Expr", parse_expr(ts, i))

\* recover_to_stmt_boundary: at least one token on, to what may start a statement.
recover(ts, i) ==
  LET starts == {k \in (i + 1)..Len(ts) :
                   \/ check_symbol(ts, k, ";")
                   \/ Kind(ts, k) = "keyword" /\ Lexeme(ts, k) \in {"let", "return", "if", "match"}}
  IN  IF starts = {} THEN Len(ts) + 1 ELSE Min(starts)

\* The statements of a body up to the end of its tokens; "one" asks for the next one.
stmt_done(ts, i, stmts, r) ==
  LET after == Skip(ts, r.i, ";")
      next == IF after = i THEN recover(ts, i) ELSE after
  IN  CASE ~at_eof(ts, after) -> Before(r.d, parse_stmts("all", ts, next, Append(stmts, r.e)))
        [] at_eof(ts, after) /\ r.e[1] = "Expr" -> Got([stmts |-> stmts, tail |-> r.e[2]], after, r.d)
        [] OTHER -> Got([stmts |-> Append(stmts, r.e), tail |-> <<>>], after, r.d)
parse_stmts(mode, ts, i, stmts) ==
  IF mode = "one" THEN parse_stmt(ts, i)
  ELSE IF at_eof(ts, i) THEN Got([stmts |-> stmts, tail |-> <<>>], i, <<>>)
  ELSE IF check_symbol(ts, i, ";") THEN parse_stmts("all", ts, i + 1, stmts)
  ELSE stmt_done(ts, i, stmts, parse_stmt(ts, i))

\* parse_body: a single statement is lifted out of its block.
lift(stmts, tail) ==
  CASE stmts = <<>> -> IF tail = <<>> THEN UnitLit ELSE tail
    [] Len(stmts) = 1 /\ tail = <<>> /\ stmts[1][1] = "Expr" -> stmts[1][2]
    [] Len(stmts) = 1 /\ tail = <<>> /\ stmts[1][1] = "Return" -> stmts[1]
    [] OTHER -> <<"Block", stmts, tail>>
parse_body(ts) ==
  IF at_eof(ts, 1) THEN Got(UnitLit, 1, <<>>)
  ELSE [parse_stmts("all", ts, 1, <<>>) EXCEPT !.e = lift(@.stmts, @.tail)]
----------------------------------------------------------------------------
\* The tokens of a tree of operators, with the parentheses its grouping needs and no
\* more: an operand in a place that binds tighter than it does, or as tight on the
\* side the operator does not group to.
T(kind, lexeme) == <<<<kind, lexeme, FALSE>>>>
Sym(s) == IF s = "??" THEN <<<<"symbol", "?", FALSE>>, <<"symbol", "?", TRUE>>>> ELSE T("symbol", s)
Level(e) == CASE e[1] = "Binary" -> precedence(e[2]) [] e[1] = "Unary" -> 8 [] OTHER -> 9
RECURSIVE Render(_)
Render(e) ==
  LET Under(x, level) == IF Level(x) < level THEN Sym("(") \o Render(x) \o Sym(")") ELSE Render(x)
      RightFirst(op) == op = "??"
  IN  CASE e[1] = "Var" -> T("ident", e[2])
        [] e[1] = "Binary" -> Under(e[3], precedence(e[2]) + (IF RightFirst(e[2]) THEN 1 ELSE 0)) \o Sym(e[2])
                              \o Under(e[4], precedence(e[2]) + (IF RightFirst(e[2]) THEN 0 ELSE 1))
        [] e[1] = "Unary" -> Sym(e[3]) \o Under(e[2], 8)
        [] e[1] = "Try" -> Under(e[2], 9) \o Sym("?")
        [] e[1] = "Field" -> Under(e[2], 9) \o Sym(".") \o T("ident", e[3])
        [] e[1] = "Call" -> Under(e[2], 9) \o Sym("(") \o Render(e[3][1]) \o Sym(")")

\* A tree that is written down with the parentheses it needs is read back as it was.
IsWhole(tree, ts) == parse_body(ts) = Got(tree, Len(ts) + 1, <<>>)
GroupingIsKept(tree) == IsWhole(tree, Render(tree))

\* Whatever the tokens, the parser ends at their end, and it leaves an Error in the
\* tree only when it has reported something.
RECURSIVE HasError(_)
HasError(e) ==
  CASE e = <<>> -> FALSE
    [] e /= <<>> ->
      CASE e[1] = "Error" -> TRUE
        [] e[1] \in {"Unary", "Try", "Field", "Return", "Let", "Expr"} -> HasError(e[2])
        [] e[1] = "Binary" -> HasError(e[3]) \/ HasError(e[4])
        [] e[1] = "If" -> HasError(e[2]) \/ HasError(e[3]) \/ HasError(e[4])
        [] e[1] = "Block" -> HasError(e[3]) \/ \E i \in DOMAIN e[2] : HasError(e[2][i])
        [] e[1] = "Call" -> HasError(e[2]) \/ \E i \in DOMAIN e[3] : HasError(e[3][i])
        [] e[1] = "Construct" -> \E i \in DOMAIN e[3] : HasError(e[3][i])
        [] e[1] \in {"Tuple", "InterpString"} -> \E i \in DOMAIN e[2] : HasError(e[2][i])
        [] e[1] = "Record" -> \E i \in DOMAIN e[2] : HasError(e[2][i][2])
        [] e[1] = "Lambda" -> HasError(e[3])
        [] e[1] = "Match" -> HasError(e[2]) \/ \E i \in DOMAIN e[3] : HasError(e[3][i][2])
        [] OTHER -> FALSE
EndsWell(ts, r) == r.i > Len(ts) /\ (HasError(r.e) => r.d /= <<>>)
ParsingEnds(ts) == EndsWell(ts, parse_body(ts))
=============================================================================
