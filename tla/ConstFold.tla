----------------------------- MODULE ConstFold -----------------------------
(***************************************************************************)
(* The constant folder (crates/ori-compiler/src/const_fold.rs), on the     *)
(* expressions of ExprTree: subtrees first, then one rule at the top.      *)
(***************************************************************************)
EXTENDS Integers, Sequences, ExprTree

IsLit(e) == e /= <<>> /\ e[1] = "Lit"
UnitLit == <<"Lit", <<"Unit">>>>
literals_equal(a, b) == a[1] = b[1] /\ a = b

rewrite_if(cond, then_branch, else_branch) ==
  CASE cond = <<"Lit", <<"Bool", TRUE>>>> -> then_branch
    [] cond = <<"Lit", <<"Bool", FALSE>>>> -> IF else_branch = <<>> THEN UnitLit ELSE else_branch
    [] OTHER -> <<"If", cond, then_branch, else_branch>>

\* Without statements a literal stands for its block, and an empty block
\* for the unit.
rewrite_block(stmts, tail) ==
  CASE stmts = <<>> /\ IsLit(tail) -> tail
    [] stmts = <<>> /\ tail = <<>> -> UnitLit
    [] OTHER -> <<"Block", stmts, tail>>

rewrite_try(inner) ==
  IF inner[1] = "Construct" /\ inner[2] \in {"Ok", "Err"} /\ Len(inner[3]) = 1
  THEN IF inner[2] = "Ok" THEN inner[3][1] ELSE inner
  ELSE <<"Try", inner>>

\* The first arm whose pattern is the literal or takes anything; the body is
\* taken as it is, with the name a binding gives unbound.
Takes(pattern, lit) == \/ pattern[1] \in {"Wildcard", "Binding"}
                       \/ pattern[1] = "Literal" /\ literals_equal(pattern[2], lit)
Taking(scrutinee, arms) == IF IsLit(scrutinee) THEN {i \in DOMAIN arms : Takes(arms[i][1], scrutinee[2])} ELSE {}

\* Mutant: the first arm is taken without looking at its pattern.
rewrite_match_mutant(scrutinee, arms) ==
  IF IsLit(scrutinee) /\ arms /= <<>> THEN arms[1][2] ELSE <<"Match", scrutinee, arms>>

\* A literal goes to the first arm that takes it.
rewrite_match(scrutinee, arms) ==
  IF Taking(scrutinee, arms) = {} THEN <<"Match", scrutinee, arms>>
  ELSE arms[Min(Taking(scrutinee, arms))][2]

rewrite(e) ==
  CASE e[1] = "If" -> rewrite_if(e[2], e[3], e[4])
    [] e[1] = "Block" -> rewrite_block(e[2], e[3])
    [] e[1] = "Try" -> rewrite_try(e[2])
    [] e[1] = "Match" -> rewrite_match(e[2], e[3])
    [] OTHER -> e

RECURSIVE fold_expr(_), walk(_)
fold_opt(e) == IF e = <<>> THEN <<>> ELSE fold_expr(e)
fold_each(es) == [i \in DOMAIN es |-> fold_expr(es[i])]
fold_stmt(s) == [s EXCEPT ![2] = fold_opt(@)]
walk(e) ==
  CASE e[1] = "Call" -> <<"Call", fold_expr(e[2]), fold_each(e[3])>>
    [] e[1] \in {"Field", "Try", "Return", "Unary"} -> [e EXCEPT ![2] = fold_opt(@)]
    [] e[1] = "Block" -> <<"Block", [i \in DOMAIN e[2] |-> fold_stmt(e[2][i])], fold_opt(e[3])>>
    [] e[1] = "If" -> <<"If", fold_expr(e[2]), fold_expr(e[3]), fold_opt(e[4])>>
    [] e[1] = "Match" -> <<"Match", fold_expr(e[2]), [i \in DOMAIN e[3] |-> <<e[3][i][1], fold_expr(e[3][i][2])>>]>>
    [] e[1] = "Construct" -> <<"Construct", e[2], fold_each(e[3])>>
    [] e[1] = "Tuple" -> <<"Tuple", fold_each(e[2])>>
    [] e[1] = "Record" -> <<"Record", [i \in DOMAIN e[2] |-> <<e[2][i][1], fold_expr(e[2][i][2])>>]>>
    [] e[1] = "Lambda" -> <<"Lambda", e[2], fold_expr(e[3])>>
    [] e[1] = "Binary" -> <<"Binary", e[2], fold_expr(e[3]), fold_expr(e[4])>>
    [] OTHER -> e
fold_expr(e) == rewrite(walk(e))
----------------------------------------------------------------------------
\* Two rules change what an expression does: `?` on an error no longer
\* leaves the function, and a binding arm loses its name.
RECURSIVE Changes(_)
Changes(e) ==
  LET w == walk(e)
      here == CASE e[1] = "Try" -> w[2][1] = "Construct" /\ w[2][2] = "Err"
                [] e[1] = "Match" -> LET arms == Taking(w[2], w[3])
                                     IN  arms /= {} /\ w[3][Min(arms)][1][1] = "Binding"
                [] OTHER -> FALSE
      p == Parts(e)
  IN  here \/ \E i \in DOMAIN p : Changes(p[i])
=============================================================================
