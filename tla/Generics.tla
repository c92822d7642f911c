------------------------------ MODULE Generics ------------------------------
(***************************************************************************)
(* Generic instantiation by unification                                    *)
(* (crates/ori-compiler/src/generics.rs).  A type is a tagged tuple; the   *)
(* parameters and the result of a function type are one sequence, since    *)
(* every operation treats the result as one more component.  A             *)
(* substitution is a function on the tags it binds.  Tags are u32: MaxTag  *)
(* stands for u32::MAX, where the counter of fresh tags saturates.         *)
(***************************************************************************)
EXTENDS Integers, Sequences, FiniteSets, SequencesExt

CONSTANT MaxTag

Primitive(n) == <<"Primitive", n>>
Named(n) == <<"Named", n>>
Generic(n, args) == <<"Generic", n, args>>
Fn(params, ret) == <<"Fn", "", Append(params, ret)>>
Unknown == <<"Unknown">>
TyVar(n) == <<"Var", n>>
\* The components of a type; a leaf has none.
Inner(ty) == IF ty[1] \in {"Generic", "Fn"} THEN ty[3] ELSE <<>>
Rebuilt(ty, f) == IF Inner(ty) = <<>> THEN ty ELSE <<ty[1], ty[2], f>>
IsVar(ty) == ty[1] = "Var"

\* The three errors with the types or the variable they name; no error.
CannotUnify(left, right) == <<"E0230", left, right>>
OccursCheck(var, ty) == <<"E0231", var, ty>>
UnresolvedTypeVar(var) == <<"E0232", var>>
Ok == <<>>
----------------------------------------------------------------------------
(* Substitutions. *)
NoSubst == [v \in {} |-> Unknown]
insert(s, var, ty) == [v \in DOMAIN s \cup {var} |-> IF v = var THEN ty ELSE s[v]]

\* A bound variable is resolved through the whole chain of bindings, without
\* end when the chain comes back to a variable it went through: Loop.
Loop == <<"Loop">>
RECURSIVE resolve(_, _, _)
resolve(s, ty, through) ==
  CASE IsVar(ty) /\ ty[2] \in through -> Loop
    [] IsVar(ty) /\ ty[2] \in DOMAIN s \ through -> resolve(s, s[ty[2]], through \cup {ty[2]})
    [] IsVar(ty) /\ ty[2] \notin DOMAIN s \cup through -> ty
    [] ~IsVar(ty) -> Rebuilt(ty, [i \in DOMAIN Inner(ty) |-> resolve(s, Inner(ty)[i], through)])
apply(s, ty) == resolve(s, ty, {})

\* The bindings of other pushed through s, under those of s.
compose(s, other) ==
  [v \in DOMAIN s \cup DOMAIN other |-> IF v \in DOMAIN s THEN s[v] ELSE apply(s, other[v])]

RECURSIVE free_vars(_)
free_vars(ty) ==
  IF IsVar(ty) THEN {ty[2]} ELSE UNION {free_vars(Inner(ty)[i]) : i \in DOMAIN Inner(ty)}

RECURSIVE occurs(_, _, _)
occurs(var, ty, s) ==
  IF IsVar(ty) THEN \/ ty[2] = var
                    \/ ty[2] \in DOMAIN s /\ occurs(var, s[ty[2]], s)
               ELSE \E i \in DOMAIN Inner(ty) : occurs(var, Inner(ty)[i], s)
----------------------------------------------------------------------------
(* Unification.  The substitution is updated in place, so it keeps the     *)
(* bindings made before a failure.                                         *)
Result(s, err) == [s |-> s, err |-> err]
bind_var(var, ty, s) ==
  CASE ty = TyVar(var)     -> Result(s, Ok)
    [] occurs(var, ty, s)  -> Result(s, OccursCheck(var, apply(s, ty)))
    [] OTHER               -> Result(insert(s, var, ty), Ok)
SameName(a, b) == {a[1], b[1]} \subseteq {"Primitive", "Named"} /\ a[2] = b[2]
SameShape(a, b) == /\ a[1] = b[1] /\ a[1] \in {"Generic", "Fn"}
                   /\ a[2] = b[2] /\ Len(a[3]) = Len(b[3])

RECURSIVE unify(_, _, _), unify_each(_, _, _)
unify(left, right, s) ==
  LET a == apply(s, left)
      b == apply(s, right)
  IN  CASE Unknown \in {a, b} \/ (IsVar(a) /\ a = b) -> Result(s, Ok)
        [] IsVar(a) /\ a /= b                        -> bind_var(a[2], b, s)
        [] IsVar(b) /\ ~IsVar(a)                     -> bind_var(b[2], a, s)
        [] SameName(a, b)                            -> Result(s, Ok)
        [] SameShape(a, b)                           -> unify_each(a[3], b[3], s)
        [] OTHER                                     -> Result(s, CannotUnify(a, b))

\* Mutant: each component is unified without the bindings of the others.
unify_each_mutant(as, bs, s) ==
  IF \E i \in DOMAIN as : unify(as[i], bs[i], s).err /= Ok THEN Result(s, CannotUnify(as, bs))
  ELSE IF as = <<>> THEN Result(s, Ok) ELSE unify(Last(as), Last(bs), s)

\* The first component that fails ends the loop; each sees the bindings of
\* the ones before it.
unify_each(as, bs, s) ==
  IF as = <<>> THEN Result(s, Ok)
  ELSE LET r == unify(Head(as), Head(bs), s)
       IN  IF r.err /= Ok THEN r ELSE unify_each(Tail(as), Tail(bs), r.s)
----------------------------------------------------------------------------
(* Schemes.  The counter of fresh tags is its next tag; it saturates.      *)
saturating_add(n, k) == IF n + k > MaxTag THEN MaxTag ELSE n + k
advance_to(next, floor) == IF next < floor THEN floor ELSE next
monotype(ty) == [vars |-> <<>>, body |-> ty]
observe(bound_vars, ty) == bound_vars \cup free_vars(ty)
generalize(bound_vars, ty) == [vars |-> SetToSortSeq(free_vars(ty) \ bound_vars, <), body |-> ty]

\* The renamed type and the counter after it: the counter first passes
\* every quantified tag, and each of them, in order, then takes a tag.
instantiate(scheme, next) ==
  LET vars == scheme.vars
      from == advance_to(next, saturating_add(Max(ToSet(vars)), 1))
      last(v) == Max({i \in DOMAIN vars : vars[i] = v})
      renamer == [v \in ToSet(vars) |-> TyVar(saturating_add(from, last(v) - 1))]
  IN  IF vars = <<>> THEN [ty |-> scheme.body, next |-> next]
                     ELSE [ty |-> apply(renamer, scheme.body), next |-> saturating_add(from, Len(vars))]

Called(err, subst, params, ret) == [err |-> err, subst |-> subst, params |-> params, ret |-> ret]
instantiate_call(scheme, args, next) ==
  LET made == instantiate(scheme, next).ty
      params == Front(made[3])
      r == unify_each(params, args, NoSubst)
  IN  CASE made[1] /= "Fn" -> Called(Ok, NoSubst, <<>>, made)
        [] made[1] = "Fn" /\ Len(params) /= Len(args) ->
             Called(CannotUnify(made, Len(args)), NoSubst, <<>>, Unknown)
        [] made[1] = "Fn" /\ Len(params) = Len(args) ->
             IF r.err /= Ok THEN Called(r.err, NoSubst, <<>>, Unknown)
             ELSE Called(Ok, r.s, [i \in DOMAIN params |-> apply(r.s, params[i])], apply(r.s, Last(made[3])))

\* The smallest variable that is left is the one reported.
assert_no_unresolved(ty) == IF free_vars(ty) = {} THEN Ok ELSE UnresolvedTypeVar(Min(free_vars(ty)))
\* Both conversions keep the structure and forget every variable.
RECURSIVE to_typeref(_)
to_typeref(ty) ==
  IF IsVar(ty) THEN Unknown ELSE Rebuilt(ty, [i \in DOMAIN Inner(ty) |-> to_typeref(Inner(ty)[i])])
from_typeref(ty) == to_typeref(ty)
to_typeref_strict(ty) == [err |-> assert_no_unresolved(ty), ty |-> to_typeref(ty)]
unify_typeref(a, b, s) == unify(from_typeref(a), from_typeref(b), s)
----------------------------------------------------------------------------
(* What unification promises, against assignments of closed types.         *)
RECURSIVE Closed(_, _), Has(_, _), Agree(_, _)
\* A type under an assignment; a primitive and a named type of one name are
\* the same type.
Closed(ty, g) ==
  CASE IsVar(ty) -> IF ty[2] \in DOMAIN g THEN g[ty[2]] ELSE ty
    [] ty[1] = "Named" -> Primitive(ty[2])
    [] OTHER -> Rebuilt(ty, [i \in DOMAIN Inner(ty) |-> Closed(Inner(ty)[i], g)])
Has(leaf, ty) == ty = leaf \/ \E i \in DOMAIN Inner(ty) : Has(leaf, Inner(ty)[i])
\* Equal where neither is unknown.
Agree(a, b) ==
  \/ Unknown \in {a, b}
  \/ IsVar(a) /\ a = b
  \/ SameName(a, b)
  \/ SameShape(a, b) /\ \A i \in DOMAIN a[3] : Agree(a[3][i], b[3][i])
Identity == [v \in {} |-> Unknown]

\* Unifying pairs one after the other: a success makes the two sides of
\* every pair agree under bindings that resolve completely, and binds no
\* variable more than the pairs require; a failure means that no assignment
\* makes the pairs equal.  A type the program does not know constrains
\* nothing.
UnifyIsExact(pairs, Ground) ==
  LET ls == [i \in DOMAIN pairs |-> pairs[i][1]]
      rs == [i \in DOMAIN pairs |-> pairs[i][2]]
      r == unify_each(ls, rs, NoSubst)
      vars == UNION {free_vars(ls[i]) \cup free_vars(rs[i]) : i \in DOMAIN pairs}
      known == \A i \in DOMAIN pairs : ~Has(Unknown, ls[i]) /\ ~Has(Unknown, rs[i])
      solves(g) == \A i \in DOMAIN pairs : Closed(ls[i], g) = Closed(rs[i], g)
  IN  /\ r.err = Ok => /\ \A i \in DOMAIN pairs : Agree(apply(r.s, ls[i]), apply(r.s, rs[i]))
                       /\ \A v \in DOMAIN r.s : free_vars(apply(r.s, TyVar(v))) \cap DOMAIN r.s = {}
                       /\ DOMAIN r.s \subseteq vars
      /\ known => \A g \in [vars -> Ground] :
                    solves(g) => /\ r.err = Ok
                                 /\ \A v \in DOMAIN r.s : Closed(r.s[v], g) = g[v]

\* Composing what two pairs bind on their own resolves every type as the
\* second substitution does what the first one left, where the second
\* neither binds nor brings back a variable of the first.
CompositionIsSequential(one, two, ty) ==
  LET s == unify(one[1], one[2], NoSubst).s
      other == unify(two[1], two[2], NoSubst).s
      mentioned == DOMAIN s \cup UNION {free_vars(s[v]) : v \in DOMAIN s}
  IN  mentioned \cap DOMAIN other = {} => apply(compose(s, other), ty) = apply(s, apply(other, ty))

\* A call of a generic function with closed argument types, its counter past
\* every tag in use and with tags left: accepted exactly when some choice of
\* the quantified types gives the parameters those types; the result is then
\* the one of every such choice, with nothing left open but what the
\* arguments leave open; and two instantiations of a scheme never share a
\* variable they renamed.
CallsAreExact(bound, ty, args, next, Ground) ==
  LET scheme == generalize(observe({}, bound), ty)
      q == ToSet(scheme.vars)
      call == instantiate_call(scheme, args, next)
      first == instantiate(scheme, next)
      second == instantiate(scheme, first.next)
      arity == Len(ty[3]) - 1
      fits(g) == \A i \in 1..arity : Closed(ty[3][i], g) = Closed(args[i], Identity)
      open == UNION {free_vars(ty[3][i]) : i \in 1..arity}
  IN  next + 2 * Len(scheme.vars) <= MaxTag =>
      /\ free_vars(first.ty) \cap free_vars(second.ty) = free_vars(ty) \ q
      /\ to_typeref(first.ty) = to_typeref(ty)
      /\ ty[1] = "Fn" /\ Len(args) = arity =>
           /\ \A g \in [q -> Ground] : fits(g) => call.err = Ok
           /\ call.err = Ok /\ free_vars(ty) \subseteq q =>
                /\ \A i \in 1..arity : Agree(call.params[i], args[i])
                /\ \A g \in [q -> Ground] : fits(g) => Agree(Closed(ty[3][arity + 1], g), Closed(to_typeref(call.ret), Identity))
                /\ (to_typeref_strict(call.ret).err = Ok) = (free_vars(ty[3][arity + 1]) \subseteq open)
      /\ ty[1] = "Fn" /\ Len(args) /= arity => call.err = CannotUnify(first.ty, Len(args))

\* At the last tags the counter hands out the same tag again, and a scheme
\* over the last one is renamed without end; nothing else loops.
OnlyTheLastTagLoops(scheme, next) ==
  LET made == instantiate(scheme, next)
  IN  /\ made.next <= MaxTag
      /\ Has(Loop, made.ty) = (MaxTag \in ToSet(scheme.vars) /\ free_vars(scheme.body) \cap ToSet(scheme.vars) /= {})

\* Types of the surface have no variables left to bind once they are lifted:
\* unifying them binds nothing and never meets an endless type.
SurfaceTypesBindNothing(a, b) ==
  LET r == unify_typeref(a, b, NoSubst)
  IN  r.s = NoSubst /\ (r.err = Ok) = Agree(to_typeref(a), to_typeref(b))
=============================================================================
