----------------------------- MODULE MCAnalysis -----------------------------
(***************************************************************************)
(* The passes over a parsed module, over enumerated inputs: a behaviour    *)
(* picks an input, which is then the state the properties are evaluated    *)
(* in, and goes back to pick another.                                      *)
(***************************************************************************)
EXTENDS Integers, Sequences, FiniteSets, TLC

VARIABLE case

Idle == [kind |-> "idle"]
Init == case = Idle
Upto(S, n) == UNION {[1..k -> S] : k \in 0..n}
Var(n) == <<"Var", n>>
Call(f, x) == <<"Call", Var(f), <<Var(x)>>>>
----------------------------------------------------------------------------
\* Bodies of borrows, moves and uses of two names, and signatures.
B == INSTANCE Borrow
Touches == {Call(f, x) : f \in {"borrow", "borrow_mut", "move"}, x \in {"x", "y"}} \cup {Var("x")}
Steps == {<<"Expr", e>> : e \in Touches} \cup {<<"Let", e, "y">> : e \in {Call("borrow", "x"), Call("f", "y")}}
         \cup {<<"Return", <<>>>>, <<"Return", Call("borrow", "y")>>}
Inner == {<<"Block", s, t>> : s \in Upto({<<"Expr", Call("borrow_mut", "x")>>, <<"Let", Var("x"), "y">>}, 1),
                              t \in {<<>>, Call("borrow", "y"), Call("move", "x")}}
         \cup {<<"Lambda", <<p>>, e>> : p \in {"z", "x"}, e \in {Call("borrow_mut", "x"), Var("x")}}
Nested == Inner \cup {<<"If", Var("c"), e, Call("borrow", "y")>> : e \in Inner}
Bodies == {<<"Block", s, t>> : s \in Upto(Steps, 3), t \in {<<>>, Var("x"), Call("borrow", "y")}}
          \cup {<<"Block", <<s, <<"Expr", e>>, u>>, t>> : s \in Steps, u \in Steps, e \in Nested,
                                                          t \in {<<>>, Call("move", "x"), Call("borrow_mut", "y")}}
          \cup {<<"Block", <<s>>, t>> : s \in Steps, t \in Nested}
          \cup Touches \cup Nested
Type(kind, head, args) == [kind |-> kind, head |-> head, args |-> args]
Types == {Type(k, "T", <<>>) : k \in {"Owned", "Shared", "Mut"}} \cup
         {Type("Owned", "Shared", <<"T">>), Type("Shared", "M", <<"T", "N">>), Type("Mut", "N", <<>>),
          Type("Owned", "N", <<>>), Type("Owned", "M", <<"T", "T">>)}
Params == {[name |-> n] @@ t : n \in {"x", "y"}, t \in Types}
PickBorrow ==
  \/ \E body \in Bodies : case' = [kind |-> "borrows", body |-> body]
  \/ \E params \in Upto(Params, 2), ret \in Types, effects \in {{}, {"log"}, {"db.write"}, {"unsafe"}},
        bases \in {<<>>, <<<<"N", "Int">>, <<"M", "Int">>>>, <<<<"N", "Int">>, <<"M", "T">>>>} :
       case' = [kind |-> "signature", params |-> params, ret |-> ret, effects |-> effects, bases |-> bases]
BorrowsAreReal ==
  /\ case.kind = "borrows" => B!BodyReportsAreReal(case.body)
  /\ case.kind = "signature" => B!SignatureReportsAreReal(case.params, case.ret, case.effects, case.bases)
----------------------------------------------------------------------------
\* Bounds between three lifetimes and requirements on them.
Three == {"'a", "'b", "'c"}
PickLifetimes ==
  \/ \E bounds \in Upto(Three \X Three, 2), c \in Upto({"Outlives", "Equal"} \X {"'a", "'b"} \X Three, 2),
        params \in {<<"'a", "'b", "'c">>, <<"'b", "'a">>} :
       case' = [kind |-> "lifetimes", env |-> [params |-> params, bounds |-> bounds], constraints |-> c]
  \/ \E inline, also \in Upto({<<"'a", <<>>>>, <<"'b", <<"'a">>>>, <<"'b", <<"'a", "'c">>>>}, 2) :
       case' = [kind |-> "bounds", inline |-> inline, also |-> also]
LifetimesAreForced ==
  /\ case.kind = "lifetimes" => B!SolutionsAreForced(case.env, case.constraints)
  /\ case.kind = "bounds" => B!BoundsAreKept(case.inline, case.also)
----------------------------------------------------------------------------
\* Functions that call each other, a type that has the name of one, a function written
\* twice, and the effects and signatures they have; modules under a policy.
F == INSTANCE Effects
Names == <<"f", "g", "h", "i">>
Bare(f) == <<"Call", Var(f), <<>>>>
CallBody(fs) == <<"Block", <<<<"Let", <<"Lambda", <<"z">>, Bare(CHOOSE f \in fs : TRUE)>>, "y">>>>,
                 <<"Tuple", [i \in 1..Cardinality(fs) |-> Bare(F!SetToSeq(fs)[i])]>>>>
Sig(f, effects) == <<"fn", f, "(", ")", "->", "Int">> \o (IF effects = <<>> THEN <<>> ELSE <<"uses">> \o F!join([i \in DOMAIN effects |-> <<effects[i]>>]))
Symbol(id, name, kind, effects, sig) == [id |-> id, name |-> name, kind |-> kind, effects |-> effects, sig |-> sig]
Fn(id, effects) == Symbol(id, Names[id], "Function", effects, Sig(Names[id], effects))
OddSigs == {<<"fn", "g", "uses", "time", "->", "Int">>, <<"fn", "g", "(", ")", "uses">>, <<"fn", "g", "uses", ",", "time">>,
            <<"fn", "g", "uses", "time", ":", "k">>, <<"fn", "g", "uses", "time", ",", ",", "db", ",">>}
Extras == {<<>>, <<Symbol(2, "g", "Type", <<"ui">>, <<"type", "g">>)>>, <<Fn(1, <<"net">>)>>}
PickEffects ==
  \/ \E e2 \in {<<>>, <<"fs.read">>}, e3 \in {<<>>, <<"time">>}, e4 \in {<<>>, <<"db", "time">>} :
     \E c \in [1..4 -> {{}, {"f"}, {"g", "k"}, {"h"}, {"f", "i"}, {"g", "h"}}] :
       case' = [kind |-> "calls", symbols |-> [i \in 1..4 |-> Fn(i, <<<<>>, e2, e3, e4>>[i])],
                bodies |-> [i \in {j \in 1..4 : c[j] /= {}} |-> CallBody(c[i])]]
  \/ \E e3 \in {<<"time">>, <<"fs", "fs">>}, odd \in OddSigs, first, last \in Extras :
     \E c \in [1..3 -> {{"f"}, {"g", "k"}, {"f", "h"}}] :
       case' = [kind |-> "calls", bodies |-> [i \in 1..3 |-> CallBody(c[i])],
                symbols |-> first \o <<Fn(1, <<>>), Symbol(2, "g", "Function", F!collect_effects(odd), odd), Fn(3, e3)>> \o last]
  \/ \E e1 \in Upto({"fs.read", "odd", "Mailer"}, 2), e2 \in Upto({"odd", "Mailer"}, 1), policy \in Upto({"fs.read", "time", "odd", "Mailer"}, 2),
        kind \in {"Function", "Module", "Service"} :
       case' = [kind |-> "policy", policy |-> policy, symbols |-> <<Fn(1, e1), Symbol(2, "g", kind, e2, <<kind, "g">>)>>]
EffectsAreExact ==
  /\ case.kind = "calls" => F!EffectsAreReachable(case.symbols, case.bodies)
  /\ case.kind = "policy" => F!PolicyIsKept(case.symbols, case.policy)
----------------------------------------------------------------------------
\* Pairs of types to unify one after the other, and calls of generic functions.
G == INSTANCE Generics WITH MaxTag <- 9   \* 9 stands for u32::MAX
V(n) == G!TyVar(n)
IntTy == G!Primitive("Int")
Atoms == {IntTy, G!Named("Int"), G!Named("T"), G!Unknown, V(0), V(1), V(2)}
List(t) == G!Generic("List", <<t>>)
Pair(t, u) == G!Generic("Pair", <<t, u>>)
Compound == {List(t) : t \in Atoms} \cup {Pair(t, u) : t, u \in Atoms} \cup {G!Fn(<<t>>, u) : t, u \in Atoms}
            \cup {G!Fn(<<>>, IntTy), Pair(V(0), List(V(1))), Pair(List(V(1)), V(0)), Pair(List(V(0)), List(V(1)))}
Simple == {V(0), V(1), V(2), IntTy, List(V(0)), List(V(1)), Pair(V(0), V(1)), G!Fn(<<V(1)>>, V(2))}
Grounds == {IntTy, G!Primitive("T"), List(IntTy)}
Schemes == {G!Fn(<<t>>, u) : t, u \in {V(0), V(1), IntTy, List(V(0)), Pair(V(0), V(1))}}
           \cup {G!Fn(<<t, u>>, V(0)) : t, u \in {V(0), V(1), List(V(0))}} \cup {List(V(1)), V(0)}
PickGenerics ==
  \/ \E a, b \in Atoms \cup Compound : case' = [kind |-> "unify", pairs |-> <<<<a, b>>>>]
  \/ \E a, b, c, d \in Simple : case' = [kind |-> "unify", pairs |-> <<<<a, b>>, <<c, d>>>>]
  \/ \E ty \in Schemes, args \in Upto({IntTy, G!Named("T"), List(IntTy), Pair(IntTy, G!Named("T"))}, 2),
        bound \in {IntTy, V(0)}, next \in {2, 3, 9} :
       case' = [kind |-> "generic", ty |-> ty, args |-> args, bound |-> bound, next |-> next]
  \/ \E vars \in Upto({0, 1, 8, 9}, 2), body \in {V(0), V(9), List(V(0)), Pair(V(1), V(9)), IntTy}, next \in {0, 7, 9} :
       case' = [kind |-> "scheme", scheme |-> [vars |-> vars, body |-> body], next |-> next]
GenericsAreExact ==
  /\ case.kind = "unify" => /\ G!UnifyIsExact(case.pairs, Grounds)
                            /\ \A i \in DOMAIN case.pairs : G!SurfaceTypesBindNothing(case.pairs[i][1], case.pairs[i][2])
                            /\ Len(case.pairs) = 2 => \A ty \in {V(0), Pair(V(1), V(2))} :
                                 G!CompositionIsSequential(case.pairs[1], case.pairs[2], ty)
  /\ case.kind = "generic" => G!CallsAreExact(case.bound, case.ty, case.args, case.next, Grounds)
  /\ case.kind = "scheme" => G!OnlyTheLastTagLoops(case.scheme, case.next)
----------------------------------------------------------------------------
\* Declarations written one after the other, and protocols with their implementations.
R == INSTANCE Traits
W(texts) == R!Words(texts)
Default(text) == W(<<"(", "n", ":", "T", "=">>) \o <<R!String(text)>> \o W(<<")", "->", "T">>)
Rests == {W(<<"(", ")">>), W(<<"(", "self", ":", "(", "T", ")", ")">>), W(<<"(", ")", "->", "T", "uses", "A">>), Default(<<"a", " ", " ", "b">>)}
MethodBodies == {<<>>, W(<<"{", "}">>), W(<<"{", "let", "n", "=", "fn", "(", ")", "{", "}", "}">>),
                 W(<<"{">>) \o <<R!String(<<"}">>), R!String(<<"fn">>)>> \o W(<<"n", "}">>)}
Written == {[name |-> n, rest |-> r, body |-> b] : n \in {"m", "n"}, r \in Rests, b \in MethodBodies}
Decls == {[kind |-> "protocol", name |-> "P", params |-> ps, methods |-> ms] :
            ps \in {<<>>, <<"T", "U">>}, ms \in Upto({w \in Written : w.body = <<>> \/ w.name = "m"}, 2)}
         \cup {[kind |-> "impl", name |-> "P", params |-> ps, for_type |-> "A", args |-> <<"T">>, methods |-> ms] :
               ps \in {<<>>, <<"T">>}, ms \in Upto({w \in Written : w.body /= <<>>}, 2)}
Others == {[kind |-> "protocol", name |-> "Q", params |-> <<>>, methods |-> <<>>],
           [kind |-> "impl", name |-> "Q", params |-> <<>>, for_type |-> "let", args |-> <<>>, methods |-> <<>>]}
Texts == {R!Lexemes(r) : r \in {W(<<"(", ")">>), Default(<<"a", " ", "b">>), Default(<<"a", " ", " ", "b">>), Default(<<>>)}}
Plain == R!Lexemes(W(<<"(", ")">>))
MethodOf(n, r) == [name |-> n, signature |-> R!compact_signature(R!Lexemes(W(<<"fn", n>>)) \o r)]
FewMethods(texts) == Upto({MethodOf("m", r) : r \in texts} \cup {MethodOf("n", Plain)}, 2)
ImplOf(p, t, ms) == [protocol |-> p, for_type |-> t, methods |-> R!impl_methods(p, t, ms)]
PickTraits ==
  \/ \E d \in Decls, o \in Others : \E decls \in {<<o, d>>, <<d, o>>, <<d, o, d>>} : \E readable \in {decls /= <<o, d>>, TRUE} :
       case' = [kind |-> "scan", decls |-> decls, readable |-> readable]
  \/ \E required \in FewMethods(Texts), also \in {<<>>, <<MethodOf("m", Plain)>>}, params \in {<<>>, <<"A">>} :
     \E i1 \in {ImplOf("P", "A", ms) : ms \in FewMethods({Plain, R!Lexemes(Default(<<"a", " ", "b">>))})} \cup {[protocol |-> "P", for_type |-> "A", methods |-> [m |-> <<"sym">>]]},
        i2 \in {ImplOf(p, t, ms) : p \in {"P", "Q", "R"}, t \in {"A", "B"}, ms \in {<<>>, required, also}},
        i3 \in {<<>>, <<ImplOf("P", "A", required)>>} :
       case' = [kind |-> "impls", impls |-> <<i1, i2>> \o i3,
                protocols |-> <<[name |-> "P", type_params |-> params, methods |-> required],
                                [name |-> "Q", type_params |-> <<>>, methods |-> also]>>]
ImplsAreCoherent ==
  /\ case.kind = "scan" => R!ScansAreExact(case.decls, case.readable)
  /\ case.kind = "impls" => R!CoherenceIsExact(case.protocols, case.impls)
----------------------------------------------------------------------------
\* Source files of up to three declarations, and texts to format.
S == INSTANCE FrontEnd
DeclOf(k, n, effects, result, first, body) ==
  [keyword |-> k, name |-> n, params |-> <<"(", "x", ":", "T", ")">>, effects |-> effects, result |-> result,
   uses_first |-> first, body |-> body]
EffectLists == {<<>>, <<<<"time">>>>, <<<<"db", ".", "read">>, <<"Odd">>>>}
FileDecls == {DeclOf(k, n, e, r, u, b) : k \in {"fn", "type", "query"}, n \in {"f", "g"}, e \in EffectLists,
                 r \in {<<>>, <<"->", "T">>}, u \in BOOLEAN, b \in {<<>>, <<"let", "f", "=", "g", "(", ")">>}}
FewDecls == {d \in FileDecls : d.body = <<>> /\ d.uses_first}
PickFile ==
  \/ \E name \in {<<"app">>, <<"app", ".", "a">>}, imports \in Upto({<<"b">>, <<"b", ".", "c">>}, 2), decls \in Upto(FileDecls, 1) :
       case' = [kind |-> "file", file |-> [name |-> name, imports |-> imports, decls |-> decls]]
  \/ \E d1, d2, d3 \in FewDecls : case' = [kind |-> "file", file |-> [name |-> <<"app">>, imports |-> <<>>, decls |-> <<d1, d2, d3>>]]
  \/ \E text \in Upto({"a", " ", "\t", "\r", "\n"}, 5) : case' = [kind |-> "format", text |-> text]
\* Texts to preprocess, with an environment that changes while they are read.
E == INSTANCE Preproc
Fragments == {<<"$", "{", "A", "}">>, <<"$", "{", "B", "}">>, <<"@", "orison", "/", "k">>, <<"@", "orison", "/">>, <<"$", "{">>,
              <<"/">>, <<"\"">>, <<"\\">>, <<"\n">>, <<"k">>}
Configs == {E!NoConfig, E!allow_env_var(E!allow_env_var(E!NoConfig, <<"A">>), <<"A">>),
            E!with_const(E!with_const(E!allow_env_var(E!NoConfig, <<"B">>), <<"k">>, <<"old">>), <<"k">>, <<"const">>),
            E!allow_env_var(E!allow_env_var(E!with_const(E!NoConfig, <<"k">>, <<"const">>), <<"A">>), <<"B">>)}
MCEnv == <<"A">> :> <<<<<<"one">>>>, <<<<"two">>>>, <<>>>> @@ <<"B">> :> <<<<>>, <<<<"late">>>>>>
PickPreproc ==
  \E fragments \in Upto(Fragments, 4), config \in Configs :
    case' = [kind |-> "preproc", text |-> E!FlattenSeq(fragments), config |-> config]
FilesAreExact ==
  /\ case.kind = "preproc" => E!ExpansionIsExact(case.text, case.config, MCEnv) /\ E!LiteralsAreKept(case.text, case.config, MCEnv)
  /\ case.kind = "file" => S!FilesAreReadBack(case.file)
  /\ case.kind = "format" => S!FormattingSettles(case.text)
----------------------------------------------------------------------------
Next == \/ case = Idle /\ (PickBorrow \/ PickLifetimes \/ PickEffects \/ PickGenerics \/ PickTraits \/ PickFile \/ PickPreproc)
        \/ case /= Idle /\ case' = Idle
Spec == Init /\ [][Next]_case
=============================================================================
