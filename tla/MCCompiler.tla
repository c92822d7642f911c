----------------------------- MODULE MCCompiler -----------------------------
(***************************************************************************)
(* The compiler's passes and the interpreter over enumerated inputs: a     *)
(* behaviour picks a program, a body or a text, which is then the state    *)
(* its property is evaluated in, and goes back to pick another. The        *)
(* analyses of whole modules, MCAnalysis, are joined at the end.           *)
(***************************************************************************)
EXTENDS Interpreter, TLC

VARIABLE case

Idle == [kind |-> "idle"]
Init == case = Idle
----------------------------------------------------------------------------
\* Programs of an entry m and functions f(x) and g(), which declare effects 1 and 2.
Lit(v) == <<"Lit", v>>
Var(n) == <<"Var", n>>
Call(n, args) == <<"Call", Var(n), args>>
Builtins(ns, m, args) == <<"Call", <<"Field", Var(ns), m>>, args>>
Lambda == <<"Lambda", <<"x">>, Builtins("list", "len", <<Var("x")>>)>>

Simple == {Lit(Int_(1)), Var("true"), Var("x"), Var("y"), <<"Construct", "None", <<>>>>}
Calls == {Call("f", <<Lit(Int_(2))>>), Call("g", <<>>), Call("f", <<>>), Call("h", <<>>), Call("m", <<>>)}
Small == Simple \cup Calls
Compound(sub) ==
  {<<"If", c, a, b>> : c \in {Var("true"), Var("x"), Call("g", <<>>)}, a \in sub, b \in {<<>>, Var("x")}}
  \cup {<<"Block", <<<<"Let", a, "y">>>>, b>> : a \in sub, b \in Small}
  \cup {<<"Block", <<<<"Expr", a>>, <<"Return", <<>>>>>>, <<>>>> : a \in sub}
  \cup {<<"Return", a>> : a \in sub}
  \cup {<<"Try", <<"Construct", c, <<a>>>>>> : c \in {"Ok", "Err"}, a \in sub}
  \cup {<<"Match", a, <<<<<<"Literal", Int_(1)>>, Var("y")>>, <<<<"Binding", "y">>, Var("y")>>>>>> : a \in sub}
  \cup {<<"Field", <<"Record", <<<<"k", a>>>>>>, "k">> : a \in sub}
  \cup {Builtins("list", "map", <<<<"Construct", "List", <<a, Lit(Int_(1))>>>>, l>>) :
          a \in sub, l \in {Lambda, <<"Lambda", <<"x">>, Var("x")>>, <<"Lambda", <<"x">>, Call("g", <<>>)>>}}
  \cup {Builtins("iter", "any", <<<<"Construct", "List", <<a>>>>, <<"Lambda", <<"x">>, <<"Try", Var("x")>>>>>>) :
          a \in sub}
  \cup {Builtins("io", "write_file", <<Lit(Str(<<"a">>)), Lit(Str(<<"b">>))>>)}

Token(to, until) == [issued_to |-> to, expires_at |-> until]
Caps == {<<>>, << [tokens |-> <<Token("me", 5), Token("me", NoExpiry)>>, denials |-> {}, audit_required |-> {2}] >>,
         << [tokens |-> <<Token("me", 9), Token("you", 9)>>, denials |-> {}, audit_required |-> {}] >>,
         << [tokens |-> <<Token("me", 9)>>, denials |-> {}, audit_required |-> {}] >>,
         << [tokens |-> <<Token("me", 9), Token("me", 9)>>, denials |-> {2}, audit_required |-> {1}] >>}
World == [files |-> <<>>, writable |-> TRUE, stdin |-> <<>>, environ |-> <<>>]
Functions(m, f, g) ==
  [m |-> [params |-> <<>>, body |-> m, effects |-> {1}],
   f |-> [params |-> <<"x">>, body |-> f, effects |-> {1, 2}],
   g |-> [params |-> <<>>, body |-> g, effects |-> {}]]

PickProgram ==
  \/ \E m \in Compound(Small), f \in Small, g \in {Var("y"), Call("g", <<>>), Lit(Int_(1))}, caps \in Caps :
       case' = [kind |-> "program", functions |-> Functions(m, f, g), caps |-> caps]
  \/ \E m \in Small, f \in Compound(Small), g \in {Call("f", <<Lit(Unit)>>), Lit(Int_(0))}, caps \in Caps :
       case' = [kind |-> "program", functions |-> Functions(m, f, g), caps |-> caps]

\* The functions an expression may call by name.
RECURSIVE Callees(_)
Callees(e) ==
  CASE e[1] = "Call" -> (IF e[2][1] = "Var" THEN {e[2][2]} ELSE {}) \cup UNION {Callees(e[3][i]) : i \in DOMAIN e[3]}
    [] e[1] = "If" -> Callees(e[2]) \cup Callees(e[3]) \cup (IF e[4] = <<>> THEN {} ELSE Callees(e[4]))
    [] e[1] = "Block" -> UNION {IF e[2][i][2] = <<>> THEN {} ELSE Callees(e[2][i][2]) : i \in DOMAIN e[2]}
                         \cup (IF e[3] = <<>> THEN {} ELSE Callees(e[3]))
    [] e[1] = "Construct" -> UNION {Callees(e[3][i]) : i \in DOMAIN e[3]}
    [] e[1] \in {"Return", "Try", "Field"} -> Callees(e[2])
    [] e[1] = "Match" -> Callees(e[2]) \cup UNION {Callees(e[3][i][2]) : i \in DOMAIN e[3]}
    [] e[1] = "Record" -> UNION {Callees(e[2][i][2]) : i \in DOMAIN e[2]}
    [] e[1] = "Lambda" -> Callees(e[3])
    [] OTHER -> {}

\* What a function answers does not depend on the variables of its caller, and it leaves
\* them as they were.
Isolated ==
  LET env == [vars |-> NoVars, functions |-> case.functions]
      st == Start(<<>>, "me", 5, World)
      Answer(vars) == eval_expr(Call("f", <<Lit(Int_(2))>>), [env EXCEPT !.vars = vars], 0, st)
      alone == Answer(NoVars)
  IN  \A vars \in {NoVars, [y |-> Int_(1)], [x |-> Int_(3)]} :
        LET r == Answer(vars) IN r.tag = alone.tag /\ r.v = alone.v /\ r.env.vars = vars

Nodes == INSTANCE ExprTree

\* A lambda that applies a lambda: such applications nest without being counted.
RECURSIVE AppliesInLambda(_, _)
AppliesInLambda(e, inside) ==
  \/ inside /\ e[1] = "Call" /\ e[2][1] = "Field" /\ <<e[2][2][2], e[2][3]>> \in Higher
  \/ \E i \in DOMAIN Nodes!Parts(e) : AppliesInLambda(Nodes!Parts(e)[i], inside \/ e[1] = "Lambda")
Counted == \A n \in DOMAIN case.functions : ~AppliesInLambda(case.functions[n].body, FALSE)

\* The run of the program that was picked.
Run == exec_program_with_caps(case.functions, "m", <<>>, case.caps, "me", 5, World)
Contained(r) ==
  /\ Counted => r.tag \in {"Value", "Err"} /\ r.st.deep <= MAX_CALL_DEPTH + 1
  /\ r.st.frames = <<>>
  /\ r.tag = "Err" =>
       /\ Len(r.v.frames) <= MAX_CALL_DEPTH + 1
       /\ r.v.frames /= <<>> => r.v.frames[1] = "m"
       /\ \A i \in 1..(Len(r.v.frames) - 1) :
            r.v.frames[i + 1] \in Callees(case.functions[r.v.frames[i]].body)

\* However calls nest, a run ends with a value or an error and one level above the cap
\* at most (a lambda in the last call) unless a lambda applies a lambda; the frames of
\* an error are a chain of calls of the program that starts at the entry and none is
\* left when it ends; and callees are isolated.
ProgramsAreContained ==
  case.kind \in {"program", "lambda"} => (case.caps = <<>> => Isolated) /\ Contained(Run)

\* With capabilities every function that ran because code called it was granted all
\* the effects it declares.
CallsAreGranted ==
  case.kind = "program" /\ case.caps /= <<>> =>
    \A name \in Run.st.ran : Granted(case.functions[name].effects, case.caps[1], "me", 5)

\* Lambdas that are handed to lambdas.
Hand(f, x) == Builtins("list", "map", <<<<"Construct", "List", <<x>>>>, f>>)
Fn(body) == <<"Lambda", <<"x">>, body>>
PickLambda ==
  \E f, x \in {Fn(Var("x")), Fn(Hand(Var("x"), Lit(Int_(1)))), Fn(Hand(Var("x"), Var("x"))),
               Fn(Hand(Fn(Var("x")), Var("x")))} :
    case' = [kind |-> "lambda", functions |-> Functions(Hand(f, x), Var("x"), Var("x")), caps |-> <<>>]

\* Sequences of puts into a cache and texts of URLs.
PickBuiltin ==
  \/ \E capacity \in 0..2, n \in 0..4 : \E puts \in [1..n -> {1, 2, 3} \X {1, 2}] :
       case' = [kind |-> "cache", capacity |-> capacity, puts |-> puts]
  \/ \E n \in 0..4 : \E rest \in [1..n -> {"a", "/", "?", "#", ":", "&"}] :
       case' = [kind |-> "url", url |-> <<"http", ":", "/", "/">> \o rest]
Cache(method, args) == dispatch_cache_builtin(method, args)[2]
New(capacity) == Cache("new", <<Int_(capacity)>>)
Filled(capacity, puts) == Nodes!FoldLeft(LAMBDA c, p : Cache("put", <<c, p[1], p[2]>>), New(capacity), puts)
Lookup(c, key) == Cache("get", <<c, key>>)
Keys(c) == [i \in DOMAIN c[3] |-> c[3][i][1]]

\* A cache holds no more than it may and no key twice. A put of a key it holds neither
\* evicts nor moves one; of another key, it drops the oldest, only while full, and adds
\* the key as the newest; all other keys keep their values and a capacity of zero keeps
\* nothing. A cleared cache is a new one.
CachesBehave ==
  case.kind = "cache" =>
    LET n == Len(case.puts)
        key == case.puts[n][1]
        old == Filled(case.capacity, SubSeq(case.puts, 1, n - 1))
        new == Filled(case.capacity, case.puts)
        kept == IF Len(Keys(old)) = case.capacity THEN Tail(Keys(old)) ELSE Keys(old)
    IN  /\ Cardinality(Range(Keys(new))) = Len(Keys(new)) /\ Len(Keys(new)) <= case.capacity
        /\ Cache("len", <<new>>) = Int_(Len(Keys(new)))
        /\ Cache("clear", <<new>>) = New(case.capacity)
        /\ n > 0 /\ case.capacity > 0 =>
             /\ Keys(new) = IF key \in Range(Keys(old)) THEN Keys(old) ELSE Append(kept, key)
             /\ Lookup(new, key) = <<"Some", case.puts[n][2]>>
             /\ \A k \in Range(Keys(new)) \ {key} : Lookup(new, k) = Lookup(old, k)

\* Appending a query to a URL that has a path and then taking the path, or to the record
\* it parses to, is the same.
AddressesKeepTheirPath ==
  case.kind = "url" =>
    LET url == parse_url_str(case.url)
        stops == {i \in 5..Len(case.url) : case.url[i] \in {"?", "#", "/"}}
        routed == stops /= {} /\ case.url[Min(stops)] = "/"
    IN  /\ url[1] = "Value" /\ url[2][1] = "Ok"
        /\ routed =>
             append_query(url[2][2], <<"k">>, <<"v">>)[2].path =
               Str(extract_path(append_query(Str(case.url), <<"k">>, <<"v">>)[2]))

\* A program's run is contained, whatever calls nest in it (lambdas that apply lambdas
\* aside, which do use up the stack of the process); the caches it fills keep their
\* capacity and order, and the addresses it builds keep their path.
RunsAreContained == ProgramsAreContained /\ CachesBehave /\ AddressesKeepTheirPath
----------------------------------------------------------------------------
\* Trees of operators, runs of tokens, and texts.
E == INSTANCE ExprParser
Leaf == {Var("a"), Var("b")}
Tree(sub) ==
  {<<"Binary", op, l, r>> : op \in {"??", "+", "*", "=="}, l \in sub, r \in sub}
  \cup {<<"Unary", x, "-">> : x \in sub} \cup {<<"Try", x>> : x \in sub}
  \cup {<<"Field", x, "k">> : x \in sub} \cup {<<"Call", x, <<y>>>> : x \in sub, y \in {Var("a")}}
Trees == Tree(Tree({Var("a")}) \cup {Var("b")})

Alphabet == {<<"ident", "a", FALSE>>, <<"ident", "A", FALSE>>, <<"ident", "r", FALSE>>, <<"number", "1", FALSE>>,
             <<"string", <<"{", "a", "}">>, TRUE>>, <<"string", <<"{", "}">>, FALSE>>}
  \cup {<<"keyword", k, FALSE>> : k \in {"if", "else", "match", "fn", "let", "return"}}
  \cup {<<"symbol", s, FALSE>> : s \in {"(", ")", ",", "?", "-", "{", "}", "|", "=", "=>", ":", ";", ".", "["}}
  \cup {<<"symbol", "?", TRUE>>}
Starts == {<<>>, << <<"ident", "a", FALSE>>, <<"symbol", "(", FALSE>> >>,
           << <<"keyword", "match", FALSE>>, <<"ident", "a", FALSE>>, <<"symbol", ":", FALSE>>, <<"symbol", "|", FALSE>> >>,
           << <<"symbol", "{", FALSE>>, <<"ident", "a", FALSE>>, <<"symbol", ":", FALSE>> >>,
           << <<"keyword", "fn", FALSE>>, <<"symbol", "(", FALSE>>, <<"ident", "a", FALSE>> >>,
           << <<"keyword", "let", FALSE>>, <<"ident", "a", FALSE>>, <<"symbol", ":", FALSE>> >>}
Text == UNION {[1..n -> {"a", "\"", "\\", "{", "\n"}] : n \in 0..4}
Body == UNION {[1..n -> {"a", " ", "\t", "\n"}] : n \in 0..6}

PickSyntax ==
  \/ \E tree \in Trees : case' = [kind |-> "tree", tree |-> tree]
  \/ \E start \in Starts, n \in 0..3 : \E ts \in [1..n -> Alphabet] :
       (n = 3 => start = <<>>) /\ case' = [kind |-> "tokens", tokens |-> start \o ts]
  \/ \E text \in Text, rest \in {<<>>, <<"\"">>, <<"#", "a">>} : case' = [kind |-> "text", text |-> text, rest |-> rest]
  \/ \E body \in Body : case' = [kind |-> "body", body |-> body]

\* A body is read as it was written, whatever it holds the parser ends at its end, and
\* a string says what was put into it.
SyntaxIsExact ==
  CASE case.kind = "tree" -> E!GroupingIsKept(case.tree)
    [] case.kind = "tokens" -> E!ParsingEnds(case.tokens)
    [] case.kind = "text" -> E!LiteralsAreExact(case.text, case.rest)
    [] case.kind = "body" -> E!IndentIsShared(case.body)
    [] OTHER -> TRUE
----------------------------------------------------------------------------
\* Matches over two variants that share a constructor, and the tokens that declare a
\* variant.
X == INSTANCE Exhaustive
Variants == {[v |-> <<"A", "B">>, w |-> <<"C">>], [v |-> <<"A", "B">>, w |-> <<"B", "C">>],
             [v |-> <<"A", "A">>, w |-> <<"B", "C", "D">>]}
Patterns == {<<"Wildcard">>, <<"Binding", "x">>, <<"Literal", Int_(0)>>, <<"Constructor", "A", <<<<"Literal", 1>>>>>>}
            \cup {<<"Constructor", c, <<>>>> : c \in {"A", "B", "C", "D", "Z"}}
Decl(name, ctors, line) ==
  << <<"keyword", "type", line>>, <<"ident", name, line>>, <<"symbol", "=", line>> >> \o
  [i \in 1..(2 * Len(ctors)) |-> IF i % 2 = 1 THEN <<"symbol", "|", line>> ELSE <<"ident", ctors[i \div 2], line>>]
Payload == << <<"symbol", "(", 2>>, <<"symbol", "|", 2>>, <<"ident", "D", 2>>, <<"symbol", "(", 2>>,
              <<"symbol", ")", 2>>, <<"symbol", ")", 2>> >>

PickMatch ==
  \/ \E variants \in Variants, n \in 0..4 : \E arms \in [1..n -> Patterns] :
       case' = [kind |-> "match", arms |-> arms, variants |-> variants]
  \/ \E c1, c2 \in UNION {[1..n -> {"A", "B", "b"}] : n \in 0..3}, payload \in {<<>>, Payload} :
       case' = [kind |-> "declarations", one |-> c1, two |-> c2, payload |-> payload]

\* check_match reports a match that leaves out a constructor of its variant, and of the
\* arms for a constructor every one that takes nothing new and, where patterns take any
\* payload, no other; and the variants found in the tokens are the declared ones.
MatchesAreExact ==
  /\ case.kind = "match" => X!ReportsAreExact(case.arms, case.variants)
  /\ case.kind = "declarations" =>
       LET ts == Decl("v", case.one, 1) \o case.payload \o Decl("w", case.two, 3)
           Named(ctors) == X!parse_variant_arms(ctors)
           found == X!check_module_matches_with_source(<<>>, ts)
           bar == case.one = <<>> /\ case.payload /= <<>>
       IN  ~bar => /\ DOMAIN found = {n \in {"v", "w"} : Named(IF n = "v" THEN case.one ELSE case.two) /= <<>>}
                   /\ \A n \in DOMAIN found : found[n] = Named(IF n = "v" THEN case.one ELSE case.two)
----------------------------------------------------------------------------
\* Functions m() and g() with declared results; `true` and `false` stand in conditions.
T == INSTANCE TypeInfer
ResultWords == <<"Result", "[", "Int", ",", "Str", "]">>
TypeWords == {<<"Int">>, <<"Str">>, <<"Unit">>, <<"Option", "[", "Int", "]">>, ResultWords}
Typed == {Lit(Int_(1)), Lit(Str(<<"a">>)), Var("y"), Call("g", <<>>), <<"Construct", "None", <<>>>>}
         \cup {<<"Construct", c, <<x>>>> : c \in {"Ok", "Err", "Some"}, x \in {Lit(Int_(1)), Lit(Str(<<"a">>))}}
TypedCompound(sub) ==
  {<<"If", Var("true"), a, b>> : a \in sub, b \in sub}
  \cup {<<"Match", a, <<<<<<"Literal", Int_(1)>>, b>>, <<<<"Wildcard">>, c>>>>>> : a \in sub, b \in sub, c \in sub}
  \cup {<<"Block", <<<<"Let", a, "y">>>>, <<"If", Var("false"), Var("y"), b>>>> : a \in sub, b \in sub}
  \cup {<<"Block", <<<<"Expr", <<"If", Var("true"), <<"Return", a>>, <<>>>>>>>>, b>> : a \in sub, b \in sub}
Tries(sub) ==
  {<<"Block", <<<<"Let", <<"Try", a>>, "y">>>>, <<"Construct", c, <<Var("y")>>>>>> : a \in sub, c \in {"Ok", "Err"}}
Sig(name, result) == <<"fn", name, "(", ")", "->">> \o result
Symbols(m, tm, g, tg) ==
  << [name |-> "m", sig |-> Sig("m", tm), body |-> m], [name |-> "g", sig |-> Sig("g", tg), body |-> g] >>

PickTyped ==
  \/ \E m \in TypedCompound(Typed), g \in {Lit(Int_(1)), <<"Construct", "Err", <<Lit(Str(<<"a">>))>>>>},
       tm, tg \in TypeWords : case' = [kind |-> "typed", symbols |-> Symbols(m, tm, g, tg)]
  \/ \E m \in {Call("g", <<>>)}, g \in TypedCompound(Typed), tm, tg \in TypeWords :
       case' = [kind |-> "typed", symbols |-> Symbols(m, tm, g, tg)]
  \/ \E m \in Tries({Call("g", <<>>)} \cup {x \in Typed : x[1] = "Construct" /\ x[2] = "Ok"}), g \in Typed, tg \in TypeWords :
       case' = [kind |-> "typed", symbols |-> Symbols(m, ResultWords, g, tg)]

IsOf(r, words) == r.tag = "Value" => T!HasType(r.v, T!parse_return_type(words))

\* Where the checker has nothing to say but that it does not know `true` and `false`,
\* what a function answers has the type it declares (`?` stands only where
\* the error it passes on has the type of the function's own).
TypesAreSound ==
  case.kind = "typed" =>
    LET functions == [n \in {"m", "g"} |->
                        [params |-> <<>>, effects |-> {}, body |-> case.symbols[IF n = "m" THEN 1 ELSE 2].body]]
    IN  Range(T!check_module_bodies(case.symbols)) \subseteq {"W0530"} =>
          IsOf(exec_program_with_caps(functions, "m", <<>>, <<>>, "me", 5, World), case.symbols[1].sig)
----------------------------------------------------------------------------
\* Texts for the lexer and numeric literals; 20 stands for the largest integer.
K == INSTANCE Lexer
Chars == {"a", "0", ".", "\"", "\\", "/", "\n", " ", "-", ">"}
Pieces == {<<"a", "_", "1">>, <<"0", "x", "a", "2">>, <<"1", ".", "2">>, <<"1", ".", ".", "a">>, <<"\"", "\\", "\"", "\n", "\"">>,
           <<"/", "/", "\"", "\n">>, <<"-", ">">>, <<"=", "=", ">">>, <<"\n", " ">>}
PickText ==
  \/ \E n \in 0..4 : \E chars \in [1..n -> Chars] : case' = [kind |-> "chars", chars |-> chars]
  \/ \E a, b, c \in Pieces : case' = [kind |-> "chars", chars |-> a \o b \o c]
  \/ \E n \in 0..5 : \E rest \in [1..n -> {"0", "2", "b", "_", ".", "x"}], first \in {"0", "1"} :
       case' = [kind |-> "number", text |-> <<first>> \o rest]
TextIsExact ==
  /\ case.kind = "chars" => K!TokensAreExact(case.chars)
  /\ case.kind = "number" => K!NumbersAreExact(case.text, 20) /\ K!LiteralsAreTokens(case.text, 20)
NumbersEndInDigits == case.kind = "number" => K!NoTrailingUnderscore(case.text, 20)
----------------------------------------------------------------------------
\* Bodies to fold, run before and after.
D == INSTANCE ConstFold
Folded == {Lit(Int_(1)), Lit(Bool(TRUE)), Lit(Bool(FALSE)), Var("x"), Call("g", <<>>),
           <<"Block", <<>>, <<>>>>, <<"Block", <<>>, Lit(Int_(1))>>, <<"Construct", "Ok", <<Lit(Int_(1))>>>>,
           <<"Construct", "Err", <<Lit(Int_(1))>>>>, <<"Block", <<<<"Let", Lit(Int_(2)), "x">>>>, Var("x")>>}
FoldOver(sub) ==
  {<<"If", c, a, b>> : c \in sub, a \in sub, b \in {<<>>, Var("x"), Lit(Int_(2))}}
  \cup {<<"Try", a>> : a \in sub}
  \cup {<<"Match", a, <<<<<<"Constructor", "A", <<>>>>, Lit(Int_(3))>>, <<<<"Literal", v>>, b>>, <<p, Var("x")>>>>>> :
          a \in sub, b \in sub, v \in {Int_(1), Bool(FALSE)}, p \in {<<"Wildcard">>, <<"Binding", "x">>}}
  \cup {<<"Block", <<<<k, a>>>>, b>> : k \in {"Expr", "Return"}, a \in sub, b \in sub}
  \cup {<<"Return", a>> : a \in sub}
PickFold ==
  \E a \in FoldOver(Folded) : \E e \in {a, <<"Block", <<<<"Let", a, "x">>>>, Var("x")>>, <<"If", a, Lit(Int_(1)), <<>>>>,
                                          <<"Try", <<"Construct", "Ok", <<a>>>>>>, <<"Construct", "Some", <<a>>>>} :
    case' = [kind |-> "fold", body |-> e]

SameEnd(r, q) == r.tag = q.tag /\ r.v = q.v /\ r.st.ran = q.st.ran
Faithful(body, out) ==
  LET ran(e) == exec_program_with_caps(Functions(e, Var("x"), Lit(Int_(7))), "m", <<>>, <<>>, "me", 5, World)
  IN  D!fold_expr(out) = out /\ (~D!Changes(body) => SameEnd(ran(out), ran(body)))

\* Folding twice is folding once, and a folded function ends as it did before (the
\* rules that are known to change what it does aside).
FoldingIsFaithful == case.kind = "fold" => Faithful(case.body, D!fold_expr(case.body))
----------------------------------------------------------------------------
Next == \/ case = Idle /\ (PickProgram \/ PickLambda \/ PickBuiltin \/ PickSyntax \/ PickMatch \/ PickTyped \/ PickText \/ PickFold)
        \/ case /= Idle /\ case' = Idle
Spec == Init /\ [][Next]_case
----------------------------------------------------------------------------
Passes == INSTANCE MCAnalysis

CompilerSpec == Init /\ [][Next \/ Passes!Next]_case

\* Text becomes tokens, trees and symbols without loss: the lexer's tokens are the
\* pieces of the text at their places and numbers keep their value; the expression
\* parser keeps the grouping a tree was written with, ends on every run of tokens,
\* and reads back what a string holds; parse_source finds the imports and declarations
\* of a file, each with its own signature and effects; and formatting settles at once.
SourceIsReadExactly == TextIsExact /\ SyntaxIsExact /\ Passes!FilesAreExact

\* What borrow_check reports of a body or a signature is there: two overlapping
\* borrows, a use after a move, a borrow of a local that is returned; and what
\* solve_constraints and check_outlives say of lifetimes follows from their bounds.
BorrowsAreReal == Passes!BorrowsAreReal /\ Passes!LifetimesAreForced

\* propagate_effects gives every function the effects it declares and those it can
\* reach through calls, blames a callee that brings in a missing one, and ends; the
\* capability check reports exactly the declared effects that the policy lacks.
EffectsAreExact == Passes!EffectsAreExact

\* unify answers with a most general solution of the pairs unified so far or fails
\* where there is none (an endless type included), and a call of a generic function
\* gets variables of its own.
GenericsAreExact == Passes!GenericsAreExact

\* The protocols and implementations of a file are found whatever their bodies hold,
\* check_coherence accepts exactly those that implement a known protocol fully and
\* once, and resolve_method then finds each method in one implementation.
ImplsAreCoherent == Passes!ImplsAreCoherent
=============================================================================
