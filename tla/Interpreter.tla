---------------------------- MODULE Interpreter ----------------------------
(***************************************************************************)
(* The tree-walking interpreter of crates/ori-compiler/src/interp_exec.rs. *)
(*                                                                         *)
(* Expressions, statements and values are tuples whose first element names *)
(* their shape. An environment holds the variables of the whole chain (a   *)
(* child is a copy that is dropped) and the functions its root knows; the  *)
(* state st holds the call frames, the capabilities, the files and what    *)
(* was printed. Two histories are added: st.ran, the functions called from *)
(* code, and st.deep, how deep evaluation has nested. A text is a sequence *)
(* of its parts; floats and messages are left out.                         *)
(*                                                                         *)
(* HostStack is how deep evaluation can nest before the stack of the       *)
(* process is used up, which ends it.                                      *)
(***************************************************************************)
EXTENDS Integers, Sequences, FiniteSetsExt

CONSTANTS MAX_CALL_DEPTH, HostStack

ASSUME DepthAssumption == /\ MAX_CALL_DEPTH \in Nat /\ HostStack \in Nat
                          /\ MAX_CALL_DEPTH < HostStack

LOCAL INSTANCE SequencesExt
LOCAL INSTANCE TLC

----------------------------------------------------------------------------
(***************************************************************************)
(* The guard of crates/ori-compiler/src/capability_runtime.rs. Effects are *)
(* numbers in the order of their names, which is the order the guard walks *)
(* them in; a token is [effect, issued_to, expires_at], NoExpiry where it  *)
(* never expires.                                                          *)
(***************************************************************************)
NoExpiry == -1
Allowed == "allowed"

\* Mutant: whose token it is, is not asked.
denial_mutant(caps, principal, effect, now) ==
  LET token == caps.tokens[effect]
  IN  CASE effect \in caps.denials -> "CAP0004"
        [] effect \notin caps.denials /\ effect \notin DOMAIN caps.tokens -> "CAP0001"
        [] effect \notin caps.denials /\ effect \in DOMAIN caps.tokens ->
             IF token.expires_at /= NoExpiry /\ token.expires_at < now THEN "CAP0002" ELSE Allowed

\* Why one effect is refused, in the order the guard asks.
denial(caps, principal, effect, now) ==
  LET token == caps.tokens[effect]
  IN  CASE effect \in caps.denials -> "CAP0004"
        [] effect \notin caps.denials /\ effect \notin DOMAIN caps.tokens -> "CAP0001"
        [] effect \notin caps.denials /\ effect \in DOMAIN caps.tokens ->
             IF token.issued_to /= principal THEN "CAP0003"
             ELSE IF token.expires_at /= NoExpiry /\ token.expires_at < now THEN "CAP0002" ELSE Allowed

\* The first effect that is refused decides.
guard_call_at(required, caps, principal, now) ==
  LET refused == {e \in required : denial(caps, principal, e, now) /= Allowed}
  IN  IF refused = {} THEN Allowed ELSE denial(caps, principal, Min(refused), now)

\* The audit lists every effect to be audited that the call needs, refused or not.
guard_call_with_audit_at(required, caps, principal, now) ==
  [outcome |-> guard_call_at(required, caps, principal, now),
   audit |-> required \cap caps.audit_required]
----------------------------------------------------------------------------
\* What a granted call rests on, said without an order: every effect it needs has a
\* token of this principal that is still good, and none is vetoed.
Granted(required, caps, principal, now) ==
  \A e \in required :
    /\ e \notin caps.denials
    /\ \E t \in DOMAIN caps.tokens :
         /\ t = e
         /\ caps.tokens[t].issued_to = principal
         /\ caps.tokens[t].expires_at = NoExpiry \/ now <= caps.tokens[t].expires_at
----------------------------------------------------------------------------
Unit == <<"Unit">>
None == <<"None">>
Bool(b) == <<"Bool", b>>
Int_(i) == <<"Int", i>>
Str(s) == <<"Str", s>>
List(s) == <<"List", s>>
Tag(v) == v[1]
NoVars == [x \in {} |-> Unit]

\* EvalFlow: how an evaluation ends, and the environment and state it leaves.
Flow(tag, v, env, st) == [tag |-> tag, v |-> v, env |-> env, st |-> st]
Value(v, env, st) == Flow("Value", v, env, st)
err(code, env, st) == Flow("Err", [code |-> code, frames |-> st.frames], env, st)
Overflow(env, st) == Flow("Overflow", Unit, env, st)
Then(r, K(_)) == IF r.tag = "Value" THEN K(r) ELSE r

\* A builtin answers with <<"Value", v>> or with the code of its error.
Ok(v) == <<"Value", v>>
----------------------------------------------------------------------------
\* str.*, on texts.
IsAt(s, i, t) == i + Len(t) - 1 <= Len(s) /\ SubSeq(s, i, i + Len(t) - 1) = t
find(s, t) == LET at == {i \in 1..Len(s) : IsAt(s, i, t)} IN IF at = {} THEN 0 ELSE Min(at)
From(s, i) == SubSeq(s, i, Len(s))
Upto(s, i) == SubSeq(s, 1, i)

RECURSIVE split(_, _), join(_, _)
split(s, sep) ==
  IF sep = <<>> \/ find(s, sep) = 0 THEN <<Str(s)>>
  ELSE <<Str(Upto(s, find(s, sep) - 1))>> \o split(From(s, find(s, sep) + Len(sep)), sep)
join(items, sep) ==
  IF items = <<>> THEN <<>>
  ELSE IF Len(items) = 1 THEN items[1][2] ELSE items[1][2] \o sep \o join(Tail(items), sep)

Lower == [x \in {"A", "B"} |-> IF x = "A" THEN "a" ELSE "b"]
Upper == [x \in {"a", "b"} |-> IF x = "a" THEN "A" ELSE "B"]
Recase(s, table) == [i \in DOMAIN s |-> IF s[i] \in DOMAIN table THEN table[s[i]] ELSE s[i]]

\* url.*: a scheme is one part of the text.
Authority(s) == LET i == find(s, <<":", "/", "/">>) IN IF i = 0 THEN s ELSE From(s, i + 3)
Before(s, stops) == LET at == {i \in DOMAIN s : s[i] \in stops}
                    IN  IF at = {} THEN s ELSE Upto(s, Min(at) - 1)
extract_scheme(s) == LET i == find(s, <<":", "/", "/">>) IN IF i = 0 THEN <<>> ELSE Upto(s, i - 1)
extract_host(s) == Before(Before(Authority(s), {"/", "?", "#"}), {":"})

extract_path(s) ==
  LET i == find(Authority(s), <<"/">>) IN IF i = 0 THEN <<>> ELSE From(Authority(s), i)

UrlError(kind) == Ok(<<"Err", <<"Record", "kind" :> Str(<<kind>>)>>>>)
parse_url_str(s) ==
  IF s = <<>> THEN UrlError("Invalid")
  ELSE IF extract_scheme(s) \notin {<<"http">>, <<"https">>} THEN UrlError("UnsupportedScheme")
  ELSE Ok(<<"Ok", <<"Record", [scheme |-> Str(extract_scheme(s)), host |-> Str(extract_host(s)),
                               path |-> Str(extract_path(s))]>>>>)

with_query(s, key, value) ==
  s \o (IF \E i \in DOMAIN s : s[i] = "?" THEN <<"&">> ELSE <<"?">>) \o key \o <<"=">> \o value

append_query(url, key, value) ==
  IF Tag(url) = "Str" THEN Str(with_query(url[2], key, value))
  ELSE LET path == IF "path" \in DOMAIN url[2] /\ Tag(url[2]["path"]) = "Str"
                   THEN url[2]["path"][2] ELSE <<>>
       IN  <<"Record", ("path" :> Str(with_query(path, key, value))) @@ url[2]>>
----------------------------------------------------------------------------
\* cache.*: entries in the order they were put, the oldest first.
Slot(entries, key) == {i \in DOMAIN entries : entries[i][1] = key}
cache_get(entries, key) ==
  IF Slot(entries, key) = {} THEN None ELSE <<"Some", entries[Min(Slot(entries, key))][2]>>

cache_put(capacity, entries, key, value) ==
  IF Slot(entries, key) /= {} THEN [entries EXCEPT ![Min(Slot(entries, key))][2] = value]
  ELSE IF capacity = 0 THEN entries
  ELSE Append(IF Len(entries) >= capacity THEN Tail(entries) ELSE entries, <<key, value>>)
----------------------------------------------------------------------------
\* The builtins: the tags each argument may have ("any": all, "Nat": an Int that is
\* not negative), from which its arity follows.
Texts == {"Str"}
Builtin ==
  [str |-> [len |-> <<Texts>>, contains |-> <<Texts, Texts>>, starts_with |-> <<Texts, Texts>>,
            ends_with |-> <<Texts, Texts>>, split |-> <<Texts, Texts>>, to_lower |-> <<Texts>>,
            to_upper |-> <<Texts>>, join |-> <<{"List"}, Texts>>],
   list |-> [len |-> <<{"List"}>>, is_empty |-> <<{"List"}>>, push |-> <<{"List"}, {"any"}>>,
             pop |-> <<{"List"}>>, map |-> <<{"List"}, {"Lambda"}>>, filter |-> <<{"List"}, {"Lambda"}>>],
   cache |-> [new |-> <<{"Nat"}>>, len |-> <<{"Cache"}>>, get |-> <<{"Cache"}, {"any"}>>,
              put |-> <<{"Cache"}, {"any"}, {"any"}>>, clear |-> <<{"Cache"}>>],
   url |-> [parse |-> <<Texts>>, scheme_of |-> <<Texts>>, host_of |-> <<Texts>>, path_of |-> <<Texts>>,
            append_query |-> <<{"Str", "Record"}, Texts, Texts>>],
   io |-> [read_file |-> <<Texts>>, write_file |-> <<Texts, Texts>>, print_line |-> <<{"any"}>>,
           read_stdin |-> <<>>],
   time |-> [now_unix |-> <<>>],
   env |-> [get |-> <<Texts>>],
   iter |-> [zip |-> <<{"List"}, {"List"}>>, enumerate |-> <<{"List"}>>, take |-> <<{"List"}, {"Nat"}>>,
             skip |-> <<{"List"}, {"Nat"}>>, fold |-> <<{"List"}, {"any"}, {"Lambda"}>>,
             reduce |-> <<{"List"}, {"Lambda"}>>, all |-> <<{"List"}, {"any"}>>,
             any |-> <<{"List"}, {"any"}>>, find |-> <<{"List"}, {"any"}>>, count |-> <<{"List"}>>]]
Namespace(ns) == IF ns = "string" THEN "str" ELSE ns
is_builtin_namespace(ns) == Namespace(ns) \in DOMAIN Builtin
Higher == {<<"list", "map">>, <<"list", "filter">>} \cup
          {<<"iter", m>> : m \in {"fold", "reduce", "all", "any", "find"}}

Fits(v, tags) == \/ "any" \in tags \/ Tag(v) \in tags
                 \/ "Nat" \in tags /\ Tag(v) = "Int" /\ v[2] >= 0

\* builtin_arity_err, builtin_type_err and the unknown method.
call_error(ns, method, args) ==
  IF method \notin DOMAIN Builtin[ns] THEN "R0002"
  ELSE IF Len(args) /= Len(Builtin[ns][method]) THEN "R0003"
  ELSE IF \E i \in DOMAIN args : ~Fits(args[i], Builtin[ns][method][i]) THEN "R0004"
  ELSE "none"

\* What the builtins that call no lambda answer; a holds arguments of the right tags.
dispatch_str_builtin(method, a) ==
  LET s == a[1][2]
      t == a[2][2]
  IN  CASE method = "len" -> Ok(Int_(Len(s)))
        [] method = "contains" -> Ok(Bool(t = <<>> \/ find(s, t) > 0))
        [] method = "starts_with" -> Ok(Bool(IsPrefix(t, s)))
        [] method = "ends_with" -> Ok(Bool(IsSuffix(t, s)))
        [] method = "split" -> Ok(List(split(s, t)))
        [] method = "to_lower" -> Ok(Str(Recase(s, Lower)))
        [] method = "to_upper" -> Ok(Str(Recase(s, Upper)))
        [] method = "join" -> IF \E i \in DOMAIN s : Tag(s[i]) /= "Str" THEN <<"Err", "R0004">>
                              ELSE Ok(Str(join(s, t)))

dispatch_list_builtin(method, a) ==
  LET items == a[1][2]
  IN  CASE method = "len" -> Ok(Int_(Len(items)))
        [] method = "is_empty" -> Ok(Bool(items = <<>>))
        [] method = "push" -> Ok(List(Append(items, a[2])))
        [] method = "pop" -> Ok(IF items = <<>> THEN None ELSE <<"Some", Last(items)>>)

dispatch_cache_builtin(method, a) ==
  LET capacity == a[1][2]
      entries == a[1][3]
  IN  CASE method \in {"new", "clear"} -> Ok(<<"Cache", capacity, <<>>>>)
        [] method = "len" -> Ok(Int_(Len(entries)))
        [] method = "get" -> Ok(cache_get(entries, a[2]))
        [] method = "put" -> Ok(<<"Cache", capacity, cache_put(capacity, entries, a[2], a[3])>>)

dispatch_url_builtin(method, a) ==
  CASE method = "parse" -> parse_url_str(a[1][2])
    [] method = "scheme_of" -> Ok(Str(extract_scheme(a[1][2])))
    [] method = "host_of" -> Ok(Str(extract_host(a[1][2])))
    [] method = "path_of" -> Ok(Str(extract_path(a[1][2])))
    [] method = "append_query" -> Ok(append_query(a[1], a[2][2], a[3][2]))

\* io_err_value: the record an input or output error becomes.
io_err_value(kind) == <<"Err", <<"Record", "kind" :> Str(<<kind>>)>>>>
dispatch_io_builtin(method, a, st) ==
  CASE method = "read_file" ->
         Ok(IF a[1][2] \in DOMAIN st.files THEN <<"Ok", Str(st.files[a[1][2]])>>
            ELSE io_err_value("NotFound"))
    [] method = "write_file" -> Ok(IF st.writable THEN <<"Ok", Unit>> ELSE io_err_value("PermissionDenied"))
    [] method = "print_line" -> Ok(Unit)
    [] method = "read_stdin" -> Ok(<<"Ok", Str(st.stdin)>>)

dispatch_time_builtin(st) == Ok(Int_(st.now))
dispatch_env_builtin(a, st) ==
  Ok(IF a[1][2] \in DOMAIN st.environ THEN <<"Some", Str(st.environ[a[1][2]])>> ELSE None)

dispatch_iter_builtin(method, a) ==
  LET items == a[1][2]
      n == Min({a[2][2], Len(items)})
  IN  CASE method = "count" -> Ok(Int_(Len(items)))
        [] method = "zip" -> Ok(List([i \in 1..Min({Len(items), Len(a[2][2])}) |-> List(<<items[i], a[2][2][i]>>)]))
        [] method = "enumerate" -> Ok(List([i \in DOMAIN items |-> List(<<Int_(i - 1), items[i]>>)]))
        [] method = "take" -> Ok(List(Upto(items, n)))
        [] method = "skip" -> Ok(List(From(items, n + 1)))

dispatch_builtin(ns, method, a, st) ==
  CASE ns = "str" -> dispatch_str_builtin(method, a)
    [] ns = "list" -> dispatch_list_builtin(method, a)
    [] ns = "cache" -> dispatch_cache_builtin(method, a)
    [] ns = "url" -> dispatch_url_builtin(method, a)
    [] ns = "io" -> dispatch_io_builtin(method, a, st)
    [] ns = "time" -> dispatch_time_builtin(st)
    [] ns = "env" -> dispatch_env_builtin(a, st)
    [] ns = "iter" -> dispatch_iter_builtin(method, a)

\* What a builtin changes: the files, what was printed and what is left of the input.
after_builtin(ns, method, a, st) ==
  CASE <<ns, method>> = <<"io", "write_file">> /\ st.writable ->
         [st EXCEPT !.files = (a[1][2] :> a[2][2]) @@ @]
    [] <<ns, method>> = <<"io", "print_line">> -> [st EXCEPT !.printed = Append(@, a[1])]
    [] <<ns, method>> = <<"io", "read_stdin">> -> [st EXCEPT !.stdin = <<>>]
    [] OTHER -> st
----------------------------------------------------------------------------
literal_eq(lit, v) == Tag(lit) = Tag(v) /\ lit = v

\* The bindings of the arm that takes the value; a constructor pattern takes none.
matches(pattern, v) ==
  CASE pattern[1] \in {"Wildcard", "Binding"} -> TRUE
    [] pattern[1] = "Literal" -> literal_eq(pattern[2], v)
    [] pattern[1] = "Constructor" -> FALSE
bindings(pattern, v) == IF pattern[1] = "Binding" THEN pattern[2] :> v ELSE NoVars

Bind(env, names, values) ==
  [env EXCEPT !.vars = [n \in Range(names) |-> values[Max({i \in DOMAIN names : names[i] = n})]] @@ @]

\* root_view: the functions of the chain and none of its variables.
root_view(env) == [env EXCEPT !.vars = NoVars]
Lonely == [vars |-> NoVars, functions |-> <<>>]

Positional == <<"_0", "_1", "_2", "_3">>

\* eval_construct, on evaluated arguments. Ok, Err and Some drop what is left over.
construct(variant, args) ==
  CASE variant \in {"Ok", "Err", "Some"} ->
         IF args = <<>> THEN <<"Err", "R0003">> ELSE Ok(<<variant, args[1]>>)
    [] variant \in {"None", "Unit"} -> IF args = <<>> THEN Ok(<<variant>>) ELSE <<"Err", "R0003">>
    [] variant = "List" -> Ok(List(args))
    [] OTHER -> IF Len(args) = 1 /\ Tag(args[1]) = "Record" THEN Ok(args[1])
                ELSE Ok(<<"Record", Bind([vars |-> NoVars], Upto(Positional, Len(args)), args).vars>>)

\* Err of a builtin or a constructor becomes an error with the frames of the state.
Settle(answer, env, st) ==
  IF answer[1] = "Value" THEN Value(answer[2], env, st) ELSE err(answer[2], env, st)

RECURSIVE eval_expr(_, _, _, _), eval_all(_, _, _, _, _), eval_block(_, _, _, _, _),
          eval_builtin(_, _, _, _, _, _), each(_, _, _, _, _, _, _), call_function(_, _, _, _, _, _)

\* The arguments from left to right; the value is the sequence of theirs.
eval_all(exprs, done, env, depth, st) ==
  IF exprs = <<>> THEN Value(done, env, st)
  ELSE Then(eval_expr(Head(exprs), env, depth, st),
            LAMBDA r : eval_all(Tail(exprs), Append(done, r.v), r.env, depth, r.st))

\* A block binds in the environment it stands in. `return` inside `return` is one.
eval_block(stmts, tail, env, depth, st) ==
  IF stmts = <<>> THEN IF tail = <<>> THEN Value(Unit, env, st) ELSE eval_expr(tail, env, depth, st)
  ELSE LET s == Head(stmts)
       IN  IF s[1] = "Return" THEN eval_expr(s, env, depth, st)
           ELSE Then(eval_expr(s[2], env, depth, st),
                     LAMBDA r : eval_block(Tail(stmts), tail,
                                           IF s[1] = "Let" THEN Bind(r.env, <<s[3]>>, <<r.v>>) ELSE r.env,
                                           depth, r.st))

\* A lambda sees its parameters and nothing else, functions included. A `?` in it
\* makes the whole builtin answer with the error.
Applied(r, env) ==
  CASE r.tag \in {"Value", "Return"} -> Value(r.v, env, r.st)
    [] r.tag = "TryProp" -> Flow("Stop", <<"Err", r.v>>, env, r.st)
    [] OTHER -> [r EXCEPT !.env = env]
apply(lambda, args, env, depth, st) ==
  Applied(eval_expr(lambda[3], Bind(Lonely, lambda[2], args), depth + 1, st), env)

\* The loop of a builtin over a list: `acc` is what it has so far and Stop ends it.
each(kind, lambda, items, acc, env, depth, st) ==
  IF items = <<>> THEN Value(acc, env, st)
  ELSE IF kind \in {"all", "any", "find"} /\ Tag(lambda) /= "Lambda" THEN err("R0004", env, st)
  ELSE IF kind \in {"all", "any", "find"} /\ Len(lambda[2]) /= 1 THEN err("R0003", env, st)
  ELSE LET item == Head(items)
       IN  Then(apply(lambda, IF kind \in {"fold", "reduce"} THEN <<acc, item>> ELSE <<item>>,
                      env, depth, st),
                LAMBDA r :
                  LET Go(v) == each(kind, lambda, Tail(items), v, env, depth, r.st)
                      Stop(v) == Flow("Stop", v, env, r.st)
                  IN  CASE kind = "map" -> Go(Append(acc, r.v))
                        [] kind \in {"fold", "reduce"} -> Go(r.v)
                        [] kind \notin {"map", "fold", "reduce"} /\ Tag(r.v) /= "Bool" ->
                             err("R0004", env, r.st)
                        [] kind = "filter" /\ Tag(r.v) = "Bool" ->
                             Go(IF r.v[2] THEN Append(acc, item) ELSE acc)
                        [] kind = "all" /\ Tag(r.v) = "Bool" ->
                             IF r.v[2] THEN Go(acc) ELSE Stop(Bool(FALSE))
                        [] kind = "any" /\ Tag(r.v) = "Bool" ->
                             IF r.v[2] THEN Stop(Bool(TRUE)) ELSE Go(acc)
                        [] kind = "find" /\ Tag(r.v) = "Bool" ->
                             IF r.v[2] THEN Stop(<<"Some", item>>) ELSE Go(acc))

\* What a builtin makes of how its loop ended.
Looped(method, items, r) ==
  CASE r.tag = "Stop" -> [r EXCEPT !.tag = "Value"]
    [] r.tag = "Value" ->
         [r EXCEPT !.v = CASE method \in {"map", "filter"} -> List(r.v)
                           [] method = "reduce" /\ items /= <<>> -> <<"Some", r.v>>
                           [] OTHER -> r.v]
    [] OTHER -> r

\* The builtins that take a lambda.
dispatch_higher(ns, method, a, env, depth, st) ==
  LET items == a[1][2]
      lambda == Last(a)
      arity == IF method \in {"fold", "reduce"} THEN 2 ELSE 1
      start == CASE method \in {"map", "filter"} -> <<>>
                 [] method = "fold" -> a[2]
                 [] method = "reduce" -> IF items = <<>> THEN None ELSE items[1]
                 [] method = "all" -> Bool(TRUE)
                 [] method = "any" -> Bool(FALSE)
                 [] method = "find" -> None
      rest == IF method = "reduce" /\ items /= <<>> THEN Tail(items) ELSE items
  IN  IF method \in {"map", "filter", "fold", "reduce"} /\ Len(lambda[2]) /= arity
      THEN err("R0003", env, st)
      ELSE Looped(method, items, each(method, lambda, rest, start, env, depth, st))

eval_builtin(ns, method, args, env, depth, st) ==
  Then(eval_all(args, <<>>, env, depth, st),
       LAMBDA r :
         LET error == call_error(ns, method, r.v)
         IN  IF error /= "none" THEN err(error, r.env, r.st)
             ELSE IF <<ns, method>> \in Higher
                  THEN dispatch_higher(ns, method, r.v, r.env, depth, r.st)
                  ELSE Settle(dispatch_builtin(ns, method, r.v, r.st), r.env,
                              after_builtin(ns, method, r.v, r.st)))

\* Mutant: the name stays on the frames when the call is over.
Returned_mutant(r, env, frames) ==
  CASE r.tag \in {"Value", "Return"} -> Value(r.v, env, r.st)
    [] r.tag = "TryProp" -> Value(<<"Err", r.v>>, env, r.st)
    [] OTHER -> [r EXCEPT !.env = env]

\* What a call makes of how its body ended; the frames are popped.
Returned(r, env, frames) ==
  CASE r.tag \in {"Value", "Return"} -> Value(r.v, env, [r.st EXCEPT !.frames = frames])
    [] r.tag = "TryProp" -> Value(<<"Err", r.v>>, env, [r.st EXCEPT !.frames = frames])
    [] OTHER -> [r EXCEPT !.env = env, !.st.frames = frames]

\* call_function: the depth, the arity, then the body in an environment of its own
\* with the name of the function on the frames.
call_function(root, name, args, env, depth, st) ==
  LET def == root.functions[name]
      pushed == [st EXCEPT !.frames = Append(@, name)]
  IN  IF depth >= MAX_CALL_DEPTH THEN [err("R0005", env, pushed) EXCEPT !.st = st]
      ELSE IF Len(def.params) /= Len(args) THEN err("R0003", env, st)
      ELSE Returned(eval_expr(def.body, Bind(root, def.params, args), depth + 1, pushed), env, st.frames)

\* Whether the guard lets a call through; without capabilities nothing is asked.
guard(def, st) ==
  IF st.caps = <<>> \/ def.effects = {} THEN Allowed
  ELSE guard_call_at(def.effects, st.caps[1], st.principal, st.now)

eval_call(callee, args, env, depth, st) ==
  IF callee[1] = "Field" /\ callee[2][1] = "Var" /\ is_builtin_namespace(callee[2][2])
  THEN eval_builtin(Namespace(callee[2][2]), callee[3], args, env, depth, st)
  ELSE IF callee[1] /= "Var" THEN err("R0004", env, st)
  ELSE IF callee[2] \notin DOMAIN env.functions THEN err("R0002", env, st)
  ELSE LET name == callee[2]
           def == env.functions[name]
       IN  IF Len(def.params) /= Len(args) THEN err("R0003", env, st)
           ELSE Then(eval_all(args, <<>>, env, depth, st),
                     LAMBDA r :
                       IF guard(def, r.st) /= Allowed THEN err(guard(def, r.st), r.env, r.st)
                       ELSE call_function(root_view(r.env), name, r.v, r.env, depth,
                                          [r.st EXCEPT !.ran = @ \cup {name}]))

eval_match(arms, v, env, depth, st) ==
  LET takes == {i \in DOMAIN arms : matches(arms[i][1], v)}
      arm == arms[Min(takes)]
  IN  IF takes = {} THEN err("R0004", env, st)
      ELSE [eval_expr(arm[2], [env EXCEPT !.vars = bindings(arm[1], v) @@ @], depth, st) EXCEPT !.env = env]

eval_field(v, name, env, st) ==
  IF Tag(v) = "Record" /\ name \in DOMAIN v[2] THEN Value(v[2][name], env, st)
  ELSE err("R0004", env, st)

eval_expr(e, env, depth, st0) ==
  LET st == [st0 EXCEPT !.deep = Max({@, depth})]
      Eval(x, K(_)) == Then(eval_expr(x, env, depth, st), K)
  IN  IF depth > HostStack THEN Overflow(env, st)
      ELSE CASE e[1] = "Lit" -> Value(e[2], env, st)
        [] e[1] = "Var" ->
             CASE e[2] = "true" -> Value(Bool(TRUE), env, st)
               [] e[2] = "false" -> Value(Bool(FALSE), env, st)
               [] OTHER -> IF e[2] \in DOMAIN env.vars THEN Value(env.vars[e[2]], env, st)
                           ELSE err("R0002", env, st)
        [] e[1] = "Block" -> eval_block(e[2], e[3], env, depth, st)
        [] e[1] = "If" ->
             Eval(e[2], LAMBDA r :
                    IF Tag(r.v) /= "Bool" THEN err("R0004", r.env, r.st)
                    ELSE IF r.v[2] THEN eval_expr(e[3], r.env, depth, r.st)
                    ELSE IF e[4] = <<>> THEN Value(Unit, r.env, r.st)
                    ELSE eval_expr(e[4], r.env, depth, r.st))
        [] e[1] = "Match" -> Eval(e[2], LAMBDA r : eval_match(e[3], r.v, r.env, depth, r.st))
        [] e[1] = "Return" ->
             IF e[2] = <<>> THEN Flow("Return", Unit, env, st)
             ELSE Eval(e[2], LAMBDA r : [r EXCEPT !.tag = "Return"])
        [] e[1] = "Call" -> eval_call(e[2], e[3], env, depth, st)
        [] e[1] = "Construct" ->
             Then(eval_all(e[3], <<>>, env, depth, st),
                  LAMBDA r : Settle(construct(e[2], r.v), r.env, r.st))
        [] e[1] = "Try" ->
             Eval(e[2], LAMBDA r : CASE Tag(r.v) = "Ok" -> Value(r.v[2], r.env, r.st)
                                     [] Tag(r.v) = "Err" -> Flow("TryProp", r.v[2], r.env, r.st)
                                     [] OTHER -> err("R0004", r.env, r.st))
        [] e[1] = "Field" -> Eval(e[2], LAMBDA r : eval_field(r.v, e[3], r.env, r.st))
        [] e[1] = "Record" ->
             Then(eval_all([i \in DOMAIN e[2] |-> e[2][i][2]], <<>>, env, depth, st),
                  LAMBDA r : Value(<<"Record", Bind([vars |-> NoVars],
                                                    [i \in DOMAIN e[2] |-> e[2][i][1]], r.v).vars>>,
                                   r.env, r.st))
        [] e[1] = "Lambda" -> Value(<<"Lambda", e[2], e[3]>>, env, st)
        [] e[1] \in {"Tuple", "InterpString", "Error", "Binary", "Unary"} -> err("R0004", env, st)

\* The state of a run before it starts.
Start(caps, principal, now, world) ==
  [frames |-> <<>>, caps |-> caps, principal |-> principal, now |-> now, ran |-> {}, deep |-> 0,
   files |-> world.files, writable |-> world.writable, printed |-> <<>>,
   stdin |-> world.stdin, environ |-> world.environ]

\* exec_program_with_caps: no guard stands before the entry itself. A failed run
\* reports the effects the entry declares.
exec_program_with_caps(functions, entry, args, caps, principal, now, world) ==
  LET root == [vars |-> NoVars, functions |-> functions]
      st == Start(caps, principal, now, world)
  IN  IF entry \notin DOMAIN functions THEN err("R0001", root, st)
      ELSE call_function(root, entry, args, root, 0, st)
observed_effects(functions, entry) ==
  IF entry \in DOMAIN functions THEN functions[entry].effects ELSE {}
=============================================================================
