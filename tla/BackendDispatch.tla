-------------------------- MODULE BackendDispatch --------------------------
(***************************************************************************)
(* The dispatch table of the HTTP backend,                                 *)
(* crates/ori-compiler/src/backend_dispatch.rs. A path is the sequence of  *)
(* its slashes and of the pieces between them; a piece of ParamName is a   *)
(* parameter. A name of a handler is the sequence of the words between its *)
(* underscores. A table holds its routes by method and path, its           *)
(* middleware and its slash policy; cors is the thread's own pair of       *)
(* lists, which every table of the thread shares.                          *)
(***************************************************************************)
EXTENDS Integers, Sequences, FiniteSetsExt, SequencesExt

LOCAL INSTANCE TLC

TRANSPORT_EFFECTS == {"http"}
ParamName == (":i" :> "i") @@ (":j" :> "j")

\* Where an element of a path stands in the order of the map's keys.
Rank == [x \in {"/", ":i", ":j", "a", "b", "c"} |->
           CASE x = "/" -> 1 [] x = ":i" -> 2 [] x = ":j" -> 3 [] x = "a" -> 4 [] x = "b" -> 5 [] x = "c" -> 6]
RECURSIVE Precedes(_, _)
Precedes(p, q) ==
  CASE p = <<>> -> q /= <<>>
    [] p /= <<>> /\ q = <<>> -> FALSE
    [] OTHER -> \/ Rank[p[1]] < Rank[q[1]]
                \/ p[1] = q[1] /\ Precedes(Tail(p), Tail(q))
----------------------------------------------------------------------------
\* PathPattern: the pieces that are not empty, and whether a slash ends the path.
trailing_slash(path) == Len(path) > 1 /\ Last(path) = "/"
segments(path) == SelectSeq(path, LAMBDA x : x /= "/")
shape(path) == [i \in DOMAIN segments(path) |-> IF segments(path)[i] \in DOMAIN ParamName THEN ":" ELSE segments(path)[i]]
matches(pattern, path) ==
  LET want == segments(pattern)
      got == segments(path)
  IN  /\ trailing_slash(pattern) = trailing_slash(path)
      /\ Len(want) = Len(got)
      /\ \A i \in DOMAIN want : want[i] \in DOMAIN ParamName \/ want[i] = got[i]
\* match_path: a name that occurs twice keeps what it met last.
match_path(pattern, path) ==
  LET want == segments(pattern)
      at(n) == {i \in DOMAIN want : want[i] \in DOMAIN ParamName /\ ParamName[want[i]] = n}
  IN  [n \in {ParamName[x] : x \in Range(want) \cap DOMAIN ParamName} |-> segments(path)[Max(at(n))]]
param_count(pattern) == Len(SelectSeq(segments(pattern), LAMBDA x : x \in DOMAIN ParamName))

NoRoutes == [k \in {} |-> <<>>]
new == [routes |-> NoRoutes, middleware |-> <<>>, slash_policy |-> "Strict"]
Key(route) == <<route.method, route.path>>
insert(table, route) == [table EXCEPT !.routes = (Key(route) :> route) @@ @]
clashes(table, route) ==
  {k \in DOMAIN table.routes : k[1] = route.method /\ k[2] /= route.path /\ shape(k[2]) = shape(route.path)}
insert_route(table, route) == IF clashes(table, route) = {} THEN insert(table, route) ELSE table
with_middleware(table, mw) == [table EXCEPT !.middleware = Append(@, mw)]
with_slash_policy(table, policy) == [table EXCEPT !.slash_policy = policy]
methods_matching(table, path) == {k[1] : k \in {x \in DOMAIN table.routes : matches(x[2], path)}}
----------------------------------------------------------------------------
\* A word and an underscore in front of the name decide, or the effects.
infer_method(name, effects) ==
  LET First(words) == Len(name) > 1 /\ name[1] \in words
  IN  CASE First({"get", "list"}) \/ name = <<"index">> -> "GET"
        [] First({"post", "create"}) -> "POST"
        [] First({"put", "update"}) -> "PUT"
        [] First({"delete", "remove"}) -> "DELETE"
        [] First({"patch"}) -> "PATCH"
        [] OTHER -> IF "db.write" \in effects THEN "POST" ELSE "GET"

RECURSIVE trim_word(_, _), trim_words(_, _)
trim_word(name, word) == IF Len(name) > 1 /\ name[1] = word THEN trim_word(Tail(name), word) ELSE name
trim_words(name, words) == IF words = <<>> THEN name ELSE trim_words(trim_word(name, Head(words)), Tail(words))
Verbs == <<"get", "list", "post", "put", "patch", "delete", "create", "update", "remove">>
infer_path(name) ==
  LET words == trim_words(name, Verbs)
  IN  IF words = <<"">> THEN <<"/">>
      ELSE FlattenSeq([i \in DOMAIN words |-> IF words[i] = "" THEN <<"/">> ELSE <<"/", words[i]>>])

route_of(symbol) ==
  [symbol_id |-> symbol.id, method |-> infer_method(symbol.name, symbol.effects),
   path |-> infer_path(symbol.name), effects |-> symbol.effects,
   principal_required |-> symbol.effects \ TRANSPORT_EFFECTS /= {}]
\* build_dispatch_table: the functions with an http effect, by id. Where two have one
\* method and path the later one takes the place of the earlier.
build_dispatch_table(symbols) ==
  FoldLeft(LAMBDA table, s : IF s.effects \cap {"http", "http.get"} = {} THEN table ELSE insert(table, route_of(s)),
           new, symbols)
----------------------------------------------------------------------------
Response(status, body, allow) == [status |-> status, body |-> body, allow |-> allow]
Answer(r) == <<"Ok", r>>
Error(kind, detail) == <<"Err", kind, detail>>

\* CORS: the factory sets the lists of the thread.
cors_middleware(origins, methods) == [origins |-> origins, methods |-> methods]
allowed(origin, cors) == origin \in cors.origins \/ "*" \in cors.origins
preflight_response(origin, cors) ==
  IF allowed(origin, cors) THEN Response(204, "", <<origin, cors.methods>>) ELSE Response(403, "", <<>>)
cors_before_handler(req, cors) ==
  IF req.method /= "OPTIONS" THEN <<>> ELSE <<preflight_response(req.origin, cors)>>
cors_after_handler(req, resp, cors) ==
  IF req.origin = "" \/ ~allowed(req.origin, cors) THEN <<>> ELSE <<[resp EXCEPT !.allow = <<req.origin>>]>>

\* A middleware continues, <<>>, or answers. `handler` of any other one is its answer.
run_middleware(mw, req, resp, cors) ==
  CASE mw.handler = "cors" /\ mw.kind = "Before" -> cors_before_handler(req, cors)
    [] mw.handler = "cors" /\ mw.kind = "After" -> cors_after_handler(req, resp, cors)
    [] mw.handler = "pass" -> <<>>
    [] mw.handler = "deny" -> <<Response(503, "", <<>>)>>
RECURSIVE run_before(_, _, _), run_after(_, _, _, _)
run_before(chain, req, cors) ==
  IF chain = <<>> THEN <<>>
  ELSE LET out == IF Head(chain).kind = "Before" THEN run_middleware(Head(chain), req, <<>>, cors) ELSE <<>>
       IN  IF out /= <<>> THEN out ELSE run_before(Tail(chain), req, cors)
run_after(chain, req, resp, cors) ==
  IF chain = <<>> THEN resp
  ELSE LET out == IF Last(chain).kind = "After" THEN run_middleware(Last(chain), req, resp, cors) ELSE <<>>
       IN  run_after(Front(chain), req, IF out /= <<>> THEN out[1] ELSE resp, cors)
----------------------------------------------------------------------------
RECURSIVE trim_end_slashes(_)
trim_end_slashes(path) == IF path /= <<>> /\ Last(path) = "/" THEN trim_end_slashes(Front(path)) ELSE path

lenient_redirect(table, path) ==
  LET canonical == trim_end_slashes(path)
      exists == \E k \in DOMAIN table.routes :
                  k[2] = canonical \/ (k[2] /= path /\ matches(k[2], canonical))
  IN  IF table.slash_policy = "Lenient" /\ trailing_slash(path) /\ exists THEN <<canonical>> ELSE <<>>

\* Mutant: the first pattern that matches, however many parameters it has.
find_matching_route_mutant(table, method, path) ==
  LET found == {k \in DOMAIN table.routes : k[1] = method /\ matches(k[2], path)}
  IN  IF found = {} THEN <<>>
      ELSE <<table.routes[CHOOSE k \in found : \A l \in found \ {k} : Precedes(k[2], l[2])]>>

\* The path itself, else the pattern with the fewest parameters and of those the first
\* in the order of the keys.
find_matching_route(table, method, path) ==
  LET found == {k \in DOMAIN table.routes : k[1] = method /\ matches(k[2], path)}
      fewest == {k \in found : \A l \in found : param_count(k[2]) <= param_count(l[2])}
  IN  IF <<method, path>> \in DOMAIN table.routes THEN <<table.routes[<<method, path>>]>>
      ELSE IF found = {} THEN <<>>
      ELSE <<table.routes[CHOOSE k \in fewest : \A l \in fewest \ {k} : Precedes(k[2], l[2])]>>

\* The handler's own answer, once the principal has every effect but the transport's.
handle(route, req) ==
  LET needed == route.effects \ TRANSPORT_EFFECTS
  IN  IF route.principal_required /\ req.principal = <<>> THEN Error("MissingPrincipal", {})
      ELSE IF req.principal /= <<>> /\ ~(needed \subseteq req.principal[1])
      THEN Error("MissingCapability", needed \ req.principal[1])
      ELSE Answer(Response(200, route.symbol_id, <<>>))

dispatch(table, req, cors) ==
  LET redirect == lenient_redirect(table, req.path)
      methods == methods_matching(table, req.path)
      route == find_matching_route(table, req.method, req.path)
      short == run_before(table.middleware, req, cors)
      answer == IF short /= <<>> THEN Answer(short[1]) ELSE handle(route[1], req)
  IN  IF redirect /= <<>> THEN Answer(Response(308, redirect[1], <<>>))
      ELSE IF methods = {} THEN Error("NotFound", {})
      ELSE IF route = <<>> THEN Error("MethodNotAllowed", methods)
      ELSE IF answer[1] = "Err" THEN answer
      ELSE Answer(run_after(table.middleware, req, answer[2], cors))

\* lint_dispatch_table, R0051: a parameter the handler's id does not mention.
lint_dispatch_table(table) ==
  {<<k, x>> \in (DOMAIN table.routes) \X (DOMAIN ParamName) :
     x \in Range(k[2]) /\ ParamName[x] \notin table.routes[k].mentions}
----------------------------------------------------------------------------
\* The handler that answers matches the path, no match of its method has fewer
\* parameters, and its parameters put back into its pattern are the path; a method is
\* refused only where others are served, which then find a handler; a redirect leads
\* to a path that is served and not redirected.
RoutingIsExact(table, req, cors) ==
  LET out == dispatch(table, req, cors)
      fits == {k \in DOMAIN table.routes : matches(k[2], req.path)}
      route == find_matching_route(table, req.method, req.path)
      back(pattern) == [i \in DOMAIN segments(pattern) |->
                          IF segments(pattern)[i] \in DOMAIN ParamName
                          THEN match_path(pattern, req.path)[ParamName[segments(pattern)[i]]] ELSE segments(pattern)[i]]
  IN  /\ route /= <<>> =>
           LET path == route[1].path
           IN  /\ Key(route[1]) \in fits
               /\ \A k \in fits : k[1] = req.method => param_count(path) <= param_count(k[2])
               /\ IsInjective(segments(path)) => back(path) = segments(req.path)
      /\ out[1] = "Err" /\ out[2] = "NotFound" => fits = {}
      /\ out[1] = "Err" /\ out[2] = "MethodNotAllowed" =>
           /\ out[3] /= {} /\ req.method \notin out[3]
           /\ \A m \in out[3] : find_matching_route(table, m, req.path) /= <<>>
      /\ out[1] = "Ok" /\ out[2].status = 308 =>
           LET next == dispatch(table, [req EXCEPT !.path = out[2].body], cors)
           IN  /\ next[1] = "Ok" => next[2].status /= 308
               /\ next[1] = "Err" => next[2] /= "NotFound"

\* A handler answers only for a principal that holds each effect it declares but http.
HandlersAreGuarded(symbols, chain, req, cors) ==
  LET out == dispatch([build_dispatch_table(symbols) EXCEPT !.middleware = chain], req, cors)
  IN  out[1] = "Ok" /\ out[2].status = 200 =>
        \E i \in DOMAIN symbols :
          /\ symbols[i].id = out[2].body
          /\ symbols[i].effects \ TRANSPORT_EFFECTS \subseteq
               (IF req.principal = <<>> THEN {} ELSE req.principal[1])

\* An origin is let in only where the lists of the thread have it.
OriginsAreListed(table, req, cors) ==
  LET out == dispatch(table, req, cors)
  IN  out[1] = "Ok" /\ out[2].allow /= <<>> => out[2].allow[1] = req.origin /\ allowed(req.origin, cors)
=============================================================================
