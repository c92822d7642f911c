----------------------------- MODULE MCToolchain -----------------------------
(***************************************************************************)
(* The tools around the compiler over enumerated inputs: a behaviour picks *)
(* the input of one algorithm, which is then the state its property is     *)
(* evaluated in, and goes back to pick another. The packages of            *)
(* crates/ori-pkg come first, then the command lines, the HTTP messages,   *)
(* the routes, the migrations and the editor's answers.                    *)
(***************************************************************************)
EXTENDS PackageManifest, VersionSolver, PathResolver, TLC

VARIABLE case

Idle == [kind |-> "idle"]
Init == case = Idle
----------------------------------------------------------------------------
\* Versions around zero and around MaxU32 = 3, with prereleases of every kind of
\* identifier.
Prereleases == {NoSuffix, <<num(1)>>, <<num(2)>>, << <<"word", 1>> >>,
                <<num(1), <<"word", 0>> >>, << <<"huge", 0>> >>}
Triples == {<<0, 0, 0>>, <<0, 0, 1>>, <<0, 1, 0>>, <<0, 1, 2>>, <<1, 0, 0>>, <<1, 2, 0>>,
            <<1, 2, 3>>, <<1, 3, 0>>, <<0, 0, 3>>, <<3, 3, 3>>, <<0, 3, 0>>}
Text(t, pre) == [core |-> <<num(t[1]), num(t[2]), num(t[3])>>, pre |-> pre, build |-> NoSuffix]
MCVersions == {parse_version(Text(t, pre)) : <<t, pre>> \in Triples \X Prereleases}

PickVersions ==
  \/ case' = [kind |-> "order"]
  \/ \E v, w \in MCVersions : case' = [kind |-> "versions", low |-> v, other |-> w]

\* The order of versions is total, and ^ and ~ accept exactly the releases that share
\* the elements they lock, none if the last of these is the largest number.
VersionsBehave ==
  /\ case.kind = "order" => OrderIsTotal(MCVersions)
  /\ case.kind = "versions" => RangesLock(case.low, case.other)
----------------------------------------------------------------------------
\* root needs b and c, both need d, c needs e as well, d1 needs e: all the ways to
\* constrain d and e; back makes d2 depend on b again.
Accepts == {{}, {1}, {2}, {1, 2}}
Need(name, accepts) == IF accepts = {} THEN <<>> ELSE <<[name |-> name, accepts |-> accepts]>>
Diamond(bd, cd2, ce, cd1, de, back) ==
  [packages |-> ("root" :> {1}) @@ ("b" :> {1}) @@ ("c" :> {1, 2}) @@ ("d" :> {1, 2})
                  @@ ("e" :> {1, 2}),
   dependencies |->
     ("root" :> (1 :> Need("b", {1}) \o Need("c", {1, 2})))
       @@ ("b" :> (1 :> Need("d", bd)))
       @@ ("c" :> ((1 :> Need("d", cd1)) @@ (2 :> Need("d", cd2) \o Need("e", ce))))
       @@ ("d" :> ((1 :> Need("e", de)) @@ (2 :> IF back THEN Need("b", {1}) ELSE <<>>)))
       @@ ("e" :> ((1 :> <<>>) @@ (2 :> <<>>)))]

PickDiamond ==
  \E bd, cd2, ce, cd1, de \in Accepts, back \in BOOLEAN :
    case' = [kind |-> "diamond", graph |-> Diamond(bd, cd2, ce, cd1, de, back)]

PickRegistry ==
  \E one, two \in Accepts, have1, have2 \in SUBSET (1..3) :
    case' = [kind |-> "registry", deps |-> Need("d", one) \o Need("e", two),
             candidates |-> ("d" :> have1) @@ ("e" :> have2) @@ ("root" :> {2})]

SolutionsHold ==
  /\ case.kind = "diamond" => SolverIsSoundWithoutRetry(case.graph, "root")
  /\ case.kind = "registry" => RegistryPicksHighest("root", case.deps, case.candidates)

\* The same without the exception: whatever was given up on the way, what solve
\* returns satisfies the dependencies of every package in it.
SolutionsAlwaysHold == case.kind = "diamond" => SolverIsSound(case.graph, "root")
----------------------------------------------------------------------------
\* Three packages in three directories, the root in the first: any path
\* dependencies between them, a dependency on a version, pins that accept one
\* version or both, and a third package that may have the name of the second.
PathDep(d, pin) == [alias |-> <<"root", "two", "three">>[d], kind |-> "path", dir |-> d, pin |-> pin]
DepLists == {<<>>, <<PathDep(2, {1, 2})>>, <<PathDep(3, {1})>>,
             <<PathDep(2, {1, 2}), PathDep(3, {1, 2})>>,
             <<[alias |-> "lib", kind |-> "version", dir |-> 1, pin |-> {}], PathDep(3, {1, 2})>>,
             <<PathDep(1, {1})>>}

PickTree ==
  \E deps \in [1..3 -> DepLists], caps2, caps3 \in SUBSET {"fs"}, root_caps \in SUBSET {"fs", "net"},
     name3 \in {"two", "three", "none"}, version3 \in {1, 2} :
    case' = [kind |-> "tree",
             tree |-> <<[name |-> "root", version |-> 1, caps |-> root_caps, deps |-> deps[1]],
                        [name |-> "two", version |-> 1, caps |-> caps2, deps |-> deps[2]],
                        IF name3 = "none" THEN NoManifest
                        ELSE [name |-> name3, version |-> version3, caps |-> caps3,
                              deps |-> deps[3]]>>]

GraphsAreExact ==
  case.kind = "tree" => ResolveIsExact(case.tree, 1) /\ AuditIsExact(case.tree, 1)

----------------------------------------------------------------------------
\* Strings of up to four of the characters that a quoted string may trip over,
\* and lines made of them.
Short(chars, n) == UNION {[1..k -> chars] : k \in 0..n}

PickString ==
  \E content \in Short({"\"", "\\", "#", "]", ",", " ", "a"}, 3),
     comment \in {<<>>, <<"\"">>, <<"a", "\"", "\\">>} :
    case' = [kind |-> "string", content |-> content, comment |-> comment]
PickLine ==
  \E rest \in Short({"\"", "\\", "#", "[", " ", "a"}, 5) : case' = [kind |-> "line", rest |-> rest]

LinesAreExact ==
  /\ case.kind = "string" => QuotedIsReadBack(case.content, case.comment)
  /\ case.kind = "line" => AcceptedIsQuoted(case.rest)
----------------------------------------------------------------------------
\* A manifest of a package section and two more blocks, each any of a few.
Str(blank, text) == [type |-> "string", blank |-> blank, text |-> text, items |-> <<>>]
Arr(items) == [type |-> "array", blank |-> FALSE, text |-> "", items |-> items]
Header(name) == [kind |-> "header", name |-> name, value |-> Str(TRUE, "")]
Entry(name, value) == [kind |-> "entry", name |-> name, value |-> value]
NoText == [core |-> <<>>, pre |-> NoSuffix, build |-> NoSuffix]
Requirement(op, low) == [op |-> op, low |-> low, comma |-> "none", high |-> NoText]
Requirements == {Requirement("^", Text(<<1, 2, 0>>, NoSuffix)), Requirement("*", NoText),
                 Requirement(">", Text(<<1, 0, 0>>, NoSuffix)),
                 Requirement("^", [NoText EXCEPT !.core = << <<"word", 0>> >>]),
                 [Requirement("^", Text(<<1, 0, 0>>, NoSuffix)) EXCEPT
                    !.comma = "<", !.high = Text(<<2, 0, 0>>, NoSuffix)]}
ManifestVersions == {Text(<<1, 0, 0>>, NoSuffix), [NoText EXCEPT !.core = <<num(1)>>],
                     [NoText EXCEPT !.core = <<num(1), <<"zeros", 0>>, <<"huge", 0>> >>],
                     Text(<<1, 0, 0>>, << <<"bad", 0>>, num(1)>>)}
PackageBlock(version) ==
  <<Header("package"), Entry("name", Str(FALSE, "")), Entry("version", Str(FALSE, version)),
    Entry("edition", Str(FALSE, ""))>>
Blocks ==
  {<<Header("dependencies"), Entry(n, Str(FALSE, r))>> : <<n, r>> \in {"dep", "lib"} \X Requirements}
    \cup {<<Header("dependencies.dep"), Entry("path", Str(b, "")), Entry("version", Str(FALSE, r))>> :
            <<b, r>> \in BOOLEAN \X Requirements}
    \cup {<<Header("dependencies.dep")>>, <<Header("other")>>, <<Header("scripts"), Entry("other", Arr(<<>>))>>,
          <<Header("capabilities"), Entry("declared", Arr(<<"word">>))>>,
          <<Header("capabilities"), Entry("denied", Arr(<<"blank">>))>>,
          <<Header("package"), Entry("description", Str(TRUE, ""))>>,
          <<Header("package"), Entry("edition", Str(TRUE, ""))>>}

PickManifest ==
  \E version \in ManifestVersions, one, two \in Blocks :
    case' = [kind |-> "manifest", package |-> PackageBlock(version), one |-> one, two |-> two]

ManifestsAreSafe ==
  case.kind = "manifest" =>
    /\ SectionsMayMove(case.package, case.one, case.two)
    /\ SectionsMayMove(<<>>, case.one, case.package \o case.two)
    /\ AcceptedIsResolvable(case.package \o case.one \o case.two)
----------------------------------------------------------------------------
\* Every command whose usage lists --json, with the options it takes.
Cli == INSTANCE OriCli
JsonCommands ==
  {<< <<"check">>, {}>>, << <<"capsule">>, {}>>, << <<"agent", "map">>, {"--budget"}>>,
   << <<"agent", "explain">>, {}>>, << <<"agent", "symbols">>, {"--changed"}>>,
   << <<"agent", "diagnose">>, {}>>, << <<"agent", "tests">>, {"--affected", "--changed-name"}>>,
   << <<"agent", "changed">>, {"--prev"}>>, << <<"agent", "telemetry">>, {"--in"}>>,
   << <<"patch", "check">>, {}>>, << <<"patch", "apply">>, {"--dry-run"}>>,
   << <<"patch", "dry-run">>, {}>>, << <<"package", "check">>, {}>>, << <<"audit">>, {}>>,
   << <<"sbom">>, {"--format"}>>, << <<"provenance", "verify">>, {}>>, << <<"run">>, {"--entry"}>>,
   << <<"build">>, {"--target", "--ui-kind", "desktop"}>>,
   << <<"build">>, {"--target", "wasm-component"}>>,
   << <<"build", "--target", "desktop">>, {"--platform"}>>, << <<"bundle">>, {"--in", "--out", "-h"}>>,
   << <<"bundle", "--in", "f">>, {"--out", "--format"}>>, << <<"bench">>, {"--samples"}>>,
   << <<"openapi">>, {}>>, << <<"ui">>, {}>>, << <<"design", "check">>, {"--tokens"}>>,
   << <<"wasm">>, {}>>, << <<"capability">>, {"--policy"}>>, << <<"test">>, {"--changed"}>>,
   << <<"coverage">>, {}>>, << <<"docs">>, {"--format", "--budget"}>>,
   << <<"migrate", "--from", "v">>, {"--to", "--apply"}>>, << <<"migrate">>, {"--from", "--to"}>>,
   << <<"db", "check">>, {}>>, << <<"publish">>, {"--tarball", "--dry-run"}>>,
   << <<"publish", "--tarball", "g">>, {"--registry", "--tag"}>>,
   << <<"fetch">>, {"--registry"}>>, << <<"fetch", "--registry", "f">>, {"--out"}>>,
   << <<"registry", "list">>, {"--registry"}>>,
   << <<"registry", "yank", "--registry", "f">>, {"--package", "--version", "--reason"}>>,
   << <<"schema", "import", "grpc">>, {"--module"}>>, << <<"schema", "validate">>, {"--in", "--schemas"}>>,
   << <<"preprocess">>, {"--const", "--allow-env"}>>, << <<"doctor">>, {}>>}

\* The others.
OtherCommands ==
  {<< <<>>, {"help"}>>, << <<"fmt">>, {}>>, << <<"lsp">>, {"--stdio", "-h"}>>,
   << <<"ui", "render", "--dry-run">>, {"--module", "--view"}>>, << <<"ui", "render">>, {"--json"}>>,
   << <<"capability", "check">>, {"--module", "--has"}>>, << <<"serve">>, {"--dry-run", "--module"}>>,
   << <<"patch", "explain">>, {}>>, << <<"patch">>, {}>>, << <<"schema">>, {}>>, << <<"db">>, {}>>,
   << <<"registry">>, {}>>, << <<"agent">>, {"capsule"}>>, << <<"provenance">>, {}>>,
   << <<"schema", "import">>, {}>>, << <<"frob">>, {}>>}

Options == UNION {c[2] : c \in JsonCommands} \ {"--dry-run", "--apply", "--changed", "--affected", "-h"}

Env(f, g, writable, registry, listing, other, left) ==
  [status |-> [w \in {"f", "g", "."} |-> CASE w = "f" -> f [] w = "g" -> g [] OTHER -> "ok"],
   writable |-> writable, left |-> left, registry |-> registry, listing |-> listing, lsp |-> other,
   desktop |-> other, edition |-> other, view |-> other,
   functions |-> IF other = "ok" THEN ("boot" :> "error") @@ ("v" :> "value") ELSE <<>>]
Envs == {Env("ok", "missing", TRUE, "ok", "ok", "ok", {}),
         Env("errors", "ok", TRUE, "io", "ok", "broken", {"registry", "tarball", "provenance"}),
         Env("malformed", "errors", TRUE, "exists", "io", "not_found", {"registry"}),
         Env("missing", "malformed", FALSE, "ok", "not_found", "ok", {"registry", "out"}),
         Env("ok", "malformed", TRUE, "ok", "io", "ok", {})}

Arguments(options) == UNION {[1..n -> options \cup {"f", "g", "v", "--x", "-x"}] : n \in 0..3}

PickCommand ==
  \E c \in JsonCommands \cup OtherCommands, env \in Envs : \E args \in Arguments(c[2]) :
    case' = [kind |-> "command", command |-> c[1], json |-> c \in JsonCommands,
             args |-> args, env |-> env]

\* Where --json would be the value of an option it is one.
CommandsAgree ==
  case.kind = "command" /\ case.json =>
    \A i \in 0..Len(case.args) :
      (i > 0 => case.args[i] \notin Options) =>
        Cli!JsonIsTransparent(case.command, case.args, i, case.env)

RefusalsAreHarmless ==
  case.kind = "command" => Cli!RefusedIsHarmless(case.command \o case.args, case.env)

----------------------------------------------------------------------------
\* Messages: headers of one or two names, bodies that look like the protocol, and
\* the bytes that follow. The client's requests have more headers than the cap of the
\* other messages allows.
H == INSTANCE Http WITH MAX_LINE_BYTES <- 12, MAX_HEADER_BYTES <- 20, MAX_CHUNK_LINE_BYTES <- 5,
                        DEFAULT_MAX_BODY_BYTES <- 2, MAX_USIZE <- 99
Client == INSTANCE Http WITH MAX_LINE_BYTES <- 12, MAX_HEADER_BYTES <- 50, MAX_CHUNK_LINE_BYTES <- 5,
                             DEFAULT_MAX_BODY_BYTES <- 2, MAX_USIZE <- 99
Bodies == Short({"a", "\r", "\n", "0"}, 3)
Follow == {<<>>, <<"\r", "\n">>, <<"0", "\r", "\n", "a">>}
Headers == {<<>>, <<"x">> :> <<"a", ":", "a">>, (<<"x">> :> <<>>) @@ (<<"y">> :> <<"a", ",", "b">>)}
StartLine == <<"POST", " ", "/", " ", "HTTP/1.1", "\n">>
Openings == {<<>>, StartLine, StartLine \o <<"content-length", ":">>,
             StartLine \o <<"transfer-encoding", ":", "chunked", "\n", "\n">>, <<"HTTP/1.0", " ">>}

PickMessage ==
  \/ \E body \in Bodies, headers \in Headers, tail \in Follow, limit \in 1..3 :
       case' = [kind |-> "message", tail |-> tail, limit |-> limit,
                req |-> [method |-> <<"POST">>, path |-> <<"/", "a">>, version |-> <<>>, headers |-> headers, body |-> body]]
  \/ \E n \in 0..3 : \E chunks \in [1..n -> Short({"a", "\n"}, 2) \ {<<>>}], extension \in {<<>>, <<";", "a">>},
        trailer \in {<<>>, <<"x", ":", "\r", "\n">>}, tail \in Follow, limit \in {2, 4} :
       case' = [kind |-> "chunks", chunks |-> chunks, extension |-> extension, trailer |-> trailer,
                tail |-> tail, limit |-> limit]
  \/ \E bytes \in Short({"a", "0", "2", "\n", "\r", ";"}, 5) :
       case' = [kind |-> "bytes", bytes |-> StartLine \o <<"transfer-encoding", ":", "chunked", "\n", "\n">> \o bytes]
  \/ \E bytes \in Short({"a", "+", "2", "\n", H!NotUtf8, H!IoError}, 4), before \in Openings :
       case' = [kind |-> "bytes", bytes |-> before \o bytes]
  \/ \E rest \in Short({"a", ":", "/", "3", "@", H!Wide}, 4), scheme \in {<<>>, <<"HTTP://">>, <<"https://">>},
        addrs \in Short({[kind |-> "refused"], [kind |-> "broken"]}, 2), body \in Short({"a", "\n"}, 2),
        status \in {200, 418}, reason \in {<<>>, <<"No", " ", "a">>} :
       /\ scheme /= <<"HTTP://">> \/ Len(rest) > 2 => addrs = <<>> /\ body = <<>> /\ status = 200 /\ reason = <<>>
       /\ case' = [kind |-> "client", url |-> scheme \o rest, addrs |-> addrs, body |-> body,
                   resp |-> [status |-> status, reason |-> reason, headers |-> <<>>, body |-> body \o body]]

\* An HTTP message that is written is read back and what follows it is left alone; a
\* chunked body is joined whatever Content-Length says; no part of a message is taken
\* for one, none exceeds the limit; and the client returns what the server answered.
MessagesAreExact ==
  CASE case.kind = "message" -> H!RoundTrip(case.req, case.tail, case.limit)
    [] case.kind = "chunks" -> H!ChunksAreJoined(case.chunks, case.extension, case.trailer, case.tail, case.limit)
    [] case.kind = "bytes" -> H!ReadingIsBounded(case.bytes)
    [] case.kind = "client" -> 
         Client!ClientIsExact(Client!with_max_body_bytes(Client!with_user_agent(Client!new, <<"ua">>), 3), case.url, case.body, case.addrs, case.resp)
    [] OTHER -> TRUE
----------------------------------------------------------------------------
\* Tables of up to three routes, and tables built from two functions.
D == INSTANCE BackendDispatch
Paths == {<<"/">>, <<"/", "a">>, <<"/", "a", "/">>, <<"/", ":i">>, <<"/", "a", "/", ":i">>, <<"/", ":j", "/", "b">>,
          <<"/", ":i", "/", ":j">>, <<"/", ":i", "/", ":i">>, <<"/", "a", "/", "b">>, <<"/", "a", "/", "/", "b", "/">>}
Asked == Paths \cup {<<"/", "/">>, <<"/", "c">>, <<"/", "c", "/", "b">>, <<"/", "a", "/", "c", "/", "/">>, <<"/", "a", "/", "c">>}
Route(method, path, id) ==
  [method |-> method, path |-> path, symbol_id |-> id, effects |-> {}, principal_required |-> FALSE, mentions |-> {"i"}]
Request(method, path, principal, origin) ==
  [method |-> method, path |-> path, principal |-> principal, origin |-> origin]
Cors == {D!cors_middleware(origins, {"GET"}) : origins \in {{}, {"o"}, {"*"}}}
Chains == {<<>>, << [kind |-> "Before", handler |-> "cors"], [kind |-> "After", handler |-> "cors"] >>,
           << [kind |-> "Before", handler |-> "pass"], [kind |-> "After", handler |-> "deny"], [kind |-> "Before", handler |-> "deny"] >>}
Symbol(id, name, effects) == [id |-> id, name |-> name, effects |-> effects]

PickTable ==
  \/ \E n \in 0..3, policy \in {"Strict", "Lenient"}, checked \in BOOLEAN :
       \E paths \in [1..n -> Paths], methods \in [1..n -> {"GET", "OPTIONS"}] :
         /\ n = 3 => methods[1] = "GET" /\ methods[2] = "GET"
         /\ case' = [kind |-> "table",
                  table |-> [D!FoldLeft(LAMBDA t, i : IF checked
                                                      THEN D!insert_route(t, Route(methods[i], paths[i], ToString(i)))
                                                      ELSE D!insert(t, Route(methods[i], paths[i], ToString(i))),
                                        D!with_slash_policy(D!new, policy), [i \in 1..n |-> i])
                             EXCEPT !.middleware = <<>>]]
  \/ \E name1, name2 \in {<<"get", "a">>, <<"list", "list", "a">>, <<"a">>, <<"get", "">>, <<"create", "a", "b">>, <<"b", "", "a">>},
        effects1, effects2 \in {{}, {"http"}, {"http.get"}, {"http", "db.write"}}, chain \in Chains, cors \in Cors,
        principal \in {<<>>, << {} >>, << {"db.write"} >>, << {"db.write", "http.get"} >>} :
       case' = [kind |-> "built", symbols |-> <<Symbol("f", name1, effects1), Symbol("g", name2, effects2)>>,
                chain |-> chain, cors |-> cors, principal |-> principal]

\* Of the routes that match a request the one with the fewest parameters answers, a
\* refused method has others to offer, a redirect does not lead to a redirect, and a
\* handler runs only for a principal that holds the effects it declares.
RequestsAreServed ==
  /\ case.kind = "table" =>
       \A path \in Asked, method \in {"GET", "POST", "OPTIONS"} :
         D!RoutingIsExact(case.table, Request(method, path, <<>>, ""), [origins |-> {}, methods |-> {}])
  /\ case.kind = "built" =>
       \A path \in {<<"/">>, <<"/", "a">>, <<"/", "a", "/", "b">>, <<"/", "b", "/", "/", "a">>}, method \in {"GET", "POST"},
          origin \in {"", "o", "p"} :
         LET req == Request(method, path, case.principal, origin)
         IN  /\ D!HandlersAreGuarded(case.symbols, case.chain, req, case.cors)
             /\ D!OriginsAreListed([D!build_dispatch_table(case.symbols) EXCEPT !.middleware = case.chain], req, case.cors)
----------------------------------------------------------------------------
\* Migrations, with dependencies that are unknown, named twice or on the migration
\* itself; queries; and modules of the old edition.
G == INSTANCE Migrations
After(ids) == << <<"after">> >> \o G!FlattenSeq([i \in DOMAIN ids |-> << <<"id", ids[i]>>, <<",">> >>])
Columns == Short({[name |-> "a", ty |-> <<"Int">>], [name |-> "b", ty |-> <<"Result", "[", "T", ",", "U", "]">>],
                  [name |-> "a", ty |-> <<"U">>]}, 2)
Query(name, columns) == [name |-> name, signature |-> <<"query", "->">> \o G!render_shape(columns)]
OldModules ==
  {[name |-> n, imports |-> im, symbols |-> <<e, {"fs.read"}>>] :
     n \in {"app.service", "m"}, im \in SUBSET {"app.service", "app.services"}, e \in SUBSET {"fs", "fs.read"}}

PickMigration ==
  \/ \E n \in 0..3 : \E deps \in [1..n -> Short(1..4, 2)] :
       case' = [kind |-> "migrations", of |-> [i \in 1..n |-> [id |-> i, tokens |-> After(deps[i])]]]
  \/ \E deps \in [1..4 -> Short(1..4, 1)] :
       case' = [kind |-> "migrations", of |-> [i \in 1..4 |-> [id |-> i, tokens |-> After(deps[i])]]]
  \/ \E one, two, three \in Columns, name \in {"q", "r"} :
       case' = [kind |-> "queries", columns |-> one, queries |-> <<Query("q", one), Query(name, two), Query("q", three)>>]
  \/ \E one, two \in OldModules : case' = [kind |-> "editions", modules |-> <<one, two>>]

\* topological_order lists every migration once, after what it depends on, the smallest
\* possible first, and refuses exactly the cyclic graphs; queries of one name that
\* raise no Q0020 have one shape; and an applied edition plan leaves nothing to plan.
MigrationsAreExact ==
  CASE case.kind = "migrations" -> G!OrderIsExact(G!extract_migrations(case.of))
    [] case.kind = "queries" -> G!ShapesAgree(case.columns, case.queries)
    [] case.kind = "editions" -> G!PlanIsComplete(case.modules)
    [] OTHER -> TRUE
----------------------------------------------------------------------------
\* The editor: texts of the pieces its scanners tell apart, declarations on the first
\* lines, functions whose statements bind names, and indented lines.
Y == INSTANCE Refactor
Pieces == {<<"a">>, <<"b">>, <<"a", "1">>, <<"\"">>, <<"\\">>, <<"#">>, <<"/", "/">>, <<"\n">>, <<" ">>, <<";">>}
SpanAt(line, from, to) == << <<line, from>>, <<line, to>> >>
Declared ==
  {<<>>, <<[kind |-> "Module", span |-> SpanAt(1, 1, 2)], [kind |-> "Type", span |-> SpanAt(1, 1, 3)],
           [kind |-> "Function", span |-> SpanAt(2, 1, 2)]>>,
   <<[kind |-> "Function", span |-> SpanAt(1, 1, 3)], [kind |-> "Function", span |-> SpanAt(1, 2, 2)],
     [kind |-> "Type", span |-> SpanAt(1, 1, 2)]>>}
\* A statement: its text, its tree and where in it which names are bound.
Stmt(text, ast, lets) == [text |-> text, ast |-> ast, lets |-> lets]
One == <<"Lit", 1>>
LetStmt(n) == Stmt(<<"l", "e", "t", " ", n, "=", "1", "\n">>, << <<"Let", One, <<n>> >> >>, {<<5, <<n>> >>})
Stmts ==
  {LetStmt("x"), LetStmt("y"),
   Stmt(<<"l", "e", "t", " ", " ", "x", ":", "T", "=", "1", "\n">>, << <<"Let", One, <<"x">>, "T">> >>, {<<6, <<"x">> >>}),
   Stmt(<<"l", "e", "t", "\t", "y", "=", "(", "l", "e", "t", " ", "x", "=", "1", ")", "\n">>,
        << <<"Let", <<"Block", << <<"Let", One, <<"x">> >> >>, One>>, <<"y">> >> >>, {<<5, <<"y">> >>, <<12, <<"x">> >>}),
   Stmt(<<"i", "f", " ", "(", "l", "e", "t", " ", "y", "=", "1", ")", "\n">>,
        << <<"Expr", <<"If", One, <<"Block", << <<"Let", One, <<"y">> >> >>, <<>> >>, <<>> >> >> >>, {<<9, <<"y">> >>}),
   Stmt(<<"\"", "l", "e", "t", " ", "x", "\\", "\"", "\"", "/", "/", "l", "e", "t", " ", "y", "\n">>, << <<"Expr", <<"Lit", 2>> >> >>, {}),
   Stmt(<<"l", "e", "t", "x", "\n", "l", "e", "t", "\n">>, <<>>, {})}
TextOf(ss) == Y!FlattenSeq([i \in DOMAIN ss |-> ss[i].text])
BodyOf(ss) == <<"Block", Y!FlattenSeq([i \in DOMAIN ss |-> ss[i].ast]), <<>> >>
PlacesOf(ss) ==
  UNION {LET before == Len(TextOf(SubSeq(ss, 1, i - 1)))
         IN  {[name |-> l[2], position |-> Y!advance(TextOf(ss), before + l[1] + 1)] : l \in ss[i].lets} : i \in DOMAIN ss}
FoldLines == {[indent |-> n, form |-> f] : n \in 0..2, f \in {"plain", "block", "match"}}
               \cup {[indent |-> 0, form |-> f] : f \in {"blank", "comment"}}

PickText ==
  \/ \E ps \in Short(Pieces, 4) : case' = [kind |-> "rename", text |-> Y!FlattenSeq(ps)]
  \/ \E ps \in Short(Pieces \ {<<"\\">>, <<"#">>, <<"/", "/">>, <<"b">>}, 3), line \in 0..2, column \in 0..4, decls \in Declared :
       /\ \A i \in DOMAIN decls : Y!position_to_byte_offset(Y!FlattenSeq(ps), Y!span_to_range(decls[i].span)[2]) /= 0
       /\ case' = [kind |-> "cursor", text |-> Y!FlattenSeq(ps), pos |-> <<line, column>>, decls |-> decls]
  \/ \E text \in Short({"a", "A", "1", "\"", "\\", "/", "\n", " "}, 4) : case' = [kind |-> "highlight", text |-> text]
  \/ \E f, g \in Short(Stmts, 2) : case' = [kind |-> "hints", fns |-> <<f, g>>]
  \/ \E lines \in Short(FoldLines, 4) : case' = [kind |-> "folds", lines |-> lines]

\* Workspaces of two documents of up to two functions, and files of two declarations
\* with a few lines below each.
Decl(kind, name, line) ==
  [kind |-> kind, name |-> <<name>>, id |-> <<kind, name>>, span |-> SpanAt(line, 1, 4)]
VarOf(n) == <<"Var", <<n>> >>
CallOf(n, args) == <<"Call", VarOf(n), args>>
CallBodies == {VarOf("f"), CallOf("h", <<CallOf("f", <<>>)>>),
               <<"Tuple", <<CallOf("g", <<>>), <<"Lambda", <<"x">>, CallOf("g", <<>>)>> >> >>}
FnDoc(uri, names, bodies) ==
  [uri |-> uri, text |-> <<>>,
   symbols |-> <<[kind |-> "Module", name |-> <<"m">>, id |-> <<"m">>, span |-> SpanAt(1, 1, 2)]>>
                 \o [i \in DOMAIN names |-> Decl("Function", names[i], i)],
   bodies |-> [id \in {<<"Function", names[i]>> : i \in DOMAIN names} |->
                 bodies[CHOOSE i \in DOMAIN names : id = <<"Function", names[i]>>]]]
DocLines ==
  [body |-> <<" ", " ", "a">>, deeper |-> <<" ", " ", " ", " ", "b", " ">>, blank |-> <<" ">>,
   call |-> <<" ", " ", "f", " ", "(", ")", ";">>, nested |-> <<" ", "g", "(", "f", "(", ")", ")">>, open |-> <<" ", "f", "(">>,
   bar |-> <<"|", "A", "(">>, bars |-> <<" ", "|", " ", "B">>, none |-> <<"|", "(">>,
   fn_f |-> <<"F", " ", "f", "(", ")">>, fn_g |-> <<"F", " ", "g", "(", ")">>, type_t |-> <<"T", " ", "t">>, type_u |-> <<"T", " ", "u">>]
Heads == [fn_f |-> <<"Function", "f">>, fn_g |-> <<"Function", "g">>, type_t |-> <<"Type", "t">>, type_u |-> <<"Type", "u">>]
LineExprs ==
  [body |-> <<VarOf("a")>>, deeper |-> <<VarOf("b")>>, blank |-> <<>>, call |-> <<CallOf("f", <<>>)>>,
   nested |-> <<CallOf("g", <<CallOf("f", <<>>)>>)>>, open |-> <<CallOf("f", <<>>)>>, bar |-> <<>>, bars |-> <<>>, none |-> <<>>]
FileDoc(ls) ==
  LET heads == Y!SelectSeq([i \in DOMAIN ls |-> i], LAMBDA i : ls[i] \in DOMAIN Heads)
      end(i) == Y!Min({j \in (i + 1)..(Len(ls) + 1) : j = Len(ls) + 1 \/ ls[j] \in DOMAIN Heads})
      exprs(i) == Y!FlattenSeq([k \in 1..(end(i) - i - 1) |-> LineExprs[ls[i + k]]])
      fns == {i \in DOMAIN ls : ls[i] \in {"fn_f", "fn_g"} /\ exprs(i) /= <<>>}
  IN  [uri |-> 1, text |-> Y!FlattenSeq([i \in DOMAIN ls |-> DocLines[ls[i]] \o <<"\n">>]),
       symbols |-> [k \in DOMAIN heads |-> Decl(Heads[ls[heads[k]]][1], Heads[ls[heads[k]]][2], heads[k])],
       bodies |-> [id \in {Heads[ls[i]] : i \in fns} |->
                     LET i == CHOOSE j \in fns : Heads[ls[j]] = id IN <<"Tuple", exprs(i)>>]]
BodyLines == {"body", "deeper", "blank", "call", "nested", "open"}

PickWorkspace ==
  \/ \E n1, n2 \in {<<>>, <<"f">>, <<"f", "g">>, <<"h", "g">>} : \E b1, b2 \in [1..2 -> CallBodies] :
       case' = [kind |-> "calls", docs |-> <<FnDoc(1, n1, b1), FnDoc(2, n2, b2)>>]
  \/ \E one, two \in Short({"bar", "bars", "none", "blank", "body"}, 2), second \in {"type_u", "fn_g"} :
       case' = [kind |-> "variants", doc |-> FileDoc(<<"type_t">> \o one \o <<second>> \o two)]
  \/ \E one \in Short({"body", "deeper", "blank"}, 3), two \in Short({"body", "blank"}, 1), second \in {"fn_g", "type_t"}, start, end \in 0..4 :
       /\ start <= end + 1
       /\ case' = [kind |-> "extract", doc |-> FileDoc(<<"fn_f">> \o one \o <<second>> \o two), start |-> start, end |-> end]
  \/ \E one \in Short(BodyLines, 2), two \in Short(BodyLines, 1), line \in 0..4, column \in 0..7 :
       case' = [kind |-> "inline", doc |-> FileDoc(<<"fn_f">> \o one \o <<"fn_g">> \o two), pos |-> <<line, column>>]

\* A rename touches every use of a name and no other token (files that quote in comments
\* aside), and what references, hover, selection, highlighting, hints and folding say of
\* a text agrees with it; calls and constructors are found in both directions; an
\* extraction moves the selected lines and an inlining replaces the whole call by the
\* body.
EditorIsExact ==
  CASE case.kind = "rename" ->
         Y!RenameIsExact(case.text, <<"a">>, <<"b">>) /\ Y!RenameIsExact(case.text, <<"a", "1">>, <<"x">>)
    [] case.kind = "cursor" ->
         Y!CursorFindsWord(case.text, case.pos) /\ Y!SelectionsNest(case.text, case.decls, case.pos)
    [] case.kind = "highlight" -> Y!TokensCoverText(case.text, {<<"a">>}, {<<"a", "a">>})
    [] case.kind = "hints" ->
         Y!HintsFollowNames([i \in {1, 2} |-> BodyOf(case.fns[i])], TextOf(case.fns[1] \o case.fns[2]),
                            PlacesOf(case.fns[1] \o case.fns[2]))
    [] case.kind = "folds" -> Y!FoldsNest(case.lines)
    [] case.kind = "calls" -> Y!CallsAgree(case.docs)
    [] case.kind = "variants" -> Y!ConstructorsHaveTypes(<<case.doc>>, case.doc)
    [] case.kind = "extract" -> Y!ExtractMoves(case.doc, case.start, case.end, <<"n">>)
    [] case.kind = "inline" -> Y!InlineReplacesCall(case.doc, case.pos)
    [] OTHER -> TRUE
----------------------------------------------------------------------------
Pick == \/ PickVersions \/ PickDiamond \/ PickRegistry \/ PickTree \/ PickString \/ PickLine
        \/ PickManifest
\* The command lines and the services have a next-state relation of their own, so that
\* Spec is that of the packages alone.
PickOther == PickCommand \/ PickMessage \/ PickTable \/ PickMigration \/ PickText \/ PickWorkspace
Next == \/ case = Idle /\ Pick
        \/ case /= Idle /\ case' = Idle
Spec == Init /\ [][Next]_case
----------------------------------------------------------------------------
ToolchainSpec == Init /\ [][Next \/ (case = Idle /\ PickOther)]_case

\* The order of versions is total, and ^ and ~ accept exactly the releases that share
\* the elements they lock, none if the last of these is the largest number. What the
\* version solver and the registry resolution answer, where no candidate was given up,
\* satisfies every dependency and holds nothing else. Path resolution, with the lockfile
\* and the audit made from it, covers exactly the packages that path dependencies
\* reach, and fails exactly for an unmet pin or a cycle.
ResolutionsHold == VersionsBehave /\ SolutionsHold /\ GraphsAreExact

\* What is quoted in ori.toml is read back and no line loses a character; a section
\* may stand anywhere in a manifest; and the requirements of an accepted manifest are
\* ones that the resolver can read.
ManifestsAreExact == LinesAreExact /\ ManifestsAreSafe

\* In every command whose usage lists it, --json may stand anywhere among the
\* arguments and changes neither the exit code nor what is written; and a command that
\* exits with 2, a usage or an input error, has written nothing, but for the cases
\* RefusedIsHarmless names. A dry run never stores a package.
CommandsBehave == CommandsAgree /\ RefusalsAreHarmless
=============================================================================
