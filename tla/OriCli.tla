------------------------------- MODULE OriCli -------------------------------
(***************************************************************************)
(* The command line of crates/ori-cli/src/main.rs: how each command scans  *)
(* its arguments, what it exits with and what it writes.                   *)
(*                                                                         *)
(* An argument is a word. "v" is a valid value of every option, a list, a  *)
(* number and a name@version; "f", "g" and "." are paths and valid for     *)
(* options that take anything; "-x" and "--x" are flags no command knows.  *)
(* The environment gives the status of each path (missing; malformed: it   *)
(* does not parse; errors: it parses and is refused; ok), whether files    *)
(* may be written, the outcome of what other components are asked for, and *)
(* what an operation that breaks off has already written. Printing is left *)
(* out; a result is [exit, effects, symbol], symbol being what explain was *)
(* asked about.                                                            *)
(***************************************************************************)
EXTENDS Integers, Sequences

LOCAL INSTANCE SequencesExt
LOCAL INSTANCE TLC

Single == {"-x", "-h"}
Dashed(word) == word \notin {"f", "g", "v", ".", "desktop", "wasm-component"} \cup Single
None == "none"
Result(exit, effects) == [exit |-> exit, effects |-> effects, symbol |-> None]
Usage == Result(2, {})
----------------------------------------------------------------------------
\* How a command scans its arguments: the switches and the options with a value
\* that it knows, the options whose value is checked, whether an option without a
\* value and a flag it does not know are refused, whether words may stand alone,
\* and whether "-x" counts as a flag.
Syntax(switches, options, checked, strict, closed, words) ==
  [switches |-> switches \cup {"--json"}, options |-> options, checked |-> checked,
   strict |-> strict, closed |-> closed, words |-> words, dash |-> FALSE]
Plain == Syntax({}, {}, {}, TRUE, FALSE, TRUE)

Nothing == [ok |-> TRUE, found |-> <<>>]
Refused == [ok |-> FALSE, found |-> <<>>]

RECURSIVE scan(_, _, _)

\* The loop over the arguments. st.found is what was found so far, in order: a
\* switch, an option with its value or a word.
scan(syntax, args, st) ==
  IF args = <<>> THEN st
  ELSE LET arg == Head(args)
           flag == Dashed(arg) \/ (syntax.dash /\ arg \in Single)
           Found(tag, value) == [st EXCEPT !.found = Append(@, <<tag, value>>)]
       IN  CASE arg \in syntax.switches -> scan(syntax, Tail(args), Found(arg, ""))
             [] arg \in syntax.options /\ Len(args) = 1 ->
                  IF syntax.strict THEN Refused ELSE st
             [] arg \in syntax.options /\ Len(args) > 1 ->
                  IF arg \in syntax.checked /\ args[2] /= "v" THEN Refused
                  ELSE scan(syntax, Tail(Tail(args)), Found(arg, args[2]))
             [] arg \notin syntax.switches \cup syntax.options /\ flag ->
                  IF syntax.closed THEN Refused ELSE scan(syntax, Tail(args), st)
             [] OTHER ->
                  IF syntax.words THEN scan(syntax, Tail(args), Found("word", arg)) ELSE Refused

Tagged(s, tags) == SelectSeq(s.found, LAMBDA x : x[1] \in tags)
Given(s, tag) == Tagged(s, {tag}) /= <<>>
\* Of options and words that name one thing the last counts.
Latest(s, tags) == IF Tagged(s, tags) = <<>> THEN None ELSE Last(Tagged(s, tags))[2]
FirstWord(s) == IF Given(s, "word") THEN Head(Tagged(s, {"word"}))[2] ELSE None
LastWord(s) == Latest(s, {"word"})
OrElse(word, default) == IF word = None THEN default ELSE word
Status(env, path) == IF path \in DOMAIN env.status THEN env.status[path] ELSE "missing"

\* positional_file: the last argument that is no flag, whatever stands before it.
positional_file(args) == LastWord(scan(Plain, args, Nothing))
----------------------------------------------------------------------------
\* The two ways a command that reads one file ends: a report exits with 0 whatever
\* is wrong in the file, a gate with 1 when something is.
Report(env, path) == IF Status(env, path) = "missing" THEN Usage ELSE Result(0, {})
Gate(env, path) ==
  IF Status(env, path) = "missing" THEN Usage
  ELSE Result(IF Status(env, path) = "ok" THEN 0 ELSE 1, {})

\* cmd_check and cmd_capsule: the first word counts.
cmd_check(args, env) == Gate(env, FirstWord(scan([Plain EXCEPT !.dash = TRUE], args, Nothing)))
cmd_capsule(args, env) == cmd_check(args, env)

\* The first argument is the file, even a flag; there is no file of that name.
cmd_fmt(args, env) == IF args = <<>> THEN Usage ELSE Report(env, args[1])

cmd_lsp(args, env) ==
  IF Contains(args, "--help") \/ Contains(args, "-h") THEN Result(0, {})
  ELSE IF Contains(args, "--stdio") THEN Result(IF env.lsp = "ok" THEN 0 ELSE 1, {}) ELSE Usage

cmd_agent_symbols(args, env) == Report(env, positional_file(args))
cmd_agent_diagnose(args, env) == Report(env, positional_file(args))
cmd_openapi(args, env) == Report(env, positional_file(args))
cmd_wasm(args, env) == Report(env, positional_file(args))

cmd_agent_telemetry(args, env) ==
  LET s == scan(Syntax({}, {"--in"}, {}, TRUE, TRUE, FALSE), args, Nothing)
  IN  IF ~s.ok THEN Usage ELSE Gate(env, Latest(s, {"--in"}))

cmd_agent_tests(args, env) ==
  IF Contains(args, "--affected") THEN Result(0, {}) ELSE Usage

\* The table of the directory is written after the report; see ChangeTracker.
cmd_agent_changed(args, env) ==
  LET s == scan(Syntax({}, {"--prev"}, {}, TRUE, TRUE, TRUE), args, Nothing)
  IN  IF ~s.ok \/ Status(env, LastWord(s)) = "missing" THEN Usage
      ELSE Result(0, IF env.writable THEN {"table"} ELSE {})

cmd_agent_map(args, env) ==
  LET s == scan([Syntax({}, {"--budget"}, {"--budget"}, TRUE, TRUE, TRUE) EXCEPT !.dash = TRUE],
                args, Nothing)
  IN  IF ~s.ok THEN Usage ELSE Report(env, LastWord(s))

\* The first argument is the symbol; the last one that is not --json is the file.
cmd_agent_explain(args, env) ==
  LET rest == SelectSeq(SubSeq(args, 2, Len(args)), LAMBDA a : a /= "--json")
  IN  IF rest = <<>> \/ Report(env, Last(rest)) = Usage THEN Usage
      ELSE [Result(0, {}) EXCEPT !.symbol = args[1]]

cmd_agent(args, env) ==
  IF args = <<>> THEN Usage
  ELSE LET rest == Tail(args)
       IN  CASE args[1] = "map" -> cmd_agent_map(rest, env)
             [] args[1] = "explain" -> cmd_agent_explain(rest, env)
             [] args[1] = "capsule" -> cmd_capsule(rest, env)
             [] args[1] = "symbols" -> cmd_agent_symbols(rest, env)
             [] args[1] = "diagnose" -> cmd_agent_diagnose(rest, env)
             [] args[1] = "tests" -> cmd_agent_tests(rest, env)
             [] args[1] = "changed" -> cmd_agent_changed(rest, env)
             [] args[1] = "telemetry" -> cmd_agent_telemetry(rest, env)
             [] OTHER -> Usage
----------------------------------------------------------------------------
\* env.functions: what running each function of the module comes to, "no_body",
\* "value" or "error".
pick_entry_name(env, requested) ==
  LET candidates == IF requested = None THEN <<"main", "boot", "run", "start">> ELSE <<requested>>
      there == SelectSeq(candidates, LAMBDA n : n \in DOMAIN env.functions)
  IN  IF there = <<>> THEN candidates[1] ELSE there[1]

\* Errors of the compiler are not looked at; without a body the effects of the
\* entry are reported, and only its absence is a failure.
cmd_run(args, env) ==
  LET s == scan(Syntax({}, {"--entry"}, {}, FALSE, TRUE, TRUE), args, Nothing)
      entry == pick_entry_name(env, Latest(s, {"--entry"}))
  IN  IF ~s.ok \/ Report(env, LastWord(s)) = Usage THEN Usage
      ELSE IF entry \notin DOMAIN env.functions THEN Result(1, {})
      ELSE Result(IF env.functions[entry] = "error" THEN 1 ELSE 0, {})

\* The artefact of a target; a write that fails is a warning of the report.
build_outputs(target, env) ==
  IF target = "wasm-component" /\ env.writable THEN {"artefact"} ELSE {}

cmd_build_desktop(args, env) ==
  LET s == scan(Syntax({}, {"--target", "--platform"}, {"--platform"}, FALSE, TRUE, TRUE),
                args, Nothing)
      path == LastWord(s)
  IN  IF ~s.ok \/ ~Given(s, "--platform") \/ Report(env, path) = Usage THEN Usage
      ELSE Result(IF env.desktop = "ok" THEN 0 ELSE 1, {})

\* The artefact is written before the errors decide the exit code.
cmd_build(args, env) ==
  LET s == scan(Syntax({}, {"--target", "--app-id", "--platforms", "--ui-kind"}, {"--ui-kind"},
                       FALSE, TRUE, TRUE), args, Nothing)
      path == LastWord(s)
      target == OrElse(Latest(s, {"--target"}), "dev")
  IN  IF \E i \in 1..(Len(args) - 1) : args[i] = "--target" /\ args[i + 1] = "desktop"
        THEN cmd_build_desktop(args, env)
      ELSE IF ~s.ok \/ Report(env, path) = Usage THEN Usage
      ELSE Result(Gate(env, path).exit, build_outputs(target, env))

cmd_bench(args, env) ==
  LET s == scan(Syntax({"--no-json"}, {"--samples"}, {}, FALSE, TRUE, FALSE), args, Nothing)
  IN  IF s.ok THEN Result(0, {}) ELSE Usage

cmd_ui_render(args, env) ==
  LET s == scan([Syntax({"--dry-run"}, {"--module", "--view"}, {}, TRUE, TRUE, FALSE)
                   EXCEPT !.switches = {"--dry-run"}], args, Nothing)
  IN  IF \/ ~s.ok \/ ~Given(s, "--dry-run") \/ ~Given(s, "--view")
         \/ Report(env, Latest(s, {"--module"})) = Usage \/ env.view = "not_found" THEN Usage
      ELSE Result(IF env.view = "ok" THEN 0 ELSE 1, {})

cmd_ui(args, env) ==
  IF args /= <<>> /\ args[1] = "render" THEN cmd_ui_render(Tail(args), env)
  ELSE Report(env, positional_file(args))

\* design check: the tokens are read first and have to parse.
cmd_design_check(args, env) ==
  LET s == scan(Syntax({}, {"--tokens"}, {}, TRUE, TRUE, TRUE), args, Nothing)
  IN  IF ~s.ok \/ LastWord(s) = None THEN Usage
      ELSE IF Given(s, "--tokens") /\ Status(env, Latest(s, {"--tokens"})) \in {"missing", "malformed"}
        THEN Usage
      ELSE Gate(env, LastWord(s))

\* schema validate: a word and --in name the same thing, the last one counts.
cmd_schema_validate(args, env) ==
  LET s == scan(Syntax({}, {"--in", "--schemas"}, {}, TRUE, TRUE, TRUE), args, Nothing)
  IN  IF ~s.ok THEN Usage ELSE Gate(env, Latest(s, {"--in", "word"}))

cmd_schema_import_grpc(args, env) ==
  LET s == scan(Syntax({}, {"--module"}, {}, TRUE, TRUE, TRUE), args, Nothing)
      path == LastWord(s)
  IN  IF ~s.ok \/ ~Given(s, "--module") \/ Report(env, path) = Usage THEN Usage
      ELSE Result(IF Status(env, path) = "malformed" THEN 1 ELSE 0, {})
cmd_schema_import_graphql(args, env) == cmd_schema_import_grpc(args, env)

cmd_schema_import(args, env) ==
  CASE args /= <<>> /\ args[1] = "grpc" -> cmd_schema_import_grpc(Tail(args), env)
    [] args /= <<>> /\ args[1] = "graphql" -> cmd_schema_import_graphql(Tail(args), env)
    [] OTHER -> Usage

cmd_capability_check(args, env) ==
  LET s == scan(Syntax({"--dry-run"}, {"--module", "--principal", "--has"}, {}, FALSE, TRUE, TRUE),
                args, Nothing)
      named == Tagged(s, {"--module", "word"})
  \* A word names the module only while none is named; a later one is refused.
  IN  IF ~s.ok \/ \E i \in 2..Len(named) : named[i][1] = "word" THEN Usage
      ELSE Report(env, Latest(s, {"--module", "word"}))

cmd_capability(args, env) ==
  LET s == scan(Syntax({}, {"--policy"}, {}, FALSE, TRUE, TRUE), args, Nothing)
  IN  IF args /= <<>> /\ args[1] = "check" THEN cmd_capability_check(Tail(args), env)
      ELSE IF ~s.ok THEN Usage ELSE Report(env, LastWord(s))

cmd_test(args, env) == Result(0, {})
cmd_doctor(args, env) == Result(0, {})

cmd_coverage(args, env) ==
  LET s == scan(Syntax({}, {}, {}, TRUE, TRUE, TRUE), args, Nothing)
  IN  IF ~s.ok \/ ~Given(s, "word") THEN Usage ELSE Result(0, {})
----------------------------------------------------------------------------
\* Any argument but --json is a path.
cmd_patch_check(args, env) ==
  LET rest == SelectSeq(args, LAMBDA a : a /= "--json")
  IN  IF rest = <<>> THEN Usage ELSE Gate(env, Last(rest))

\* The patched source is in the report; the file is never written.
cmd_patch_apply(args, env) ==
  LET s == scan(Syntax({"--dry-run"}, {}, {}, TRUE, TRUE, TRUE), args, Nothing)
      words == Tagged(s, {"word"})
  IN  IF ~s.ok \/ Len(words) < 2 \/ \E i \in 1..2 : Report(env, words[i][2]) = Usage THEN Usage
      ELSE Gate(env, words[1][2])

cmd_patch_explain(args, env) ==
  LET path == positional_file(args)
  IN  IF Status(env, path) \in {"missing", "malformed"} THEN Usage ELSE Result(0, {})

cmd_serve(args, env) ==
  LET s == scan(Syntax({"--dry-run"}, {"--module"}, {}, TRUE, TRUE, TRUE), args, Nothing)
  IN  IF ~s.ok \/ ~Given(s, "--dry-run") THEN Usage
      ELSE Report(env, Latest(s, {"--module", "word"}))

cmd_preprocess(args, env) ==
  LET s == scan(Syntax({}, {"--const", "--allow-env"}, {"--const"}, TRUE, TRUE, TRUE), args, Nothing)
  IN  IF ~s.ok THEN Usage ELSE Gate(env, LastWord(s))

cmd_db_check(args, env) == Gate(env, FirstWord(scan(Plain, args, Nothing)))

\* collect_modules: some .ori file has to be there; errors in it do not count.
cmd_docs(args, env) ==
  LET s == scan(Syntax({}, {"--format", "--budget"}, {"--format", "--budget"}, TRUE, TRUE, TRUE),
                args, Nothing)
  IN  IF ~s.ok THEN Usage ELSE Report(env, OrElse(LastWord(s), "."))

\* Of --apply and --dry-run the last one counts, and applying is not implemented.
cmd_migrate(args, env) ==
  LET s == scan(Syntax({"--dry-run", "--apply"}, {"--from", "--to"}, {}, TRUE, TRUE, TRUE),
                args, Nothing)
      modes == Tagged(s, {"--dry-run", "--apply"})
      path == OrElse(LastWord(s), ".")
  IN  IF ~s.ok \/ ~Given(s, "--from") \/ ~Given(s, "--to") THEN Usage
      ELSE IF modes /= <<>> /\ Last(modes)[1] = "--apply" THEN Result(1, {})
      ELSE IF Report(env, path) = Usage THEN Usage
      ELSE Result(IF env.edition = "ok" THEN 0 ELSE 1, {})

\* package check: a manifest that cannot be read is a failed check, not a usage
\* error; audit and sbom make it one.
cmd_package_check(args, env) ==
  LET path == OrElse(FirstWord(scan(Plain, args, Nothing)), ".")
  IN  Result(IF Status(env, path) = "ok" THEN 0 ELSE 1, {})

\* Of a graph that resolves, the audit may still fail.
cmd_audit(args, env) ==
  LET path == OrElse(FirstWord(scan(Plain, args, Nothing)), ".")
  IN  IF Status(env, path) \in {"missing", "malformed"} THEN Usage ELSE Gate(env, path)

cmd_sbom(args, env) ==
  LET s == scan(Syntax({}, {"--format"}, {"--format"}, TRUE, FALSE, TRUE), args, Nothing)
      path == OrElse(FirstWord(s), ".")
  IN  IF ~s.ok \/ Status(env, path) \in {"missing", "malformed"} THEN Usage ELSE Result(0, {})

cmd_provenance(args, env) ==
  IF args = <<>> \/ args[1] /= "verify" THEN Usage
  ELSE Gate(env, FirstWord(scan(Plain, Tail(args), Nothing)))
----------------------------------------------------------------------------
\* env.registry is the outcome of the operation: ok or one of RegistryError.
registry_exit_code(outcome) == IF outcome \in {"invalid", "io"} THEN 2 ELSE 1

\* An operation that breaks off: env.left is what was written by then.
BreaksOff(exit, begun, env) == Result(exit, begun \cap env.left)

\* LocalRegistry::publish makes the directory and writes tarball, provenance and
\* index one after the other; what was written before an error stays.
Package == {"registry", "tarball", "provenance", "index"}

cmd_publish_legacy(s, env) ==
  IF \/ ~Given(s, "--registry") \/ Status(env, OrElse(LastWord(s), ".")) \in {"missing", "malformed"}
     \/ Status(env, Latest(s, {"--tarball"})) = "missing" THEN Usage
  ELSE IF ~env.writable THEN BreaksOff(2, {"registry"}, env)
  ELSE IF env.registry = "ok" THEN Result(0, Package)
  ELSE BreaksOff(registry_exit_code(env.registry), Package, env)

\* Mutant: a dry run publishes when the manifest is given as a word.
cmd_publish_mutant(args, env) ==
  IF env.writable /\ env.registry = "ok" THEN Result(0, Package) ELSE Usage

\* A tarball counts only without the flags of the new workflow. The registry
\* directory is made first, in a dry run too; a package is stored only at the end.
cmd_publish(args, env) ==
  LET s == scan(Syntax({"--dry-run", "--no-json"}, {"--registry", "--tarball", "--manifest", "--tag"},
                       {}, TRUE, TRUE, TRUE), args, Nothing)
      new == \E flag \in {"--manifest", "--tag", "--dry-run"} : Given(s, flag)
      begun == IF Given(s, "--dry-run") THEN {"registry"} ELSE Package
  IN  IF ~s.ok THEN Usage
      ELSE IF Given(s, "--tarball") /\ ~new THEN cmd_publish_legacy(s, env)
      ELSE IF ~env.writable THEN BreaksOff(2, {"registry"}, env)
      ELSE IF env.registry = "ok" THEN Result(0, begun)
      ELSE BreaksOff(IF env.registry = "io" THEN 2 ELSE 1, begun, env)

\* "v" is a name@version, "f" and "g" are none: parse_name_version.
parse_name_version(word) == word = "v"

cmd_fetch(args, env) ==
  LET s == scan(Syntax({}, {"--registry", "--out"}, {}, TRUE, TRUE, TRUE), args, Nothing)
  IN  IF ~s.ok \/ ~Given(s, "--registry") \/ ~parse_name_version(LastWord(s)) THEN Usage
      ELSE IF env.registry /= "ok" THEN Result(registry_exit_code(env.registry), {})
      ELSE IF ~Given(s, "--out") THEN Result(0, {})
      ELSE IF env.writable THEN Result(0, {"out"}) ELSE BreaksOff(2, {"out"}, env)

cmd_registry_list(args, env) ==
  LET s == scan(Syntax({}, {"--registry"}, {}, TRUE, TRUE, FALSE), args, Nothing)
  IN  IF ~s.ok \/ ~Given(s, "--registry") THEN Usage
      ELSE Result(IF env.listing = "ok" THEN 0 ELSE registry_exit_code(env.listing), {})

\* The listing after the yank may fail when the yank did not.
cmd_registry_yank(args, env) ==
  LET s == scan(Syntax({}, {"--registry", "--reason", "--package", "--version"}, {}, TRUE, TRUE, TRUE),
                args, Nothing)
      named == \/ Given(s, "--package") /\ Given(s, "--version")
               \/ parse_name_version(LastWord(s))
  IN  IF ~s.ok \/ ~Given(s, "--registry") \/ ~named THEN Usage
      ELSE IF env.registry /= "ok" THEN BreaksOff(registry_exit_code(env.registry), {"registry", "yanked"}, env)
      ELSE Result(IF env.listing = "ok" THEN 0 ELSE registry_exit_code(env.listing), {"registry", "yanked"})

\* A manifest that is not there has no artefacts, and the bundler refuses it; one
\* that cannot be read, or whose sections are wrong, is a usage error.
collect_bundle_artefacts(env, path) ==
  IF Status(env, path) = "malformed" THEN 2 ELSE 0

\* --help ends the scan wherever it stands, unless something before it was refused.
cmd_bundle(args, env) ==
  LET help == {i \in DOMAIN args : args[i] \in {"--help", "-h"}}
      first == CHOOSE i \in help : \A j \in help : i <= j
      Scan(a) == scan(Syntax({}, {"--in", "--out", "--format"}, {"--format"}, TRUE, TRUE, FALSE),
                      a, Nothing)
      s == Scan(args)
  IN  IF help /= {} /\ Scan(SubSeq(args, 1, first - 1)).ok THEN Result(0, {})
      ELSE IF ~s.ok \/ ~Given(s, "--in") \/ ~Given(s, "--out") THEN Usage
      ELSE IF collect_bundle_artefacts(env, Latest(s, {"--in"})) = 2 THEN Usage
      ELSE IF Status(env, Latest(s, {"--in"})) = "ok" /\ env.writable THEN Result(0, {"out"})
      ELSE Result(1, {})
----------------------------------------------------------------------------
\* A group of commands: the subcommand comes first.
Group(args, env, Known, Run(_, _, _)) ==
  IF args = <<>> \/ args[1] \notin Known THEN Usage ELSE Run(args[1], Tail(args), env)

Patch(sub, args, env) ==
  CASE sub = "check" -> cmd_patch_check(args, env)
    [] sub \in {"apply", "dry-run"} -> cmd_patch_apply(args, env)
    [] OTHER -> cmd_patch_explain(args, env)
Schema(sub, args, env) ==
  IF sub = "import" THEN cmd_schema_import(args, env) ELSE cmd_schema_validate(args, env)
Registry(sub, args, env) ==
  IF sub = "list" THEN cmd_registry_list(args, env) ELSE cmd_registry_yank(args, env)

main(args, env) ==
  IF args = <<>> \/ args[1] \in {"help", "--help", "-h"} THEN Result(0, {})
  ELSE LET rest == Tail(args)
           cmd == args[1]
       IN  CASE cmd = "check" -> cmd_check(rest, env)
             [] cmd = "fmt" -> cmd_fmt(rest, env)
             [] cmd = "agent" -> cmd_agent(rest, env)
             [] cmd = "capsule" -> cmd_capsule(rest, env)
             [] cmd = "patch" -> Group(rest, env, {"check", "apply", "dry-run", "explain"}, Patch)
             [] cmd = "lsp" -> cmd_lsp(rest, env)
             [] cmd = "package" -> Group(rest, env, {"check"}, LAMBDA s, a, e : cmd_package_check(a, e))
             [] cmd = "audit" -> cmd_audit(rest, env)
             [] cmd = "sbom" -> cmd_sbom(rest, env)
             [] cmd = "provenance" -> cmd_provenance(rest, env)
             [] cmd = "run" -> cmd_run(rest, env)
             [] cmd = "build" -> cmd_build(rest, env)
             [] cmd = "bundle" -> cmd_bundle(rest, env)
             [] cmd = "bench" -> cmd_bench(rest, env)
             [] cmd = "openapi" -> cmd_openapi(rest, env)
             [] cmd = "ui" -> cmd_ui(rest, env)
             [] cmd = "design" -> Group(rest, env, {"check"}, LAMBDA s, a, e : cmd_design_check(a, e))
             [] cmd = "wasm" -> cmd_wasm(rest, env)
             [] cmd = "capability" -> cmd_capability(rest, env)
             [] cmd = "test" -> cmd_test(rest, env)
             [] cmd = "coverage" -> cmd_coverage(rest, env)
             [] cmd = "docs" -> cmd_docs(rest, env)
             [] cmd = "migrate" -> cmd_migrate(rest, env)
             [] cmd = "db" -> Group(rest, env, {"check"}, LAMBDA s, a, e : cmd_db_check(a, e))
             [] cmd = "publish" -> cmd_publish(rest, env)
             [] cmd = "fetch" -> cmd_fetch(rest, env)
             [] cmd = "registry" -> Group(rest, env, {"list", "yank"}, Registry)
             [] cmd = "schema" -> Group(rest, env, {"import", "validate"}, Schema)
             [] cmd = "preprocess" -> cmd_preprocess(rest, env)
             [] cmd = "serve" -> cmd_serve(rest, env)
             [] cmd = "doctor" -> cmd_doctor(rest, env)
             [] OTHER -> Usage
----------------------------------------------------------------------------
\* explain takes its first argument for the symbol, "--json" too.
IsSymbol(command, i) == command = <<"agent", "explain">> /\ i = 0

\* "--json" only selects how a report is printed: put anywhere among the arguments
\* of a command whose usage lists it, except where it would be the value of an
\* option or the symbol to explain, it changes neither the exit code nor what is
\* written nor which symbol is explained.
JsonIsTransparent(command, args, i, env) ==
  IsSymbol(command, i) \/
    main(command \o SubSeq(args, 1, i) \o <<"--json">> \o SubSeq(args, i + 1, Len(args)), env)
      = main(command \o args, env)

\* The three commands that exit with 2 after they have begun to write: publish when
\* the registry fails, fetch when the file it was told to write cannot be, and yank
\* when the log cannot be written or the listing behind it fails.
FailedLate(args, env) ==
  \/ args /= <<>> /\ args[1] = "publish" /\ env.registry /= "ok"
  \/ args /= <<>> /\ args[1] = "fetch" /\ ~env.writable
  \/ IsPrefix(<<"registry", "yank">>, args) /\ (env.registry /= "ok" \/ env.listing /= "ok")

\* A command that exits with 2 has written nothing but a registry directory, whatever
\* its arguments are and wherever its scan stopped, except for those that fail late.
\* A dry run stores nothing of a package, even when it fails.
RefusedIsHarmless(args, env) ==
  LET result == main(args, env)
  IN  /\ result.exit = 2 /\ ~FailedLate(args, env) => result.effects \subseteq {"registry"}
      /\ Contains(args, "--dry-run") => result.effects \cap Package \subseteq {"registry"}
=============================================================================
