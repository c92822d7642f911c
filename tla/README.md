# A TLA+ verification project for Orison

Orison is a bootstrap compiler, package manager and set of agent tools for a
small language. This directory keeps, beside the code, TLA+ modules translated
from the Rust sources: state machines of the parts whose correctness depends on
orders of events, and operators for the algorithms that compute one result, each
with a reference definition to compare it with. TLC configurations check both on
small instances, and TLAPS proofs cover the seven state machines and the order of
versions for every size.
Paths below are relative to the repository.

`PROJECT.json` is the machine-readable index: which definition models which
lines (`map`), which run checks which property (`runs`), a plausible bug for
each property that the run then finds (`mutants`), what is hard to test and
where (`hazards`), where code and comments disagree (`findings`), and what is
proved (`theorems`).

## 1. Inventory

### Components with state that outlives one call

| component | state | operations | hard behaviour | what makes it correct |
|---|---|---|---|---|
| worker pool, `async_runtime.rs` | FIFO, shutdown flag, tallies, diagnostics behind a mutex and a condvar; thread handles | `submit`, `request_shutdown`, `run`, `worker_loop` | threads, lost wake-ups, poisoning, grace deadline, requeue against drain | each task ends once and is tallied; `run` returns; a report says what it left out |
| cooperative scheduler, `async_runtime.rs` | ready queue, parked map, value buffer, id allocator, history sets | `spawn`, `park`, `resume`, `step`, `run_to_completion`, `run_with_mode` | sequences of legal calls, saturating ids, cut-off runs | no future leaks, values surface once, a cut is reported |
| local registry, `registry.rs`, `publish.rs` | tarballs, provenance files, one index file per name, the yank log: a directory shared by processes | `init`, `publish`, `fetch`, `list`, `yank` | no locks, crashes between writes, read-modify-write of the index | what is listed is whole and never changes; the index forgets nothing |
| Patch IR, `patch.rs`, `patch_apply.rs` | the text, the counts and the diagnostics while a patch is applied | `check`, `apply_patch`, one branch per kind of operation | line numbers that go stale after each operation, partial application | an edit lands on its node; one bad operation costs only itself |
| language server, `server.rs`, `state.rs`, `codec.rs` | open documents, the shutdown flag, two byte streams | `run`, the request methods, the notifications | pipelined messages, errors of framing, a client that goes away | one answer per request, in order, from the right texts |
| TCP server, `net_io.rs` | queue of connections behind a mutex and a condvar; the shutdown flag, the counters and `active_workers` as atomics; thread handles | `serve`, `accept_loop`, `worker_loop`, `shutdown` | atomics read outside the mutex, one wake-up per connection, accepts that race the flag, workers that die | a connection is handled at most once and counted once; `shutdown` drains, returns and reports exactly |
| changed reports, `query.rs`, `resolver.rs`, `ori agent changed` | source files, the persisted table of fingerprints | report on a file or a directory; an editor's writes and deletions | tables that cannot be read or written, partial scopes, import rings | the reports add up to the table; every ring is found |

### Components that compute one result from their input

| component | what is hard | what makes it correct |
|---|---|---|
| front end: `preproc.rs`, `lexer.rs`, `numeric_lit.rs`, `string_lits.rs`, `parser.rs`, `expr.rs`, `const_fold.rs`, `compiler.rs` | several scanners that must agree on where a token ends; recovery; precedence | what is written is what is read; parsing ends on any input; folding changes no answer |
| types: `type_infer.rs`, `generics.rs`, `traits.rs`, `exhaustive.rs` | unknown types, substitutions extended step by step, overlapping implementations | what checks cleanly has its type at run time; unifiers are most general; accepted implementations are complete and unique |
| borrow checker: `borrow.rs`, `borrow_regions.rs`, `borrow_lifetimes.rs` | nested scopes, moves in branches, bounds that imply bounds | a report is about something that is there |
| effects: `effects.rs`, `effect_check.rs`, `effect_propagate.rs` | rings of calls | the fixpoint is reachability |
| interpreter and capability runtime: `interp_exec.rs`, `capability_runtime.rs` | depth of calls, early exits, several effects per call | every run ends in a value or an error; nothing ungranted is called |
| packages: `version.rs`, `version_solver.rs`, `resolver.rs`, `lockfile.rs`, `audit.rs`, `sbom.rs`, `manifest.rs`, `toml_lite.rs` | backtracking over shared state, u32 bounds, names found twice | a resolution satisfies its dependencies; a manifest is read as written |
| HTTP and dispatch: `http.rs`, `backend_dispatch.rs` | two framings of a body, limits, precedence of routes, redirects | messages survive the trip; the most specific route answers, for principals that may |
| migrations: `migration_graph.rs`, `sql_check.rs`, `migrate.rs` | cycles, unknown and repeated dependencies | an order respects every dependency; a plan leaves nothing to plan |
| editor: `server.rs` below its handlers, `refactor.rs`, `diagnostics.rs` | scanners of one text that must agree on words, strings and comments; positions past the end; edits made from ranges | a rename touches the occurrences and nothing else; what is extracted or inlined is moved, not changed |
| command line: `ori-cli/src/main.rs` | thirty argument loops | `--json` changes only the printing; a refused command wrote nothing |

Code generators, bundlers, importers, UI, mobile and desktop tooling, the
documentation site and the agent tools are tables of rules and output formats;
they are not modelled (section 6).

### How they interact

- `run_with_mode(Parallel)` moves the ready futures of the cooperative
  scheduler into a fresh worker pool. `CooperativeScheduler` uses the pool
  through `PoolReports`, which is the property `PoolContract` that the run `pool`
  checks.
- `publish_with_options` calls `LocalRegistry::list` and then `publish`; both
  are in `LocalRegistry.tla`, so another process may act between the two.
- `ori patch check` and `ori patch apply` read the same document; `PatchApply`
  steps through both at once.
- The interpreter asks the capability runtime before every call
  (both are in `Interpreter`), and it is the semantics that `TypesAreSound` and `FoldingIsFaithful` hold the checker and the folder to.
- `PackageManifest` reads its lines itself and requirements with `SemVer`; `VersionSolver` and `PathResolver` work on what it accepts.
- `ChangeTracker` composes the module graph of `resolver.rs`, the fingerprints of
  `query.rs` and the table that the command line persists.
- The refactorings and hierarchies of `Refactor` look up positions with the words and
  ranges of `LspText`; `LspServer` calls both through its handlers, where an answer is
  the texts it was computed from.
- `OriCli` dispatches to every command; what a command calls is a status of its
  input (`ok`, `errors`, `malformed`, `missing`) and of its environment.

## 2. Modules

| module | models | form |
|---|---|---|
| `ParallelScheduler` | the worker pool | one action per critical section and per step between two of them |
| `TaskPool` | what the pool and the TCP server promise, without threads | abstract specification |
| `CooperativeScheduler` | the cooperative scheduler and its hand-over | one action per call, `run_to_completion` one per tick |
| `LocalRegistry` | registry and publish workflow | one action per file-system call and process |
| `PatchApply` | check and apply | one action per kind of operation |
| `NetServer` | the TCP server | one action per critical section and per access to an atomic |
| `LspServer` | the server loop, its handlers and a client | one action per handler |
| `ChangeTracker` | changed reports, module graph, persisted table | one action per command, per edit and per step of the search for circles |
| `ParallelSchedulerProofs`, `CooperativeSchedulerProofs`, `LocalRegistryProofs`, `PatchApplyProofs`, `NetServerProofs`, `LspServerProofs`, `ChangeTrackerProofs`, `SemVerProofs` | | theorems about the module of the name (section 4) |
| `SemVer`, `VersionSolver`, `PathResolver`, `PackageManifest` | `ori-pkg` | operators; `MCToolchain` enumerates their inputs |
| `OriCli` | every command of `ori` | operators; `MCToolchain` |
| `LspText`, `Refactor` | what the editor's requests compute from a text | operators; `MCToolchain` |
| `Http`, `BackendDispatch`, `Migrations` | HTTP, routes, migrations and queries | operators; `MCToolchain` |
| `Lexer`, `StringLits`, `ExprParser`, `ConstFold`, `Exhaustive`, `TypeInfer`, `Interpreter` | text to trees, and programs | operators; `MCCompiler` |
| `Preproc`, `FrontEnd`, `ExprTree`, `Borrow`, `Effects`, `Generics`, `Traits` | passes over a module | operators; `MCAnalysis`, joined by `MCCompiler` |
| `MC...` | | instances for TLC; the pool, the cooperative scheduler and the TCP server need none beside their .cfg |

**ParallelScheduler.** `queue`, `shutdown`, the tallies and `diagnostics` are
the fields of `ParallelState`; `poisoned` is the poison bit of its mutex. A
worker's `pc` names the place of `worker_loop` it has reached: `lock` (about to
lock and look at the queue), `waiting` (in `Condvar::wait`), `body`, `starved`,
`requeue` and `notify_one` (the three steps of giving a task back, which the code
does under separate locks), `drain`. `main` follows `run`: the store of the
flag, the `notify_all` after the unlock, the deadline test and the join of each
handle, the report. A body is reduced to how it ends: it returns, it panics, or
it panics with a payload whose destructor panics while the worker holds the
mutex. `overdue` and `report.stranded` are history variables: no action reads them.

**CooperativeScheduler.** The fields have the code's names. The largest id
stands for `u64::MAX`, so `spawn` beyond it meets the saturated allocator.
`history` counts the values handed in and out; no action reads it.

**LocalRegistry.** A file is absent, partial, garbled or whole. `fs::write` is
two steps, create-or-truncate and write, so a process may die in between, and
another may read the empty file; two interleaved writes of different bytes may
garble it. A checksum is the tarball it is computed from. The audit, manifest and
signature checks read nothing that the registry writes and are a free verdict
(`checks_reject`, `checks_pass`).

**NetServer.** `queue`, `shutdown`, the counters and `diagnostics` are the fields
of `ServerInner`. The accept thread (`accept_pc`, `conn`) tests the flag, accepts,
counts, then pushes or refuses, each a step; a worker (`pc`, `held`) pops and
raises `active_workers` in two steps, as in the code, and lowers it before it counts
how the handler ended. `main` follows `shutdown`: the flag, the two `notify_all`
around the join of the accept thread, the poll loop with its separate looks at
`active_workers`, the queue and the clock, the joins, the report. A handler is how
it ends, as a body of the pool is. `found` and `report.stranded` are history.

**PatchApply.** A line is the identifier it mentions and whether that is inside
a string; a node is the line it starts on in the unpatched file, which is what
`resolve_line` returns; a blank line is one too (`cst.rs:91`). `rejoin` is what
splitting, editing and joining make of the final newline. `wanted` is a reference: the
sequence of the lines, each with the node that starts there, to which the same edits
are made by node and not by line number. `missed` is history: an insertion was to go
below a line that is not there any more, a blank one that an earlier edit left last and
that the next split took for the final newline.

**LspServer.** Both streams are FIFO queues; a document's text is the number of
the edit that made it. A request carries the texts its user saw (`asked`); a
response carries the texts its handler read (`saw`). A write to a client that has
gone may fail, which ends `run` with the error. So does a header that cannot be read,
from a client that is still there (`bad_header`). The handlers that look at the byte
before the cursor may panic when it is past its line (`identifier_at_panics`), which is
why a request says whether its cursor is. `cutoff` is history: the number of requests
sent before the first message that ends the server or may, to which `KeepsUp` owes an answer.

**ChangeTracker.** Files are edited, deleted and reported on in any order; a report
covers one file or the directory. A fingerprint is the symbol it is computed from.
A report is relative to the table of the directory or to one given with `--prev`;
anybody may delete the table, a read of it may fail, and a write may leave the old
table or half of the new one. `ReplayIsExact` follows the reader of the reports, who
applies each to what it is relative to as far as the reader can tell: to the file
given with `--prev`, to nothing if a note says so, and else to the outcome of the
last one. It drops a report that came with the warning that the table was not
written; a reader of the JSON alone cannot, because the warning is on standard error.
What no reader can tell is that a table was missing or could not be read
(`misled`): the code counts it as empty without a note (`main.rs:356`), and the reader
keeps the symbols that are gone. That exception is by name, and even then every entry
of the table is known.
A report on the directory also resolves its modules: the depth-first search for
circular imports keeps its stack, the neighbours left at each level, the visited
modules and the circles found, takes roots and neighbours in any order, and is a
step for each module it enters, meets again or leaves.

**Enumerated algorithms.** The state is one variable, `case`: the input of one
algorithm. A step picks one and another goes back to pick the next, so TLC evaluates
each property on every input of a bounded set. Inputs are small but concrete where
the algorithm is about characters (`PackageManifest`, `LspText`, `Refactor`, `StringLits`, `Lexer`, `Preproc`, `Http`: sequences
of characters, the words that play no part being one character each) and abstract
elsewhere: a version requirement that the solver meets is the set of versions it
accepts, a type is a tree, a token its kind and text, a program a tree of
expressions. Reference definitions are written without the algorithm: `IsSolution`
says what a resolution is, `Reached` what a walk covers, `HasType` what a value of a
type is, `UnifyIsExact` compares with all ground substitutions.

**Effects, Traits and Preproc.** `Effects` works on functions with ids, names that may be
taken twice, and headers as sequences of tokens, so the repair that writes a missing
effect into a `uses` clause is checked by reading the header again. `Traits` canonicalizes
signatures piece by piece (a piece is a character or a word that is never cut), as the
code does with their text, and sorts its report. The
environment that `Preproc` reads may change between two reads of a name.

**Interpreter.** `eval_expr` threads a state (`st`: frames, output, files, the calls
that ran) through the code's order of evaluation; `Then` is the early return of every
flow that is not a value. `HostStack` stands for the stack of the process: an
evaluation nested deeper ends in `Overflow`, which no run may show unless a lambda of
its program applies a lambda (`Counted`).

**LspText and Refactor.** A text is a sequence of characters, a position a line and
a column. `modes` is the scanner of strings that a rename uses; a word is found by its mode there and by the bytes at its
ends. What a use of a name is the properties take from the lexer (`Uses`). Each of the code's other
scanners (references, hints, tokens) is a definition of its own, because the code has
them separately and they differ. `Refactor` works on documents of lines with the
symbols that the front end found in them.

**OriCli.** One operator per command: `scan` is the argument loop with its options,
words and refusals, the result is the exit code and the set of what was written
(`explain` also answers with its symbol). A registry that fails may have stored
something before it did (`env.left`): the tarball, or the tarball and its provenance.

## 3. Runs

The passing runs explore their bounded instance completely.

| run | what it shows |
|---|---|
| `pool` | `Accounting`, `NoSleeperAfterShutdown`, `SilentReportIsComplete`, `PoolContract`, that the pool implements `TaskPool`, and `RunReturns`: every run joins its workers and returns, unless a payload poisoned the mutex |
| `coop` | `FuturesAreAccounted` (nothing leaks, queue and values agree, a value surfaces once, tallies add up) and `CutShortIsReported` |
| `registry` | `ListedIsFetched`, `OnlyRacesForget`, `TarballIsImmutable`, with deaths at any step |
| `registry_lost_update` | violated: two publishes of different versions of one name are both accepted, and one is gone from the index |
| `net` | that the server implements `TaskPool` (`ImplementsTaskPool`), `ShutdownDrains`, `ReportIsExact`, `ShutdownReturns`, `ConnectionsArePopped` |
| `patch` | `BottomUpIsExact`, `PartialApply` |
| `patch_identity` | violated: an edit below an earlier one lands on another line than its node's |
| `lsp` | `AnswersAreExact`, `MarkersMatchWhenQuiet`, `KeepsUp` |
| `changed` | `ReplayIsExact`, `CyclesAreFound` (whatever the order of the search, at its end) |
| `toolchain` | `ResolutionsHold`, `ManifestsAreExact`, `CommandsBehave`, `MessagesAreExact`, `RequestsAreServed`, `MigrationsAreExact`, `EditorIsExact` |
| `solver` | violated: `solve` returns a resolution without a package that a chosen one needs |
| `compiler` | `RunsAreContained`, `CallsAreGranted`, `TypesAreSound`, `MatchesAreExact`, `FoldingIsFaithful`, `SourceIsReadExactly`, `BorrowsAreReal`, `EffectsAreExact`, `GenericsAreExact`, `ImplsAreCoherent` |

The three violated properties are what a comment of the code says; `findings`
quotes each of them. Some properties of `toolchain` and `compiler` except, by name
and in their definition, a case in which the code is known to do otherwise; each
such case is among the observations of section 5.

### Bounds

- **Pool.** Two workers and two tasks are the least in which one worker sleeps,
  drains or gives a task back while another runs; a request for three workers meets
  the policy cap (256 in the code). A step budget of 0 starves the first pop, 1 the
  second, 2 neither. `StepScale` is 1 instead of 1024. Two runs of one pool cover a
  `run` after a shutdown. The proofs remove these bounds for what they cover.
- **TCP server.** The cap is two instead of 256, for the queue and for the workers,
  and there are three connections: two fill the queue and the third is refused, or
  two are in handlers and one is queued. Either worker may die. The proofs remove
  these bounds for the safety properties.
- **Cooperative scheduler.** Three ids and four spawns: the fourth gets the third
  id again. Two resumes; budgets 0 and 2, so a run can be cut before and between
  completions. Properties that the saturated allocator breaks on purpose are
  stated for fresh ids (`~saturated`); `NothingLeaks` is stated for all.
- **Registry.** Two publishers, two versions of one name and one of another, and
  three attempts: a first publish, a death and a retry beside another publisher.
  The two publishers own different versions: `registry.rs` names two simultaneous
  publishes of the same version as its known limitation, and it is left out of the
  passing run for that reason.
- **Patch.** Three operations on five lines: the module header, an import, a
  function, a quoted occurrence of its name and a blank line, which is a node too. Two operations already shift a
  line number; the third tells a rule about the next operation from one about all
  later ones. Payloads have no line or two.
- **Server.** Three messages in flight over two documents: an edit, a request and
  another edit or a `shutdown`. Every property is about one message overtaken by
  at most two others.

- **Changed reports.** A handful of contents for each path: enough for a symbol to
  change, move between files, vanish and come back, and for rings of one, two and
  three modules. `--prev` names one table (`Kept`), with a symbol that still exists and
  one that never did.
- **toolchain.** Versions around 0 and around the largest number (3 for `u32::MAX`);
  diamonds of five packages with all ways to constrain the shared ones; three
  directories with any path dependencies; strings of three characters and lines of
  five; manifests of three blocks; every command with three further arguments in
  five environments; bodies of three bytes, with a limit of two for a body, 12 for a line,
  20 and 50 for headers and 5 for the line of a chunk instead of the code's kilo- and
  megabytes, and 99 for `usize::MAX`; tables of three routes over ten patterns; four migrations;
  editor texts of four characters or up to four pieces (words, quotes, comments, line ends)
  with every cursor on them, two documents of two functions for calls, files of two
  declarations with up to three lines each for the refactorings.
- **compiler.** Trees of three operators, runs of three tokens after each kind of
  opening, texts of four characters, matches of four arms, bodies of three
  statements with one nested block, texts of four fragments for the preprocessor
  (markers, halves of markers, quotes, slashes, line ends) under four configurations,
  four functions that call each other, two
  unifications in a row, three declarations in a file. `MAX_CALL_DEPTH` is 3 and
  `HostStack` 6, so recursion meets the cap and has room to overrun it. What goes
  wrong in these algorithms goes wrong between two neighbours: a scope and the next,
  a binding and a use, one unification and another.

Deadlock checking is off for the state machines, because every one of them may come
to rest: a pool nobody runs, a registry nobody uses, a patch that is reported, a
server that ended.

### Fairness

`pool` assumes weak fairness of each worker and of
`run`: the operating system runs a runnable thread, the mutex is handed on, and
bodies end (the code has no way to stop one either). Nothing is assumed of the
deadline or of spurious wake-ups, so `RunReturns` depends on neither. `net` assumes
the same of the accept thread, of each worker and of `shutdown`, and that time
passes (`DeadlinePasses`): the poll loop of `shutdown` would otherwise wait for
connections that no living worker can pop. Nobody has to connect, to call
`shutdown`, or to wake up spuriously. `lsp`
assumes that the server handles what it was sent and that an editor that is
there reads; nobody has to send anything.

## 4. Proofs

`ParallelSchedulerProofs` proves, for every policy cap, budget, set of bodies,
number of tasks and number of runs (`PoolAssumption` is all it assumes):

- `TypeCorrect`: the type invariant, with it that no join lacks a handle;
- `NoLostWakeup`: no worker sleeps once the flag is stored and `notify_all` is over;
- `DrainsAreAnnounced`: what `drain_cancelled` drops was announced by A0011;
- `TasksAreAccounted`: every accepted task is on the queue, in the hands of one
  worker or in one tally;
- `SilentReports`: a report without A0011 is complete.

None of these is inductive alone. The strengthening has four parts the code
relies on without saying so: a worker in a place that owns a task has a real one
(`HeldTasks`); the phases of `run` and the count of joined handles go together
(`JoinsInOrder`); joined threads have ended, threads beyond the requested number
never started, and none outlives `run` (`JoinedAreGone`); and a worker about to
put its task back has recorded A0011, unless the mutex was poisoned
(`StarvationIsAnnounced`). `JoinedAreGone` is what makes the wake-up argument
work: outside `run` there is nobody to wake, so `submit` and the public
`request_shutdown` cannot lose one. A worker goes to sleep only while it holds the
mutex and sees the flag down; the flag goes up under the same mutex, and whoever
slept by then is woken by the `notify_all`.

Accounting needs cardinalities: the set of workers that own a task is finite, and
each action adds at most one worker to it or takes one away. `SilentReports`
follows because at the report no worker owns anything, so the tallies fall short
by exactly the length of the queue, which is what `finalise_report` tests.

Two more theorems say what the pool is to its callers. `PoolImplementsTaskPool` is the
refinement: under the mapping of the module every step of a thread is a step of
`TaskPool` or none. It needs that ids on the queue and in hand are distinct and below
`next_id` (`UniqueIds`), so that a task that is given back is the one that was taken.
`ContractHolds` is `PoolContract`, which `CooperativeScheduler` uses in place of the
pool: it follows from what holds of the first run of a fresh pool (`FirstRun`): every
pop a worker was allowed is a body that ran or runs, a cap no smaller than the number
of tasks is never hit, only panics kill threads or poison the mutex, and without them
whoever left saw the queue empty for good.

`NetServerProofs` proves, for every cap, number of workers and of connections and
set of handler ends (`NetAssumption` is all it assumes), every safety property that
`net` checks and three more:

- `TypeCorrect`: the type invariant, with it the cap of the queue;
- `ConnectionsHaveOneOwner`: no connection reaches two handlers;
- `ConnectionsAreAccounted`: every accepted connection is in one place or counter;
- `ServerImplementsTaskPool`: the server is a `TaskPool` of connections, each refused or
  queued once and handled at most once;
- `ShutdownServesWhatItFound`: what was queued when `shutdown` was called is served,
  and at most one later connection is left, unless a worker dies;
- `ReportIsFinal`: the report adds up and agrees with its diagnostics.

In the refinement a connection is pending from the push until a worker counts how its
handler ended, and a refusal is a drop. What is pending does not change when a worker
pops; that a finished connection is gone needs `EachConnectionOnce`, and that the one
pushed has the next number of `TaskPool` needs `Numbered`: `accepted` is raised after
the id is given and before the push.

The inductive parts: ids are handed out in order and the queue keeps that order
(`Ids`), so a new one is neither queued nor in a worker's hands; `shutdown` goes
through its phases in order and has joined what it says it joined (`Phases`); what
was queued when the flag went up is older than what comes after it (`FoundIds`);
once one worker has exited, the queue and the accept thread together hold at most
one connection, and it is not one of those found (`Leftover`); a panic or refusal
is counted before it is noted (`Noted`); and after the report no thread has a step
left (`ReportIsCurrent`). `Leftover` is the heart of it: a worker exits only when
it sees the flag up and the queue empty, and the accept thread, which looks at the
flag before every accept, can push at most once after that.

`CooperativeSchedulerProofs` proves `EveryFutureIsAccounted` and
`EarlyStopsAreReported`, every property that `coop` checks, for every size of the id
space (`CoopAssumption`), every budget and any sequence of calls. The invariant says
how the allocator and the sets of ids belong together: every id handed out is queued,
parked or finished (`Whereabouts`); while the allocator has not saturated the next id has never been
handed out (`Fresh`); and each step of a drain delivers one
value (`StepsDeliver`). `Whereabouts` holds after saturation as well. The queue is
filtered by position (`Nth`), so half of the module is lemmas that count positions:
the order and the multiplicity of what is left.

`LocalRegistryProofs` proves the three properties that `registry` checks, for any number
of packages, publishers, readers, attempts and deaths. `IndexForgetsOnlyInRaces` needs
nothing: until two updates of one index overlap, whoever updates it has read every
accepted version of its name and is alone in it (`Remembers`). `ListedCanBeFetched` and `TarballsAreImmutable` have the hypothesis
`Unshared`, no two processes publish the same version: the registry locks nothing, and
`registry.rs` names that race as its limitation. The argument follows the order of the
writes: a publisher that reached the index has written tarball and provenance
(`Written`), nobody else touches those files, so each entry that is listed or read is
backed (`Backed`), and so is what a reader was promised when it began to fetch
(`Promised`). A death leaves this untouched because the index is written last.

`LspServerProofs` proves `EditorGetsExactAnswers` and `MarkersSettle`, the safety
properties of `lsp`, for any documents and number of messages. The ids on the two
streams form one interval, cut into what was read, what is answered and what is asked
(`AnsweredUpTo`), which gives one answer each and their order. The texts are carried by
replay: what is on its way, replayed over what the receiver has, gives what the sender
has (`Follows` towards the server, `OutFollows` towards the editor). Once a stream is
empty the two are equal.

`PatchApplyProofs` proves, for every file and every patch, `UpwardEditsAreExact` (of
`BottomUpIsExact`), `StaleTargetsAreSkipped` (of `PartialApply`) and
`FinalNewlineStays`, an action property. The invariant `Aligned` says that while edits
go strictly upwards the text and the reference agree line by line and that each line
above the latest edit is still the node it was, but for at most the last of them: when
it is blank and the file has no final newline, the next split takes it for one
(`rejoin`). Only an insertion below that very line can then go wrong, which is the
exception `missed`; a replacement of a line that is gone appends, which is what the
reference does there (`AppendAgrees`). The theorem has no hypothesis: blank lines are
targets like any other.

`ChangeTrackerProofs` proves `ReportsCanBeReplayed` (`ReplayIsExact`) for any number of
files of any content (`PathsAssumption`: paths are numbers, of which one is the last), any tables given with
`--prev`, and failing reads and writes. The invariant adds that only a whole file has
entries (`ReplayInv`).
A fingerprint is that of the last file that declares the id, and that there is a last
one is the only induction: a set of naturals has a least member.
`CircularImportsAreReported` (`CyclesAreFound`) says of the search, for any number of
modules, that modules resolved without E0230 import each other in no circle and that
every E0230 names one. The invariant (`Sound`, `SearchInv`) has five parts. The stack is
a chain of imports of distinct modules, all visited (`Shape`, `Chain`). As long as no
circle was found, the neighbours already looked at are done or next on the stack
(`Looked`), what is done imports only what is done (`Settled`) and has no circle in it
(`NoCircle`). A circle is a set of modules each of which imports one of the set, so no
path has to be constructed; the walk that a report names is cut out of the stack.

`SemVerProofs` is about the operators that the version solver rests on.
`VersionsAreTotallyOrdered`: `cmp` is antisymmetric, 0 exactly for equal versions, and
transitive, on versions with pre-releases of any identifiers and any length, so sorting
candidates and taking the highest are well defined. `RangesLockElements`: `^v` accepts
exactly the releases from `v` on that share its elements up to the left-most that is
not zero, `~v` those that share major and minor. Where the last of these elements is
`u32::MAX` the increment of the code wraps in a release build, the one that is modelled, and
both accept nothing.

Only model-checked:

- liveness (`RunReturns`, `ShutdownReturns`, `ConnectionsArePopped`, `KeepsUp`), which
  the prover does not do under fairness;
- every other algorithm of `toolchain` and `compiler`: most are recursive, and what a
  recursive definition computes for every input is beyond the prover, which cannot
  instantiate the induction theorems.

## 5. Observations without a run

First what the state machines show. The properties named here are stated in the
modules and do not hold; no run checks them.

- In parallel mode `completed_ids` includes futures whose value no caller ever
  saw (`async_runtime.rs:822`), although the field is documented as "observed as
  `Ready`" (`:150`).
- `RunReturns` excepts a poisoned mutex because `request_shutdown` stores the flag
  inside `if let Ok` (`async_runtime.rs:561`): after a poisoning the flag is never
  stored, an idle worker waits for ever and `run` with it. The comment in
  `worker_loop` (`:661`) says that workers still attempt to continue after poisoning.
- The connection that `ShutdownDrains` allows to be left behind is accepted between
  the test of the flag and the push (`net_io.rs:528`). It is counted as accepted and
  gets no NET0004, although `:30` gives that code to a queue that was not drained.
- A second `shutdown` while the first is at work returns a snapshot of counters that
  still move, although `net_io.rs:395` promises the same counters.
- A worker that cannot be spawned makes `serve` fail (`net_io.rs:352`) and leaves the
  workers spawned before it waiting on the condition variable for good.
- A dry run does not reach the version-conflict check (`publish.rs:364`, against
  the list of checks at `:258`).
- After `shutdown` a second `shutdown` succeeds and `exit` sent as a request gets
  MethodNotFound, although `server.rs:78` promises InvalidRequest for any other
  request.
- File stems join name and version with a hyphen (`registry.rs:373`), so
  `lib-0.1.0` at `0.2.0` and `lib` at `0.1.0-0.2.0` share their files. The model
  gives every package its own files.
- `GraceExceededIsReported`: the remaining time is tested once before each join, so a
  worker that exceeds the grace period during the last join leaves no A0012
  (`async_runtime.rs:533`, against the comment at `:486`).
- `RecoverableByRetry`: a publish that stops after it created the tarball can never be
  completed, every retry is AlreadyExists (`registry.rs:241`, against `:238`).
- `TimeoutMeansTimeout`: `shutdown` that looks between a worker's pop and its
  increment of `active_workers` reports NET0004 within its window (`net_io.rs:462`,
  against `:177`).
- An edit that leaves a blank line last in a file without a final newline makes the next
  insertion below that line land one line up (`patch_apply.rs:299`): joined and split
  again, the blank line has become the final newline. `BottomUpIsExact` excepts it by
  name (`missed`).
- `UniformContract`: `apply` aborts with P1002 on five kinds of operation that `check`
  accepts (`patch_apply.rs:238`, against `:7`).

Then the algorithms.

- *Packages.* The solver never goes back into an earlier branch, so it also misses
  solutions. The bounds of `^` and `~` wrap at `u32::MAX` (`version.rs:378`; a debug build
  panics), and the requirement then accepts nothing, not even its own version. Directories are keyed by name, so AUD0003, two versions of one name, can
  never be found (`audit.rs:10`). `[bundle.artefact.*]` sections are refused by
  `Manifest::parse`.
- *Changed reports.* A table that is there and cannot be read counts as empty without
  a note (`main.rs:356`), where the comment above it speaks of the first run; nothing in
  the report says what it is relative to or that its table was not written. Two files of one module that declare one name are reported as
  modified for ever; dependents of a removed symbol are not reported.
- *Command line.* `build` writes its artefacts when there are errors and exits with 0
  when the write fails; `run` and the desktop build ignore compile errors; `publish`
  makes the registry directory in a dry run too; `publish --tarball` together with one
  of the newer flags ignores the tarball; `test` selects nothing; `patch apply` never
  writes the source. `agent explain` takes its first argument for the symbol, `--json` too
  (`main.rs:1961`), so an option in front changes the answer (`IsSymbol`). `publish` exits with 2, an
  input error, when the registry fails after the tarball, or tarball and provenance, were
  stored (`registry.rs:241`, `:258`, `:260`), and `fetch` and `yank` may fail as late
  (`FailedLate`).
- *Front end.* A literal with a prefix may end in an underscore (`numeric_lit.rs:15`
  says not). An escaped line break in a string does not count as a line
  (`lexer.rs:176`). A lambda in a body is taken for a declaration without a name
  (E0200); a string `throw` is taken for the word; `true` and `false` are variables to
  the parser, so the folding of conditions never applies to parsed code. The parser
  refuses two symbols of one name in different namespaces, which `resolver.rs:16`
  allows.
- *Folding* of `Err(e)?` loses the early return, and of a match on a literal with a
  binding arm leaves the name unbound. Nothing in the pipeline calls it.
- *Preprocessor.* The head of the file announces PRE0010 and PRE0030 and
  `copy_string_literal` PRE0040 (`preproc.rs:17`, `:198`); the code emits P3010 and P3030,
  and nothing for a literal that does not end. Names of constants may hold slashes, so a
  comment right after `@orison/name` becomes part of the name.
- *Effects.* `append_effect_to_uses` writes the effect in the wrong place when `uses` comes
  before the result type or has no effect behind it. Two functions of one id make the
  callee of a diagnostic `<unknown>`.
- *Types.* Let annotations, call arguments, `?` outside a Result, the error type of
  `?`, bare returns and an if without else are not compared; pattern bindings are
  unknown and warn W0530. `instantiate` skips only quantified tags, so a free variable
  of a partly quantified scheme can be captured; a scheme over the saturated tag does
  not end. `from_typeref` folds a type variable to unknown, although its comment says
  that it is propagated (`generics.rs:116`), and `compose` is not composition where
  both substitutions bind a variable. Effects after a method without a
  result are not compared; every implementation of an unknown protocol is an orphan;
  two protocols with one method name for one type are not flagged (`traits.rs:395`).
- *Matches.* An arm `A(1)` covers `A`, so of `A(1)` and `A(2)` the second is reported as a
  duplicate (W0541) although it takes values of its own. A catch-all after arms for all
  constructors is not reported. A constructor that two variants declare belongs to
  neither, so a match on it alone is not checked. A signature's variants are split at
  bars inside payloads.
- *Borrows.* Moves and borrows are kept by name for the whole body, so a name that a `let`,
  an inner block or the parameter of a lambda binds again is taken for the earlier one
  (`Rebound`), although `borrow.rs:1256` says that parameters are excluded; and a function
  that a lambda calls counts as captured (`Called`). A move and a use in one statement are not told
  apart, and an inner block is one statement of its outer one: a use after a move within
  it is missed. Its moves are seen outside, although `:754` says that they do not leak,
  and uses inside lambdas are reported, although `:798` says that lambdas are not looked
  into; both are real uses after a move. B0080 is reported for a local of any open
  block, although `:651` says of the same block: where the borrow only leaves an inner one its local
  lives on (`LivesOn`). A borrow inside a tuple or a constructor and one of a lambda's
  parameter are not looked at. Only
  rings of two lifetimes are found, and the last step of `solve_constraints` ignores
  equalities.
- *Interpreter.* The effects of the entry function and of `io` builtins are not
  guarded. A `let` in a branch outlives it. Constructor patterns never match. Lambdas
  cannot call functions, and lambdas applied through `list.map` do not count as calls: a
  lambda that applies a lambda can nest until the stack of the process is used up, against
  the comment at `interp_exec.rs:33`. `RunsAreContained` excepts such programs by name
  (`AppliesInLambda`, `Counted`).
- *Editor.* `identifier_at` panics for a column past the end of a line that ends in
  punctuation (`server.rs:1571`, and its copy in `refactor.rs`); `identifier_range_at` finds
  the word before the punctuation there. Neither references nor a rename know `//`
  comments: they take names in them for uses, and a quote in one for the start of a
  string, after which every use is missed (`QuotedRemark`; `server.rs:1595` promises every
  occurrence outside of string literals). References skip what follows a `#` instead. Inlay hints search every function from the first `let` of the
  file and count annotated lets, so they can sit at another name. The frame of a line
  in a selection range may be larger than its parent's. The token of a string that is not closed is one
  longer than the text. `supertypes` of a type is the type itself, where `refactor.rs`
  promises nothing. `extract_function` flattens nested indentation, and its insertion
  can fall inside a selection that reaches beyond the body. `outgoing_calls` goes to the first
  document that declares the name. `inline` accepts a cursor on the function's own
  header.
- *HTTP.* `parse_url` cuts at a byte that need not begin a character, and panics where it
  does not. HTTP0003 can never be reported; a body delimited by the end of the stream is
  read as empty; a client whose connection fails after it was made does not try the
  next address. `build_dispatch_table` replaces a route of the same method and path
  without a word; `insert_route` calls `/users` and `/users/` a conflict under the
  strict policy too; a preflight is answered only where an OPTIONS route exists.
- *Migrations.* What is listed as a cycle includes migrations that are only behind one
  (against `migration_graph.rs:34`); two migrations of one id give
  an empty cycle; a second `after` and what it names are passed over.

## 6. Not modelled

Inside the modelled components: the destructor of a body that `submit` or
`drain_cancelled` drops; failure to spawn a thread; the clock (the deadline is one
event); the version numbers of LSP documents, which the server stores and never
compares; the wording and the positions of diagnostics (lines are kept by the lexer);
the JSON of reports and the rendering of hover, completion and protocol types; collisions of
fingerprints; time-outs of sockets; floating-point values, which the interpreter
passes on and compares but never computes with.

Whole components: code generation and lowering (what an instruction does is outside
the repository), bundlers (byte layout), importers, UI, mobile and desktop tooling,
the documentation site and the standard library (tables and text), the build-script
sandbox (a stub that validates a policy and runs nothing), the lossless tree,
`type_check.rs` (a table of known names), the benchmark and
property-test harnesses (timing and pseudo-random numbers), and the agent tools, whose
loop is around an external model.

## 7. What could come next

1. **Proofs**: what `LocalRegistry` publishes sequentially as a refinement of an abstract
   registry; the guard of the capability runtime, once it is in a module without
   recursive operators.
2. **More of the code**: `type_check.rs` and the affected tests of `incremental.rs` as
   further enumerations; the HTTP layer composed with `NetServer`.
