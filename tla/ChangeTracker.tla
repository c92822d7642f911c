---------------------------- MODULE ChangeTracker ----------------------------
(***************************************************************************)
(* `ori agent changed`: the name resolver's module graph, the fingerprints *)
(* of query.rs and the table the command keeps in .ori/fingerprints.json   *)
(* between two runs.                                                       *)
(*                                                                         *)
(* A source file holds [module, imports, symbols]; a symbol is [name,      *)
(* space, shape], where space is its namespace and shape everything its    *)
(* fingerprint covers: kind, signature and set of effects. The order of    *)
(* the effects, and the body, are not in a fingerprint. Its id is module   *)
(* and name, and the parser keeps one symbol of an id per file. Hashes     *)
(* have no collisions.                                                     *)
(***************************************************************************)
EXTENDS Integers, Sequences, FiniteSets

LOCAL INSTANCE TLC

CONSTANTS
  Paths,      \* the .ori files of one directory, numbered in the order of their names
  Contents,   \* what a file may hold
  Kept        \* the tables that --prev may name

ASSUME PathsAssumption ==
  Paths \subseteq Nat /\ \E last \in Paths : \A p \in Paths : p <= last

NoFile == [module |-> "none"]
Std == "std"   \* a module of the standard distribution, never among the sources

VARIABLES
  files,      \* path -> content, NoFile when it is absent
  condition,  \* of fingerprints.json: missing, torn (there, but no JSON) or whole
  table,      \* its entries, id -> shape; none unless it is whole
  replica,    \* the agent's own table: the reports applied one after the other
  misled,     \* a table was not read and no note said so since the agent started over
  running,    \* the files the running command has read, {} between two commands
  stack,      \* dfs: the modules it is in, the first one outermost
  left,       \* dfs: for each of them the neighbours it has not looked at yet
  visited,    \* dfs: the modules it was called for
  cycles      \* the cycles found, each a sequence that ends where it starts

search == <<stack, left, visited, cycles>>
persisted == <<condition, table>>
agent == <<replica, misled>>
vars == <<files, persisted, agent, running, search>>

\* collect_ori_files: a directory stands for its files, a file for itself.
collect_ori_files(target) == {p \in target : files[p] /= NoFile}
Id(content, symbol) == <<content.module, symbol.name>>
Symbols(paths) == UNION {{<<Id(files[p], s), s>> : s \in files[p].symbols} : p \in paths}
----------------------------------------------------------------------------
\* resolver::resolve. Two files may declare one module; their imports are merged.
graph(paths) ==
  [m \in {files[p].module : p \in paths} |->
     UNION {files[p].imports : p \in {q \in paths : files[q].module = m}}]

\* The number of E0211: a module's second symbol of a name in a namespace.
duplicates(paths) ==
  LET all == UNION {{<<p, s>> : s \in files[p].symbols} : p \in paths}
      Key(x) == <<files[x[1]].module, x[2].space, x[2].name>>
  IN  Cardinality(all) - Cardinality({Key(x) : x \in all})

unresolved(paths) ==
  UNION {files[p].imports : p \in paths} \ ({files[p].module : p \in paths} \cup {Std})

\* The nodes of the graph of the running command, and those of a node's imports
\* that are nodes too.
Nodes == DOMAIN graph(running)
neighbours(node) == graph(running)[node] \cap Nodes

\* dfs is called for a node; frames are the calls that wait for it. Nothing depends
\* on the order of the neighbours or of the roots, so that every order is modelled.
dfs(node, frames) ==
  /\ stack' = Append(stack, node)
  /\ left' = Append(frames, neighbours(node))
  /\ visited' = visited \cup {node}

\* Mutant: a visited neighbour is skipped before the stack is looked at.
closes_cycle_mutant(n) == n \notin visited /\ \E i \in DOMAIN stack : stack[i] = n

\* A neighbour on the stack closes a cycle.
closes_cycle(n) == \E i \in DOMAIN stack : stack[i] = n

\* The loop over the neighbours of the last node of the stack comes to n.
look_at(n) ==
  LET frames == [left EXCEPT ![Len(left)] = @ \ {n}]
      start_idx == CHOOSE i \in DOMAIN stack : stack[i] = n
  IN  \/ /\ closes_cycle(n)
         /\ cycles' = cycles \cup {Append(SubSeq(stack, start_idx, Len(stack)), n)}
         /\ left' = frames
         /\ UNCHANGED <<stack, visited>>
      \/ /\ ~closes_cycle(n) /\ n \in visited
         /\ left' = frames
         /\ UNCHANGED <<stack, visited, cycles>>
      \/ /\ ~closes_cycle(n) /\ n \notin visited
         /\ dfs(n, frames)
         /\ UNCHANGED cycles

\* dfs returns.
leave ==
  /\ left[Len(left)] = {}
  /\ stack' = SubSeq(stack, 1, Len(stack) - 1)
  /\ left' = SubSeq(left, 1, Len(left) - 1)
  /\ UNCHANGED <<visited, cycles>>

\* One step of the search: the next root of detect_cycles, the next neighbour or
\* the return from a node.
detect_cycles ==
  /\ \/ stack = <<>> /\ \E start \in Nodes \ visited : dfs(start, left) /\ UNCHANGED cycles
     \/ stack /= <<>> /\ \E n \in left[Len(left)] : look_at(n)
     \/ stack /= <<>> /\ leave
  /\ UNCHANGED <<files, persisted, agent, running>>

searched == stack = <<>> /\ visited = Nodes

\* The diagnostics of a resolution whose search is over.
resolve(paths) ==
  [graph |-> graph(paths), E0211 |-> duplicates(paths), E0220 |-> unresolved(paths),
   E0230 |-> cycles]
----------------------------------------------------------------------------
\* combined_fingerprints: of two symbols with one id the last one counts.
combined_fingerprints(paths) ==
  LET ids == {x[1] : x \in Symbols(paths)}
      LastShape(id) ==
        LET owners == {p \in paths : \E s \in files[p].symbols : Id(files[p], s) = id}
            p == CHOOSE p \in owners : \A q \in owners : q <= p
        IN  (CHOOSE s \in files[p].symbols : Id(files[p], s) = id).shape
  IN  [id \in ids |-> LastShape(id)]

\* One hop along the imports; a module with a change of its own is not listed.
invalidated_dependents(edges, changed) ==
  LET modules == {id[1] : id \in changed}
  IN  {m \in DOMAIN edges \ modules : edges[m] \cap modules /= {}}

\* Every symbol is compared with the previous table, so that one of two symbols
\* with an id may be reported although the table has the other.
build_agent_changed_report(prev, paths, edges) ==
  LET current == combined_fingerprints(paths)
      added == DOMAIN current \ DOMAIN prev
      modified == {x[1] : x \in {y \in Symbols(paths) :
                     y[1] \in DOMAIN prev /\ prev[y[1]] /= y[2].shape}}
  IN  [added |-> added, modified |-> modified, removed |-> DOMAIN prev \ DOMAIN current,
       dependents |-> invalidated_dependents(edges, added \cup modified)]

Init ==
  /\ files \in [Paths -> {NoFile}]
  /\ condition = "missing" /\ table = <<>> /\ replica = <<>> /\ misled = FALSE
  /\ running = {} /\ stack = <<>> /\ left = <<>> /\ visited = {} /\ cycles = {}

\* The environment: a file is written or deleted. A command works on what it read
\* when it started, so that a change made while it runs is one made after it.
Edit(p, content) ==
  /\ running = {} /\ content /= files[p]
  /\ files' = [files EXCEPT ![p] = content]
  /\ UNCHANGED <<persisted, agent, running, search>>

\* Somebody deletes the table, at any time.
Lose ==
  /\ condition /= "missing"
  /\ condition' = "missing" /\ table' = <<>>
  /\ UNCHANGED <<files, agent, running, search>>

\* Mutant: the table is merged with the previous one.
persist_fingerprints_mutant(current) == current @@ table

persist_fingerprints(current) == current

\* cmd_agent_changed on a directory or a file: the sources are read and resolve is
\* called.
cmd_agent_changed(target) ==
  /\ running = {} /\ collect_ori_files(target) /= {}
  /\ running' = collect_ori_files(target)
  /\ UNCHANGED <<files, persisted, agent, search>>

\* What the report is relative to. The table of the directory that cannot be read,
\* missing or not, counts as empty without a word; one that is no JSON, and a file
\* of --prev that is either, counts as empty with a note.
Baselines ==
  {[from |-> "table", map |-> table, noted |-> condition = "torn"],
   [from |-> "unread", map |-> <<>>, noted |-> FALSE],
   [from |-> "prev", map |-> <<>>, noted |-> TRUE]}
  \cup {[from |-> "prev", map |-> kept, noted |-> FALSE] : kept \in Kept}

\* A table that is missing is not read.
silent(baseline) ==
  \/ baseline.from = "unread"
  \/ baseline.from = "table" /\ condition = "missing"

\* The table is written after the report is printed; a write that fails leaves the
\* old table or a part of the new one, and a warning.
persist(outcome, current) ==
  CASE outcome = "written" -> condition' = "whole" /\ table' = persist_fingerprints(current)
    [] outcome = "torn" -> condition' = "torn" /\ table' = <<>>
    [] OTHER -> UNCHANGED persisted

\* resolve has returned. The agent applies the report: to the file it gave with
\* --prev, to nothing if a note says so, and else to its replica; what is not
\* mentioned it keeps. A report that came with the warning it drops, because the
\* next one will not be relative to it.
report_changed(baseline, outcome) ==
  LET current == combined_fingerprints(running)
      new == build_agent_changed_report(baseline.map, running, resolve(running).graph)
      base == IF baseline.from = "prev" \/ baseline.noted THEN baseline.map ELSE replica
      known == [id \in (DOMAIN base \cup new.added) \ new.removed |->
                  IF id \in new.added \cup new.modified THEN current[id] ELSE base[id]]
  IN  /\ running /= {} /\ searched
      /\ persist(outcome, current)
      /\ IF outcome = "written"
         THEN /\ replica' = known
              /\ misled' = (/\ baseline.from /= "prev" /\ ~baseline.noted
                            /\ misled \/ (silent(baseline) /\ replica /= <<>>))
         ELSE UNCHANGED agent
      /\ running' = {} /\ stack' = <<>> /\ left' = <<>> /\ visited' = {} /\ cycles' = {}
      /\ UNCHANGED files

Next ==
  \/ \E p \in Paths, c \in Contents \cup {NoFile} : Edit(p, c)
  \/ \E target \in {Paths} \cup {{p} : p \in Paths} : cmd_agent_changed(target)
  \/ running /= {} /\ detect_cycles
  \/ Lose
  \/ \E baseline \in Baselines, outcome \in {"written", "torn", "kept"} :
       report_changed(baseline, outcome)

Spec == Init /\ [][Next]_vars
----------------------------------------------------------------------------
\* An agent that applies the reports one after the other, and drops those whose
\* table was not written, knows every entry of the table, whichever files and
\* directories it asked about in turn, whatever else it compared with, and whatever
\* became of the table in between. It knows the table exactly, unless a table that
\* was not read counted as empty without a note (misled): then it also keeps
\* symbols that are gone, until a note or a --prev makes it start over.
ReplayIsExact ==
  /\ \A id \in DOMAIN table : id \in DOMAIN replica /\ replica[id] = table[id]
  /\ condition = "whole" /\ ~misled => replica = table

\* The modules of S lead from one to another for ever.
Circular(S) == S /= {} /\ \A m \in S : neighbours(m) \cap S /= {}
\* A walk along the imports that comes back to where it started.
ClosedWalk(c) ==
  /\ c \in Seq(Nodes) /\ Len(c) > 1 /\ c[Len(c)] = c[1]
  /\ \A i \in 1..(Len(c) - 1) : c[i + 1] \in neighbours(c[i])

\* E0230 is exact: modules that were resolved without it import each other in no
\* circle, although a visited module is never entered again; and what it reports is
\* a circle of imports.
CyclesAreFound ==
  running /= {} /\ searched =>
    /\ cycles = {} => ~\E S \in SUBSET Nodes : Circular(S)
    /\ \A c \in cycles : ClosedWalk(c)
=============================================================================
