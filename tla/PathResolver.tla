---------------------------- MODULE PathResolver ----------------------------
(***************************************************************************)
(* `resolve` of crates/ori-pkg/src/resolver.rs, and what is made of its    *)
(* graph: the lockfile, the audit and the SBOM. A tree maps directories to *)
(* manifests, [name, version, caps, deps], or to NoManifest when none can  *)
(* be read. deps is the sorted dependency table, a sequence of [alias,     *)
(* kind, dir, pin]: a "version" dependency is not followed, a "path" one   *)
(* leads to dir and pin is the set of versions its pin accepts.            *)
(***************************************************************************)
EXTENDS Integers, Sequences, FiniteSets

LOCAL INSTANCE SequencesExt
LOCAL INSTANCE TLC

NoManifest == [name |-> "none"]
Unresolved == 0      \* the source and the version of a leaf; directories are 1, 2, ...
Aliases(deps) == {deps[i].alias : i \in DOMAIN deps}
Leaf == [version |-> Unresolved, source |-> Unresolved, caps |-> {}, deps |-> {}]
Node(mf, source) ==
  [version |-> mf.version, source |-> source, caps |-> mf.caps, deps |-> Aliases(mf.deps)]

RECURSIVE walk(_, _, _), walk_deps(_, _, _)

\* walk: a name on the stack is a cycle, a name visited before is not walked again,
\* whatever directory it came from. The entry of the name keeps its source.
walk(tree, dir, st) ==
  LET mf == tree[dir]
      after == walk_deps(tree, mf.deps, [st EXCEPT !.stack = Append(@, mf.name)])
      source == IF mf.name \in DOMAIN after.nodes THEN after.nodes[mf.name].source ELSE dir
  IN  IF Contains(st.stack, mf.name) THEN [st EXCEPT !.error = "Cycle"]
      ELSE IF mf.name \in st.visited THEN st
      ELSE IF after.error /= "" THEN after
      ELSE [after EXCEPT !.nodes = (mf.name :> Node(mf, source)) @@ @,
                         !.visited = @ \cup {mf.name}, !.stack = st.stack]

\* The loop over the dependency table.
walk_deps(tree, deps, st) ==
  IF deps = <<>> \/ st.error /= "" THEN st
  ELSE LET dep == Head(deps)
           mf == tree[dep.dir]
           next == CASE dep.kind = "version" -> [st EXCEPT !.nodes = @ @@ (dep.alias :> Leaf)]
                     [] dep.kind = "path" /\ mf = NoManifest ->
                          [st EXCEPT !.error = "PathManifest"]
                     [] dep.kind = "path" /\ mf /= NoManifest /\ mf.version \notin dep.pin ->
                          [st EXCEPT !.error = "VersionMismatch"]
                     [] OTHER ->
                          walk(tree, dep.dir,
                               [st EXCEPT !.nodes = (mf.name :> Node(mf, dep.dir)) @@ @])
       IN  walk_deps(tree, Tail(deps), next)

\* [error, nodes]; a node is keyed by its manifest's name.
resolve(tree, root) ==
  walk(tree, root, [error |-> "", nodes |-> <<>>, stack |-> <<>>, visited |-> {}])

\* from_graph: the checksum is a function of name, version and source.
from_graph(nodes) ==
  {[name |-> n, version |-> nodes[n].version, source |-> nodes[n].source,
    checksum |-> <<n, nodes[n].version, nodes[n].source>>,
    caps |-> nodes[n].caps, deps |-> nodes[n].deps] : n \in DOMAIN nodes}

build_sbom(nodes) ==
  {[name |-> p.name, version |-> p.version, checksum |-> p.checksum, caps |-> p.caps] :
     p \in from_graph(nodes)}

\* The capabilities that packages other than the root declare: <<name, cap>>.
required(nodes, root) == UNION {{<<n, c>> : c \in nodes[n].caps} : n \in DOMAIN nodes \ {root}}

\* run_audit: findings are <<rule, target, capability>>.
run_audit(declared, nodes, root) ==
  LET required_caps == {rc[2] : rc \in required(nodes, root)}
      versions(n) == {nodes[k].version : k \in DOMAIN nodes \cap {n}} \ {Unresolved}
      findings == {<<"AUD0001", rc[1], rc[2]>> : rc \in {x \in required(nodes, root) :
                                                          x[2] \notin declared}}
             \cup {<<"AUD0002", root, c>> : c \in declared \ required_caps}
             \cup {<<"AUD0003", n, "">> : n \in {k \in DOMAIN nodes : Cardinality(versions(k)) > 1}}
  IN  [findings |-> findings,
       fail |-> Cardinality({f \in findings : f[1] = "AUD0001"}),
       warn |-> Cardinality({f \in findings : f[1] = "AUD0003"}),
       pass |-> 3 - Cardinality({f[1] : f \in findings})]
----------------------------------------------------------------------------
\* The reference: the directories that path dependencies reach from a directory in
\* one or more steps.
Steps(tree, dirs) ==
  UNION {{tree[d].deps[i].dir : i \in {j \in DOMAIN tree[d].deps : tree[d].deps[j].kind = "path"}} :
           d \in {x \in dirs : tree[x] /= NoManifest}}
Reached(tree, dir) ==
  LET grow[n \in 0..Cardinality(DOMAIN tree)] ==
        IF n = 0 THEN Steps(tree, {dir}) ELSE grow[n - 1] \cup Steps(tree, grow[n - 1])
  IN  grow[Cardinality(DOMAIN tree)]
Package(tree, root) == Reached(tree, root) \cup {root}

\* Every directory a walk may reach has a manifest, and a name of its own.
Named(tree, root) ==
  \A d, e \in Package(tree, root) :
    tree[d] /= NoManifest /\ (tree[d].name = tree[e].name => d = e)
Leaves(tree, root) ==
  UNION {{dep.alias : dep \in {x \in Range(tree[d].deps) : x.kind = "version"}} :
           d \in Package(tree, root)}

\* Where names are unique, resolve fails exactly when some pin is not met or some
\* reached package reaches itself; otherwise the graph has one node per reached
\* package, with what its manifest says, and a leaf for every other name, and no
\* edge of the lockfile dangles unless an alias is not the name of its package.
ResolveIsExact(tree, root) ==
  Named(tree, root) =>
    LET result == resolve(tree, root)
        dirs == Package(tree, root)
        met == \A d \in dirs : \A dep \in Range(tree[d].deps) :
                 dep.kind = "path" => tree[dep.dir].version \in dep.pin
        acyclic == \A d \in dirs : d \notin Reached(tree, d)
        renamed == \E d \in dirs : \E dep \in Range(tree[d].deps) :
                     dep.kind = "path" /\ dep.alias /= tree[dep.dir].name
    IN  /\ result.error = "" <=> met /\ acyclic
        /\ result.error = "" =>
             /\ DOMAIN result.nodes = {tree[d].name : d \in dirs} \cup Leaves(tree, root)
             /\ \A d \in dirs : [result.nodes[tree[d].name] EXCEPT !.source = d]
                                  = Node(tree[d], d)
             /\ renamed \/ \A p \in from_graph(result.nodes) : p.deps \subseteq DOMAIN result.nodes

\* AUD0001, "a dependency declares a capability that the root manifest does not
\* list": where names are unique a report without it means that the root lists
\* every capability of every package it reaches, and AUD0002 names exactly the
\* capabilities that nothing it reaches needs.
AuditIsExact(tree, root) ==
  Named(tree, root) /\ resolve(tree, root).error = "" =>
    LET report == run_audit(tree[root].caps, resolve(tree, root).nodes, tree[root].name)
        needed == UNION {tree[d].caps : d \in Reached(tree, root)}
    IN  /\ report.fail = 0 <=> needed \subseteq tree[root].caps
        /\ {f[3] : f \in {x \in report.findings : x[1] = "AUD0002"}} = tree[root].caps \ needed

\* AUD0003, "duplicate package versions in the graph (same name appearing twice
\* with different versions)": it is reported when two reached packages have one
\* name and two versions.
DuplicatesAreReported(tree, root) ==
  /\ \A d \in Package(tree, root) : tree[d] /= NoManifest
  /\ resolve(tree, root).error = ""
  /\ \E d, e \in Reached(tree, root) :
       tree[d].name = tree[e].name /\ tree[d].version /= tree[e].version
  => run_audit(tree[root].caps, resolve(tree, root).nodes, tree[root].name).warn > 0
=============================================================================
