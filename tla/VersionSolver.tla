---------------------------- MODULE VersionSolver ----------------------------
(***************************************************************************)
(* The backtracking search of crates/ori-pkg/src/version_solver.rs.        *)
(*                                                                         *)
(* A version is its place in the order of versions and a constraint the    *)
(* set of versions that satisfy it (SemVer says which). A graph is         *)
(* [packages, dependencies]: the candidates of each name, and for each     *)
(* name and version the sequence of [name, accepts] it depends on. The     *)
(* mutable arguments of `assign` are one record that it takes and returns. *)
(***************************************************************************)
EXTENDS Integers, Sequences, FiniteSets

LOCAL INSTANCE FiniteSetsExt

\* resolved: name -> version, a partial function; stack: the names being assigned;
\* constraints: what each name on the way has to satisfy; retried: history, some
\* candidate was given up; error: "" or a hard failure.
Start(graph, root) ==
  [resolved |-> <<>>, stack |-> <<>>, constraints |-> <<>>, retried |-> FALSE,
   error |-> "", ok |-> TRUE]

Put(f, x, y) == [z \in DOMAIN f \cup {x} |-> IF z = x THEN y ELSE f[z]]
Drop(f, x) == [z \in DOMAIN f \ {x} |-> f[z]]

\* constraints is a stack of [name, accepts]; the ones of a name must all hold.
effective(st, name, version) ==
  \A i \in DOMAIN st.constraints :
    st.constraints[i].name = name => version \in st.constraints[i].accepts

viable(graph, st, name) == {v \in graph.packages[name] : effective(st, name, v)}

RECURSIVE assign(_, _, _), try(_, _, _, _), assign_all(_, _, _)

Fail(st, error) == [st EXCEPT !.error = error]

\* Assign a version to `name`: a hard error, or ok, or not ok to backtrack. A name
\* that has a version already is locked to it.
assign(graph, name, st) ==
  IF \E i \in DOMAIN st.stack : st.stack[i] = name THEN Fail(st, "Cycle")
  ELSE IF name \notin DOMAIN graph.packages \/ graph.packages[name] = {}
    THEN Fail(st, "NoMatchingVersion")
  ELSE LET locked == name \in DOMAIN st.resolved
           choices == IF locked THEN {st.resolved[name]} ELSE viable(graph, st, name)
       IN  IF \/ viable(graph, st, name) = {}
              \/ locked /\ ~effective(st, name, st.resolved[name])
             THEN [st EXCEPT !.ok = FALSE]
             ELSE try(graph, name, choices, [st EXCEPT !.stack = Append(@, name)])

\* The loop over the candidates, highest first. What the dependencies of a
\* candidate put into `resolved` stays when the candidate is given up.
try(graph, name, choices, st) ==
  LET choice == Max(choices)
      deps == graph.dependencies[name][choice]
      after == assign_all(graph, deps, [st EXCEPT !.resolved = Put(@, name, choice),
                                                  !.constraints = @ \o deps])
      undone == [after EXCEPT !.constraints = st.constraints, !.stack = st.stack]
      caller == SubSeq(st.stack, 1, Len(st.stack) - 1)
  IN  IF choices = {} THEN [st EXCEPT !.ok = FALSE, !.stack = caller]
      ELSE IF \E i \in DOMAIN deps : deps[i].name \notin DOMAIN graph.packages
        THEN Fail(st, "NoMatchingVersion")
      ELSE IF after.error /= "" THEN after
      ELSE IF after.ok THEN [undone EXCEPT !.stack = caller]
      ELSE try(graph, name, choices \ {choice},
               [undone EXCEPT !.resolved = Drop(@, name), !.retried = TRUE, !.ok = TRUE])

\* The dependencies in order, up to the first that cannot be assigned.
assign_all(graph, deps, st) ==
  IF deps = <<>> \/ ~st.ok \/ st.error /= "" THEN st
  ELSE assign_all(graph, Tail(deps), assign(graph, Head(deps).name, st))

\* [resolved, error, retried]: Conflict when the search is exhausted.
solve(graph, root) ==
  IF root \notin DOMAIN graph.packages
    THEN [Start(graph, root) EXCEPT !.error = "NoMatchingVersion"]
    ELSE LET st == assign(graph, root, Start(graph, root))
         IN  IF st.error = "" /\ ~st.ok THEN [st EXCEPT !.error = "Conflict"] ELSE st

\* resolve_with_registry: only the root has dependencies; a root of the same name
\* in the registry is ignored.
resolve_with_registry(root, deps, candidates) ==
  LET names == DOMAIN candidates \cup {root}
      packages == [n \in names |-> IF n = root THEN {1} ELSE candidates[n]]
  IN  solve([packages |-> packages,
             dependencies |-> [n \in names |-> [v \in packages[n] |->
                                 IF n = root THEN deps ELSE <<>>]]], root)
----------------------------------------------------------------------------
\* The reference: the assignments that choose the root and, for every package they
\* choose, an accepted version of each of its dependencies.
IsSolution(graph, root, resolved) ==
  /\ root \in DOMAIN resolved
  /\ \A n \in DOMAIN resolved : resolved[n] \in graph.packages[n]
  /\ \A n \in DOMAIN resolved : \A i \in DOMAIN graph.dependencies[n][resolved[n]] :
       LET dep == graph.dependencies[n][resolved[n]][i]
       IN  dep.name \in DOMAIN resolved /\ resolved[dep.name] \in dep.accepts

\* "the highest version that satisfies every constraint imposed on that name by
\* any package already in the partial resolution": what solve returns satisfies
\* the dependencies of every package in it.
SolverIsSound(graph, root) ==
  solve(graph, root).error = "" => IsSolution(graph, root, solve(graph, root).resolved)

\* As long as no candidate had to be given up, the answer is a solution and nothing
\* in it is superfluous.
SolverIsSoundWithoutRetry(graph, root) ==
  solve(graph, root).error = "" /\ ~solve(graph, root).retried =>
    LET resolved == solve(graph, root).resolved
    IN  /\ IsSolution(graph, root, resolved)
        /\ \A n \in DOMAIN resolved \ {root} : \E m \in DOMAIN resolved :
             \E i \in DOMAIN graph.dependencies[m][resolved[m]] :
               graph.dependencies[m][resolved[m]][i].name = n

\* With the registry entry point every direct dependency gets its highest accepted
\* version.
RegistryPicksHighest(root, deps, candidates) ==
  LET result == resolve_with_registry(root, deps, candidates)
  IN  result.error = "" =>
        \A i \in DOMAIN deps :
          \A v \in candidates[deps[i].name] :
            v \in deps[i].accepts => v <= result.resolved[deps[i].name]
=============================================================================
