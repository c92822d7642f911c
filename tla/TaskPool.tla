------------------------------ MODULE TaskPool ------------------------------
(***************************************************************************)
(* What the worker pool of async_runtime.rs and the TCP server of          *)
(* net_io.rs promise, without threads: each submitted task or accepted     *)
(* connection ends at most once, either run (it returned or panicked) or   *)
(* dropped unrun, and the tallies count exactly those ends.                *)
(***************************************************************************)
EXTENDS Naturals, FiniteSets

VARIABLES
  pending,   \* ids accepted and not yet ended
  next,      \* the next id
  done,      \* tasks run
  dropped    \* tasks dropped unrun

vars == <<pending, next, done, dropped>>

Init == pending = {} /\ next = 0 /\ done = 0 /\ dropped = 0

\* A task is accepted, or refused and counted as dropped.
Submit ==
  /\ next' = next + 1
  /\ \/ pending' = pending \cup {next} /\ UNCHANGED dropped
     \/ dropped' = dropped + 1 /\ UNCHANGED pending
  /\ UNCHANGED done

\* A pending task has run.
Finish(id) ==
  /\ id \in pending
  /\ pending' = pending \ {id}
  /\ done' = done + 1
  /\ UNCHANGED <<next, dropped>>

\* Pending tasks are dropped.
Cancel(ids) ==
  /\ ids \subseteq pending
  /\ pending' = pending \ ids
  /\ dropped' = dropped + Cardinality(ids)
  /\ UNCHANGED <<next, done>>

Next ==
  \/ Submit
  \/ \E id \in pending : Finish(id)
  \/ \E ids \in SUBSET pending : Cancel(ids)

Spec == Init /\ [][Next]_vars
============================================================================
