------------------------ MODULE CooperativeScheduler ------------------------
(***************************************************************************)
(* The cooperative scheduler of crates/ori-compiler/src/async_runtime.rs   *)
(* (Scheduler, run_to_completion, diagnostics_for) and its hand-over to    *)
(* the worker pool (run_with_mode).                                        *)
(*                                                                         *)
(* The scheduler has one owner, so operations do not interleave; what can  *)
(* go wrong is a sequence of legal calls. run_to_completion is a loop of   *)
(* steps, one action each. Ids saturate at MaxId, u64::MAX in the code.    *)
(***************************************************************************)
EXTENDS Integers, Sequences, FiniteSets, SequencesExt

CONSTANTS
  MaxId,         \* the largest id the allocator can hand out
  Values,        \* the values futures resolve to
  StepBudgets,   \* the values of max_steps callers pass
  WorkerCounts,  \* the values of workers callers pass
  StepScale,     \* as in ParallelScheduler: 1024 in the code
  MaxSpawns,     \* bound on calls of spawn
  MaxResumes     \* bound on calls of resume that find a parked future

ASSUME CoopAssumption ==
  /\ MaxId \in Nat /\ MaxSpawns \in Nat /\ MaxResumes \in Nat
  /\ StepScale \in Nat \ {0}
  /\ StepBudgets \subseteq Nat /\ WorkerCounts \subseteq Nat

VARIABLES
  queue,            \* ids ready to advance, front first
  waiting,          \* ids parked until a resume
  resumed_values,   \* the value of each ready id
  next_id,          \* the saturating id allocator
  spawned_ids, completed_ids,
  max_queue_depth,
  drain,            \* run_to_completion in progress, or NoDrain
  report,           \* the latest AsyncReport with its diagnostics
  spawns, resumes,  \* bounds: calls so far
  history           \* what callers gave and got: see NoHistory

ready == <<queue, resumed_values, max_queue_depth>>
tallies == <<spawned_ids, completed_ids>>
bounds == <<spawns, resumes>>
vars == <<ready, waiting, next_id, tallies, drain, report, bounds, history>>

Ids == 0..MaxId
NoDrain == [max |-> -1, steps |-> 0, out |-> <<>>]
NoReport == [spawned |-> -1]

\* `given` counts the values handed in by spawn and resume, `discarded` those
\* a park or the pool took, `delivered` those that reached the caller, and
\* `rewound` is the set of completed ids that were parked again.
NoHistory == [given |-> 0, discarded |-> 0, delivered |-> 0, rewound |-> {}]

Queued == ToSet(queue)
HasValue == DOMAIN resumed_values
saturated == spawns > MaxId + 1

With(f, id, v) == [x \in DOMAIN f \cup {id} |-> IF x = id THEN v ELSE f[x]]

\* BTreeMap::remove.
Without(f, id) == [x \in DOMAIN f \ {id} |-> f[x]]

\* The running maximum of the queue depth.
Larger(m, n) == IF m < n THEN n ELSE m

saturating_succ(id) == IF id = MaxId THEN MaxId ELSE id + 1

\* The k-th smallest of a set of positions.
Nth(S, k) == CHOOSE i \in S : Cardinality({j \in S : j <= i}) = k

\* Mutant: the queue keeps the id.
unqueue_mutant(id) == queue

\* The queue without an id, in its order.
unqueue(id) ==
  LET kept == {i \in DOMAIN queue : queue[i] /= id}
  IN  [k \in 1..Cardinality(kept) |-> queue[Nth(kept, k)]]

parked(id) == waiting \cup {id}

\* The ids resume acts on.
Resumable == waiting

Init ==
  /\ queue = <<>> /\ waiting = {} /\ resumed_values = <<>>
  /\ next_id = 0 /\ spawned_ids = {} /\ completed_ids = {}
  /\ max_queue_depth = 0
  /\ drain = NoDrain /\ report = NoReport
  /\ spawns = 0 /\ resumes = 0 /\ history = NoHistory
----------------------------------------------------------------------------
\* What spawn and resume share: the id becomes ready with its value.
enqueue(id, value) ==
  /\ resumed_values' = With(resumed_values, id, value)
  /\ queue' = Append(queue, id)
  /\ max_queue_depth' = Larger(max_queue_depth, Len(queue'))
  /\ history' = [history EXCEPT !.given = @ + 1]

\* Scheduler::spawn. At MaxId the allocator stops moving and hands out the
\* same id again.
spawn(value) ==
  /\ drain = NoDrain /\ spawns < MaxSpawns
  /\ spawns' = spawns + 1
  /\ next_id' = saturating_succ(next_id)
  /\ spawned_ids' = spawned_ids \cup {next_id}
  /\ enqueue(next_id, value)
  /\ UNCHANGED <<waiting, completed_ids, drain, report, resumes>>

\* Scheduler::park: an id nobody spawned is ignored; any other leaves the ready
\* queue, and its value is dropped.
park(fut_id) ==
  /\ drain = NoDrain
  /\ fut_id \in spawned_ids
  /\ queue' = unqueue(fut_id)
  /\ resumed_values' = Without(resumed_values, fut_id)
  /\ waiting' = parked(fut_id)
  /\ history' = [history EXCEPT
                   !.discarded = IF fut_id \in HasValue THEN @ + 1 ELSE @,
                   !.rewound = IF fut_id \in completed_ids THEN @ \cup {fut_id} ELSE @]
  /\ UNCHANGED <<max_queue_depth, next_id, tallies, drain, report, bounds>>

\* Scheduler::resume: an id that is not parked is ignored.
resume(fut_id, value) ==
  /\ drain = NoDrain /\ resumes < MaxResumes
  /\ fut_id \in Resumable
  /\ resumes' = resumes + 1
  /\ waiting' = waiting \ {fut_id}
  /\ enqueue(fut_id, value)
  /\ UNCHANGED <<next_id, tallies, drain, report, spawns>>

\* Scheduler::step on a non-empty queue: the front id completes with its value
\* or, if it has none, is parked again.
pop_ready ==
  LET id == Head(queue) IN
  /\ queue /= <<>>
  /\ queue' = Tail(queue)
  /\ IF id \in HasValue
       THEN /\ resumed_values' = Without(resumed_values, id)
            /\ completed_ids' = completed_ids \cup {id}
            /\ history' = [history EXCEPT !.delivered = @ + 1]
            /\ UNCHANGED waiting
       ELSE /\ waiting' = waiting \cup {id}
            /\ UNCHANGED <<resumed_values, completed_ids, history>>
  /\ UNCHANGED <<max_queue_depth, next_id, spawned_ids, bounds>>

\* One tick driven by the caller; an empty queue changes nothing.
step ==
  /\ drain = NoDrain
  /\ pop_ready
  /\ UNCHANGED <<drain, report>>
----------------------------------------------------------------------------
\* run_with_mode(Deterministic) enters run_to_completion ...
run_to_completion(max_steps) ==
  /\ drain = NoDrain
  /\ drain' = [max |-> max_steps, steps |-> 0, out |-> <<>>]
  /\ UNCHANGED <<ready, waiting, next_id, tallies, report, bounds, history>>

\* ... which ticks while it is below its cap, keeping the ready values ...
drain_step ==
  /\ drain /= NoDrain /\ drain.steps < drain.max
  /\ pop_ready
  /\ drain' = [drain EXCEPT
                 !.steps = @ + 1,
                 !.out = IF Head(queue) \in HasValue
                           THEN Append(@, resumed_values[Head(queue)]) ELSE @]
  /\ UNCHANGED report

\* What diagnostics_for reports: A0001 overflow, A0002 deadlock, A0003 leak.
leaked_ids == spawned_ids \ (completed_ids \cup waiting \cup Queued)

\* Mutant: the cap itself is not an overflow.
overflowed_mutant(steps_taken, max_steps) == steps_taken > max_steps /\ queue /= <<>>

overflowed(steps_taken, max_steps) == steps_taken >= max_steps /\ queue /= <<>>

diagnostics_for(steps_taken, max_steps) ==
  {code \in {"A0001", "A0002", "A0003"} :
     \/ code = "A0001" /\ overflowed(steps_taken, max_steps)
     \/ code = "A0002" /\ waiting /= {} /\ queue = <<>>
     \/ code = "A0003" /\ leaked_ids /= {}}

\* AsyncReport::from_scheduler, with the diagnostics a caller asks for next.
\* `left` is history: the ready queue the run leaves behind.
from_scheduler(steps_taken, max_steps) ==
  [spawned |-> Cardinality(spawned_ids), completed |-> Cardinality(completed_ids),
   stalled |-> Cardinality(waiting), total_steps |-> steps_taken,
   max_queue_depth |-> max_queue_depth,
   diagnostics |-> diagnostics_for(steps_taken, max_steps),
   left |-> Len(queue)]

\* ... and stops at the cap or on an empty queue. run_with_mode reports the
\* number of values as the number of steps.
drain_ends ==
  /\ drain /= NoDrain
  /\ drain.steps = drain.max \/ queue = <<>>
  /\ report' = from_scheduler(Len(drain.out), drain.max)
  /\ drain' = NoDrain
  /\ UNCHANGED <<ready, waiting, next_id, tallies, bounds, history>>

\* What ParallelScheduler::run may report for n bodies that just return: see
\* PoolContract in module ParallelScheduler.
PoolReports(n, workers, max_steps) ==
  {r \in [spawned : {n}, completed : 0..n, cancelled : 0..n,
          diagnostics : SUBSET {"A0011"}] :
     /\ r.completed + r.cancelled <= n
     /\ r.completed <= workers * max_steps * StepScale
     /\ workers > 0 /\ n <= max_steps * StepScale => r.completed + r.cancelled = n
     /\ r.completed + r.cancelled < n => r.diagnostics = {"A0011"}}

\* run_with_mode(Parallel): every ready id with a value is marked completed and
\* its value moves into a body of a fresh pool, whose report is returned.
run_to_completion_parallel(workers, max_steps) ==
  /\ drain = NoDrain
  /\ queue' = <<>>
  /\ resumed_values' = [id \in HasValue \ Queued |-> resumed_values[id]]
  /\ completed_ids' = completed_ids \cup (Queued \cap HasValue)
  /\ report' \in PoolReports(Cardinality(Queued \cap HasValue), workers, max_steps)
  /\ history' = [history EXCEPT
                   !.discarded = @ + Cardinality(Queued \cap HasValue)]
  /\ UNCHANGED <<waiting, max_queue_depth, next_id, spawned_ids, drain, bounds>>

Next ==
  \/ \E v \in Values : spawn(v)
  \/ \E id \in Ids : park(id)
  \/ \E id \in Ids, v \in Values : resume(id, v)
  \/ step
  \/ \E m \in StepBudgets : run_to_completion(m)
  \/ drain_step
  \/ drain_ends
  \/ \E w \in WorkerCounts, m \in StepBudgets : run_to_completion_parallel(w, m)

Spec == Init /\ [][Next]_vars
----------------------------------------------------------------------------
(***************************************************************************)
(* Properties.                                                             *)
(***************************************************************************)

\* The state has the shape of Scheduler and of run_to_completion.
TypeOK ==
  /\ queue \in Seq(Ids) /\ waiting \subseteq Ids
  /\ HasValue \subseteq Ids /\ \A id \in HasValue : resumed_values[id] \in Values
  /\ next_id \in Ids /\ spawned_ids \subseteq Ids /\ completed_ids \subseteq Ids
  /\ max_queue_depth \in 0..(MaxSpawns + MaxResumes)
  /\ drain.max \in StepBudgets \cup {-1} /\ drain.out \in Seq(Values)

\* A future is ready, parked or completed, whatever the calls were, the
\* saturated allocator and the hand-over to the pool included: leaked_ids is
\* empty and A0003 never fires.
NothingLeaks == leaked_ids = {}

\* While ids are fresh, an id is queued at most once, exactly the queued ids
\* have a value, and none of them is parked: step never meets its defensive
\* branch, however park, resume and runs were mixed.
ReadyIdsHaveValues ==
  ~saturated => /\ IsInjective(queue)
                /\ Queued = HasValue
                /\ Queued \cap waiting = {}

\* Each value given to spawn or resume surfaces at most once: it is delivered,
\* or thrown away by park or the pool, or still waiting for its step.
ValuesSurfaceOnce ==
  ~saturated => history.given = history.delivered + history.discarded
                                  + Cardinality(HasValue)

\* Ready, parked and completed futures add up to the spawned ones, except that
\* an id parked again after it completed counts twice: only then may a report
\* show more completed and stalled futures than were spawned.
TalliesAddUp ==
  ~saturated => completed_ids \cap (waiting \cup Queued) \subseteq history.rewound

\* However the calls were mixed, every future and every value is accounted for:
\* nothing leaks, the queue and the values agree, a value surfaces once, and the
\* tallies of a report add up but for the ids that were parked after they completed.
FuturesAreAccounted ==
  TypeOK /\ NothingLeaks /\ ReadyIdsHaveValues /\ ValuesSurfaceOnce /\ TalliesAddUp

\* A deterministic run that leaves ready futures behind says so with A0001,
\* one that leaves only parked ones with A0002.
CutShortIsReported ==
  (report /= NoReport /\ "left" \in DOMAIN report /\ ~saturated)
    => /\ report.left > 0 => "A0001" \in report.diagnostics
       /\ report.left = 0 /\ report.stalled > 0 => "A0002" \in report.diagnostics
============================================================================
