------------------------- MODULE ParallelScheduler -------------------------
(***************************************************************************)
(* The M:N worker pool of crates/ori-compiler/src/async_runtime.rs.        *)
(*                                                                         *)
(* One caller owns the pool: it submits task bodies, may flip the shutdown *)
(* flag, and runs the pool, which starts OS threads that share a FIFO      *)
(* behind one mutex and a condition variable, then joins them and reports. *)
(* Every critical section of the code is one action here; what the code    *)
(* does between two critical sections (a notify after the unlock, the body *)
(* itself, the check of the deadline before a join) is an action of its    *)
(* own, so that any other thread may run in between.                       *)
(*                                                                         *)
(* A body is abstracted to how it ends: it returns, it panics, or it       *)
(* panics with a payload whose destructor panics too; the worker drops the *)
(* payload while it holds the mutex, which poisons it.                     *)
(***************************************************************************)
EXTENDS Integers, Sequences, FiniteSets

CONSTANTS
  MAX_WORKERS,   \* 256 in the code: the largest number of threads of one run
  StepScale,     \* 1024 in the code: pops a worker may do per step of budget
  Bodies,        \* the ways a submitted body may end
  StepBudgets,   \* the values of max_steps_per_task callers pass
  MaxTasks,      \* bound on submissions
  MaxRuns        \* bound on calls of run

ASSUME PoolAssumption ==
  /\ MAX_WORKERS \in Nat \ {0}
  /\ StepScale \in Nat \ {0}
  /\ Bodies \subseteq {"returns", "panics", "payload_drop_panics"}
  /\ StepBudgets \subseteq Nat
  /\ MaxTasks \in Nat
  /\ MaxRuns \in Nat

VARIABLES
  queue,         \* the tasks not yet popped, front first
  shutdown,      \* the flag that lets idle workers leave
  accepted, completed, panicked, cancelled, total_steps,   \* the tallies
  diagnostics,   \* the diagnostic ids recorded so far
  poisoned,      \* a thread panicked while it held the mutex
  next_id,       \* the id allocator of the pool
  pc,            \* what each worker thread is doing
  task,          \* the task a worker popped last
  local_steps,   \* the pops a worker did in this run
  main,          \* what the caller is doing inside run
  workers,       \* the number of threads of this run
  budget,        \* max_steps_per_task of this run
  joined,        \* the number of handles joined so far
  expired,       \* the grace period is over
  timed_out,     \* run recorded A0012
  overdue,       \* history: the workers still alive when the grace ended
  report,        \* the report of the latest run
  runs           \* the number of runs started

state == <<queue, shutdown, accepted, completed, panicked, cancelled,
           total_steps, diagnostics, poisoned>>
threads == <<pc, task, local_steps>>
caller == <<main, workers, budget, joined, expired, timed_out, overdue,
            report, runs>>
vars == <<state, next_id, threads, caller>>

Worker == 1..MAX_WORKERS
NoTask == [id |-> -1, body |-> "none"]
NoReport == [worker_count |-> -1]
Task == [id : 0..MaxTasks, body : Bodies]

\* The places of worker_loop where the mutex is about to be taken, the wait
\* on the condition variable, the running body, and the ways out.
WorkerPcs == {"none", "lock", "waiting", "body", "starved", "requeue",
              "notify_one", "drain", "exited", "died"}
Live == WorkerPcs \ {"none", "exited", "died"}
\* A worker in one of these places owns the task it popped.
Holding == {"body", "starved", "requeue"}
Holders == {w \in Worker : pc[w] \in Holding}

Codes == {"A0010", "A0011", "A0012", "A0013"}
----------------------------------------------------------------------------
\* What locking a poisoned mutex with into_inner leaves in diagnostics.
PoisonNote == IF poisoned THEN {"A0010"} ELSE {}

\* insert_diag: a poisoned mutex makes it do nothing.
insert_diag(code) ==
  diagnostics' = IF poisoned THEN diagnostics ELSE diagnostics \cup {code}

\* Mutant: one pop too many.
StepCap_mutant == budget * StepScale + 1

\* The number of pops after which a worker gives up.
StepCap == budget * StepScale

\* The policy cap on threads.
effective_workers(requested) ==
  IF requested > MAX_WORKERS THEN MAX_WORKERS ELSE requested

\* Mutant: the task is lost.
push_front_mutant(t) == queue

push_front(t) == <<t>> \o queue

\* Mutant: notify_one where notify_all is needed.
Awake_mutant ==
  IF \E w \in Worker : pc[w] = "waiting"
    THEN [pc EXCEPT ![CHOOSE w \in Worker : pc[w] = "waiting"] = "lock"]
    ELSE pc

\* What notify_all makes of the workers.
Awake == [w \in Worker |-> IF pc[w] = "waiting" THEN "lock" ELSE pc[w]]

NothingToPop == queue = <<>>

\* Mutant: tasks count as executed once they have an id.
Executed_mutant == next_id

\* The tasks finalise_report takes for executed.
Executed == completed + panicked + cancelled

Goto(w, place) == pc' = [pc EXCEPT ![w] = place]

\* lock_snapshot and finalise_report. `stranded` is history: the length of the
\* queue the snapshot leaves behind, which the code does not report.
finalise_report(count) ==
  LET seen == diagnostics \cup PoisonNote
  IN  [worker_count |-> count, total_tasks |-> accepted,
       completed |-> completed, panicked |-> panicked,
       cancelled |-> cancelled, total_steps |-> total_steps,
       diagnostics |-> seen \cup (IF Executed < accepted THEN {"A0011"} ELSE {}),
       stranded |-> Len(queue)]

Init ==
  /\ queue = <<>> /\ shutdown = FALSE
  /\ accepted = 0 /\ completed = 0 /\ panicked = 0 /\ cancelled = 0
  /\ total_steps = 0 /\ diagnostics = {} /\ poisoned = FALSE
  /\ next_id = 0
  /\ pc = [w \in Worker |-> "none"]
  /\ task = [w \in Worker |-> NoTask]
  /\ local_steps = [w \in Worker |-> 0]
  /\ main = "idle" /\ workers = 0 /\ budget = 0 /\ joined = 0
  /\ expired = FALSE /\ timed_out = FALSE /\ overdue = {}
  /\ report = NoReport /\ runs = 0
----------------------------------------------------------------------------
(***************************************************************************)
(* The caller.                                                             *)
(***************************************************************************)

\* submit: after shutdown the body is dropped and counted as cancelled. No
\* worker lives outside run, so its notify_one finds nobody to wake.
submit(body) ==
  /\ main = "idle" /\ next_id < MaxTasks
  /\ next_id' = next_id + 1
  /\ accepted' = accepted + 1
  /\ diagnostics' = diagnostics \cup PoisonNote
  /\ IF shutdown
       THEN /\ cancelled' = cancelled + 1
            /\ UNCHANGED queue
       ELSE /\ queue' = Append(queue, [id |-> next_id, body |-> body])
            /\ UNCHANGED cancelled
  /\ UNCHANGED <<shutdown, completed, panicked, total_steps, poisoned,
                 threads, caller>>

\* The public request_shutdown, outside run: nobody waits, so the notify_all
\* that follows the store wakes nobody.
request_shutdown ==
  /\ main = "idle"
  /\ shutdown' = (shutdown \/ ~poisoned)
  /\ UNCHANGED <<queue, accepted, completed, panicked, cancelled, total_steps,
                 diagnostics, poisoned, next_id, threads, caller>>

\* run with no worker: a report of what the pool looks like now.
run_without_workers ==
  /\ main = "idle" /\ runs < MaxRuns
  /\ runs' = runs + 1
  /\ report' = finalise_report(0)
  /\ diagnostics' = diagnostics \cup PoisonNote
  /\ UNCHANGED <<queue, shutdown, accepted, completed, panicked, cancelled,
                 total_steps, poisoned, next_id, threads, main, workers,
                 budget, joined, expired, timed_out, overdue>>

\* run, up to the spawn of its threads. More threads than the policy cap are
\* refused with A0013.
run(requested, max_steps_per_task) ==
  /\ main = "idle" /\ runs < MaxRuns
  /\ requested > 0
  /\ runs' = runs + 1
  /\ workers' = effective_workers(requested)
  /\ budget' = max_steps_per_task
  /\ IF requested > MAX_WORKERS
       THEN insert_diag("A0013")
       ELSE UNCHANGED diagnostics
  /\ pc' = [w \in Worker |-> IF w <= workers' THEN "lock" ELSE "none"]
  /\ task' = [w \in Worker |-> NoTask]
  /\ local_steps' = [w \in Worker |-> 0]
  /\ main' = "shutdown"
  /\ joined' = 0 /\ expired' = FALSE /\ timed_out' = FALSE /\ overdue' = {}
  /\ UNCHANGED <<queue, shutdown, accepted, completed, panicked, cancelled,
                 total_steps, poisoned, next_id, report>>

\* request_shutdown inside run, the store: a poisoned mutex is left alone.
set_shutdown ==
  /\ main = "shutdown"
  /\ shutdown' = (shutdown \/ ~poisoned)
  /\ main' = "notify_all"
  /\ UNCHANGED <<queue, accepted, completed, panicked, cancelled, total_steps,
                 diagnostics, poisoned, next_id, threads, workers, budget,
                 joined, expired, timed_out, overdue, report, runs>>

\* request_shutdown inside run, the notify_all after the unlock.
notify_all ==
  /\ main = "notify_all"
  /\ pc' = Awake
  /\ main' = "deadline"
  /\ UNCHANGED <<state, next_id, task, local_steps, workers, budget, joined,
                 expired, timed_out, overdue, report, runs>>

\* The clock passes Instant::now() + grace.
DeadlinePasses ==
  /\ main \in {"deadline", "join"} /\ ~expired
  /\ expired' = TRUE
  /\ overdue' = {w \in Worker : pc[w] \in Live}
  /\ UNCHANGED <<state, next_id, threads, main, workers, budget, joined,
                 timed_out, report, runs>>

\* The test of the remaining time, once before each join.
check_deadline ==
  /\ main = "deadline"
  /\ IF expired /\ ~timed_out
       THEN insert_diag("A0012") /\ timed_out' = TRUE
       ELSE UNCHANGED <<diagnostics, timed_out>>
  /\ main' = "join"
  /\ UNCHANGED <<queue, shutdown, accepted, completed, panicked, cancelled,
                 total_steps, poisoned, next_id, threads, workers, budget,
                 joined, expired, overdue, report, runs>>

\* join of the next handle, in spawn order; a thread that died reports A0010.
join ==
  /\ main = "join"
  /\ pc[joined + 1] \in {"exited", "died"}
  /\ IF pc[joined + 1] = "died"
       THEN insert_diag("A0010")
       ELSE UNCHANGED diagnostics
  /\ joined' = joined + 1
  /\ main' = IF joined + 1 = workers THEN "report" ELSE "deadline"
  /\ UNCHANGED <<queue, shutdown, accepted, completed, panicked, cancelled,
                 total_steps, poisoned, next_id, threads, workers, budget,
                 expired, timed_out, overdue, report, runs>>

\* The last lines of run, once every handle is joined.
make_report ==
  /\ main = "report"
  /\ report' = finalise_report(workers)
  /\ diagnostics' = diagnostics \cup PoisonNote
  /\ main' = "idle"
  /\ UNCHANGED <<queue, shutdown, accepted, completed, panicked, cancelled,
                 total_steps, poisoned, next_id, threads, workers, budget,
                 joined, expired, timed_out, overdue, runs>>
----------------------------------------------------------------------------
(***************************************************************************)
(* worker_loop.                                                            *)
(***************************************************************************)

\* A worker under the mutex takes the front task. The count of its pops is
\* its own; past the cap it will give the task back instead of running it.
pop_front(w) ==
  /\ pc[w] = "lock" /\ queue /= <<>>
  /\ queue' = Tail(queue)
  /\ task' = [task EXCEPT ![w] = Head(queue)]
  /\ local_steps' = [local_steps EXCEPT ![w] = @ + 1]
  /\ Goto(w, IF local_steps[w] + 1 > StepCap THEN "starved" ELSE "body")
  /\ diagnostics' = diagnostics \cup PoisonNote
  /\ UNCHANGED <<shutdown, accepted, completed, panicked, cancelled,
                 total_steps, poisoned, next_id, caller>>

\* A worker under the mutex finds no task and leaves, or sleeps until notified.
see_empty(w) ==
  /\ pc[w] = "lock" /\ NothingToPop
  /\ Goto(w, IF shutdown THEN "drain" ELSE "waiting")
  /\ diagnostics' = diagnostics \cup PoisonNote
  /\ UNCHANGED <<queue, shutdown, accepted, completed, panicked, cancelled,
                 total_steps, poisoned, next_id, task, local_steps, caller>>

\* std's Condvar may wake a waiter that nobody notified.
spurious_wakeup(w) ==
  /\ pc[w] = "waiting"
  /\ Goto(w, "lock")
  /\ UNCHANGED <<state, next_id, task, local_steps, caller>>

\* The body ran under catch_unwind; its outcome is recorded under the mutex.
\* A payload whose destructor panics is dropped here, with the mutex held.
record_outcome(w) ==
  /\ pc[w] = "body"
  /\ total_steps' = total_steps + 1
  /\ IF task[w].body = "returns"
       THEN /\ completed' = completed + 1
            /\ diagnostics' = diagnostics \cup PoisonNote
            /\ UNCHANGED panicked
       ELSE /\ panicked' = panicked + 1
            /\ diagnostics' = diagnostics \cup {"A0010"}
            /\ UNCHANGED completed
  /\ IF task[w].body = "payload_drop_panics"
       THEN poisoned' = TRUE /\ Goto(w, "died")
       ELSE UNCHANGED poisoned /\ Goto(w, "lock")
  /\ UNCHANGED <<queue, shutdown, accepted, cancelled, next_id, task,
                 local_steps, caller>>

\* A worker past its cap records A0011 ...
report_starvation(w) ==
  /\ pc[w] = "starved"
  /\ insert_diag("A0011")
  /\ Goto(w, "requeue")
  /\ UNCHANGED <<queue, shutdown, accepted, completed, panicked, cancelled,
                 total_steps, poisoned, next_id, task, local_steps, caller>>

\* ... puts its task back at the front of the queue ...
requeue(w) ==
  /\ pc[w] = "requeue"
  /\ queue' = push_front(task[w])
  /\ diagnostics' = diagnostics \cup PoisonNote
  /\ Goto(w, "notify_one")
  /\ UNCHANGED <<shutdown, accepted, completed, panicked, cancelled,
                 total_steps, poisoned, next_id, task, local_steps, caller>>

\* ... and wakes one waiter, if there is one, on its way out.
notify_one(w) ==
  /\ pc[w] = "notify_one"
  /\ IF \E v \in Worker : pc[v] = "waiting"
       THEN \E v \in Worker : /\ pc[v] = "waiting"
                              /\ pc' = [pc EXCEPT ![w] = "exited", ![v] = "lock"]
       ELSE Goto(w, "exited")
  /\ UNCHANGED <<state, next_id, task, local_steps, caller>>

\* drain_cancelled: what was put back since this worker saw the empty queue is
\* dropped unrun and counted; a poisoned mutex is left alone.
drain_cancelled(w) ==
  /\ pc[w] = "drain"
  /\ IF poisoned
       THEN UNCHANGED <<queue, cancelled>>
       ELSE queue' = <<>> /\ cancelled' = cancelled + Len(queue)
  /\ Goto(w, "exited")
  /\ UNCHANGED <<shutdown, accepted, completed, panicked, total_steps,
                 diagnostics, poisoned, next_id, task, local_steps, caller>>
----------------------------------------------------------------------------
worker_loop(w) ==
  \/ pop_front(w)
  \/ see_empty(w)
  \/ record_outcome(w)
  \/ report_starvation(w)
  \/ requeue(w)
  \/ notify_one(w)
  \/ drain_cancelled(w)

\* The steps of run after its call: they always go on by themselves.
running ==
  \/ set_shutdown
  \/ notify_all
  \/ check_deadline
  \/ join
  \/ make_report

Next ==
  \/ \E body \in Bodies : submit(body)
  \/ request_shutdown
  \/ run_without_workers
  \/ \E n \in 1..(MAX_WORKERS + 1), b \in StepBudgets : run(n, b)
  \/ running
  \/ DeadlinePasses
  \/ \E w \in Worker : worker_loop(w) \/ spurious_wakeup(w)

Spec == Init /\ [][Next]_vars

\* The OS runs every runnable thread, a mutex is handed on, and bodies end:
\* nothing else is needed, neither the deadline nor spurious wake-ups.
Fairness ==
  /\ WF_vars(running)
  /\ \A w \in Worker : WF_vars(worker_loop(w))

FairSpec == Spec /\ Fairness
----------------------------------------------------------------------------
(***************************************************************************)
(* Properties.                                                             *)
(***************************************************************************)

\* The state has the shape of ParallelState, of the threads and of run.
TypeOK ==
  /\ queue \in Seq(Task)
  /\ shutdown \in BOOLEAN /\ poisoned \in BOOLEAN
  /\ accepted \in Nat /\ completed \in Nat /\ panicked \in Nat
  /\ cancelled \in Nat /\ total_steps \in Nat
  /\ diagnostics \subseteq Codes
  /\ next_id \in 0..MaxTasks
  /\ pc \in [Worker -> WorkerPcs]
  /\ task \in [Worker -> Task \cup {NoTask}]
  /\ local_steps \in [Worker -> Nat]
  /\ main \in {"idle", "shutdown", "notify_all", "deadline", "join", "report"}
  /\ workers \in 0..MAX_WORKERS /\ budget \in Nat /\ joined \in 0..MAX_WORKERS
  /\ expired \in BOOLEAN /\ timed_out \in BOOLEAN /\ overdue \subseteq Worker
  /\ runs \in 0..MaxRuns

\* Every accepted task is in exactly one place: on the queue, in the hands of
\* a worker that popped it, or in one of the three tallies; and every tick is
\* one outcome. The tallies of submit, worker_loop, requeue and
\* drain_cancelled are written at different times by different threads.
Accounting ==
  /\ accepted = Len(queue) + Cardinality(Holders)
                  + completed + panicked + cancelled
  /\ total_steps = completed + panicked

\* No lost wake-up: once request_shutdown has stored the flag and notified, no
\* worker sleeps on the condition variable, so every join returns.
NoSleeperAfterShutdown ==
  shutdown /\ main \notin {"shutdown", "notify_all"}
    => \A w \in Worker : pc[w] /= "waiting"

\* drain_cancelled only ever drops a task that a starved worker put back, and
\* A0011 is on record by then: shutdown by itself cancels nothing that was
\* queued before it.
DrainsOnlyStarved ==
  queue /= <<>> /\ ~poisoned /\ (\E w \in Worker : pc[w] = "drain")
    => "A0011" \in diagnostics

\* A report that is silent about starvation left no task behind on the queue,
\* and its three tallies add up to the tasks it accepted.
SilentReportIsComplete ==
  report /= NoReport /\ "A0011" \notin report.diagnostics
    => /\ report.stranded = 0
       /\ report.total_tasks
            = report.completed + report.panicked + report.cancelled

\* What a pool that ran once reports about bodies that return: no worker runs
\* more than its budget, a budget that suffices for one worker suffices for
\* all, and what is missing from the tallies is announced.
PoolContract ==
  runs = 1 /\ report /= NoReport /\ report.panicked = 0
    => /\ report.completed <= report.worker_count * budget * StepScale
       /\ report.worker_count > 0 /\ report.total_tasks <= budget * StepScale
            => report.completed + report.cancelled = report.total_tasks
       /\ report.completed + report.cancelled < report.total_tasks
            => "A0011" \in report.diagnostics

\* The tasks that have neither run nor been dropped.
Outstanding == {queue[i].id : i \in DOMAIN queue} \cup {task[w].id : w \in Holders}

TP == INSTANCE TaskPool WITH pending <- Outstanding, next <- next_id,
                             done <- completed + panicked, dropped <- cancelled

\* The pool implements TaskPool: whatever the threads do, a task that a starved
\* worker gave back is neither run twice nor dropped without being counted.
ImplementsTaskPool == TP!Spec

\* A run returns: its workers all leave and are joined, whatever the deadline
\* does. A body whose panic payload panics again when dropped is the exception:
\* it poisons the mutex, request_shutdown then skips the store of the flag
\* (`if let Ok`), and an idle worker waits for a notification that never comes.
RunReturns == main /= "idle" ~> main = "idle" \/ poisoned

\* The grace period of run: "exceeding it surfaces A0012".
GraceExceededIsReported ==
  main = "idle" /\ overdue /= {} => "A0012" \in report.diagnostics
============================================================================
