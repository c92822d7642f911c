---------------------- MODULE ParallelSchedulerProofs ----------------------
(***************************************************************************)
(* Theorems about the worker pool, for every policy cap, step budget,      *)
(* number of tasks and number of runs.                                     *)
(*                                                                         *)
(* The inductive invariant adds to the properties what the code relies     *)
(* on without saying so: where run is in its sequence of joins, that the   *)
(* threads it has joined are gone and the ones it did not spawn never      *)
(* were, and that a worker about to give a task back has announced it.     *)
(***************************************************************************)
EXTENDS ParallelScheduler, FiniteSetTheorems, SequenceTheorems, TLAPS

Ended == {"exited", "died"}

\* A worker that owns a task has a real one.
HeldTasks == \A w \in Worker : pc[w] \in Holding => task[w] \in Task

\* run: nothing is joined before the flag is set, and every join has a handle.
JoinsInOrder ==
  /\ main \in {"shutdown", "notify_all"} => joined = 0 /\ workers > 0
  /\ main \in {"deadline", "join"} => joined < workers
  /\ main = "report" => joined = workers

\* The joined threads have ended, the others of the pool were never spawned,
\* and no thread outlives run.
JoinedAreGone ==
  /\ main = "idle" => \A w \in Worker : pc[w] \in Ended \cup {"none"}
  /\ main /= "idle" => \A w \in Worker :
       /\ w <= joined => pc[w] \in Ended
       /\ w > workers => pc[w] = "none"

\* A worker about to give its task back has recorded A0011, unless the mutex
\* was poisoned.
StarvationIsAnnounced ==
  \A w \in Worker : pc[w] = "requeue" /\ ~poisoned => "A0011" \in diagnostics

TInv == TypeOK /\ HeldTasks /\ JoinsInOrder
----------------------------------------------------------------------------
(***************************************************************************)
(* The shape of the state.                                                 *)
(***************************************************************************)

\* Threads start only in run, so the initial pool is well formed.
LEMMA TInvInit == Init => TInv
<1> SUFFICES ASSUME Init PROVE TInv
  OBVIOUS
<1> USE PoolAssumption DEF Init
<1>1. queue \in Seq(Task)
  OBVIOUS
<1>2. /\ pc \in [Worker -> WorkerPcs]
      /\ task \in [Worker -> Task \cup {NoTask}]
      /\ local_steps \in [Worker -> Nat]
  BY DEF WorkerPcs
<1>3. HeldTasks /\ JoinsInOrder
  BY DEF HeldTasks, JoinsInOrder, Holding
<1>4. /\ shutdown \in BOOLEAN /\ poisoned \in BOOLEAN
      /\ expired \in BOOLEAN /\ timed_out \in BOOLEAN
  OBVIOUS
<1>5. /\ accepted \in Nat /\ completed \in Nat /\ panicked \in Nat
      /\ cancelled \in Nat /\ total_steps \in Nat /\ budget \in Nat
      /\ next_id \in 0..MaxTasks /\ runs \in 0..MaxRuns
      /\ workers \in 0..MAX_WORKERS /\ joined \in 0..MAX_WORKERS
  OBVIOUS
<1>6. diagnostics \subseteq Codes /\ overdue \subseteq Worker /\ main = "idle"
  OBVIOUS
<1> HIDE DEF Init
<1> QED BY <1>1, <1>2, <1>3, <1>4, <1>5, <1>6 DEF TInv, TypeOK

\* Each action of the caller and of the workers keeps the state well formed.
LEMMA TInvStep == TInv /\ [Next]_vars => TInv'
<1> SUFFICES ASSUME TInv, [Next]_vars PROVE TInv'
  OBVIOUS
<1> USE PoolAssumption DEF TInv
<1> USE DEF TypeOK, JoinsInOrder
<1>1. ASSUME NEW body \in Bodies, submit(body) PROVE TInv'
  <2>1. [id |-> next_id, body |-> body] \in Task
    BY <1>1 DEF submit, Task
  <2>2. queue' \in Seq(Task)
    <3>1. Append(queue, [id |-> next_id, body |-> body]) \in Seq(Task)
      BY <2>1, AppendProperties
    <3>2. CASE shutdown
      BY <1>1, <3>2 DEF submit
    <3>3. CASE ~shutdown
      BY <1>1, <3>1, <3>3 DEF submit
    <3> QED BY <3>2, <3>3
  <2>3. HeldTasks'
    BY <1>1 DEF submit, HeldTasks, threads
  <2> QED BY <1>1, <2>2, <2>3 DEF submit, PoisonNote, Codes, threads, caller
<1>2. CASE request_shutdown
  BY <1>2 DEF request_shutdown, threads, caller, HeldTasks
<1>3. CASE run_without_workers
  BY <1>3 DEF run_without_workers, threads, PoisonNote, Codes, HeldTasks
<1>4. ASSUME NEW n \in 1..(MAX_WORKERS + 1), NEW b \in StepBudgets, run(n, b)
      PROVE TInv'
  <2>1. workers' \in 1..MAX_WORKERS
    BY <1>4 DEF run, effective_workers
  <2>2. pc' \in [Worker -> {"lock", "none"}]
    BY <1>4, <2>1 DEF run, Worker
  <2>3. HeldTasks'
    BY <2>2 DEF HeldTasks, Holding
  <2>4. task' \in [Worker -> Task \cup {NoTask}] /\ local_steps' \in [Worker -> Nat]
    BY <1>4 DEF run
  <2>5. diagnostics' \subseteq Codes
    BY <1>4 DEF run, insert_diag, Codes
  <2>6. pc' \in [Worker -> WorkerPcs]
    BY <2>2 DEF WorkerPcs
  <2>7. /\ budget' \in Nat /\ runs' \in 0..MaxRuns /\ joined' \in 0..MAX_WORKERS
        /\ overdue' \subseteq Worker /\ workers' \in 0..MAX_WORKERS
    BY <1>4, <2>1 DEF run
  <2>9. expired' \in BOOLEAN /\ timed_out' \in BOOLEAN
    BY <1>4 DEF run
  <2>10. /\ main' = "shutdown"
         /\ UNCHANGED <<queue, shutdown, accepted, completed, panicked,
                        cancelled, total_steps, poisoned, next_id>>
    BY <1>4 DEF run
  <2>8. JoinsInOrder'
    BY <1>4, <2>1 DEF run
  <2> QED BY <2>3, <2>4, <2>5, <2>6, <2>7, <2>8, <2>9,
             <2>10
<1>5. CASE set_shutdown
  BY <1>5 DEF set_shutdown, threads, HeldTasks
<1>6. CASE notify_all
  BY <1>6 DEF notify_all, Awake, state, HeldTasks, WorkerPcs, Holding
<1>7. CASE check_deadline
  BY <1>7 DEF check_deadline, insert_diag, threads, Codes, HeldTasks
<1>8. CASE join
  <2>1. joined' \in 0..MAX_WORKERS
    BY <1>8 DEF join
  <2>2. JoinsInOrder' /\ HeldTasks'
    BY <1>8 DEF join, threads, HeldTasks
  <2>3. diagnostics' \subseteq Codes
    BY <1>8 DEF join, insert_diag, Codes
  <2> QED BY <1>8, <2>1, <2>2, <2>3 DEF join, threads
<1>9. CASE make_report
  BY <1>9 DEF make_report, threads, PoisonNote, Codes, HeldTasks
<1>10. CASE DeadlinePasses
  BY <1>10 DEF DeadlinePasses, state, threads, HeldTasks, Worker
<1>11. ASSUME NEW w \in Worker, pop_front(w) PROVE TInv'
  <2>1. Head(queue) \in Task /\ queue' \in Seq(Task)
    BY <1>11, HeadTailProperties DEF pop_front
  <2>2. task' = [task EXCEPT ![w] = Head(queue)]
    BY <1>11 DEF pop_front
  <2>3. pc' \in [Worker -> WorkerPcs]
    BY <1>11 DEF pop_front, Goto, WorkerPcs
  <2>4. local_steps' \in [Worker -> Nat]
    BY <1>11 DEF pop_front
  <2>5. HeldTasks'
    BY <1>11, <2>1, <2>2 DEF pop_front, Goto, HeldTasks
  <2>6. task' \in [Worker -> Task \cup {NoTask}]
    BY <2>1, <2>2
  <2> QED BY <1>11, <2>1, <2>3, <2>4, <2>5, <2>6
             DEF pop_front, PoisonNote, Codes, caller
<1>12. ASSUME NEW w \in Worker, see_empty(w) PROVE TInv'
  BY <1>12 DEF see_empty, Goto, WorkerPcs, Holding, HeldTasks, PoisonNote,
               Codes, caller
<1>13. ASSUME NEW w \in Worker, record_outcome(w) PROVE TInv'
  <2>1. pc' \in [Worker -> WorkerPcs] /\ HeldTasks'
    BY <1>13 DEF record_outcome, Goto, WorkerPcs, Holding, HeldTasks
  <2>2. diagnostics' \subseteq Codes
    BY <1>13 DEF record_outcome, PoisonNote, Codes
  <2>3. completed' \in Nat /\ panicked' \in Nat /\ total_steps' \in Nat
    BY <1>13 DEF record_outcome
  <2>4. poisoned' \in BOOLEAN
    BY <1>13 DEF record_outcome
  <2> QED BY <1>13, <2>1, <2>2, <2>3, <2>4 DEF record_outcome, caller
<1>14. ASSUME NEW w \in Worker, report_starvation(w) PROVE TInv'
  BY <1>14 DEF report_starvation, Goto, WorkerPcs, Holding, HeldTasks,
               insert_diag, Codes, caller
<1>15. ASSUME NEW w \in Worker, requeue(w) PROVE TInv'
  <2>1. task[w] \in Task
    BY <1>15 DEF requeue, HeldTasks, Holding
  <2>2. <<task[w]>> \in Seq(Task)
    BY <2>1
  <2>3. queue' \in Seq(Task)
    BY <1>15, <2>2, ConcatProperties DEF requeue, push_front
  <2>4. pc' \in [Worker -> WorkerPcs] /\ HeldTasks'
    BY <1>15 DEF requeue, Goto, WorkerPcs, Holding, HeldTasks
  <2> QED BY <1>15, <2>3, <2>4 DEF requeue, PoisonNote, Codes, caller
<1>16. ASSUME NEW w \in Worker, notify_one(w) PROVE TInv'
  <2>1. pc' \in [Worker -> WorkerPcs] /\ HeldTasks'
    BY <1>16 DEF notify_one, Goto, WorkerPcs, Holding, HeldTasks
  <2> QED BY <1>16, <2>1 DEF notify_one, state, caller
<1>17. ASSUME NEW w \in Worker, drain_cancelled(w) PROVE TInv'
  <2>1. queue' \in Seq(Task) /\ cancelled' \in Nat
    <3>1. <<>> \in Seq(Task) /\ Len(queue) \in Nat
      BY LenProperties
    <3>2. CASE poisoned
      BY <1>17, <3>2 DEF drain_cancelled
    <3>3. CASE ~poisoned
      BY <1>17, <3>1, <3>3 DEF drain_cancelled
    <3> QED BY <3>2, <3>3
  <2> QED BY <1>17, <2>1 DEF drain_cancelled, Goto, WorkerPcs, Holding,
                             HeldTasks, caller
<1>18. ASSUME NEW w \in Worker, spurious_wakeup(w) PROVE TInv'
  BY <1>18 DEF spurious_wakeup, Goto, WorkerPcs, Holding, HeldTasks, state, caller
<1>19. CASE UNCHANGED vars
  BY <1>19 DEF vars, state, threads, caller, HeldTasks
<1> QED
  BY <1>1, <1>2, <1>3, <1>4, <1>5, <1>6, <1>7, <1>8, <1>9, <1>10, <1>11, <1>12,
     <1>13, <1>14, <1>15, <1>16, <1>17, <1>18, <1>19
  DEF Next, running, worker_loop

\* The state always has the shape TypeOK gives it: run never has more threads
\* than the policy cap, and never joins more handles than it has.
THEOREM TypeCorrect == Spec => []TypeOK
<1>1. TInv => TypeOK
  BY DEF TInv
<1> QED BY <1>1, TInvInit, TInvStep, PTL DEF Spec
----------------------------------------------------------------------------
(***************************************************************************)
(* Threads and joins.                                                      *)
(***************************************************************************)

\* run spawns into an empty pool and joins its handles in spawn order, and a
\* thread that has ended takes no further step.
LEMMA JoinedAreGoneStep ==
  TInv /\ JoinedAreGone /\ [Next]_vars => JoinedAreGone'
<1> SUFFICES ASSUME TInv, JoinedAreGone, [Next]_vars PROVE JoinedAreGone'
  OBVIOUS
<1> USE PoolAssumption DEF TInv, TypeOK, JoinsInOrder, JoinedAreGone, Ended
<1>1. ASSUME NEW body \in Bodies, submit(body) PROVE JoinedAreGone'
  BY <1>1 DEF submit, Goto, state, threads, caller
<1>2. CASE request_shutdown
  BY <1>2 DEF request_shutdown, Goto, state, threads, caller
<1>3. CASE run_without_workers
  BY <1>3 DEF run_without_workers, Goto, state, threads, caller
<1>4. ASSUME NEW n \in 1..(MAX_WORKERS + 1), NEW b \in StepBudgets, run(n, b)
      PROVE JoinedAreGone'
  <2>1. workers' \in 1..MAX_WORKERS
    BY <1>4 DEF run, effective_workers
  <2>2. \A w \in Worker : w > workers' => pc'[w] = "none"
    BY <1>4, <2>1 DEF run, Worker
  <2>3. \A w \in Worker : ~(w <= joined')
    BY <1>4 DEF run, Worker
  <2> QED BY <1>4, <2>2, <2>3 DEF run
<1>5. CASE set_shutdown
  BY <1>5 DEF set_shutdown, Goto, state, threads, caller
<1>6. CASE notify_all
  BY <1>6 DEF notify_all, Awake, Worker, state
<1>7. CASE check_deadline
  BY <1>7 DEF check_deadline, Goto, state, threads, caller
<1>8. CASE join
  BY <1>8 DEF join, Worker, threads
<1>9. CASE make_report
  BY <1>9 DEF make_report, Worker, threads
<1>10. CASE DeadlinePasses
  BY <1>10 DEF DeadlinePasses, Goto, state, threads, caller
<1>11. ASSUME NEW w \in Worker, pop_front(w) PROVE JoinedAreGone'
  BY <1>11 DEF pop_front, Goto, state, threads, caller
<1>12. ASSUME NEW w \in Worker, see_empty(w) PROVE JoinedAreGone'
  BY <1>12 DEF see_empty, Goto, state, threads, caller
<1>13. ASSUME NEW w \in Worker, record_outcome(w) PROVE JoinedAreGone'
  BY <1>13 DEF record_outcome, Goto, state, threads, caller
<1>14. ASSUME NEW w \in Worker, report_starvation(w) PROVE JoinedAreGone'
  BY <1>14 DEF report_starvation, Goto, state, threads, caller
<1>15. ASSUME NEW w \in Worker, requeue(w) PROVE JoinedAreGone'
  BY <1>15 DEF requeue, Goto, state, threads, caller
<1>16. ASSUME NEW w \in Worker, notify_one(w) PROVE JoinedAreGone'
  BY <1>16 DEF notify_one, Goto, state, threads, caller
<1>17. ASSUME NEW w \in Worker, drain_cancelled(w) PROVE JoinedAreGone'
  BY <1>17 DEF drain_cancelled, Goto, state, threads, caller
<1>18. ASSUME NEW w \in Worker, spurious_wakeup(w) PROVE JoinedAreGone'
  BY <1>18 DEF spurious_wakeup, Goto, state, threads, caller
<1>19. CASE UNCHANGED vars
  BY <1>19 DEF vars, threads, caller
<1> QED
  BY <1>1, <1>2, <1>3, <1>4, <1>5, <1>6, <1>7, <1>8, <1>9, <1>10, <1>11, <1>12,
     <1>13, <1>14, <1>15, <1>16, <1>17, <1>18, <1>19
  DEF Next, running, worker_loop

\* The flag is stored before the notify_all, and a worker tests it under the
\* mutex before it sleeps.
LEMMA NoSleeperStep ==
  TInv /\ JoinedAreGone /\ NoSleeperAfterShutdown /\ [Next]_vars
    => NoSleeperAfterShutdown'
<1> SUFFICES ASSUME TInv, JoinedAreGone, NoSleeperAfterShutdown, [Next]_vars
             PROVE  NoSleeperAfterShutdown'
  OBVIOUS
<1> USE DEF TInv, TypeOK, NoSleeperAfterShutdown
<1>1. ASSUME NEW body \in Bodies, submit(body) PROVE NoSleeperAfterShutdown'
  BY <1>1 DEF submit, Goto, state, threads, caller
<1>2. CASE request_shutdown
  BY <1>2 DEF request_shutdown, JoinedAreGone, Ended, threads, caller
<1>3. CASE run_without_workers
  BY <1>3 DEF run_without_workers, Goto, state, threads, caller
<1>4. ASSUME NEW n \in 1..(MAX_WORKERS + 1), NEW b \in StepBudgets, run(n, b)
      PROVE NoSleeperAfterShutdown'
  BY <1>4 DEF run, Goto, state, threads, caller
<1>5. CASE set_shutdown
  BY <1>5 DEF set_shutdown, Goto, state, threads, caller
<1>6. CASE notify_all
  BY <1>6 DEF notify_all, Awake, state
<1>7. CASE check_deadline
  BY <1>7 DEF check_deadline, Goto, state, threads, caller
<1>8. CASE join
  BY <1>8 DEF join, Goto, state, threads, caller
<1>9. CASE make_report
  BY <1>9 DEF make_report, Goto, state, threads, caller
<1>10. CASE DeadlinePasses
  BY <1>10 DEF DeadlinePasses, Goto, state, threads, caller
<1>11. ASSUME NEW w \in Worker, pop_front(w) PROVE NoSleeperAfterShutdown'
  BY <1>11 DEF pop_front, Goto, state, threads, caller
<1>12. ASSUME NEW w \in Worker, see_empty(w) PROVE NoSleeperAfterShutdown'
  BY <1>12 DEF see_empty, Goto, state, threads, caller
<1>13. ASSUME NEW w \in Worker, record_outcome(w) PROVE NoSleeperAfterShutdown'
  BY <1>13 DEF record_outcome, Goto, state, threads, caller
<1>14. ASSUME NEW w \in Worker, report_starvation(w) PROVE NoSleeperAfterShutdown'
  BY <1>14 DEF report_starvation, Goto, state, threads, caller
<1>15. ASSUME NEW w \in Worker, requeue(w) PROVE NoSleeperAfterShutdown'
  BY <1>15 DEF requeue, Goto, state, threads, caller
<1>16. ASSUME NEW w \in Worker, notify_one(w) PROVE NoSleeperAfterShutdown'
  BY <1>16 DEF notify_one, Goto, state, threads, caller
<1>17. ASSUME NEW w \in Worker, drain_cancelled(w) PROVE NoSleeperAfterShutdown'
  BY <1>17 DEF drain_cancelled, Goto, state, threads, caller
<1>18. ASSUME NEW w \in Worker, spurious_wakeup(w) PROVE NoSleeperAfterShutdown'
  BY <1>18 DEF spurious_wakeup, Goto, state, threads, caller
<1>19. CASE UNCHANGED vars
  BY <1>19 DEF vars, state, threads, caller
<1> QED
  BY <1>1, <1>2, <1>3, <1>4, <1>5, <1>6, <1>7, <1>8, <1>9, <1>10, <1>11, <1>12,
     <1>13, <1>14, <1>15, <1>16, <1>17, <1>18, <1>19
  DEF Next, running, worker_loop

\* No lost wake-up: once the flag is stored and notify_all is over, no worker
\* sleeps on the condition variable, for any number of workers and tasks.
THEOREM NoLostWakeup == Spec => []NoSleeperAfterShutdown
<1>1. Init => JoinedAreGone /\ NoSleeperAfterShutdown
  BY DEF Init, JoinedAreGone, NoSleeperAfterShutdown
<1> QED BY <1>1, TInvInit, TInvStep, JoinedAreGoneStep, NoSleeperStep, PTL DEF Spec
----------------------------------------------------------------------------
(***************************************************************************)
(* Giving tasks back and draining.                                         *)
(***************************************************************************)

\* While workers live, only requeue makes the queue longer.
LEMMA DrainStep ==
  TInv /\ JoinedAreGone /\ StarvationIsAnnounced /\ DrainsOnlyStarved /\ [Next]_vars
    => (StarvationIsAnnounced /\ DrainsOnlyStarved)'
<1> SUFFICES ASSUME TInv, JoinedAreGone, StarvationIsAnnounced, DrainsOnlyStarved,
                    [Next]_vars
             PROVE  (StarvationIsAnnounced /\ DrainsOnlyStarved)'
  OBVIOUS
<1> USE DEF TInv, TypeOK, StarvationIsAnnounced, DrainsOnlyStarved
<1>1. ASSUME NEW body \in Bodies, submit(body) PROVE (StarvationIsAnnounced /\ DrainsOnlyStarved)'
  BY <1>1 DEF submit, JoinedAreGone, Ended, PoisonNote, threads, caller
<1>2. CASE request_shutdown
  BY <1>2 DEF request_shutdown, Goto, insert_diag, PoisonNote, state, threads, caller
<1>3. CASE run_without_workers
  BY <1>3 DEF run_without_workers, Goto, insert_diag, PoisonNote, state, threads, caller
<1>4. ASSUME NEW n \in 1..(MAX_WORKERS + 1), NEW b \in StepBudgets, run(n, b)
      PROVE (StarvationIsAnnounced /\ DrainsOnlyStarved)'
  BY <1>4 DEF run, Goto, insert_diag, PoisonNote, state, threads, caller
<1>5. CASE set_shutdown
  BY <1>5 DEF set_shutdown, Goto, insert_diag, PoisonNote, state, threads, caller
<1>6. CASE notify_all
  BY <1>6 DEF notify_all, Awake, state
<1>7. CASE check_deadline
  BY <1>7 DEF check_deadline, Goto, insert_diag, PoisonNote, state, threads, caller
<1>8. CASE join
  BY <1>8 DEF join, Goto, insert_diag, PoisonNote, state, threads, caller
<1>9. CASE make_report
  BY <1>9 DEF make_report, Goto, insert_diag, PoisonNote, state, threads, caller
<1>10. CASE DeadlinePasses
  BY <1>10 DEF DeadlinePasses, Goto, insert_diag, PoisonNote, state, threads, caller
<1>11. ASSUME NEW w \in Worker, pop_front(w) PROVE (StarvationIsAnnounced /\ DrainsOnlyStarved)'
  <2>1. \A v \in Worker : pc'[v] \in {"requeue", "drain"} => pc'[v] = pc[v]
    BY <1>11 DEF pop_front, Goto
  <2>2. diagnostics \subseteq diagnostics' /\ poisoned' = poisoned /\ queue /= <<>>
    BY <1>11 DEF pop_front
  <2> QED BY <2>1, <2>2
<1>12. ASSUME NEW w \in Worker, see_empty(w) PROVE (StarvationIsAnnounced /\ DrainsOnlyStarved)'
  BY <1>12 DEF see_empty, NothingToPop, Goto, PoisonNote
<1>13. ASSUME NEW w \in Worker, record_outcome(w) PROVE (StarvationIsAnnounced /\ DrainsOnlyStarved)'
  BY <1>13 DEF record_outcome, Goto, insert_diag, PoisonNote, state, threads, caller
<1>14. ASSUME NEW w \in Worker, report_starvation(w) PROVE (StarvationIsAnnounced /\ DrainsOnlyStarved)'
  BY <1>14 DEF report_starvation, Goto, insert_diag, PoisonNote, state, threads, caller
<1>15. ASSUME NEW w \in Worker, requeue(w) PROVE (StarvationIsAnnounced /\ DrainsOnlyStarved)'
  BY <1>15 DEF requeue, Goto, insert_diag, PoisonNote, state, threads, caller
<1>16. ASSUME NEW w \in Worker, notify_one(w) PROVE (StarvationIsAnnounced /\ DrainsOnlyStarved)'
  BY <1>16 DEF notify_one, Goto, insert_diag, PoisonNote, state, threads, caller
<1>17. ASSUME NEW w \in Worker, drain_cancelled(w) PROVE (StarvationIsAnnounced /\ DrainsOnlyStarved)'
  <2>1. \A v \in Worker : pc'[v] = "requeue" => pc[v] = "requeue"
    BY <1>17 DEF drain_cancelled, Goto
  <2>2. poisoned' = poisoned /\ diagnostics' = diagnostics
    BY <1>17 DEF drain_cancelled
  <2>3. ~poisoned => queue' = <<>>
    BY <1>17 DEF drain_cancelled
  <2> QED BY <2>1, <2>2, <2>3
<1>18. ASSUME NEW w \in Worker, spurious_wakeup(w) PROVE (StarvationIsAnnounced /\ DrainsOnlyStarved)'
  BY <1>18 DEF spurious_wakeup, Goto, insert_diag, PoisonNote, state, threads, caller
<1>19. CASE UNCHANGED vars
  BY <1>19 DEF vars, state, threads, caller
<1> QED
  BY <1>1, <1>2, <1>3, <1>4, <1>5, <1>6, <1>7, <1>8, <1>9, <1>10, <1>11, <1>12,
     <1>13, <1>14, <1>15, <1>16, <1>17, <1>18, <1>19
  DEF Next, running, worker_loop

\* drain_cancelled drops a task only if a starved worker gave one back and
\* recorded A0011: shutdown alone cancels nothing that was queued.
THEOREM DrainsAreAnnounced == Spec => []DrainsOnlyStarved
<1>1. Init => JoinedAreGone /\ StarvationIsAnnounced /\ DrainsOnlyStarved
  BY DEF Init, JoinedAreGone, StarvationIsAnnounced, DrainsOnlyStarved
<1> QED BY <1>1, TInvInit, TInvStep, JoinedAreGoneStep, DrainStep, PTL DEF Spec
----------------------------------------------------------------------------
(***************************************************************************)
(* The tallies.                                                            *)
(***************************************************************************)

\* The policy cap bounds every set of workers.
LEMMA WorkersAreFinite ==
  ASSUME NEW S \in SUBSET Worker
  PROVE  IsFiniteSet(S) /\ Cardinality(S) \in Nat
<1>1. IsFiniteSet(Worker)
  BY PoolAssumption, FS_Interval DEF Worker
<1>2. IsFiniteSet(S)
  BY <1>1, FS_Subset
<1> QED BY <1>2, FS_CardinalityType

\* There are n numbers from 1 to n.
LEMMA Segment ==
  ASSUME NEW n \in Nat
  PROVE  IsFiniteSet(1..n) /\ Cardinality(1..n) = n
<1>1. IsFiniteSet(1..n) /\ Cardinality(1..n) = IF 1 > n THEN 0 ELSE n - 1 + 1
  BY FS_Interval
<1>2. (IF 1 > n THEN 0 ELSE n - 1 + 1) = n
  OBVIOUS
<1> QED BY <1>1, <1>2

\* Every critical section moves at most one task between the queue, a worker
\* and the tallies, except drain_cancelled, which counts what it drops.
LEMMA AccountingStep ==
  TInv /\ JoinedAreGone /\ Accounting /\ [Next]_vars => Accounting'
<1> SUFFICES ASSUME TInv, JoinedAreGone, Accounting, [Next]_vars PROVE Accounting'
  OBVIOUS
<1> USE DEF TInv, TypeOK
<1>a. /\ Holders \in SUBSET Worker /\ IsFiniteSet(Holders)
      /\ Cardinality(Holders) \in Nat /\ Len(queue) \in Nat
  BY WorkersAreFinite, LenProperties DEF Holders
<1>b. ASSUME Holders' = Holders,
             UNCHANGED <<queue, accepted, completed, panicked, cancelled, total_steps>>
      PROVE  Accounting'
  BY <1>b DEF Accounting
<1>1. ASSUME NEW body \in Bodies, submit(body) PROVE Accounting'
  <2>1. Holders' = Holders
    BY <1>1 DEF submit, Holders, threads
  <2>2. CASE shutdown
    BY <1>1, <1>a, <2>1, <2>2, SMTT(30) DEF submit, Accounting
  <2>3. CASE ~shutdown
    <3>1. [id |-> next_id, body |-> body] \in Task
      BY <1>1, PoolAssumption DEF submit, Task
    <3>2. Len(queue') = Len(queue) + 1
      BY <1>1, <2>3, <3>1, AppendProperties DEF submit
    <3>3. /\ accepted' = accepted + 1
          /\ UNCHANGED <<completed, panicked, cancelled, total_steps>>
      BY <1>1, <2>3 DEF submit
    <3> QED BY <1>a, <2>1, <3>2, <3>3, SMTT(30) DEF Accounting
  <2> QED BY <2>2, <2>3
<1>2. CASE request_shutdown
  BY <1>2, <1>b DEF request_shutdown, Goto, Holders, Holding, state, threads, caller
<1>3. CASE run_without_workers
  BY <1>3, <1>b DEF run_without_workers, Goto, Holders, Holding, state, threads, caller
<1>4. ASSUME NEW n \in 1..(MAX_WORKERS + 1), NEW b \in StepBudgets, run(n, b)
      PROVE Accounting'
  <2>1. Holders = {}
    BY <1>4 DEF run, JoinedAreGone, Ended, Holders, Holding
  <2>2. Holders' = {}
    BY <1>4 DEF run, Holders, Holding
  <2> QED BY <1>4, <1>b, <2>1, <2>2 DEF run
<1>5. CASE set_shutdown
  BY <1>5, <1>b DEF set_shutdown, Goto, Holders, Holding, state, threads, caller
<1>6. CASE notify_all
  BY <1>6, <1>b DEF notify_all, Awake, Holders, Holding, state
<1>7. CASE check_deadline
  BY <1>7, <1>b DEF check_deadline, Goto, Holders, Holding, state, threads, caller
<1>8. CASE join
  BY <1>8, <1>b DEF join, Goto, Holders, Holding, state, threads, caller
<1>9. CASE make_report
  BY <1>9, <1>b DEF make_report, Goto, Holders, Holding, state, threads, caller
<1>10. CASE DeadlinePasses
  BY <1>10, <1>b DEF DeadlinePasses, Goto, Holders, Holding, state, threads, caller
<1>11. ASSUME NEW w \in Worker, pop_front(w) PROVE Accounting'
  <2>1. Len(queue') = Len(queue) - 1
    BY <1>11, HeadTailProperties DEF pop_front
  <2>2. w \notin Holders /\ Holders' = Holders \cup {w}
    BY <1>11 DEF pop_front, Goto, Holders, Holding
  <2>3. Cardinality(Holders') = Cardinality(Holders) + 1
    BY <1>a, <2>2, FS_AddElement
  <2> QED BY <1>11, <1>a, <2>1, <2>3 DEF pop_front, Accounting
<1>12. ASSUME NEW w \in Worker, see_empty(w) PROVE Accounting'
  BY <1>12, <1>b DEF see_empty, Goto, Holders, Holding, state, threads, caller
<1>13. ASSUME NEW w \in Worker, record_outcome(w) PROVE Accounting'
  <2>1. w \in Holders /\ Holders' = Holders \ {w}
    BY <1>13 DEF record_outcome, Goto, Holders, Holding
  <2>2. Cardinality(Holders') = Cardinality(Holders) - 1
    BY <1>a, <2>1, FS_RemoveElement
  <2>3. /\ total_steps' = total_steps + 1
        /\ UNCHANGED <<queue, accepted, cancelled>>
    BY <1>13 DEF record_outcome
  <2>4. \/ completed' = completed + 1 /\ panicked' = panicked
        \/ completed' = completed /\ panicked' = panicked + 1
    BY <1>13 DEF record_outcome
  <2>5. /\ completed \in Nat /\ panicked \in Nat /\ cancelled \in Nat
        /\ total_steps \in Nat /\ total_steps = completed + panicked
    BY DEF Accounting
  <2> HIDE DEF TInv, TypeOK
  <2>6. CASE completed' = completed + 1 /\ panicked' = panicked
    <3>1. total_steps' = completed' + panicked'
      BY <2>3, <2>5, <2>6
    <3> QED BY <1>a, <2>2, <2>3, <2>5, <2>6, <3>1 DEF Accounting
  <2>7. CASE completed' = completed /\ panicked' = panicked + 1
    <3>1. total_steps' = completed' + panicked'
      BY <2>3, <2>5, <2>7
    <3> QED BY <1>a, <2>2, <2>3, <2>5, <2>7, <3>1 DEF Accounting
  <2> QED BY <2>4, <2>6, <2>7
<1>14. ASSUME NEW w \in Worker, report_starvation(w) PROVE Accounting'
  BY <1>14, <1>b DEF report_starvation, Goto, Holders, Holding, state, threads, caller
<1>15. ASSUME NEW w \in Worker, requeue(w) PROVE Accounting'
  <2>1. <<task[w]>> \in Seq(Task)
    BY <1>15 DEF requeue, HeldTasks, Holding
  <2>2. Len(queue') = Len(queue) + 1
    BY <1>15, <2>1, <1>a, ConcatProperties DEF requeue, push_front
  <2>3. w \in Holders /\ Holders' = Holders \ {w}
    BY <1>15 DEF requeue, Goto, Holders, Holding
  <2>4. Cardinality(Holders') = Cardinality(Holders) - 1
    BY <1>a, <2>3, FS_RemoveElement
  <2>5. UNCHANGED <<accepted, completed, panicked, cancelled, total_steps>>
    BY <1>15 DEF requeue
  <2> QED BY <1>a, <2>2, <2>4, <2>5 DEF Accounting
<1>16. ASSUME NEW w \in Worker, notify_one(w) PROVE Accounting'
  BY <1>16, <1>b DEF notify_one, Goto, Holders, Holding, state, threads, caller
<1>17. ASSUME NEW w \in Worker, drain_cancelled(w) PROVE Accounting'
  <2>1. Holders' = Holders
    BY <1>17 DEF drain_cancelled, Goto, Holders, Holding
  <2>2. CASE poisoned
    BY <1>17, <1>b, <2>1, <2>2 DEF drain_cancelled
  <2>3. CASE ~poisoned
    <3>1. Len(queue') = 0 /\ cancelled' = cancelled + Len(queue)
      BY <1>17, <2>3 DEF drain_cancelled
    <3> QED BY <1>17, <1>a, <2>1, <3>1 DEF drain_cancelled, Accounting
  <2> QED BY <2>2, <2>3
<1>18. ASSUME NEW w \in Worker, spurious_wakeup(w) PROVE Accounting'
  BY <1>18, <1>b DEF spurious_wakeup, Goto, Holders, Holding, state, threads, caller
<1>19. CASE UNCHANGED vars
  BY <1>19, <1>b DEF vars, Holders, state, threads
<1> QED
  BY <1>1, <1>2, <1>3, <1>4, <1>5, <1>6, <1>7, <1>8, <1>9, <1>10, <1>11, <1>12,
     <1>13, <1>14, <1>15, <1>16, <1>17, <1>18, <1>19
  DEF Next, running, worker_loop

\* No task is lost or counted twice: accepted is what is queued, held by a
\* worker and tallied, at every moment of every run.
THEOREM TasksAreAccounted == Spec => []Accounting
<1>1. Init => JoinedAreGone /\ Accounting
  <2> SUFFICES ASSUME Init PROVE JoinedAreGone /\ Accounting
    OBVIOUS
  <2>1. Holders = {}
    BY DEF Init, Holders, Holding
  <2>2. Cardinality(Holders) = 0
    BY <2>1, FS_EmptySet
  <2> QED BY <2>2 DEF Init, JoinedAreGone, Accounting
<1> QED BY <1>1, TInvInit, TInvStep, JoinedAreGoneStep, AccountingStep, PTL DEF Spec
----------------------------------------------------------------------------
(***************************************************************************)
(* The report.                                                             *)
(***************************************************************************)

\* With every thread gone, the tallies and the queue are all there is.
LEMMA FinalReport ==
  ASSUME TInv, JoinedAreGone, Accounting, main \in {"idle", "report"}, NEW count,
         "A0011" \notin finalise_report(count).diagnostics
  PROVE  LET r == finalise_report(count)
         IN  /\ r.stranded = 0
             /\ r.total_tasks = r.completed + r.panicked + r.cancelled
<1>1. \A w \in Worker : pc[w] \in Ended \cup {"none"}
  BY PoolAssumption DEF TInv, TypeOK, JoinsInOrder, JoinedAreGone, Worker
<1>2. Holders = {}
  BY <1>1 DEF Holders, Holding, Ended
<1>3. Cardinality(Holders) = 0
  BY <1>2, FS_EmptySet
<1>4. ~(Executed < accepted)
  BY DEF finalise_report
<1>5. Len(queue) \in Nat
  BY LenProperties DEF TInv, TypeOK
<1>6. Len(queue) = 0 /\ accepted = completed + panicked + cancelled
  BY <1>3, <1>4, <1>5, SMTT(30) DEF Executed, Accounting, TInv, TypeOK
<1> QED BY <1>6 DEF finalise_report

\* Only run makes a report, with nobody left to change what it says.
LEMMA SilentReportStep ==
  TInv /\ JoinedAreGone /\ Accounting /\ SilentReportIsComplete /\ [Next]_vars
    => SilentReportIsComplete'
<1> SUFFICES ASSUME TInv, JoinedAreGone, Accounting, SilentReportIsComplete, [Next]_vars
             PROVE  SilentReportIsComplete'
  OBVIOUS
<1>a. ASSUME UNCHANGED report PROVE SilentReportIsComplete'
  BY <1>a DEF SilentReportIsComplete
<1>b. ASSUME NEW count, report' = finalise_report(count), main \in {"idle", "report"}
      PROVE  SilentReportIsComplete'
  BY <1>b, FinalReport DEF SilentReportIsComplete
<1>1. ASSUME NEW body \in Bodies, submit(body) PROVE SilentReportIsComplete'
  BY <1>1, <1>a DEF submit, caller
<1>2. CASE request_shutdown
  BY <1>2, <1>a DEF request_shutdown, caller
<1>3. CASE run_without_workers
  BY <1>3, <1>b DEF run_without_workers
<1>4. ASSUME NEW n \in 1..(MAX_WORKERS + 1), NEW b \in StepBudgets, run(n, b)
      PROVE SilentReportIsComplete'
  BY <1>4, <1>a DEF run, caller
<1>5. CASE set_shutdown
  BY <1>5, <1>a DEF set_shutdown, caller
<1>6. CASE notify_all
  BY <1>6, <1>a DEF notify_all, caller
<1>7. CASE check_deadline
  BY <1>7, <1>a DEF check_deadline, caller
<1>8. CASE join
  BY <1>8, <1>a DEF join, caller
<1>9. CASE make_report
  BY <1>9, <1>b DEF make_report
<1>10. CASE DeadlinePasses
  BY <1>10, <1>a DEF DeadlinePasses, caller
<1>11. ASSUME NEW w \in Worker, pop_front(w) PROVE SilentReportIsComplete'
  BY <1>11, <1>a DEF pop_front, caller
<1>12. ASSUME NEW w \in Worker, see_empty(w) PROVE SilentReportIsComplete'
  BY <1>12, <1>a DEF see_empty, caller
<1>13. ASSUME NEW w \in Worker, record_outcome(w) PROVE SilentReportIsComplete'
  BY <1>13, <1>a DEF record_outcome, caller
<1>14. ASSUME NEW w \in Worker, report_starvation(w) PROVE SilentReportIsComplete'
  BY <1>14, <1>a DEF report_starvation, caller
<1>15. ASSUME NEW w \in Worker, requeue(w) PROVE SilentReportIsComplete'
  BY <1>15, <1>a DEF requeue, caller
<1>16. ASSUME NEW w \in Worker, notify_one(w) PROVE SilentReportIsComplete'
  BY <1>16, <1>a DEF notify_one, caller
<1>17. ASSUME NEW w \in Worker, drain_cancelled(w) PROVE SilentReportIsComplete'
  BY <1>17, <1>a DEF drain_cancelled, caller
<1>18. ASSUME NEW w \in Worker, spurious_wakeup(w) PROVE SilentReportIsComplete'
  BY <1>18, <1>a DEF spurious_wakeup, caller
<1>19. CASE UNCHANGED vars
  BY <1>19, <1>a DEF vars, caller
<1> QED
  BY <1>1, <1>2, <1>3, <1>4, <1>5, <1>6, <1>7, <1>8, <1>9, <1>10, <1>11, <1>12,
     <1>13, <1>14, <1>15, <1>16, <1>17, <1>18, <1>19
  DEF Next, running, worker_loop

\* A report without A0011 has left nothing on the queue, and its tallies add up
\* to the tasks it accepted.
THEOREM SilentReports == Spec => []SilentReportIsComplete
<1>1. Init => JoinedAreGone /\ SilentReportIsComplete
  BY DEF Init, JoinedAreGone, SilentReportIsComplete
<1> QED
  BY <1>1, TInvInit, TInvStep, JoinedAreGoneStep, TasksAreAccounted,
     SilentReportStep, PTL DEF Spec
----------------------------------------------------------------------------
(***************************************************************************)
(* The pool implements TaskPool. Its steps map to steps of TaskPool because *)
(* no two tasks that are queued or held have the same id.                  *)
(***************************************************************************)
QueuedIds == {queue[i].id : i \in DOMAIN queue}
HeldIds == {task[w].id : w \in Holders}

UniqueIds ==
  /\ \A id \in Outstanding : id < next_id
  /\ \A i, j \in DOMAIN queue : queue[i].id = queue[j].id => i = j
  /\ \A v, w \in Holders : task[v].id = task[w].id => v = w
  /\ QueuedIds \cap HeldIds = {}

\* What the pool looks like to TaskPool does not change.
LEMMA SameTasks ==
  ASSUME UniqueIds, queue' = queue, Holders' = Holders, next_id' = next_id,
         \A w \in Holders : task'[w] = task[w],
         completed' = completed, panicked' = panicked, cancelled' = cancelled
  PROVE  UniqueIds' /\ UNCHANGED TP!vars
<1>1. QueuedIds' = QueuedIds
  BY DEF QueuedIds
<1>2. HeldIds' = HeldIds
  BY DEF HeldIds
<1>3. Outstanding' = Outstanding
  BY <1>1, <1>2 DEF Outstanding, QueuedIds, HeldIds
<1>4. UniqueIds'
  BY <1>1, <1>2, <1>3 DEF UniqueIds
<1> QED BY <1>3, <1>4 DEF TP!vars

LEMMA RefineStep ==
  ASSUME TInv, JoinedAreGone, UniqueIds, [Next]_vars
  PROVE  UniqueIds' /\ [TP!Next]_(TP!vars)
<1>0. /\ queue \in Seq(Task) /\ pc \in [Worker -> WorkerPcs]
      /\ task \in [Worker -> Task \cup {NoTask}] /\ next_id \in 0..MaxTasks
      /\ \A w \in Holders : task[w] \in Task
      /\ Len(queue) \in Nat /\ DOMAIN queue = 1..Len(queue)
      /\ completed \in Nat /\ panicked \in Nat /\ cancelled \in Nat
  BY LenProperties DEF TInv, TypeOK, HeldTasks, Holders
<1>00. /\ \A id \in QueuedIds : id \in Nat /\ id < next_id
       /\ \A id \in HeldIds : id \in Nat /\ id < next_id
       /\ Outstanding = QueuedIds \cup HeldIds /\ next_id \in Nat
  <2>1. \A t \in Task : t.id \in Nat
    BY PoolAssumption DEF Task
  <2>2. \A i \in DOMAIN queue : queue[i] \in Task
    BY <1>0
  <2>3. Outstanding = QueuedIds \cup HeldIds
    BY DEF Outstanding, QueuedIds, HeldIds
  <2>4. next_id \in Nat
    BY <1>0, PoolAssumption
  <2> QED BY <1>0, <2>1, <2>2, <2>3, <2>4 DEF QueuedIds, HeldIds, UniqueIds
<1>a. ASSUME UniqueIds' /\ UNCHANGED TP!vars
      PROVE  UniqueIds' /\ [TP!Next]_(TP!vars)
  BY <1>a
<1>1. ASSUME NEW body \in Bodies, submit(body)
      PROVE  UniqueIds' /\ [TP!Next]_(TP!vars)
  <2>1. next_id' = next_id + 1 /\ completed' = completed /\ panicked' = panicked
        /\ pc' = pc /\ task' = task
    BY <1>1 DEF submit, threads
  <2>2. Holders' = Holders /\ HeldIds' = HeldIds
    BY <2>1 DEF Holders, HeldIds
  <2>3. CASE shutdown
    <3>1. queue' = queue /\ cancelled' = cancelled + 1
      BY <1>1, <2>3 DEF submit
    <3>2. QueuedIds' = QueuedIds /\ Outstanding' = Outstanding
      BY <2>2, <3>1 DEF QueuedIds, Outstanding, HeldIds
    <3>3. UniqueIds'
      <4>1. \A id \in Outstanding' : id < next_id'
        BY <1>00, <2>1, <3>2
      <4> QED BY <2>1, <2>2, <3>1, <3>2, <4>1 DEF UniqueIds
    <3>4. TP!Submit
      BY <2>1, <3>1, <3>2 DEF TP!Submit
    <3> QED BY <3>3, <3>4 DEF TP!Next
  <2>4. CASE ~shutdown
    <3> DEFINE t == [id |-> next_id, body |-> body]
    <3>1. queue' = Append(queue, t) /\ cancelled' = cancelled
      BY <1>1, <2>4 DEF submit
    <3>2. t \in Task /\ t.id = next_id
      BY <1>0, <1>1 DEF Task
    <3> HIDE DEF t
    <3>3. /\ DOMAIN queue' = 1..(Len(queue) + 1)
          /\ \A i \in 1..Len(queue) : queue'[i] = queue[i]
          /\ queue'[Len(queue) + 1] = t
      BY <1>0, <3>1, <3>2
    <3>4. \A i \in 1..(Len(queue) + 1) : i \in 1..Len(queue) \/ i = Len(queue) + 1
      BY <1>0
    <3>5. 1..Len(queue) \subseteq 1..(Len(queue) + 1) /\ Len(queue) + 1 \in 1..(Len(queue) + 1)
      BY <1>0
    <3>6. QueuedIds' = QueuedIds \cup {next_id}
      BY <1>0, <3>2, <3>3, <3>4, <3>5 DEF QueuedIds
    <3>7. Outstanding' = Outstanding \cup {next_id}
      BY <1>00, <2>2, <3>6 DEF Outstanding, QueuedIds, HeldIds
    <3>8. UniqueIds'
      <4>1. \A id \in Outstanding' : id < next_id'
        BY <1>00, <2>1, <3>7
      <4>2. ASSUME NEW i \in DOMAIN queue', NEW j \in DOMAIN queue', queue'[i].id = queue'[j].id
            PROVE  i = j
        <5>1. \A l \in 1..Len(queue) : queue[l].id /= next_id
          <6>1. \A l \in 1..Len(queue) : queue[l].id \in QueuedIds
            BY <1>0 DEF QueuedIds
          <6> QED BY <1>00, <6>1
        <5> QED BY <1>0, <3>2, <3>3, <3>4, <4>2, <5>1 DEF UniqueIds
      <4>3. QueuedIds' \cap HeldIds' = {}
        BY <1>00, <2>2, <3>6 DEF UniqueIds
      <4> QED BY <2>1, <2>2, <4>1, <4>2, <4>3 DEF UniqueIds
    <3>9. TP!Submit
      BY <2>1, <3>1, <3>7 DEF TP!Submit
    <3> QED BY <3>8, <3>9 DEF TP!Next
  <2> QED BY <2>3, <2>4
<1>2. CASE \/ request_shutdown \/ run_without_workers \/ set_shutdown
           \/ check_deadline \/ join \/ make_report \/ DeadlinePasses \/ UNCHANGED vars
  <2>1. UNCHANGED <<queue, pc, task, next_id, completed, panicked, cancelled>>
    BY <1>2 DEF request_shutdown, run_without_workers, set_shutdown, check_deadline, join,
                make_report, DeadlinePasses, vars, state, threads
  <2>2. Holders' = Holders
    BY <2>1 DEF Holders
  <2> QED BY <1>a, <2>1, <2>2, SameTasks
<1>3. ASSUME NEW n \in 1..(MAX_WORKERS + 1), NEW b \in StepBudgets, run(n, b)
      PROVE  UniqueIds' /\ [TP!Next]_(TP!vars)
  <2>1. /\ UNCHANGED <<queue, next_id, completed, panicked, cancelled>>
        /\ main = "idle" /\ pc' \in [Worker -> {"lock", "none"}]
    BY <1>3 DEF run
  <2>2. Holders = {}
    BY <2>1 DEF Holders, Holding, JoinedAreGone, Ended
  <2>3. Holders' = {}
    BY <2>1 DEF Holders, Holding
  <2> QED BY <1>a, <2>1, <2>2, <2>3, SameTasks
<1>4. CASE notify_all
  <2>1. /\ UNCHANGED <<queue, task, next_id, completed, panicked, cancelled>>
        /\ pc' = Awake
    BY <1>4 DEF notify_all, state
  <2>2. Holders' = Holders
    BY <2>1 DEF Holders, Holding, Awake
  <2> QED BY <1>a, <2>1, <2>2, SameTasks
<1>5. ASSUME NEW w \in Worker, pop_front(w)
      PROVE  UniqueIds' /\ [TP!Next]_(TP!vars)
  <2> DEFINE t == Head(queue)
             n == Len(queue)
  <2>1. /\ pc[w] = "lock" /\ queue /= <<>> /\ queue' = Tail(queue)
        /\ task' = [task EXCEPT ![w] = t]
        /\ UNCHANGED <<next_id, completed, panicked, cancelled>>
    BY <1>5 DEF pop_front
  <2>2. pc' = [pc EXCEPT ![w] = "starved"] \/ pc' = [pc EXCEPT ![w] = "body"]
    BY <1>5 DEF pop_front, Goto
  <2>3. Holders' = Holders \cup {w} /\ w \notin Holders
    BY <1>0, <2>1, <2>2 DEF Holders, Holding
  <2>4. /\ n \in Nat /\ n >= 1 /\ t = queue[1] /\ DOMAIN queue' = 1..(n - 1)
        /\ \A i \in 1..(n - 1) : queue'[i] = queue[i + 1]
    BY <1>0, <2>1
  <2>5. task'[w] = t /\ \A v \in Holders : task'[v] = task[v]
    BY <1>0, <2>1, <2>3
  <2> HIDE DEF t, n
  <2>6. /\ 1 \in 1..n /\ \A i \in 1..(n - 1) : i + 1 \in 1..n /\ i + 1 /= 1
        /\ \A i \in 1..n : i = 1 \/ (i - 1 \in 1..(n - 1) /\ (i - 1) + 1 = i)
    BY <2>4
  <2>7. DOMAIN queue = 1..n
    BY <1>0 DEF n
  <2>8. QueuedIds = QueuedIds' \cup {t.id} /\ t.id \notin QueuedIds'
    <3>1. \A x \in QueuedIds' : x \in QueuedIds /\ x /= t.id
      BY <2>4, <2>6, <2>7 DEF QueuedIds, UniqueIds
    <3>2. t.id \in QueuedIds
      BY <2>4, <2>6, <2>7 DEF QueuedIds
    <3>3. ASSUME NEW x \in QueuedIds, x /= t.id PROVE x \in QueuedIds'
      <4>1. PICK i \in 1..n : x = queue[i].id
        BY <2>7 DEF QueuedIds
      <4>2. i - 1 \in 1..(n - 1) /\ queue'[i - 1] = queue[i]
        BY <2>4, <2>6, <3>3, <4>1
      <4> QED BY <2>4, <4>1, <4>2 DEF QueuedIds
    <3> QED BY <3>1, <3>2, <3>3
  <2>9. HeldIds' = HeldIds \cup {t.id}
    BY <2>3, <2>5 DEF HeldIds
  <2>10. Outstanding' = Outstanding
    BY <1>00, <2>8, <2>9 DEF Outstanding, QueuedIds, HeldIds
  <2>11. UniqueIds'
    <3>1. \A id \in Outstanding' : id < next_id'
      BY <2>1, <2>10 DEF UniqueIds
    <3>2. ASSUME NEW i \in DOMAIN queue', NEW j \in DOMAIN queue', queue'[i].id = queue'[j].id
          PROVE  i = j
      <4>1. i + 1 = j + 1
        BY <2>4, <2>6, <2>7, <3>2 DEF UniqueIds
      <4> QED BY <2>4, <4>1
    <3>3. t.id \notin HeldIds
      BY <2>8 DEF UniqueIds
    <3>4. \A u, v \in Holders' : task'[u].id = task'[v].id => u = v
      BY <2>3, <2>5, <3>3 DEF UniqueIds, HeldIds
    <3>5. QueuedIds' \cap HeldIds' = {}
      BY <2>8, <2>9 DEF UniqueIds
    <3> QED BY <3>1, <3>2, <3>4, <3>5 DEF UniqueIds
  <2> QED BY <2>1, <2>10, <2>11 DEF TP!vars
<1>6. ASSUME NEW w \in Worker, see_empty(w)
      PROVE  UniqueIds' /\ [TP!Next]_(TP!vars)
  <2>1. /\ UNCHANGED <<queue, task, next_id, completed, panicked, cancelled>> /\ pc[w] = "lock"
        /\ pc' = [pc EXCEPT ![w] = IF shutdown THEN "drain" ELSE "waiting"]
    BY <1>6 DEF see_empty, Goto
  <2>2. Holders' = Holders
    BY <1>0, <2>1 DEF Holders, Holding
  <2> QED BY <1>a, <2>1, <2>2, SameTasks
<1>7. ASSUME NEW w \in Worker, record_outcome(w)
      PROVE  UniqueIds' /\ [TP!Next]_(TP!vars)
  <2>1. /\ pc[w] = "body" /\ UNCHANGED <<queue, task, next_id, cancelled>>
        /\ \/ completed' = completed + 1 /\ panicked' = panicked
           \/ completed' = completed /\ panicked' = panicked + 1
    BY <1>7 DEF record_outcome
  <2>2. pc' = [pc EXCEPT ![w] = "died"] \/ pc' = [pc EXCEPT ![w] = "lock"]
    BY <1>7 DEF record_outcome, Goto
  <2>3. w \in Holders /\ Holders' = Holders \ {w}
    BY <1>0, <2>1, <2>2 DEF Holders, Holding
  <2>4. QueuedIds' = QueuedIds
    BY <2>1 DEF QueuedIds
  <2>5. HeldIds' = HeldIds \ {task[w].id} /\ task[w].id \in HeldIds
    BY <2>1, <2>3 DEF HeldIds, UniqueIds
  <2>6. task[w].id \in Outstanding /\ Outstanding' = Outstanding \ {task[w].id}
    <3>1. Outstanding' = QueuedIds' \cup HeldIds'
      BY DEF Outstanding, QueuedIds, HeldIds
    <3>2. QueuedIds \cap HeldIds = {}
      BY DEF UniqueIds
    <3> QED BY <1>00, <2>4, <2>5, <3>1, <3>2
  <2>7. UniqueIds'
    BY <2>1, <2>3, <2>4, <2>5, <2>6 DEF UniqueIds
  <2>8. completed' + panicked' = (completed + panicked) + 1
    BY <1>0, <2>1
  <2>9. TP!Finish(task[w].id)
    BY <2>1, <2>6, <2>8 DEF TP!Finish
  <2> QED BY <2>6, <2>7, <2>9 DEF TP!Next
<1>8. ASSUME NEW w \in Worker, report_starvation(w)
      PROVE  UniqueIds' /\ [TP!Next]_(TP!vars)
  <2>1. /\ UNCHANGED <<queue, task, next_id, completed, panicked, cancelled>> /\ pc[w] = "starved"
        /\ pc' = [pc EXCEPT ![w] = "requeue"]
    BY <1>8 DEF report_starvation, Goto
  <2>2. Holders' = Holders
    BY <1>0, <2>1 DEF Holders, Holding
  <2> QED BY <1>a, <2>1, <2>2, SameTasks
<1>9. ASSUME NEW w \in Worker, requeue(w)
      PROVE  UniqueIds' /\ [TP!Next]_(TP!vars)
  <2> DEFINE t == task[w]
             n == Len(queue)
  <2>1. /\ pc[w] = "requeue" /\ queue' = <<t>> \o queue
        /\ UNCHANGED <<task, next_id, completed, panicked, cancelled>>
        /\ pc' = [pc EXCEPT ![w] = "notify_one"]
    BY <1>9 DEF requeue, push_front, Goto
  <2>2. w \in Holders /\ Holders' = Holders \ {w}
    BY <1>0, <2>1 DEF Holders, Holding
  <2>3. t \in Task
    BY <1>0, <2>2
  <2> HIDE DEF t
  <2>4. /\ DOMAIN queue' = 1..(n + 1) /\ queue'[1] = t
        /\ \A i \in 1..n : queue'[i + 1] = queue[i]
    <3>1. <<t>> \in Seq(Task) /\ Len(<<t>>) = 1 /\ <<t>>[1] = t
      BY <2>3
    <3>2. queue' \in Seq(Task) /\ Len(queue') = n + 1
      BY <1>0, <2>1, <3>1, ConcatProperties
    <3> QED BY <1>0, <2>1, <3>1, <3>2, ConcatProperties
  <2>5. DOMAIN queue = 1..n /\ n \in Nat
    BY <1>0
  <2> HIDE DEF n
  <2>6. /\ 1 \in 1..(n + 1) /\ \A i \in 1..n : i + 1 \in 1..(n + 1) /\ i + 1 /= 1
        /\ \A i \in 1..(n + 1) : i = 1 \/ (i - 1 \in 1..n /\ (i - 1) + 1 = i)
    BY <2>5
  <2>7. QueuedIds' = QueuedIds \cup {t.id}
    <3>1. t.id \in QueuedIds' /\ \A x \in QueuedIds : x \in QueuedIds'
      BY <2>4, <2>5, <2>6 DEF QueuedIds
    <3>2. ASSUME NEW x \in QueuedIds', x /= t.id PROVE x \in QueuedIds
      <4>1. PICK i \in 1..(n + 1) : x = queue'[i].id
        BY <2>4 DEF QueuedIds
      <4>2. i - 1 \in 1..n /\ queue'[i] = queue[i - 1]
        BY <2>4, <2>6, <3>2, <4>1
      <4> QED BY <2>5, <4>1, <4>2 DEF QueuedIds
    <3> QED BY <3>1, <3>2
  <2>8. HeldIds' = HeldIds \ {t.id} /\ t.id \in HeldIds
    BY <2>1, <2>2 DEF HeldIds, UniqueIds, t
  <2>9. Outstanding' = Outstanding
    BY <1>00, <2>7, <2>8 DEF Outstanding, QueuedIds, HeldIds
  <2>10. UniqueIds'
    <3>1. \A id \in Outstanding' : id < next_id'
      BY <2>1, <2>9 DEF UniqueIds
    <3>2. ASSUME NEW i \in DOMAIN queue', NEW j \in DOMAIN queue', queue'[i].id = queue'[j].id
          PROVE  i = j
      <4>1. \A l \in 1..n : queue[l].id /= t.id
        BY <2>5, <2>8 DEF QueuedIds, UniqueIds
      <4>2. i = 1 <=> j = 1
        BY <2>4, <2>6, <3>2, <4>1
      <4>3. CASE i /= 1
        <5>1. /\ i - 1 \in 1..n /\ j - 1 \in 1..n
              /\ queue'[i] = queue[i - 1] /\ queue'[j] = queue[j - 1]
          BY <2>4, <2>6, <4>2, <4>3
        <5>2. i - 1 = j - 1
          BY <2>5, <3>2, <5>1 DEF UniqueIds
        <5> QED BY <2>4, <5>2
      <4> QED BY <4>2, <4>3
    <3>3. \A u, v \in Holders' : task'[u].id = task'[v].id => u = v
      BY <2>1, <2>2 DEF UniqueIds
    <3>4. QueuedIds' \cap HeldIds' = {}
      BY <2>7, <2>8 DEF UniqueIds
    <3> QED BY <3>1, <3>2, <3>3, <3>4 DEF UniqueIds
  <2> QED BY <2>1, <2>9, <2>10 DEF TP!vars
<1>10. ASSUME NEW w \in Worker, notify_one(w)
       PROVE  UniqueIds' /\ [TP!Next]_(TP!vars)
  <2>1. /\ UNCHANGED <<queue, task, next_id, completed, panicked, cancelled>> /\ pc[w] = "notify_one"
        /\ \/ pc' = [pc EXCEPT ![w] = "exited"]
           \/ \E v \in Worker : pc[v] = "waiting" /\ pc' = [pc EXCEPT ![w] = "exited", ![v] = "lock"]
    BY <1>10 DEF notify_one, Goto, state
  <2>2. Holders' = Holders
    <3>1. CASE pc' = [pc EXCEPT ![w] = "exited"]
      BY <1>0, <2>1, <3>1 DEF Holders, Holding
    <3>2. ASSUME NEW v \in Worker, pc[v] = "waiting", pc' = [pc EXCEPT ![w] = "exited", ![v] = "lock"]
          PROVE  Holders' = Holders
      BY <1>0, <2>1, <3>2 DEF Holders, Holding
    <3> QED BY <2>1, <3>1, <3>2
  <2> QED BY <1>a, <2>1, <2>2, SameTasks
<1>11. ASSUME NEW w \in Worker, drain_cancelled(w)
       PROVE  UniqueIds' /\ [TP!Next]_(TP!vars)
  <2>1. /\ UNCHANGED <<task, next_id, completed, panicked>> /\ pc[w] = "drain"
        /\ pc' = [pc EXCEPT ![w] = "exited"]
    BY <1>11 DEF drain_cancelled, Goto
  <2>2. Holders' = Holders
    BY <1>0, <2>1 DEF Holders, Holding
  <2>3. CASE poisoned
    <3>1. queue' = queue /\ cancelled' = cancelled
      BY <1>11, <2>3 DEF drain_cancelled
    <3> QED BY <1>a, <2>1, <2>2, <3>1, SameTasks
  <2>4. CASE ~poisoned
    <3>1. queue' = <<>> /\ cancelled' = cancelled + Len(queue)
      BY <1>11, <2>4 DEF drain_cancelled
    <3>2. QueuedIds' = {} /\ HeldIds' = HeldIds
      BY <2>1, <2>2, <3>1 DEF QueuedIds, HeldIds
    <3>3. QueuedIds \subseteq Outstanding /\ Outstanding' = Outstanding \ QueuedIds
      BY <1>00, <3>2 DEF Outstanding, QueuedIds, HeldIds, UniqueIds
    <3>4. Cardinality(QueuedIds) = Len(queue)
      <4> DEFINE f == [i \in 1..Len(queue) |-> queue[i].id]
      <4>1. f \in Bijection(1..Len(queue), QueuedIds)
        <5>1. f \in [1..Len(queue) -> QueuedIds]
          BY <1>0 DEF QueuedIds
        <5>2. \A i, j \in 1..Len(queue) : f[i] = f[j] => i = j
          BY <1>0 DEF UniqueIds
        <5>3. \A x \in QueuedIds : \E i \in 1..Len(queue) : f[i] = x
          BY <1>0 DEF QueuedIds
        <5> HIDE DEF f
        <5> QED BY <5>1, <5>2, <5>3 DEF Bijection, Injection, Surjection, IsInjective
      <4>2. IsFiniteSet(1..Len(queue)) /\ Cardinality(1..Len(queue)) = Len(queue)
        BY <1>0, Segment
      <4>3. ExistsBijection(1..Len(queue), QueuedIds)
        BY <4>1 DEF ExistsBijection
      <4> QED BY <4>2, <4>3, FS_Bijection
    <3>5. UniqueIds'
      <4>1. \A id \in Outstanding' : id < next_id'
        BY <2>1, <3>3 DEF UniqueIds
      <4>2. DOMAIN queue' = {}
        BY <3>1
      <4> QED BY <2>1, <2>2, <3>2, <4>1, <4>2 DEF UniqueIds
    <3>6. TP!Cancel(QueuedIds)
      <4>1. completed' + panicked' = completed + panicked
        BY <2>1
      <4>2. cancelled' = cancelled + Cardinality(QueuedIds)
        BY <3>1, <3>4
      <4>3. TP!Cardinality(QueuedIds) = Cardinality(QueuedIds)
        BY Zenon DEF TP!Cardinality, Cardinality, TP!IsFiniteSet, IsFiniteSet
      <4> QED BY <2>1, <3>3, <4>1, <4>2, <4>3 DEF TP!Cancel
    <3> QED BY <3>3, <3>5, <3>6 DEF TP!Next
  <2> QED BY <2>3, <2>4
<1>12. ASSUME NEW w \in Worker, spurious_wakeup(w)
       PROVE  UniqueIds' /\ [TP!Next]_(TP!vars)
  <2>1. /\ UNCHANGED <<queue, task, next_id, completed, panicked, cancelled>> /\ pc[w] = "waiting"
        /\ pc' = [pc EXCEPT ![w] = "lock"]
    BY <1>12 DEF spurious_wakeup, Goto, state
  <2>2. Holders' = Holders
    BY <1>0, <2>1 DEF Holders, Holding
  <2> QED BY <1>a, <2>1, <2>2, SameTasks
<1> QED
  BY <1>1, <1>2, <1>3, <1>4, <1>5, <1>6, <1>7, <1>8, <1>9, <1>10, <1>11, <1>12
  DEF Next, running, worker_loop

\* Whatever the threads do, the pool is a TaskPool: a task ends once, run or
\* dropped, and the tallies count exactly those ends. A task a starved worker
\* gave back is neither run twice nor dropped without being counted.
THEOREM PoolImplementsTaskPool == Spec => ImplementsTaskPool
<1>1. Init => TP!Init /\ UniqueIds /\ JoinedAreGone
  <2> SUFFICES ASSUME Init PROVE TP!Init /\ UniqueIds /\ JoinedAreGone
    OBVIOUS
  <2>1. Holders = {} /\ DOMAIN queue = {}
    BY DEF Init, Holders, Holding
  <2>2. QueuedIds = {} /\ HeldIds = {} /\ Outstanding = {}
    BY <2>1 DEF QueuedIds, HeldIds, Outstanding
  <2>3. TP!Init
    BY <2>2 DEF Init, TP!Init
  <2>4. UniqueIds
    BY <2>1, <2>2 DEF UniqueIds
  <2> QED BY <2>3, <2>4 DEF Init, JoinedAreGone
<1>2. TInv /\ JoinedAreGone /\ UniqueIds /\ [Next]_vars => UniqueIds' /\ [TP!Next]_(TP!vars)
  BY RefineStep
<1> QED
  BY <1>1, <1>2, TInvInit, TInvStep, JoinedAreGoneStep, PTL
  DEF Spec, ImplementsTaskPool, TP!Spec
----------------------------------------------------------------------------
(***************************************************************************)
(* The contract of a pool that ran once.                                   *)
(***************************************************************************)

Running == {w \in Worker : pc[w] = "body"}

\* The pops of this run that a worker's cap allowed, one pair for each.
Pops == {p \in Worker \X (1..StepCap) : p[2] <= local_steps[p[1]]}

\* What holds while the first run is on its way: each allowed pop is a body
\* that ran or runs; a cap no smaller than the number of tasks is never hit;
\* threads die and mutexes are poisoned only by panics; and without either,
\* a worker that left saw the queue empty for good.
FirstRun ==
  /\ report = NoReport
  /\ completed + panicked + Cardinality(Running) = Cardinality(Pops)
  /\ \A w \in Worker : w > workers => local_steps[w] = 0
  /\ accepted <= StepCap
       => \A w \in Worker : pc[w] \notin {"starved", "requeue", "notify_one"}
  /\ poisoned \/ (\E w \in Worker : pc[w] = "died") => panicked > 0
  /\ accepted <= StepCap /\ panicked = 0
       /\ (\E w \in Worker : pc[w] \in {"drain", "exited"})
       => queue = <<>>

ContractInv ==
  /\ runs = 0 => /\ main = "idle" /\ report = NoReport
                 /\ completed = 0 /\ panicked = 0 /\ ~poisoned
  /\ main /= "idle" => workers > 0
  /\ runs = 1 /\ main /= "idle" => FirstRun
  /\ PoolContract

\* The pops are finitely many, no more than the caps of the workers that were
\* spawned, and no fewer than the cap of a worker that used it up.
LEMMA PopCount ==
  ASSUME TInv
  PROVE  /\ StepCap \in Nat /\ IsFiniteSet(Pops) /\ Cardinality(Pops) \in Nat
         /\ (\A w \in Worker : w > workers => local_steps[w] = 0)
              => Cardinality(Pops) <= workers * StepCap
         /\ \A w \in Worker : local_steps[w] >= StepCap => StepCap <= Cardinality(Pops)
<1>1. /\ StepCap \in Nat /\ workers \in Nat /\ workers <= MAX_WORKERS
      /\ MAX_WORKERS \in Nat /\ local_steps \in [Worker -> Nat]
  BY PoolAssumption DEF TInv, TypeOK, StepCap
<1>2. IsFiniteSet(Pops) /\ Cardinality(Pops) \in Nat
  <2>1. IsFiniteSet(Worker \X (1..StepCap))
    BY <1>1, Segment, FS_Product DEF Worker
  <2>2. Pops \in SUBSET (Worker \X (1..StepCap))
    BY DEF Pops
  <2> QED BY <2>1, <2>2, FS_Subset, FS_CardinalityType
<1>3. ASSUME \A w \in Worker : w > workers => local_steps[w] = 0
      PROVE  Cardinality(Pops) <= workers * StepCap
  <2>1. Pops \in SUBSET ((1..workers) \X (1..StepCap))
    <3>1. ASSUME NEW p \in Pops PROVE p \in (1..workers) \X (1..StepCap)
      <4>1. /\ p = <<p[1], p[2]>> /\ p[1] \in Worker /\ p[2] \in 1..StepCap
            /\ p[2] <= local_steps[p[1]]
        BY <3>1 DEF Pops
      <4>2. p[1] \in Nat /\ p[1] >= 1 /\ p[2] \in Nat /\ p[2] >= 1
        BY <1>1, <4>1 DEF Worker
      <4>3. p[1] <= workers
        BY <1>1, <1>3, <4>1, <4>2
      <4> QED BY <1>1, <4>1, <4>2, <4>3
    <3> QED BY <3>1
  <2>2. /\ IsFiniteSet((1..workers) \X (1..StepCap))
        /\ Cardinality((1..workers) \X (1..StepCap)) = workers * StepCap
    <3>1. /\ IsFiniteSet(1..workers) /\ Cardinality(1..workers) = workers
          /\ IsFiniteSet(1..StepCap) /\ Cardinality(1..StepCap) = StepCap
      BY <1>1, Segment
    <3>2. /\ IsFiniteSet((1..workers) \X (1..StepCap))
          /\ Cardinality((1..workers) \X (1..StepCap))
               = Cardinality(1..workers) * Cardinality(1..StepCap)
      BY <3>1, FS_Product, Zenon
    <3> QED BY <3>1, <3>2
  <2> QED BY <2>1, <2>2, FS_Subset
<1>4. ASSUME NEW w \in Worker, local_steps[w] >= StepCap
      PROVE  StepCap <= Cardinality(Pops)
  <2>1. {w} \X (1..StepCap) \in SUBSET Pops
    BY <1>1, <1>4 DEF Pops
  <2>2. Cardinality({w} \X (1..StepCap)) = 1 * StepCap
    <3>1. /\ IsFiniteSet({w}) /\ Cardinality({w}) = 1
          /\ IsFiniteSet(1..StepCap) /\ Cardinality(1..StepCap) = StepCap
      BY <1>1, Segment, FS_Singleton
    <3> QED BY <3>1, FS_Product, ZenonT(40)
  <2>3. Cardinality({w} \X (1..StepCap)) <= Cardinality(Pops)
    BY <1>2, <2>1, FS_Subset
  <2> QED BY <1>1, <2>2, <2>3
<1> QED BY <1>1, <1>2, <1>3, <1>4

\* What the bodies that run have popped is no longer on the queue.
LEMMA RunningFacts ==
  ASSUME TInv
  PROVE  /\ IsFiniteSet(Running) /\ Cardinality(Running) \in Nat
         /\ Cardinality(Holders) \in Nat /\ Cardinality(Running) <= Cardinality(Holders)
<1>1. Running \in SUBSET Worker /\ Holders \in SUBSET Worker /\ Running \in SUBSET Holders
  BY DEF Running, Holders, Holding
<1> QED BY <1>1, WorkersAreFinite, FS_Subset

\* A step that moves no worker in or out of a place FirstRun speaks of.
LEMMA FirstRunFrame ==
  ASSUME TInv, FirstRun, Running' = Running,
         \A w \in Worker : pc'[w] = pc[w]
           \/ pc'[w] \notin {"starved", "requeue", "notify_one", "died", "drain", "exited"},
         UNCHANGED <<completed, panicked, accepted, queue, poisoned, budget, workers,
                     report, local_steps>>
  PROVE  FirstRun'
<1>1. StepCap' = StepCap /\ Pops' = Pops
  BY DEF StepCap, Pops
<1> QED BY <1>1 DEF FirstRun

LEMMA ContractStep ==
  TInv /\ JoinedAreGone /\ Accounting /\ ContractInv /\ [Next]_vars => ContractInv'
<1> SUFFICES ASSUME TInv, JoinedAreGone, Accounting, ContractInv, [Next]_vars
             PROVE  ContractInv'
  OBVIOUS
<1>0. /\ completed \in Nat /\ panicked \in Nat /\ accepted \in Nat /\ cancelled \in Nat
      /\ runs \in Nat /\ workers \in Nat /\ Len(queue) \in Nat /\ budget \in Nat
      /\ local_steps \in [Worker -> Nat] /\ pc \in [Worker -> WorkerPcs]
      /\ StepScale \in Nat /\ StepCap \in Nat /\ StepCap = budget * StepScale
  BY LenProperties, PoolAssumption DEF TInv, TypeOK, StepCap
<1>a. ASSUME main' = "idle", main = "idle",
             UNCHANGED <<runs, report, completed, panicked, poisoned, budget>>
      PROVE  ContractInv'
  BY <1>a DEF ContractInv, PoolContract
<1>b. ASSUME main /= "idle", main' /= "idle", UNCHANGED <<runs, report, budget, workers>>,
             runs = 1 /\ FirstRun => FirstRun'
      PROVE  ContractInv'
  <2>1. PoolContract'
    BY <1>b DEF ContractInv, PoolContract
  <2> QED BY <1>b, <2>1 DEF ContractInv
<1>c. ASSUME NEW w \in Worker, pc[w] \in Live, UNCHANGED caller, FirstRun => FirstRun'
      PROVE  ContractInv'
  <2>1. main /= "idle"
    BY <1>c DEF JoinedAreGone, Ended, Live
  <2> QED BY <1>b, <1>c, <2>1 DEF caller
<1>1. ASSUME NEW body \in Bodies, submit(body) PROVE ContractInv'
  BY <1>1, <1>a DEF submit, caller
<1>2. CASE request_shutdown
  BY <1>2, <1>a DEF request_shutdown, caller
<1>3. CASE run_without_workers
  <2>1. /\ main = "idle" /\ main' = "idle" /\ runs' = runs + 1 /\ report' = finalise_report(0)
        /\ budget' = budget
    BY <1>3 DEF run_without_workers
  <2>2. /\ report'.worker_count = 0 /\ report'.completed = completed
        /\ report'.panicked = panicked /\ report'.cancelled = cancelled
        /\ report'.total_tasks = accepted
        /\ completed + panicked + cancelled < accepted => "A0011" \in report'.diagnostics
    BY <2>1 DEF finalise_report, Executed
  <2>3. ASSUME runs' = 1 PROVE completed = 0 /\ panicked = 0
    BY <1>0, <2>1, <2>3 DEF ContractInv
  <2>4. 0 * budget * StepScale = 0
    BY <1>0
  <2>5. PoolContract'
    BY <1>0, <2>1, <2>2, <2>3, <2>4 DEF PoolContract
  <2> QED BY <1>0, <2>1, <2>5 DEF ContractInv
<1>4. ASSUME NEW n \in 1..(MAX_WORKERS + 1), NEW b \in StepBudgets, run(n, b)
      PROVE  ContractInv'
  <2>1. /\ main = "idle" /\ main' = "shutdown" /\ runs' = runs + 1 /\ report' = report
        /\ UNCHANGED <<completed, panicked, queue, poisoned>>
        /\ pc' \in [Worker -> {"lock", "none"}] /\ local_steps' = [w \in Worker |-> 0]
    BY <1>4 DEF run
  <2>2. workers' > 0
    BY <1>4, PoolAssumption DEF run, effective_workers
  <2>3. ASSUME runs' = 1 PROVE FirstRun' /\ report' = NoReport
    <3>1. report = NoReport /\ completed = 0 /\ panicked = 0 /\ ~poisoned
      BY <1>0, <2>1, <2>3 DEF ContractInv
    <3>2. Running' = {}
      BY <2>1 DEF Running
    <3>3. Pops' = {}
      <4>1. ASSUME NEW p \in Pops' PROVE FALSE
        <5>1. p[1] \in Worker /\ p[2] \in 1..StepCap' /\ p[2] <= local_steps'[p[1]]
          BY <4>1 DEF Pops
        <5>2. StepCap' \in Nat
          BY <1>4, PoolAssumption DEF run, StepCap
        <5> QED BY <2>1, <5>1, <5>2
      <4> QED BY <4>1
    <3>4. completed' + panicked' + Cardinality(Running') = Cardinality(Pops')
      BY <2>1, <3>1, <3>2, <3>3, FS_EmptySet
    <3>5. \A w \in Worker : local_steps'[w] = 0
      BY <2>1
    <3>6. \A w \in Worker : pc'[w] \in {"lock", "none"}
      BY <2>1
    <3> QED BY <2>1, <3>1, <3>4, <3>5, <3>6 DEF FirstRun
  <2>4. PoolContract'
    BY <2>3 DEF PoolContract
  <2> QED BY <1>0, <2>1, <2>2, <2>3, <2>4 DEF ContractInv
<1>5. CASE set_shutdown \/ check_deadline \/ join \/ DeadlinePasses
  <2>1. /\ main /= "idle" /\ main' /= "idle" /\ pc' = pc
        /\ UNCHANGED <<runs, report, budget, workers>>
        /\ UNCHANGED <<completed, panicked, accepted, queue, poisoned, local_steps>>
    BY <1>5 DEF set_shutdown, check_deadline, join, DeadlinePasses, state, threads
  <2>2. Running' = Running
    BY <2>1 DEF Running
  <2> QED BY <1>b, <2>1, <2>2, FirstRunFrame
<1>6. CASE notify_all
  <2>1. /\ main /= "idle" /\ main' /= "idle" /\ pc' = Awake
        /\ UNCHANGED <<runs, report, budget, workers>>
        /\ UNCHANGED <<completed, panicked, accepted, queue, poisoned, local_steps>>
    BY <1>6 DEF notify_all, state
  <2>2. Running' = Running
    BY <2>1 DEF Running, Awake
  <2>3. \A w \in Worker : pc'[w] = pc[w] \/ pc'[w] = "lock"
    BY <2>1 DEF Awake
  <2> QED BY <1>b, <2>1, <2>2, <2>3, FirstRunFrame
<1>7. CASE make_report
  <2>1. /\ main = "report" /\ main' = "idle" /\ report' = finalise_report(workers)
        /\ UNCHANGED <<runs, budget>>
    BY <1>7 DEF make_report
  <2>2. /\ report'.worker_count = workers /\ report'.completed = completed
        /\ report'.panicked = panicked /\ report'.cancelled = cancelled
        /\ report'.total_tasks = accepted
        /\ completed + panicked + cancelled < accepted => "A0011" \in report'.diagnostics
    BY <2>1 DEF finalise_report, Executed
  <2>3. ASSUME runs = 1, panicked = 0
        PROVE  /\ completed <= workers * budget * StepScale
               /\ accepted <= budget * StepScale => completed + cancelled = accepted
    <3>1. FirstRun /\ workers > 0
      BY <2>1, <2>3 DEF ContractInv
    <3>2. joined = workers
      BY <2>1 DEF TInv, JoinsInOrder
    <3>3. \A w \in Worker : pc[w] \in Ended \cup {"none"}
      BY <1>0, <2>1, <3>2 DEF JoinedAreGone, Worker
    <3>4. Holders = {} /\ Running = {}
      BY <3>3 DEF Holders, Holding, Running, Ended
    <3>5. Cardinality(Holders) = 0 /\ Cardinality(Running) = 0
      BY <3>4, FS_EmptySet
    <3>6. completed <= workers * StepCap
      BY <1>0, <2>3, <3>1, <3>5, PopCount DEF FirstRun
    <3>7. workers * StepCap = workers * budget * StepScale
      BY <1>0
    <3>8. ASSUME accepted <= budget * StepScale PROVE completed + cancelled = accepted
      <4>1. 1 \in Worker /\ 1 <= joined
        BY <1>0, <3>1, <3>2, PoolAssumption DEF Worker
      <4>2. pc[1] = "exited"
        BY <1>0, <2>1, <2>3, <3>1, <4>1 DEF JoinedAreGone, Ended, FirstRun
      <4>3. queue = <<>>
        BY <1>0, <2>3, <3>1, <3>8, <4>1, <4>2 DEF FirstRun
      <4>4. Len(queue) = 0
        BY <4>3
      <4> QED BY <1>0, <2>3, <3>5, <4>4 DEF Accounting
    <3> QED BY <3>6, <3>7, <3>8
  <2>4. PoolContract'
    <3>1. SUFFICES ASSUME runs = 1, panicked = 0
                   PROVE /\ completed <= workers * budget * StepScale
                         /\ accepted <= budget * StepScale => completed + cancelled = accepted
                         /\ completed + cancelled < accepted => "A0011" \in report'.diagnostics
      BY <2>1, <2>2 DEF PoolContract
    <3>2. completed + cancelled < accepted => completed + panicked + cancelled < accepted
      BY <1>0, <3>1
    <3> QED BY <2>2, <2>3, <3>1, <3>2
  <2> QED BY <2>1, <2>4 DEF ContractInv
<1>8. ASSUME NEW w \in Worker, pop_front(w) PROVE ContractInv'
  <2>1. /\ pc[w] = "lock" /\ queue /= <<>> /\ queue' = Tail(queue) /\ UNCHANGED caller
        /\ UNCHANGED <<accepted, completed, panicked, cancelled, poisoned>>
        /\ local_steps' = [local_steps EXCEPT ![w] = @ + 1]
        /\ pc' = [pc EXCEPT ![w] = IF local_steps[w] + 1 > StepCap THEN "starved" ELSE "body"]
    BY <1>8 DEF pop_front, Goto
  <2>2. pc[w] \in Live
    BY <2>1 DEF Live, WorkerPcs
  <2>3. ASSUME FirstRun PROVE FirstRun'
    <3>1. report' = report /\ workers' = workers /\ StepCap' = StepCap
      BY <2>1 DEF caller, StepCap
    <3>2. \A v \in Worker : local_steps'[v] = IF v = w THEN local_steps[w] + 1 ELSE local_steps[v]
      BY <1>0, <2>1
    <3>3. w <= workers
      <4>1. main /= "idle"
        BY <2>1 DEF JoinedAreGone, Ended
      <4> QED BY <1>0, <2>1, <4>1 DEF JoinedAreGone, Worker
    <3>4. \A v \in Worker : v > workers' => local_steps'[v] = 0
      BY <1>0, <2>3, <3>1, <3>2, <3>3 DEF FirstRun, Worker
    <3>5. Len(queue) >= 1
      BY <1>0, <2>1
    <3>6. CASE local_steps[w] + 1 > StepCap
      <4>1. pc' = [pc EXCEPT ![w] = "starved"] /\ Running' = Running
        BY <1>0, <2>1, <3>6 DEF Running
      <4>2. Pops' = Pops
        <5>1. \A p \in Worker \X (1..StepCap) : p[2] <= local_steps'[p[1]] <=> p[2] <= local_steps[p[1]]
          <6> SUFFICES ASSUME NEW v \in Worker, NEW k \in 1..StepCap
                       PROVE  k <= local_steps'[v] <=> k <= local_steps[v]
            OBVIOUS
          <6> QED BY <1>0, <3>2, <3>6
        <5> QED BY <3>1, <5>1 DEF Pops
      <4>3. accepted > StepCap
        <5>1. StepCap <= Cardinality(Pops)
          BY <1>0, <3>6, PopCount
        <5>2. StepCap <= completed + panicked + Cardinality(Running)
          BY <2>3, <5>1 DEF FirstRun
        <5> QED BY <1>0, <3>5, <5>2, RunningFacts DEF Accounting
      <4>4. \A v \in Worker : pc'[v] = "died" => pc[v] = "died"
        BY <1>0, <4>1
      <4>5. completed' + panicked' + Cardinality(Running') = Cardinality(Pops')
        BY <2>1, <2>3, <4>1, <4>2 DEF FirstRun
      <4>6. accepted' > StepCap' /\ ~(accepted' <= StepCap')
        BY <1>0, <2>1, <3>1, <4>3
      <4> QED BY <2>1, <2>3, <3>1, <3>4, <4>4, <4>5, <4>6 DEF FirstRun
    <3>7. CASE ~(local_steps[w] + 1 > StepCap)
      <4> DEFINE q == <<w, local_steps[w] + 1>>
      <4>1. pc' = [pc EXCEPT ![w] = "body"]
        BY <2>1, <3>7
      <4>2. w \notin Running /\ Running' = Running \cup {w}
        BY <1>0, <2>1, <4>1 DEF Running
      <4>3. q \notin Pops /\ Pops' = Pops \cup {q}
        <5>1. q \in Worker \X (1..StepCap)
          BY <1>0, <3>7
        <5>2. \A v \in Worker, k \in 1..StepCap :
                k <= local_steps'[v] <=> k <= local_steps[v] \/ (v = w /\ k = local_steps[w] + 1)
          BY <1>0, <3>2
        <5>3. \A p \in Worker \X (1..StepCap) :
                p[2] <= local_steps'[p[1]] <=> p[2] <= local_steps[p[1]] \/ p = q
          BY <5>2
        <5>4. ~(local_steps[w] + 1 <= local_steps[w])
          BY <1>0
        <5>5. q[1] = w /\ q[2] = local_steps[w] + 1
          OBVIOUS
        <5> HIDE DEF q
        <5> QED BY <3>1, <5>1, <5>3, <5>4, <5>5 DEF Pops
      <4>4. Cardinality(Running') = Cardinality(Running) + 1
        BY <4>2, RunningFacts, FS_AddElement
      <4>5. Cardinality(Pops') = Cardinality(Pops) + 1
        BY <4>3, PopCount, FS_AddElement
      <4>6. completed' + panicked' + Cardinality(Running') = Cardinality(Pops')
        BY <1>0, <2>1, <2>3, <4>4, <4>5, PopCount, RunningFacts DEF FirstRun
      <4>7. \A v \in Worker : pc'[v] = pc[v] \/ pc'[v] = "body"
        BY <1>0, <4>1
      <4>8. accepted <= StepCap /\ panicked = 0
              => \A v \in Worker : pc[v] \notin {"drain", "exited"}
        BY <2>1, <2>3 DEF FirstRun
      <4> QED BY <2>1, <2>3, <3>1, <3>4, <4>6, <4>7, <4>8 DEF FirstRun
    <3> QED BY <3>6, <3>7
  <2> QED BY <1>c, <2>1, <2>2, <2>3
<1>9. ASSUME NEW w \in Worker, see_empty(w) PROVE ContractInv'
  <2>1. /\ pc[w] = "lock" /\ queue = <<>> /\ UNCHANGED caller
        /\ UNCHANGED <<queue, accepted, completed, panicked, poisoned, local_steps>>
        /\ pc' = [pc EXCEPT ![w] = IF shutdown THEN "drain" ELSE "waiting"]
    BY <1>9 DEF see_empty, NothingToPop, Goto
  <2>2. pc[w] \in Live
    BY <2>1 DEF Live, WorkerPcs
  <2>3. ASSUME FirstRun PROVE FirstRun'
    <3>1. report' = report /\ workers' = workers /\ StepCap' = StepCap /\ Pops' = Pops
      BY <2>1 DEF caller, StepCap, Pops
    <3>2. Running' = Running
      BY <1>0, <2>1 DEF Running
    <3>3. \A v \in Worker : pc'[v] = pc[v] \/ pc'[v] \in {"drain", "waiting"}
      BY <1>0, <2>1
    <3> QED BY <2>1, <2>3, <3>1, <3>2, <3>3 DEF FirstRun
  <2> QED BY <1>c, <2>1, <2>2, <2>3
<1>10. ASSUME NEW w \in Worker, record_outcome(w) PROVE ContractInv'
  <2>1. /\ pc[w] = "body" /\ UNCHANGED caller /\ UNCHANGED <<queue, accepted, local_steps>>
        /\ \/ /\ completed' = completed + 1 /\ panicked' = panicked /\ poisoned' = poisoned
              /\ pc' = [pc EXCEPT ![w] = "lock"]
           \/ /\ completed' = completed /\ panicked' = panicked + 1
              /\ \E place \in {"lock", "died"} : pc' = [pc EXCEPT ![w] = place]
    BY <1>10 DEF record_outcome, Goto
  <2>2. pc[w] \in Live
    BY <2>1 DEF Live, WorkerPcs
  <2>3. ASSUME FirstRun PROVE FirstRun'
    <3>1. report' = report /\ workers' = workers /\ StepCap' = StepCap /\ Pops' = Pops
      BY <2>1 DEF caller, StepCap, Pops
    <3>2. w \in Running /\ Running' = Running \ {w}
      BY <1>0, <2>1 DEF Running
    <3>3. Cardinality(Running') = Cardinality(Running) - 1
      BY <3>2, RunningFacts, FS_RemoveElement
    <3>4. completed' + panicked' = completed + panicked + 1
      BY <1>0, <2>1
    <3>5. completed' + panicked' + Cardinality(Running') = Cardinality(Pops')
      BY <1>0, <2>3, <3>1, <3>3, <3>4, PopCount, RunningFacts DEF FirstRun
    <3>6. \A v \in Worker : pc'[v] = pc[v] \/ pc'[v] \in {"lock", "died"}
      BY <1>0, <2>1
    <3>7. CASE completed' = completed + 1 /\ panicked' = panicked /\ poisoned' = poisoned
                 /\ pc' = [pc EXCEPT ![w] = "lock"]
      <4>1. \A v \in Worker : pc'[v] = pc[v] \/ pc'[v] = "lock"
        BY <1>0, <3>7
      <4> QED BY <2>1, <2>3, <3>1, <3>5, <3>7, <4>1 DEF FirstRun
    <3>8. CASE panicked' = panicked + 1
      <4>1. panicked' > 0 /\ panicked' /= 0
        BY <1>0, <3>8
      <4> QED BY <2>1, <2>3, <3>1, <3>5, <3>6, <4>1 DEF FirstRun
    <3> QED BY <2>1, <3>7, <3>8
  <2> QED BY <1>c, <2>1, <2>2, <2>3
<1>11. ASSUME NEW w \in Worker, report_starvation(w) \/ requeue(w) \/ notify_one(w)
       PROVE ContractInv'
  <2>1. /\ pc[w] \in {"starved", "requeue", "notify_one"} /\ UNCHANGED caller
        /\ UNCHANGED <<accepted, completed, panicked, poisoned, local_steps>>
    BY <1>11 DEF report_starvation, requeue, notify_one, state
  <2>2. pc[w] \in Live
    BY <2>1 DEF Live, WorkerPcs
  <2>3. Running' = Running /\ \A v \in Worker : pc'[v] = "died" => pc[v] = "died"
    <3>1. CASE report_starvation(w)
      BY <1>0, <3>1 DEF report_starvation, Goto, Running
    <3>2. CASE requeue(w)
      BY <1>0, <3>2 DEF requeue, Goto, Running
    <3>3. CASE notify_one(w)
      <4>1. CASE pc' = [pc EXCEPT ![w] = "exited"]
        BY <1>0, <2>1, <4>1 DEF Running
      <4>2. ASSUME NEW v \in Worker, pc[v] = "waiting", pc' = [pc EXCEPT ![w] = "exited", ![v] = "lock"]
            PROVE  Running' = Running /\ \A u \in Worker : pc'[u] = "died" => pc[u] = "died"
        BY <1>0, <2>1, <4>2 DEF Running
      <4> QED BY <3>3, <4>1, <4>2 DEF notify_one, Goto
    <3> QED BY <1>11, <3>1, <3>2, <3>3
  <2>4. ASSUME FirstRun PROVE FirstRun'
    <3>1. report' = report /\ workers' = workers /\ StepCap' = StepCap /\ Pops' = Pops
      BY <2>1 DEF caller, StepCap, Pops
    <3>2. ~(accepted <= StepCap)
      BY <2>1, <2>4 DEF FirstRun
    <3> QED BY <2>1, <2>3, <2>4, <3>1, <3>2 DEF FirstRun
  <2> QED BY <1>c, <2>1, <2>2, <2>4
<1>12. ASSUME NEW w \in Worker, drain_cancelled(w) PROVE ContractInv'
  <2>1. /\ pc[w] = "drain" /\ UNCHANGED caller /\ pc' = [pc EXCEPT ![w] = "exited"]
        /\ UNCHANGED <<accepted, completed, panicked, poisoned, local_steps>>
        /\ queue' = queue \/ queue' = <<>>
    BY <1>12 DEF drain_cancelled, Goto
  <2>2. pc[w] \in Live
    BY <2>1 DEF Live, WorkerPcs
  <2>3. ASSUME FirstRun PROVE FirstRun'
    <3>1. report' = report /\ workers' = workers /\ StepCap' = StepCap /\ Pops' = Pops
      BY <2>1 DEF caller, StepCap, Pops
    <3>2. Running' = Running
      BY <1>0, <2>1 DEF Running
    <3>3. \A v \in Worker : pc'[v] = pc[v] \/ pc'[v] = "exited"
      BY <1>0, <2>1
    <3> QED BY <2>1, <2>3, <3>1, <3>2, <3>3 DEF FirstRun
  <2> QED BY <1>c, <2>1, <2>2, <2>3
<1>13. ASSUME NEW w \in Worker, spurious_wakeup(w) PROVE ContractInv'
  <2>1. /\ pc[w] = "waiting" /\ UNCHANGED caller /\ pc' = [pc EXCEPT ![w] = "lock"]
        /\ UNCHANGED <<completed, panicked, accepted, queue, poisoned, local_steps>>
    BY <1>13 DEF spurious_wakeup, Goto, state
  <2>2. pc[w] \in Live
    BY <2>1 DEF Live, WorkerPcs
  <2>3. Running' = Running /\ \A v \in Worker : pc'[v] = pc[v] \/ pc'[v] = "lock"
    BY <1>0, <2>1 DEF Running
  <2>4. UNCHANGED <<budget, workers, report>>
    BY <2>1 DEF caller
  <2> QED BY <1>c, <2>1, <2>2, <2>3, <2>4, FirstRunFrame
<1>14. CASE UNCHANGED vars
  <2>1. /\ UNCHANGED <<main, runs, report, completed, panicked, poisoned, budget, workers>>
        /\ UNCHANGED <<accepted, queue, local_steps>> /\ pc' = pc
    BY <1>14 DEF vars, state, threads, caller
  <2>2. Running' = Running
    BY <2>1 DEF Running
  <2> QED BY <1>a, <1>b, <2>1, <2>2, FirstRunFrame
<1> QED
  BY <1>1, <1>2, <1>3, <1>4, <1>5, <1>6, <1>7, <1>8, <1>9, <1>10, <1>11, <1>12, <1>13, <1>14
  DEF Next, running, worker_loop

\* What a pool that ran once reports when no body panicked, whatever the threads
\* do: no worker exceeds its budget, a budget that suffices for one worker leaves
\* nothing unrun, and what is missing from the tallies is announced as A0011.
THEOREM ContractHolds == Spec => []PoolContract
<1>1. Init => JoinedAreGone /\ ContractInv
  BY DEF Init, JoinedAreGone, ContractInv, PoolContract
<1>2. ContractInv => PoolContract
  BY DEF ContractInv
<1> QED
  BY <1>1, <1>2, TInvInit, TInvStep, JoinedAreGoneStep, TasksAreAccounted,
     ContractStep, PTL DEF Spec
============================================================================
