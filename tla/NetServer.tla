----------------------------- MODULE NetServer -----------------------------
(***************************************************************************)
(* The TCP server of crates/ori-compiler/src/net_io.rs: an accept thread   *)
(* that polls the listener and queues connections, a fixed pool of worker  *)
(* threads that run the handler on them, and the caller's shutdown.        *)
(*                                                                         *)
(* The queue is behind a mutex with a condition variable; the shutdown     *)
(* flag, the counters and active_workers are atomics that every thread     *)
(* reads and writes without it. Every critical section and every access to *)
(* an atomic that another thread can tell apart is a step of its own.      *)
(*                                                                         *)
(* A connection is its id. A handler is abstracted to how it ends: it      *)
(* returns (Ok or Err, which the server counts alike), it panics, or it    *)
(* panics with a payload whose destructor panics too, outside of           *)
(* catch_unwind, which ends the worker. No code panics with the mutex held.*)
(***************************************************************************)
EXTENDS Integers, Sequences, FiniteSets

CONSTANTS
  MAX_PENDING_CONNECTIONS,   \* 256 in the code: caps the queue and the workers
  HandlerEnds,               \* the ways a handler may end
  MaxConnections             \* bound on the connections clients make

ASSUME NetAssumption ==
  /\ MAX_PENDING_CONNECTIONS \in Nat \ {0}
  /\ HandlerEnds \subseteq {"returns", "panics", "payload_drop_panics"}
  /\ MaxConnections \in Nat

VARIABLES
  queue,            \* the connections not yet popped, front first
  shutdown,         \* the flag
  next_id, accepted, completed, panicked, rejected,
  diagnostics,
  active_workers,   \* the workers that say they are inside a handler
  accept_pc, conn,  \* where the accept thread is, and the connection it holds
  pc, held,         \* where each worker is, and the connection it popped last
  main,             \* where the caller is in serve and shutdown
  expired,          \* the grace window of shutdown is over
  pending_at_deadline,
  joined,           \* the number of worker handles joined
  report,           \* what shutdown returned
  found             \* history: what was queued when the flag was set

counters == <<accepted, completed, panicked, rejected>>
acceptor == <<next_id, accept_pc, conn>>
workers == <<pc, held>>
closing == <<main, expired, pending_at_deadline, joined, report, found>>
vars == <<queue, shutdown, counters, diagnostics, active_workers, acceptor,
          workers, closing>>

Worker == 1..MAX_PENDING_CONNECTIONS
NoConnection == -1
NoReport == [accepted |-> -1]

AcceptPcs == {"none", "check", "accept", "count", "push", "reject",
              "note_reject", "note_error", "returned"}
\* "popped" is between the pop and the increment of active_workers; the three
\* ways a handler ends are places too, before the outcome is counted.
WorkerPcs == {"none", "lock", "waiting", "popped", "handler", "returns", "panics",
              "payload_drop_panics", "note_panic", "note_last_panic", "exited",
              "died"}
MainPcs == {"unbound", "serving", "notify", "join_accept", "notify_again", "poll",
            "poll_queue", "poll_clock", "take_handles", "join", "record",
            "report", "done"}
Ended == {"exited", "died"}
Codes == {"NET0002", "NET0003", "NET0004", "NET0005"}

\* The workers that own a connection the counters do not count yet.
Holding == {"popped", "handler", "returns", "panics", "payload_drop_panics"}
Holders == {w \in Worker : pc[w] \in Holding}
\* The accept thread has counted its connection and not yet disposed of it.
InFlight == IF accept_pc \in {"push", "reject"} THEN 1 ELSE 0
Queued == {queue[i] : i \in DOMAIN queue}
----------------------------------------------------------------------------
Goto(w, place) == pc' = [pc EXCEPT ![w] = place]

\* What notify_all makes of the workers.
Awake == [w \in Worker |-> IF pc[w] = "waiting" THEN "lock" ELSE pc[w]]

\* Mutant: nobody is woken.
notify_one_mutant == UNCHANGED pc

\* One of the waiting workers is woken, if there is one.
notify_one ==
  IF \E w \in Worker : pc[w] = "waiting"
    THEN \E w \in Worker : pc[w] = "waiting" /\ Goto(w, "lock")
    ELSE UNCHANGED pc

queue_full == Len(queue) >= MAX_PENDING_CONNECTIONS

after_pop == Tail(queue)

\* Mutant: the flag is tested before the queue.
nothing_to_pop_mutant == queue = <<>> \/ shutdown

nothing_to_pop == queue = <<>>

\* Mutant: a woken worker does not look at the flag.
idle_place_mutant == "waiting"

\* Where a worker goes that found no connection.
idle_place == IF shutdown THEN "exited" ELSE "waiting"

Init ==
  /\ queue = <<>> /\ shutdown = FALSE
  /\ next_id = 0 /\ accepted = 0 /\ completed = 0 /\ panicked = 0 /\ rejected = 0
  /\ diagnostics = {} /\ active_workers = 0
  /\ accept_pc = "none" /\ conn = NoConnection
  /\ pc = [w \in Worker |-> "none"] /\ held = [w \in Worker |-> NoConnection]
  /\ main = "unbound" /\ expired = FALSE /\ pending_at_deadline = 0
  /\ joined = 0 /\ report = NoReport /\ found = {}

\* serve with a listener that binds; the pool is clamped to the cap. No worker, or a
\* bind that fails, is an error that leaves nothing behind.
serve(requested) ==
  /\ main = "unbound" /\ requested > 0
  /\ pc' = [w \in Worker |-> IF w <= requested THEN "lock" ELSE "none"]
  /\ accept_pc' = "check"
  /\ main' = "serving"
  /\ UNCHANGED <<queue, shutdown, counters, diagnostics, active_workers, next_id,
                 conn, held, expired, pending_at_deadline, joined, report, found>>
----------------------------------------------------------------------------
(***************************************************************************)
(* accept_loop.                                                            *)
(***************************************************************************)
AcceptKeeps == UNCHANGED <<shutdown, completed, panicked, active_workers, held,
                           closing>>

check_shutdown ==
  /\ accept_pc = "check"
  /\ accept_pc' = IF shutdown THEN "returned" ELSE "accept"
  /\ AcceptKeeps
  /\ UNCHANGED <<queue, accepted, rejected, diagnostics, next_id, conn, pc>>

\* accept found a client; the connection gets its id ...
accept_ok ==
  /\ accept_pc = "accept" /\ next_id < MaxConnections
  /\ conn' = next_id /\ next_id' = next_id + 1
  /\ accept_pc' = "count"
  /\ AcceptKeeps
  /\ UNCHANGED <<queue, accepted, rejected, diagnostics, pc>>

\* ... or nobody (WouldBlock, Interrupted) or an error, which is noted.
accept_err ==
  /\ accept_pc = "accept"
  /\ accept_pc' \in {"check", "note_error"}
  /\ AcceptKeeps
  /\ UNCHANGED <<queue, accepted, rejected, diagnostics, next_id, conn, pc>>

count_accepted ==
  /\ accept_pc = "count"
  /\ accepted' = accepted + 1
  /\ accept_pc' = "push"
  /\ AcceptKeeps
  /\ UNCHANGED <<queue, rejected, diagnostics, next_id, conn, pc>>

\* Under the mutex: queued with one notification, or found too many.
push_back ==
  /\ accept_pc = "push"
  /\ IF queue_full
       THEN accept_pc' = "reject" /\ UNCHANGED <<queue, pc>>
       ELSE /\ queue' = Append(queue, conn)
            /\ notify_one
            /\ accept_pc' = "check"
  /\ AcceptKeeps
  /\ UNCHANGED <<accepted, rejected, diagnostics, next_id, conn>>

\* Mutant: a refused connection is noted and not counted.
count_rejected_mutant ==
  /\ accept_pc = "reject"
  /\ accept_pc' = "note_reject"
  /\ AcceptKeeps
  /\ UNCHANGED <<queue, accepted, rejected, diagnostics, next_id, conn, pc>>

count_rejected ==
  /\ accept_pc = "reject"
  /\ rejected' = rejected + 1
  /\ accept_pc' = "note_reject"
  /\ AcceptKeeps
  /\ UNCHANGED <<queue, accepted, diagnostics, next_id, conn, pc>>

note ==
  /\ accept_pc \in {"note_reject", "note_error"}
  /\ diagnostics' = diagnostics
       \cup {IF accept_pc = "note_reject" THEN "NET0005" ELSE "NET0002"}
  /\ accept_pc' = "check"
  /\ AcceptKeeps
  /\ UNCHANGED <<queue, accepted, rejected, next_id, conn, pc>>

accept_loop ==
  \/ check_shutdown \/ accept_ok \/ accept_err \/ count_accepted
  \/ push_back \/ count_rejected \/ note
----------------------------------------------------------------------------
(***************************************************************************)
(* worker_loop.                                                            *)
(***************************************************************************)
WorkerKeeps == UNCHANGED <<shutdown, accepted, rejected, acceptor, closing>>

pop_front(w) ==
  /\ pc[w] = "lock" /\ queue /= <<>>
  /\ held' = [held EXCEPT ![w] = Head(queue)]
  /\ queue' = after_pop
  /\ Goto(w, "popped")
  /\ WorkerKeeps
  /\ UNCHANGED <<completed, panicked, diagnostics, active_workers>>

see_empty(w) ==
  /\ pc[w] = "lock" /\ nothing_to_pop
  /\ Goto(w, idle_place)
  /\ WorkerKeeps
  /\ UNCHANGED <<queue, held, completed, panicked, diagnostics, active_workers>>

\* std's Condvar may wake a waiter that nobody notified.
spurious_wakeup(w) ==
  /\ pc[w] = "waiting"
  /\ Goto(w, "lock")
  /\ WorkerKeeps
  /\ UNCHANGED <<queue, held, completed, panicked, diagnostics, active_workers>>

enter_handler(w) ==
  /\ pc[w] = "popped"
  /\ active_workers' = active_workers + 1
  /\ Goto(w, "handler")
  /\ WorkerKeeps
  /\ UNCHANGED <<queue, held, completed, panicked, diagnostics>>

leave_handler(w) ==
  /\ pc[w] = "handler"
  /\ active_workers' = active_workers - 1
  /\ \E end \in HandlerEnds : Goto(w, end)
  /\ WorkerKeeps
  /\ UNCHANGED <<queue, held, completed, panicked, diagnostics>>

count_completed(w) ==
  /\ pc[w] = "returns"
  /\ completed' = completed + 1
  /\ Goto(w, "lock")
  /\ WorkerKeeps
  /\ UNCHANGED <<queue, held, panicked, diagnostics, active_workers>>

count_panicked(w) ==
  /\ pc[w] \in {"panics", "payload_drop_panics"}
  /\ panicked' = panicked + 1
  /\ Goto(w, IF pc[w] = "panics" THEN "note_panic" ELSE "note_last_panic")
  /\ WorkerKeeps
  /\ UNCHANGED <<queue, held, completed, diagnostics, active_workers>>

\* The panic is noted; then the payload is dropped, outside of catch_unwind.
record_panic(w) ==
  /\ pc[w] \in {"note_panic", "note_last_panic"}
  /\ diagnostics' = diagnostics \cup {"NET0003"}
  /\ Goto(w, IF pc[w] = "note_panic" THEN "lock" ELSE "died")
  /\ WorkerKeeps
  /\ UNCHANGED <<queue, held, completed, panicked, active_workers>>

worker_loop(w) ==
  \/ pop_front(w) \/ see_empty(w) \/ enter_handler(w) \/ leave_handler(w)
  \/ count_completed(w) \/ count_panicked(w) \/ record_panic(w)
----------------------------------------------------------------------------
(***************************************************************************)
(* Server::shutdown, called or from Drop. Only the first call does the     *)
(* work; any other returns a snapshot of the counters and changes nothing. *)
(***************************************************************************)
ClosingKeeps == UNCHANGED <<queue, counters, active_workers, acceptor, held>>

begin_shutdown ==
  /\ main = "serving"
  /\ shutdown' = TRUE /\ found' = Queued
  /\ main' = "notify"
  /\ ClosingKeeps
  /\ UNCHANGED <<diagnostics, pc, expired, pending_at_deadline, joined, report>>

\* notify_all with the mutex held, before and after the accept thread is joined.
notify_all ==
  /\ main \in {"notify", "notify_again"}
  /\ pc' = Awake
  /\ main' = IF main = "notify" THEN "join_accept" ELSE "poll"
  /\ ClosingKeeps
  /\ UNCHANGED <<shutdown, diagnostics, expired, pending_at_deadline, joined, report,
                 found>>

join_accept ==
  /\ main = "join_accept" /\ accept_pc = "returned"
  /\ main' = "notify_again"
  /\ ClosingKeeps
  /\ UNCHANGED <<shutdown, diagnostics, pc, expired, pending_at_deadline, joined,
                 report, found>>

\* The clock passes Instant::now() + grace.
DeadlinePasses ==
  /\ main \in {"poll", "poll_queue", "poll_clock", "take_handles", "join"}
  /\ ~expired /\ expired' = TRUE
  /\ ClosingKeeps
  /\ UNCHANGED <<shutdown, diagnostics, pc, main, pending_at_deadline, joined, report,
                 found>>

\* The loop that waits for the drain: active_workers, then the queue, then the
\* clock, then one more notify_all before it sleeps.
poll_active ==
  /\ main = "poll"
  /\ main' = IF active_workers = 0 THEN "poll_queue" ELSE "poll_clock"
  /\ ClosingKeeps
  /\ UNCHANGED <<shutdown, diagnostics, pc, expired, pending_at_deadline, joined,
                 report, found>>

poll_queue ==
  /\ main = "poll_queue"
  /\ main' = IF queue = <<>> THEN "take_handles" ELSE "poll_clock"
  /\ ClosingKeeps
  /\ UNCHANGED <<shutdown, diagnostics, pc, expired, pending_at_deadline, joined,
                 report, found>>

poll_clock ==
  /\ main = "poll_clock"
  /\ IF expired
       THEN main' = "take_handles" /\ UNCHANGED pc
       ELSE main' = "poll" /\ pc' = Awake
  /\ ClosingKeeps
  /\ UNCHANGED <<shutdown, diagnostics, expired, pending_at_deadline, joined, report,
                 found>>

take_handles ==
  /\ main = "take_handles"
  /\ pending_at_deadline' = active_workers
  /\ main' = "join"
  /\ ClosingKeeps
  /\ UNCHANGED <<shutdown, diagnostics, pc, expired, joined, report, found>>

\* Mutant: joining does not wait.
join_ready_mutant(w) == TRUE

\* The worker has ended or was never spawned.
join_ready(w) == pc[w] \in Ended \cup {"none"}

join ==
  /\ main = "join"
  /\ join_ready(joined + 1)
  /\ joined' = joined + 1
  /\ main' = IF joined + 1 = MAX_PENDING_CONNECTIONS THEN "record" ELSE "join"
  /\ ClosingKeeps
  /\ UNCHANGED <<shutdown, diagnostics, pc, expired, pending_at_deadline, report,
                 found>>

record_timeout ==
  /\ main = "record"
  /\ diagnostics' = IF pending_at_deadline > 0 THEN diagnostics \cup {"NET0004"}
                                               ELSE diagnostics
  /\ main' = "report"
  /\ ClosingKeeps
  /\ UNCHANGED <<shutdown, pc, expired, pending_at_deadline, joined, report, found>>

\* The report; `stranded` is history, the connections nobody will serve.
snapshot_report ==
  /\ main = "report"
  /\ report' = [accepted |-> accepted, completed |-> completed,
                panicked |-> panicked, rejected |-> rejected,
                diagnostics |-> diagnostics, stranded |-> Len(queue)]
  /\ main' = "done"
  /\ ClosingKeeps
  /\ UNCHANGED <<shutdown, diagnostics, pc, expired, pending_at_deadline, joined,
                 found>>

\* What shutdown does once it is called.
closes ==
  \/ notify_all \/ join_accept \/ poll_active \/ poll_queue \/ poll_clock
  \/ take_handles \/ join \/ record_timeout \/ snapshot_report

Next ==
  \/ \E n \in 1..(MAX_PENDING_CONNECTIONS + 1) : serve(n)
  \/ accept_loop
  \/ \E w \in Worker : worker_loop(w) \/ spurious_wakeup(w)
  \/ begin_shutdown
  \/ closes
  \/ DeadlinePasses

Spec == Init /\ [][Next]_vars

\* The OS runs every runnable thread, handlers end, and time passes. Nobody has
\* to connect or to call shutdown, and no wake-up has to be spurious.
Fairness ==
  /\ WF_vars(accept_loop) /\ WF_vars(closes) /\ WF_vars(DeadlinePasses)
  /\ \A w \in Worker : WF_vars(worker_loop(w))

FairSpec == Spec /\ Fairness
----------------------------------------------------------------------------
(***************************************************************************)
(* Properties.                                                             *)
(***************************************************************************)

\* The state has the shape of ServerInner, of the threads and of shutdown; the
\* queue respects MAX_PENDING_CONNECTIONS.
TypeOK ==
  /\ queue \in Seq(0..MaxConnections) /\ Len(queue) <= MAX_PENDING_CONNECTIONS
  /\ shutdown \in BOOLEAN /\ expired \in BOOLEAN
  /\ next_id \in 0..MaxConnections
  /\ accepted \in Nat /\ completed \in Nat /\ panicked \in Nat /\ rejected \in Nat
  /\ diagnostics \subseteq Codes
  /\ active_workers \in Int /\ pending_at_deadline \in Int
  /\ accept_pc \in AcceptPcs /\ conn \in -1..MaxConnections
  /\ pc \in [Worker -> WorkerPcs] /\ held \in [Worker -> -1..MaxConnections]
  /\ main \in MainPcs /\ joined \in 0..MAX_PENDING_CONNECTIONS
  /\ found \subseteq 0..MaxConnections

\* Every connection counted as accepted is in one place: in flight in the
\* accept thread, queued, owned by one worker, or in one of the three other
\* counters, which different threads bump at different times.
Accounting ==
  accepted = InFlight + Len(queue) + Cardinality(Holders)
               + completed + panicked + rejected

\* The connections that were queued and are not yet handled.
Unserved == Queued \cup {held[w] : w \in Holders}

TP == INSTANCE TaskPool WITH pending <- Unserved, next <- accepted - InFlight,
                             done <- completed + panicked, dropped <- rejected

\* The server implements TaskPool, with connections for tasks and refusals for
\* drops: whatever its threads do, each accepted connection is refused, or queued
\* once and then handled at most once, the counters count just these ends, and
\* none is dropped after it was queued.
ImplementsTaskPool == TP!Spec

\* No connection reaches two handlers: queued ids increase, and none of them is
\* in the hands of a worker, nor one worker's in those of another.
EachConnectionOnce ==
  /\ \A i, j \in DOMAIN queue : i < j => queue[i] < queue[j]
  /\ \A w \in Holders : held[w] \notin Queued
  /\ \A v, w \in Holders : held[v] = held[w] => v = w

\* shutdown drains: unless a worker died, everything that was queued when it was
\* called is served, and at most one connection, accepted by an accept that was
\* already under way when the flag was set, is left behind by the workers.
ShutdownDrains ==
  main = "done" /\ (\A w \in Worker : pc[w] /= "died")
    => report.stranded <= 1 /\ Queued \cap found = {}

\* The report is final and exact: counters and diagnostics agree, and what is
\* missing from the counters is what was left behind.
ReportIsExact ==
  main = "done" =>
    /\ report.accepted = report.completed + report.panicked + report.rejected
                           + report.stranded
    /\ "NET0003" \in report.diagnostics <=> report.panicked > 0
    /\ "NET0005" \in report.diagnostics <=> report.rejected > 0

\* shutdown returns, whatever became of the workers.
ShutdownReturns == main = "notify" ~> main = "done"

\* Before shutdown every queued connection is popped, as long as no worker dies:
\* one notify_one per connection is enough.
ConnectionsArePopped ==
  \A id \in 0..(MaxConnections - 1) :
    id \in Queued ~> \/ id \notin Queued \/ shutdown
                     \/ \E w \in Worker : pc[w] = "died"

\* "NET0004 - workers didn't finish in-flight handlers within the configured
\* grace window": it is not reported before the window is over.
TimeoutMeansTimeout ==
  main = "done" /\ "NET0004" \in report.diagnostics => expired
============================================================================
