-------------------------- MODULE NetServerProofs --------------------------
(***************************************************************************)
(* Theorems about the TCP server, for every cap, number of workers and     *)
(* number of connections.                                                  *)
(*                                                                         *)
(* The inductive invariant says where shutdown stands with respect to the  *)
(* threads it joins (Phases), which ids may be where (Ids, FoundIds), what *)
(* the workers may leave behind (Leftover), when a diagnostic is recorded  *)
(* (Noted), and that nothing happens after the report (ReportIsCurrent).   *)
(***************************************************************************)
EXTENDS NetServer, FiniteSetTheorems, SequenceTheorems, TLAPS

Gone == Ended \cup {"none"}
BeforeShutdown == {"unbound", "serving"}
BeforeJoin == BeforeShutdown \cup {"notify", "join_accept"}
AfterJoins == {"record", "report", "done"}
Noting == {"note_panic", "note_last_panic"}

\* The types the steps of the accept thread and of join rely on.
Shape ==
  /\ TypeOK
  /\ accept_pc \in {"count", "push"} => conn >= 0
  /\ main = "join" => joined < MAX_PENDING_CONNECTIONS
  /\ main \notin AfterJoins \cup {"join"} => joined = 0

\* shutdown goes through its phases in order: the flag, the accept thread, the
\* workers; a server that is served has a worker, and workers exit only once
\* the flag is set.
Phases ==
  /\ shutdown <=> main \notin BeforeShutdown
  /\ main = "unbound" => accept_pc = "none" /\ \A w \in Worker : pc[w] = "none"
  /\ main /= "unbound" => pc[1] /= "none"
  /\ main \notin BeforeJoin => accept_pc = "returned"
  /\ main \in AfterJoins => joined = MAX_PENDING_CONNECTIONS
  /\ \A w \in Worker : w <= joined => pc[w] \in Gone
  /\ \A w \in Worker : pc[w] = "exited" => shutdown

\* Ids are handed out in order and the queue keeps that order.
Ids ==
  /\ \A i \in DOMAIN queue : queue[i] < next_id
  /\ \A w \in Holders : held[w] < next_id
  /\ accept_pc \in {"count", "push"} =>
       /\ conn < next_id
       /\ \A i \in DOMAIN queue : queue[i] < conn
       /\ \A w \in Holders : held[w] < conn

\* What was queued when the flag was set is older than what comes in after it.
FoundIds ==
  /\ \A id \in found : id < next_id
  /\ accept_pc \in {"count", "push"} => conn \notin found

\* The accept thread may still bring one connection without another look at the
\* flag.
UnderWay == IF accept_pc \in {"accept", "count", "push"} THEN 1 ELSE 0

\* A worker exits on an empty queue, and after that one connection can come.
Leftover ==
  (\E w \in Worker : pc[w] = "exited")
    => Len(queue) + UnderWay <= 1 /\ Queued \cap found = {}

\* Panics and refusals are on record, or about to be.
Noted ==
  /\ "NET0003" \in diagnostics => panicked > 0
  /\ \A w \in Worker : pc[w] \in Noting => panicked > 0
  /\ panicked > 0 => \/ "NET0003" \in diagnostics
                     \/ \E w \in Worker : pc[w] \in Noting
  /\ "NET0005" \in diagnostics => rejected > 0
  /\ accept_pc = "note_reject" => rejected > 0
  /\ rejected > 0 => "NET0005" \in diagnostics \/ accept_pc = "note_reject"

\* Nothing moves after the report.
ReportIsCurrent ==
  main = "done" =>
    report = [accepted |-> accepted, completed |-> completed,
              panicked |-> panicked, rejected |-> rejected,
              diagnostics |-> diagnostics, stranded |-> Len(queue)]
----------------------------------------------------------------------------
(***************************************************************************)
(* What the steps of each thread leave alone.                              *)
(***************************************************************************)

\* The steps of shutdown touch no connection; they only wake workers.
LEMMA ClosingFrame ==
  ASSUME closes \/ DeadlinePasses
  PROVE  /\ UNCHANGED <<queue, accepted, completed, panicked, rejected,
                        active_workers, next_id, accept_pc, conn, held, shutdown,
                        found>>
         /\ pc' = pc \/ pc' = Awake
BY DEF closes, DeadlinePasses, notify_all, join_accept, poll_active, poll_queue,
       poll_clock, take_handles, join, record_timeout, snapshot_report,
       ClosingKeeps, counters, acceptor

\* The steps of the accept thread wake at most one worker.
LEMMA AcceptFrame ==
  ASSUME accept_loop
  PROVE  /\ UNCHANGED <<shutdown, completed, panicked, active_workers, held, main,
                        expired, pending_at_deadline, joined, report, found>>
         /\ \/ pc' = pc
            \/ \E w \in Worker : pc[w] = "waiting" /\ pc' = [pc EXCEPT ![w] = "lock"]
BY DEF accept_loop, check_shutdown, accept_ok, accept_err, count_accepted, push_back,
       count_rejected, note, AcceptKeeps, closing, notify_one, Goto

\* The steps of a worker touch neither the accept thread nor shutdown.
LEMMA WorkerFrame ==
  ASSUME NEW w \in Worker, worker_loop(w) \/ spurious_wakeup(w)
  PROVE  UNCHANGED <<shutdown, accepted, rejected, next_id, accept_pc, conn, main,
                     expired, pending_at_deadline, joined, report, found>>
BY DEF worker_loop, pop_front, see_empty, spurious_wakeup, enter_handler,
       leave_handler, count_completed, count_panicked, record_panic, WorkerKeeps,
       acceptor, closing

\* The cases of Next.
LEMMA NextCases ==
  ASSUME [Next]_vars
  PROVE  \/ \E n \in 1..(MAX_PENDING_CONNECTIONS + 1) : serve(n)
         \/ accept_loop
         \/ \E w \in Worker : worker_loop(w) \/ spurious_wakeup(w)
         \/ begin_shutdown
         \/ closes \/ DeadlinePasses
         \/ UNCHANGED vars
BY DEF Next
----------------------------------------------------------------------------
(***************************************************************************)
(* The shape of the state.                                                 *)
(***************************************************************************)

LEMMA ShapeInit == Init => Shape
<1> SUFFICES ASSUME Init PROVE Shape
  OBVIOUS
<1>1. queue \in Seq(0..MaxConnections) /\ Len(queue) = 0
  BY DEF Init
<1>2. pc \in [Worker -> WorkerPcs] /\ held \in [Worker -> -1..MaxConnections]
  BY NetAssumption DEF Init, WorkerPcs, NoConnection
<1>3. shutdown \in BOOLEAN /\ expired \in BOOLEAN
  BY DEF Init
<1> QED BY <1>1, <1>2, <1>3, NetAssumption
  DEF Init, Shape, TypeOK, AcceptPcs, MainPcs, NoConnection

\* Each step keeps the state well formed; the queue stays within its cap.
LEMMA ShapeStep == Shape /\ [Next]_vars => Shape'
<1> SUFFICES ASSUME Shape, [Next]_vars PROVE Shape'
  OBVIOUS
<1> USE NetAssumption DEF Shape, TypeOK
<1>1. ASSUME NEW n \in 1..(MAX_PENDING_CONNECTIONS + 1), serve(n) PROVE Shape'
  <2>1. pc' \in [Worker -> WorkerPcs]
    BY <1>1 DEF serve, WorkerPcs
  <2> QED BY <1>1, <2>1 DEF serve, counters, AcceptPcs, MainPcs, AfterJoins
<1>2. CASE accept_loop
  <2>1. pc' \in [Worker -> WorkerPcs]
    BY <1>2, AcceptFrame DEF WorkerPcs
  <2>2. /\ queue' \in Seq(0..MaxConnections)
        /\ Len(queue') <= MAX_PENDING_CONNECTIONS
    <3>1. CASE push_back /\ ~queue_full
      <4>1. conn \in 0..MaxConnections
        BY <3>1 DEF push_back
      <4>2. queue' = Append(queue, conn) /\ Len(queue) < MAX_PENDING_CONNECTIONS
        BY <3>1, LenProperties DEF push_back, queue_full
      <4>3. queue' \in Seq(0..MaxConnections) /\ Len(queue') = Len(queue) + 1
        BY <4>1, <4>2, AppendProperties
      <4> QED BY <4>2, <4>3, LenProperties
    <3>2. CASE queue' = queue
      BY <3>2
    <3> QED BY <1>2, <3>1, <3>2 DEF accept_loop, check_shutdown, accept_ok, accept_err,
         count_accepted, push_back, count_rejected, note
  <2>3. /\ next_id' \in 0..MaxConnections /\ conn' \in -1..MaxConnections
        /\ accept_pc' \in {"count", "push"} => conn' >= 0
    BY <1>2 DEF accept_loop, check_shutdown, accept_ok, accept_err, count_accepted,
       push_back, count_rejected, note
  <2>4. accepted' \in Nat /\ rejected' \in Nat /\ accept_pc' \in AcceptPcs
    BY <1>2 DEF accept_loop, check_shutdown, accept_ok, accept_err, count_accepted,
       push_back, count_rejected, note, AcceptPcs
  <2>5. diagnostics' = diagnostics \/ diagnostics' = diagnostics \cup {"NET0002"}
        \/ diagnostics' = diagnostics \cup {"NET0005"}
    BY <1>2 DEF accept_loop, check_shutdown, accept_ok, accept_err, count_accepted,
       push_back, count_rejected, note
  <2>6. diagnostics' \subseteq Codes
    BY <2>5 DEF Codes
  <2> QED BY <1>2, <2>1, <2>2, <2>3, <2>4, <2>6, AcceptFrame
<1>3. ASSUME NEW w \in Worker, worker_loop(w) \/ spurious_wakeup(w) PROVE Shape'
  <2>1. /\ pc' \in [Worker -> WorkerPcs] /\ held' \in [Worker -> -1..MaxConnections]
        /\ queue' \in Seq(0..MaxConnections)
        /\ Len(queue') <= MAX_PENDING_CONNECTIONS
    <3>1. CASE pop_front(w)
      <4>1. /\ Head(queue) \in 0..MaxConnections /\ Tail(queue) \in Seq(0..MaxConnections)
            /\ Len(Tail(queue)) = Len(queue) - 1
        BY <3>1, HeadTailProperties DEF pop_front
      <4>2. Head(queue) \in -1..MaxConnections
        BY <4>1
      <4> QED BY <3>1, <4>1, <4>2, LenProperties DEF pop_front, after_pop, Goto, WorkerPcs
    <3>2. CASE ~pop_front(w)
      <4>1. UNCHANGED <<queue, held>>
        BY <1>3, <3>2 DEF worker_loop, see_empty, spurious_wakeup, enter_handler,
           leave_handler, count_completed, count_panicked, record_panic
      <4>2. pc' \in [Worker -> WorkerPcs]
        BY <1>3, <3>2 DEF worker_loop, see_empty, spurious_wakeup, enter_handler,
           leave_handler, count_completed, count_panicked, record_panic, Goto,
           WorkerPcs, idle_place
      <4> QED BY <4>1, <4>2
    <3> QED BY <3>1, <3>2
  <2>2. completed' \in Nat /\ panicked' \in Nat /\ active_workers' \in Int
    BY <1>3 DEF worker_loop, pop_front, see_empty, spurious_wakeup, enter_handler,
       leave_handler, count_completed, count_panicked, record_panic
  <2>3. diagnostics' = diagnostics \/ diagnostics' = diagnostics \cup {"NET0003"}
    BY <1>3 DEF worker_loop, pop_front, see_empty, spurious_wakeup, enter_handler,
       leave_handler, count_completed, count_panicked, record_panic
  <2>4. diagnostics' \subseteq Codes
    BY <2>3 DEF Codes
  <2> QED BY <1>3, <2>1, <2>2, <2>4, WorkerFrame
<1>4. CASE begin_shutdown
  <2>1. Queued \subseteq 0..MaxConnections
    BY DEF Queued
  <2> QED BY <1>4, <2>1 DEF begin_shutdown, ClosingKeeps, counters, acceptor, MainPcs,
       AfterJoins
<1>5. CASE closes \/ DeadlinePasses
  <2>1. pc' \in [Worker -> WorkerPcs]
    BY <1>5, ClosingFrame DEF Awake, WorkerPcs
  <2>2. expired' = expired \/ expired' = TRUE
    BY <1>5 DEF closes, DeadlinePasses, notify_all, join_accept, poll_active,
       poll_queue, poll_clock, take_handles, join, record_timeout, snapshot_report
  <2>3. pending_at_deadline' \in Int /\ main' \in MainPcs
    BY <1>5 DEF closes, DeadlinePasses, notify_all, join_accept, poll_active,
       poll_queue, poll_clock, take_handles, join, record_timeout, snapshot_report,
       MainPcs
  <2>4. /\ joined' \in 0..MAX_PENDING_CONNECTIONS
        /\ main' = "join" => joined' < MAX_PENDING_CONNECTIONS
        /\ main' \notin AfterJoins \cup {"join"} => joined' = 0
    BY <1>5 DEF closes, DeadlinePasses, notify_all, join_accept, poll_active,
       poll_queue, poll_clock, take_handles, join, record_timeout, snapshot_report,
       AfterJoins
  <2>5. diagnostics' = diagnostics \/ diagnostics' = diagnostics \cup {"NET0004"}
    BY <1>5 DEF closes, DeadlinePasses, notify_all, join_accept, poll_active,
       poll_queue, poll_clock, take_handles, join, record_timeout, snapshot_report
  <2>6. diagnostics' \subseteq Codes
    BY <2>5 DEF Codes
  <2>7. expired' \in BOOLEAN
    BY <2>2
  <2> QED BY <1>5, <2>1, <2>3, <2>4, <2>6, <2>7, ClosingFrame
<1>6. CASE UNCHANGED vars
  BY <1>6 DEF vars, counters, acceptor, workers, closing
<1> QED BY <1>1, <1>2, <1>3, <1>4, <1>5, <1>6, NextCases

\* The state of the server keeps its shape and the queue its cap, whatever the
\* threads do.
THEOREM TypeCorrect == Spec => []TypeOK
<1>1. Shape => TypeOK
  BY DEF Shape
<1> QED BY <1>1, ShapeInit, ShapeStep, PTL DEF Spec
----------------------------------------------------------------------------
(***************************************************************************)
(* The phases of shutdown.                                                 *)
(***************************************************************************)

\* Workers that are gone stay gone, and nothing but shutdown moves main.
LEMMA PhasesStep == Shape /\ Phases /\ [Next]_vars => Phases'
<1> SUFFICES ASSUME Shape, Phases, [Next]_vars PROVE Phases'
  OBVIOUS
<1>a. /\ pc \in [Worker -> WorkerPcs] /\ joined \in 0..MAX_PENDING_CONNECTIONS
      /\ 1 \in Worker /\ shutdown \in BOOLEAN
      /\ main \notin AfterJoins \cup {"join"} => joined = 0
      /\ main = "join" => joined < MAX_PENDING_CONNECTIONS
  BY NetAssumption DEF Shape, TypeOK, Worker
<1> USE NetAssumption, <1>a DEF Gone, Ended, BeforeShutdown, BeforeJoin, AfterJoins
<1>1. ASSUME NEW n \in 1..(MAX_PENDING_CONNECTIONS + 1), serve(n) PROVE Phases'
  BY <1>1 DEF serve, Phases, Worker
<1>2. CASE accept_loop
  <2>1. accept_pc \notin {"none", "returned"}
    BY <1>2 DEF accept_loop, check_shutdown, accept_ok, accept_err, count_accepted,
       push_back, count_rejected, note
  <2>2. main \in BeforeJoin /\ main /= "unbound"
    BY <2>1 DEF Phases
  <2>3. \A w \in Worker : /\ pc[w] \in Gone => pc'[w] = pc[w]
                          /\ pc'[w] \in Gone => pc'[w] = pc[w]
    BY <1>2, AcceptFrame
  <2>4. UNCHANGED <<shutdown, main, joined>>
    BY <1>2, AcceptFrame
  <2> QED BY <2>2, <2>3, <2>4 DEF Phases
<1>3. ASSUME NEW w \in Worker, worker_loop(w) \/ spurious_wakeup(w) PROVE Phases'
  <2>1. pc[w] \notin Gone
    BY <1>3 DEF worker_loop, pop_front, see_empty, spurious_wakeup, enter_handler,
       leave_handler, count_completed, count_panicked, record_panic
  <2>2. \E place \in WorkerPcs \ {"none"} :
          /\ pc' = [pc EXCEPT ![w] = place]
          /\ place = "exited" => shutdown
    BY <1>3 DEF worker_loop, pop_front, see_empty, spurious_wakeup, enter_handler,
       leave_handler, count_completed, count_panicked, record_panic, Goto, idle_place,
       WorkerPcs
  <2>3. UNCHANGED <<shutdown, main, joined, accept_pc>>
    BY <1>3, WorkerFrame
  <2>4. \A v \in Worker : /\ pc[v] \in Gone => pc'[v] = pc[v]
                          /\ pc'[v] = "none" => pc[v] = "none"
                          /\ pc'[v] = "exited" => pc[v] = "exited" \/ shutdown
    <3>1. PICK place \in WorkerPcs \ {"none"} :
            /\ pc' = [pc EXCEPT ![w] = place]
            /\ place = "exited" => shutdown
      BY <2>2
    <3>2. \A v \in Worker : pc'[v] = IF v = w THEN place ELSE pc[v]
      BY <3>1
    <3> QED BY <2>1, <3>1, <3>2
  <2>5. main /= "unbound"
    BY <2>1 DEF Phases
  <2> QED BY <2>3, <2>4, <2>5 DEF Phases
<1>4. CASE begin_shutdown
  BY <1>4 DEF begin_shutdown, ClosingKeeps, acceptor, Phases
<1>5. CASE closes \/ DeadlinePasses
  <2>1. \A w \in Worker : pc[w] \in Gone => pc'[w] = pc[w]
    BY <1>5, ClosingFrame DEF Awake
  <2>2. \A w \in Worker : /\ pc[w] /= "none" => pc'[w] /= "none"
                          /\ pc'[w] = "exited" => pc[w] = "exited"
    BY <1>5, ClosingFrame DEF Awake
  <2>3. /\ main \notin BeforeShutdown /\ main' \notin BeforeShutdown
        /\ main' \notin BeforeJoin => accept_pc = "returned"
        /\ main' \in AfterJoins => joined' = MAX_PENDING_CONNECTIONS
    BY <1>5 DEF closes, DeadlinePasses, notify_all, join_accept, poll_active,
       poll_queue, poll_clock, take_handles, join, record_timeout, snapshot_report,
       Phases
  <2>4. \A w \in Worker : w <= joined' => pc[w] \in Gone
    <3>1. CASE join
      BY <3>1 DEF join, join_ready, Phases, Worker
    <3>2. CASE joined' = joined
      BY <3>2 DEF Phases
    <3> QED BY <1>5, <3>1, <3>2 DEF closes, DeadlinePasses, notify_all, join_accept,
         poll_active, poll_queue, poll_clock, take_handles, record_timeout,
         snapshot_report
  <2>5. UNCHANGED <<shutdown, accept_pc>>
    BY <1>5, ClosingFrame
  <2> QED BY <2>1, <2>2, <2>3, <2>4, <2>5 DEF Phases
<1>6. CASE UNCHANGED vars
  BY <1>6 DEF vars, acceptor, workers, closing, Phases
<1> QED BY <1>1, <1>2, <1>3, <1>4, <1>5, <1>6, NextCases
----------------------------------------------------------------------------
(***************************************************************************)
(* Connections.                                                            *)
(***************************************************************************)

\* Only a pop makes a worker an owner; waking workers or counting does not.
LEMMA HoldersSteps ==
  ASSUME Shape
  PROVE  /\ \A n \in 1..(MAX_PENDING_CONNECTIONS + 1) :
              serve(n) => Holders' = {}
         /\ accept_loop => Holders' = Holders
         /\ \A w \in Worker :
              /\ pop_front(w) => w \notin Holders /\ Holders' = Holders \cup {w}
              /\ count_completed(w) \/ count_panicked(w)
                   => w \in Holders /\ Holders' = Holders \ {w}
              /\ (see_empty(w) \/ spurious_wakeup(w) \/ enter_handler(w)
                    \/ leave_handler(w) \/ record_panic(w))
                   => Holders' = Holders
         /\ begin_shutdown \/ closes \/ DeadlinePasses => Holders' = Holders
<1>a. pc \in [Worker -> WorkerPcs]
  BY DEF Shape, TypeOK
<1>1. \A n \in 1..(MAX_PENDING_CONNECTIONS + 1) : serve(n) => Holders' = {}
  BY DEF serve, Holders, Holding
<1>2. ASSUME accept_loop PROVE Holders' = Holders
  BY <1>a, <1>2, AcceptFrame DEF Holders, Holding
<1>3. ASSUME NEW w \in Worker, pop_front(w)
      PROVE  w \notin Holders /\ Holders' = Holders \cup {w}
  BY <1>a, <1>3 DEF pop_front, Goto, Holders, Holding
<1>4. ASSUME NEW w \in Worker, count_completed(w) \/ count_panicked(w)
      PROVE  w \in Holders /\ Holders' = Holders \ {w}
  BY <1>a, <1>4 DEF count_completed, count_panicked, Goto, Holders, Holding
<1>5. ASSUME NEW w \in Worker,
             \/ see_empty(w) \/ spurious_wakeup(w) \/ enter_handler(w)
             \/ leave_handler(w) \/ record_panic(w)
      PROVE  Holders' = Holders
  BY <1>a, <1>5, NetAssumption DEF see_empty, spurious_wakeup, enter_handler,
     leave_handler, record_panic, idle_place, Goto, Holders, Holding
<1>6. ASSUME begin_shutdown \/ closes \/ DeadlinePasses PROVE Holders' = Holders
  <2>1. pc' = pc \/ pc' = Awake
    BY <1>6, ClosingFrame DEF begin_shutdown
  <2> QED BY <1>a, <2>1 DEF Awake, Holders, Holding
<1> QED BY <1>1, <1>2, <1>3, <1>4, <1>5, <1>6

\* Ids stay in order and in one place.
LEMMA IdsStep ==
  Shape /\ Ids /\ EachConnectionOnce /\ [Next]_vars => Ids' /\ EachConnectionOnce'
<1> DEFINE Both == Ids /\ EachConnectionOnce
<1> SUFFICES ASSUME Shape, Both, [Next]_vars PROVE Both'
  OBVIOUS
<1>a. /\ queue \in Seq(0..MaxConnections) /\ next_id \in 0..MaxConnections
      /\ conn \in -1..MaxConnections /\ held \in [Worker -> -1..MaxConnections]
      /\ pc \in [Worker -> WorkerPcs]
  BY DEF Shape, TypeOK
<1>c. /\ \A i \in DOMAIN queue : queue[i] \in Int
      /\ \A w \in Holders : held[w] \in Int
  <2>1. \A i \in 1..Len(queue) : queue[i] \in 0..MaxConnections
    BY <1>a, ElementOfSeq
  <2>2. DOMAIN queue = 1..Len(queue)
    BY <1>a
  <2>3. \A w \in Holders : held[w] \in -1..MaxConnections
    BY <1>a DEF Holders
  <2> QED BY <2>1, <2>2, <2>3
<1>b. ASSUME UNCHANGED <<queue, held, next_id, conn>>, Holders' \subseteq Holders,
             accept_pc' \in {"count", "push"} => accept_pc \in {"count", "push"}
      PROVE  Both'
  BY <1>b DEF Ids, EachConnectionOnce, Queued
<1>1. ASSUME NEW n \in 1..(MAX_PENDING_CONNECTIONS + 1), serve(n) PROVE Both'
  BY <1>1, <1>b, HoldersSteps DEF serve
<1>2. CASE accept_loop
  <2>1. Holders' = Holders /\ held' = held
    BY <1>2, HoldersSteps, AcceptFrame
  <2>2. CASE accept_ok
    <3>1. /\ UNCHANGED <<queue, held>> /\ Holders' = Holders
          /\ conn' = next_id /\ next_id' = next_id + 1
      BY <2>1, <2>2 DEF accept_ok
    <3>2. EachConnectionOnce'
      BY <3>1 DEF EachConnectionOnce, Queued
    <3>3. Ids'
      BY <1>a, <1>c, <3>1 DEF Ids
    <3> QED BY <3>2, <3>3
  <2>3. CASE push_back /\ ~queue_full
    <3>1. /\ queue' = Append(queue, conn) /\ next_id' = next_id /\ conn' = conn
          /\ accept_pc = "push" /\ accept_pc' = "check"
      BY <2>3 DEF push_back
    <3>2. /\ Len(queue') = Len(queue) + 1 /\ queue'[Len(queue) + 1] = conn
          /\ \A i \in 1..Len(queue) : queue'[i] = queue[i]
          /\ DOMAIN queue = 1..Len(queue) /\ DOMAIN queue' = 1..(Len(queue) + 1)
          /\ Len(queue) \in Nat
      BY <1>a, <3>1
    <3>3. \A i \in DOMAIN queue' : \/ i \in DOMAIN queue /\ queue'[i] = queue[i]
                                   \/ i = Len(queue) + 1 /\ queue'[i] = conn
      BY <3>2
    <3>4. Ids'
      BY <2>1, <3>1, <3>3 DEF Ids
    <3>5. \A i, j \in DOMAIN queue' : i < j => queue'[i] < queue'[j]
      BY <3>1, <3>2, <3>3 DEF Ids, EachConnectionOnce
    <3>6. \A w \in Holders : held[w] \notin Queued'
      BY <1>a, <3>1, <3>3 DEF Ids, EachConnectionOnce, Queued, Holders
    <3> QED BY <2>1, <3>4, <3>5, <3>6 DEF EachConnectionOnce
  <2>4. CASE ~accept_ok /\ ~(push_back /\ ~queue_full)
    BY <1>2, <1>b, <2>1, <2>4 DEF accept_loop, check_shutdown, accept_err,
       count_accepted, push_back, count_rejected, note
  <2> QED BY <2>2, <2>3, <2>4
<1>3. ASSUME NEW w \in Worker, worker_loop(w) \/ spurious_wakeup(w) PROVE Both'
  <2>1. CASE pop_front(w)
    <3>1. /\ held' = [held EXCEPT ![w] = Head(queue)] /\ queue' = Tail(queue)
          /\ queue /= <<>> /\ Holders' = Holders \cup {w} /\ w \notin Holders
      BY <2>1, HoldersSteps DEF pop_front, after_pop
    <3>2. /\ DOMAIN queue = 1..Len(queue) /\ Len(queue) \in Nat \ {0}
          /\ Head(queue) = queue[1]
          /\ DOMAIN queue' = 1..(Len(queue) - 1)
          /\ \A i \in DOMAIN queue' : queue'[i] = queue[i + 1]
      BY <1>a, <3>1
    <3>3. \A i \in DOMAIN queue' : i + 1 \in DOMAIN queue /\ queue[1] < queue'[i]
      BY <3>2 DEF EachConnectionOnce
    <3>4. \A v \in Holders : held'[v] = held[v]
      BY <1>a, <3>1 DEF Holders
    <3>5. held'[w] = queue[1] /\ 1 \in DOMAIN queue
      BY <1>a, <3>1, <3>2
    <3>6. UNCHANGED <<next_id, conn, accept_pc>>
      BY <1>3, WorkerFrame
    <3>7. Ids'
      BY <3>1, <3>2, <3>3, <3>4, <3>5, <3>6 DEF Ids
    <3>8. \A i, j \in DOMAIN queue' : i < j => queue'[i] < queue'[j]
      BY <3>2, <3>3 DEF EachConnectionOnce
    <3>9. \A v \in Holders' : held'[v] \notin Queued'
      <4>1. \A i \in DOMAIN queue' : queue'[i] /= queue[1]
        BY <1>c, <3>2, <3>3, <3>5
      <4> QED BY <3>1, <3>2, <3>3, <3>4, <3>5, <4>1 DEF EachConnectionOnce, Queued
    <3>10. \A v \in Holders : held[v] /= queue[1]
      BY <3>5 DEF EachConnectionOnce, Queued
    <3> QED BY <3>1, <3>4, <3>5, <3>7, <3>8, <3>9, <3>10 DEF EachConnectionOnce
  <2>2. CASE ~pop_front(w)
    <3>1. UNCHANGED <<queue, held>>
      BY <1>3, <2>2 DEF worker_loop, see_empty, spurious_wakeup,
         enter_handler, leave_handler, count_completed, count_panicked, record_panic
    <3>2. Holders' \subseteq Holders
      <4>1. CASE count_completed(w) \/ count_panicked(w)
        BY <4>1, HoldersSteps
      <4>2. CASE \/ see_empty(w) \/ spurious_wakeup(w) \/ enter_handler(w)
                 \/ leave_handler(w) \/ record_panic(w)
        BY <4>2, HoldersSteps
      <4> QED BY <1>3, <2>2, <4>1, <4>2 DEF worker_loop
    <3> QED BY <1>3, <1>b, <3>1, <3>2, WorkerFrame
  <2> QED BY <2>1, <2>2
<1>4. CASE begin_shutdown
  BY <1>4, <1>b, HoldersSteps DEF begin_shutdown, ClosingKeeps, acceptor
<1>5. CASE closes \/ DeadlinePasses
  BY <1>5, <1>b, HoldersSteps, ClosingFrame
<1>6. CASE UNCHANGED vars
  BY <1>6, <1>b DEF vars, acceptor, workers, Holders
<1> QED BY <1>1, <1>2, <1>3, <1>4, <1>5, <1>6, NextCases

\* No connection is handed to two handlers, nor queued again once popped.
THEOREM ConnectionsHaveOneOwner == Spec => []EachConnectionOnce
<1>1. Init => Ids /\ EachConnectionOnce
  <2> SUFFICES ASSUME Init PROVE Ids /\ EachConnectionOnce
    OBVIOUS
  <2>1. Holders = {} /\ DOMAIN queue = {}
    BY DEF Init, Holders, Holding
  <2> QED BY <2>1 DEF Init, Ids, EachConnectionOnce
<1> QED BY <1>1, ShapeInit, ShapeStep, IdsStep, PTL DEF Spec
----------------------------------------------------------------------------
(***************************************************************************)
(* Counting connections.                                                   *)
(***************************************************************************)
LEMMA OwnersAreFinite ==
  ASSUME Shape
  PROVE  IsFiniteSet(Holders) /\ Cardinality(Holders) \in Nat
<1>1. IsFiniteSet(Worker)
  BY NetAssumption, FS_Interval DEF Worker
<1>2. IsFiniteSet(Holders)
  BY <1>1, FS_Subset DEF Holders
<1> QED BY <1>2, FS_CardinalityType

\* Each step moves at most one connection: into the accept thread, the queue, a
\* worker or a counter.
LEMMA AccountingStep ==
  Shape /\ Phases /\ Accounting /\ [Next]_vars => Accounting'
<1> SUFFICES ASSUME Shape, Phases, Accounting, [Next]_vars PROVE Accounting'
  OBVIOUS
<1>a. /\ queue \in Seq(0..MaxConnections) /\ Len(queue) \in Nat
      /\ accepted \in Nat /\ completed \in Nat /\ panicked \in Nat /\ rejected \in Nat
      /\ IsFiniteSet(Holders) /\ Cardinality(Holders) \in Nat /\ InFlight \in Nat
  BY OwnersAreFinite, LenProperties DEF Shape, TypeOK, InFlight
<1>b. ASSUME UNCHANGED <<queue, accepted, completed, panicked, rejected>>,
             Holders' = Holders, InFlight' = InFlight
      PROVE  Accounting'
  BY <1>b DEF Accounting
<1>1. ASSUME NEW n \in 1..(MAX_PENDING_CONNECTIONS + 1), serve(n) PROVE Accounting'
  <2>1. Holders = {} /\ InFlight = 0
    BY <1>1 DEF serve, Phases, Holders, Holding, InFlight
  <2>2. Holders' = {} /\ InFlight' = 0
    BY <1>1, HoldersSteps DEF serve, InFlight
  <2> QED BY <1>1, <1>b, <2>1, <2>2 DEF serve, counters
<1>2. CASE accept_loop
  <2>1. Holders' = Holders /\ UNCHANGED <<completed, panicked>>
    BY <1>2, HoldersSteps, AcceptFrame
  <2>2. CASE count_accepted
    <3>1. accepted' = accepted + 1 /\ InFlight = 0 /\ InFlight' = 1
          /\ UNCHANGED <<queue, rejected>>
      BY <2>2 DEF count_accepted, InFlight
    <3> QED BY <1>a, <2>1, <3>1 DEF Accounting
  <2>3. CASE push_back /\ ~queue_full
    <3>1. /\ queue' = Append(queue, conn) /\ InFlight = 1 /\ InFlight' = 0
          /\ UNCHANGED <<accepted, rejected>>
      BY <2>3 DEF push_back, InFlight
    <3>2. conn \in 0..MaxConnections
      BY <2>3 DEF push_back, Shape, TypeOK
    <3>3. Len(queue') = Len(queue) + 1
      BY <1>a, <3>1, <3>2, AppendProperties
    <3> QED BY <1>a, <2>1, <3>1, <3>3 DEF Accounting
  <2>4. CASE count_rejected
    <3>1. rejected' = rejected + 1 /\ InFlight = 1 /\ InFlight' = 0
          /\ UNCHANGED <<queue, accepted>>
      BY <2>4 DEF count_rejected, InFlight
    <3> QED BY <1>a, <2>1, <3>1 DEF Accounting
  <2>5. CASE /\ ~count_accepted /\ ~count_rejected
             /\ ~(push_back /\ ~queue_full)
    <3>1. UNCHANGED <<queue, accepted, rejected>> /\ InFlight' = InFlight
      BY <1>2, <2>5 DEF accept_loop, check_shutdown, accept_ok, accept_err, push_back,
         note, InFlight
    <3> QED BY <1>b, <2>1, <3>1
  <2> QED BY <2>2, <2>3, <2>4, <2>5
<1>3. ASSUME NEW w \in Worker, worker_loop(w) \/ spurious_wakeup(w) PROVE Accounting'
  <2>1. InFlight' = InFlight /\ UNCHANGED <<accepted, rejected>>
    BY <1>3, WorkerFrame DEF InFlight
  <2>2. CASE pop_front(w)
    <3>1. /\ Len(queue') = Len(queue) - 1 /\ UNCHANGED <<completed, panicked>>
      BY <1>a, <2>2, HeadTailProperties DEF pop_front, after_pop
    <3>2. Cardinality(Holders') = Cardinality(Holders) + 1
      BY <1>a, <2>2, HoldersSteps, FS_AddElement
    <3> QED BY <1>a, <2>1, <3>1, <3>2 DEF Accounting
  <2>3. CASE count_completed(w) \/ count_panicked(w)
    <3>1. Cardinality(Holders') = Cardinality(Holders) - 1
      BY <1>a, <2>3, HoldersSteps, FS_RemoveElement
    <3>2. /\ queue' = queue
          /\ \/ completed' = completed + 1 /\ panicked' = panicked
             \/ completed' = completed /\ panicked' = panicked + 1
      BY <2>3 DEF count_completed, count_panicked
    <3> QED BY <1>a, <2>1, <3>1, <3>2 DEF Accounting
  <2>4. CASE \/ see_empty(w) \/ spurious_wakeup(w) \/ enter_handler(w)
             \/ leave_handler(w) \/ record_panic(w)
    <3>1. UNCHANGED <<queue, completed, panicked>>
      BY <2>4 DEF see_empty, spurious_wakeup, enter_handler, leave_handler,
         record_panic
    <3> QED BY <1>b, <2>1, <2>4, <3>1, HoldersSteps
  <2> QED BY <1>3, <2>2, <2>3, <2>4 DEF worker_loop
<1>4. CASE begin_shutdown
  BY <1>4, <1>b, HoldersSteps DEF begin_shutdown, ClosingKeeps, acceptor, counters,
     InFlight
<1>5. CASE closes \/ DeadlinePasses
  BY <1>5, <1>b, HoldersSteps, ClosingFrame DEF InFlight
<1>6. CASE UNCHANGED vars
  BY <1>6, <1>b DEF vars, acceptor, workers, counters, Holders, InFlight
<1> QED BY <1>1, <1>2, <1>3, <1>4, <1>5, <1>6, NextCases

\* The first state of every server.
LEMMA PhasesInit == Init => Phases /\ Accounting
<1> SUFFICES ASSUME Init PROVE Phases /\ Accounting
  OBVIOUS
<1>1. Phases
  BY NetAssumption DEF Init, Phases, Gone, BeforeShutdown, BeforeJoin, AfterJoins
<1>2. Holders = {} /\ InFlight = 0
  BY DEF Init, Holders, Holding, InFlight
<1>3. Cardinality(Holders) = 0
  BY <1>2, FS_EmptySet
<1> QED BY <1>1, <1>2, <1>3 DEF Init, Accounting

\* Every connection counted as accepted is in flight, queued, owned by a worker
\* or in one of the three other counters, exactly once.
THEOREM ConnectionsAreAccounted == Spec => []Accounting
BY PhasesInit, ShapeInit, ShapeStep, PhasesStep, AccountingStep, PTL DEF Spec
----------------------------------------------------------------------------
(***************************************************************************)
(* The server implements TaskPool. A step of a thread is a step of it when *)
(* a connection is queued, refused or counted as handled, and a stutter    *)
(* otherwise: between its queue and its counter a connection only changes  *)
(* hands.                                                                  *)
(***************************************************************************)

\* Ids are numbers of connections: the one in the accept thread has the next.
Numbered ==
  /\ accepted = next_id - (IF accept_pc = "count" THEN 1 ELSE 0)
  /\ accept_pc \in {"count", "push"} => conn = next_id - 1

LEMMA NumberedStep == Shape /\ Phases /\ Numbered /\ [Next]_vars => Numbered'
<1> SUFFICES ASSUME Shape, Phases, Numbered, [Next]_vars PROVE Numbered'
  OBVIOUS
<1>a. next_id \in Nat /\ accepted \in Nat
  BY NetAssumption DEF Shape, TypeOK
<1>b. ASSUME UNCHANGED <<accepted, next_id, conn, accept_pc>> PROVE Numbered'
  BY <1>b DEF Numbered
<1>1. ASSUME NEW n \in 1..(MAX_PENDING_CONNECTIONS + 1), serve(n) PROVE Numbered'
  BY <1>1 DEF serve, counters, Phases, Numbered
<1>2. CASE accept_loop
  BY <1>a, <1>2 DEF accept_loop, check_shutdown, accept_ok, accept_err, count_accepted,
     push_back, count_rejected, note, Numbered
<1>3. ASSUME NEW w \in Worker, worker_loop(w) \/ spurious_wakeup(w) PROVE Numbered'
  BY <1>3, <1>b, WorkerFrame
<1>4. CASE begin_shutdown
  BY <1>4, <1>b DEF begin_shutdown, ClosingKeeps, acceptor, counters
<1>5. CASE closes \/ DeadlinePasses
  BY <1>5, <1>b, ClosingFrame
<1>6. CASE UNCHANGED vars
  BY <1>6, <1>b DEF vars, acceptor, counters
<1> QED BY <1>1, <1>2, <1>3, <1>4, <1>5, <1>6, NextCases

\* A step that neither queues, refuses nor counts the end of a connection leaves
\* what TaskPool sees of the server alone.
LEMMA Stutters ==
  ASSUME UNCHANGED <<queue, held, completed, panicked, rejected>>,
         Holders' = Holders, accepted' - InFlight' = accepted - InFlight
  PROVE  UNCHANGED TP!vars
<1>1. Queued' = Queued /\ Unserved' = Unserved
  BY DEF Queued, Unserved
<1> QED BY <1>1 DEF TP!vars

\* A worker that counts the end of its handler finishes the connection it holds.
LEMMA EndIsFinish ==
  ASSUME Shape, EachConnectionOnce, NEW w \in Worker, count_completed(w) \/ count_panicked(w)
  PROVE  held[w] \in Unserved /\ TP!Finish(held[w])
<1>1. w \in Holders /\ Holders' = Holders \ {w} /\ UNCHANGED <<queue, held>>
  BY HoldersSteps DEF count_completed, count_panicked
<1>2. held[w] \in Unserved /\ Queued' = Queued
  BY <1>1 DEF Unserved, Queued
<1>3. held[w] \notin Queued /\ \A v \in Holders' : held[v] /= held[w]
  BY <1>1 DEF EachConnectionOnce
<1>4. Unserved' = Unserved \ {held[w]}
  BY <1>1, <1>2, <1>3 DEF Unserved
<1>5. accepted' - InFlight' = accepted - InFlight /\ rejected' = rejected
  BY WorkerFrame DEF worker_loop, InFlight
<1>6. completed' + panicked' = (completed + panicked) + 1
  BY DEF count_completed, count_panicked, Shape, TypeOK
<1> QED BY <1>2, <1>4, <1>5, <1>6 DEF TP!Finish

\* The steps of the accept thread queue or refuse the connection with the next
\* number, or stutter.
LEMMA AcceptIsSubmit ==
  ASSUME Shape, Numbered, accept_loop
  PROVE  [TP!Next]_(TP!vars)
<1>a. /\ queue \in Seq(0..MaxConnections) /\ next_id \in Nat
      /\ accepted \in Nat /\ rejected \in Nat
  BY NetAssumption DEF Shape, TypeOK
<1>1. Holders' = Holders /\ UNCHANGED <<held, completed, panicked>>
  BY HoldersSteps, AcceptFrame
<1>2. CASE push_back /\ ~queue_full
  <2>1. /\ queue' = Append(queue, conn) /\ accept_pc = "push" /\ accept_pc' = "check"
        /\ UNCHANGED <<accepted, rejected>>
    BY <1>2 DEF push_back
  <2>2. conn = accepted - InFlight /\ accepted' - InFlight' = (accepted - InFlight) + 1
    BY <1>a, <2>1 DEF Numbered, InFlight
  <2>3. Queued' = Queued \cup {conn}
    <3>1. /\ DOMAIN queue = 1..Len(queue) /\ DOMAIN queue' = 1..(Len(queue) + 1)
          /\ Len(queue) \in Nat /\ queue'[Len(queue) + 1] = conn
          /\ \A i \in 1..Len(queue) : queue'[i] = queue[i]
      BY <1>a, <2>1
    <3>2. \A i \in DOMAIN queue' : i \in DOMAIN queue \/ i = Len(queue) + 1
      BY <3>1
    <3>3. DOMAIN queue \subseteq DOMAIN queue' /\ Len(queue) + 1 \in DOMAIN queue'
      BY <3>1
    <3> QED BY <3>1, <3>2, <3>3 DEF Queued
  <2>4. Unserved' = Unserved \cup {conn}
    BY <1>1, <2>3 DEF Unserved
  <2>5. TP!Submit
    BY <1>1, <2>1, <2>2, <2>4 DEF TP!Submit
  <2> QED BY <2>5 DEF TP!Next
<1>3. CASE count_rejected
  <2>1. /\ rejected' = rejected + 1 /\ accept_pc = "reject" /\ accept_pc' = "note_reject"
        /\ UNCHANGED <<accepted, queue>>
    BY <1>3 DEF count_rejected
  <2>2. accepted' - InFlight' = (accepted - InFlight) + 1
    BY <1>a, <2>1 DEF InFlight
  <2>3. Unserved' = Unserved
    BY <1>1, <2>1 DEF Unserved, Queued
  <2>4. TP!Submit
    BY <1>1, <2>1, <2>2, <2>3 DEF TP!Submit
  <2> QED BY <2>4 DEF TP!Next
<1>4. CASE ~(push_back /\ ~queue_full) /\ ~count_rejected
  <2>1. UNCHANGED <<queue, rejected>>
    BY <1>4 DEF accept_loop, check_shutdown, accept_ok, accept_err, count_accepted,
       push_back, note
  <2>2. accepted' - InFlight' = accepted - InFlight
    BY <1>4, <1>a DEF accept_loop, check_shutdown, accept_ok, accept_err, count_accepted,
       push_back, note, InFlight
  <2> QED BY <1>1, <2>1, <2>2, Stutters
<1> QED BY <1>2, <1>3, <1>4

\* A worker finishes a connection when it counts it; to pop one is a stutter.
LEMMA WorkerIsFinish ==
  ASSUME Shape, EachConnectionOnce, NEW w \in Worker, worker_loop(w) \/ spurious_wakeup(w)
  PROVE  [TP!Next]_(TP!vars)
<1>1. UNCHANGED <<rejected, accepted>> /\ InFlight' = InFlight
  BY WorkerFrame DEF InFlight
<1>2. CASE count_completed(w) \/ count_panicked(w)
  BY <1>2, EndIsFinish DEF TP!Next
<1>3. CASE pop_front(w)
  <2>1. /\ queue \in Seq(0..MaxConnections) /\ held \in [Worker -> -1..MaxConnections]
    BY DEF Shape, TypeOK
  <2>2. /\ held' = [held EXCEPT ![w] = Head(queue)] /\ queue' = Tail(queue)
        /\ queue /= <<>> /\ Holders' = Holders \cup {w} /\ w \notin Holders
        /\ UNCHANGED <<completed, panicked>>
    BY <1>3, HoldersSteps DEF pop_front, after_pop
  <2>3. /\ DOMAIN queue = 1..Len(queue) /\ Len(queue) \in Nat \ {0}
        /\ Head(queue) = queue[1]
        /\ DOMAIN queue' = 1..(Len(queue) - 1)
        /\ \A i \in DOMAIN queue' : queue'[i] = queue[i + 1]
    BY <2>1, <2>2
  <2>4. Queued = Queued' \cup {queue[1]}
    <3>1. \A i \in DOMAIN queue : i = 1 \/ (i - 1 \in DOMAIN queue' /\ (i - 1) + 1 = i)
      BY <2>3
    <3>2. \A i \in DOMAIN queue' : i + 1 \in DOMAIN queue
      BY <2>3
    <3>3. 1 \in DOMAIN queue
      BY <2>3
    <3>4. \A i \in DOMAIN queue : queue[i] \in Queued' \cup {queue[1]}
      <4> SUFFICES ASSUME NEW i \in DOMAIN queue, i /= 1 PROVE queue[i] \in Queued'
        OBVIOUS
      <4>1. queue'[i - 1] = queue[i] /\ i - 1 \in DOMAIN queue'
        BY <2>3, <3>1
      <4> QED BY <4>1 DEF Queued
    <3>5. \A i \in DOMAIN queue' : queue'[i] \in Queued
      BY <2>3, <3>2 DEF Queued
    <3>6. queue[1] \in Queued
      BY <3>3 DEF Queued
    <3> QED BY <3>4, <3>5, <3>6 DEF Queued
  <2>5. held'[w] = queue[1] /\ \A v \in Holders : held'[v] = held[v]
    BY <2>1, <2>2, <2>3 DEF Holders
  <2>6. {held'[v] : v \in Holders'} = {held[v] : v \in Holders} \cup {queue[1]}
    BY <2>2, <2>5
  <2>7. Unserved' = Unserved
    BY <2>4, <2>6 DEF Unserved
  <2> QED BY <1>1, <2>2, <2>7 DEF TP!vars
<1>4. CASE \/ see_empty(w) \/ spurious_wakeup(w) \/ enter_handler(w)
           \/ leave_handler(w) \/ record_panic(w)
  <2>1. UNCHANGED <<queue, held, completed, panicked>>
    BY <1>4 DEF see_empty, spurious_wakeup, enter_handler, leave_handler, record_panic
  <2>2. Holders' = Holders
    BY <1>4, HoldersSteps
  <2> QED BY <1>1, <2>1, <2>2, Stutters
<1> QED BY <1>2, <1>3, <1>4 DEF worker_loop

\* Each step of the server is a step of TaskPool or a stutter.
LEMMA ServerStep ==
  Shape /\ Phases /\ Numbered /\ EachConnectionOnce /\ [Next]_vars => [TP!Next]_(TP!vars)
<1> SUFFICES ASSUME Shape, Phases, Numbered, EachConnectionOnce, [Next]_vars
             PROVE  [TP!Next]_(TP!vars)
  OBVIOUS
<1>1. ASSUME NEW n \in 1..(MAX_PENDING_CONNECTIONS + 1), serve(n)
      PROVE  UNCHANGED TP!vars
  <2>1. Holders = {} /\ InFlight = 0
    BY <1>1 DEF serve, Phases, Holders, Holding, InFlight
  <2>2. Holders' = {} /\ InFlight' = 0
    BY <1>1, HoldersSteps DEF serve, InFlight
  <2> QED BY <1>1, <2>1, <2>2, Stutters DEF serve, counters
<1>2. CASE accept_loop
  BY <1>2, AcceptIsSubmit
<1>3. ASSUME NEW w \in Worker, worker_loop(w) \/ spurious_wakeup(w)
      PROVE  [TP!Next]_(TP!vars)
  BY <1>3, WorkerIsFinish
<1>4. CASE begin_shutdown
  <2>1. Holders' = Holders
    BY <1>4, HoldersSteps
  <2> QED BY <1>4, <2>1, Stutters
       DEF begin_shutdown, ClosingKeeps, acceptor, counters, InFlight
<1>5. CASE closes \/ DeadlinePasses
  <2>1. Holders' = Holders
    BY <1>5, HoldersSteps
  <2> QED BY <1>5, <2>1, ClosingFrame, Stutters DEF InFlight
<1>6. CASE UNCHANGED vars
  <2>1. Holders' = Holders
    BY <1>6 DEF vars, workers, Holders
  <2> QED BY <1>6, <2>1, Stutters DEF vars, workers, acceptor, counters, InFlight
<1> QED BY <1>1, <1>2, <1>3, <1>4, <1>5, <1>6, NextCases

\* Whatever the threads do, the server is a TaskPool of connections: each is refused,
\* or queued and handled at most once, and the counters say which.
THEOREM ServerImplementsTaskPool == Spec => ImplementsTaskPool
<1>1. Init => TP!Init /\ Numbered /\ Ids /\ EachConnectionOnce
  <2> SUFFICES ASSUME Init PROVE TP!Init /\ Numbered /\ Ids /\ EachConnectionOnce
    OBVIOUS
  <2>1. Holders = {} /\ DOMAIN queue = {} /\ InFlight = 0
    BY DEF Init, Holders, Holding, InFlight
  <2>2. Unserved = {}
    BY <2>1 DEF Unserved, Queued
  <2>3. TP!Init
    BY <2>1, <2>2 DEF Init, TP!Init
  <2>4. Numbered
    BY DEF Init, Numbered
  <2> QED BY <2>1, <2>3, <2>4 DEF Init, Ids, EachConnectionOnce
<1> QED
  BY <1>1, PhasesInit, ShapeInit, ShapeStep, PhasesStep, IdsStep, NumberedStep, ServerStep, PTL
  DEF Spec, ImplementsTaskPool, TP!Spec
----------------------------------------------------------------------------
(***************************************************************************)
(* What shutdown leaves behind.                                            *)
(***************************************************************************)

\* A connection accepted after the flag was set is not one of `found`.
LEMMA FoundIdsStep == Shape /\ Ids /\ FoundIds /\ [Next]_vars => FoundIds'
<1> SUFFICES ASSUME Shape, Ids, FoundIds, [Next]_vars PROVE FoundIds'
  OBVIOUS
<1>a. /\ queue \in Seq(0..MaxConnections) /\ next_id \in 0..MaxConnections
      /\ found \subseteq 0..MaxConnections /\ conn \in -1..MaxConnections
  BY DEF Shape, TypeOK
<1>1. ASSUME NEW n \in 1..(MAX_PENDING_CONNECTIONS + 1), serve(n) PROVE FoundIds'
  BY <1>1 DEF serve, FoundIds
<1>2. CASE accept_loop
  <2>1. found' = found
    BY <1>2, AcceptFrame
  <2>2. CASE accept_ok
    BY <1>a, <2>1, <2>2 DEF accept_ok, FoundIds
  <2>3. CASE ~accept_ok
    BY <1>2, <2>1, <2>3 DEF accept_loop, check_shutdown, accept_err, count_accepted,
       push_back, count_rejected, note, FoundIds
  <2> QED BY <2>2, <2>3
<1>3. ASSUME NEW w \in Worker, worker_loop(w) \/ spurious_wakeup(w) PROVE FoundIds'
  BY <1>3, WorkerFrame DEF FoundIds
<1>4. CASE begin_shutdown
  <2>1. found' = Queued /\ UNCHANGED <<next_id, conn, accept_pc>>
    BY <1>4 DEF begin_shutdown, ClosingKeeps, acceptor
  <2>2. \A i \in DOMAIN queue : queue[i] \in Int
    <3>1. \A i \in 1..Len(queue) : queue[i] \in 0..MaxConnections
      BY <1>a, ElementOfSeq
    <3> QED BY <1>a, <3>1
  <2>3. accept_pc \in {"count", "push"} => conn \notin Queued
    BY <1>a, <2>2 DEF Ids, Queued
  <2> QED BY <2>1, <2>3 DEF FoundIds, Ids, Queued
<1>5. CASE closes \/ DeadlinePasses
  BY <1>5, ClosingFrame DEF FoundIds
<1>6. CASE UNCHANGED vars
  BY <1>6 DEF vars, acceptor, closing, FoundIds
<1> QED BY <1>1, <1>2, <1>3, <1>4, <1>5, <1>6, NextCases

\* Once a worker has exited, the connection under way is the only one that can
\* join the queue, and it joins an empty one.
LEMMA LeftoverStep ==
  Shape /\ Phases /\ FoundIds /\ Leftover /\ [Next]_vars => Leftover'
<1> SUFFICES ASSUME Shape, Phases, FoundIds, Leftover, [Next]_vars PROVE Leftover'
  OBVIOUS
<1> DEFINE Left == \E w \in Worker : pc[w] = "exited"
<1>a. /\ queue \in Seq(0..MaxConnections) /\ Len(queue) \in Nat
      /\ DOMAIN queue = 1..Len(queue)
      /\ pc \in [Worker -> WorkerPcs] /\ UnderWay \in 0..1
  BY LenProperties DEF Shape, TypeOK, UnderWay
<1>b. ASSUME Left' => Left, UNCHANGED <<queue, found>>, UnderWay' <= UnderWay,
             UnderWay' \in 0..1
      PROVE  Leftover'
  BY <1>a, <1>b DEF Leftover, Queued
<1>c. Left => shutdown
  BY DEF Phases
<1>1. ASSUME NEW n \in 1..(MAX_PENDING_CONNECTIONS + 1), serve(n) PROVE Leftover'
  <2>1. ~Left'
    BY <1>1 DEF serve
  <2> QED BY <2>1 DEF Leftover
<1>2. CASE accept_loop
  <2>1. (Left' => Left) /\ UNCHANGED <<found, shutdown>>
    BY <1>a, <1>2, AcceptFrame
  <2>2. CASE push_back /\ ~queue_full
    <3>1. /\ queue' = Append(queue, conn) /\ UnderWay = 1 /\ UnderWay' = 0
          /\ conn \notin found /\ conn \in 0..MaxConnections
      BY <2>2 DEF push_back, UnderWay, FoundIds, Shape, TypeOK
    <3>2. Len(queue') = Len(queue) + 1
      BY <1>a, <3>1, AppendProperties
    <3>3. \A i \in DOMAIN queue' : queue'[i] \in Queued \cup {conn}
      BY <1>a, <3>1 DEF Queued
    <3>4. Queued' \subseteq Queued \cup {conn}
      BY <3>3 DEF Queued
    <3> QED BY <1>a, <2>1, <3>1, <3>2, <3>4 DEF Leftover
  <2>3. CASE check_shutdown
    <3>1. queue' = queue /\ accept_pc' = IF shutdown THEN "returned" ELSE "accept"
      BY <2>3 DEF check_shutdown
    <3>2. CASE Left
      BY <1>b, <1>c, <2>1, <3>1, <3>2, <1>a DEF UnderWay
    <3>3. CASE ~Left
      BY <2>1, <3>3 DEF Leftover
    <3> QED BY <3>2, <3>3
  <2>4. CASE ~(push_back /\ ~queue_full) /\ ~check_shutdown
    <3>1. queue' = queue /\ UnderWay' <= UnderWay /\ UnderWay' \in 0..1
      BY <1>2, <2>4 DEF accept_loop, accept_ok, accept_err, count_accepted, push_back,
         count_rejected, note, UnderWay
    <3> QED BY <1>b, <2>1, <3>1
  <2> QED BY <2>2, <2>3, <2>4
<1>3. ASSUME NEW w \in Worker, worker_loop(w) \/ spurious_wakeup(w) PROVE Leftover'
  <2>1. UnderWay' = UnderWay /\ found' = found
    BY <1>3, WorkerFrame DEF UnderWay
  <2>2. CASE pop_front(w)
    <3>1. Left' => Left
      BY <1>a, <2>2 DEF pop_front, Goto
    <3>2. queue' = Tail(queue) /\ queue /= <<>> /\ Len(queue') = Len(queue) - 1
      BY <1>a, <2>2, HeadTailProperties DEF pop_front, after_pop
    <3>3. \A i \in DOMAIN queue' : queue'[i] \in Queued
      BY <1>a, <3>2 DEF Queued
    <3>4. Queued' \subseteq Queued
      BY <3>3 DEF Queued
    <3> QED BY <1>a, <2>1, <3>1, <3>2, <3>4 DEF Leftover
  <2>3. CASE see_empty(w)
    <3>1. queue = <<>> /\ queue' = queue
      BY <2>3 DEF see_empty, nothing_to_pop
    <3>2. Len(queue') = 0 /\ Queued' = {}
      BY <3>1 DEF Queued
    <3> QED BY <1>a, <2>1, <3>2 DEF Leftover
  <2>4. CASE ~pop_front(w) /\ ~see_empty(w)
    <3>1. queue' = queue
      BY <1>3, <2>4 DEF worker_loop, spurious_wakeup, enter_handler, leave_handler,
         count_completed, count_panicked, record_panic
    <3>2. \E place \in WorkerPcs \ {"exited"} : pc' = [pc EXCEPT ![w] = place]
      BY <1>3, <2>4, NetAssumption DEF worker_loop, spurious_wakeup, enter_handler,
         leave_handler, count_completed, count_panicked, record_panic, Goto, WorkerPcs
    <3>3. Left' => Left
      BY <1>a, <3>2
    <3> QED BY <1>a, <1>b, <2>1, <3>1, <3>3
  <2> QED BY <2>2, <2>3, <2>4
<1>4. CASE begin_shutdown
  <2>1. ~Left
    BY <1>4, <1>c DEF begin_shutdown, Phases, BeforeShutdown
  <2>2. pc' = pc
    BY <1>4 DEF begin_shutdown
  <2> QED BY <2>1, <2>2 DEF Leftover
<1>5. CASE closes \/ DeadlinePasses
  <2>1. Left' => Left
    BY <1>a, <1>5, ClosingFrame DEF Awake
  <2>2. UnderWay' = UnderWay /\ UNCHANGED <<queue, found>>
    BY <1>5, ClosingFrame DEF UnderWay
  <2> QED BY <1>a, <1>b, <2>1, <2>2
<1>6. CASE UNCHANGED vars
  <2>1. UnderWay' = UnderWay /\ UNCHANGED <<queue, found, pc>>
    BY <1>6 DEF vars, acceptor, workers, closing, UnderWay
  <2> QED BY <1>a, <1>b, <2>1
<1> QED BY <1>1, <1>2, <1>3, <1>4, <1>5, <1>6, NextCases

\* After the report no thread of the server has a step left.
LEMMA ReportIsCurrentStep ==
  Shape /\ Phases /\ ReportIsCurrent /\ [Next]_vars => ReportIsCurrent'
<1> SUFFICES ASSUME Shape, Phases, ReportIsCurrent, [Next]_vars,
                    main' = "done"
             PROVE  ReportIsCurrent'
  BY DEF ReportIsCurrent
<1>a. CASE main = "done"
  <2>1. /\ accept_pc = "returned" /\ \A w \in Worker : pc[w] \in Gone
    BY <1>a, NetAssumption DEF Phases, BeforeJoin, BeforeShutdown, AfterJoins, Worker
  <2>2. ~accept_loop
    BY <2>1 DEF accept_loop, check_shutdown, accept_ok, accept_err, count_accepted,
       push_back, count_rejected, note
  <2>3. \A w \in Worker : ~worker_loop(w) /\ ~spurious_wakeup(w)
    BY <2>1 DEF Gone, Ended, worker_loop, pop_front, see_empty, spurious_wakeup,
       enter_handler, leave_handler, count_completed, count_panicked, record_panic
  <2>4. ~begin_shutdown /\ ~closes /\ ~DeadlinePasses
    BY <1>a DEF begin_shutdown, closes, DeadlinePasses, notify_all, join_accept,
       poll_active, poll_queue, poll_clock, take_handles, join, record_timeout,
       snapshot_report
  <2>5. \A n \in 1..(MAX_PENDING_CONNECTIONS + 1) : ~serve(n)
    BY <1>a DEF serve
  <2>6. UNCHANGED vars
    BY <2>2, <2>3, <2>4, <2>5, NextCases
  <2> QED BY <1>a, <2>6 DEF vars, counters, closing, ReportIsCurrent
<1>b. CASE main /= "done"
  <2>1. snapshot_report
    <3>1. ASSUME NEW n \in 1..(MAX_PENDING_CONNECTIONS + 1), serve(n) PROVE FALSE
      BY <3>1 DEF serve
    <3>2. CASE accept_loop
      BY <1>b, <3>2, AcceptFrame
    <3>3. ASSUME NEW w \in Worker, worker_loop(w) \/ spurious_wakeup(w) PROVE FALSE
      BY <1>b, <3>3, WorkerFrame
    <3>4. CASE begin_shutdown
      BY <3>4 DEF begin_shutdown
    <3>5. CASE closes \/ DeadlinePasses
      BY <1>b, <3>5 DEF closes, DeadlinePasses, notify_all, join_accept, poll_active,
         poll_queue, poll_clock, take_handles, join, record_timeout
    <3>6. CASE UNCHANGED vars
      BY <1>b, <3>6 DEF vars, closing
    <3> QED BY <3>1, <3>2, <3>3, <3>4, <3>5, <3>6, NextCases
  <2> QED BY <2>1 DEF snapshot_report, ClosingKeeps, counters, ReportIsCurrent
<1> QED BY <1>a, <1>b

\* Unless a worker dies, shutdown serves all it found, and leaves at most the one
\* connection that was being accepted when it was called.
THEOREM ShutdownServesWhatItFound == Spec => []ShutdownDrains
<1> DEFINE IInv == /\ Shape /\ Phases /\ Ids /\ EachConnectionOnce /\ FoundIds
                   /\ Leftover /\ ReportIsCurrent
<1>1. Init => IInv
  <2> SUFFICES ASSUME Init PROVE IInv
    OBVIOUS
  <2>1. Holders = {} /\ DOMAIN queue = {}
    BY DEF Init, Holders, Holding
  <2>2. Ids /\ EachConnectionOnce
    BY <2>1 DEF Init, Ids, EachConnectionOnce
  <2>3. FoundIds /\ Leftover /\ ReportIsCurrent
    BY DEF Init, FoundIds, Leftover, ReportIsCurrent
  <2> QED BY <2>2, <2>3, ShapeInit, PhasesInit
<1>2. IInv /\ [Next]_vars => IInv'
  BY ShapeStep, PhasesStep, IdsStep, FoundIdsStep, LeftoverStep, ReportIsCurrentStep
<1>3. IInv => ShutdownDrains
  <2> SUFFICES ASSUME IInv, main = "done", \A w \in Worker : pc[w] /= "died"
               PROVE  report.stranded <= 1 /\ Queued \cap found = {}
    BY DEF ShutdownDrains
  <2>1. 1 \in Worker
    BY NetAssumption DEF Worker
  <2>2. pc[1] = "exited"
    BY <2>1, NetAssumption DEF Phases, AfterJoins, Gone, Ended, Worker
  <2>3. Len(queue) + UnderWay <= 1 /\ Queued \cap found = {}
    BY <2>1, <2>2 DEF Leftover
  <2>4. Len(queue) \in Nat /\ UnderWay \in Nat
    BY LenProperties DEF Shape, TypeOK, UnderWay
  <2> QED BY <2>3, <2>4 DEF ReportIsCurrent
<1> QED BY <1>1, <1>2, <1>3, PTL DEF Spec
----------------------------------------------------------------------------
(***************************************************************************)
(* What the report says.                                                   *)
(***************************************************************************)

\* A panic is counted before it is noted, and so is a refusal.
LEMMA NotedStep == Shape /\ Phases /\ Noted /\ [Next]_vars => Noted'
<1> SUFFICES ASSUME Shape, Phases, Noted, [Next]_vars PROVE Noted'
  OBVIOUS
<1>a. panicked \in Nat /\ rejected \in Nat /\ pc \in [Worker -> WorkerPcs]
  BY DEF Shape, TypeOK
<1> DEFINE NotingNow == {w \in Worker : pc[w] \in Noting}
<1>b. ASSUME NotingNow' = NotingNow, UNCHANGED <<panicked, rejected>>,
             accept_pc' = "note_reject" <=> accept_pc = "note_reject",
             "NET0003" \in diagnostics' <=> "NET0003" \in diagnostics,
             "NET0005" \in diagnostics' <=> "NET0005" \in diagnostics
      PROVE  Noted'
  BY <1>b DEF Noted
<1>1. ASSUME NEW n \in 1..(MAX_PENDING_CONNECTIONS + 1), serve(n) PROVE Noted'
  <2>1. NotingNow = {} /\ NotingNow' = {} /\ accept_pc = "none" /\ accept_pc' = "check"
    BY <1>1 DEF serve, Phases, Noting
  <2>2. UNCHANGED <<panicked, rejected, diagnostics>>
    BY <1>1 DEF serve, counters
  <2> QED BY <1>b, <2>1, <2>2
<1>2. CASE accept_loop
  <2>1. NotingNow' = NotingNow /\ panicked' = panicked
    BY <1>a, <1>2, AcceptFrame DEF Noting
  <2>2. CASE count_rejected
    BY <1>a, <2>1, <2>2 DEF count_rejected, Noted
  <2>3. CASE note
    BY <1>a, <2>1, <2>3 DEF note, Noted
  <2>4. CASE ~count_rejected /\ ~note
    BY <1>2, <1>b, <2>1, <2>4 DEF accept_loop, check_shutdown, accept_ok, accept_err,
       count_accepted, push_back
  <2> QED BY <2>2, <2>3, <2>4
<1>3. ASSUME NEW w \in Worker, worker_loop(w) \/ spurious_wakeup(w) PROVE Noted'
  <2>1. UNCHANGED <<rejected, accept_pc>>
    BY <1>3, WorkerFrame
  <2>2. CASE count_panicked(w)
    <3>1. panicked' = panicked + 1 /\ diagnostics' = diagnostics /\ pc'[w] \in Noting
      BY <1>a, <2>2 DEF count_panicked, Goto, Noting
    <3> QED BY <1>a, <2>1, <3>1 DEF Noted
  <2>3. CASE record_panic(w)
    <3>1. /\ panicked' = panicked /\ pc[w] \in Noting
          /\ diagnostics' = diagnostics \cup {"NET0003"}
      BY <2>3 DEF record_panic, Noting
    <3>2. panicked > 0
      BY <3>1 DEF Noted
    <3> QED BY <1>a, <2>1, <3>1, <3>2 DEF Noted
  <2>4. CASE ~count_panicked(w) /\ ~record_panic(w)
    <3>1. UNCHANGED <<diagnostics, panicked>>
      BY <1>3, <2>4 DEF worker_loop, pop_front, see_empty, spurious_wakeup,
         enter_handler, leave_handler, count_completed
    <3>2. pc[w] \notin Noting
      BY <1>3, <2>4 DEF worker_loop, pop_front, see_empty, spurious_wakeup,
         enter_handler, leave_handler, count_completed, Noting
    <3>3. \E place \in WorkerPcs \ Noting : pc' = [pc EXCEPT ![w] = place]
      BY <1>3, <2>4, NetAssumption DEF worker_loop, pop_front, see_empty,
         spurious_wakeup, enter_handler, leave_handler, count_completed, Noting, Goto,
         WorkerPcs, idle_place
    <3>4. NotingNow' = NotingNow
      BY <1>a, <3>2, <3>3
    <3> QED BY <1>b, <2>1, <3>1, <3>4
  <2> QED BY <2>2, <2>3, <2>4
<1>4. CASE begin_shutdown
  <2>1. UNCHANGED <<pc, panicked, rejected, accept_pc, diagnostics>>
    BY <1>4 DEF begin_shutdown, ClosingKeeps, counters, acceptor
  <2> QED BY <1>b, <2>1
<1>5. CASE closes \/ DeadlinePasses
  <2>1. NotingNow' = NotingNow /\ UNCHANGED <<panicked, rejected, accept_pc>>
    BY <1>a, <1>5, ClosingFrame DEF Awake, Noting
  <2>2. diagnostics' = diagnostics \/ diagnostics' = diagnostics \cup {"NET0004"}
    BY <1>5 DEF closes, DeadlinePasses, notify_all, join_accept, poll_active,
       poll_queue, poll_clock, take_handles, join, record_timeout, snapshot_report
  <2> QED BY <1>b, <2>1, <2>2
<1>6. CASE UNCHANGED vars
  <2>1. UNCHANGED <<pc, panicked, rejected, accept_pc, diagnostics>>
    BY <1>6 DEF vars, counters, acceptor, workers
  <2> QED BY <1>b, <2>1
<1> QED BY <1>1, <1>2, <1>3, <1>4, <1>5, <1>6, NextCases

\* The report is taken when nothing can move any more: the counters add up and
\* the diagnostics say what they say.
THEOREM ReportIsFinal == Spec => []ReportIsExact
<1> DEFINE IInv == Shape /\ Phases /\ Accounting /\ Noted /\ ReportIsCurrent
<1>1. Init => IInv
  <2> SUFFICES ASSUME Init PROVE IInv
    OBVIOUS
  <2>1. Noted /\ ReportIsCurrent
    BY DEF Init, Noted, Noting, ReportIsCurrent
  <2> QED BY <2>1, ShapeInit, PhasesInit
<1>2. IInv /\ [Next]_vars => IInv'
  BY ShapeStep, PhasesStep, AccountingStep, NotedStep, ReportIsCurrentStep
<1>3. IInv => ReportIsExact
  <2> SUFFICES ASSUME IInv, main = "done"
               PROVE  /\ report.accepted = report.completed + report.panicked
                                             + report.rejected + report.stranded
                      /\ "NET0003" \in report.diagnostics <=> report.panicked > 0
                      /\ "NET0005" \in report.diagnostics <=> report.rejected > 0
    BY DEF ReportIsExact
  <2>1. accept_pc = "returned" /\ \A w \in Worker : pc[w] \in Gone
    BY NetAssumption DEF Phases, BeforeJoin, BeforeShutdown, AfterJoins, Worker
  <2>2. Holders = {} /\ InFlight = 0
    BY <2>1 DEF Holders, Holding, InFlight, Gone, Ended
  <2>3. Cardinality(Holders) = 0
    BY <2>2, FS_EmptySet
  <2>4. /\ accepted \in Nat /\ completed \in Nat /\ panicked \in Nat
        /\ rejected \in Nat /\ Len(queue) \in Nat
    BY LenProperties DEF Shape, TypeOK
  <2>5. accepted = completed + panicked + rejected + Len(queue)
    BY <2>2, <2>3, <2>4 DEF Accounting
  <2>6. /\ "NET0003" \in diagnostics <=> panicked > 0
        /\ "NET0005" \in diagnostics <=> rejected > 0
    BY <2>1 DEF Noted, Noting, Gone, Ended
  <2>7. report = [accepted |-> accepted, completed |-> completed,
                  panicked |-> panicked, rejected |-> rejected,
                  diagnostics |-> diagnostics, stranded |-> Len(queue)]
    BY DEF ReportIsCurrent
  <2> QED BY <2>5, <2>6, <2>7
<1> QED BY <1>1, <1>2, <1>3, PTL DEF Spec
============================================================================
