----------------------------- MODULE WorkerPool -----------------------------
(***************************************************************************)
(* The server's worker pool (native/c/server/worker.cpp): the reader that  *)
(* hands each input line to a worker, the worker threads, the detached     *)
(* threads that start them, the supervisor that replaces workers that      *)
(* fault or hang, and the shutdown at end of input.                        *)
(*                                                                         *)
(* A worker object is <<slot, generation>>: replacing the worker of a slot *)
(* makes an object of the next generation, while the old one may live on   *)
(* in a detached thread or in a raw pointer.  Each action is one critical  *)
(* section or one access to an atomic; the pairs merged into one step are  *)
(* named where it is done.                                                 *)
(***************************************************************************)
EXTENDS Integers, Sequences, FiniteSets

CONSTANTS NumWorkers,         \* slots of the pool
          Request,            \* the input lines
          ReplaceLimits,      \* the values max_replace_attempts may be given
          kMaxRequestRetries,
          MaxGen,             \* bound: replacements of a slot that are modelled
          Fragile,            \* bound: the slots whose workers may fault or hang
          PromptInit,         \* timing: initialize_worker ends before its worker takes a request
          NoRequest, NoWorker

Slot == 0 .. NumWorkers - 1
Worker == Slot \X (0 .. MaxGen)
SlotOf(w) == w[1]
GenOf(w) == w[2]
Caller == {"reader", "supervisor"}   \* the threads that call distribute_request_internal

ASSUME PoolAssumption ==
  /\ NumWorkers \in Nat \ {0}
  /\ ReplaceLimits \subseteq Nat
  /\ kMaxRequestRetries \in Nat
  /\ MaxGen \in Nat
  /\ Fragile \subseteq Slot
  /\ PromptInit \in BOOLEAN
  /\ NoRequest \notin Request
  /\ NoWorker \notin Worker

\* RequestMetadata
Item == [data : Request, retry_count : 0 .. kMaxRequestRetries]
NoItem == [data |-> NoRequest, retry_count |-> 0]

VARIABLES
  \* one Worker object each
  state, stop_requested, request_queue, current_request,
  thread,      \* where worker_loop stands
  taken,       \* request_metadata, the local of worker_loop
  late,        \* the heartbeat is older than the request timeout
  init,        \* where the detached initialize_worker of the object stands
  \* WorkerPool
  workers, generation, ready_list, ready_count, ready_queue,
  max_replace_attempts, replacement_attempts,
  backoff,     \* now < next_replacement_allowed
  is_shutting_down,
  \* threads that use the pool
  call,        \* distribute_request_internal, per caller
  main,        \* ZServer::run and WorkerPool::shutdown
  sup,         \* monitor_workers and replace_worker
  \* the outside
  unread,      \* lines still to come on stdin
  ran,         \* how often a request was given to process_request
  answers      \* kinds of response written for a request

workerVars == <<state, stop_requested, request_queue, current_request, thread, taken, late>>
readyVars == <<ready_list, ready_count, ready_queue>>
slotVars == <<workers, generation, max_replace_attempts, replacement_attempts, backoff>>
outVars == <<ran, answers>>
vars == <<workerVars, init, readyVars, slotVars, is_shutting_down, call, main, sup, unread, outVars>>

\* A call of distribute_request_internal, the reader's program counter, and the
\* supervisor's with the locals of replace_worker.
CallRecord == [pc : {"out", "get", "block", "waiting", "add"},
               item : Item \cup {NoItem}, target : Worker \cup {NoWorker}]
MainRecord == [pc : {"read", "shutdown", "join", "stop", "stopping", "done"},
               slot : 0 .. NumWorkers]
SupRecord == [pc : {"scan", "mark", "prepare", "drain", "current", "stop", "spawn",
                    "redistribute", "exited"},
              slot : Slot, old : Worker \cup {NoWorker},
              force : BOOLEAN, maxed : BOOLEAN, recovered : Seq(Item)]

WorkerTypeOK ==
  /\ state \in [Worker -> {"Starting", "Idle", "Running", "Stopping", "Faulted", "Exited"}]
  /\ stop_requested \in [Worker -> BOOLEAN]
  /\ request_queue \in [Worker -> Seq(Item)]
  /\ current_request \in [Worker -> Request \cup {NoRequest}]
  /\ thread \in [Worker -> {"none", "loop", "wait", "took", "process", "dead"}]
  /\ taken \in [Worker -> Item \cup {NoItem}]
  /\ late \in [Worker -> BOOLEAN]
  /\ init \in [Worker -> {"none", "start", "idle", "ready", "done"}]

PoolTypeOK ==
  /\ workers \in [Slot -> Worker \cup {NoWorker}]
  /\ generation \in [Slot -> 0 .. MaxGen]
  /\ ready_list \in [Slot -> BOOLEAN]
  /\ ready_count \in Int
  /\ ready_queue \in Seq(Slot)
  /\ max_replace_attempts \in Nat
  /\ replacement_attempts \in [Slot -> Nat]
  /\ backoff \in [Slot -> BOOLEAN]
  /\ is_shutting_down \in BOOLEAN

ThreadTypeOK ==
  /\ call \in [Caller -> CallRecord]
  /\ main \in MainRecord
  /\ sup \in SupRecord
  /\ unread \in SUBSET Request
  /\ ran \in [Request -> Nat]
  /\ answers \in [Request -> SUBSET {"result", "timeout"}]

TypeOK == WorkerTypeOK /\ PoolTypeOK /\ ThreadTypeOK

Returned == [pc |-> "out", item |-> NoItem, target |-> NoWorker]
Scanning == [pc |-> "scan", slot |-> 0, old |-> NoWorker,
             force |-> FALSE, maxed |-> FALSE, recovered |-> <<>>]

\* WorkerPool::WorkerPool: the workers exist, their initialize_worker threads
\* and the supervisor have been started.
Init ==
  /\ state = [w \in Worker |-> "Starting"]
  /\ stop_requested = [w \in Worker |-> FALSE]
  /\ request_queue = [w \in Worker |-> <<>>]
  /\ current_request = [w \in Worker |-> NoRequest]
  /\ thread = [w \in Worker |-> "none"]
  /\ taken = [w \in Worker |-> NoItem]
  /\ late = [w \in Worker |-> FALSE]
  /\ init = [w \in Worker |-> IF GenOf(w) = 0 THEN "start" ELSE "none"]
  /\ workers = [i \in Slot |-> <<i, 0>>]
  /\ generation = [i \in Slot |-> 0]
  /\ ready_list = [i \in Slot |-> FALSE]
  /\ ready_count = 0
  /\ ready_queue = <<>>
  /\ max_replace_attempts \in ReplaceLimits
  /\ replacement_attempts = [i \in Slot |-> 0]
  /\ backoff = [i \in Slot |-> FALSE]
  /\ is_shutting_down = FALSE
  /\ call = [t \in Caller |-> Returned]
  /\ main = [pc |-> "read", slot |-> 0]
  /\ sup = Scanning
  /\ unread = Request
  /\ ran = [r \in Request |-> 0]
  /\ answers = [r \in Request |-> {}]

IsReady(w) == state[w] \in {"Idle", "Running"}

\* ready_mutex is held across two steps only by a caller that found the
\* predicate of ready_condition false and has not blocked yet.
MutexFree == \A t \in Caller : call[t].pc # "block"

\* Bound: only Fragile slots fail, and their last generation does not.
CanFail(w) == SlotOf(w) \in Fragile /\ GenOf(w) < MaxGen

-----------------------------------------------------------------------------
(* distribute_request_internal and get_ready_worker, run by a caller t.    *)

Waiting == {t \in Caller : call[t].pc = "waiting"}

\* Positions of ready_queue whose slot still has a ready worker.
LivePositions ==
  {k \in 1 .. Len(ready_queue) :
     LET w == workers[ready_queue[k]] IN w # NoWorker /\ IsReady(w)}

\* ready_queue once the entries up to the k-th are popped and that one put back.
RotateForgetting(k) == SubSeq(ready_queue, k + 1, Len(ready_queue))
Rotate(k) == Append(SubSeq(ready_queue, k + 1, Len(ready_queue)), ready_queue[k])

\* The predicate of the wait holds through ready_count: stale entries are
\* popped up to the first live one, which goes to the back of the queue.
PickWorker(t) ==
  /\ call[t].pc = "get" /\ MutexFree
  /\ ~is_shutting_down /\ ready_count > 0
  /\ \E k \in LivePositions :
       /\ \A j \in LivePositions : k <= j
       /\ ready_queue' = Rotate(k)
       /\ call' = [call EXCEPT ![t].pc = "add", ![t].target = workers[ready_queue[k]]]
  /\ UNCHANGED <<workerVars, init, ready_list, ready_count, slotVars, is_shutting_down,
                 main, sup, unread, outVars>>

\* Every entry was stale: nullptr, and the caller drops the request.
PickNone(t) ==
  /\ call[t].pc = "get" /\ MutexFree
  /\ ~is_shutting_down /\ ready_count > 0 /\ LivePositions = {}
  /\ ready_queue' = <<>>
  /\ call' = [call EXCEPT ![t] = Returned]
  /\ UNCHANGED <<workerVars, init, ready_list, ready_count, slotVars, is_shutting_down,
                 main, sup, unread, outVars>>

\* is_shutting_down: nullptr, and the caller drops the request.
PickShutdown(t) ==
  /\ call[t].pc = "get" /\ MutexFree /\ is_shutting_down
  /\ call' = [call EXCEPT ![t] = Returned]
  /\ UNCHANGED <<workerVars, init, readyVars, slotVars, is_shutting_down,
                 main, sup, unread, outVars>>

\* The predicate is false; the caller is about to block, ready_mutex held.
PickNothingReady(t) ==
  /\ call[t].pc = "get" /\ MutexFree
  /\ ~is_shutting_down /\ ready_count <= 0
  /\ call' = [call EXCEPT ![t].pc = "block"]
  /\ UNCHANGED <<workerVars, init, readyVars, slotVars, is_shutting_down,
                 main, sup, unread, outVars>>

\* Blocking releases ready_mutex.
Block(t) ==
  /\ call[t].pc = "block"
  /\ call' = [call EXCEPT ![t].pc = "waiting"]
  /\ UNCHANGED <<workerVars, init, readyVars, slotVars, is_shutting_down,
                 main, sup, unread, outVars>>

\* The raw pointer is used after ready_mutex is released; the worker may have
\* been replaced and drained by then, and keeps what it is given.
AddRequest(t) ==
  /\ call[t].pc = "add"
  /\ request_queue' = [request_queue EXCEPT ![call[t].target] = Append(@, call[t].item)]
  /\ call' = [call EXCEPT ![t] = Returned]
  /\ UNCHANGED <<state, stop_requested, current_request, thread, taken, late, init, readyVars,
                 slotVars, is_shutting_down, main, sup, unread, outVars>>

-----------------------------------------------------------------------------
(* initialize_worker: the detached thread that starts a worker object.     *)

\* start(): the thread of worker_loop exists from here on.
StartThread(w) ==
  /\ init[w] = "start"
  /\ init' = [init EXCEPT ![w] = "idle"]
  /\ stop_requested' = [stop_requested EXCEPT ![w] = FALSE]
  /\ state' = [state EXCEPT ![w] = "Starting"]
  /\ thread' = [thread EXCEPT ![w] = "loop"]
  /\ UNCHANGED <<request_queue, current_request, taken, late, readyVars, slotVars,
                 is_shutting_down, call, main, sup, unread, outVars>>

\* start() stores Idle over whatever the new thread has stored meanwhile.
StartIdle(w) ==
  /\ init[w] = "idle"
  /\ init' = [init EXCEPT ![w] = "ready"]
  /\ state' = [state EXCEPT ![w] = "Idle"]
  /\ late' = [late EXCEPT ![w] = FALSE]
  /\ UNCHANGED <<stop_requested, request_queue, current_request, thread, taken, readyVars,
                 slotVars, is_shutting_down, call, main, sup, unread, outVars>>

\* notify_one on ready_condition
NotifyNobody == call' = call
NotifyOne ==
  \/ Waiting = {} /\ call' = call
  \/ \E t \in Waiting : call' = [call EXCEPT ![t].pc = "get"]

\* set_worker_ready, for the object the slot holds now.  The notification
\* follows the unlock: a caller that looks in between sees ready_count > 0.
MarkReady(w) ==
  LET i == SlotOf(w) IN
  /\ init[w] = "ready" /\ MutexFree
  /\ workers[i] # NoWorker /\ ~ready_list[i] /\ IsReady(workers[i])
  /\ init' = [init EXCEPT ![w] = "done"]
  /\ ready_list' = [ready_list EXCEPT ![i] = TRUE]
  /\ ready_count' = ready_count + 1
  /\ replacement_attempts' = [replacement_attempts EXCEPT ![i] = 0]
  /\ backoff' = [backoff EXCEPT ![i] = FALSE]
  /\ ready_queue' = Append(ready_queue, i)
  /\ NotifyOne
  /\ UNCHANGED <<workerVars, workers, generation, max_replace_attempts, is_shutting_down,
                 main, sup, unread, outVars>>

\* set_worker_ready when the slot is empty, marked already, or not ready.
MarkReadyRefused(w) ==
  LET i == SlotOf(w) IN
  /\ init[w] = "ready" /\ MutexFree
  /\ ~(workers[i] # NoWorker /\ ~ready_list[i] /\ IsReady(workers[i]))
  /\ init' = [init EXCEPT ![w] = "done"]
  /\ UNCHANGED <<workerVars, readyVars, slotVars, is_shutting_down, call, main, sup, unread,
                 outVars>>

-----------------------------------------------------------------------------
(* worker_loop                                                             *)

\* Top of the loop: the request just served is forgotten and the state is
\* Idle again (the two critical sections follow each other immediately).
LoopIdle(w) ==
  /\ thread[w] = "loop"
  /\ thread' = [thread EXCEPT ![w] = "wait"]
  /\ current_request' = [current_request EXCEPT ![w] = NoRequest]
  /\ state' = [state EXCEPT ![w] = "Idle"]
  /\ UNCHANGED <<stop_requested, request_queue, taken, late, init, readyVars, slotVars,
                 is_shutting_down, call, main, sup, unread, outVars>>

TakeRequest(w) ==
  /\ thread[w] = "wait" /\ ~stop_requested[w] /\ request_queue[w] # <<>>
  /\ PromptInit => init[w] = "done"
  /\ thread' = [thread EXCEPT ![w] = "took"]
  /\ taken' = [taken EXCEPT ![w] = Head(request_queue[w])]
  /\ request_queue' = [request_queue EXCEPT ![w] = Tail(@)]
  /\ state' = [state EXCEPT ![w] = "Running"]
  /\ UNCHANGED <<stop_requested, current_request, late, init, readyVars, slotVars,
                 is_shutting_down, call, main, sup, unread, outVars>>

\* The loop ends without looking at the queue (Stopping, then Exited).
StopSignaled(w) ==
  /\ thread[w] = "wait" /\ stop_requested[w]
  /\ thread' = [thread EXCEPT ![w] = "dead"]
  /\ state' = [state EXCEPT ![w] = "Exited"]
  /\ UNCHANGED <<stop_requested, request_queue, current_request, taken, late, init, readyVars,
                 slotVars, is_shutting_down, call, main, sup, unread, outVars>>

\* current_request_data is set and process_request begins.
BeginRequest(w) ==
  /\ thread[w] = "took"
  /\ thread' = [thread EXCEPT ![w] = "process"]
  /\ current_request' = [current_request EXCEPT ![w] = taken[w].data]
  /\ ran' = [ran EXCEPT ![taken[w].data] = @ + 1]
  /\ taken' = [taken EXCEPT ![w] = NoItem]
  /\ UNCHANGED <<state, stop_requested, request_queue, late, init, readyVars, slotVars,
                 is_shutting_down, call, main, sup, unread, answers>>

\* process_request wrote the response and returned; the heartbeat is fresh.
Respond(w) ==
  /\ thread[w] = "process"
  /\ thread' = [thread EXCEPT ![w] = "loop"]
  /\ answers' = [answers EXCEPT ![current_request[w]] = @ \cup {"result"}]
  /\ late' = [late EXCEPT ![w] = FALSE]
  /\ UNCHANGED <<state, stop_requested, request_queue, current_request, taken, init, readyVars,
                 slotVars, is_shutting_down, call, main, sup, unread, ran>>

\* process_request threw: Faulted, and the thread ends.
Fault(w) ==
  /\ thread[w] = "process" /\ CanFail(w)
  /\ thread' = [thread EXCEPT ![w] = "dead"]
  /\ state' = [state EXCEPT ![w] = "Faulted"]
  /\ stop_requested' = [stop_requested EXCEPT ![w] = TRUE]
  /\ late' = [late EXCEPT ![w] = FALSE]
  /\ UNCHANGED <<request_queue, current_request, taken, init, readyVars, slotVars,
                 is_shutting_down, call, main, sup, unread, outVars>>

\* Time passes: the request has now run for longer than request_timeout.
Late(w) ==
  /\ thread[w] = "process" /\ CanFail(w) /\ ~late[w]
  /\ late' = [late EXCEPT ![w] = TRUE]
  /\ UNCHANGED <<state, stop_requested, request_queue, current_request, thread, taken, init,
                 readyVars, slotVars, is_shutting_down, call, main, sup, unread, outVars>>

-----------------------------------------------------------------------------
(* monitor_workers and replace_worker, run by the supervisor.              *)

\* What monitor_worker_at finds wrong with a worker.  The "unexpected exit" of
\* the code asks for an Exited worker that is_stop_requested denies, and
\* is_stop_requested is true of every Exited worker.
IsStopRequested(w) == state[w] \in {"Stopping", "Exited", "Faulted"} \/ stop_requested[w]
Faulty(w) == state[w] = "Faulted" \/ (state[w] = "Exited" /\ ~IsStopRequested(w))
Overdue(w) == state[w] = "Running" /\ late[w]
JudgedByState(w) == Faulty(w)
Judged(w) == Faulty(w) \/ Overdue(w)

\* The supervisor judges slot i and decides to replace its worker.
Monitor(i) ==
  LET w == workers[i] IN
  /\ sup.pc = "scan" /\ ~is_shutting_down /\ MutexFree
  /\ ~backoff[i] /\ w # NoWorker
  /\ Judged(w)
  /\ sup' = [sup EXCEPT !.pc = "mark", !.slot = i, !.force = Overdue(w)]
  /\ UNCHANGED <<workerVars, init, readyVars, slotVars, is_shutting_down, call, main, unread,
                 outVars>>

\* The mark of a slot is taken back, and the count with it.
UnmarkForgotten(i) == ready_list
Unmark(i) == [ready_list EXCEPT ![i] = FALSE]

UncountForgotten(i) == ready_count
Uncount(i) == IF ~ready_list[i] THEN ready_count
              ELSE IF ready_count > 0 THEN ready_count - 1 ELSE 0

\* mark_worker_not_ready; an inconsistent ready_count aborts the replacement.
MarkNotReady ==
  LET i == sup.slot IN
  /\ sup.pc = "mark" /\ MutexFree
  /\ ready_list' = Unmark(i)
  /\ ready_count' = Uncount(i)
  /\ sup' = IF ready_list[i] /\ ready_count <= 0 THEN Scanning
            ELSE [sup EXCEPT !.pc = "prepare"]
  /\ UNCHANGED <<workerVars, init, ready_queue, slotVars, is_shutting_down, call, main, unread,
                 outVars>>

\* prepare_worker_replacement: the attempt is counted and its backoff starts,
\* unless the slot has used its attempts; the object leaves the slot.
Prepare ==
  LET i == sup.slot
      maxed == replacement_attempts[i] >= max_replace_attempts
  IN
  /\ sup.pc = "prepare" /\ MutexFree
  /\ replacement_attempts' = [replacement_attempts EXCEPT ![i] = IF maxed THEN @ ELSE @ + 1]
  /\ backoff' = [backoff EXCEPT ![i] = ~maxed]
  /\ workers' = [workers EXCEPT ![i] = NoWorker]
  /\ sup' = [sup EXCEPT !.pc = "drain", !.old = workers[i], !.maxed = maxed]
  /\ UNCHANGED <<workerVars, init, readyVars, generation, max_replace_attempts, is_shutting_down,
                 call, main, unread, outVars>>

\* next_replacement_allowed has passed.
BackoffElapses(i) ==
  /\ backoff[i]
  /\ backoff' = [backoff EXCEPT ![i] = FALSE]
  /\ UNCHANGED <<workerVars, init, readyVars, workers, generation, max_replace_attempts,
                 replacement_attempts, is_shutting_down, call, main, sup, unread, outVars>>

\* recover_requests_from_worker, step by step: the queue, the request in
\* flight (recovered with a fresh retry_count after a fault, answered with a
\* timeout error after a hang), the old thread.
DrainedByCopy(w) == request_queue
Drained(w) == [request_queue EXCEPT ![w] = <<>>]

DrainPending ==
  /\ sup.pc = "drain"
  /\ sup' = [sup EXCEPT !.pc = "current", !.recovered = request_queue[sup.old]]
  /\ request_queue' = Drained(sup.old)
  /\ UNCHANGED <<state, stop_requested, current_request, thread, taken, late, init, readyVars,
                 slotVars, is_shutting_down, call, main, unread, outVars>>

RecoveredNothing(r) == <<>>
RecoveredEvenHung(r) == IF r = NoRequest THEN <<>> ELSE <<[data |-> r, retry_count |-> 0]>>
RecoveredInFlight(r) ==
  IF r = NoRequest \/ sup.force THEN <<>> ELSE <<[data |-> r, retry_count |-> 0]>>

RecoverCurrent ==
  LET r == current_request[sup.old] IN
  /\ sup.pc = "current"
  /\ sup' = [sup EXCEPT !.pc = "stop",
               !.recovered = @ \o RecoveredInFlight(r)]
  /\ answers' = IF r # NoRequest /\ sup.force
                THEN [answers EXCEPT ![r] = @ \cup {"timeout"}] ELSE answers
  /\ UNCHANGED <<workerVars, init, readyVars, slotVars, is_shutting_down, call, main, unread, ran>>

\* What follows recovery: a slot that used its attempts is left empty.
AfterStopAlways == "spawn"
AfterStop == IF sup.maxed THEN "redistribute" ELSE "spawn"

\* force_detach if it hangs, then stop(): either way the object ends Faulted
\* with stop_requested set, and nobody joins a thread that still runs.
StopOld ==
  /\ sup.pc = "stop"
  /\ stop_requested' = [stop_requested EXCEPT ![sup.old] = TRUE]
  /\ state' = [state EXCEPT ![sup.old] = "Faulted"]
  /\ sup' = [sup EXCEPT !.pc = AfterStop, !.old = NoWorker]
  /\ UNCHANGED <<request_queue, current_request, thread, taken, late, init, readyVars, slotVars,
                 is_shutting_down, call, main, unread, outVars>>

\* spawn_replacement_worker
Spawn ==
  LET i == sup.slot
      new == <<i, generation[i] + 1>>
  IN
  /\ sup.pc = "spawn" /\ ~is_shutting_down /\ MutexFree
  /\ generation[i] < MaxGen
  /\ workers' = [workers EXCEPT ![i] = new]
  /\ generation' = [generation EXCEPT ![i] = @ + 1]
  /\ ready_list' = Unmark(i)
  /\ init' = [init EXCEPT ![new] = "start"]
  /\ sup' = [sup EXCEPT !.pc = "redistribute"]
  /\ UNCHANGED <<workerVars, ready_count, ready_queue, max_replace_attempts, replacement_attempts, backoff,
                 is_shutting_down, call, main, unread, outVars>>

MayRetryOnceMore(req) == req.retry_count <= kMaxRequestRetries
MayRetry(req) == req.retry_count < kMaxRequestRetries

\* A request that used its retries is discarded: poison pill protection.
DiscardPoison ==
  /\ sup.pc = "redistribute" /\ call["supervisor"].pc = "out" /\ ~is_shutting_down
  /\ sup.recovered # <<>> /\ ~MayRetry(Head(sup.recovered))
  /\ sup' = [sup EXCEPT !.recovered = Tail(@)]
  /\ UNCHANGED <<workerVars, init, readyVars, slotVars, is_shutting_down, call, main, unread,
                 outVars>>

\* The others go through distribute_request_internal once more.
Redistribute ==
  LET req == Head(sup.recovered) IN
  /\ sup.pc = "redistribute" /\ call["supervisor"].pc = "out" /\ ~is_shutting_down
  /\ sup.recovered # <<>> /\ MayRetry(req)
  /\ sup' = [sup EXCEPT !.recovered = Tail(@)]
  /\ call' = [call EXCEPT !["supervisor"] =
                [pc |-> "get", item |-> [req EXCEPT !.retry_count = @ + 1], target |-> NoWorker]]
  /\ UNCHANGED <<workerVars, init, readyVars, slotVars, is_shutting_down, main, unread, outVars>>

Replaced ==
  /\ sup.pc = "redistribute" /\ call["supervisor"].pc = "out" /\ sup.recovered = <<>>
  /\ sup' = Scanning
  /\ UNCHANGED <<workerVars, init, readyVars, slotVars, is_shutting_down, call, main, unread,
                 outVars>>

\* A replacement that meets the shutdown is abandoned with what it recovered.
AbandonReplacement ==
  /\ is_shutting_down
  /\ sup.pc = "spawn" \/ (sup.pc = "redistribute" /\ call["supervisor"].pc = "out"
                            /\ sup.recovered # <<>>)
  /\ sup' = Scanning
  /\ UNCHANGED <<workerVars, init, readyVars, slotVars, is_shutting_down, call, main, unread,
                 outVars>>

SupervisorExits ==
  /\ sup.pc = "scan" /\ is_shutting_down
  /\ sup' = [sup EXCEPT !.pc = "exited"]
  /\ UNCHANGED <<workerVars, init, readyVars, slotVars, is_shutting_down, call, main, unread,
                 outVars>>

-----------------------------------------------------------------------------
(* ZServer::run, the reader, and the shutdown it runs at end of input.     *)

\* A line is read: distribute_request wraps it with retry_count 0.
ReadLine(r) ==
  /\ main.pc = "read" /\ call["reader"].pc = "out" /\ r \in unread
  /\ unread' = unread \ {r}
  /\ call' = [call EXCEPT !["reader"] =
                [pc |-> "get", item |-> [data |-> r, retry_count |-> 0], target |-> NoWorker]]
  /\ UNCHANGED <<workerVars, init, readyVars, slotVars, is_shutting_down, main, sup, outVars>>

\* End of input, at any moment between two lines.
EndOfInput ==
  /\ main.pc = "read" /\ call["reader"].pc = "out"
  /\ main' = [main EXCEPT !.pc = "shutdown"]
  /\ UNCHANGED <<workerVars, init, readyVars, slotVars, is_shutting_down, call, sup, unread,
                 outVars>>

\* notify_all on ready_condition
WakeNobody == call
WakeAll == [t \in Caller |-> IF t \in Waiting THEN [call[t] EXCEPT !.pc = "get"] ELSE call[t]]

\* is_shutting_down and notify_all, without ready_mutex.
FlagShutdown ==
  /\ main.pc = "shutdown"
  /\ is_shutting_down' = TRUE
  /\ call' = WakeAll
  /\ main' = [main EXCEPT !.pc = "join"]
  /\ UNCHANGED <<workerVars, init, readyVars, slotVars, sup, unread, outVars>>

JoinSupervisor ==
  /\ main.pc = "join" /\ sup.pc = "exited"
  /\ main' = [main EXCEPT !.pc = "stop"]
  /\ UNCHANGED <<workerVars, init, readyVars, slotVars, is_shutting_down, call, sup, unread,
                 outVars>>

\* Worker::stop of the slots in turn: an empty slot or an Exited worker is skipped.
StopNext == [pc |-> IF main.slot + 1 < NumWorkers THEN "stop" ELSE "done",
             slot |-> main.slot + 1]

SkipSlot ==
  /\ main.pc = "stop"
  /\ LET w == workers[main.slot] IN ~(w # NoWorker /\ state[w] # "Exited")
  /\ main' = StopNext
  /\ UNCHANGED <<workerVars, init, readyVars, slotVars, is_shutting_down, call, sup, unread,
                 outVars>>

StopBegin ==
  LET w == workers[main.slot] IN
  /\ main.pc = "stop" /\ w # NoWorker /\ state[w] # "Exited"
  /\ stop_requested' = [stop_requested EXCEPT ![w] = TRUE]
  /\ state' = [state EXCEPT ![w] = IF @ = "Faulted" THEN @ ELSE "Stopping"]
  /\ main' = [main EXCEPT !.pc = "stopping"]
  /\ UNCHANGED <<request_queue, current_request, thread, taken, late, init, readyVars, slotVars,
                 is_shutting_down, call, sup, unread, outVars>>

\* Not joinable, or seen to have ended in time and joined.
StopJoined ==
  LET w == workers[main.slot] IN
  /\ main.pc = "stopping"
  /\ thread[w] = "none" \/ (state[w] \in {"Exited", "Faulted"} /\ thread[w] = "dead")
  /\ state' = [state EXCEPT ![w] = IF @ = "Faulted" THEN @ ELSE "Exited"]
  /\ main' = StopNext
  /\ UNCHANGED <<stop_requested, request_queue, current_request, thread, taken, late, init,
                 readyVars, slotVars, is_shutting_down, call, sup, unread, outVars>>

StopWaitsForever == FALSE /\ UNCHANGED vars

\* Five seconds pass and it has not ended: detached and marked Faulted.
StopTimesOut ==
  LET w == workers[main.slot] IN
  /\ main.pc = "stopping" /\ thread[w] # "none" /\ state[w] \notin {"Exited", "Faulted"}
  /\ state' = [state EXCEPT ![w] = "Faulted"]
  /\ main' = StopNext
  /\ UNCHANGED <<stop_requested, request_queue, current_request, thread, taken, late, init,
                 readyVars, slotVars, is_shutting_down, call, sup, unread, outVars>>

\* The process has ended its shutdown; nothing more is asked of it.
Terminating == main.pc = "done" /\ UNCHANGED vars

-----------------------------------------------------------------------------
CallerStep(t) ==
  PickWorker(t) \/ PickNone(t) \/ PickShutdown(t) \/ PickNothingReady(t) \/ Block(t) \/ AddRequest(t)
InitStep(w) == StartThread(w) \/ StartIdle(w) \/ MarkReady(w) \/ MarkReadyRefused(w)
LoopStep(w) == LoopIdle(w) \/ TakeRequest(w) \/ StopSignaled(w) \/ BeginRequest(w)
ReplaceStep ==
  \/ MarkNotReady \/ Prepare \/ DrainPending \/ RecoverCurrent \/ StopOld \/ Spawn
  \/ DiscardPoison \/ Redistribute \/ Replaced \/ AbandonReplacement \/ SupervisorExits
ShutdownStep ==
  FlagShutdown \/ JoinSupervisor \/ SkipSlot \/ StopBegin \/ StopJoined \/ StopTimesOut

Next ==
  \/ \E t \in Caller : CallerStep(t)
  \/ \E w \in Worker : InitStep(w) \/ LoopStep(w) \/ Respond(w) \/ Fault(w) \/ Late(w)
  \/ \E i \in Slot : Monitor(i) \/ BackoffElapses(i)
  \/ ReplaceStep
  \/ \E r \in Request : ReadLine(r)
  \/ EndOfInput \/ ShutdownStep \/ Terminating

Spec == Init /\ [][Next]_vars

\* Every thread that can run does; a request that has not hung ends or hangs,
\* and one that hangs need never end.  Lines and the end of input may not come.
Fairness ==
  /\ \A t \in Caller : WF_vars(CallerStep(t))
  /\ \A w \in Worker : WF_vars(InitStep(w)) /\ WF_vars(LoopStep(w))
  /\ \A w \in Worker : WF_vars(~late[w] /\ (Respond(w) \/ Fault(w) \/ Late(w)))
  /\ \A i \in Slot : WF_vars(Monitor(i)) /\ WF_vars(BackoffElapses(i))
  /\ WF_vars(ReplaceStep)
  /\ WF_vars(ShutdownStep)

FairSpec == Spec /\ Fairness

-----------------------------------------------------------------------------
(* What the pool promises.                                                 *)

ReadySlots == {i \in Slot : ready_list[i]}

\* ready_count, on which every caller's wait depends, is the number of slots
\* marked in ready_list, through every replacement and re-initialisation.
ReadyCountExact == ready_count = Cardinality(ReadySlots)

\* Without any timing assumption: a slot marked ready is always counted, so a
\* caller never sleeps beside it and mark_worker_not_ready never aborts.
ReadySlotsCounted == ready_count >= Cardinality(ReadySlots)

\* A slot that is marked ready and whose worker is ready is still in
\* ready_queue: popping stale entries never forgets a live one.
ReadySlotQueued ==
  \A i \in Slot :
    ready_list[i] /\ workers[i] # NoWorker /\ IsReady(workers[i])
      => \E k \in 1 .. Len(ready_queue) : ready_queue[k] = i

\* Everything that still has a request to run, or is running it.
Holders(r) ==
  {<<"unread">> : x \in unread \cap {r}}
    \cup {<<"call", t>> : t \in {u \in Caller : call[u].item.data = r}}
    \cup {<<"taken", w>> : w \in {v \in Worker : taken[v].data = r}}
    \cup {<<"running", w>> : w \in {v \in Worker : thread[v] = "process" /\ current_request[v] = r}}
    \cup {<<"recovered", k>> : k \in {j \in 1 .. Len(sup.recovered) : sup.recovered[j].data = r}}
    \cup UNION {{<<"queue", w, k>> : k \in {j \in 1 .. Len(request_queue[w]) :
                                              request_queue[w][j].data = r}} : w \in Worker}

\* A request is in one place: recovering, re-routing and late detached threads
\* never make a second copy of a command that may write data.
OneHolder == \A r \in Request : Cardinality(Holders(r)) <= 1

\* A request that was answered, with a result or with a timeout error, is not
\* given to process_request again.
NoRerun == [][\A r \in Request : ran'[r] # ran[r] => answers[r] = {}]_vars

InSlot(w) == workers[SlotOf(w)] = w
UnderRecovery(w, phases) == sup.old = w /\ sup.pc \in phases

\* Somebody comes for what a worker holds: its own thread, the supervisor that
\* sees it Faulted in its slot, or a recovery that has not passed that part yet.
WillServe(w, phases) ==
  \/ thread[w] # "dead"
  \/ InSlot(w) /\ state[w] = "Faulted"
  \/ UnderRecovery(w, phases)

QueuedOn(w, r) == \E k \in 1 .. Len(request_queue[w]) : request_queue[w][k].data = r
OnItsWayTo(w, r) == \E t \in Caller : call[t].target = w /\ call[t].item.data = r

\* A request nobody answered is still in the hands of somebody.
InHand(r) ==
  \/ r \in unread
  \/ \E t \in Caller : call[t].item.data = r
  \/ \E k \in 1 .. Len(sup.recovered) : sup.recovered[k].data = r
  \/ \E w \in Worker :
       \/ taken[w].data = r
       \/ QueuedOn(w, r) /\ WillServe(w, {"drain"})
       \/ current_request[w] = r /\ WillServe(w, {"drain", "current"})

\* get_ready_worker finds only stale entries behind a positive ready_count.
NobodyReady(r) ==
  /\ ready_count > 0 /\ LivePositions = {}
  /\ \E t \in Caller : call[t].pc = "get" /\ call[t].item.data = r

\* The request used its retries.
Poisonous(r) ==
  /\ sup.recovered # <<>> /\ Head(sup.recovered).data = r
  /\ Head(sup.recovered).retry_count = kMaxRequestRetries

\* It went to a replaced worker after the queue was drained, or was taken up
\* by the detached thread, which then fails.
OnReplacedWorker(r) ==
  \E w \in Worker :
    /\ ~InSlot(w)
    /\ \/ (QueuedOn(w, r) \/ OnItsWayTo(w, r)) /\ ~UnderRecovery(w, {"drain"})
       \/ /\ thread[w] = "process" /\ current_request[w] = r
          /\ ~UnderRecovery(w, {"drain", "current"})

\* It is with a worker that faulted before start() stored Idle: the thread has
\* ended, and the supervisor will never know.
OnRevivedWorker(r) ==
  \E w \in Worker :
    /\ InSlot(w) /\ thread[w] = "dead" /\ (init[w] = "idle" \/ state[w] # "Faulted")
    /\ QueuedOn(w, r) \/ OnItsWayTo(w, r) \/ current_request[w] = r

\* These are the only ways to lose a request: whatever else happens, one that
\* is not answered stays in somebody's hands until the pool shuts down.
LossesNamed ==
  [][\A r \in Request :
       InHand(r) /\ ~InHand(r)' /\ answers'[r] = {}
       => is_shutting_down \/ NobodyReady(r) \/ Poisonous(r)
            \/ OnReplacedWorker(r) \/ OnRevivedWorker(r)]_vars

\* A slot that was given up, because its worker failed once more after the last
\* attempt, is never filled again.
OfflineStaysEmpty ==
  [][\A i \in Slot :
       /\ workers[i] = NoWorker
       /\ sup.slot # i \/ sup.maxed \/ sup.pc \in {"scan", "redistribute", "exited"}
       => workers'[i] = NoWorker]_vars

\* Poison-pill protection (worker.hpp:119): a request is attempted once and
\* retried at most kMaxRequestRetries times.
PoisonPillBounded == \A r \in Request : ran[r] <= kMaxRequestRetries + 1

\* The request in flight on a worker that ended, while it can still be recovered.
Recoverable(r) ==
  \E w \in Worker : /\ current_request[w] = r
                    /\ workers[SlotOf(w)] = w \/ (sup.old = w /\ sup.pc \in {"drain", "current"})

\* Where a request stands.
Stage(r) ==
  IF answers[r] # {} THEN "answered"
  ELSE IF r \in unread THEN "unread"
  ELSE IF \E w \in Worker : thread[w] = "process" /\ current_request[w] = r THEN "running"
  ELSE IF Holders(r) # {} \/ Recoverable(r) THEN "pending"
  ELSE "lost"

\* The pool keeps the promises of RequestLedger.
Ledger == INSTANCE RequestLedger WITH stage <- [r \in Request |-> Stage(r)], tries <- ran
ImplementsLedger == Ledger!LedgerSpec

\* A line that was read is answered, or on its way to a worker, unless the
\* pool is shutting down.
NoRequestLost == is_shutting_down \/ \A r \in Request : Stage(r) # "lost"

\* A line that was read is answered, unless the input ends or a worker fails.
EveryLineAnswered ==
  \A r \in Request :
    r \notin unread ~> \/ answers[r] # {} \/ is_shutting_down
                      \/ \E w \in Worker : late[w] \/ thread[w] = "dead"

Failed(i) == workers[i] # NoWorker /\ (Faulty(workers[i]) \/ Overdue(workers[i]))

\* A worker that faulted or hangs does not stay in its slot, unless the
\* supervisor itself waits for a ready worker or the pool shuts down.
FailedReplaced ==
  \A i \in Slot :
    Failed(i) ~> ~Failed(i) \/ is_shutting_down \/ call["supervisor"].pc = "waiting"

\* The shutdown at end of input ends, however far the start or the replacement
\* of a worker has come, unless the whole pool is offline: a supervisor that
\* waits there for a ready worker can miss the notification for good.
ShutdownEnds ==
  main.pc = "shutdown" ~> main.pc = "done" \/ \A i \in Slot : workers[i] = NoWorker
=============================================================================
