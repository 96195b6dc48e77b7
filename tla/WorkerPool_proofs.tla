-------------------------- MODULE WorkerPool_proofs --------------------------
(***************************************************************************)
(* Proofs about WorkerPool for every number of workers and requests.       *)
(***************************************************************************)
EXTENDS WorkerPool, FiniteSetTheorems, SequenceTheorems, TLAPS

-----------------------------------------------------------------------------
(* Type correctness needs to know what is set at which program counter.    *)

CallOK ==
  \A t \in Caller :
    /\ call[t].pc \in {"get", "block", "waiting", "add"} => call[t].item \in Item
    /\ call[t].pc = "add" => call[t].target \in Worker

LoopOK ==
  \A w \in Worker :
    /\ thread[w] = "took" => taken[w] \in Item
    /\ thread[w] = "process" => current_request[w] \in Request

SupOK ==
  /\ sup.pc \in {"mark", "prepare"} => workers[sup.slot] \in Worker
  /\ sup.pc \in {"drain", "current", "stop"} => sup.old \in Worker

MainOK ==
  /\ main.pc \in {"read", "shutdown", "join"} => main.slot = 0
  /\ main.pc \in {"stop", "stopping"} => main.slot \in Slot
  /\ main.pc \in {"stop", "stopping", "done"} => sup.pc = "exited"
  /\ main.pc = "stopping" => workers[main.slot] \in Worker

TypeInv == TypeOK /\ CallOK /\ LoopOK /\ SupOK /\ MainOK

LEMMA WorkerFields ==
  ASSUME NEW w \in Worker
  PROVE  SlotOf(w) \in Slot /\ GenOf(w) \in 0 .. MaxGen /\ w = <<SlotOf(w), GenOf(w)>>
BY DEF Worker, SlotOf, GenOf

LEMMA Constants ==
  /\ 0 \in Slot
  /\ NoItem \in Item \cup {NoItem}
  /\ Returned \in CallRecord
  /\ Scanning \in SupRecord
<1>1. 0 \in Slot
  BY PoolAssumption DEF Slot
<1>2. Returned \in CallRecord
  BY DEF Returned, CallRecord
<1>3. <<>> \in Seq(Item)
  OBVIOUS
<1>4. Scanning \in SupRecord
  BY <1>1, <1>3 DEF Scanning, SupRecord
<1> QED BY <1>1, <1>2, <1>4

\* The records the actions build.
LEMMA CallChosen ==
  ASSUME NEW c \in CallRecord, NEW w \in Worker
  PROVE  [c EXCEPT !.pc = "add", !.target = w] \in CallRecord
BY DEF CallRecord

LEMMA CallMoved ==
  ASSUME NEW c \in CallRecord, NEW pc \in {"get", "block", "waiting"}
  PROVE  [c EXCEPT !.pc = pc] \in CallRecord
BY DEF CallRecord

LEMMA CallWoken ==
  ASSUME TypeInv, NEW t \in Caller, call[t].pc = "waiting"
  PROVE  LET c == [call[t] EXCEPT !.pc = "get"]
         IN  c \in CallRecord /\ c.pc = "get" /\ c.item = call[t].item /\ c.item \in Item
<1>1. call[t] \in CallRecord
  BY DEF TypeInv, TypeOK, ThreadTypeOK, PoolTypeOK
<1>2. call[t].item \in Item
  BY DEF TypeInv, CallOK
<1>3. [call[t] EXCEPT !.pc = "get"] \in CallRecord
  BY <1>1, CallMoved
<1>4. [call[t] EXCEPT !.pc = "get"].pc = "get" /\ [call[t] EXCEPT !.pc = "get"].item = call[t].item
  BY <1>1 DEF CallRecord
<1> QED BY <1>2, <1>3, <1>4

LEMMA RetriedItem ==
  ASSUME NEW req \in Item, MayRetry(req)
  PROVE  [req EXCEPT !.retry_count = @ + 1] \in Item
<1>1. req.retry_count + 1 \in 0 .. kMaxRequestRetries
  BY PoolAssumption DEF Item, MayRetry
<1> QED BY <1>1 DEF Item

LEMMA SupPrepared ==
  ASSUME NEW s \in SupRecord, NEW w \in Worker, NEW m \in BOOLEAN
  PROVE  [s EXCEPT !.pc = "drain", !.old = w, !.maxed = m] \in SupRecord
BY DEF SupRecord

LEMMA TypeInvInit == Init => TypeInv
<1> SUFFICES ASSUME Init PROVE TypeInv
  OBVIOUS
<1> USE PoolAssumption
<1>1. \A i \in Slot : <<i, 0>> \in Worker
  BY DEF Worker
<1>2. WorkerTypeOK
  BY DEF Init, WorkerTypeOK
<1>3. PoolTypeOK
  <2>1. 0 \in 0 .. MaxGen
    OBVIOUS
  <2>2. workers \in [Slot -> Worker \cup {NoWorker}]
    BY <1>1 DEF Init
  <2>3. ready_queue \in Seq(Slot)
    BY DEF Init
  <2>4. generation \in [Slot -> 0 .. MaxGen]
    BY <2>1 DEF Init
  <2>5. replacement_attempts \in [Slot -> Nat] /\ max_replace_attempts \in Nat
    BY DEF Init
  <2>6. ready_list \in [Slot -> BOOLEAN] /\ backoff \in [Slot -> BOOLEAN]
    BY DEF Init
  <2>7. ready_count \in Int
    BY DEF Init
  <2>8. is_shutting_down \in BOOLEAN
    BY Zenon DEF Init
  <2> QED BY <2>2, <2>3, <2>4, <2>5, <2>6, <2>7, <2>8 DEF PoolTypeOK
<1>4. ThreadTypeOK
  BY Constants DEF Init, ThreadTypeOK, MainRecord
<1>5. CallOK /\ LoopOK /\ SupOK /\ MainOK
  BY DEF Init, CallOK, LoopOK, SupOK, MainOK, Returned, Scanning
<1> QED BY <1>2, <1>3, <1>4, <1>5 DEF TypeInv, TypeOK
-----------------------------------------------------------------------------
(* Each action keeps TypeInv: the callers.                                 *)

LEMMA CallerTypes ==
  ASSUME TypeInv, NEW t \in Caller, CallerStep(t)
  PROVE  TypeInv'
<1> USE PoolAssumption DEF TypeInv, TypeOK, WorkerTypeOK, PoolTypeOK, ThreadTypeOK, CallOK, LoopOK,
                          SupOK, MainOK, CallRecord, workerVars, readyVars, slotVars, outVars
<1>1. CASE PickWorker(t)
  <2>1. PICK k \in LivePositions :
          /\ ready_queue' = Rotate(k)
          /\ call' = [call EXCEPT ![t].pc = "add", ![t].target = workers[ready_queue[k]]]
    BY <1>1 DEF PickWorker
  <2>2. k \in 1 .. Len(ready_queue) /\ workers[ready_queue[k]] \in Worker
    BY <2>1 DEF LivePositions
  <2>3. Rotate(k) \in Seq(Slot)
    <3>1. ready_queue \in Seq(Slot) /\ ready_queue[k] \in Slot
      BY <2>2
    <3>2. SubSeq(ready_queue, k + 1, Len(ready_queue)) \in Seq(Slot)
      BY <2>2, <3>1
    <3> QED BY <3>1, <3>2 DEF Rotate
  <2>4. call' \in [Caller -> CallRecord] /\ CallOK'
    <3> DEFINE c == [call[t] EXCEPT !.pc = "add", !.target = workers[ready_queue[k]]]
    <3>1. c \in CallRecord
      BY <2>2, CallChosen
    <3>2. c.item = call[t].item /\ c.target = workers[ready_queue[k]]
      OBVIOUS
    <3>3. call' = [call EXCEPT ![t] = c]
      BY <2>1
    <3>4. call[t].item \in Item
      BY <1>1 DEF PickWorker
    <3> QED BY <2>2, <3>1, <3>2, <3>3, <3>4
  <2>5. PoolTypeOK'
    BY <1>1, <2>1, <2>3 DEF PickWorker
  <2> QED BY <1>1, <2>4, <2>5 DEF PickWorker
<1>2. CASE PickNone(t)
  BY <1>2, Constants DEF PickNone, Returned
<1>3. CASE PickShutdown(t)
  BY <1>3, Constants DEF PickShutdown, Returned
<1>4. CASE PickNothingReady(t)
  <2> DEFINE c == [call[t] EXCEPT !.pc = "block"]
  <2>1. c \in CallRecord /\ c.item = call[t].item /\ c.pc = "block" /\ c.item \in Item
    BY <1>4, CallMoved DEF PickNothingReady
  <2>2. call' = [call EXCEPT ![t] = c]
    BY <1>4 DEF PickNothingReady
  <2> HIDE DEF c
  <2>3. call' \in [Caller -> CallRecord] /\ CallOK'
    BY <2>1, <2>2
  <2> QED BY <1>4, <2>3 DEF PickNothingReady
<1>5. CASE Block(t)
  <2> DEFINE c == [call[t] EXCEPT !.pc = "waiting"]
  <2>1. c \in CallRecord /\ c.item = call[t].item /\ c.pc = "waiting" /\ c.item \in Item
    BY <1>5, CallMoved DEF Block
  <2>2. call' = [call EXCEPT ![t] = c]
    BY <1>5 DEF Block
  <2> HIDE DEF c
  <2>3. call' \in [Caller -> CallRecord] /\ CallOK'
    BY <2>1, <2>2
  <2> QED BY <1>5, <2>3 DEF Block
<1>6. CASE AddRequest(t)
  BY <1>6, Constants DEF AddRequest, Returned
<1> QED BY <1>1, <1>2, <1>3, <1>4, <1>5, <1>6 DEF CallerStep

LEMMA WorkerTypes ==
  ASSUME TypeInv, NEW w \in Worker, InitStep(w) \/ LoopStep(w) \/ Respond(w) \/ Fault(w) \/ Late(w)
  PROVE  TypeInv'
<1> USE PoolAssumption, WorkerFields DEF TypeInv, TypeOK, WorkerTypeOK, PoolTypeOK, ThreadTypeOK, CallOK, LoopOK,
                          SupOK, MainOK, CallRecord, workerVars, readyVars, slotVars, outVars
<1>1. CASE StartThread(w)
  BY <1>1, Constants DEF StartThread
<1>2. CASE StartIdle(w)
  BY <1>2, Constants DEF StartIdle
<1>3. CASE MarkReady(w)
  <2>1. call' \in [Caller -> CallRecord] /\ CallOK'
    <3>1. CASE call' = call
      BY <3>1
    <3>2. CASE \E t \in Waiting : call' = [call EXCEPT ![t].pc = "get"]
      <4>1. PICK t \in Waiting : call' = [call EXCEPT ![t].pc = "get"]
        BY <3>2
      <4>2. t \in Caller /\ call[t].pc = "waiting"
        BY <4>1 DEF Waiting
      <4> DEFINE c == [call[t] EXCEPT !.pc = "get"]
      <4>3. c \in CallRecord /\ c.item = call[t].item /\ c.pc = "get" /\ c.item \in Item
        <5> HIDE DEF TypeInv, CallRecord
        <5> QED BY <4>2, CallWoken
      <4>4. call' = [call EXCEPT ![t] = c]
        BY <4>1
      <4> HIDE DEF c
      <4> QED BY <4>2, <4>3, <4>4
    <3> QED BY <1>3, <3>1, <3>2 DEF MarkReady, NotifyOne
  <2>2. PoolTypeOK'
    <3>1. replacement_attempts' \in [Slot -> Nat]
      BY <1>3 DEF MarkReady
    <3>2. ready_queue' \in Seq(Slot)
      BY <1>3 DEF MarkReady
    <3> QED BY SMTT(20), <1>3, <3>1, <3>2 DEF MarkReady
  <2> QED BY <1>3, <2>1, <2>2 DEF MarkReady
<1>4. CASE MarkReadyRefused(w)
  BY <1>4, Constants DEF MarkReadyRefused
<1>5. CASE LoopIdle(w)
  BY SMTT(20), <1>5, Constants DEF LoopIdle
<1>6. CASE TakeRequest(w)
  BY SMTT(20), <1>6, Constants DEF TakeRequest
<1>7. CASE StopSignaled(w)
  BY <1>7, Constants DEF StopSignaled
<1>8. CASE BeginRequest(w)
  <2>1. taken[w].data \in Request
    BY <1>8 DEF BeginRequest, Item
  <2>2. ran' \in [Request -> Nat]
    BY SMTT(20), <1>8, <2>1 DEF BeginRequest
  <2>3. WorkerTypeOK' /\ LoopOK'
    BY <1>8, <2>1, Constants DEF BeginRequest
  <2> QED BY <1>8, <2>2, <2>3 DEF BeginRequest
<1>9. CASE Respond(w)
  BY <1>9, Constants DEF Respond
<1>10. CASE Fault(w)
  BY <1>10, Constants DEF Fault
<1>11. CASE Late(w)
  BY <1>11, Constants DEF Late
<1> QED BY <1>1, <1>2, <1>3, <1>4, <1>5, <1>6, <1>7, <1>8, <1>9, <1>10, <1>11 DEF InitStep, LoopStep
LEMMA SupervisorTypes ==
  ASSUME TypeInv, ReplaceStep \/ \E i \in Slot : Monitor(i) \/ BackoffElapses(i)
  PROVE  TypeInv'
<1> USE PoolAssumption DEF TypeInv, TypeOK, WorkerTypeOK, PoolTypeOK, ThreadTypeOK, CallOK, LoopOK,
                          SupOK, MainOK, CallRecord, SupRecord, workerVars, readyVars, slotVars, outVars
<1>1. CASE MarkNotReady
  <2>1. sup' \in SupRecord /\ SupOK'
    BY <1>1, Constants DEF MarkNotReady, Scanning
  <2>2. ready_list' \in [Slot -> BOOLEAN] /\ ready_count' \in Int
    BY <1>1 DEF MarkNotReady, Unmark, Uncount
  <2>3. PoolTypeOK'
    BY <1>1, <2>2 DEF MarkNotReady
  <2>4. MainOK'
    BY <1>1 DEF MarkNotReady
  <2> QED BY <1>1, <2>1, <2>3, <2>4 DEF MarkNotReady
<1>2. CASE Prepare
  <2>1. sup' \in SupRecord /\ SupOK'
    <3> DEFINE m == replacement_attempts[sup.slot] >= max_replace_attempts
    <3>1. m \in BOOLEAN /\ workers[sup.slot] \in Worker
      BY <1>2 DEF Prepare
    <3>2. sup' = [sup EXCEPT !.pc = "drain", !.old = workers[sup.slot], !.maxed = m]
      BY <1>2 DEF Prepare
    <3>3. sup' \in SupRecord
      BY <3>1, <3>2, SupPrepared
    <3>4. sup'.pc = "drain" /\ sup'.old \in Worker
      BY <3>1, <3>2
    <3> QED BY <3>3, <3>4
  <2>2. replacement_attempts' \in [Slot -> Nat]
    BY <1>2 DEF Prepare
  <2>3. workers' \in [Slot -> Worker \cup {NoWorker}] /\ backoff' \in [Slot -> BOOLEAN]
    BY <1>2 DEF Prepare
  <2>4. PoolTypeOK'
    BY <1>2, <2>2, <2>3 DEF Prepare
  <2>5. MainOK'
    BY <1>2 DEF Prepare
  <2> QED BY <1>2, <2>1, <2>4, <2>5 DEF Prepare
<1>3. CASE DrainPending
  <2>1. sup' \in SupRecord /\ SupOK'
    BY <1>3 DEF DrainPending
  <2>2. request_queue' \in [Worker -> Seq(Item)]
    <3>1. <<>> \in Seq(Item)
      OBVIOUS
    <3> QED BY <1>3, <3>1 DEF DrainPending, Drained
  <2>3. MainOK'
    BY <1>3 DEF DrainPending
  <2> QED BY <1>3, <2>1, <2>2, <2>3 DEF DrainPending
<1>4. CASE RecoverCurrent
  <2> DEFINE r == current_request[sup.old]
  <2>1. r \in Request \cup {NoRequest}
    BY <1>4 DEF RecoverCurrent
  <2>2. RecoveredInFlight(r) \in Seq(Item)
    <3>1. CASE r \in Request
      <4>1. [data |-> r, retry_count |-> 0] \in Item
        BY <3>1 DEF Item
      <4> QED BY <4>1 DEF RecoveredInFlight
    <3>2. CASE r = NoRequest
      BY <3>2 DEF RecoveredInFlight
    <3> QED BY <2>1, <3>1, <3>2
  <2>3. sup.recovered \o RecoveredInFlight(r) \in Seq(Item)
    BY <2>2
  <2>4. sup' \in SupRecord /\ SupOK'
    BY <1>4, <2>3 DEF RecoverCurrent
  <2>5. answers' \in [Request -> SUBSET {"result", "timeout"}]
    BY <1>4, <2>1 DEF RecoverCurrent
  <2>6. MainOK'
    BY <1>4 DEF RecoverCurrent
  <2> QED BY <1>4, <2>4, <2>5, <2>6 DEF RecoverCurrent
<1>5. CASE StopOld
  BY <1>5, Constants DEF StopOld, AfterStop
<1>6. CASE Spawn
  <2> DEFINE i == sup.slot
  <2>1. generation[i] + 1 \in 0 .. MaxGen /\ i \in Slot
    BY <1>6 DEF Spawn
  <2>2. <<i, generation[i] + 1>> \in Worker
    BY <2>1 DEF Worker
  <2>3. PoolTypeOK'
    <3>1. generation' \in [Slot -> 0 .. MaxGen]
      BY <1>6, <2>1 DEF Spawn
    <3>2. workers' \in [Slot -> Worker \cup {NoWorker}]
      BY <1>6, <2>2 DEF Spawn
    <3> QED BY <1>6, <3>1, <3>2 DEF Spawn, Unmark
  <2>4. init' \in [Worker -> {"none", "start", "idle", "ready", "done"}]
    BY <1>6, <2>2 DEF Spawn
  <2>5. sup' \in SupRecord /\ SupOK'
    BY <1>6 DEF Spawn
  <2>6. MainOK'
    BY <1>6 DEF Spawn
  <2> QED BY <1>6, <2>3, <2>4, <2>5, <2>6 DEF Spawn
<1>7. CASE DiscardPoison
  <2>1. Tail(sup.recovered) \in Seq(Item)
    BY <1>7 DEF DiscardPoison
  <2>2. sup' \in SupRecord /\ SupOK' /\ MainOK'
    BY <1>7, <2>1 DEF DiscardPoison
  <2> QED BY <1>7, <2>2 DEF DiscardPoison
<1>8. CASE Redistribute
  <2> DEFINE req == Head(sup.recovered)
  <2>1. req \in Item /\ Tail(sup.recovered) \in Seq(Item)
    BY <1>8 DEF Redistribute
  <2>2. [req EXCEPT !.retry_count = @ + 1] \in Item
    BY <1>8, <2>1, RetriedItem DEF Redistribute
  <2>3. sup' \in SupRecord /\ SupOK' /\ MainOK'
    BY <1>8, <2>1 DEF Redistribute
  <2>4. call' \in [Caller -> CallRecord] /\ CallOK'
    BY <1>8, <2>2 DEF Redistribute
  <2> QED BY <1>8, <2>3, <2>4 DEF Redistribute
<1>9. CASE Replaced
  BY <1>9, Constants DEF Replaced, Scanning
<1>10. CASE AbandonReplacement
  BY <1>10, Constants DEF AbandonReplacement, Scanning
<1>11. CASE SupervisorExits
  BY <1>11, Constants DEF SupervisorExits
<1>12. CASE \E i \in Slot : Monitor(i)
  <2>1. PICK i \in Slot : Monitor(i)
    BY <1>12
  <2>2. sup' \in SupRecord /\ SupOK' /\ MainOK'
    BY <2>1 DEF Monitor, Overdue
  <2> QED BY <2>1, <2>2 DEF Monitor
<1>13. CASE \E i \in Slot : BackoffElapses(i)
  BY SMTT(20), <1>13 DEF BackoffElapses
<1> QED BY <1>1, <1>2, <1>3, <1>4, <1>5, <1>6, <1>7, <1>8, <1>9, <1>10, <1>11, <1>12, <1>13 DEF ReplaceStep

LEMMA MainTypes ==
  ASSUME TypeInv, (\E r \in Request : ReadLine(r)) \/ EndOfInput \/ ShutdownStep \/ Terminating
  PROVE  TypeInv'
<1> USE PoolAssumption DEF TypeInv, TypeOK, WorkerTypeOK, PoolTypeOK, ThreadTypeOK, CallOK, LoopOK,
                          SupOK, MainOK, CallRecord, MainRecord, workerVars, readyVars, slotVars, outVars
<1>0. main.pc \in {"stop", "stopping"} => /\ StopNext \in MainRecord
                                          /\ StopNext.pc = "stop" => StopNext.slot \in Slot
                                          /\ StopNext.pc \in {"stop", "done"}
  BY SMTT(20) DEF StopNext, Slot
<1>1. CASE FlagShutdown
  <2>1. call' \in [Caller -> CallRecord] /\ CallOK'
    <3> DEFINE woken(u) == [call[u] EXCEPT !.pc = "get"]
    <3>1. \A u \in Caller : woken(u) \in CallRecord /\ woken(u).item = call[u].item /\ woken(u).pc = "get"
      <4> SUFFICES ASSUME NEW u \in Caller
                   PROVE  woken(u) \in CallRecord /\ woken(u).item = call[u].item /\ woken(u).pc = "get"
        OBVIOUS
      <4>1. call[u] \in CallRecord
        OBVIOUS
      <4> QED BY <4>1, CallMoved
    <3>2. call' = [u \in Caller |-> IF call[u].pc = "waiting" THEN woken(u) ELSE call[u]]
      BY <1>1 DEF FlagShutdown, WakeAll, Waiting
    <3>3. call' \in [Caller -> CallRecord]
      BY <3>1, <3>2
    <3>4. \A u \in Caller : call[u].pc = "waiting" => woken(u).item \in Item
      BY <3>1
    <3> HIDE DEF woken
    <3>5. CallOK'
      BY <3>1, <3>2, <3>4
    <3> QED BY <3>3, <3>5
  <2>2. main' \in MainRecord /\ MainOK'
    BY <1>1 DEF FlagShutdown
  <2>3. PoolTypeOK'
    BY <1>1 DEF FlagShutdown
  <2> QED BY <1>1, <2>1, <2>2, <2>3 DEF FlagShutdown
<1>2. CASE JoinSupervisor
  <2>1. main' \in MainRecord /\ main'.pc = "stop" /\ main'.slot = main.slot
    BY <1>2 DEF JoinSupervisor
  <2>2. MainOK'
    BY <1>2, <2>1, Constants DEF JoinSupervisor
  <2> QED BY <1>2, <2>1, <2>2 DEF JoinSupervisor
<1>3. CASE SkipSlot
  <2>1. main' = StopNext /\ main.pc \in {"stop", "stopping"}
    BY <1>3 DEF SkipSlot
  <2>2. main' \in MainRecord /\ MainOK'
    BY <1>0, <1>3, <2>1 DEF SkipSlot
  <2> QED BY <1>3, <2>2 DEF SkipSlot
<1>4. CASE StopBegin
  BY <1>4 DEF StopBegin
<1>5. CASE StopJoined
  <2>1. main' = StopNext /\ main.pc \in {"stop", "stopping"}
    BY <1>5 DEF StopJoined
  <2>2. main' \in MainRecord /\ MainOK'
    BY <1>0, <1>5, <2>1 DEF StopJoined
  <2> QED BY <1>5, <2>2 DEF StopJoined
<1>6. CASE StopTimesOut
  <2>1. main' = StopNext /\ main.pc \in {"stop", "stopping"}
    BY <1>6 DEF StopTimesOut
  <2>2. main' \in MainRecord /\ MainOK'
    BY <1>0, <1>6, <2>1 DEF StopTimesOut
  <2> QED BY <1>6, <2>2 DEF StopTimesOut
<1>7. CASE EndOfInput
  BY <1>7 DEF EndOfInput
<1>8. CASE \E r \in Request : ReadLine(r)
  <2>1. PICK r \in Request : ReadLine(r)
    BY <1>8
  <2>2. [data |-> r, retry_count |-> 0] \in Item
    BY DEF Item
  <2>3. call' \in [Caller -> CallRecord] /\ CallOK'
    BY <2>1, <2>2 DEF ReadLine
  <2>4. unread' \in SUBSET Request
    BY <2>1 DEF ReadLine
  <2> QED BY <2>1, <2>3, <2>4 DEF ReadLine
<1>9. CASE Terminating
  BY <1>9 DEF Terminating, vars
<1> QED BY <1>1, <1>2, <1>3, <1>4, <1>5, <1>6, <1>7, <1>8, <1>9 DEF ShutdownStep

LEMMA TypeInvNext == TypeInv /\ [Next]_vars => TypeInv'
<1> SUFFICES ASSUME TypeInv, [Next]_vars PROVE TypeInv'
  OBVIOUS
<1>1. CASE UNCHANGED vars
  BY <1>1 DEF vars, workerVars, readyVars, slotVars, outVars, TypeInv, TypeOK, WorkerTypeOK,
              PoolTypeOK, ThreadTypeOK, CallOK, LoopOK, SupOK, MainOK
<1> QED BY <1>1, CallerTypes, WorkerTypes, SupervisorTypes, MainTypes DEF Next

\* The types of every variable, at every point of every thread.
THEOREM TypeCorrect == Spec => []TypeOK
<1>1. TypeInv => TypeOK
  BY DEF TypeInv
<1> QED BY TypeInvInit, TypeInvNext, <1>1, PTL DEF Spec

-----------------------------------------------------------------------------
(* ready_count.  Only set_worker_ready, mark_worker_not_ready and           *)
(* spawn_replacement_worker touch ready_list, so the other actions are one  *)
(* lemma; the last of the three clears a mark without counting it, which is *)
(* harmless for "at least", and for "exactly" needs the slot to be unmarked *)
(* from the mark's removal to the spawn.                                    *)

LEMMA SlotsFinite == IsFiniteSet(ReadySlots) /\ Cardinality(ReadySlots) \in Nat
<1>1. IsFiniteSet(Slot)
  BY PoolAssumption, FS_Interval DEF Slot
<1>2. ReadySlots \subseteq Slot
  BY DEF ReadySlots
<1> QED BY <1>1, <1>2, FS_Subset, FS_CardinalityType

LEMMA OthersKeepReady ==
  ASSUME TypeInv, [Next]_vars,
         \A w \in Worker : ~MarkReady(w),
         ~MarkNotReady, ~Spawn
  PROVE  UNCHANGED <<ready_list, ready_count>>
<1>1. CASE UNCHANGED vars
  BY <1>1 DEF vars, readyVars
<1>2. CASE \E t \in Caller : CallerStep(t)
  BY <1>2 DEF CallerStep, PickWorker, PickNone, PickShutdown, PickNothingReady, Block, AddRequest, readyVars
<1>3. CASE \E w \in Worker : InitStep(w) \/ LoopStep(w) \/ Respond(w) \/ Fault(w) \/ Late(w)
  BY <1>3 DEF InitStep, StartThread, StartIdle, MarkReadyRefused, LoopStep, LoopIdle, TakeRequest,
              StopSignaled, BeginRequest, Respond, Fault, Late, readyVars
<1>4. CASE \E i \in Slot : Monitor(i) \/ BackoffElapses(i)
  BY <1>4 DEF Monitor, BackoffElapses, readyVars
<1>5. CASE ReplaceStep
  BY <1>5 DEF ReplaceStep, Prepare, DrainPending, RecoverCurrent, StopOld, DiscardPoison,
              Redistribute, Replaced, AbandonReplacement, SupervisorExits, readyVars
<1>6. CASE (\E r \in Request : ReadLine(r)) \/ EndOfInput
  BY <1>6 DEF ReadLine, EndOfInput, readyVars
<1>7. CASE ShutdownStep
  BY <1>7 DEF ShutdownStep, FlagShutdown, JoinSupervisor, SkipSlot, StopBegin, StopJoined,
              StopTimesOut, readyVars
<1>8. CASE Terminating
  BY <1>8 DEF Terminating, vars, readyVars
<1> QED BY <1>1, <1>2, <1>3, <1>4, <1>5, <1>6, <1>7, <1>8 DEF Next

\* Setting one mark adds one slot, clearing one removes it.
LEMMA MarkAdds ==
  ASSUME TypeOK, NEW w \in Worker, MarkReady(w)
  PROVE  Cardinality(ReadySlots') = Cardinality(ReadySlots) + 1
<1> DEFINE i == SlotOf(w)
<1>1. i \in Slot /\ i \notin ReadySlots
  BY WorkerFields DEF MarkReady, ReadySlots
<1>2. ReadySlots' = ReadySlots \cup {i}
  BY <1>1 DEF MarkReady, ReadySlots, TypeOK, PoolTypeOK
<1> HIDE DEF i
<1> QED BY <1>1, <1>2, SlotsFinite, FS_AddElement

LEMMA UnmarkRemoves ==
  ASSUME TypeOK, NEW i \in Slot, ready_list' = Unmark(i)
  PROVE  Cardinality(ReadySlots') = IF ready_list[i] THEN Cardinality(ReadySlots) - 1
                                    ELSE Cardinality(ReadySlots)
<1>1. ReadySlots' = ReadySlots \ {i}
  BY DEF Unmark, ReadySlots, TypeOK, PoolTypeOK
<1>2. i \in ReadySlots <=> ready_list[i]
  BY DEF ReadySlots
<1>3. CASE ready_list[i]
  BY <1>1, <1>2, <1>3, SlotsFinite, FS_RemoveElement
<1>4. CASE ~ready_list[i]
  <2>1. ReadySlots' = ReadySlots
    BY <1>1, <1>2, <1>4
  <2> QED BY <2>1, <1>4
<1> QED BY <1>3, <1>4

\* Every slot marked ready is counted, whatever the timing of the threads.
THEOREM ReadyNeverUndercounted == Spec => []ReadySlotsCounted
<1> DEFINE I == TypeInv /\ ReadySlotsCounted
<1>1. Init => I
  <2> SUFFICES ASSUME Init PROVE ReadySlotsCounted
    BY TypeInvInit
  <2>1. ReadySlots = {}
    BY DEF Init, ReadySlots
  <2> QED BY <2>1, FS_EmptySet DEF Init, ReadySlotsCounted
<1>2. I /\ [Next]_vars => I'
  <2> SUFFICES ASSUME I, [Next]_vars PROVE ReadySlotsCounted'
    BY TypeInvNext
  <2>0. TypeInv /\ TypeOK /\ ready_count \in Int /\ sup.slot \in Slot
        /\ ready_count >= Cardinality(ReadySlots) /\ Cardinality(ReadySlots) \in Nat
    BY SlotsFinite DEF TypeInv, TypeOK, PoolTypeOK, ThreadTypeOK, SupRecord, ReadySlotsCounted
  <2>1. ASSUME NEW w \in Worker, MarkReady(w) PROVE ReadySlotsCounted'
    <3>1. Cardinality(ReadySlots') = Cardinality(ReadySlots) + 1
      BY <2>0, <2>1, MarkAdds
    <3>2. ready_count' = ready_count + 1
      BY <2>1 DEF MarkReady
    <3> QED BY <2>0, <3>1, <3>2 DEF ReadySlotsCounted
  <2>2. CASE MarkNotReady
    <3>1. ready_list' = Unmark(sup.slot) /\ ready_count' = Uncount(sup.slot)
      BY <2>2 DEF MarkNotReady
    <3>2. ready_list[sup.slot] => Cardinality(ReadySlots) >= 1
      <4> SUFFICES ASSUME ready_list[sup.slot], Cardinality(ReadySlots) = 0 PROVE FALSE
        BY <2>0
      <4> QED BY <2>0, SlotsFinite, FS_EmptySet DEF ReadySlots
    <3>3. Cardinality(ReadySlots') = IF ready_list[sup.slot] THEN Cardinality(ReadySlots) - 1
                                     ELSE Cardinality(ReadySlots)
      BY <2>0, <3>1, UnmarkRemoves
    <3>4. ready_count' = IF ready_list[sup.slot] THEN ready_count - 1 ELSE ready_count
      BY <2>0, <3>1, <3>2 DEF Uncount
    <3> QED BY <2>0, <3>3, <3>4 DEF ReadySlotsCounted
  <2>3. CASE Spawn
    <3>1. ready_list' = Unmark(sup.slot) /\ ready_count' = ready_count
      BY <2>3 DEF Spawn
    <3>2. Cardinality(ReadySlots') <= Cardinality(ReadySlots)
          /\ Cardinality(ReadySlots') \in Int
      BY <2>0, <3>1, UnmarkRemoves
    <3> QED BY <2>0, <3>1, <3>2 DEF ReadySlotsCounted
  <2>4. CASE UNCHANGED <<ready_list, ready_count>>
    BY <2>0, <2>4 DEF ReadySlotsCounted, ReadySlots
  <2> QED BY <2>0, <2>1, <2>2, <2>3, <2>4, OthersKeepReady
<1>3. I => ReadySlotsCounted
  OBVIOUS
<1> QED BY <1>1, <1>2, <1>3, PTL DEF Spec
-----------------------------------------------------------------------------
(* When initialize_worker is prompt, the slot under replacement has no      *)
(* thread left that could mark it ready again.                              *)

\* Which objects exist, and whom a thread of initialize_worker can be for.
GenInv ==
  /\ \A w \in Worker : init[w] = "none" <=> GenOf(w) > generation[SlotOf(w)]
  /\ \A w \in Worker : init[w] \in {"start", "idle", "ready"} => workers[SlotOf(w)] = w
  /\ \A i \in Slot : workers[i] # NoWorker => workers[i] = <<i, generation[i]>>

\* While the supervisor lives, a worker has served or ended only once its
\* initialize_worker is over.
DoneInv ==
  sup.pc # "exited" =>
    \A w \in Worker :
      \/ state[w] \in {"Running", "Faulted", "Exited"}
      \/ thread[w] \in {"took", "process", "dead"}
      \/ stop_requested[w]
      => init[w] = "done"

ReplInv ==
  /\ sup.pc \in {"mark", "prepare"} => init[workers[sup.slot]] = "done"
  /\ sup.pc \in {"drain", "current", "stop"} => init[sup.old] = "done"
  /\ sup.pc \in {"drain", "current", "stop", "spawn"} => workers[sup.slot] = NoWorker
  /\ sup.pc \in {"prepare", "drain", "current", "stop", "spawn"} => ~ready_list[sup.slot]

PromptInv == GenInv /\ DoneInv /\ ReplInv
\* The part of the state PromptInv speaks of.
promptVars == <<state, stop_requested, thread, init, workers, generation, ready_list, sup>>

LEMMA PromptFrame ==
  ASSUME PromptInv, UNCHANGED promptVars
  PROVE  PromptInv'
BY DEF PromptInv, GenInv, DoneInv, ReplInv, promptVars

LEMMA PromptCaller ==
  ASSUME PromptInv, NEW t \in Caller, CallerStep(t)
  PROVE  PromptInv'
<1>1. UNCHANGED promptVars
  BY DEF CallerStep, PickWorker, PickNone, PickShutdown, PickNothingReady, Block, AddRequest,
         promptVars, workerVars, readyVars, slotVars
<1> QED BY <1>1, PromptFrame

LEMMA PromptWorker ==
  ASSUME PromptInit, TypeInv, PromptInv, NEW w \in Worker,
         InitStep(w) \/ LoopStep(w) \/ Respond(w) \/ Fault(w) \/ Late(w)
  PROVE  PromptInv'
<1> USE WorkerFields DEF TypeInv, TypeOK, WorkerTypeOK, PoolTypeOK, ThreadTypeOK, SupRecord, SupOK,
        PromptInv, GenInv, DoneInv, ReplInv, workerVars, readyVars, slotVars
<1>1. CASE StartThread(w)
  BY SMTT(20), <1>1 DEF StartThread
<1>2. CASE StartIdle(w)
  <2>1. /\ init' = [init EXCEPT ![w] = "ready"] /\ init[w] = "idle"
        /\ state' = [state EXCEPT ![w] = "Idle"]
        /\ UNCHANGED <<stop_requested, thread, workers, generation, ready_list, sup>>
    BY <1>2 DEF StartIdle
  <2>2. GenInv'
    BY <2>1
  <2>3. DoneInv'
    BY <2>1
  <2>4. ReplInv'
    BY <2>1
  <2> QED BY <2>2, <2>3, <2>4
<1>3. CASE MarkReady(w)
  BY SMTT(20), <1>3 DEF MarkReady
<1>4. CASE MarkReadyRefused(w)
  <2>1. /\ init' = [init EXCEPT ![w] = "done"]
        /\ UNCHANGED <<state, stop_requested, thread, workers, generation, ready_list, sup>>
        /\ init[w] = "ready"
    BY <1>4 DEF MarkReadyRefused
  <2>2. GenInv'
    BY <2>1
  <2>3. DoneInv'
    BY <2>1
  <2>4. ReplInv'
    BY <2>1
  <2> QED BY <2>2, <2>3, <2>4
<1>5. CASE LoopIdle(w)
  BY <1>5 DEF LoopIdle
<1>6. CASE TakeRequest(w)
  BY SMTT(20), <1>6 DEF TakeRequest
<1>7. CASE StopSignaled(w)
  BY <1>7 DEF StopSignaled
<1>8. CASE BeginRequest(w)
  BY <1>8 DEF BeginRequest
<1>9. CASE Respond(w)
  BY <1>9 DEF Respond
<1>10. CASE Fault(w)
  BY <1>10 DEF Fault
<1>11. CASE Late(w)
  BY <1>11 DEF Late
<1> QED BY <1>1, <1>2, <1>3, <1>4, <1>5, <1>6, <1>7, <1>8, <1>9, <1>10, <1>11 DEF InitStep, LoopStep

LEMMA PromptSupervisor ==
  ASSUME PromptInit, TypeInv, PromptInv, ReplaceStep \/ \E i \in Slot : Monitor(i) \/ BackoffElapses(i)
  PROVE  PromptInv'
<1> USE DEF TypeInv, TypeOK, WorkerTypeOK, PoolTypeOK, ThreadTypeOK, SupRecord, SupOK,
        PromptInv, GenInv, DoneInv, ReplInv, workerVars, readyVars, slotVars
<1>1. CASE MarkNotReady
  BY <1>1, WorkerFields DEF MarkNotReady, Unmark, Scanning
<1>2. CASE Prepare
  <2> DEFINE i == sup.slot
  <2>1. i \in Slot /\ workers[i] \in Worker /\ init[workers[i]] = "done" /\ ~ready_list[i]
    BY <1>2 DEF Prepare
  <2>2. /\ workers' = [workers EXCEPT ![i] = NoWorker]
        /\ sup'.pc = "drain" /\ sup'.old = workers[i] /\ sup'.slot = i /\ sup.pc = "prepare"
        /\ UNCHANGED <<state, thread, stop_requested, init, generation, ready_list>>
    BY <1>2 DEF Prepare
  <2> HIDE DEF i
  <2>3. \A w \in Worker : init[w] \in {"start", "idle", "ready"} => workers'[SlotOf(w)] = w
    <3> SUFFICES ASSUME NEW w \in Worker, init[w] \in {"start", "idle", "ready"}
                 PROVE  workers'[SlotOf(w)] = w
      OBVIOUS
    <3>1. workers[SlotOf(w)] = w /\ SlotOf(w) \in Slot
      BY WorkerFields
    <3>2. SlotOf(w) # i
      BY <2>1, <3>1
    <3> QED BY <2>2, <3>1, <3>2
  <2>4. \A j \in Slot : workers'[j] # NoWorker => workers'[j] = <<j, generation[j]>>
    BY <2>1, <2>2
  <2>5. GenInv'
    BY <2>2, <2>3, <2>4
  <2>6. DoneInv'
    BY <2>2
  <2>7. ReplInv'
    BY <2>1, <2>2
  <2> QED BY <2>5, <2>6, <2>7
<1>3. CASE DrainPending
  BY <1>3, WorkerFields DEF DrainPending
<1>4. CASE RecoverCurrent
  BY <1>4, WorkerFields DEF RecoverCurrent
<1>5. CASE StopOld
  BY SMTT(20), <1>5, WorkerFields DEF StopOld, AfterStop
<1>6. CASE Spawn
  <2> DEFINE i == sup.slot
             new == <<i, generation[i] + 1>>
  <2>1. i \in Slot /\ generation[i] \in Nat /\ generation[i] + 1 \in 0 .. MaxGen
    BY <1>6, PoolAssumption DEF Spawn
  <2>2. new \in Worker /\ SlotOf(new) = i /\ GenOf(new) = generation[i] + 1
    BY <2>1 DEF Worker, SlotOf, GenOf
  <2>3. init[new] = "none"
    BY <2>1, <2>2
  <2>4. /\ workers' = [workers EXCEPT ![i] = new]
        /\ generation' = [generation EXCEPT ![i] = generation[i] + 1]
        /\ init' = [init EXCEPT ![new] = "start"]
        /\ sup'.pc = "redistribute" /\ sup.pc = "spawn"
        /\ UNCHANGED <<state, thread, stop_requested>>
    BY <1>6 DEF Spawn
  <2>5. DoneInv' /\ ReplInv'
    <3> HIDE DEF i, new
    <3>1. ReplInv'
      BY <2>4
    <3>2. \A w \in Worker : init[w] = "done" => init'[w] = "done"
      BY <2>2, <2>3, <2>4
    <3>3. DoneInv'
      BY <2>4, <3>2
    <3> QED BY <3>1, <3>3
  <2>6. \A w \in Worker : w # new => SlotOf(w) # i \/ GenOf(w) # generation[i] + 1
    BY <2>2, WorkerFields
  <2> HIDE DEF i, new
  <2>7. \A w \in Worker : init'[w] = "none" <=> GenOf(w) > generation'[SlotOf(w)]
    <3> SUFFICES ASSUME NEW w \in Worker
                 PROVE  init'[w] = "none" <=> GenOf(w) > generation'[SlotOf(w)]
      OBVIOUS
    <3>1. CASE w = new
      BY <2>1, <2>2, <2>4, <3>1
    <3>2. CASE w # new /\ SlotOf(w) # i
      BY <2>4, <3>2, WorkerFields
    <3>3. CASE w # new /\ SlotOf(w) = i
      <4>1. GenOf(w) # generation[i] + 1 /\ GenOf(w) \in Nat
        BY <2>6, <3>3, WorkerFields
      <4>2. init'[w] = init[w] /\ generation'[SlotOf(w)] = generation[i] + 1
        BY <2>1, <2>4, <3>3
      <4>3. init[w] = "none" <=> GenOf(w) > generation[i]
        BY <3>3
      <4> QED BY <2>1, <4>1, <4>2, <4>3
    <3> QED BY <3>1, <3>2, <3>3
  <2>8. \A w \in Worker : init'[w] \in {"start", "idle", "ready"} => workers'[SlotOf(w)] = w
    <3>1. workers[i] = NoWorker
      BY <2>4 DEF i
    <3>2. \A w \in Worker : w # new /\ SlotOf(w) = i => init[w] \notin {"start", "idle", "ready"}
      BY <3>1, PoolAssumption
    <3> QED BY <2>1, <2>2, <2>4, <3>2, WorkerFields
  <2>9. \A j \in Slot : workers'[j] # NoWorker => workers'[j] = <<j, generation'[j]>>
    BY <2>1, <2>4 DEF new
  <2> QED BY <2>5, <2>7, <2>8, <2>9
<1>7. CASE DiscardPoison
  BY <1>7, WorkerFields DEF DiscardPoison
<1>8. CASE Redistribute
  BY <1>8, WorkerFields DEF Redistribute
<1>9. CASE Replaced
  BY <1>9, WorkerFields DEF Replaced, Scanning
<1>10. CASE AbandonReplacement
  BY <1>10, WorkerFields DEF AbandonReplacement, Scanning
<1>11. CASE SupervisorExits
  BY <1>11, WorkerFields DEF SupervisorExits
<1>12. CASE \E i \in Slot : Monitor(i)
  <2>1. PICK i \in Slot : Monitor(i)
    BY <1>12
  <2>2. workers[i] \in Worker /\ sup.pc = "scan"
    BY <2>1 DEF Monitor
  <2>3. state[workers[i]] \in {"Running", "Faulted", "Exited"}
    BY <2>1 DEF Monitor, Judged, Faulty, Overdue
  <2>4. init[workers[i]] = "done"
    BY <2>2, <2>3
  <2>5. sup'.pc = "mark" /\ sup'.slot = i
    BY <2>1 DEF Monitor
  <2> QED BY <2>1, <2>2, <2>4, <2>5 DEF Monitor
<1>13. CASE \E i \in Slot : BackoffElapses(i)
  BY SMTT(20), <1>13 DEF BackoffElapses
<1> QED BY <1>1, <1>2, <1>3, <1>4, <1>5, <1>6, <1>7, <1>8, <1>9, <1>10, <1>11, <1>12, <1>13 DEF ReplaceStep

LEMMA PromptMain ==
  ASSUME PromptInit, TypeInv, PromptInv,
         (\E r \in Request : ReadLine(r)) \/ EndOfInput \/ ShutdownStep \/ Terminating
  PROVE  PromptInv'
<1>1. CASE (\E r \in Request : ReadLine(r)) \/ EndOfInput \/ FlagShutdown \/ JoinSupervisor
             \/ SkipSlot \/ Terminating
  <2>1. UNCHANGED promptVars
    BY <1>1 DEF ReadLine, EndOfInput, FlagShutdown, JoinSupervisor, SkipSlot, Terminating,
                promptVars, vars, workerVars, readyVars, slotVars
  <2> QED BY <2>1, PromptFrame
<1>2. CASE StopBegin \/ StopJoined \/ StopTimesOut
  <2>1. sup.pc = "exited" /\ sup' = sup /\ UNCHANGED <<init, workers, generation, ready_list>>
    BY <1>2 DEF StopBegin, StopJoined, StopTimesOut, TypeInv, MainOK, readyVars, slotVars
  <2> QED BY <2>1 DEF PromptInv, GenInv, DoneInv, ReplInv
<1> QED BY <1>1, <1>2 DEF ShutdownStep

LEMMA PromptInvInit == Init => PromptInv
<1> SUFFICES ASSUME Init PROVE PromptInv
  OBVIOUS
<1>1. GenInv
  BY WorkerFields, PoolAssumption DEF Init, GenInv
<1>2. DoneInv /\ ReplInv
  BY DEF Init, DoneInv, ReplInv, Scanning
<1> QED BY <1>1, <1>2 DEF PromptInv

LEMMA PromptInvNext ==
  ASSUME PromptInit, TypeInv, PromptInv, [Next]_vars
  PROVE  PromptInv'
<1>1. CASE UNCHANGED vars
  BY <1>1, PromptFrame DEF vars, promptVars, workerVars, readyVars, slotVars
<1> QED BY <1>1, PromptCaller, PromptWorker, PromptSupervisor, PromptMain DEF Next

\* When initialize_worker is prompt, ready_count is exact.
THEOREM ReadyCountIsExact ==
  ASSUME PromptInit
  PROVE  Spec => []ReadyCountExact
<1> DEFINE I == TypeInv /\ PromptInv /\ ReadyCountExact
<1>1. Init => I
  <2> SUFFICES ASSUME Init PROVE ReadyCountExact
    BY TypeInvInit, PromptInvInit
  <2>1. ReadySlots = {}
    BY DEF Init, ReadySlots
  <2> QED BY <2>1, FS_EmptySet DEF Init, ReadyCountExact
<1>2. I /\ [Next]_vars => I'
  <2> SUFFICES ASSUME I, [Next]_vars PROVE ReadyCountExact'
    BY TypeInvNext, PromptInvNext
  <2>0. TypeInv /\ TypeOK /\ sup.slot \in Slot /\ ready_list \in [Slot -> BOOLEAN]
        /\ ready_count = Cardinality(ReadySlots) /\ Cardinality(ReadySlots) \in Nat
    BY SlotsFinite DEF TypeInv, TypeOK, PoolTypeOK, ThreadTypeOK, SupRecord, ReadyCountExact
  <2>1. ASSUME NEW w \in Worker, MarkReady(w) PROVE ReadyCountExact'
    <3>1. Cardinality(ReadySlots') = Cardinality(ReadySlots) + 1
      BY <2>0, <2>1, MarkAdds
    <3>2. ready_count' = ready_count + 1
      BY <2>1 DEF MarkReady
    <3> QED BY <2>0, <3>1, <3>2 DEF ReadyCountExact
  <2>2. CASE MarkNotReady
    <3>1. ready_list' = Unmark(sup.slot) /\ ready_count' = Uncount(sup.slot)
      BY <2>2 DEF MarkNotReady
    <3>2. ready_list[sup.slot] => Cardinality(ReadySlots) # 0
      BY <2>0, SlotsFinite, FS_EmptySet DEF ReadySlots
    <3>3. Cardinality(ReadySlots') = IF ready_list[sup.slot] THEN Cardinality(ReadySlots) - 1
                                     ELSE Cardinality(ReadySlots)
      BY <2>0, <3>1, UnmarkRemoves
    <3>4. ready_count' = IF ready_list[sup.slot] THEN ready_count - 1 ELSE ready_count
      BY <2>0, <3>1, <3>2 DEF Uncount
    <3> QED BY <2>0, <3>3, <3>4 DEF ReadyCountExact
  <2>3. CASE Spawn
    <3>1. ready_list' = Unmark(sup.slot) /\ ready_count' = ready_count /\ ~ready_list[sup.slot]
      BY <2>3 DEF Spawn, PromptInv, ReplInv
    <3>2. Cardinality(ReadySlots') = Cardinality(ReadySlots)
      BY <2>0, <3>1, UnmarkRemoves
    <3> QED BY <2>0, <3>1, <3>2 DEF ReadyCountExact
  <2>4. CASE UNCHANGED <<ready_list, ready_count>>
    BY <2>0, <2>4 DEF ReadyCountExact, ReadySlots
  <2> QED BY <2>0, <2>1, <2>2, <2>3, <2>4, OthersKeepReady
<1>3. I => ReadyCountExact
  OBVIOUS
<1> QED BY <1>1, <1>2, <1>3, PTL DEF Spec
-----------------------------------------------------------------------------
(* Requests in sequences of items.                                         *)

In(s, r) == \E k \in 1 .. Len(s) : s[k].data = r
Once(s) == \A j, k \in 1 .. Len(s) : s[j].data = s[k].data => j = k

LEMMA EmptyIn == Once(<<>>) /\ \A r : ~In(<<>>, r)
BY EmptySeq DEF Once, In

LEMMA AppendIn ==
  ASSUME NEW s \in Seq(Item), NEW x \in Item
  PROVE  /\ \A r : In(Append(s, x), r) <=> In(s, r) \/ x.data = r
         /\ Once(s) /\ ~In(s, x.data) => Once(Append(s, x))
<1> DEFINE t == Append(s, x)
<1> DEFINE n == Len(s)
<1>1. /\ n \in Nat /\ Len(t) = n + 1
      /\ \A k \in 1 .. n + 1 : t[k] = IF k = n + 1 THEN x ELSE s[k]
  BY AppendProperties, LenProperties
<1> HIDE DEF t, n
<1>2. 1 .. Len(s) = 1 .. n /\ n + 1 \in 1 .. n + 1 /\ \A k \in 1 .. n : k \in 1 .. n + 1 /\ k # n + 1
  BY <1>1 DEF n
<1>3. \A k \in 1 .. n + 1 : k = n + 1 \/ k \in 1 .. n BY <1>1
<1>4. ASSUME NEW r PROVE In(t, r) <=> In(s, r) \/ x.data = r
  BY <1>1, <1>2, <1>3 DEF In
<1>5. ASSUME Once(s), ~In(s, x.data) PROVE Once(t)
  BY <1>1, <1>2, <1>3, <1>5 DEF Once, In
<1> QED BY <1>4, <1>5 DEF t

LEMMA TailIn ==
  ASSUME NEW s \in Seq(Item), s # <<>>, Once(s)
  PROVE  /\ Head(s) \in Item /\ In(s, Head(s).data)
         /\ Once(Tail(s)) /\ \A r : In(Tail(s), r) <=> In(s, r) /\ r # Head(s).data
<1>1. /\ Head(s) \in Item /\ Head(s) = s[1] /\ Len(s) \in Nat \ {0}
      /\ Len(Tail(s)) = Len(s) - 1 /\ \A k \in 1 .. Len(s) - 1 : Tail(s)[k] = s[k + 1]
  BY HeadTailProperties, EmptySeq, LenProperties
<1>2. 1 \in 1 .. Len(s) BY <1>1
<1>3. \A k \in 1 .. Len(s) - 1 : k + 1 \in 1 .. Len(s) /\ k + 1 # 1 BY <1>1
<1>4. \A k \in 1 .. Len(s) : k # 1 => k - 1 \in 1 .. Len(s) - 1 /\ k - 1 + 1 = k BY <1>1
<1>5. In(s, Head(s).data) BY <1>1, <1>2 DEF In
<1>6. Once(Tail(s))
  <2> SUFFICES ASSUME NEW j \in 1 .. Len(s) - 1, NEW k \in 1 .. Len(s) - 1,
                      Tail(s)[j].data = Tail(s)[k].data
               PROVE  j = k
    BY <1>1 DEF Once
  <2>1. s[j + 1].data = s[k + 1].data BY <1>1
  <2>2. j + 1 = k + 1 BY <1>3, <2>1 DEF Once
  <2> QED BY <1>1, <2>2
<1>7. ASSUME NEW r, In(Tail(s), r) PROVE In(s, r) /\ r # Head(s).data
  <2>1. PICK k \in 1 .. Len(s) - 1 : Tail(s)[k].data = r BY <1>1, <1>7 DEF In
  <2>2. s[k + 1].data = r /\ k + 1 \in 1 .. Len(s) /\ k + 1 # 1 BY <1>1, <1>3, <2>1
  <2> QED BY <1>1, <1>2, <2>2 DEF In, Once
<1>8. ASSUME NEW r, In(s, r), r # Head(s).data PROVE In(Tail(s), r)
  <2>1. PICK k \in 1 .. Len(s) : s[k].data = r BY <1>8 DEF In
  <2>2. k # 1 BY <1>1, <1>8, <2>1
  <2>3. k - 1 \in 1 .. Len(Tail(s)) /\ Tail(s)[k - 1] = s[k] BY <1>1, <1>4, <2>2
  <2> QED BY <2>1, <2>3 DEF In
<1> QED BY <1>1, <1>5, <1>6, <1>7, <1>8

-----------------------------------------------------------------------------
(* Where a request is.                                                     *)

\* The worker is in its slot, or its requests are being recovered.
Attached(w) == workers[SlotOf(w)] = w \/ (sup.old = w /\ sup.pc \in {"drain", "current"})

\* Request r is at place x of kind k.  A worker that ended in the middle of its
\* request still has it, until it is recovered.
At(k, x, r) ==
  \/ k = "unread" /\ x = NoWorker /\ r \in unread
  \/ k = "call" /\ x \in Caller /\ call[x].item.data = r
  \/ k = "taken" /\ x \in Worker /\ taken[x].data = r
  \/ k = "running" /\ x \in Worker /\ thread[x] = "process" /\ current_request[x] = r
  \/ k = "queue" /\ x \in Worker /\ In(request_queue[x], r)
  \/ k = "recovered" /\ x = NoWorker /\ In(sup.recovered, r)
  \/ k = "dead" /\ x \in Worker /\ thread[x] = "dead" /\ current_request[x] = r /\ Attached(x)

One(r) == \A k, x, l, y : At(k, x, r) /\ At(l, y, r) => k = l /\ x = y

\* A request that was answered is nowhere, unless the answer was a timeout and
\* its worker, which is out of its slot, still runs it.
AnsweredIsOver(r) ==
  answers[r] # {} => \A k, x : At(k, x, r) => k = "running" /\ ~Attached(x)

Born(w) == GenOf(w) <= generation[SlotOf(w)]

WorkerRest(w) ==
  /\ ~Born(w) => init[w] = "none" /\ thread[w] = "none" /\ state[w] = "Starting"
  /\ init[w] = "start" => thread[w] = "none"
  /\ thread[w] \in {"none", "wait", "took"} => current_request[w] = NoRequest
  /\ thread[w] # "took" => taken[w] = NoItem
  /\ thread[w] = "loop" /\ current_request[w] \in Request => answers[current_request[w]] # {}
  /\ current_request[w] \in Request => ran[current_request[w]] > 0
  /\ workers[SlotOf(w)] = w /\ state[w] = "Faulted" => thread[w] = "dead" \/ sup.pc = "exited"
  /\ Once(request_queue[w])

SlotRest(i) == workers[i] # NoWorker => SlotOf(workers[i]) = i /\ Born(workers[i])

\* The supervisor replaces a worker that is dead, unless it forces it.
SupRest ==
  /\ sup.pc \in {"mark", "prepare"} /\ ~sup.force => thread[workers[sup.slot]] = "dead"
  /\ sup.pc \in {"drain", "current"} /\ ~sup.force => thread[sup.old] = "dead"
  /\ sup.pc \in {"drain", "current", "stop"} =>
       /\ workers[sup.slot] = NoWorker
       /\ SlotOf(sup.old) = sup.slot /\ Born(sup.old)
  /\ sup.pc \in {"scan", "mark", "prepare", "drain", "exited"} => sup.recovered = <<>>
  /\ Once(sup.recovered)

CallRest == \A t \in Caller : call[t].pc = "out" => call[t].item = NoItem

RestInv == (\A w \in Worker : WorkerRest(w)) /\ (\A i \in Slot : SlotRest(i)) /\ SupRest /\ CallRest
HolderInv == RestInv /\ \A r \in Request : One(r) /\ AnsweredIsOver(r)

LEMMA HolderInit == Init => HolderInv
<1> SUFFICES ASSUME Init PROVE HolderInv OBVIOUS
<1>0. TypeInv BY TypeInvInit
<1> USE DEF Init
<1>1. \A w \in Worker : WorkerRest(w)
  BY <1>0, EmptyIn, WorkerFields, PoolAssumption DEF WorkerRest, Born, GenOf
<1>2. \A i \in Slot : SlotRest(i)
  BY <1>0, PoolAssumption DEF SlotRest, Born, SlotOf, GenOf
<1>3. SupRest /\ CallRest BY EmptyIn DEF SupRest, Scanning, CallRest, Returned
<1>4. ASSUME NEW r \in Request, NEW k, NEW x, At(k, x, r) PROVE k = "unread" /\ x = NoWorker
  BY <1>4, EmptyIn, PoolAssumption DEF At, Returned, Scanning, NoItem
<1>5. \A r \in Request : One(r) BY <1>4 DEF One
<1>6. \A r \in Request : AnsweredIsOver(r) BY DEF AnsweredIsOver
<1> QED BY <1>1, <1>2, <1>3, <1>5, <1>6 DEF HolderInv, RestInv
-----------------------------------------------------------------------------
(* Each action keeps RestInv.                                              *)

\* What WorkerRest says of a worker another thread leaves alone.
LEMMA WorkerLeft ==
  ASSUME NEW w \in Worker, WorkerRest(w),
         UNCHANGED <<state[w], request_queue[w], current_request[w], thread[w], taken[w], init[w]>>,
         UNCHANGED <<workers, generation>>, sup.pc = "exited" => sup'.pc = "exited",
         \A r \in Request : answers[r] # {} => answers'[r] # {},
         \A r \in Request : ran[r] > 0 => ran'[r] > 0
  PROVE  WorkerRest(w)'
BY DEF WorkerRest, Born, Once

LEMMA SlotLeft ==
  ASSUME \A i \in Slot : SlotRest(i), UNCHANGED <<workers, generation>>
  PROVE  \A i \in Slot : SlotRest(i)'
BY DEF SlotRest, Born

LEMMA SupLeft ==
  ASSUME TypeInv, SupRest, UNCHANGED <<sup, workers, generation>>,
         \A w \in Worker : thread[w] = "dead" => thread'[w] = "dead"
  PROVE  SupRest'
BY DEF SupRest, Born, Once, TypeInv, SupOK

LEMMA RestCaller ==
  ASSUME TypeInv, HolderInv, NEW t \in Caller, CallerStep(t)
  PROVE  RestInv'
<1> USE DEF workerVars, readyVars, slotVars, outVars
<1>0. UNCHANGED <<state, current_request, thread, taken, init, workers, generation, sup, ran, answers>>
  BY DEF CallerStep, PickWorker, PickNone, PickShutdown, PickNothingReady, Block, AddRequest
<1>1. \A i \in Slot : SlotRest(i)'
  BY <1>0, SlotLeft DEF HolderInv, RestInv
<1>2. SupRest'
  BY <1>0 DEF HolderInv, RestInv, SupRest, Born, Once
<1>3. CallRest'
  <2>1. call \in [Caller -> CallRecord] BY DEF TypeInv, TypeOK, ThreadTypeOK
  <2>2. CallRest BY DEF HolderInv, RestInv
  <2>3. \/ call' = [call EXCEPT ![t] = Returned]
        \/ /\ \E w : call' = [call EXCEPT ![t].pc = "add", ![t].target = w]
           /\ call[t].pc # "out"
        \/ \E pc \in {"block", "waiting"} : call' = [call EXCEPT ![t].pc = pc] /\ call[t].pc # "out"
    <3>1. CASE PickWorker(t)
      BY <3>1 DEF PickWorker, LivePositions
    <3>2. CASE PickNone(t) \/ PickShutdown(t) \/ AddRequest(t)
      BY <3>2 DEF PickNone, PickShutdown, AddRequest
    <3>3. CASE PickNothingReady(t) \/ Block(t)
      BY <3>3 DEF PickNothingReady, Block
    <3> QED BY <3>1, <3>2, <3>3 DEF CallerStep
  <2> QED BY <2>1, <2>2, <2>3 DEF CallRest, Returned, CallRecord
<1>4. CASE UNCHANGED request_queue
  <2>1. \A w \in Worker : WorkerRest(w)'
    BY <1>0, <1>4, WorkerLeft DEF HolderInv, RestInv
  <2> QED BY <1>1, <1>2, <1>3, <2>1 DEF RestInv
<1>5. CASE AddRequest(t)
  <2> DEFINE w == call[t].target
             x == call[t].item
  <2>1. w \in Worker /\ x \in Item /\ x.data \in Request
        /\ request_queue' = [request_queue EXCEPT ![w] = Append(request_queue[w], x)]
        /\ request_queue \in [Worker -> Seq(Item)]
    BY <1>5 DEF AddRequest, TypeInv, CallOK, Item, TypeOK, WorkerTypeOK
  <2>2. ~In(request_queue[w], x.data)
    <3>1. At("call", t, x.data) BY DEF At
    <3>2. ~At("queue", w, x.data) BY <2>1, <3>1 DEF HolderInv, One
    <3> QED BY <2>1, <3>2 DEF At
  <2>3. Once(request_queue[w]) BY <2>1 DEF HolderInv, RestInv, WorkerRest
  <2>4. Once(request_queue'[w]) BY <2>1, <2>2, <2>3, AppendIn
  <2>5. ASSUME NEW v \in Worker PROVE WorkerRest(v)'
    <3>1. WorkerRest(v) BY DEF HolderInv, RestInv
    <3>2. CASE v # w BY <1>0, <2>1, <3>1, <3>2, WorkerLeft
    <3>3. CASE v = w BY <1>0, <2>4, <3>1, <3>3 DEF WorkerRest, Born
    <3> QED BY <3>2, <3>3
  <2> QED BY <1>1, <1>2, <1>3, <2>5 DEF RestInv
<1> QED BY <1>4, <1>5 DEF CallerStep, PickWorker, PickNone, PickShutdown, PickNothingReady, Block

LEMMA RestWorker ==
  ASSUME TypeInv, HolderInv, NEW w \in Worker,
         InitStep(w) \/ LoopStep(w) \/ Respond(w) \/ Fault(w) \/ Late(w)
  PROVE  RestInv'
<1> USE DEF workerVars, readyVars, slotVars, outVars
<1>0. /\ UNCHANGED <<workers, generation, sup>>
      /\ \A v \in Worker : v # w =>
           UNCHANGED <<state[v], request_queue[v], current_request[v], thread[v], taken[v], init[v]>>
  BY DEF InitStep, LoopStep, StartThread, StartIdle, MarkReady, MarkReadyRefused, LoopIdle, TakeRequest,
         StopSignaled, BeginRequest, Respond, Fault, Late, TypeInv, TypeOK, WorkerTypeOK
<1>1. \A i \in Slot : SlotRest(i)'
  BY <1>0, SlotLeft DEF HolderInv, RestInv
<1>2. thread[w] # "dead"  \/ thread'[w] = "dead"
  <2>1. WorkerRest(w) BY DEF HolderInv, RestInv
  <2> QED BY <2>1 DEF WorkerRest, InitStep, LoopStep, StartThread, StartIdle, MarkReady, MarkReadyRefused, LoopIdle,
               TakeRequest, StopSignaled, BeginRequest, Respond, Fault, Late
<1>3. SupRest'
  BY <1>0, <1>2, SupLeft DEF HolderInv, RestInv
<1>4. CallRest'
  <2>1. CASE call' = call BY <2>1 DEF HolderInv, RestInv, CallRest
  <2>2. CASE MarkReady(w)
    BY <2>2 DEF MarkReady, NotifyOne, Waiting, HolderInv, RestInv, CallRest, TypeInv, TypeOK, ThreadTypeOK,
                CallRecord
  <2> QED BY <2>1, <2>2 DEF InitStep, LoopStep, StartThread, StartIdle, MarkReadyRefused, LoopIdle, TakeRequest,
               StopSignaled, BeginRequest, Respond, Fault, Late
<1>5. /\ \A r \in Request : answers[r] # {} => answers'[r] # {}
      /\ \A r \in Request : ran[r] > 0 => ran'[r] > 0
  <2>1. CASE BeginRequest(w)
    BY <2>1 DEF BeginRequest, TypeInv, TypeOK, ThreadTypeOK, LoopOK, Item
  <2>2. CASE Respond(w)
    BY <2>2 DEF Respond, TypeInv, TypeOK, ThreadTypeOK, LoopOK
  <2>3. CASE UNCHANGED <<ran, answers>> BY <2>3
  <2> QED BY <2>1, <2>2, <2>3 DEF InitStep, LoopStep, StartThread, StartIdle, MarkReady, MarkReadyRefused, LoopIdle,
               TakeRequest, StopSignaled, Fault, Late
<1>6. WorkerRest(w)'
  <2> USE DEF TypeInv, TypeOK, WorkerTypeOK, ThreadTypeOK
  <2>0. WorkerRest(w) BY DEF HolderInv, RestInv
  <2>1. CASE StartThread(w)
    BY <1>0, <2>0, <2>1, PoolAssumption DEF StartThread, WorkerRest, Born
  <2>2. CASE StartIdle(w)
    BY <1>0, <2>0, <2>2 DEF StartIdle, WorkerRest, Born
  <2>3. CASE MarkReady(w) \/ MarkReadyRefused(w)
    BY <1>0, <2>0, <2>3 DEF MarkReady, MarkReadyRefused, WorkerRest, Born
  <2>4. CASE LoopIdle(w)
    BY <1>0, <2>0, <2>4, PoolAssumption DEF LoopIdle, WorkerRest, Born
  <2>5. CASE TakeRequest(w)
    <3>1. Once(Tail(request_queue[w]))
      BY <2>0, <2>5, TailIn DEF TakeRequest, WorkerRest
    <3>2. Once(request_queue'[w])
      BY <2>5, <3>1 DEF TakeRequest
    <3> QED BY <1>0, <2>0, <2>5, <3>2, PoolAssumption DEF TakeRequest, WorkerRest, Born
  <2>6. CASE StopSignaled(w)
    BY <1>0, <2>0, <2>6, PoolAssumption DEF StopSignaled, WorkerRest, Born
  <2>7. CASE BeginRequest(w)
    <3>1. taken[w] \in Item /\ taken[w].data \in Request BY <2>7 DEF BeginRequest, LoopOK, Item
    <3>2. ran'[taken[w].data] > 0 BY <2>7, <3>1 DEF BeginRequest
    <3> QED BY <1>0, <2>0, <2>7, <3>1, <3>2 DEF BeginRequest, WorkerRest, Born
  <2>8. CASE Respond(w)
    <3>1. current_request[w] \in Request /\ answers'[current_request[w]] # {}
      BY <2>8 DEF Respond, LoopOK
    <3> QED BY <1>0, <2>0, <2>8, <3>1 DEF Respond, WorkerRest, Born
  <2>9. CASE Fault(w)
    BY <1>0, <2>0, <2>9 DEF Fault, WorkerRest, Born
  <2>10. CASE Late(w)
    BY <1>0, <2>0, <2>10 DEF Late, WorkerRest, Born
  <2> QED BY <2>1, <2>2, <2>3, <2>4, <2>5, <2>6, <2>7, <2>8, <2>9, <2>10 DEF InitStep, LoopStep
<1>7. ASSUME NEW v \in Worker, v # w PROVE WorkerRest(v)'
  BY <1>0, <1>5, <1>7, WorkerLeft DEF HolderInv, RestInv
<1> QED BY <1>1, <1>3, <1>4, <1>6, <1>7 DEF RestInv

LEMMA AddedLast ==
  ASSUME NEW s \in Seq(Item)
  PROVE  s \o <<>> = s /\ \A x \in Item : s \o <<x>> = Append(s, x)
OBVIOUS

\* What the supervisor recovers is nowhere twice.
LEMMA RecoveredOnce ==
  ASSUME TypeInv, HolderInv, RecoverCurrent
  PROVE  /\ Once(sup'.recovered)
         /\ \A r \in Request : In(sup'.recovered, r) <=>
              In(sup.recovered, r) \/ (current_request[sup.old] = r /\ ~sup.force)
<1> DEFINE s == sup.recovered
           r == current_request[sup.old]
<1>1. /\ sup \in SupRecord /\ s \in Seq(Item) /\ sup.old \in Worker /\ r \in Request \cup {NoRequest}
      /\ sup.pc = "current"
  BY DEF RecoverCurrent, TypeInv, TypeOK, WorkerTypeOK, ThreadTypeOK, SupRecord, SupOK
<1>2. sup'.recovered = s \o RecoveredInFlight(r)
  BY <1>1 DEF RecoverCurrent, SupRecord
<1>3. Once(s) BY DEF HolderInv, RestInv, SupRest
<1>4. CASE r = NoRequest \/ sup.force
  <2>1. sup'.recovered = s BY <1>1, <1>2, <1>4, AddedLast DEF RecoveredInFlight
  <2>2. \A q \in Request : ~(current_request[sup.old] = q /\ ~sup.force)
    BY <1>4, PoolAssumption
  <2> QED BY <1>3, <2>1, <2>2 DEF In, Once
<1>5. CASE r \in Request /\ ~sup.force
  <2> DEFINE x == [data |-> r, retry_count |-> 0]
  <2>1. x \in Item /\ x.data = r BY <1>5, PoolAssumption DEF Item
  <2>2. sup'.recovered = Append(s, x)
    BY <1>1, <1>2, <1>5, <2>1, AddedLast, PoolAssumption DEF RecoveredInFlight
  <2>3. ~In(s, r)
    <3>1. thread[sup.old] = "dead" BY <1>1, <1>5 DEF HolderInv, RestInv, SupRest
    <3>2. At("dead", sup.old, r) BY <1>1, <3>1 DEF At, Attached
    <3>3. ~At("recovered", NoWorker, r) BY <1>5, <3>2 DEF HolderInv, One
    <3> QED BY <3>3 DEF At
  <2> QED BY <1>1, <1>3, <1>5, <2>1, <2>2, <2>3, AppendIn
<1> QED BY <1>1, <1>4, <1>5

LEMMA RestSupervisor ==
  ASSUME TypeInv, HolderInv, ReplaceStep \/ \E i \in Slot : Monitor(i) \/ BackoffElapses(i)
  PROVE  RestInv'
<1> USE WorkerFields, PoolAssumption
    DEF TypeInv, TypeOK, WorkerTypeOK, PoolTypeOK, ThreadTypeOK, SupRecord, SupOK,
        workerVars, readyVars, slotVars, outVars
<1>0. /\ \A w \in Worker : WorkerRest(w)
      /\ \A i \in Slot : SlotRest(i)
      /\ SupRest /\ CallRest
  BY DEF HolderInv, RestInv
<1>1. ASSUME UNCHANGED <<workerVars, init, workers, generation, ran, answers>>, sup.pc # "exited"
      PROVE  (\A w \in Worker : WorkerRest(w)') /\ \A i \in Slot : SlotRest(i)'
  BY <1>0, <1>1, WorkerLeft, SlotLeft
<1>2. call' = call => CallRest'
  BY <1>0 DEF CallRest
<1>3. ASSUME NEW i \in Slot, Monitor(i) PROVE RestInv'
  <2>1. /\ sup.pc = "scan" /\ workers[i] \in Worker
        /\ sup' = [sup EXCEPT !.pc = "mark", !.slot = i, !.force = Overdue(workers[i])]
        /\ Judged(workers[i])
        /\ UNCHANGED <<workerVars, init, workers, generation, ran, answers, call>>
    BY <1>3 DEF Monitor
  <2>2. ~Overdue(workers[i]) => state[workers[i]] = "Faulted"
    BY <2>1 DEF Judged, Faulty, IsStopRequested
  <2>3. ~Overdue(workers[i]) => thread[workers[i]] = "dead"
    <3>1. workers[i] # NoWorker BY <2>1
    <3>2. SlotOf(workers[i]) = i BY <1>0, <3>1 DEF SlotRest
    <3>3. WorkerRest(workers[i]) BY <1>0, <2>1
    <3> QED BY <2>1, <2>2, <3>2, <3>3 DEF WorkerRest
  <2>4. SupRest'
    BY <1>0, <2>1, <2>3 DEF SupRest
  <2> QED BY <1>1, <1>2, <2>1, <2>4 DEF RestInv
<1>4. ASSUME NEW i \in Slot, BackoffElapses(i) PROVE RestInv'
  <2>1. UNCHANGED <<workerVars, init, workers, generation, sup, ran, answers, call>>
    BY <1>4 DEF BackoffElapses
  <2> QED BY <1>0, <1>2, <2>1, WorkerLeft, SlotLeft, SupLeft DEF RestInv
<1>5. CASE MarkNotReady
  <2>1. SupRest' BY <1>0, <1>5, EmptyIn DEF MarkNotReady, SupRest, Scanning
  <2> QED BY <1>1, <1>2, <1>5, <2>1 DEF MarkNotReady, RestInv
<1>6. CASE Prepare
  <2> DEFINE i == sup.slot
  <2>1. /\ i \in Slot /\ workers[i] \in Worker /\ sup.pc = "prepare"
        /\ workers' = [workers EXCEPT ![i] = NoWorker]
        /\ sup'.pc = "drain" /\ sup'.old = workers[i] /\ sup'.slot = i /\ sup'.force = sup.force
        /\ sup'.recovered = sup.recovered
        /\ UNCHANGED <<workerVars, init, generation, ran, answers, call>>
    BY <1>6 DEF Prepare
  <2>2. SlotOf(workers[i]) = i /\ Born(workers[i])
    BY <1>0, <2>1 DEF SlotRest
  <2>3. SupRest'
    BY <1>0, <2>1, <2>2 DEF SupRest, Born
  <2>4. \A j \in Slot : SlotRest(j)'
    BY <1>0, <2>1 DEF SlotRest, Born
  <2>5. ASSUME NEW w \in Worker PROVE WorkerRest(w)'
    <3>1. WorkerRest(w) BY <1>0
    <3>2. SlotOf(w) \in Slot /\ w # NoWorker OBVIOUS
    <3>3. workers'[SlotOf(w)] = w => workers[SlotOf(w)] = w BY <2>1, <3>2
    <3>4. sup'.pc # "exited" /\ sup.pc # "exited" BY <2>1
    <3> QED BY <2>1, <3>1, <3>3, <3>4 DEF WorkerRest, Born, Once
  <2> QED BY <1>2, <2>1, <2>3, <2>4, <2>5 DEF RestInv
<1>7. CASE DrainPending
  <2> DEFINE o == sup.old
  <2>1. /\ o \in Worker /\ sup.pc = "drain"
        /\ request_queue' = [request_queue EXCEPT ![o] = <<>>]
        /\ sup' = [sup EXCEPT !.pc = "current", !.recovered = request_queue[o]]
        /\ UNCHANGED <<state, current_request, thread, taken, init, workers, generation, ran, answers, call>>
    BY <1>7 DEF DrainPending, Drained
  <2>2. Once(request_queue[o]) BY <1>0, <2>1 DEF WorkerRest
  <2>3. SupRest' BY <1>0, <2>1, <2>2 DEF SupRest, Born
  <2>4. ASSUME NEW w \in Worker PROVE WorkerRest(w)'
    <3>1. CASE w # o BY <1>0, <2>1, <3>1, WorkerLeft
    <3>2. CASE w = o
      <4>1. Once(request_queue'[w]) BY <2>1, <3>2, EmptyIn
      <4> QED BY <1>0, <2>1, <3>2, <4>1 DEF WorkerRest, Born
    <3> QED BY <3>1, <3>2
  <2>5. \A j \in Slot : SlotRest(j)' BY <1>0, <2>1, SlotLeft
  <2> QED BY <1>2, <2>1, <2>3, <2>4, <2>5 DEF RestInv
<1>8. CASE RecoverCurrent
  <2>1. /\ sup.pc = "current" /\ sup'.pc = "stop" /\ sup'.old = sup.old /\ sup'.slot = sup.slot
        /\ \A r \in Request : answers[r] # {} => answers'[r] # {}
        /\ UNCHANGED <<workerVars, init, workers, generation, ran, call>>
    BY <1>8 DEF RecoverCurrent
  <2>2. SupRest' BY <1>0, <1>8, <2>1, RecoveredOnce DEF SupRest, Born
  <2>3. \A w \in Worker : WorkerRest(w)' BY <1>0, <2>1, WorkerLeft
  <2>4. \A j \in Slot : SlotRest(j)' BY <1>0, <2>1, SlotLeft
  <2> QED BY <1>2, <2>1, <2>2, <2>3, <2>4 DEF RestInv
<1>9. CASE StopOld
  <2> DEFINE o == sup.old
  <2>1. /\ o \in Worker /\ sup.pc = "stop" /\ state' = [state EXCEPT ![o] = "Faulted"]
        /\ sup'.pc \in {"spawn", "redistribute"} /\ sup'.recovered = sup.recovered
        /\ UNCHANGED <<request_queue, current_request, thread, taken, init, workers, generation, ran,
                       answers, call>>
    BY <1>9 DEF StopOld, AfterStop
  <2>2. workers[SlotOf(o)] = NoWorker /\ Born(o) BY <1>0, <2>1 DEF SupRest
  <2>3. SupRest' BY <1>0, <2>1 DEF SupRest
  <2>4. \A w \in Worker : WorkerRest(w)'
    BY SMTT(20), <1>0, <2>1, <2>2 DEF WorkerRest, Born
  <2>5. \A j \in Slot : SlotRest(j)' BY <1>0, <2>1, SlotLeft
  <2> QED BY <1>2, <2>1, <2>3, <2>4, <2>5 DEF RestInv
<1>10. CASE Spawn
  <2>1. PICK i \in Slot : i = sup.slot /\ generation[i] \in Nat /\ generation[i] + 1 \in 0 .. MaxGen
    BY <1>10 DEF Spawn
  <2>2. PICK new \in Worker : /\ new = <<i, generation[i] + 1>>
                              /\ SlotOf(new) = i /\ GenOf(new) = generation[i] + 1
    <3>1. <<i, generation[i] + 1>> \in Worker BY <2>1 DEF Worker
    <3> QED BY <3>1 DEF SlotOf, GenOf
  <2>3. /\ workers' = [workers EXCEPT ![i] = new]
        /\ generation' = [generation EXCEPT ![i] = generation[i] + 1]
        /\ init' = [init EXCEPT ![new] = "start"]
        /\ sup'.pc = "redistribute" /\ sup.pc = "spawn" /\ sup'.recovered = sup.recovered
        /\ UNCHANGED <<workerVars, ran, answers, call>>
    BY <1>10, <2>1, <2>2 DEF Spawn
  <2>4. init[new] = "none" /\ thread[new] = "none" /\ state[new] = "Starting"
    BY SMTT(20), <1>0, <2>1, <2>2 DEF WorkerRest, Born
  <2>5. \A w \in Worker : Born(w) => Born(w)'
    BY SMTT(20), <2>1, <2>3 DEF Born
  <2>6. Born(new)' BY <2>1, <2>2, <2>3 DEF Born
  <2>7. SupRest' BY <1>0, <2>3 DEF SupRest
  <2>8. \A j \in Slot : SlotRest(j)'
    <3> SUFFICES ASSUME NEW j \in Slot PROVE SlotRest(j)' OBVIOUS
    <3>1. CASE j = i BY <2>1, <2>2, <2>3, <2>6, <3>1 DEF SlotRest
    <3>2. CASE j # i
      <4>1. workers'[j] = workers[j] /\ workers[j] \in Worker \cup {NoWorker} BY <2>3, <3>2
      <4> QED BY <1>0, <2>5, <4>1 DEF SlotRest
    <3> QED BY <3>1, <3>2
  <2>9. ASSUME NEW w \in Worker PROVE WorkerRest(w)'
    <3>1. CASE w = new
      BY <1>0, <2>2, <2>3, <2>4, <2>6, <3>1 DEF WorkerRest
    <3>2. CASE w # new
      <4>1. workers'[SlotOf(w)] = w => workers[SlotOf(w)] = w
        BY <2>1, <2>2, <2>3, <3>2
      <4>2. init'[w] = init[w] BY <2>3, <3>2
      <4> QED BY <1>0, <2>3, <2>5, <4>1, <4>2 DEF WorkerRest
    <3> QED BY <3>1, <3>2
  <2> QED BY <1>2, <2>3, <2>7, <2>8, <2>9 DEF RestInv
<1>11. CASE DiscardPoison \/ Redistribute
  <2>0. /\ sup.pc = "redistribute" /\ sup.recovered # <<>>
        /\ sup' = [sup EXCEPT !.recovered = Tail(@)]
        /\ UNCHANGED <<workerVars, init, workers, generation, ran, answers>>
    <3>1. CASE DiscardPoison BY <3>1 DEF DiscardPoison
    <3>2. CASE Redistribute BY <3>2 DEF Redistribute
    <3> QED BY <1>11, <3>1, <3>2
  <2>1. /\ sup.recovered # <<>> /\ sup'.recovered = Tail(sup.recovered) /\ sup.pc = "redistribute"
        /\ sup'.pc = "redistribute"
        /\ UNCHANGED <<workerVars, init, workers, generation, ran, answers>>
    BY <2>0
  <2>2. SupRest' BY <1>0, <2>1, TailIn DEF SupRest
  <2>3. CallRest'
    <3>1. CASE DiscardPoison BY <1>2, <3>1 DEF DiscardPoison
    <3>2. CASE Redistribute BY <1>0, <3>2 DEF Redistribute, CallRest
    <3> QED BY <1>11, <3>1, <3>2
  <2> QED BY <1>1, <2>1, <2>2, <2>3 DEF RestInv
<1>12. CASE Replaced \/ AbandonReplacement \/ SupervisorExits
  <2>1. /\ sup'.pc \in {"scan", "exited"} /\ sup'.recovered = <<>> /\ sup.pc # "exited"
        /\ UNCHANGED <<workerVars, init, workers, generation, ran, answers, call>>
    BY SMTT(20), <1>0, <1>12 DEF Replaced, AbandonReplacement, SupervisorExits, Scanning, SupRest
  <2>2. SupRest' BY <2>1, EmptyIn DEF SupRest
  <2> QED BY <1>1, <1>2, <2>1, <2>2 DEF RestInv
<1> QED BY <1>3, <1>4, <1>5, <1>6, <1>7, <1>8, <1>9, <1>10, <1>11, <1>12 DEF ReplaceStep

LEMMA RestMain ==
  ASSUME TypeInv, HolderInv,
         (\E r \in Request : ReadLine(r)) \/ EndOfInput \/ ShutdownStep \/ Terminating
  PROVE  RestInv'
<1> USE DEF TypeInv, TypeOK, WorkerTypeOK, PoolTypeOK, ThreadTypeOK, SupRecord, SupOK, MainOK,
        workerVars, readyVars, slotVars, outVars
<1>0. /\ \A w \in Worker : WorkerRest(w)
      /\ \A i \in Slot : SlotRest(i)
      /\ SupRest /\ CallRest
  BY DEF HolderInv, RestInv
<1>1. /\ UNCHANGED <<request_queue, current_request, thread, taken, init, workers, generation, sup, ran,
                     answers>>
  BY DEF ReadLine, EndOfInput, ShutdownStep, FlagShutdown, JoinSupervisor, SkipSlot, StopBegin, StopJoined,
         StopTimesOut, Terminating, vars
<1>2. SupRest' /\ \A i \in Slot : SlotRest(i)'
  BY <1>0, <1>1, SupLeft, SlotLeft
<1>3. CASE UNCHANGED state
  <2>1. \A w \in Worker : WorkerRest(w)'
    BY <1>0, <1>1, <1>3, WorkerLeft
  <2>2. CallRest'
    <3>1. CASE \E r \in Request : ReadLine(r)
      BY <1>0, <3>1 DEF ReadLine, CallRest
    <3>2. CASE FlagShutdown
      BY <1>0, <3>2 DEF FlagShutdown, WakeAll, Waiting, CallRest, CallRecord
    <3>3. CASE UNCHANGED call
      BY <1>0, <3>3 DEF CallRest
    <3> QED BY <3>1, <3>2, <3>3 DEF ReadLine, EndOfInput, ShutdownStep, FlagShutdown, JoinSupervisor, SkipSlot,
                StopBegin, StopJoined, StopTimesOut, Terminating, vars
  <2> QED BY <1>2, <2>1, <2>2 DEF RestInv
<1>4. CASE StopBegin \/ StopJoined \/ StopTimesOut
  <2> DEFINE w == workers[main.slot]
  <2>1. /\ sup.pc = "exited" /\ main.slot \in Slot /\ w \in Worker
        /\ \E s : state' = [state EXCEPT ![w] = s]
        /\ call' = call
    BY <1>4 DEF StopBegin, StopJoined, StopTimesOut
  <2>2. Born(w) BY <1>0, <2>1, PoolAssumption DEF SlotRest
  <2>3. \A v \in Worker : WorkerRest(v)'
    BY <1>0, <1>1, <2>1, <2>2 DEF WorkerRest, Born
  <2>4. CallRest' BY <1>0, <2>1 DEF CallRest
  <2> QED BY <1>2, <2>3, <2>4 DEF RestInv
<1> QED BY <1>3, <1>4 DEF ReadLine, EndOfInput, ShutdownStep, FlagShutdown, JoinSupervisor, SkipSlot,
                Terminating, vars

LEMMA RestNext ==
  ASSUME TypeInv, HolderInv, [Next]_vars
  PROVE  RestInv'
<1>1. CASE UNCHANGED vars
  BY <1>1 DEF vars, workerVars, readyVars, slotVars, outVars, HolderInv, RestInv, WorkerRest, SlotRest,
              SupRest, CallRest, Born, Once
<1> QED BY <1>1, RestCaller, RestWorker, RestSupervisor, RestMain DEF Next

-----------------------------------------------------------------------------
(* Each action moves requests or leaves them.                              *)

\* A worker that left its slot never comes back.
LEMMA DetachedStays ==
  ASSUME TypeInv, HolderInv, [Next]_vars, NEW w \in Worker, thread[w] # "none", Attached(w)'
  PROVE  Attached(w)
<1> USE DEF TypeInv, TypeOK, WorkerTypeOK, PoolTypeOK, ThreadTypeOK, SupRecord, SupOK, Attached
<1>0. /\ WorkerRest(w) /\ SupRest
      /\ \A i \in Slot : SlotRest(i)
      /\ SlotOf(w) \in Slot
  BY WorkerFields DEF HolderInv, RestInv
<1>1. CASE Prepare BY <1>0, <1>1, PoolAssumption DEF Prepare, SlotRest
<1>2. CASE Spawn
  <2>1. workers' = [workers EXCEPT ![sup.slot] = <<sup.slot, generation[sup.slot] + 1>>]
        /\ sup'.pc = "redistribute"
    BY <1>2 DEF Spawn
  <2>2. CASE w = <<sup.slot, generation[sup.slot] + 1>>
    <3>1. ~Born(w) BY <2>2 DEF Born, SlotOf, GenOf
    <3> QED BY <1>0, <3>1 DEF WorkerRest
  <2> QED BY <1>0, <2>1, <2>2
<1>3. CASE DrainPending BY <1>0, <1>3 DEF DrainPending, slotVars
<1>4. CASE UNCHANGED workers /\ (sup' = sup \/ sup'.pc \notin {"drain", "current"})
  BY <1>4
<1>5. CASE (\E i \in Slot : Monitor(i)) \/ MarkNotReady \/ RecoverCurrent \/ StopOld \/ DiscardPoison
             \/ Redistribute \/ Replaced \/ AbandonReplacement \/ SupervisorExits
  <2>1. UNCHANGED workers /\ sup'.pc \notin {"drain", "current"}
    <3>1. CASE \E i \in Slot : Monitor(i)
      <4>1. PICK i \in Slot : Monitor(i) BY <3>1
      <4>2. sup' = [sup EXCEPT !.pc = "mark", !.slot = i, !.force = Overdue(workers[i])]
        BY <4>1 DEF Monitor
      <4> QED BY <4>1, <4>2 DEF Monitor, slotVars
    <3>2. CASE MarkNotReady BY <3>2 DEF MarkNotReady, Scanning, slotVars
    <3>6. CASE StopOld BY <3>6 DEF StopOld, AfterStop, slotVars
    <3>3. CASE RecoverCurrent
      <4>1. sup' = [sup EXCEPT !.pc = "stop", !.recovered = sup'.recovered]
        BY <3>3 DEF RecoverCurrent
      <4> QED BY <3>3, <4>1 DEF RecoverCurrent, slotVars
    <3>4. CASE DiscardPoison \/ Redistribute BY <3>4 DEF DiscardPoison, Redistribute, slotVars
    <3>5. CASE Replaced \/ AbandonReplacement \/ SupervisorExits
      BY <3>5 DEF Replaced, AbandonReplacement, SupervisorExits, Scanning, slotVars
    <3> QED BY <1>5, <3>1, <3>2, <3>3, <3>4, <3>5, <3>6
  <2> QED BY <1>4, <2>1
<1>6. CASE (\E t \in Caller : CallerStep(t)) \/ (\E v \in Worker : InitStep(v) \/ LoopStep(v))
  <2>1. ASSUME NEW t \in Caller, CallerStep(t) PROVE UNCHANGED <<workers, sup>>
    BY <2>1 DEF CallerStep, PickWorker, PickNone, PickShutdown, PickNothingReady, Block, AddRequest, slotVars
  <2>2. ASSUME NEW v \in Worker, InitStep(v) PROVE UNCHANGED <<workers, sup>>
    BY <2>2 DEF InitStep, StartThread, StartIdle, MarkReady, MarkReadyRefused, slotVars
  <2>3. ASSUME NEW v \in Worker, LoopStep(v) PROVE UNCHANGED <<workers, sup>>
    BY <2>3 DEF LoopStep, LoopIdle, TakeRequest, StopSignaled, BeginRequest, slotVars
  <2>4. UNCHANGED <<workers, sup>> BY <1>6, <2>1, <2>2, <2>3
  <2> QED BY <1>4, <2>4
<1>7. CASE (\E v \in Worker : Respond(v) \/ Fault(v) \/ Late(v)) \/ (\E i \in Slot : BackoffElapses(i))
  BY <1>4, <1>7 DEF Respond, Fault, Late, BackoffElapses, slotVars
<1>8. CASE (\E r \in Request : ReadLine(r)) \/ EndOfInput \/ ShutdownStep \/ UNCHANGED vars
  BY <1>4, <1>8 DEF ReadLine, EndOfInput, ShutdownStep, FlagShutdown, JoinSupervisor, SkipSlot, StopBegin,
         StopJoined, StopTimesOut, vars, slotVars
<1> QED BY <1>1, <1>2, <1>3, <1>5, <1>6, <1>7, <1>8 DEF Next, ReplaceStep, Terminating

Somewhere(r) == \E k, x : At(k, x, r)

\* After the step, r is still in one place at most, and comes from nowhere.
Kept(r) == One(r)' /\ AnsweredIsOver(r)' /\ (Somewhere(r)' => Somewhere(r))

\* A request that comes to no new place keeps what it has.
LEMMA Stays ==
  ASSUME TypeInv, HolderInv, [Next]_vars, NEW r \in Request, UNCHANGED answers[r],
         \A k, x : At(k, x, r)' => At(k, x, r)
  PROVE  Kept(r)
<1>1. One(r) /\ AnsweredIsOver(r) BY DEF HolderInv
<1>2. One(r)' BY <1>1 DEF One
<1>3. ASSUME answers'[r] # {}, NEW k, NEW x, At(k, x, r)' PROVE k = "running" /\ ~Attached(x)'
  <2>1. At(k, x, r) BY <1>3
  <2>2. k = "running" /\ ~Attached(x) BY <1>1, <1>3, <2>1 DEF AnsweredIsOver
  <2>3. x \in Worker /\ thread[x] # "none" BY <2>1, <2>2 DEF At
  <2> QED BY <2>2, <2>3, DetachedStays
<1> QED BY <1>2, <1>3 DEF Kept, AnsweredIsOver, Somewhere

\* A request that goes from place x of kind k to place y of kind l.
Goes(k, x, l, y, r) ==
  \A m, z : At(m, z, r)' => (At(m, z, r) /\ ~(m = k /\ z = x)) \/ (m = l /\ z = y)

LEMMA Went ==
  ASSUME HolderInv, NEW r \in Request, UNCHANGED answers[r],
         NEW k, NEW x, At(k, x, r), k # "running" \/ Attached(x), NEW l, NEW y, Goes(k, x, l, y, r)
  PROVE  Kept(r)
<1>1. \A m, z : At(m, z, r)' => m = l /\ z = y
  BY DEF HolderInv, One, Goes
<1>2. answers[r] = {}
  BY DEF HolderInv, AnsweredIsOver
<1> QED BY <1>1, <1>2 DEF Kept, One, AnsweredIsOver, Somewhere

LEMMA Nowhere ==
  ASSUME NEW r \in Request, \A k, x : ~At(k, x, r)'
  PROVE  Kept(r)
BY DEF Kept, One, AnsweredIsOver, Somewhere

\* A step that adds nothing to what has a request.
LEMMA Quiet ==
  ASSUME TypeInv, HolderInv, [Next]_vars, UNCHANGED <<unread, taken, request_queue, answers>>,
         \A r \in Request : In(sup'.recovered, r) => In(sup.recovered, r),
         \A t \in Caller : call'[t].item \in {call[t].item, NoItem},
         \A w \in Worker : \/ current_request'[w] = NoRequest
                           \/ thread'[w] \notin {"process", "dead"}
                           \/ UNCHANGED <<current_request[w], thread[w]>>
  PROVE  \A r \in Request : Kept(r)
<1> SUFFICES ASSUME NEW r \in Request, NEW k, NEW x, At(k, x, r)' PROVE At(k, x, r)
  BY Stays
<1>1. CASE k = "call" BY <1>1, PoolAssumption DEF At, NoItem
<1>2. CASE k = "running" BY <1>2, PoolAssumption DEF At
<1>3. CASE k = "recovered" BY <1>3 DEF At
<1>4. CASE k = "dead"
  <2>1. x \in Worker /\ thread[x] = "dead" /\ current_request[x] = r /\ Attached(x)'
    BY <1>4, PoolAssumption DEF At
  <2> QED BY <1>4, <2>1, DetachedStays DEF At
<1>5. CASE k = "queue" BY <1>5 DEF At, In
<1> QED BY <1>1, <1>2, <1>3, <1>4, <1>5 DEF At

LEMMA HolderCaller ==
  ASSUME TypeInv, HolderInv, [Next]_vars, NEW t \in Caller, CallerStep(t)
  PROVE  \A r \in Request : Kept(r)
<1> USE DEF workerVars, outVars, TypeInv, TypeOK, ThreadTypeOK, WorkerTypeOK
<1>1. CASE PickWorker(t)
  <2>1. \A u \in Caller : call'[u].item = call[u].item
    BY <1>1 DEF PickWorker, CallRecord
  <2> QED BY <1>1, <2>1, Quiet DEF PickWorker
<1>2. CASE PickNone(t) \/ PickShutdown(t)
  <2>1. \A u \in Caller : call'[u].item \in {call[u].item, NoItem}
    <3>1. call' = [call EXCEPT ![t] = Returned] BY <1>2 DEF PickNone, PickShutdown
    <3> QED BY <3>1 DEF Returned
  <2> QED BY <1>2, <2>1, Quiet DEF PickNone, PickShutdown
<1>3. CASE PickNothingReady(t) \/ Block(t)
  <2>1. \A u \in Caller : call'[u].item = call[u].item
    <3>1. CASE call' = [call EXCEPT ![t].pc = "block"] BY <3>1 DEF CallRecord
    <3>2. CASE call' = [call EXCEPT ![t].pc = "waiting"] BY <3>2 DEF CallRecord
    <3> QED BY <1>3, <3>1, <3>2 DEF PickNothingReady, Block
  <2> QED BY <1>3, <2>1, Quiet DEF PickNothingReady, Block
<1>4. CASE AddRequest(t)
  <2>1. PICK w \in Worker, it \in Item :
          /\ w = call[t].target /\ it = call[t].item /\ it.data \in Request
          /\ request_queue' = [request_queue EXCEPT ![w] = Append(request_queue[w], it)]
          /\ call' = [call EXCEPT ![t] = Returned]
          /\ UNCHANGED <<current_request, thread, taken, unread, answers, sup, workers>>
    BY <1>4 DEF AddRequest, CallOK, Item, slotVars
  <2>2. ASSUME NEW r \in Request, NEW k, NEW x, At(k, x, r)'
        PROVE  (At(k, x, r) /\ ~(k = "call" /\ x = t)) \/ (k = "queue" /\ x = w /\ r = it.data)
    <3>1. CASE k = "call" BY <2>1, <2>2, <3>1, PoolAssumption DEF At, Returned, NoItem
    <3>2. CASE k = "queue" /\ x = w
      <4>1. In(Append(request_queue[w], it), r) BY <2>1, <2>2, <3>2 DEF At
      <4> QED BY <2>1, <3>2, <4>1, AppendIn DEF At
    <3>3. CASE k = "queue" /\ x # w BY <2>1, <2>2, <3>3 DEF At
    <3>4. CASE k \notin {"call", "queue"} BY <2>1, <2>2, <3>4 DEF At, Attached
    <3> QED BY <3>1, <3>2, <3>3, <3>4
  <2>3. At("call", t, it.data) BY <2>1 DEF At
  <2>4. ASSUME NEW r \in Request, r # it.data PROVE Kept(r)
    BY <2>1, <2>2, <2>4, Stays
  <2>5. Kept(it.data)
    <3>1. PICK q \in Request : q = it.data BY <2>1
    <3>2. Goes("call", t, "queue", w, q) BY <2>2, <3>1 DEF Goes
    <3>3. At("call", t, q) BY <2>3, <3>1
    <3>4. Kept(q) BY <2>1, <3>2, <3>3, Went
    <3> QED BY <3>1, <3>4
  <2> QED BY <2>4, <2>5
<1> QED BY <1>1, <1>2, <1>3, <1>4 DEF CallerStep

LEMMA HolderWorker ==
  ASSUME TypeInv, HolderInv, [Next]_vars, NEW w \in Worker,
         InitStep(w) \/ LoopStep(w) \/ Respond(w) \/ Fault(w) \/ Late(w)
  PROVE  \A r \in Request : Kept(r)
<1> USE DEF workerVars, outVars, TypeInv, TypeOK, ThreadTypeOK, WorkerTypeOK
<1>0. WorkerRest(w) BY DEF HolderInv, RestInv
<1>1. CASE StartThread(w) \/ StartIdle(w) \/ MarkReadyRefused(w) \/ LoopIdle(w) \/ StopSignaled(w) \/ Late(w)
  <2>1. UNCHANGED <<unread, taken, request_queue, answers, sup, call>>
    BY <1>1 DEF StartThread, StartIdle, MarkReadyRefused, LoopIdle, StopSignaled, Late
  <2>2. \A v \in Worker : \/ current_request'[v] = NoRequest
                          \/ thread'[v] \notin {"process", "dead"}
                          \/ UNCHANGED <<current_request[v], thread[v]>>
    BY <1>0, <1>1 DEF WorkerRest, StartThread, StartIdle, MarkReadyRefused, LoopIdle, StopSignaled, Late
  <2> QED BY <2>1, <2>2, Quiet
<1>2. CASE MarkReady(w)
  <2>1. \A t \in Caller : call'[t].item = call[t].item
    <3>1. CASE call' = call BY <3>1
    <3>2. CASE \E t \in Waiting : call' = [call EXCEPT ![t].pc = "get"]
      <4>1. PICK t \in Caller : call' = [call EXCEPT ![t].pc = "get"] BY <3>2 DEF Waiting
      <4> QED BY <4>1 DEF CallRecord
    <3> QED BY <1>2, <3>1, <3>2 DEF MarkReady, NotifyOne
  <2> QED BY <1>2, <2>1, Quiet DEF MarkReady
<1>3. CASE TakeRequest(w)
  <2>0. request_queue[w] \in Seq(Item) /\ request_queue[w] # <<>> /\ Once(request_queue[w])
    BY <1>0, <1>3 DEF TakeRequest, WorkerRest
  <2>1. PICK it \in Item :
          /\ it = Head(request_queue[w]) /\ it.data \in Request
          /\ taken' = [taken EXCEPT ![w] = it] /\ In(request_queue[w], it.data)
          /\ request_queue' = [request_queue EXCEPT ![w] = Tail(request_queue[w])]
          /\ thread' = [thread EXCEPT ![w] = "took"] /\ thread[w] = "wait"
          /\ UNCHANGED <<current_request, unread, answers, sup, workers, call>>
    BY <1>3, <2>0, TailIn DEF TakeRequest, Item, slotVars
  <2>2. ASSUME NEW r \in Request, NEW k, NEW x, At(k, x, r)'
        PROVE  (At(k, x, r) /\ ~(k = "queue" /\ x = w)) \/ (k = "taken" /\ x = w /\ r = it.data)
                 \/ (k = "queue" /\ x = w /\ r # it.data /\ At(k, x, r))
    <3>1. CASE k = "queue" /\ x = w
      <4>1. In(Tail(request_queue[w]), r) BY <2>1, <2>2, <3>1 DEF At
      <4> QED BY <2>0, <2>1, <3>1, <4>1, TailIn DEF At
    <3>2. CASE k = "queue" /\ x # w BY <2>1, <2>2, <3>2 DEF At
    <3>3. CASE k # "queue" BY <2>1, <2>2, <3>3 DEF At, Attached
    <3> QED BY <3>1, <3>2, <3>3
  <2>3. PICK q \in Request : q = it.data BY <2>1
  <2>4. ASSUME NEW r \in Request, r # q PROVE Kept(r)
    BY <2>1, <2>2, <2>3, <2>4, Stays
  <2>5. At("queue", w, q) BY <2>1, <2>3 DEF At
  <2>6. Goes("queue", w, "taken", w, q) BY <2>2, <2>3 DEF Goes
  <2> QED BY <2>1, <2>4, <2>5, <2>6, Went
<1>4. CASE BeginRequest(w)
  <2>1. PICK q \in Request :
          /\ q = taken[w].data
          /\ taken' = [taken EXCEPT ![w] = NoItem]
          /\ current_request' = [current_request EXCEPT ![w] = q]
          /\ thread' = [thread EXCEPT ![w] = "process"] /\ thread[w] = "took"
          /\ UNCHANGED <<request_queue, unread, answers, sup, workers, call>>
    BY <1>4 DEF BeginRequest, LoopOK, Item, slotVars
  <2>2. ASSUME NEW r \in Request, NEW k, NEW x, At(k, x, r)'
        PROVE  (At(k, x, r) /\ ~(k = "taken" /\ x = w)) \/ (k = "running" /\ x = w /\ r = q)
    <3>1. CASE k \in {"running", "dead", "taken"} /\ x = w
      BY <2>1, <2>2, <3>1, PoolAssumption DEF At, NoItem
    <3>2. CASE ~(k \in {"running", "dead", "taken"} /\ x = w) BY <2>1, <2>2, <3>2 DEF At, Attached
    <3> QED BY <3>1, <3>2
  <2>4. ASSUME NEW r \in Request, r # q PROVE Kept(r)
    BY <2>1, <2>2, <2>4, Stays
  <2>5. At("taken", w, q) BY <2>1 DEF At
  <2>6. Goes("taken", w, "running", w, q) BY <2>2 DEF Goes
  <2> QED BY <2>1, <2>4, <2>5, <2>6, Went
<1>5. CASE Fault(w)
  <2>1. PICK q \in Request :
          /\ q = current_request[w]
          /\ thread' = [thread EXCEPT ![w] = "dead"] /\ thread[w] = "process"
          /\ UNCHANGED <<current_request, taken, request_queue, unread, answers, sup, workers, call>>
    BY <1>5 DEF Fault, LoopOK, slotVars
  <2>2. ASSUME NEW r \in Request, NEW k, NEW x, At(k, x, r)'
        PROVE  (At(k, x, r) /\ ~(k = "running" /\ x = w))
                 \/ (k = "dead" /\ x = w /\ r = q /\ Attached(w))
    <3>1. CASE k \in {"running", "dead"} /\ x = w BY <2>1, <2>2, <3>1 DEF At, Attached
    <3>2. CASE ~(k \in {"running", "dead"} /\ x = w) BY <2>1, <2>2, <3>2 DEF At, Attached
    <3> QED BY <3>1, <3>2
  <2>3. ASSUME NEW r \in Request, r # q \/ ~Attached(w) PROVE Kept(r)
    BY <2>1, <2>2, <2>3, Stays
  <2>4. CASE Attached(w)
    <3>1. At("running", w, q) BY <2>1 DEF At
    <3>2. Goes("running", w, "dead", w, q) BY <2>2 DEF Goes
    <3> QED BY <2>1, <2>3, <2>4, <3>1, <3>2, Went
  <2> QED BY <2>3, <2>4
<1>6. CASE Respond(w)
  <2>1. PICK q \in Request :
          /\ q = current_request[w]
          /\ thread' = [thread EXCEPT ![w] = "loop"] /\ thread[w] = "process"
          /\ \A r \in Request : r # q => answers'[r] = answers[r]
          /\ UNCHANGED <<current_request, taken, request_queue, unread, sup, workers, call>>
    BY <1>6 DEF Respond, LoopOK, slotVars
  <2>2. ASSUME NEW r \in Request, NEW k, NEW x, At(k, x, r)'
        PROVE  At(k, x, r) /\ ~(k = "running" /\ x = w)
    <3>1. CASE k \in {"running", "dead"} /\ x = w BY <2>1, <2>2, <3>1 DEF At
    <3>2. CASE ~(k \in {"running", "dead"} /\ x = w) BY <2>1, <2>2, <3>2 DEF At, Attached
    <3> QED BY <3>1, <3>2
  <2>3. ASSUME NEW r \in Request, r # q PROVE Kept(r)
    BY <2>1, <2>2, <2>3, Stays
  <2>4. \A k, x : ~At(k, x, q)'
    <3>1. At("running", w, q) BY <2>1 DEF At
    <3> QED BY <2>2, <3>1 DEF HolderInv, One
  <2> QED BY <2>3, <2>4, Nowhere
<1> QED BY <1>1, <1>2, <1>3, <1>4, <1>5, <1>6 DEF InitStep, LoopStep

LEMMA HolderSupervisor ==
  ASSUME TypeInv, HolderInv, [Next]_vars, ReplaceStep \/ \E i \in Slot : Monitor(i) \/ BackoffElapses(i)
  PROVE  \A r \in Request : Kept(r)
<1> USE DEF workerVars, outVars, TypeInv, TypeOK, ThreadTypeOK, WorkerTypeOK, SupRecord, SupOK
<1>0. SupRest BY DEF HolderInv, RestInv
<1>1. ASSUME UNCHANGED <<unread, taken, request_queue, answers, current_request, thread, call>>,
             sup'.recovered \in {sup.recovered, <<>>}
      PROVE  \A r \in Request : Kept(r)
  BY <1>1, Quiet, EmptyIn
<1>2. ASSUME NEW i \in Slot, Monitor(i) \/ BackoffElapses(i)
      PROVE  \A r \in Request : Kept(r)
  <2>1. sup'.recovered = sup.recovered
    <3>1. CASE Monitor(i) BY <3>1 DEF Monitor
    <3>2. CASE BackoffElapses(i) BY <3>2 DEF BackoffElapses
    <3> QED BY <1>2, <3>1, <3>2
  <2> QED BY <1>1, <1>2, <2>1 DEF Monitor, BackoffElapses
<1>3. CASE MarkNotReady
  <2>1. sup'.recovered \in {sup.recovered, <<>>} BY <1>3 DEF MarkNotReady, Scanning
  <2> QED BY <1>1, <1>3, <2>1 DEF MarkNotReady
<1>4. CASE Prepare
  <2>1. sup'.recovered = sup.recovered BY <1>4 DEF Prepare
  <2> QED BY <1>1, <1>4, <2>1 DEF Prepare
<1>5. CASE StopOld
  <2>1. sup'.recovered = sup.recovered BY <1>5 DEF StopOld
  <2> QED BY <1>1, <1>5, <2>1 DEF StopOld
<1>6. CASE Spawn
  <2>1. sup'.recovered = sup.recovered BY <1>6 DEF Spawn
  <2> QED BY <1>1, <1>6, <2>1 DEF Spawn
<1>7. CASE Replaced \/ AbandonReplacement \/ SupervisorExits
  <2>1. sup'.recovered \in {sup.recovered, <<>>}
    BY <1>7 DEF Replaced, AbandonReplacement, SupervisorExits, Scanning
  <2> QED BY <1>1, <1>7, <2>1 DEF Replaced, AbandonReplacement, SupervisorExits
<1>8. CASE DiscardPoison
  <2>1. sup.recovered # <<>> /\ sup'.recovered = Tail(sup.recovered) /\ Once(sup.recovered)
    BY <1>0, <1>8 DEF DiscardPoison, SupRest
  <2>2. \A r \in Request : In(sup'.recovered, r) => In(sup.recovered, r)
    BY <2>1, TailIn
  <2> QED BY <1>8, <2>2, Quiet DEF DiscardPoison
<1>9. CASE Redistribute
  <2>1. PICK it \in Item :
          /\ it.data \in Request /\ it.data = Head(sup.recovered).data
          /\ call' = [call EXCEPT !["supervisor"] =
                        [pc |-> "get", item |-> it, target |-> NoWorker]]
          /\ sup'.recovered = Tail(sup.recovered) /\ sup.recovered # <<>> /\ Once(sup.recovered)
          /\ sup.pc = "redistribute" /\ sup'.pc = "redistribute"
          /\ UNCHANGED <<unread, taken, request_queue, answers, current_request, thread, workers>>
    <3> DEFINE h == Head(sup.recovered)
    <3>1. sup.recovered # <<>> /\ Once(sup.recovered) /\ h \in Item /\ MayRetry(h)
      BY <1>0, <1>9, TailIn DEF Redistribute, SupRest
    <3>2. [h EXCEPT !.retry_count = @ + 1] \in Item BY <3>1, RetriedItem
    <3>3. [h EXCEPT !.retry_count = @ + 1].data = h.data /\ h.data \in Request BY <3>1 DEF Item
    <3> QED BY <1>9, <3>1, <3>2, <3>3 DEF Redistribute, slotVars
  <2>2. ASSUME NEW r \in Request, NEW k, NEW x, At(k, x, r)'
        PROVE  \/ At(k, x, r) /\ ~(k = "recovered" /\ x = NoWorker /\ r = it.data)
               \/ k = "call" /\ x = "supervisor" /\ r = it.data
    <3>1. CASE k = "call" BY <2>1, <2>2, <3>1 DEF At
    <3>2. CASE k = "recovered"
      <4>1. In(Tail(sup.recovered), r) BY <2>1, <2>2, <3>2 DEF At
      <4> QED BY <2>1, <2>2, <3>2, <4>1, TailIn DEF At
    <3>3. CASE k \notin {"call", "recovered"} BY <2>1, <2>2, <3>3 DEF At, Attached
    <3> QED BY <3>1, <3>2, <3>3
  <2>3. PICK q \in Request : q = it.data BY <2>1
  <2>4. ASSUME NEW r \in Request, r # q PROVE Kept(r)
    BY <2>1, <2>2, <2>3, <2>4, Stays
  <2>5. At("recovered", NoWorker, q) BY <2>1, <2>3, TailIn DEF At
  <2>6. Goes("recovered", NoWorker, "call", "supervisor", q) BY <2>2, <2>3 DEF Goes
  <2> QED BY <2>1, <2>4, <2>5, <2>6, Went
<1>10. CASE DrainPending
  <2>1. PICK o \in Worker :
          /\ o = sup.old /\ sup'.old = o /\ sup.pc = "drain" /\ sup'.pc = "current"
          /\ sup'.recovered = request_queue[o]
          /\ request_queue' = [request_queue EXCEPT ![o] = <<>>]
          /\ UNCHANGED <<unread, taken, answers, current_request, thread, workers, call>>
    BY <1>10 DEF DrainPending, Drained, slotVars
  <2>2. ASSUME NEW r \in Request, NEW k, NEW x, At(k, x, r)'
        PROVE  \/ At(k, x, r) /\ ~(k = "queue" /\ x = o)
               \/ k = "recovered" /\ x = NoWorker /\ In(request_queue[o], r)
    <3>1. CASE k = "queue" BY <2>1, <2>2, <3>1, EmptyIn DEF At
    <3>2. CASE k = "recovered" BY <2>1, <2>2, <3>2 DEF At
    <3>3. CASE k \notin {"queue", "recovered"} BY <2>1, <2>2, <3>3 DEF At, Attached
    <3> QED BY <3>1, <3>2, <3>3
  <2>3. ASSUME NEW r \in Request PROVE Kept(r)
    <3>1. CASE In(request_queue[o], r)
      <4>1. At("queue", o, r) BY <2>1, <3>1 DEF At
      <4>2. Goes("queue", o, "recovered", NoWorker, r) BY <2>2 DEF Goes
      <4> QED BY <2>1, <4>1, <4>2, Went
    <3>2. CASE ~In(request_queue[o], r) BY <2>1, <2>2, <3>2, Stays
    <3> QED BY <3>1, <3>2
  <2> QED BY <2>3
<1>11. CASE RecoverCurrent
  <2>1. PICK o \in Worker :
          /\ o = sup.old /\ sup'.old = o /\ sup.pc = "current" /\ sup'.pc = "stop"
          /\ sup'.slot = sup.slot /\ workers[SlotOf(o)] = NoWorker
          /\ \A r \in Request : r # current_request[o] \/ ~sup.force => answers'[r] = answers[r]
          /\ \A r \in Request : In(sup'.recovered, r) <=>
               In(sup.recovered, r) \/ (current_request[o] = r /\ ~sup.force)
          /\ UNCHANGED <<unread, taken, request_queue, current_request, thread, workers, call>>
    BY <1>0, <1>11, RecoveredOnce DEF RecoverCurrent, SupRest, slotVars
  <2>2. ~Attached(o)' BY <2>1, PoolAssumption DEF Attached
  <2>3. ASSUME NEW r \in Request, NEW k, NEW x, At(k, x, r)'
        PROVE  \/ At(k, x, r) /\ ~(k = "dead" /\ x = o)
               \/ k = "recovered" /\ x = NoWorker /\ current_request[o] = r /\ ~sup.force
    <3>1. CASE k = "dead" BY <2>1, <2>2, <2>3, <3>1 DEF At, Attached
    <3>2. CASE k = "recovered" BY <2>1, <2>3, <3>2 DEF At
    <3>3. CASE k \notin {"dead", "recovered"} BY <2>1, <2>3, <3>3 DEF At
    <3> QED BY <3>1, <3>2, <3>3
  <2>4. ASSUME NEW r \in Request, r # current_request[o] PROVE Kept(r)
    BY <2>1, <2>3, <2>4, Stays
  <2>5. ASSUME NEW r \in Request, r = current_request[o], ~sup.force PROVE Kept(r)
    <3>1. At("dead", o, r) BY <1>0, <2>1, <2>5 DEF At, Attached, SupRest
    <3>2. Goes("dead", o, "recovered", NoWorker, r) BY <2>3 DEF Goes
    <3> QED BY <2>1, <2>5, <3>1, <3>2, Went
  <2>6. ASSUME NEW r \in Request, r = current_request[o], sup.force PROVE Kept(r)
    <3>0. One(r) /\ AnsweredIsOver(r) /\ WorkerRest(o) BY DEF HolderInv, RestInv
    <3>1. \A k, x : At(k, x, r)' => At(k, x, r) /\ ~(k = "dead" /\ x = o) BY <2>3, <2>6
    <3>2. One(r)' /\ (Somewhere(r)' => Somewhere(r)) BY <3>0, <3>1 DEF One, Somewhere
    <3>3. CASE thread[o] \in {"process", "dead"}
      <4>1. At("running", o, r) \/ At("dead", o, r) BY <2>1, <2>6, <3>3 DEF At, Attached
      <4>2. \A k, x : At(k, x, r)' => k = "running" /\ x = o BY <3>0, <3>1, <4>1 DEF One
      <4> QED BY <2>2, <3>2, <4>2 DEF Kept, AnsweredIsOver, Somewhere
    <3>4. CASE thread[o] \notin {"process", "dead"}
      <4>1. answers[r] # {} BY <2>6, <3>0, <3>4, PoolAssumption DEF WorkerRest
      <4>2. ASSUME NEW k, NEW x, At(k, x, r)' PROVE k = "running" /\ ~Attached(x)'
        <5>1. At(k, x, r) /\ k = "running" /\ ~Attached(x) BY <3>0, <3>1, <4>1, <4>2 DEF AnsweredIsOver
        <5>2. x \in Worker /\ thread[x] # "none" BY <5>1 DEF At
        <5> QED BY <5>1, <5>2, DetachedStays
      <4> QED BY <3>2, <4>2 DEF Kept, AnsweredIsOver
    <3> QED BY <3>2, <3>3, <3>4
  <2> QED BY <2>4, <2>5, <2>6
<1> QED BY <1>2, <1>3, <1>4, <1>5, <1>6, <1>7, <1>8, <1>9, <1>10, <1>11 DEF ReplaceStep

LEMMA HolderMain ==
  ASSUME TypeInv, HolderInv, [Next]_vars,
         (\E r \in Request : ReadLine(r)) \/ EndOfInput \/ ShutdownStep \/ UNCHANGED vars
  PROVE  \A r \in Request : Kept(r)
<1> USE DEF workerVars, outVars, TypeInv, TypeOK, ThreadTypeOK, WorkerTypeOK
<1>1. ASSUME NEW q \in Request, ReadLine(q) PROVE \A r \in Request : Kept(r)
  <2>1. /\ unread' = unread \ {q} /\ q \in unread
        /\ call' = [call EXCEPT !["reader"] = [pc |-> "get", item |-> [data |-> q, retry_count |-> 0],
                                               target |-> NoWorker]]
        /\ UNCHANGED <<taken, request_queue, current_request, thread, answers, sup, workers>>
    BY <1>1 DEF ReadLine, slotVars
  <2>2. ASSUME NEW r \in Request, NEW k, NEW x, At(k, x, r)'
        PROVE  \/ At(k, x, r) /\ ~(k = "unread" /\ x = NoWorker /\ r = q)
               \/ k = "call" /\ x = "reader" /\ r = q
    <3>1. CASE k = "call" BY <2>1, <2>2, <3>1 DEF At
    <3>2. CASE k # "call" BY <2>1, <2>2, <3>2 DEF At, Attached
    <3> QED BY <3>1, <3>2
  <2>3. ASSUME NEW r \in Request, r # q PROVE Kept(r)
    BY <2>1, <2>2, <2>3, Stays
  <2>4. At("unread", NoWorker, q) BY <2>1 DEF At
  <2>5. Goes("unread", NoWorker, "call", "reader", q) BY <2>2 DEF Goes
  <2> QED BY <2>1, <2>3, <2>4, <2>5, Went
<1>2. CASE EndOfInput \/ ShutdownStep \/ UNCHANGED vars
  <2>1. UNCHANGED <<unread, taken, request_queue, current_request, thread, answers, sup>>
    BY <1>2 DEF EndOfInput, ShutdownStep, FlagShutdown, JoinSupervisor, SkipSlot, StopBegin, StopJoined,
                StopTimesOut, vars
  <2>2. \A t \in Caller : call'[t].item = call[t].item
    <3>1. CASE call' = call BY <3>1
    <3>2. CASE FlagShutdown
      BY <3>2 DEF FlagShutdown, WakeAll, Waiting, CallRecord
    <3> QED BY <1>2, <3>1, <3>2 DEF EndOfInput, ShutdownStep, JoinSupervisor, SkipSlot, StopBegin, StopJoined,
                StopTimesOut, vars
  <2> QED BY <2>1, <2>2, Quiet
<1> QED BY <1>1, <1>2

LEMMA HolderNext ==
  ASSUME TypeInv, HolderInv, [Next]_vars
  PROVE  HolderInv' /\ \A r \in Request : Kept(r)
<1>1. RestInv' BY RestNext
<1>2. \A r \in Request : Kept(r)
  <2>1. CASE UNCHANGED vars BY <2>1, HolderMain
  <2> QED BY <2>1, HolderCaller, HolderWorker, HolderSupervisor, HolderMain DEF Next, Terminating
<1> QED BY <1>1, <1>2 DEF HolderInv, Kept

LEMMA HolderAlways == Spec => [](TypeInv /\ HolderInv)
<1>1. Init => TypeInv /\ HolderInv BY TypeInvInit, HolderInit
<1>2. TypeInv /\ HolderInv /\ [Next]_vars => (TypeInv /\ HolderInv)' BY TypeInvNext, HolderNext
<1> QED BY <1>1, <1>2, PTL DEF Spec

\* How an element of Holders(r) is the place x of kind k.
Shape(h, k, x, r) ==
  \/ k = "unread" /\ h = <<"unread">>
  \/ k \in {"call", "taken", "running"} /\ h = <<k, x>>
  \/ k = "queue" /\ \E j \in 1 .. Len(request_queue[x]) :
                      request_queue[x][j].data = r /\ h = <<"queue", x, j>>
  \/ k = "recovered" /\ \E j \in 1 .. Len(sup.recovered) :
                          sup.recovered[j].data = r /\ h = <<"recovered", j>>

\* A request is in one place, whatever workers fault, hang, are replaced or
\* come back late: no command is run twice at a time or held by two workers.
THEOREM InOnePlace == Spec => []OneHolder
<1>1. ASSUME TypeInv, HolderInv, NEW r \in Request PROVE Cardinality(Holders(r)) <= 1
  <2> DEFINE Found(h) == \E k, x : At(k, x, r) /\ Shape(h, k, x, r)
  <2>1. ASSUME NEW h \in Holders(r) PROVE Found(h)
    <3>1. ASSUME r \in unread, h = <<"unread">> PROVE Found(h)
      <4>1. At("unread", NoWorker, r) /\ Shape(h, "unread", NoWorker, r) BY <3>1 DEF At, Shape
      <4> QED BY <4>1
    <3>2. ASSUME NEW t \in Caller, call[t].item.data = r, h = <<"call", t>> PROVE Found(h)
      <4>1. At("call", t, r) /\ Shape(h, "call", t, r) BY <3>2 DEF At, Shape
      <4> QED BY <4>1
    <3>3. ASSUME NEW w \in Worker, taken[w].data = r, h = <<"taken", w>> PROVE Found(h)
      <4>1. At("taken", w, r) /\ Shape(h, "taken", w, r) BY <3>3 DEF At, Shape
      <4> QED BY <4>1
    <3>4. ASSUME NEW w \in Worker, thread[w] = "process", current_request[w] = r, h = <<"running", w>>
          PROVE  Found(h)
      <4>1. At("running", w, r) /\ Shape(h, "running", w, r) BY <3>4 DEF At, Shape
      <4> QED BY <4>1
    <3>5. ASSUME NEW w \in Worker, NEW j \in 1 .. Len(request_queue[w]),
                 request_queue[w][j].data = r, h = <<"queue", w, j>>
          PROVE  Found(h)
      <4>1. At("queue", w, r) /\ Shape(h, "queue", w, r) BY <3>5 DEF At, Shape, In
      <4> QED BY <4>1
    <3>6. ASSUME NEW j \in 1 .. Len(sup.recovered), sup.recovered[j].data = r, h = <<"recovered", j>>
          PROVE  Found(h)
      <4>1. At("recovered", NoWorker, r) /\ Shape(h, "recovered", NoWorker, r)
        BY <3>6 DEF At, Shape, In
      <4> QED BY <4>1
    <3> HIDE DEF Found
    <3> QED BY <3>1, <3>2, <3>3, <3>4, <3>5, <3>6 DEF Holders
  <2>2. ASSUME NEW g \in Holders(r), NEW h \in Holders(r) PROVE g = h
    <3>1. PICK k, x : At(k, x, r) /\ Shape(g, k, x, r) BY <2>1
    <3>2. PICK l, y : At(l, y, r) /\ Shape(h, l, y, r) BY <2>1
    <3>3. k = l /\ x = y BY <1>1, <3>1, <3>2 DEF HolderInv, One
    <3>4. CASE k = "queue"
      <4>1. x \in Worker BY <3>1, <3>4 DEF At
      <4>2. Once(request_queue[x]) BY <1>1, <4>1 DEF HolderInv, RestInv, WorkerRest
      <4> QED BY <3>1, <3>2, <3>3, <3>4, <4>2 DEF Shape, Once
    <3>5. CASE k = "recovered"
      <4>1. Once(sup.recovered) BY <1>1 DEF HolderInv, RestInv, SupRest
      <4> QED BY <3>1, <3>2, <3>3, <3>5, <4>1 DEF Shape, Once
    <3>6. CASE k \notin {"queue", "recovered"}
      BY <3>1, <3>2, <3>3, <3>6 DEF Shape
    <3> QED BY <3>4, <3>5, <3>6
  <2>3. CASE Holders(r) = {} BY <2>3, FS_EmptySet
  <2>4. CASE Holders(r) # {}
    <3>1. PICK h : Holders(r) = {h} BY <2>2, <2>4
    <3> QED BY <3>1, FS_Singleton
  <2> QED BY <2>3, <2>4
<1>2. TypeInv /\ HolderInv => OneHolder BY <1>1 DEF OneHolder
<1> QED BY <1>2, HolderAlways, PTL

\* A request that was answered, with a result or a timeout error, is not given
\* to process_request again, however late its worker was.
THEOREM AnsweredNotRerun == Spec => NoRerun
<1> DEFINE A == \A r \in Request : ran'[r] # ran[r] => answers[r] = {}
<1>1. ASSUME TypeInv, HolderInv, [Next]_vars PROVE [A]_vars
  <2>1. ASSUME NEW w \in Worker, BeginRequest(w) PROVE A
    <3> SUFFICES ASSUME NEW r \in Request, ran'[r] # ran[r] PROVE answers[r] = {}
      OBVIOUS
    <3>1. r = taken[w].data
      BY <2>1 DEF BeginRequest, TypeInv, TypeOK, ThreadTypeOK
    <3>2. At("taken", w, r) BY <3>1 DEF At
    <3> QED BY <1>1, <3>2 DEF HolderInv, AnsweredIsOver
  <2>2. (\E w \in Worker : BeginRequest(w)) \/ ran' = ran
    BY <1>1 DEF Next, CallerStep, PickWorker, PickNone, PickShutdown, PickNothingReady, Block, AddRequest,
       InitStep, LoopStep, StartThread, StartIdle, MarkReady, MarkReadyRefused, LoopIdle, TakeRequest,
       StopSignaled, Respond, Fault, Late, Monitor, BackoffElapses, ReplaceStep, MarkNotReady, Prepare,
       DrainPending, RecoverCurrent, StopOld, Spawn, DiscardPoison, Redistribute, Replaced,
       AbandonReplacement, SupervisorExits, ReadLine, EndOfInput, ShutdownStep, FlagShutdown,
       JoinSupervisor, SkipSlot, StopBegin, StopJoined, StopTimesOut, Terminating, vars, outVars
  <2> QED BY <2>1, <2>2
<1>2. [](TypeInv /\ HolderInv) /\ [][Next]_vars => [][A]_vars BY <1>1, PTL
<1> QED BY <1>2, HolderAlways DEF Spec, NoRerun
-----------------------------------------------------------------------------
(* The pool implements RequestLedger.                                      *)

\* Stage(r), said with the places of a request.
StageAt(r) ==
  IF answers[r] # {} THEN "answered"
  ELSE IF r \in unread THEN "unread"
  ELSE IF \E x : At("running", x, r) THEN "running"
  ELSE IF Somewhere(r) THEN "pending"
  ELSE "lost"

StagesAgree == TypeInv /\ HolderInv => \A r \in Request : Stage(r) = StageAt(r)

LEMMA StageIs == StagesAgree
<1> SUFFICES ASSUME TypeInv, HolderInv, NEW r \in Request PROVE Stage(r) = StageAt(r)
  BY DEF StagesAgree
<1>1. (\E w \in Worker : thread[w] = "process" /\ current_request[w] = r) <=> \E x : At("running", x, r)
  BY DEF At
<1>2. ASSUME Somewhere(r) PROVE Holders(r) # {} \/ Recoverable(r)
  <2>1. PICK k, x : At(k, x, r) BY <1>2 DEF Somewhere
  <2>2. CASE k = "dead" BY <2>1, <2>2 DEF At, Attached, Recoverable
  <2>3. CASE k = "unread"
    <3>1. r \in unread BY <2>1, <2>3 DEF At
    <3>2. <<"unread">> \in Holders(r) BY <3>1 DEF Holders
    <3> QED BY <3>2
  <2>4. CASE k = "call"
    <3>1. x \in Caller /\ call[x].item.data = r BY <2>1, <2>4 DEF At
    <3>2. <<"call", x>> \in Holders(r) BY <3>1 DEF Holders
    <3> QED BY <3>2
  <2>5. CASE k = "taken"
    <3>1. x \in Worker /\ taken[x].data = r BY <2>1, <2>5 DEF At
    <3>2. <<"taken", x>> \in Holders(r) BY <3>1 DEF Holders
    <3> QED BY <3>2
  <2>6. CASE k = "running"
    <3>1. x \in Worker /\ thread[x] = "process" /\ current_request[x] = r BY <2>1, <2>6 DEF At
    <3>2. <<"running", x>> \in Holders(r) BY <3>1 DEF Holders
    <3> QED BY <3>2
  <2>7. CASE k = "queue"
    <3>1. x \in Worker BY <2>1, <2>7 DEF At
    <3>2. PICK j \in 1 .. Len(request_queue[x]) : request_queue[x][j].data = r BY <2>1, <2>7 DEF At, In
    <3>3. <<"queue", x, j>> \in Holders(r) BY <3>1, <3>2 DEF Holders
    <3> QED BY <3>3
  <2>8. CASE k = "recovered"
    <3>1. PICK j \in 1 .. Len(sup.recovered) : sup.recovered[j].data = r BY <2>1, <2>8 DEF At, In
    <3>2. <<"recovered", j>> \in Holders(r) BY <3>1 DEF Holders
    <3> QED BY <3>2
  <2> QED BY <2>1, <2>2, <2>3, <2>4, <2>5, <2>6, <2>7, <2>8 DEF At
<1>3. ASSUME Holders(r) # {} PROVE Somewhere(r)
  <2>1. CASE r \in unread BY <2>1 DEF At, Somewhere
  <2>2. CASE \E t \in Caller : call[t].item.data = r BY <2>2 DEF At, Somewhere
  <2>3. CASE \E w \in Worker : taken[w].data = r BY <2>3 DEF At, Somewhere
  <2>4. CASE \E w \in Worker : thread[w] = "process" /\ current_request[w] = r BY <2>4 DEF At, Somewhere
  <2>5. CASE \E w \in Worker : In(request_queue[w], r) BY <2>5 DEF At, Somewhere
  <2>6. CASE In(sup.recovered, r) BY <2>6 DEF At, Somewhere
  <2> QED BY <1>3, <2>1, <2>2, <2>3, <2>4, <2>5, <2>6 DEF Holders, In
<1>4. ASSUME Recoverable(r), answers[r] = {}, ~\E x : At("running", x, r) PROVE Somewhere(r)
  <2>1. PICK w \in Worker : current_request[w] = r /\ Attached(w) BY <1>4 DEF Recoverable, Attached
  <2>2. WorkerRest(w) BY DEF HolderInv, RestInv
  <2>3. thread[w] = "dead"
    BY <1>1, <1>4, <2>1, <2>2, PoolAssumption DEF WorkerRest, TypeInv, TypeOK, WorkerTypeOK
  <2>4. At("dead", w, r) BY <2>1, <2>3 DEF At
  <2> QED BY <2>4 DEF Somewhere
<1> QED BY <1>1, <1>2, <1>3, <1>4 DEF Stage, StageAt

LEMMA StageIsNext ==
  ASSUME TypeInv, HolderInv, [Next]_vars
  PROVE  \A r \in Request : Stage(r) = StageAt(r) /\ Stage(r)' = StageAt(r)'
<1>1. StagesAgree' BY StageIs, PTL
<1>2. TypeInv' /\ HolderInv' BY TypeInvNext, HolderNext
<1> QED BY <1>1, <1>2, StageIs DEF StagesAgree

\* A request that keeps its places keeps its stage.
LEMMA StageKept ==
  ASSUME NEW r \in Request, UNCHANGED answers[r], \A k, x : At(k, x, r)' <=> At(k, x, r)
  PROVE  StageAt(r)' = StageAt(r)
<1>1. (r \in unread)' <=> r \in unread
  <2>1. At("unread", NoWorker, r) <=> r \in unread BY DEF At
  <2>2. At("unread", NoWorker, r)' <=> (r \in unread)' BY DEF At
  <2> QED BY <2>1, <2>2
<1> QED BY <1>1 DEF StageAt, Somewhere

\* A request that runs where it ran, and is nowhere new, can only be lost.
LEMMA StageLost ==
  ASSUME NEW r \in Request, UNCHANGED <<answers, unread>>, Kept(r),
         \A x : At("running", x, r)' <=> At("running", x, r)
  PROVE  StageAt(r)' = StageAt(r) \/ (StageAt(r) = "pending" /\ StageAt(r)' = "lost")
BY DEF StageAt, Kept

Same(r) == Stage(r)' = Stage(r)

\* The steps that change the stage of one request.
LEMMA LedgerMoves ==
  ASSUME NEW q \in Request, NEW from, NEW to, Stage(q) = from, Stage(q)' = to,
         \A r \in Request : r # q => Same(r)
  PROVE  Ledger!Move(q, from, to)
BY DEF Ledger!Move, Same

LEMMA LedgerAccepts ==
  ASSUME TypeInv, HolderInv, [Next]_vars, NEW q \in Request, ReadLine(q)
  PROVE  Ledger!LedgerNext
<1> USE DEF workerVars, outVars, TypeInv, TypeOK, ThreadTypeOK, WorkerTypeOK
<1>1. /\ unread' = unread \ {q} /\ q \in unread /\ call["reader"].pc = "out"
      /\ call' = [call EXCEPT !["reader"] = [pc |-> "get", item |-> [data |-> q, retry_count |-> 0],
                                             target |-> NoWorker]]
      /\ UNCHANGED <<taken, request_queue, current_request, thread, answers, ran, sup, workers>>
  BY DEF ReadLine, slotVars
<1>2. call["reader"].item = NoItem BY <1>1 DEF HolderInv, RestInv, CallRest, Caller
<1>3. ASSUME NEW r \in Request, r # q PROVE Same(r)
  <2>1. \A k, x : At(k, x, r)' <=> At(k, x, r)
    BY <1>1, <1>2, <1>3, PoolAssumption DEF At, Attached, NoItem
  <2> QED BY <1>1, <2>1, StageKept, StageIsNext DEF Same
<1>4. At("unread", NoWorker, q) BY <1>1 DEF At
<1>5. answers[q] = {}
  <2>1. AnsweredIsOver(q) BY DEF HolderInv
  <2> QED BY <1>4, <2>1 DEF AnsweredIsOver
<1>6. Stage(q) = "unread" BY <1>1, <1>5, StageIsNext DEF StageAt
<1>7. At("call", "reader", q)' BY <1>1 DEF At, Caller
<1>8. ~\E x : At("running", x, q)
  BY <1>4 DEF HolderInv, One
<1>9. Stage(q)' = "pending"
  <2>1. ~\E x : At("running", x, q)' BY <1>1, <1>8 DEF At
  <2>2. Somewhere(q)' BY <1>7 DEF Somewhere
  <2> QED BY <1>1, <1>5, <2>1, <2>2, StageIsNext DEF StageAt
<1>10. Ledger!Accept(q) BY <1>1, <1>3, <1>6, <1>9, LedgerMoves DEF Ledger!Accept
<1> QED BY <1>10 DEF Ledger!LedgerNext

LEMMA LedgerAttempts ==
  ASSUME TypeInv, HolderInv, [Next]_vars, NEW w \in Worker, BeginRequest(w)
  PROVE  Ledger!LedgerNext
<1> USE DEF workerVars, outVars, TypeInv, TypeOK, ThreadTypeOK, WorkerTypeOK
<1>1. PICK q \in Request :
        /\ q = taken[w].data
        /\ taken' = [taken EXCEPT ![w] = NoItem]
        /\ current_request' = [current_request EXCEPT ![w] = q]
        /\ thread' = [thread EXCEPT ![w] = "process"] /\ thread[w] = "took"
        /\ ran' = [ran EXCEPT ![q] = ran[q] + 1]
        /\ UNCHANGED <<request_queue, unread, answers, sup, workers, call>>
  BY DEF BeginRequest, LoopOK, Item, slotVars
<1>2. ASSUME NEW r \in Request, r # q PROVE Same(r)
  <2>1. \A k, x : At(k, x, r)' <=> At(k, x, r)
    BY <1>1, <1>2, PoolAssumption DEF At, Attached, NoItem
  <2> QED BY <1>1, <2>1, StageKept, StageIsNext DEF Same
<1>3. At("taken", w, q) BY <1>1 DEF At
<1>4. answers[q] = {} /\ ~At("unread", NoWorker, q) /\ \A x : ~At("running", x, q)
  BY <1>3 DEF HolderInv, One, AnsweredIsOver
<1>5. Stage(q) = "pending"
  <2>1. q \notin unread BY <1>4 DEF At
  <2>2. Somewhere(q) BY <1>3 DEF Somewhere
  <2> QED BY <1>4, <2>1, <2>2, StageIsNext DEF StageAt
<1>6. Stage(q)' = "running"
  <2>1. At("running", w, q)' BY <1>1 DEF At
  <2>2. q \notin unread BY <1>4 DEF At
  <2> QED BY <1>1, <1>4, <2>1, <2>2, StageIsNext DEF StageAt
<1>7. Ledger!Attempt(q) BY <1>1, <1>2, <1>5, <1>6, LedgerMoves DEF Ledger!Attempt
<1> QED BY <1>7 DEF Ledger!LedgerNext

LEMMA LedgerFails ==
  ASSUME TypeInv, HolderInv, [Next]_vars, NEW w \in Worker, Fault(w)
  PROVE  [Ledger!LedgerNext]_Ledger!ledgerVars
<1> USE DEF workerVars, outVars, TypeInv, TypeOK, ThreadTypeOK, WorkerTypeOK
<1>1. PICK q \in Request :
        /\ q = current_request[w]
        /\ thread' = [thread EXCEPT ![w] = "dead"] /\ thread[w] = "process"
        /\ UNCHANGED <<current_request, taken, request_queue, unread, answers, ran, sup, workers, call>>
  BY DEF Fault, LoopOK, slotVars
<1>2. ASSUME NEW r \in Request, r # q PROVE Same(r)
  <2>1. \A k, x : At(k, x, r)' <=> At(k, x, r)
    BY <1>1, <1>2 DEF At, Attached
  <2> QED BY <1>1, <2>1, StageKept, StageIsNext DEF Same
<1>3. At("running", w, q) BY <1>1 DEF At
<1>4. ~At("unread", NoWorker, q) /\ \A x : At("running", x, q) => x = w
  BY <1>3 DEF HolderInv, One
<1>5. q \notin unread BY <1>4 DEF At
<1>6. CASE answers[q] # {}
  <2>1. Same(q) BY <1>1, <1>6, StageIsNext DEF StageAt, Same
  <2>2. \A r \in Request : Same(r) BY <1>2, <2>1
  <2> QED BY <1>1, <2>2 DEF Same, Ledger!ledgerVars
<1>7. CASE answers[q] = {}
  <2>1. Stage(q) = "running" BY <1>3, <1>5, <1>7, StageIsNext DEF StageAt
  <2>2. \A x : ~At("running", x, q)'
    <3> SUFFICES ASSUME NEW x, At("running", x, q)' PROVE FALSE OBVIOUS
    <3>1. x # w /\ At("running", x, q) BY <1>1 DEF At
    <3> QED BY <1>4, <3>1
  <2>3. Stage(q)' \in {"pending", "lost"} BY <1>1, <1>5, <1>7, <2>2, StageIsNext DEF StageAt
  <2>4. Ledger!Fail(q) BY <1>1, <1>2, <2>1, <2>3, LedgerMoves DEF Ledger!Fail
  <2> QED BY <2>4 DEF Ledger!LedgerNext
<1> QED BY <1>6, <1>7

LEMMA LedgerAnswers ==
  ASSUME TypeInv, HolderInv, [Next]_vars, NEW w \in Worker, Respond(w)
  PROVE  [Ledger!LedgerNext]_Ledger!ledgerVars
<1> USE DEF workerVars, outVars, TypeInv, TypeOK, ThreadTypeOK, WorkerTypeOK
<1>1. PICK q \in Request :
        /\ q = current_request[w]
        /\ thread' = [thread EXCEPT ![w] = "loop"] /\ thread[w] = "process"
        /\ answers'[q] # {} /\ \A r \in Request : r # q => answers'[r] = answers[r]
        /\ UNCHANGED <<current_request, taken, request_queue, unread, ran, sup, workers, call>>
  BY DEF Respond, LoopOK, slotVars
<1>2. ASSUME NEW r \in Request, r # q PROVE Same(r)
  <2>1. \A k, x : At(k, x, r)' <=> At(k, x, r)
    BY <1>1, <1>2 DEF At, Attached
  <2> QED BY <1>1, <1>2, <2>1, StageKept, StageIsNext DEF Same
<1>3. At("running", w, q) BY <1>1 DEF At
<1>4. Stage(q)' = "answered" BY <1>1, StageIsNext DEF StageAt
<1>5. CASE answers[q] # {}
  <2>1. \A r \in Request : Same(r) BY <1>2, <1>4, <1>5, StageIsNext DEF StageAt, Same
  <2> QED BY <1>1, <2>1 DEF Same, Ledger!ledgerVars
<1>6. CASE answers[q] = {}
  <2>1. ~At("unread", NoWorker, q) BY <1>3 DEF HolderInv, One
  <2>2. q \notin unread BY <2>1 DEF At
  <2>3. Stage(q) = "running" BY <1>3, <1>6, <2>2, StageIsNext DEF StageAt
  <2>4. WorkerRest(w) BY DEF HolderInv, RestInv
  <2>5. ran[q] > 0 BY <1>1, <2>4 DEF WorkerRest
  <2>6. Ledger!Answer(q) BY <1>1, <1>2, <1>4, <2>3, <2>5, LedgerMoves DEF Ledger!Answer
  <2> QED BY <2>6 DEF Ledger!LedgerNext
<1> QED BY <1>5, <1>6

\* The timeout error the supervisor writes for the request of a hung worker.
LEMMA LedgerTimesOut ==
  ASSUME TypeInv, HolderInv, [Next]_vars, RecoverCurrent, sup.force,
         current_request[sup.old] \in Request
  PROVE  [Ledger!LedgerNext]_Ledger!ledgerVars
<1> USE DEF workerVars, outVars, TypeInv, TypeOK, ThreadTypeOK, WorkerTypeOK
<1>1. PICK o \in Worker, q \in Request :
        /\ o = sup.old /\ q = current_request[o] /\ sup.pc = "current" /\ sup'.pc = "stop"
        /\ answers'[q] # {} /\ \A r \in Request : r # q => answers'[r] = answers[r]
        /\ \A r \in Request : In(sup'.recovered, r) <=> In(sup.recovered, r)
        /\ UNCHANGED <<current_request, thread, taken, request_queue, unread, ran, workers, call>>
  <2>1. sup.old \in Worker BY DEF RecoverCurrent, SupOK
  <2>2. \A r \in Request : In(sup'.recovered, r) <=> In(sup.recovered, r)
    BY RecoveredOnce
  <2>3. sup.pc = "current" /\ sup'.pc = "stop" BY DEF RecoverCurrent, SupRecord
  <2>4. PICK o \in Worker, q \in Request : o = sup.old /\ q = current_request[o] BY <2>1
  <2>5. answers' = [answers EXCEPT ![q] = answers[q] \cup {"timeout"}]
    BY <2>4, PoolAssumption DEF RecoverCurrent
  <2>6. answers'[q] # {} /\ \A r \in Request : r # q => answers'[r] = answers[r] BY <2>5
  <2>7. UNCHANGED <<current_request, thread, taken, request_queue, unread, ran, workers, call>>
    BY DEF RecoverCurrent, slotVars
  <2> QED BY <2>2, <2>3, <2>4, <2>6, <2>7
<1>2. ASSUME NEW r \in Request, r # q PROVE Same(r)
  <2>1. \A k, x : At(k, x, r)' <=> At(k, x, r)
    BY <1>1, <1>2 DEF At, Attached
  <2> QED BY <1>1, <1>2, <2>1, StageKept, StageIsNext DEF Same
<1>3. Stage(q)' = "answered" BY <1>1, StageIsNext DEF StageAt
<1>4. CASE answers[q] # {}
  <2>1. \A r \in Request : Same(r) BY <1>2, <1>3, <1>4, StageIsNext DEF StageAt, Same
  <2> QED BY <1>1, <2>1 DEF Same, Ledger!ledgerVars
<1>5. CASE answers[q] = {}
  <2>0. WorkerRest(o) BY DEF HolderInv, RestInv
  <2>1. thread[o] \in {"process", "dead"} BY <1>1, <1>5, <2>0, PoolAssumption DEF WorkerRest
  <2>2. At("running", o, q) \/ At("dead", o, q) BY <1>1, <2>1 DEF At, Attached
  <2>3. ~At("unread", NoWorker, q) BY <2>2 DEF HolderInv, One
  <2>4. q \notin unread BY <2>3 DEF At
  <2>5. Stage(q) \in {"running", "pending"} BY <1>5, <2>2, <2>4, StageIsNext DEF StageAt, Somewhere
  <2>6. ran[q] > 0 BY <1>1, <2>0 DEF WorkerRest
  <2>7. Ledger!Answer(q) BY <1>1, <1>2, <1>3, <2>5, <2>6, LedgerMoves DEF Ledger!Answer
  <2> QED BY <2>7 DEF Ledger!LedgerNext
<1> QED BY <1>4, <1>5

\* Every other step: nothing begins, ends or is read; requests may be lost.
LEMMA LedgerLoses ==
  ASSUME TypeInv, HolderInv, [Next]_vars, UNCHANGED <<answers, unread, ran>>,
         \A w \in Worker : /\ thread'[w] = "process" <=> thread[w] = "process"
                           /\ thread[w] = "process" => current_request'[w] = current_request[w]
  PROVE  [Ledger!LedgerNext]_Ledger!ledgerVars
<1>1. ASSUME NEW r \in Request
      PROVE  Same(r) \/ (Stage(r) = "pending" /\ Stage(r)' = "lost")
  <2>1. \A x : At("running", x, r)' <=> At("running", x, r) BY DEF At
  <2> QED BY <2>1, StageLost, StageIsNext, HolderNext DEF Same
<1>2. CASE \A r \in Request : Same(r) BY <1>2 DEF Same, Ledger!ledgerVars
<1>3. CASE ~\A r \in Request : Same(r)
  <2> DEFINE S == {r \in Request : ~Same(r)}
  <2>0. S \in SUBSET Request /\ S # {} BY <1>3
  <2>1. PICK L \in SUBSET Request : L = S BY <2>0
  <2>2. \A r \in Request : r \in L <=> ~Same(r) BY <2>1
  <2>3. \A r \in L : Stage(r) = "pending" BY <1>1, <2>2
  <2>4. \A r \in Request : Stage(r)' = IF r \in L THEN "lost" ELSE Stage(r)
    BY <1>1, <2>2 DEF Same
  <2>5. Ledger!Lose(L) BY <2>0, <2>1, <2>3, <2>4 DEF Ledger!Lose
  <2> QED BY <2>5 DEF Ledger!LedgerNext
<1> QED BY <1>2, <1>3

LEMMA LedgerStep ==
  ASSUME TypeInv, HolderInv, [Next]_vars
  PROVE  [Ledger!LedgerNext]_Ledger!ledgerVars
<1> USE DEF workerVars, outVars, TypeInv, TypeOK, ThreadTypeOK, WorkerTypeOK
<1>1. CASE UNCHANGED vars
  BY <1>1, LedgerLoses DEF vars
<1>2. ASSUME NEW t \in Caller, CallerStep(t) PROVE [Ledger!LedgerNext]_Ledger!ledgerVars
  BY <1>2, LedgerLoses DEF CallerStep, PickWorker, PickNone, PickShutdown, PickNothingReady, Block, AddRequest
<1>3. ASSUME NEW w \in Worker, InitStep(w) \/ LoopStep(w) \/ Late(w), ~BeginRequest(w)
      PROVE  [Ledger!LedgerNext]_Ledger!ledgerVars
  <2>1. WorkerRest(w) BY DEF HolderInv, RestInv
  <2>2. UNCHANGED <<answers, unread, ran>>
    BY <1>3 DEF InitStep, LoopStep, StartThread, StartIdle, MarkReady, MarkReadyRefused, LoopIdle,
                TakeRequest, StopSignaled, Late
  <2>3. \A v \in Worker : /\ thread'[v] = "process" <=> thread[v] = "process"
                          /\ thread[v] = "process" => current_request'[v] = current_request[v]
    BY <1>3, <2>1 DEF WorkerRest, InitStep, LoopStep, StartThread, StartIdle, MarkReady, MarkReadyRefused,
                LoopIdle, TakeRequest, StopSignaled, Late
  <2> QED BY <2>2, <2>3, LedgerLoses
<1>4. CASE ReplaceStep /\ ~(RecoverCurrent /\ sup.force /\ current_request[sup.old] # NoRequest)
  <2>1. UNCHANGED <<answers, unread, ran, thread, current_request>>
    BY <1>4 DEF ReplaceStep, MarkNotReady, Prepare, DrainPending, RecoverCurrent, StopOld, Spawn,
                DiscardPoison, Redistribute, Replaced, AbandonReplacement, SupervisorExits
  <2> QED BY <2>1, LedgerLoses
<1>5. CASE RecoverCurrent /\ sup.force /\ current_request[sup.old] # NoRequest
  <2>1. current_request[sup.old] \in Request BY <1>5 DEF RecoverCurrent, SupOK
  <2> QED BY <1>5, <2>1, LedgerTimesOut
<1>6. ASSUME NEW i \in Slot, Monitor(i) \/ BackoffElapses(i) PROVE [Ledger!LedgerNext]_Ledger!ledgerVars
  BY <1>6, LedgerLoses DEF Monitor, BackoffElapses
<1>7. CASE EndOfInput \/ ShutdownStep
  BY <1>7, LedgerLoses DEF EndOfInput, ShutdownStep, FlagShutdown, JoinSupervisor, SkipSlot, StopBegin,
                           StopJoined, StopTimesOut
<1> QED BY <1>1, <1>2, <1>3, <1>4, <1>5, <1>6, <1>7, LedgerAccepts, LedgerAttempts, LedgerFails, LedgerAnswers
    DEF Next, LoopStep, Terminating

\* The pool, with all its threads, implements the ledger of its requests: read
\* once, attempted while nobody else attempts it, answered or lost for good.
THEOREM PoolImplementsLedger == Spec => ImplementsLedger
<1>1. Init => Ledger!LedgerInit
  <2> SUFFICES ASSUME Init PROVE Ledger!LedgerInit OBVIOUS
  <2>1. \A r \in Request : Stage(r) = "unread" BY DEF Init, Stage
  <2> QED BY <2>1 DEF Init, Ledger!LedgerInit
<1> QED BY <1>1, LedgerStep, HolderAlways, PTL DEF Spec, ImplementsLedger, Ledger!LedgerSpec
-----------------------------------------------------------------------------
(* A slot that is ready stays in ready_queue.                              *)

Queued(i) == \E k \in 1 .. Len(ready_queue) : ready_queue[k] = i

\* A marked slot has a worker whose initialize_worker is over.  Until the
\* shutdown it is ready or its thread has ended, and a thread that has ended
\* does not become ready again: only entries nobody needs are popped.
MarkedOK(i) ==
  /\ init[workers[i]] = "done"
  /\ sup.pc = "exited" \/ IsReady(workers[i]) \/ thread[workers[i]] = "dead"
  /\ IsReady(workers[i]) \/ thread[workers[i]] # "dead" => Queued(i)

QueuedInv ==
  /\ sup.pc = "exited" => is_shutting_down
  /\ \A i \in Slot : ready_list[i] /\ workers[i] # NoWorker => MarkedOK(i)

AllInv == TypeInv /\ HolderInv /\ PromptInv /\ QueuedInv

LEMMA AppendKeeps ==
  ASSUME NEW s \in Seq(Slot), NEW i \in Slot
  PROVE  /\ \A k \in 1 .. Len(s) : k \in 1 .. Len(Append(s, i)) /\ Append(s, i)[k] = s[k]
         /\ \E k \in 1 .. Len(Append(s, i)) : Append(s, i)[k] = i
<1>1. Len(s) \in Nat /\ Len(Append(s, i)) = Len(s) + 1 /\ Append(s, i)[Len(s) + 1] = i
      /\ \A k \in 1 .. Len(s) : Append(s, i)[k] = s[k]
  BY AppendProperties, LenProperties
<1>2. Len(s) + 1 \in 1 .. Len(Append(s, i)) /\ \A k \in 1 .. Len(s) : k \in 1 .. Len(Append(s, i))
  BY <1>1
<1> QED BY <1>1, <1>2

\* Rotate(k) keeps the entries from the k-th on.
LEMMA RotateKeeps ==
  ASSUME ready_queue \in Seq(Slot), NEW k \in 1 .. Len(ready_queue),
         NEW p \in 1 .. Len(ready_queue), k <= p
  PROVE  \E m \in 1 .. Len(Rotate(k)) : Rotate(k)[m] = ready_queue[p]
<1> DEFINE q == ready_queue
           s == SubSeq(q, k + 1, Len(q))
<1>1. Len(q) \in Nat /\ q[k] \in Slot BY LenProperties, ElementOfSeq
<1>2. s \in Seq(Slot) /\ Len(s) = Len(q) - k /\ \A m \in 1 .. Len(q) - k : s[m] = q[k + m]
  BY <1>1
<1>3. Rotate(k) = Append(s, q[k]) BY DEF Rotate
<1>4. /\ \A m \in 1 .. Len(s) : m \in 1 .. Len(Rotate(k)) /\ Rotate(k)[m] = s[m]
      /\ \E m \in 1 .. Len(Rotate(k)) : Rotate(k)[m] = q[k]
  <2>1. PICK t \in Seq(Slot), i \in Slot : t = s /\ i = q[k] BY <1>1, <1>2
  <2>2. PICK u : u = Append(t, i) OBVIOUS
  <2>3. /\ \A m \in 1 .. Len(t) : m \in 1 .. Len(u) /\ u[m] = t[m]
        /\ \E m \in 1 .. Len(u) : u[m] = i
    BY <2>2, AppendKeeps
  <2>4. Rotate(k) = u BY <1>3, <2>1, <2>2
  <2> HIDE DEF q, s
  <2> QED BY <2>1, <2>3, <2>4
<1>5. CASE p = k BY <1>4, <1>5
<1>6. CASE p > k
  <2>1. p - k \in 1 .. Len(s) /\ s[p - k] = q[p] BY <1>1, <1>2, <1>6
  <2> QED BY <1>4, <2>1
<1> QED BY <1>1, <1>5, <1>6

LEMMA QueuedInit == Init => QueuedInv
BY DEF Init, QueuedInv, Scanning

\* A step that does not pop, mark or change the worker of a marked slot.
LEMMA QueuedLeft ==
  ASSUME TypeInv, QueuedInv, UNCHANGED <<workers, ready_queue>>,
         \A i \in Slot : ready_list'[i] => ready_list[i],
         sup'.pc = "exited" => is_shutting_down', sup.pc = "exited" => sup'.pc = "exited",
         \A i \in Slot : ready_list[i] /\ workers[i] # NoWorker =>
           UNCHANGED <<init[workers[i]], state[workers[i]], thread[workers[i]]>>
  PROVE  QueuedInv'
BY DEF QueuedInv, MarkedOK, Queued, IsReady

LEMMA QueuedCaller ==
  ASSUME AllInv, NEW t \in Caller, CallerStep(t)
  PROVE  QueuedInv'
<1> USE DEF workerVars, readyVars, slotVars, AllInv
<1>0. ready_queue \in Seq(Slot) /\ workers \in [Slot -> Worker \cup {NoWorker}]
  BY DEF TypeInv, TypeOK, PoolTypeOK
<1>1. UNCHANGED <<init, state, thread, workers, sup, is_shutting_down, ready_list>>
  BY DEF CallerStep, PickWorker, PickNone, PickShutdown, PickNothingReady, Block, AddRequest
<1>2. ASSUME ~is_shutting_down, NEW i \in Slot, ready_list[i], workers[i] # NoWorker,
             IsReady(workers[i]) \/ thread[workers[i]] # "dead"
      PROVE  \E p \in LivePositions : ready_queue[p] = i
  <2>1. MarkedOK(i) /\ sup.pc # "exited" BY <1>2 DEF QueuedInv
  <2>2. IsReady(workers[i]) /\ Queued(i) BY <1>2, <2>1 DEF MarkedOK
  <2> QED BY <1>2, <2>2 DEF Queued, LivePositions
<1>3. CASE PickWorker(t)
  <2>1. PICK k \in LivePositions :
          ~is_shutting_down /\ (\A j \in LivePositions : k <= j) /\ ready_queue' = Rotate(k)
    BY <1>3 DEF PickWorker
  <2>2. ASSUME NEW i \in Slot, ready_list[i], workers[i] # NoWorker,
               IsReady(workers[i]) \/ thread[workers[i]] # "dead"
        PROVE  Queued(i)'
    <3>1. PICK p \in LivePositions : ready_queue[p] = i BY <1>2, <2>1, <2>2
    <3>2. k <= p /\ k \in 1 .. Len(ready_queue) /\ p \in 1 .. Len(ready_queue)
      BY <2>1, <3>1 DEF LivePositions
    <3> QED BY <1>0, <2>1, <3>1, <3>2, RotateKeeps DEF Queued
  <2> QED BY <1>1, <2>2 DEF QueuedInv, MarkedOK, IsReady
<1>4. CASE PickNone(t)
  <2>1. ~is_shutting_down /\ LivePositions = {} BY <1>4 DEF PickNone
  <2> QED BY <1>1, <1>2, <2>1 DEF QueuedInv, MarkedOK, IsReady
<1>5. CASE UNCHANGED ready_queue
  BY <1>1, <1>5 DEF QueuedInv, MarkedOK, IsReady, Queued
<1> QED BY <1>3, <1>4, <1>5 DEF CallerStep, PickShutdown, PickNothingReady, Block, AddRequest

LEMMA QueuedWorker ==
  ASSUME AllInv, NEW w \in Worker,
         InitStep(w) \/ LoopStep(w) \/ Respond(w) \/ Fault(w) \/ Late(w)
  PROVE  QueuedInv'
<1> USE DEF workerVars, readyVars, slotVars, AllInv
<1>0. /\ ready_queue \in Seq(Slot) /\ workers \in [Slot -> Worker \cup {NoWorker}]
      /\ init \in [Worker -> {"none", "start", "idle", "ready", "done"}]
      /\ ready_list \in [Slot -> BOOLEAN]
      /\ \A i \in Slot : ready_list[i] /\ workers[i] # NoWorker => MarkedOK(i)
  BY DEF TypeInv, TypeOK, PoolTypeOK, WorkerTypeOK, QueuedInv
<1>1. UNCHANGED <<workers, sup, is_shutting_down>>
  BY DEF InitStep, LoopStep, StartThread, StartIdle, MarkReady, MarkReadyRefused, LoopIdle, TakeRequest,
         StopSignaled, BeginRequest, Respond, Fault, Late
<1>2. CASE StartThread(w) \/ StartIdle(w) \/ MarkReadyRefused(w)
  <2>1. \A i \in Slot : ready_list[i] /\ workers[i] # NoWorker => workers[i] # w
    BY <1>0, <1>2 DEF MarkedOK, StartThread, StartIdle, MarkReadyRefused
  <2>2. \A i \in Slot : ready_list[i] /\ workers[i] # NoWorker =>
          UNCHANGED <<init[workers[i]], state[workers[i]], thread[workers[i]]>>
    BY <1>0, <1>2, <2>1 DEF StartThread, StartIdle, MarkReadyRefused, TypeInv, TypeOK, WorkerTypeOK
  <2>3. UNCHANGED <<ready_queue, ready_list>> BY <1>2 DEF StartThread, StartIdle, MarkReadyRefused
  <2> QED BY <1>1, <2>2, <2>3, QueuedLeft DEF QueuedInv
<1>3. CASE MarkReady(w)
  <2> DEFINE i == SlotOf(w)
  <2>1. /\ workers[i] = w /\ i \in Slot /\ IsReady(w) /\ init[w] = "ready"
        /\ init' = [init EXCEPT ![w] = "done"] /\ ready_list' = [ready_list EXCEPT ![i] = TRUE]
        /\ ready_queue' = Append(ready_queue, i) /\ UNCHANGED <<state, thread>>
    BY <1>3, WorkerFields DEF MarkReady, PromptInv, GenInv
  <2>2. \A j \in Slot : Queued(j) \/ j = i => Queued(j)'
    BY <1>0, <2>1, AppendKeeps DEF Queued
  <2> HIDE DEF i
  <2>3. ASSUME NEW j \in Slot, ready_list'[j], workers'[j] # NoWorker PROVE MarkedOK(j)'
    <3>1. CASE j = i BY <1>0, <1>1, <2>1, <2>2, <3>1 DEF MarkedOK, IsReady
    <3>2. CASE j # i
      <4>1. MarkedOK(j) BY <1>0, <1>1, <2>1, <2>3, <3>2
      <4>2. workers[j] \in Worker /\ init'[workers[j]] = "done"
        BY <1>0, <1>1, <2>1, <2>3, <4>1 DEF MarkedOK
      <4> QED BY <1>1, <2>1, <2>2, <4>1, <4>2 DEF MarkedOK, IsReady
    <3> QED BY <3>1, <3>2
  <2> QED BY <1>1, <2>3 DEF QueuedInv
<1>4. CASE LoopIdle(w) \/ TakeRequest(w) \/ StopSignaled(w) \/ BeginRequest(w) \/ Respond(w) \/ Fault(w)
             \/ Late(w)
  <2>1. /\ UNCHANGED <<init, ready_list, ready_queue>>
        /\ \A v \in Worker : v # w => UNCHANGED <<state[v], thread[v]>>
        /\ thread[w] # "dead"
        /\ thread'[w] = "dead" \/ state'[w] \in {"Idle", "Running"} \/ UNCHANGED state[w]
        /\ thread'[w] = "dead" => state'[w] \notin {"Idle", "Running"}
    BY <1>4 DEF LoopIdle, TakeRequest, StopSignaled, BeginRequest, Respond, Fault, Late, TypeInv, TypeOK,
                WorkerTypeOK
  <2>2. ASSUME NEW j \in Slot, ready_list[j], workers[j] # NoWorker PROVE MarkedOK(j)'
    <3>1. MarkedOK(j) /\ workers[j] \in Worker BY <1>0, <2>2
    <3>2. CASE workers[j] = w BY <1>1, <2>1, <3>1, <3>2 DEF MarkedOK, IsReady, Queued
    <3>3. CASE workers[j] # w BY <1>1, <2>1, <3>1, <3>3 DEF MarkedOK, IsReady, Queued
    <3> QED BY <3>2, <3>3
  <2> QED BY <1>1, <2>1, <2>2 DEF QueuedInv
<1> QED BY <1>2, <1>3, <1>4 DEF InitStep, LoopStep

LEMMA QueuedSupervisor ==
  ASSUME AllInv, ReplaceStep \/ \E i \in Slot : Monitor(i) \/ BackoffElapses(i)
  PROVE  QueuedInv'
<1> USE DEF workerVars, readyVars, slotVars, AllInv
<1>0. /\ workers \in [Slot -> Worker \cup {NoWorker}] /\ ready_list \in [Slot -> BOOLEAN]
      /\ sup \in SupRecord /\ sup.slot \in Slot
      /\ state \in [Worker -> {"Starting", "Idle", "Running", "Stopping", "Faulted", "Exited"}]
      /\ init \in [Worker -> {"none", "start", "idle", "ready", "done"}]
      /\ \A i \in Slot : ready_list[i] /\ workers[i] # NoWorker => MarkedOK(i)
      /\ \A i \in Slot : workers[i] # NoWorker => SlotOf(workers[i]) = i
      /\ sup.pc = "exited" => is_shutting_down
  BY DEF TypeInv, TypeOK, PoolTypeOK, WorkerTypeOK, ThreadTypeOK, SupRecord, QueuedInv, HolderInv, RestInv,
         SlotRest
<1>1. CASE /\ UNCHANGED <<workers, ready_queue, ready_list, init, state, thread, is_shutting_down>>
           /\ sup.pc # "exited" /\ (sup'.pc = "exited" => is_shutting_down)
  BY <1>1, QueuedLeft
<1>2. ASSUME NEW i \in Slot, Monitor(i) \/ BackoffElapses(i) PROVE QueuedInv'
  <2>1. CASE Monitor(i)
    <3>1. sup.pc = "scan"
          /\ sup' = [sup EXCEPT !.pc = "mark", !.slot = i, !.force = Overdue(workers[i])]
      BY <2>1 DEF Monitor
    <3>2. sup'.pc = "mark" BY <1>0, <3>1 DEF SupRecord
    <3> QED BY <1>1, <2>1, <3>1, <3>2 DEF Monitor
  <2>2. CASE BackoffElapses(i)
    BY <1>0, <2>2, QueuedLeft DEF BackoffElapses
  <2> QED BY <1>2, <2>1, <2>2
<1>3. CASE MarkNotReady
  <2>1. sup.pc = "mark" /\ sup'.pc # "exited" BY <1>0, <1>3 DEF MarkNotReady, Scanning, SupRecord
  <2>2. \A i \in Slot : ready_list'[i] => ready_list[i] BY <1>0, <1>3 DEF MarkNotReady, Unmark
  <2> QED BY <1>3, <2>1, <2>2, QueuedLeft DEF MarkNotReady
<1>4. CASE Prepare
  <2>1. /\ workers' = [workers EXCEPT ![sup.slot] = NoWorker] /\ sup'.pc = "drain" /\ sup.pc = "prepare"
        /\ UNCHANGED <<ready_queue, ready_list, init, state, thread, is_shutting_down>>
    BY <1>0, <1>4 DEF Prepare, SupRecord
  <2> QED BY <1>0, <2>1 DEF QueuedInv, MarkedOK, IsReady, Queued
<1>5. CASE DrainPending \/ RecoverCurrent
  <2>1. sup.pc # "exited" /\ sup'.pc # "exited"
    <3>1. CASE DrainPending BY <1>0, <3>1 DEF DrainPending, SupRecord
    <3>2. CASE RecoverCurrent BY <1>0, <3>2 DEF RecoverCurrent, SupRecord
    <3> QED BY <1>5, <3>1, <3>2
  <2> QED BY <1>1, <1>5, <2>1 DEF DrainPending, RecoverCurrent
<1>6. CASE StopOld
  <2>1. /\ state' = [state EXCEPT ![sup.old] = "Faulted"] /\ sup.pc = "stop"
        /\ UNCHANGED <<workers, ready_queue, ready_list, init, thread, is_shutting_down>>
    BY <1>6 DEF StopOld
  <2>2. sup'.pc # "exited" BY <1>0, <1>6 DEF StopOld, AfterStop, SupRecord
  <2>3. \A i \in Slot : workers[i] # NoWorker => workers[i] # sup.old
    BY <1>0, <2>1 DEF HolderInv, RestInv, SupRest
  <2>4. \A i \in Slot : workers[i] # NoWorker => UNCHANGED state[workers[i]]
    BY <1>0, <2>1, <2>3
  <2> QED BY <2>1, <2>2, <2>4, QueuedLeft
<1>7. CASE Spawn
  <2>1. PICK i \in Slot, new \in Worker :
          /\ i = sup.slot /\ ready_list' = [ready_list EXCEPT ![i] = FALSE]
          /\ workers' = [workers EXCEPT ![i] = new] /\ init' = [init EXCEPT ![new] = "start"]
          /\ SlotOf(new) = i
    <3>1. generation[sup.slot] + 1 \in 0 .. MaxGen
      BY <1>0, <1>7, PoolAssumption DEF Spawn, TypeInv, TypeOK, PoolTypeOK
    <3>2. PICK new \in Worker : new = <<sup.slot, generation[sup.slot] + 1>>
      BY <1>0, <3>1 DEF Worker
    <3> QED BY <1>0, <1>7, <3>2 DEF Spawn, Unmark, SlotOf
  <2>2. sup'.pc = "redistribute" /\ UNCHANGED <<ready_queue, state, thread, is_shutting_down>>
        /\ sup.pc = "spawn"
    BY <1>0, <1>7 DEF Spawn, SupRecord
  <2>3. ASSUME NEW j \in Slot, ready_list'[j], workers'[j] # NoWorker PROVE MarkedOK(j)'
    <3>1. j # i BY <1>0, <2>1, <2>3
    <3>2. ready_list[j] /\ workers'[j] = workers[j] /\ workers[j] \in Worker /\ workers[j] # new
      BY <1>0, <2>1, <2>3, <3>1
    <3>3. MarkedOK(j) BY <1>0, <2>3, <3>2
    <3> QED BY <1>0, <2>1, <2>2, <3>2, <3>3 DEF MarkedOK, IsReady, Queued
  <2> QED BY <2>2, <2>3 DEF QueuedInv
<1>8. CASE DiscardPoison \/ Redistribute
  <2>1. sup.pc = "redistribute" /\ sup'.pc = "redistribute"
    BY <1>0, <1>8 DEF DiscardPoison, Redistribute, SupRecord
  <2> QED BY <1>1, <1>8, <2>1 DEF DiscardPoison, Redistribute
<1>9. CASE Replaced \/ AbandonReplacement \/ SupervisorExits
  BY <1>0, <1>1, <1>9 DEF Replaced, AbandonReplacement, SupervisorExits, Scanning
<1> QED BY <1>2, <1>3, <1>4, <1>5, <1>6, <1>7, <1>8, <1>9 DEF ReplaceStep

LEMMA QueuedMain ==
  ASSUME AllInv, (\E r \in Request : ReadLine(r)) \/ EndOfInput \/ ShutdownStep \/ UNCHANGED vars
  PROVE  QueuedInv'
<1> USE DEF workerVars, readyVars, slotVars, AllInv
<1>1. UNCHANGED <<workers, ready_queue, ready_list, init, thread, sup>>
      /\ (is_shutting_down => is_shutting_down')
  BY DEF ReadLine, EndOfInput, ShutdownStep, FlagShutdown, JoinSupervisor, SkipSlot, StopBegin, StopJoined,
         StopTimesOut, vars
<1>2. CASE UNCHANGED state BY <1>1, <1>2, QueuedLeft DEF QueuedInv
<1>3. CASE StopBegin \/ StopJoined \/ StopTimesOut
  <2>1. /\ sup.pc = "exited"
        /\ \A w \in Worker : state'[w] \in {"Idle", "Running"} => state[w] = state'[w]
    BY <1>3 DEF StopBegin, StopJoined, StopTimesOut, TypeInv, TypeOK, WorkerTypeOK, MainOK
  <2>2. \A i \in Slot : workers[i] # NoWorker => workers[i] \in Worker
    BY DEF TypeInv, TypeOK, PoolTypeOK
  <2> QED BY <1>1, <2>1, <2>2 DEF QueuedInv, MarkedOK, IsReady, Queued
<1> QED BY <1>2, <1>3 DEF ReadLine, EndOfInput, ShutdownStep, FlagShutdown, JoinSupervisor, SkipSlot, vars

\* A live slot is never popped for good: what is popped and not put back is
\* the entry of a slot that is empty or whose worker has ended.
THEOREM LiveSlotStaysQueued ==
  ASSUME PromptInit
  PROVE  Spec => []ReadySlotQueued
<1>1. Init => AllInv
  BY TypeInvInit, HolderInit, PromptInvInit, QueuedInit DEF AllInv
<1>2. AllInv /\ [Next]_vars => AllInv'
  <2> SUFFICES ASSUME AllInv, [Next]_vars PROVE QueuedInv'
    BY TypeInvNext, HolderNext, PromptInvNext DEF AllInv
  <2> QED BY QueuedCaller, QueuedWorker, QueuedSupervisor, QueuedMain DEF Next, Terminating
<1>3. AllInv => ReadySlotQueued
  BY DEF AllInv, QueuedInv, MarkedOK, Queued, ReadySlotQueued
<1> QED BY <1>1, <1>2, <1>3, PTL DEF Spec

\* A slot is filled again only by the replacement of its own worker, and a
\* replacement that found the attempts used up never fills it.
THEOREM GivenUpStaysEmpty == Spec => OfflineStaysEmpty
<1> DEFINE SpawnOK == sup.pc = "spawn" => ~sup.maxed
           A == \A i \in Slot :
                  /\ workers[i] = NoWorker
                  /\ sup.slot # i \/ sup.maxed \/ sup.pc \in {"scan", "redistribute", "exited"}
                  => workers'[i] = NoWorker
<1>1. Init => SpawnOK BY DEF Init, Scanning
<1>2. ASSUME TypeInv, SpawnOK, [Next]_vars PROVE SpawnOK'
  <2> USE DEF TypeInv, TypeOK, ThreadTypeOK, SupRecord
  <2>1. CASE StopOld BY <2>1 DEF StopOld, AfterStop
  <2>2. CASE UNCHANGED sup BY <1>2, <2>2
  <2>3. CASE (\E i \in Slot : Monitor(i)) \/ Prepare \/ DrainPending \/ RecoverCurrent
    <3>1. ASSUME NEW i \in Slot, Monitor(i) PROVE sup'.pc = "mark" BY <3>1 DEF Monitor
    <3>2. Prepare => sup'.pc = "drain" BY DEF Prepare
    <3>3. DrainPending => sup'.pc = "current" BY DEF DrainPending
    <3>4. RecoverCurrent => sup'.pc = "stop" BY DEF RecoverCurrent
    <3> QED BY <2>3, <3>1, <3>2, <3>3, <3>4
  <2>4. CASE MarkNotReady \/ Spawn \/ DiscardPoison \/ Redistribute \/ Replaced \/ AbandonReplacement
               \/ SupervisorExits
    <3>1. MarkNotReady => sup'.pc \in {"scan", "prepare"} BY DEF MarkNotReady, Scanning
    <3>2. Spawn => sup'.pc = "redistribute" BY DEF Spawn
    <3>3. DiscardPoison => sup'.pc = "redistribute" BY DEF DiscardPoison
    <3>4. Redistribute => sup'.pc = "redistribute" BY DEF Redistribute
    <3>5. Replaced \/ AbandonReplacement => sup'.pc = "scan" BY DEF Replaced, AbandonReplacement, Scanning
    <3>6. SupervisorExits => sup'.pc = "exited" BY DEF SupervisorExits
    <3> QED BY <2>4, <3>1, <3>2, <3>3, <3>4, <3>5, <3>6
  <2>5. ReplaceStep \/ (\E i \in Slot : Monitor(i)) \/ UNCHANGED sup
    BY <1>2 DEF Next, CallerStep, PickWorker, PickNone, PickShutdown, PickNothingReady, Block, AddRequest,
       InitStep, LoopStep, StartThread, StartIdle, MarkReady, MarkReadyRefused, LoopIdle, TakeRequest,
       StopSignaled, BeginRequest, Respond, Fault, Late, BackoffElapses, ReadLine, EndOfInput,
       ShutdownStep, FlagShutdown, JoinSupervisor, SkipSlot, StopBegin, StopJoined, StopTimesOut,
       Terminating, vars
  <2> QED BY <2>1, <2>2, <2>3, <2>4, <2>5 DEF ReplaceStep
<1>3. ASSUME TypeInv, SpawnOK, [Next]_vars PROVE [A]_vars
  <2>1. CASE Prepare \/ Spawn
    BY <1>3, <2>1 DEF Prepare, Spawn, TypeInv, TypeOK, PoolTypeOK, ThreadTypeOK, SupRecord
  <2>2. CASE UNCHANGED workers BY <2>2
  <2>3. Prepare \/ Spawn \/ UNCHANGED workers
    BY <1>3 DEF Next, CallerStep, PickWorker, PickNone, PickShutdown, PickNothingReady, Block, AddRequest,
       InitStep, LoopStep, StartThread, StartIdle, MarkReady, MarkReadyRefused, LoopIdle, TakeRequest,
       StopSignaled, BeginRequest, Respond, Fault, Late, Monitor, BackoffElapses, ReplaceStep, MarkNotReady,
       DrainPending, RecoverCurrent, StopOld, DiscardPoison, Redistribute, Replaced, AbandonReplacement,
       SupervisorExits, ReadLine, EndOfInput, ShutdownStep, FlagShutdown, JoinSupervisor, SkipSlot,
       StopBegin, StopJoined, StopTimesOut, Terminating, vars, slotVars
  <2> QED BY <2>1, <2>2, <2>3
<1>4. Spec => [](TypeInv /\ SpawnOK)
  <2>1. Init => TypeInv /\ SpawnOK BY <1>1, TypeInvInit
  <2>2. TypeInv /\ SpawnOK /\ [Next]_vars => (TypeInv /\ SpawnOK)' BY <1>2, TypeInvNext
  <2> QED BY <2>1, <2>2, PTL DEF Spec
<1>5. [](TypeInv /\ SpawnOK) /\ [][Next]_vars => [][A]_vars BY <1>3, PTL
<1> QED BY <1>4, <1>5 DEF Spec, OfflineStaysEmpty

-----------------------------------------------------------------------------
(* The ways a request is lost.                                             *)

\* Before the shutdown, a worker in its slot is asked to stop by its own fault
\* only; a replacement is made for an empty slot.
StopInv ==
  /\ main.pc \notin {"read", "shutdown"} => is_shutting_down
  /\ sup.pc = "exited" => is_shutting_down
  /\ sup.pc = "spawn" => workers[sup.slot] = NoWorker
  /\ \A w \in Worker : ~Born(w) => ~stop_requested[w]
  /\ \A w \in Worker : InSlot(w) /\ stop_requested[w] /\ ~is_shutting_down => thread[w] = "dead"

LEMMA StopInvInit == Init => StopInv
<1> SUFFICES ASSUME Init PROVE StopInv OBVIOUS
<1> QED BY DEF Init, StopInv, Scanning

\* A step that asks nobody to stop and changes no slot.
LEMMA StopFrame ==
  ASSUME StopInv, UNCHANGED <<workers, generation>>,
         main'.pc \in {"read", "shutdown"} => main.pc \in {"read", "shutdown"},
         is_shutting_down => is_shutting_down',
         main.pc \in {"read", "shutdown"} /\ main'.pc \notin {"read", "shutdown"} => is_shutting_down',
         sup'.pc = "exited" => sup.pc = "exited" \/ is_shutting_down',
         sup'.pc = "spawn" => UNCHANGED sup.slot /\ (sup.pc = "spawn" \/ workers[sup.slot] = NoWorker),
         \A w \in Worker : stop_requested'[w] => \/ stop_requested[w]
                                                 \/ Born(w) /\ (InSlot(w) => thread'[w] = "dead" \/ is_shutting_down'),
         \A w \in Worker : thread[w] = "dead" => thread'[w] = "dead" \/ ~stop_requested'[w]
  PROVE  StopInv'
BY DEF StopInv, InSlot, Born

LEMMA StopInvNext ==
  ASSUME TypeInv, HolderInv, StopInv, [Next]_vars
  PROVE  StopInv'
<1> USE DEF workerVars, slotVars, TypeInv, TypeOK, WorkerTypeOK, PoolTypeOK, ThreadTypeOK, SupRecord, SupOK, MainOK,
            MainRecord
<1>0. /\ \A w \in Worker : WorkerRest(w)
      /\ \A i \in Slot : SlotRest(i)
      /\ SupRest
  BY DEF HolderInv, RestInv
<1>1. CASE UNCHANGED <<stop_requested, thread, workers, generation, main, is_shutting_down, sup>>
  BY <1>1, StopFrame
<1>2. ASSUME NEW t \in Caller, CallerStep(t) PROVE StopInv'
  BY <1>1, <1>2 DEF CallerStep, PickWorker, PickNone, PickShutdown, PickNothingReady, Block, AddRequest
<1>3. ASSUME NEW w \in Worker, InitStep(w) PROVE StopInv'
  <2>1. CASE StartThread(w)
    <3>1. /\ stop_requested' = [stop_requested EXCEPT ![w] = FALSE]
          /\ thread' = [thread EXCEPT ![w] = "loop"]
          /\ UNCHANGED <<workers, generation, main, is_shutting_down, sup>>
      BY <2>1 DEF StartThread
    <3> QED BY <3>1, StopFrame
  <2>2. CASE StartIdle(w) \/ MarkReady(w) \/ MarkReadyRefused(w)
    BY <1>1, <2>2 DEF StartIdle, MarkReady, MarkReadyRefused
  <2> QED BY <1>3, <2>1, <2>2 DEF InitStep
<1>4. ASSUME NEW w \in Worker, LoopStep(w) \/ Respond(w) \/ Late(w) PROVE StopInv'
  <2>1. /\ thread[w] # "dead" /\ \A v \in Worker : v # w => thread'[v] = thread[v]
        /\ UNCHANGED <<stop_requested, workers, generation, main, is_shutting_down, sup>>
    BY <1>4 DEF LoopStep, LoopIdle, TakeRequest, StopSignaled, BeginRequest, Respond, Late
  <2> QED BY <2>1, StopFrame
<1>5. ASSUME NEW w \in Worker, Fault(w) PROVE StopInv'
  <2>1. /\ stop_requested' = [stop_requested EXCEPT ![w] = TRUE]
        /\ thread' = [thread EXCEPT ![w] = "dead"] /\ thread[w] = "process"
        /\ UNCHANGED <<workers, generation, main, is_shutting_down, sup>>
    BY <1>5 DEF Fault
  <2>2. Born(w) BY <1>0, <2>1 DEF WorkerRest
  <2> QED BY <2>1, <2>2, StopFrame
<1>6. CASE \E i \in Slot : Monitor(i) \/ BackoffElapses(i)
  <2>1. ASSUME NEW i \in Slot, Monitor(i) PROVE StopInv'
    <3>1. sup'.pc = "mark" /\ UNCHANGED <<stop_requested, thread, workers, generation, main, is_shutting_down>>
      BY <2>1 DEF Monitor
    <3> QED BY <3>1, StopFrame
  <2>2. ASSUME NEW i \in Slot, BackoffElapses(i) PROVE StopInv'
    BY <1>1, <2>2 DEF BackoffElapses
  <2> QED BY <1>6, <2>1, <2>2
<1>7. CASE MarkNotReady \/ DrainPending \/ RecoverCurrent \/ DiscardPoison \/ Redistribute \/ Replaced
             \/ AbandonReplacement \/ SupervisorExits
  <2>1. UNCHANGED <<stop_requested, thread, workers, generation, main, is_shutting_down>>
    BY <1>7 DEF MarkNotReady, DrainPending, RecoverCurrent, DiscardPoison, Redistribute, Replaced,
                AbandonReplacement, SupervisorExits
  <2>2. sup'.pc # "spawn" /\ (sup'.pc = "exited" => is_shutting_down)
    <3>1. MarkNotReady => sup'.pc \in {"scan", "prepare"} BY DEF MarkNotReady, Scanning
    <3>2. DrainPending => sup'.pc = "current" BY DEF DrainPending
    <3>3. RecoverCurrent => sup'.pc = "stop" BY DEF RecoverCurrent
    <3>4. DiscardPoison \/ Redistribute => sup'.pc = "redistribute" BY DEF DiscardPoison, Redistribute
    <3>5. Replaced \/ AbandonReplacement => sup'.pc = "scan" BY DEF Replaced, AbandonReplacement, Scanning
    <3>6. SupervisorExits => sup'.pc = "exited" /\ is_shutting_down BY DEF SupervisorExits
    <3> QED BY <1>7, <3>1, <3>2, <3>3, <3>4, <3>5, <3>6
  <2> QED BY <2>1, <2>2, StopFrame
<1>8. CASE StopOld
  <2>1. PICK o \in Worker :
          /\ o = sup.old /\ stop_requested' = [stop_requested EXCEPT ![o] = TRUE]
          /\ sup.pc = "stop" /\ sup'.slot = sup.slot /\ sup'.pc # "exited"
          /\ UNCHANGED <<thread, workers, generation, main, is_shutting_down>>
    BY <1>8 DEF StopOld, AfterStop
  <2>2. workers[sup.slot] = NoWorker /\ ~InSlot(o) /\ Born(o)
    BY <1>0, <2>1, PoolAssumption DEF SupRest, InSlot
  <2> QED BY <2>1, <2>2, StopFrame
<1>9. CASE Prepare
  <2>1. /\ workers' = [workers EXCEPT ![sup.slot] = NoWorker] /\ sup'.pc = "drain"
        /\ UNCHANGED <<stop_requested, thread, generation, main, is_shutting_down>>
    BY <1>9 DEF Prepare
  <2>2. \A w \in Worker : InSlot(w)' => InSlot(w)
    BY <2>1, WorkerFields, PoolAssumption DEF InSlot
  <2> QED BY <2>1, <2>2 DEF StopInv, Born
<1>10. CASE Spawn
  <2>1. PICK new \in Worker, i \in Slot :
          /\ i = sup.slot /\ new = <<i, generation[i] + 1>>
          /\ workers' = [workers EXCEPT ![i] = new]
          /\ generation' = [generation EXCEPT ![i] = generation[i] + 1]
          /\ sup'.pc = "redistribute"
          /\ UNCHANGED <<stop_requested, thread, main, is_shutting_down>>
    <3>1. <<sup.slot, generation[sup.slot] + 1>> \in Worker
      BY <1>10, PoolAssumption DEF Spawn, Worker
    <3> QED BY <1>10, <3>1 DEF Spawn
  <2>2. ~Born(new) BY <2>1 DEF Born, SlotOf, GenOf
  <2>3. \A w \in Worker : Born(w) => Born(w)'
    BY <2>1, WorkerFields, PoolAssumption DEF Born
  <2>4. \A w \in Worker : InSlot(w)' => InSlot(w) \/ w = new
    BY <2>1, WorkerFields DEF InSlot
  <2> QED BY <2>1, <2>2, <2>3, <2>4 DEF StopInv
<1>11. CASE ShutdownStep
  <2>1. CASE FlagShutdown
    <3>1. /\ is_shutting_down' /\ UNCHANGED <<stop_requested, thread, workers, generation, sup>>
      BY <2>1 DEF FlagShutdown
    <3> QED BY <3>1 DEF StopInv, Born, InSlot
  <2>2. CASE ~FlagShutdown
    <3>1. main.pc \in {"join", "stop", "stopping"} /\ UNCHANGED <<thread, workers, generation, is_shutting_down, sup>>
      BY <1>11, <2>2 DEF ShutdownStep, JoinSupervisor, SkipSlot, StopBegin, StopJoined, StopTimesOut
    <3>2. is_shutting_down BY <3>1 DEF StopInv
    <3>3. \A w \in Worker : stop_requested'[w] => stop_requested[w] \/ Born(w)
      <4>1. CASE StopBegin
        BY <1>0, <3>1, <4>1 DEF StopBegin, SlotRest
      <4>2. CASE UNCHANGED stop_requested BY <4>2
      <4> QED BY <1>11, <2>2, <4>1, <4>2 DEF ShutdownStep, JoinSupervisor, SkipSlot, StopJoined, StopTimesOut
    <3> QED BY <3>1, <3>2, <3>3 DEF StopInv, Born, InSlot
  <2> QED BY <2>1, <2>2
<1>12. CASE (\E r \in Request : ReadLine(r)) \/ EndOfInput \/ UNCHANGED vars
  <2>1. /\ UNCHANGED <<stop_requested, thread, workers, generation, is_shutting_down, sup>>
        /\ main' = main \/ main'.pc = "shutdown"
    BY <1>12 DEF ReadLine, EndOfInput, vars
  <2> QED BY <2>1 DEF StopInv, Born, InSlot
<1> QED BY <1>2, <1>3, <1>4, <1>5, <1>6, <1>7, <1>8, <1>9, <1>10, <1>11, <1>12 DEF Next, ReplaceStep, Terminating

\* What worker w has of request r, where somebody comes for it.
Reached(w, r) ==
  \/ taken[w].data = r
  \/ In(request_queue[w], r) /\ WillServe(w, {"drain"})
  \/ current_request[w] = r /\ WillServe(w, {"drain", "current"})

\* Nothing of what may lose r is the case.
Unharmed(r) ==
  ~is_shutting_down /\ ~NobodyReady(r) /\ ~Poisonous(r) /\ ~OnReplacedWorker(r) /\ ~OnRevivedWorker(r)

\* A request in hand is so after the step, if each of its holders keeps it or
\* passes it on.
LEMMA HandFrame ==
  ASSUME NEW r \in Request, InHand(r),
         r \in unread => r \in unread' \/ \E t \in Caller : call'[t].item.data = r,
         \A t \in Caller : call[t].item.data = r => \/ call'[t].item.data = r
                                                  \/ \E w \in Worker : Reached(w, r)',
         In(sup.recovered, r) => In(sup'.recovered, r) \/ \E t \in Caller : call'[t].item.data = r,
         \A w \in Worker : Reached(w, r) => Reached(w, r)' \/ In(sup'.recovered, r)
  PROVE  InHand(r)'
BY DEF InHand, Reached, In, QueuedOn

\* A worker whose holdings nobody touches.
LEMMA ReachedLeft ==
  ASSUME NEW r \in Request, NEW w \in Worker, Reached(w, r),
         UNCHANGED <<taken[w], request_queue[w], current_request[w]>>,
         WillServe(w, {"drain"}) => WillServe(w, {"drain"})',
         WillServe(w, {"drain", "current"}) => WillServe(w, {"drain", "current"})'
  PROVE  Reached(w, r)'
BY DEF Reached, In

\* A step that leaves the workers and the supervisor alone, and every call its item.
LEMMA HandLeft ==
  ASSUME NEW r \in Request, InHand(r),
         UNCHANGED <<unread, taken, request_queue, current_request, thread, state, workers, sup>>,
         \A t \in Caller : call[t].item.data = r => call'[t].item.data = r
  PROVE  InHand(r)'
BY DEF InHand, QueuedOn, WillServe, InSlot, UnderRecovery

LEMMA HandCaller ==
  ASSUME TypeInv, HolderInv, NEW t \in Caller, CallerStep(t), NEW r \in Request, InHand(r), Unharmed(r)
  PROVE  InHand(r)'
<1> USE DEF workerVars, slotVars, outVars, readyVars, TypeInv, TypeOK, ThreadTypeOK, WorkerTypeOK, PoolTypeOK
<1>1. CASE PickWorker(t)
  <2>1. \A u \in Caller : call'[u].item = call[u].item
    BY <1>1 DEF PickWorker, CallRecord
  <2> QED BY <1>1, <2>1, HandLeft DEF PickWorker
<1>2. CASE PickNone(t)
  <2>1. call[t].item.data # r
    BY <1>2 DEF PickNone, Unharmed, NobodyReady
  <2>2. \A u \in Caller : call[u].item.data = r => call'[u].item.data = r
    BY <1>2, <2>1 DEF PickNone
  <2> QED BY <1>2, <2>2, HandLeft DEF PickNone
<1>3. CASE PickShutdown(t)
  BY <1>3 DEF PickShutdown, Unharmed
<1>4. CASE PickNothingReady(t) \/ Block(t)
  <2>1. \A u \in Caller : call'[u].item = call[u].item
    <3>1. CASE call' = [call EXCEPT ![t].pc = "block"] BY <3>1 DEF CallRecord
    <3>2. CASE call' = [call EXCEPT ![t].pc = "waiting"] BY <3>2 DEF CallRecord
    <3> QED BY <1>4, <3>1, <3>2 DEF PickNothingReady, Block
  <2> QED BY <1>4, <2>1, HandLeft DEF PickNothingReady, Block
<1>5. CASE AddRequest(t)
  <2>1. PICK w \in Worker, it \in Item :
          /\ w = call[t].target /\ it = call[t].item
          /\ request_queue' = [request_queue EXCEPT ![w] = Append(request_queue[w], it)]
          /\ call' = [call EXCEPT ![t] = Returned]
          /\ UNCHANGED <<state, current_request, thread, taken, unread, sup, workers>>
    BY <1>5 DEF AddRequest, CallOK
  <2>2. \A v \in Worker : \A p : WillServe(v, p)' <=> WillServe(v, p)
    BY <2>1 DEF WillServe, InSlot, UnderRecovery
  <2>3. \A v \in Worker : In(request_queue[v], r) => In(request_queue'[v], r)
    BY <2>1, AppendIn
  <2>4. ASSUME it.data = r PROVE Reached(w, r)'
    <3>1. OnItsWayTo(w, r) BY <2>1, <2>4 DEF OnItsWayTo
    <3>2. WillServe(w, {"drain"})
      BY <3>1 DEF Unharmed, OnReplacedWorker, OnRevivedWorker, WillServe
    <3>3. In(request_queue'[w], r) BY <2>1, <2>4, AppendIn
    <3> QED BY <2>2, <3>2, <3>3 DEF Reached
  <2>5. \A u \in Caller : u # t => call'[u] = call[u] BY <2>1
  <2>6. \A u \in Caller : call[u].item.data = r => call'[u].item.data = r \/ Reached(w, r)'
    BY <2>1, <2>4, <2>5
  <2>7. \A v \in Worker : Reached(v, r) => Reached(v, r)'
    BY <2>1, <2>2, <2>3 DEF Reached
  <2> QED BY <2>1, <2>6, <2>7, HandFrame
<1> QED BY <1>1, <1>2, <1>3, <1>4, <1>5 DEF CallerStep

\* The steps of one worker object: the others keep what they have.
LEMMA HandWorker ==
  ASSUME TypeInv, HolderInv, StopInv, NEW w \in Worker,
         InitStep(w) \/ LoopStep(w) \/ Respond(w) \/ Fault(w) \/ Late(w),
         NEW r \in Request, InHand(r), Unharmed(r), answers'[r] = {}
  PROVE  InHand(r)'
<1> USE DEF workerVars, slotVars, outVars, readyVars, TypeInv, TypeOK, ThreadTypeOK, WorkerTypeOK
<1>0. WorkerRest(w) BY DEF HolderInv, RestInv
<1>1. /\ UNCHANGED <<unread, workers, sup>>
      /\ \A v \in Worker : v # w => UNCHANGED <<state[v], request_queue[v], current_request[v], thread[v], taken[v]>>
  BY DEF InitStep, LoopStep, StartThread, StartIdle, MarkReady, MarkReadyRefused, LoopIdle, TakeRequest,
         StopSignaled, BeginRequest, Respond, Fault, Late
<1>2. \A t \in Caller : call'[t].item = call[t].item
  <2>1. CASE call' = call BY <2>1
  <2>2. CASE MarkReady(w)
    <3>1. call' = call \/ \E t \in Waiting : call' = [call EXCEPT ![t].pc = "get"]
      BY <2>2 DEF MarkReady, NotifyOne
    <3>2. ASSUME NEW t \in Caller, call' = [call EXCEPT ![t].pc = "get"]
          PROVE  \A u \in Caller : call'[u].item = call[u].item
      BY <3>2 DEF CallRecord
    <3> QED BY <3>1, <3>2 DEF Waiting
  <2> QED BY <2>1, <2>2 DEF InitStep, LoopStep, StartThread, StartIdle, MarkReadyRefused, LoopIdle, TakeRequest,
         StopSignaled, BeginRequest, Respond, Fault, Late
<1>3. ASSUME NEW v \in Worker, v # w, Reached(v, r) PROVE Reached(v, r)'
  <2>1. \A p : WillServe(v, p)' <=> WillServe(v, p)
    BY <1>1, <1>3 DEF WillServe, InSlot, UnderRecovery
  <2> QED BY <1>1, <1>3, <2>1, ReachedLeft
<1>4. \A p : InSlot(w)' = InSlot(w) /\ UnderRecovery(w, p)' = UnderRecovery(w, p)
  BY <1>1 DEF InSlot, UnderRecovery
<1>5. ASSUME Reached(w, r) PROVE Reached(w, r)'
  <2>1. CASE StartThread(w)
    <3>1. thread'[w] = "loop" /\ UNCHANGED <<taken, request_queue, current_request>> BY <2>1 DEF StartThread
    <3> QED BY <1>5, <3>1, ReachedLeft DEF WillServe
  <2>2. CASE StartIdle(w)
    <3>1. init[w] = "idle" /\ UNCHANGED <<taken, request_queue, current_request, thread>>
      BY <2>2 DEF StartIdle
    <3>2. CASE thread[w] # "dead"
      BY <1>5, <3>1, <3>2, ReachedLeft DEF WillServe
    <3>3. CASE thread[w] = "dead"
      <4>1. InSlot(w) => ~In(request_queue[w], r) /\ current_request[w] # r
        BY <3>1, <3>3 DEF Unharmed, OnRevivedWorker, QueuedOn, In
      <4> QED BY <1>4, <1>5, <3>1, <3>3, <4>1 DEF Reached, WillServe
    <3> QED BY <3>2, <3>3
  <2>3. CASE MarkReady(w) \/ MarkReadyRefused(w) \/ Late(w)
    <3>1. UNCHANGED <<taken, request_queue, current_request, thread, state>>
      BY <2>3 DEF MarkReady, MarkReadyRefused, Late
    <3> QED BY <1>4, <1>5, <3>1, ReachedLeft DEF WillServe
  <2>4. CASE LoopIdle(w)
    <3>1. /\ thread[w] = "loop" /\ thread'[w] = "wait" /\ current_request'[w] = NoRequest
          /\ UNCHANGED <<taken, request_queue, answers>>
      BY <2>4 DEF LoopIdle
    <3>2. current_request[w] # r BY <1>0, <3>1 DEF WorkerRest
    <3> QED BY <1>5, <3>1, <3>2 DEF Reached, WillServe
  <2>5. CASE TakeRequest(w)
    <3>1. /\ thread'[w] = "took" /\ request_queue[w] # <<>> /\ Once(request_queue[w])
          /\ taken[w] = NoItem /\ taken'[w] = Head(request_queue[w])
          /\ request_queue'[w] = Tail(request_queue[w]) /\ UNCHANGED current_request
      BY <1>0, <2>5 DEF TakeRequest, WorkerRest
    <3>2. taken[w].data # r BY <3>1, PoolAssumption DEF NoItem
    <3>3. In(request_queue[w], r) => taken'[w].data = r \/ In(request_queue'[w], r)
      BY <3>1, TailIn
    <3> QED BY <1>5, <3>1, <3>2, <3>3 DEF Reached, WillServe
  <2>6. CASE StopSignaled(w)
    <3>1. thread[w] = "wait" /\ stop_requested[w] /\ UNCHANGED <<taken, request_queue, current_request>>
      BY <2>6 DEF StopSignaled
    <3>2. current_request[w] = NoRequest /\ taken[w] = NoItem /\ ~InSlot(w)
      BY <1>0, <3>1 DEF WorkerRest, StopInv, Unharmed
    <3>3. In(request_queue[w], r) /\ UnderRecovery(w, {"drain"})
      BY <1>5, <3>2, PoolAssumption DEF Reached, NoItem, Unharmed, OnReplacedWorker, QueuedOn, In
    <3> QED BY <1>4, <3>1, <3>3 DEF Reached, WillServe
  <2>7. CASE BeginRequest(w)
    <3>1. /\ thread[w] = "took" /\ thread'[w] = "process" /\ current_request'[w] = taken[w].data
          /\ current_request[w] = NoRequest /\ UNCHANGED request_queue
      BY <1>0, <2>7 DEF BeginRequest, WorkerRest
    <3> QED BY <1>5, <3>1, PoolAssumption DEF Reached, WillServe
  <2>8. CASE Respond(w)
    <3>1. thread'[w] = "loop" /\ UNCHANGED <<taken, request_queue, current_request>> BY <2>8 DEF Respond
    <3> QED BY <1>5, <3>1, ReachedLeft DEF WillServe
  <2>9. CASE Fault(w)
    <3>1. /\ thread[w] = "process" /\ thread'[w] = "dead" /\ state'[w] = "Faulted"
          /\ UNCHANGED <<taken, request_queue, current_request>>
      BY <2>9 DEF Fault
    <3>2. CASE InSlot(w)
      BY <1>4, <1>5, <3>1, <3>2, ReachedLeft DEF WillServe
    <3>3. CASE ~InSlot(w)
      <4>1. /\ In(request_queue[w], r) => UnderRecovery(w, {"drain"})
            /\ current_request[w] = r => UnderRecovery(w, {"drain", "current"})
        BY <3>1, <3>3 DEF Unharmed, OnReplacedWorker, QueuedOn, In
      <4> QED BY <1>4, <1>5, <3>1, <4>1 DEF Reached, WillServe
    <3> QED BY <3>2, <3>3
  <2> QED BY <2>1, <2>2, <2>3, <2>4, <2>5, <2>6, <2>7, <2>8, <2>9 DEF InitStep, LoopStep
<1>6. \A v \in Worker : Reached(v, r) => Reached(v, r)' BY <1>3, <1>5
<1>7. unread' = unread /\ sup' = sup BY <1>1
<1>8. In(sup.recovered, r) => In(sup'.recovered, r) BY <1>7
<1> HIDE DEF workerVars, slotVars, outVars, readyVars, TypeInv, TypeOK, ThreadTypeOK, WorkerTypeOK
<1> QED BY <1>2, <1>6, <1>7, <1>8, HandFrame

LEMMA HandSupervisor ==
  ASSUME TypeInv, HolderInv, StopInv, ReplaceStep \/ \E i \in Slot : Monitor(i) \/ BackoffElapses(i),
         NEW r \in Request, InHand(r), Unharmed(r), answers'[r] = {}
  PROVE  InHand(r)'
<1> USE DEF workerVars, slotVars, outVars, readyVars, TypeInv, TypeOK, ThreadTypeOK, WorkerTypeOK, PoolTypeOK,
            SupRecord, SupOK
<1>0. SupRest /\ CallRest BY DEF HolderInv, RestInv
<1>1. ASSUME UNCHANGED <<unread, taken, request_queue, current_request, thread, state, workers, call>>,
             In(sup.recovered, r) => In(sup'.recovered, r),
             \A p \in {{"drain"}, {"drain", "current"}}, w \in Worker : UnderRecovery(w, p) => UnderRecovery(w, p)'
      PROVE  InHand(r)'
  <2>1. \A p \in {{"drain"}, {"drain", "current"}}, w \in Worker : WillServe(w, p) => WillServe(w, p)'
    BY <1>1 DEF WillServe, InSlot
  <2>2. \A w \in Worker : Reached(w, r) => Reached(w, r)'
    BY <1>1, <2>1, ReachedLeft
  <2> QED BY <1>1, <2>2, HandFrame
<1>2. CASE \E i \in Slot : Monitor(i)
  <2>1. PICK i \in Slot : Monitor(i) BY <1>2
  <2>2. /\ sup.pc = "scan" /\ sup'.recovered = sup.recovered
        /\ UNCHANGED <<unread, taken, request_queue, current_request, thread, state, workers, call>>
    BY <2>1 DEF Monitor
  <2> QED BY <1>1, <2>2 DEF UnderRecovery
<1>3. CASE \E i \in Slot : BackoffElapses(i)
  BY <1>3, HandLeft DEF BackoffElapses
<1>4. CASE MarkNotReady \/ Replaced \/ AbandonReplacement \/ SupervisorExits
  <2>1. UNCHANGED <<unread, taken, request_queue, current_request, thread, state, workers, call>>
    BY <1>4 DEF MarkNotReady, Replaced, AbandonReplacement, SupervisorExits
  <2>2. sup.pc \notin {"drain", "current"} /\ sup.recovered = <<>>
    BY <1>0, <1>4 DEF MarkNotReady, Replaced, AbandonReplacement, SupervisorExits, SupRest, Unharmed
  <2> QED BY <1>1, <2>1, <2>2, EmptyIn DEF UnderRecovery
<1>5. CASE Prepare
  <2>1. PICK w \in Worker, i \in Slot :
          /\ i = sup.slot /\ w = workers[i] /\ sup.pc = "prepare" /\ sup'.pc = "drain" /\ sup'.old = w
          /\ sup'.recovered = sup.recovered /\ workers' = [workers EXCEPT ![i] = NoWorker]
          /\ UNCHANGED <<unread, taken, request_queue, current_request, thread, state, call>>
    BY <1>5 DEF Prepare
  <2>2. \A v \in Worker : InSlot(v) => v = w \/ InSlot(v)'
    BY <2>1, WorkerFields DEF InSlot
  <2>3. \A p \in {{"drain"}, {"drain", "current"}}, v \in Worker : WillServe(v, p) => WillServe(v, p)'
    BY <2>1, <2>2 DEF WillServe, UnderRecovery
  <2>4. \A v \in Worker : Reached(v, r) => Reached(v, r)'
    BY <2>1, <2>3, ReachedLeft
  <2> QED BY <2>1, <2>4, HandFrame
<1>6. CASE DrainPending
  <2>1. PICK o \in Worker :
          /\ o = sup.old /\ sup'.old = o /\ sup.pc = "drain" /\ sup'.pc = "current"
          /\ sup.recovered = <<>> /\ sup'.recovered = request_queue[o]
          /\ request_queue' = [request_queue EXCEPT ![o] = <<>>]
          /\ UNCHANGED <<unread, taken, current_request, thread, state, workers, call>>
    BY <1>0, <1>6 DEF DrainPending, Drained, SupRest
  <2>2. \A v \in Worker : WillServe(v, {"drain", "current"}) => WillServe(v, {"drain", "current"})'
    BY <2>1 DEF WillServe, InSlot, UnderRecovery
  <2>3. \A v \in Worker : v # o /\ WillServe(v, {"drain"}) => WillServe(v, {"drain"})'
    BY <2>1 DEF WillServe, InSlot, UnderRecovery
  <2>4. \A v \in Worker : Reached(v, r) => Reached(v, r)' \/ In(sup'.recovered, r)
    BY <2>1, <2>2, <2>3 DEF Reached
  <2>5. ~In(sup.recovered, r) BY <2>1, EmptyIn
  <2> QED BY <2>1, <2>4, <2>5, HandFrame
<1>7. CASE RecoverCurrent
  <2>1. PICK o \in Worker :
          /\ o = sup.old /\ sup.pc = "current" /\ sup'.pc = "stop"
          /\ sup.force /\ current_request[o] = r => answers'[r] # {}
          /\ In(sup'.recovered, r) <=> In(sup.recovered, r) \/ (current_request[o] = r /\ ~sup.force)
          /\ UNCHANGED <<unread, taken, request_queue, current_request, thread, state, workers, call>>
    <3>1. sup.old \in Worker /\ sup.pc = "current" /\ sup'.pc = "stop" BY <1>7 DEF RecoverCurrent
    <3>2. sup.force /\ current_request[sup.old] = r => answers'[r] # {}
      <4> SUFFICES ASSUME sup.force, current_request[sup.old] = r PROVE answers'[r] # {} OBVIOUS
      <4>1. answers' = [answers EXCEPT ![r] = answers[r] \cup {"timeout"}]
        BY <1>7, PoolAssumption DEF RecoverCurrent
      <4> QED BY <4>1
    <3>3. In(sup'.recovered, r) <=> In(sup.recovered, r) \/ (current_request[sup.old] = r /\ ~sup.force)
      BY <1>0, <1>7, RecoveredOnce DEF RecoverCurrent
    <3> QED BY <1>7, <3>1, <3>2, <3>3 DEF RecoverCurrent
  <2>2. \A v \in Worker : WillServe(v, {"drain"}) => WillServe(v, {"drain"})'
    BY <2>1 DEF WillServe, InSlot, UnderRecovery
  <2>3. \A v \in Worker : v # o /\ WillServe(v, {"drain", "current"}) => WillServe(v, {"drain", "current"})'
    BY <2>1 DEF WillServe, InSlot, UnderRecovery
  <2>4. \A v \in Worker : Reached(v, r) => Reached(v, r)' \/ In(sup'.recovered, r)
    BY <2>1, <2>2, <2>3 DEF Reached
  <2> QED BY <2>1, <2>4, HandFrame
<1>8. CASE StopOld
  <2>1. /\ sup.pc = "stop" /\ sup'.recovered = sup.recovered
        /\ \A v \in Worker : state'[v] \in {state[v], "Faulted"}
        /\ UNCHANGED <<unread, taken, request_queue, current_request, thread, workers, call>>
    BY <1>8 DEF StopOld
  <2>2. \A p \in {{"drain"}, {"drain", "current"}}, v \in Worker : WillServe(v, p) => WillServe(v, p)'
    BY <2>1 DEF WillServe, InSlot, UnderRecovery
  <2>3. \A v \in Worker : Reached(v, r) => Reached(v, r)'
    BY <2>1, <2>2, ReachedLeft
  <2> QED BY <2>1, <2>3, HandFrame
<1>9. CASE Spawn
  <2>1. /\ sup.pc = "spawn" /\ sup'.recovered = sup.recovered
        /\ \A i \in Slot : workers[i] # NoWorker => workers'[i] = workers[i]
        /\ UNCHANGED <<unread, taken, request_queue, current_request, thread, state, call>>
    BY <1>9 DEF Spawn, StopInv
  <2>2. \A v \in Worker : InSlot(v) => InSlot(v)'
    BY <2>1, WorkerFields, PoolAssumption DEF InSlot
  <2>3. \A p \in {{"drain"}, {"drain", "current"}}, v \in Worker : WillServe(v, p) => WillServe(v, p)'
    BY <2>1, <2>2 DEF WillServe, UnderRecovery
  <2>4. \A v \in Worker : Reached(v, r) => Reached(v, r)'
    BY <2>1, <2>3, ReachedLeft
  <2> QED BY <2>1, <2>4, HandFrame
<1>10. CASE DiscardPoison
  <2>1. /\ sup.recovered # <<>> /\ Once(sup.recovered) /\ Head(sup.recovered) \in Item
        /\ ~MayRetry(Head(sup.recovered)) /\ sup'.recovered = Tail(sup.recovered) /\ sup.pc = "redistribute"
        /\ UNCHANGED <<unread, taken, request_queue, current_request, thread, state, workers, call>>
    BY <1>0, <1>10, TailIn DEF DiscardPoison, SupRest
  <2>2. Head(sup.recovered).retry_count = kMaxRequestRetries
    BY <2>1, PoolAssumption DEF MayRetry, Item
  <2>3. Head(sup.recovered).data # r BY <2>1, <2>2 DEF Unharmed, Poisonous
  <2>4. In(sup.recovered, r) => In(sup'.recovered, r) BY <2>1, <2>3, TailIn
  <2> QED BY <1>1, <2>1, <2>4 DEF UnderRecovery
<1>11. CASE Redistribute
  <2>1. /\ sup.recovered # <<>> /\ Once(sup.recovered) /\ Head(sup.recovered) \in Item
        /\ sup'.recovered = Tail(sup.recovered) /\ sup.pc = "redistribute"
        /\ call["supervisor"].item = NoItem
        /\ call' = [call EXCEPT !["supervisor"] =
                      [pc |-> "get", item |-> [Head(sup.recovered) EXCEPT !.retry_count = @ + 1],
                       target |-> NoWorker]]
        /\ UNCHANGED <<unread, taken, request_queue, current_request, thread, state, workers>>
    BY <1>0, <1>11, TailIn DEF Redistribute, SupRest, CallRest, Caller
  <2>2. call'["supervisor"].item.data = Head(sup.recovered).data
    BY <2>1 DEF Item, Caller
  <2>3. In(sup.recovered, r) => In(sup'.recovered, r) \/ \E t \in Caller : call'[t].item.data = r
    BY <2>1, <2>2, TailIn DEF Caller
  <2>4. \A t \in Caller : call[t].item.data = r => call'[t].item.data = r
    BY <2>1, PoolAssumption DEF NoItem
  <2>5. \A p \in {{"drain"}, {"drain", "current"}}, v \in Worker : WillServe(v, p) => WillServe(v, p)'
    BY <2>1 DEF WillServe, InSlot, UnderRecovery
  <2>6. \A v \in Worker : Reached(v, r) => Reached(v, r)'
    BY <2>1, <2>5, ReachedLeft
  <2> QED BY <2>1, <2>3, <2>4, <2>6, HandFrame
<1> QED BY <1>2, <1>3, <1>4, <1>5, <1>6, <1>7, <1>8, <1>9, <1>10, <1>11 DEF ReplaceStep

LEMMA HandMain ==
  ASSUME TypeInv, HolderInv, StopInv, (\E q \in Request : ReadLine(q)) \/ EndOfInput \/ ShutdownStep,
         NEW r \in Request, InHand(r), Unharmed(r)
  PROVE  InHand(r)'
<1> USE DEF workerVars, slotVars, outVars, readyVars, TypeInv, TypeOK, ThreadTypeOK, WorkerTypeOK
<1>1. ASSUME NEW q \in Request, ReadLine(q) PROVE InHand(r)'
  <2>1. /\ unread' = unread \ {q} /\ call["reader"].item = NoItem
        /\ call' = [call EXCEPT !["reader"] = [pc |-> "get", item |-> [data |-> q, retry_count |-> 0],
                                               target |-> NoWorker]]
        /\ UNCHANGED <<taken, request_queue, current_request, thread, state, workers, sup>>
    BY <1>1 DEF ReadLine, HolderInv, RestInv, CallRest, Caller
  <2>2. r \in unread => r \in unread' \/ \E t \in Caller : call'[t].item.data = r
    BY <2>1 DEF Caller
  <2>3. \A t \in Caller : call[t].item.data = r => call'[t].item.data = r
    BY <2>1, PoolAssumption DEF NoItem
  <2>4. \A w \in Worker : Reached(w, r) => Reached(w, r)'
    BY <2>1 DEF Reached, In, WillServe, InSlot, UnderRecovery
  <2> QED BY <2>1, <2>2, <2>3, <2>4, HandFrame
<1>2. CASE EndOfInput
  BY <1>2, HandLeft DEF EndOfInput
<1>3. CASE FlagShutdown
  <2>1. \A t \in Caller : call'[t].item = call[t].item
    BY <1>3 DEF FlagShutdown, WakeAll, CallRecord
  <2> QED BY <1>3, <2>1, HandLeft DEF FlagShutdown
<1>4. CASE ShutdownStep /\ ~FlagShutdown
  <2>1. main.pc \in {"join", "stop", "stopping"}
    BY <1>4 DEF ShutdownStep, JoinSupervisor, SkipSlot, StopBegin, StopJoined, StopTimesOut
  <2> QED BY <2>1 DEF StopInv, Unharmed
<1> QED BY <1>1, <1>2, <1>3, <1>4

\* Whatever the threads do, a request that is not answered stays with somebody
\* who comes for it, unless one of the named things happens to it.
THEOREM NamedLossesOnly == Spec => LossesNamed
<1> DEFINE I == TypeInv /\ HolderInv /\ StopInv
           A == \A r \in Request :
                  InHand(r) /\ ~InHand(r)' /\ answers'[r] = {}
                  => is_shutting_down \/ NobodyReady(r) \/ Poisonous(r)
                       \/ OnReplacedWorker(r) \/ OnRevivedWorker(r)
<1>1. Init => I BY TypeInvInit, HolderInit, StopInvInit
<1>2. I /\ [Next]_vars => I' BY TypeInvNext, HolderNext, StopInvNext
<1>3. ASSUME I, [Next]_vars PROVE [A]_vars
  <2> SUFFICES ASSUME NEW r \in Request, InHand(r), Unharmed(r), answers'[r] = {}, vars' # vars
               PROVE  InHand(r)'
    BY DEF Unharmed
  <2>1. Next /\ ~Terminating BY <1>3 DEF Terminating
  <2> QED BY <1>3, <2>1, HandCaller, HandWorker, HandSupervisor, HandMain DEF Next
<1>4. Spec => []I BY <1>1, <1>2, PTL DEF Spec
<1>5. []I /\ [][Next]_vars => [][A]_vars BY <1>3, PTL
<1> QED BY <1>4, <1>5 DEF Spec, LossesNamed

\* Where initialize_worker is prompt, a worker that ended in its slot is Faulted
\* for good until the shutdown, so the last of these ways is closed.
THEOREM PromptLosesNoneToRevived ==
  ASSUME PromptInit
  PROVE  Spec => [](is_shutting_down \/ \A r \in Request : ~OnRevivedWorker(r))
<1> DEFINE EndedOK == is_shutting_down \/ \A w \in Worker : InSlot(w) /\ thread[w] = "dead" => state[w] = "Faulted"
           I == TypeInv /\ HolderInv /\ PromptInv /\ StopInv /\ EndedOK
<1>1. Init => I
  BY TypeInvInit, HolderInit, PromptInvInit, StopInvInit DEF Init
<1>2. I /\ [Next]_vars => I'
  <2> SUFFICES ASSUME I, [Next]_vars PROVE EndedOK'
    BY TypeInvNext, HolderNext, PromptInvNext, StopInvNext
  <2> USE DEF workerVars, slotVars, TypeInv, TypeOK, WorkerTypeOK, PoolTypeOK, ThreadTypeOK, SupRecord, SupOK
  <2>0. \A w \in Worker : WorkerRest(w) BY DEF HolderInv, RestInv
  <2>1. CASE UNCHANGED <<state, thread, workers, is_shutting_down>>
    BY <2>1 DEF InSlot
  <2>2. ASSUME NEW t \in Caller, CallerStep(t) PROVE EndedOK'
    BY <2>1, <2>2 DEF CallerStep, PickWorker, PickNone, PickShutdown, PickNothingReady, Block, AddRequest
  <2>3. ASSUME NEW w \in Worker, InitStep(w) \/ LoopStep(w) \/ Respond(w) \/ Fault(w) \/ Late(w)
        PROVE  EndedOK'
    <3>1. /\ UNCHANGED <<workers, is_shutting_down>>
          /\ \A v \in Worker : v # w => UNCHANGED <<state[v], thread[v]>>
      BY <2>3 DEF InitStep, LoopStep, StartThread, StartIdle, MarkReady, MarkReadyRefused, LoopIdle, TakeRequest,
                 StopSignaled, BeginRequest, Respond, Fault, Late
    <3>2. ASSUME ~is_shutting_down, InSlot(w), thread'[w] = "dead" PROVE state'[w] = "Faulted"
      <4>1. CASE StopSignaled(w)
        BY <3>2, <4>1 DEF StopSignaled, StopInv
      <4>2. CASE StartIdle(w)
        <5>1. init[w] = "idle" /\ thread[w] = "dead" BY <3>2, <4>2 DEF StartIdle
        <5>2. sup.pc = "exited" BY <5>1 DEF PromptInv, DoneInv
        <5> QED BY <3>2, <5>2 DEF StopInv
      <4>3. CASE Fault(w) BY <4>3 DEF Fault
      <4>4. CASE MarkReady(w) \/ MarkReadyRefused(w)
        BY <3>2, <4>4 DEF MarkReady, MarkReadyRefused
      <4>5. CASE StartThread(w) \/ LoopIdle(w) \/ TakeRequest(w) \/ BeginRequest(w) \/ Respond(w) \/ Late(w)
        BY <3>2, <4>5 DEF StartThread, LoopIdle, TakeRequest, BeginRequest, Respond, Late
      <4> QED BY <2>3, <4>1, <4>2, <4>3, <4>4, <4>5 DEF InitStep, LoopStep
    <3> QED BY <3>1, <3>2 DEF InSlot
  <2>4. CASE (\E i \in Slot : Monitor(i) \/ BackoffElapses(i)) \/ (ReplaceStep /\ ~Prepare /\ ~StopOld /\ ~Spawn)
    BY <2>1, <2>4 DEF Monitor, BackoffElapses, ReplaceStep, MarkNotReady, DrainPending, RecoverCurrent, DiscardPoison,
                Redistribute, Replaced, AbandonReplacement, SupervisorExits
  <2>5. CASE Prepare
    <3>1. workers' = [workers EXCEPT ![sup.slot] = NoWorker] /\ UNCHANGED <<state, thread, is_shutting_down>>
      BY <2>5 DEF Prepare
    <3> QED BY <3>1, WorkerFields, PoolAssumption DEF InSlot
  <2>6. CASE StopOld
    BY <2>6 DEF StopOld, InSlot
  <2>7. CASE Spawn
    <3>1. PICK new \in Worker, i \in Slot :
            /\ i = sup.slot /\ new = <<i, generation[i] + 1>>
            /\ workers' = [workers EXCEPT ![i] = new]
            /\ UNCHANGED <<state, thread, is_shutting_down>>
      <4>1. <<sup.slot, generation[sup.slot] + 1>> \in Worker
        BY <2>7, PoolAssumption DEF Spawn, Worker
      <4> QED BY <2>7, <4>1 DEF Spawn
    <3>2. ~Born(new) BY <3>1 DEF Born, SlotOf, GenOf
    <3>3. thread[new] = "none" BY <2>0, <3>2 DEF WorkerRest
    <3>4. \A w \in Worker : InSlot(w)' => InSlot(w) \/ w = new
      BY <3>1, WorkerFields DEF InSlot
    <3> QED BY <3>1, <3>3, <3>4
  <2>8. CASE (\E r \in Request : ReadLine(r)) \/ EndOfInput \/ UNCHANGED vars
    BY <2>1, <2>8 DEF ReadLine, EndOfInput, vars
  <2>9. CASE ShutdownStep
    <3>1. is_shutting_down'
      BY <2>9 DEF StopInv, ShutdownStep, FlagShutdown, JoinSupervisor, SkipSlot, StopBegin, StopJoined, StopTimesOut
    <3> QED BY <3>1
  <2> QED BY <2>2, <2>3, <2>4, <2>5, <2>6, <2>7, <2>8, <2>9 DEF Next, Terminating, ReplaceStep
<1>3. I => is_shutting_down \/ \A r \in Request : ~OnRevivedWorker(r)
  <2> SUFFICES ASSUME I, ~is_shutting_down, NEW r \in Request, OnRevivedWorker(r) PROVE FALSE OBVIOUS
  <2>1. PICK w \in Worker : thread[w] = "dead" /\ init[w] = "idle"
    BY DEF OnRevivedWorker
  <2>2. sup.pc = "exited" BY <2>1 DEF PromptInv, DoneInv
  <2> QED BY <2>2 DEF StopInv
<1> QED BY <1>1, <1>2, <1>3, PTL DEF Spec
=============================================================================
