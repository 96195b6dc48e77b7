# Verification of the Zowe native protocol

The repository holds a JSON-RPC server that runs on z/OS (`src/native/c`, C++),
the SDK that starts and talks to it over SSH (`src/packages/sdk`, TypeScript),
a VS Code extension (`src/packages/vsce`) and a CLI plug-in built on the SDK.
This directory has TLA+ models of the parts that are concurrent or fail
independently, TLC instances of them, and proofs for TLAPS.

Paths below are relative to `src/`.

## 1. The system

```
 VS Code API calls ──> SshClientCache ──> ZSshClient ══ SSH channel ══> ZServer (reader)
                       (one client per    RpcStreamManager               │ lines
                        profile)             │ `cat` over SSH            v
                                             │                       WorkerPool ── supervisor
                                             │                           │ one request per worker
                                             v                           v
                                       FIFO in /tmp  <──────────── RpcServer, dispatcher, command
                                                                         │
                                                                  USS files, data sets, jobs, ...
```

| component | state it keeps | operations | interacts through | what is hard |
|---|---|---|---|---|
| `Worker`, `WorkerPool` (`native/c/server/worker.cpp`) | per worker: state, stop flag, queue, current request, heartbeat; pool: slots, `ready_list`, `ready_count`, `ready_queue`, replacement attempts and backoff, shutdown flag | distribute, worker loop, start, supervise, replace, recover, re-route, stop, shutdown | `ready_mutex`/`ready_condition`, a mutex per queue, atomics, raw pointers to replaced workers, detached threads | interleavings, lost wake-ups, faults and hangs in the middle of a request, shutdown at any moment |
| `ZServer` (`native/c/commands/server.cpp`) | the pool, shutdown `once_flag` | read lines, end of input, signals | calls the pool | signal handlers that lock and join |
| `RpcServer`, `CommandDispatcher`, `CommandBuilder` (`native/c/server`) | per request: argument map, error text, deferred notification; shared: `response_mutex`, stdout and stderr | parse, validate, input transforms, handler, output transforms, answer, notify | FIFO in the file system, lines on stdout and stderr | threads that write to one stream, failures between making and removing a FIFO |
| view and write commands (`commands/uss.cpp`, `commands/ds.cpp`, `zusf.cpp`, `zds.cpp`) | etag of the last look at a file | read, check the etag, write, answer the new etag | the file system, FIFOs | check and write are apart; other workers and users write too |
| `ZSshClient`, `RpcStreamManager` (`packages/sdk/src`) | map of pending requests, partial lines, pending streams, timers | request, timeout, lines, notifications, streams, collect, dispose, replay | lines both ways, remote `cat` processes, promises | chunks that cut lines, late answers, streams that fail, replay on another client |
| `SshClientCache` (`packages/vsce/src`) | session and mutex per profile | connect, end, reload, errors and prompts | callbacks of the clients | awaits inside connect, close events of old clients |
| replacing a member (`zds.cpp`, `zdsm.c`, `zam.c`) | per thread: ENQ, RESERVE, DCB, block buffer, return code, DD; shared: the directory | open, add records, flush, statistics, STOW, close | ENQ and RESERVE, the data set | twenty services that can fail, each with its own way out |
| commands with fixed DD names (`commands/tool.cpp`, `commands/ds.cpp`, `zut.cpp`) | the DD names of the address space | allocate a list of DDs, write control statements, run a program, read, free | names shared by all threads, or by the commands of a session | refused names, names freed by name, names left behind |
| data set catalog and copy (`zds.cpp`, `commands/ds.cpp`) | catalog, directories, texts; a copy: what it has found and still has to do | copy, create, delete, rename | z/OS; a copy is a process beside the server | many looks and calls in one copy, nothing held in between |
| lexer, parser, other commands, job/console/TSO backends, Metal C services, JSON, Base64, logging, plugins, SDK set-up, CLI, VS Code adapters, bindings, REST service | local to a call, or z/OS's own | | | sequential, or meaningful only against z/OS |

`PROJECT.json` lists every component with its status and, under `hazards`, what
is hard to test in each at the line where it bites.

What makes the components correct:

* Pool: a request is in one place at a time, is answered or known to be lost,
  and is never run again once it was answered; the count that every wait depends
  on never falls below the workers marked ready; a failed worker is replaced
  within its limit; the shutdown ends.
* Request and stream: an answered stream is complete, and nothing stays behind
  in `/tmp`; lines of different threads do not mix; a worker comes back.
* Etags: a save does not overwrite a text its editor has not seen.
* Members: one thread at a time writes a data set, under both its locks, gives
  back what it took on every path, and reports success for whole texts only.
* DD names: no command works through, reads or frees the DD of another.
* Copies: what was there stays unless a replacement was asked for; success means
  that everything is there.
* Client: every promise settles; a response belongs to one request; a collected
  request is settled by its replay and nobody else.
* Cache: connect returns unless the server keeps it waiting, hands out no client
  it disposed of, and loses no call, except as section 6 says.

## 2. Modules

| module | models | composed with |
|---|---|---|
| `WorkerPool` | worker, pool, reader, supervisor, shutdown | implements `RequestLedger` |
| `RequestLedger` | abstract: what the pool promises of a request | |
| `RpcStreams` | a request from parsing to answer, its FIFO, stdout, and the stream at the client | stands for one worker's `process_request` in `WorkerPool`, and for the server in `SshClient` |
| `FileEtags` | commands that read and save one USS file or data set | stands for the copy steps of `RpcStreams` |
| `MemberWriter` | threads that replace members of a partitioned data set | stands for `StoreDs` of `FileEtags` when the target is a member |
| `UtilityDds` | commands that use DDs with fixed names | |
| `DataSets` | copies of data sets and members, and the commands that create, delete and rename | what `MemberWriter` stores is one text there |
| `SshClient` | calls, promises, timers, chunks, streams, replay | |
| `SshClientCache` | sessions, mutex, connect, reload, close | a client there is an `SshClient` reduced to its connection and pending calls |
| `WorkerPool_proofs`, `RpcStreams_proofs`, `FileEtags_proofs`, `MemberWriter_proofs`, `UtilityDds_proofs`, `DataSets_proofs`, `SshClient_proofs`, `SshClientCache_proofs` | theorems | |
| `MC...` | what TLC needs beyond a module | |

### WorkerPool

A worker object is a pair of slot and generation, because the old object of a
slot lives on in a detached thread or a raw pointer after it was replaced.
An action is one critical section or one access to an atomic.

| code | actions |
|---|---|
| `distribute_request_internal`, `get_ready_worker` | `PickWorker`, `PickNone`, `PickShutdown`, `PickNothingReady`, `Block`, `AddRequest` |
| `initialize_worker`: `Worker::start`, `set_worker_ready` | `StartThread`, `StartIdle`, `MarkReady`, `MarkReadyRefused` |
| `worker_loop` | `LoopIdle`, `TakeRequest`, `StopSignaled`, `BeginRequest`, `Respond`, `Fault` |
| `monitor_workers`, `monitor_worker_at` | `Monitor`, `BackoffElapses`, `SupervisorExits`; time is `Late` |
| `replace_worker` and what it calls | `MarkNotReady`, `Prepare`, `DrainPending`, `RecoverCurrent`, `StopOld`, `Spawn`, `Redistribute`, `DiscardPoison`, `Replaced`, `AbandonReplacement` |
| `ZServer::run`, `WorkerPool::shutdown`, `Worker::stop` | `ReadLine`, `EndOfInput`, `FlagShutdown`, `JoinSupervisor`, `SkipSlot`, `StopBegin`, `StopJoined`, `StopTimesOut` |

The condition variable is a set of waiting callers; a caller that has found the
predicate false and has not blocked yet still holds `ready_mutex`, and
`FlagShutdown` does not take that mutex, as in the code. Spurious wake-ups are
left out: they could only help a sleeper. The constant `PromptInit` adds a
timing assumption (a worker takes no request before its `initialize_worker` has
ended); each property says whether it needs it.

### RpcStreams

`Begin` is the part of `process_request` up to the handler, with its outcomes
(refused, no stream, FIFO made, FIFO not made). Handlers without a FIFO are one
step (`Run`). With a FIFO they report their size (`ReportSize`), open it, which
waits for the other end (`OpenPipe`), and copy; a copy to a FIFO whose `cat` has
gone goes on to its end, since nobody looks at `fwrite`, unless SIGPIPE ends the
process, which is a behaviour that stops there. `Fail` and `Throw` may come at
any point of a handler. `Clean` is the output transform and the decision between
`Respond` and `Refuse`. A text and its newline are two steps, because the code
inserts them separately; `response_mutex` spans them for responses and not for
notifications. The client is external: `OnLine`, `OpenCat`, `Send`,
`UploadEnds`, `DownloadEnds` and `Conclude` are what it and the remote `cat` do,
and `GiveUp` is its timeout or the pool's.

### FileEtags

The target is a USS file, changed piece by piece, or a data set, replaced as a
whole. A request stats or reads first (`StatUss`, `ReadDs`), reads pieces
(`ReadUss`), checks the etag (`Check`), opens and truncates (`OpenUss`), writes
at its own offset (`WriteUss`) or replaces (`StoreDs`), and looks again for the
etag it answers (`EndWriteUss`, `EtagDs`). `disturbed` is a history variable.
The file exists throughout; encodings are left out; the checksum is taken to
tell texts apart.

### MemberWriter

A thread of the server that runs `zds_write_member_bpam` or its streamed form.
One action is one service the code calls, with its failure beside it.

| code | actions |
|---|---|
| `zds_write`, `zds_open_output_bpam` | `Refuse`, `Begin`, `Allocate`, `AllocateFails` |
| `open_output_bpam` (`zam.c`) | `ReadJfcb`, `Enq`, `Reserve`, `Open`, `Validate`, `OpenStepFails` |
| encoding, FIFO, `write_output_bpam` and its record formats | `Setup`, `FifoOpens`, `TextFails`, `AddRecord`, `WriteBlock`, `WriteFails`, `EndOfText` |
| `close_output_bpam`, `finalize_dcb` | `Flush`, `FlushFails`, `Finalize`, `FinalizeFails`, `CloseFails`, `NothingToFinalize`, `DeqReserve`, `DeqReserveFails`, `Deq`, `DeqFails`, `DeqUnopened` |
| `zds_close_output_bpam`, end of `zds_write` | `Free`, `FreeAfterFailure`, `Reread` |

ENQ and RESERVE are conditional in the code: a resource in use is a failed step,
nobody waits. A DEQ that fails leaves the resource to a holder named `Lost`, and
all that come later are refused it. A text is a number of lines, and the buffer a number of records;
three record formats differ in when a block goes out. After an abend in a write
the system may have closed the DCB (`gone`).

### UtilityDds

A thread runs a command of a table: the names it allocates in order, whether its
control statements are checked, where its output is. `Allocate` is one turn of
`zut_loop_dynalloc`, `Free` and `FreeGoesOn` one of `zut_free_dynalloc_dds`;
`Control`, `Use` and `Read` and their failures are what lies between; control
statements are short enough to leave the buffer only with the close, whose
failure (`ControlLost`) no command sees. `holder`
says who owns a name: a thread, nobody, or a command that has returned and left
it behind. A server runs the commands registered with it on its threads; an
interactive session runs all of them one after the other. Data set names are
left out, and so is `restore`, which has no DD name of its own. A write to a
volume goes to the cataloged data set through another path; its DD is only held.

### DataSets

A copy is a process: `zds_copy_dsn` from a shell. One action is one call that
looks at or changes the catalog or a directory.

| code | actions |
|---|---|
| `zds_get_type_info` of both names, the refusals, `zds_dataset_exists` | `Begin`, `LookSource`, `LookTarget`, `LookBase` |
| creating the target, `zds_create_dsn` | `CreateTarget` |
| is the target there | `Check` |
| `delete_all_members` | `ListTarget`, `DeleteOne` |
| `copy_pds_to_pds` | `ListSource`, `NextMember`, `AllCopied` |
| `copy_sequential` | `Open`, `CopyText` |
| the commands of the server | `CreateDataSet`, `CreateMember`, `DeleteDataSet`, `DeleteMember`, `RenameDataSet`, `RenameMember` |

A text is named by the place where it was at first, so that a property can say
which text is where. A listing is any beginning of the directory, since
`zds_list_members` stops at its maximum and `get_member_names` ignores its
return code. Three history variables say what was there when a copy began, what
others have changed since, and what its listings left out. A command of the
server is one service call, atomic in z/OS; a data set that a copy has open
cannot be deleted or renamed. Organizations other than sequential and
partitioned are left out. A create that names a member is `CreateDataSet`
and `CreateMember`.

### SshClient

One action is one JavaScript callback. A line is a record and a chunk is a whole
line, its head or its tail; a request of client c for call r is `<<c, r>>`, so a
replay is the request of the next client. The server is external: a request that
it could not make a FIFO for gets no notification and a result with success
false (`Answer`, "warned"). `Settle` is `rpc.resolve` or
`rpc.reject`, which after `linkStreamToPromise` waits for the stream.
`CollectAllRequests`, `Dispose` and `CreateNext` may come at any moment, in the
order `SshClientCache` uses them and in others.

### SshClientCache

One action is the code between two awaits of `connect`, `reloadClient` or a
callback; a task is one call of `connect`. `client` distinguishes a client that
is starting, live, disposed by the cache, closed by the connection, and an
orphan, whose `create` was rejected and whose connection stays. A connection may
close while its client is starting; `create` does not hear of it and stays
pending. A `connect` that throws forgets its locals, the collected calls among
them; `dropped` is a history variable of these.

## 3. Runs

All runs of the safety and liveness properties are exhaustive.

| run | instance | question |
|---|---|---|
| `pool_races` | 2 workers, 2 requests, one slot may fail once; no timing assumption | never undercounted, one holder, implements the ledger |
| `pool_prompt` | 2 workers, 2 requests, one slot may fail twice; `PromptInit` | count exact, ready slots stay queued |
| `pool_failures` | 1 worker, 2 requests, limits 0 and 2, two failures; fairness | given-up slots stay empty, requests are lost in the named ways only, failed ones are replaced, lines are answered, shutdown ends |
| `rpc_streams` | 2 requests of any kind, 2 pieces; fairness | the ends of a stream fit, complete, nothing left, responses apart, thread ends |
| `file_etags` | 3 requests of any kind, 2 pieces, 2 seconds | saves over known texts only, own save accepted |
| `members` | 2 threads, 2 members, texts of up to 2 lines, 2 records a block, any record format, one DEQ that fails | locks, one open data set, changes under locks, whole texts |
| `utility_dds` | 3 threads, or a session, any command | own names only, what is left behind, what success means |
| `data_sets` | 1 copy, 2 data sets of up to 2 members in any state, any options, 2 commands of the server | catalog consistent, what was there is kept, success means copied |
| `client_calls` | a plain and a streamed call, 2 clients; fairness | somebody settles each pending call, no half lines, transfers before resolves (unless the server warned), silenced calls left alone, every call settles |
| `cache_reloads` | 3 tasks, 1 call, 3 clients, 1 prompt; fairness | connect returns, locks fit the builders, no disposed client, calls lost only by a throw, restarts end |
| `pool_poison`, `pool_lost` | smallest instances that show it | the divergences of section 6 |

Why the bounds suffice. Two workers and two requests are the least in which a
request can be re-routed from a failed worker to another that is busy, and in
which reader and supervisor can want a worker at once; one generation more than
the first gives every stale pointer and stale queue entry a live successor, and
two give an entry of a replaced worker among those of two others. One worker
with two failures covers the limits (0 attempts, and the limit reached). Two
requests in `RpcStreams` are all that a mutex of pairs of lines can confuse, and
two pieces are the least with an incomplete non-empty stream. In `FileEtags`
three requests are a reader, the save on top of it and somebody else; two
seconds are a modification within and after the second of a look. Two
threads in `members` are one that holds something and one that is refused it,
and the proofs are for any number; one failed DEQ (`MaxLost`) shows either
resource held for good; two lines are the least with a full block, a
rest in the buffer and a record passed over. Three threads in `utility_dds` are
one that holds, one that is refused and one that comes after. In `data_sets` two
members are the least with one copied and one to come, and two commands can
delete a thing and make another in its place. Two clients
are a client and its successor. Three tasks are two concurrent connects and a
reload.

`CHECK_DEADLOCK FALSE` is set where the system may stop: the input may end, a
user may stop calling, a worker may hang for ever, a copy is over. `members` and
`utility_dds` check deadlock: a thread there always returns and takes another
request. The bounds `MaxGen`, `MaxClient`, `MaxClock`, `MaxPrompt`, `MaxChanges`, `MaxLost` stop the models too.
That something must go on is stated by the liveness properties instead.

Every property of a passing run has a mutant in `PROJECT.json`: a plausible bug
at the mapped lines that makes TLC report that property.

### Fairness

* `WorkerPool`: a thread that can run does (`WF` per caller, per object and its
  `initialize_worker`, supervisor and shutdown); a request that is not late yet
  ends, faults or becomes late. A hung request need not end, a line need not
  come, a worker need not fail.
* `RpcStreams`: threads and client callbacks run, and a `cat` that is there reads. `Fail`, `Throw`, `GiveUp` and
  new calls are never forced; nor is a client forced to open a FIFO whose
  notification it did not see.
* `SshClient`: timers fire, callbacks and microtasks run, and a pipeline ends once
  the result has come, because the server has closed its end of the FIFO by
  then. Before that a pipeline may hang. A creation need not end: only the SSH
  handshake has a timeout. The server may never answer.
* `SshClientCache`: microtasks run, the profile is read or not, and calls end by
  their timers. The creation of a client and the deployment need not end, and
  nobody has to connect, close or answer a prompt.
* `MemberWriter`, `UtilityDds` and `DataSets` state no fairness: nothing in them
  waits, and every service call may fail.
* `FileEtags` has no liveness: its requests are finite, and `RpcStreams` has the
  waiting.

`ShutdownEnds` excludes a pool that is offline as a whole, where the supervisor
waits for a worker that will not come and may have missed the one notification;
`FailedReplaced` excludes the time in which the supervisor itself waits.
`EveryConnectReturns` excludes a task that waits for the server, and one that
waits for the lock of such a task; `ThreadEnds` a worker whose FIFO the client
never opens. All of these are what the code does, and `PROJECT.json` lists them as
hazards.

## 4. Proofs

`WorkerPool_proofs` proves, for any number of workers, requests, generations and
limits:

* `TypeCorrect`: `Spec => []TypeOK`. `TypeOK` is not inductive: an action that
  uses `call[t].target`, `taken[w]` or `sup.old` needs that the program counter
  it guards on implies the local is set. `TypeInv` adds this (`CallOK`, `LoopOK`,
  `SupOK`, `MainOK`), and the proof has a lemma for each kind of thread.
* `ReadyNeverUndercounted`: `Spec => []ReadySlotsCounted`, with no timing
  assumption. Given `TypeInv` it is inductive: `MarkReady` adds one slot and
  counts it, `MarkNotReady` removes a slot and uncounts it if it was marked, and
  `Spawn` can only remove a slot. The cardinality facts are lemmas of their own.
* `ReadyCountIsExact`: `PromptInit` implies that the count is exact. The gap of
  the previous theorem is `Spawn`, which unmarks a slot without uncounting it;
  `PromptInv` says that under `PromptInit` the slot cannot be marked there: the
  object in it has finished its initialisation (`DoneInv`), its generation is
  the newest (`GenInv`), and the supervisor unmarked it (`ReplInv`).
* `InOnePlace` and `AnsweredNotRerun`: `Spec => []OneHolder` and `Spec => NoRerun`,
  both from `HolderInv`. `At(k, x, r)` names the places a request can be, among
  them one that `Holders` does not have: the record of a worker that ended in the
  middle of it and is not recovered yet. `One` says there is one place at most,
  `AnsweredIsOver` that an answered request is nowhere, unless the answer was a
  timeout and its worker, out of its slot, still runs it. For this the supervisor
  must recover from a dead worker unless it forces the replacement (`SupRest`),
  and a worker that left its slot must not come back (`DetachedStays`): a new
  object has a higher generation and no thread yet (`Born`). Every action either
  brings a request to no new place (`Quiet`, `Stays`), moves it from one to
  another (`Went`), or leaves it nowhere (`Nowhere`).
* `PoolImplementsLedger`: `Spec => ImplementsLedger`. Under `HolderInv`,
  `Stage(r)` depends on the places of `r` only (`StageIs`); reading, beginning,
  responding, faulting and the timeout answer change the stage of one request,
  and every other step can at most lose requests that waited (`LedgerLoses`).
* `NamedLossesOnly`: `Spec => LossesNamed`. The ledger lets waiting requests be
  lost; this theorem says when. `InHand(r)` holds while somebody comes for `r`: the
  input, a caller, the supervisor with what it recovered, a thread that lives, a
  recovery that has not passed that part of its worker. `HandFrame` needs of each
  step that every holder keeps the request or passes it on, and `StopInv` that
  before the shutdown a worker in its slot is told to stop by its own fault only,
  so its thread does not leave a queue behind. The ways that remain are the five
  in the property; the last, a fault that `start()` overwrites with Idle, needs
  two workers and two failures of one slot to happen, so `pool_failures` does not
  reach it, and `PromptLosesNoneToRevived` proves that it needs an
  `initialize_worker` that is overtaken by its own worker.
* `LiveSlotStaysQueued`: `PromptInit` implies `Spec => []ReadySlotQueued`.
  `QueuedInv` adds to `PromptInv` that before the shutdown a marked slot is ready
  or its thread has ended, and ended threads do not become ready again; so what
  is popped and not put back is the entry of a slot that stays useless.
* `GivenUpStaysEmpty`: `Spec => OfflineStaysEmpty`, since a replacement that used
  up the attempts goes from `StopOld` past `Spawn`.

`RpcStreams_proofs` proves, for any set of requests and any stream length:

* `TypeCorrect`: `Spec => []TypeOK`, with the strengthening that nobody receives
  more than was copied, which bounds `received`.
* `ResponsesStayApart`: `Spec => []ResponsesApart`. The invariant added is
  `HeldInv`: while stdout ends with a response that has no newline yet, somebody
  holds `response_mutex`. Notifications may come in between; they do not take the
  mutex and do not end with a response.
* `ResolvedIsComplete` and `ResolvedLeavesNoPipe`: both from `StreamInv`, which
  says of each request where it can be once it was answered. A request without
  a FIFO is never notified and has no stream (`NoPipeInv`); the remote `cat`
  exists only in a transfer, and the command copies only when `cat` has opened
  the other end (`CatInv`); an answer comes after the FIFO was removed and, unless
  there was a warning, after a `cat` that was really there (`AnswerInv`), so the
  client cannot open the path later and make a file of it, and cannot resolve
  without comparing the lengths. `Untouched` keeps the argument to one request
  at a time.
* `EndsAlwaysFit`: `Spec => []StreamsFit`, on top of `StreamInv`. `PathKept`,
  `EndsMeet` and `PiecesMatch` say at each moment what the other three say of
  resolved calls only. They are inductive together with `AnsweredLate`: a call
  whose answer is still on its way has had its `cat` if it had a FIFO. It is
  needed where a late `cat` finds no FIFO and makes a file (`OpenCat`), which may
  happen to rejected calls and to none else (`LateCat`).

`FileEtags_proofs` proves all three properties of `file_etags`, for any number of
requests, any length of a text and any time: `TypeCorrect`, `OwnSaves` and
`SavesKnown`. `IInv` adds what an etag stands for: no etag is of a second that is
yet to come, and one that was not taken in the second of a modification and still
has the time of modification of the file is of the text that is there (`ReadOK`,
`WriteOK`), for a write stamps the file with a later second. A request that is
done does not move, so the etag a save carries stays what it was (`BaseOK`); what
others do touches a request only by marking it disturbed (`AsideKeeps`).

`MemberWriter_proofs` proves all four properties of `members`, for any number of
threads, members, lines and records in a block:

* `HeldAsCoded`: `WriterInv`, which is inductive: what each thread holds at each
  point of its way in and out.
* `OneThreadOpen` and `ChangesAreLocked` follow from it: an open DCB and a STOW
  are under the RESERVE, which has one holder.
* `SuccessStoresAll` needs two more conjuncts: `Counted` (lines added are those
  stored, in the buffer, or passed over) and `Whole` (after a flush without a
  failure nothing is in the buffer, all lines were added, and STOW has run, noticed
  or not), for as long as the return code is `ok`.

`UtilityDds_proofs` proves all four properties of `utility_dds`, for any number
of threads: `NamesAreHeld` (`DdInv` is inductive: a thread holds just the names
its command has reached), and from it `FreesOnlyOwn`, `LeftOnlyByCause` and
`SuccessIsOwn`. The last adds `Work`: at each point the control statements, the
output and what was read are the thread's own, unless the write of the statements
(`search`, `amblist`) or the close of `sysin` (every utility) failed unseen, or
the return code says that something failed.

`DataSets_proofs` proves all three properties of `data_sets`, for any data sets,
members, copies and number of commands: `CatalogSound`, `SuccessMeansCopied` and
`CopyKeeps`. `DataSetInv` is not inductive, and `CopiedWhole` speaks only of
copies that are done. Nothing is held between the three looks of a copy, so each
may see another catalog: `KeptOK` and `OneOK` allow for a target that was taken as
missing while it was there. `IInv` says of each copy what it has seen, done and still
has to do: nothing but its target differs from the start (`KeptOK`); what it
reads is what was there, since a source equal to the target means that the target
existed (`OneOK`); members still to come are untouched, and each member it is
through with is settled (`ManyOK`). A data set in use keeps its organization
(`OpenOK`), so the text of an open target fits when it is written. What others do
preserves the claims about a copy because all they change is `touched`
(`AsideStep`); each step of the copy itself has a lemma.

`SshClient_proofs` proves all safety properties of `client_calls`, for any calls
and any number of clients: `SomebodyAlwaysSettles`, `LinesStayWhole`,
`TransferredFirst` and `SilencedAreLeft`. `RequestInv` says of each request: not made means nothing is
left of it, and clients that are not ready have made none (`Unmade`); once a
transfer has started, the resolve is the one that waits for it (`Linking`); no
response is awaited for a silenced request, and if its resolve waits for a
stream, its replay called it (`Aloof`). `LineInv` says of the chunks under way:
none without a connection, heads are followed by their tails (`HeadsTails`), and
the result of a streamed request is on its way only after its transfer has begun,
or comes from a server that could not stream (`ResultsLate`), so it finds the
linked resolve, or says itself that there was no transfer. `OneRequest` is what a step of
one request may do; `Makes` what making or replaying requests does.
`SomebodyAlwaysSettles` is the safety core of `EveryCallSettles`: `ClientInv` names
for each pending promise who will settle it. It is not inductive, since an entry
goes by a response or a collection long before the replay exists; `CallInv` says
where such a request is meanwhile (`Known`: collected, replayed, or of an earlier
client), that its resolve is linked only by the start of its transfer
(`LinkedLate`), and which timers run (`TimerKept`).

`SshClientCache_proofs` proves the three safety properties of `cache_reloads`, for
any number of tasks, calls, clients and prompts: `LocksAndRestarts`,
`SessionStaysUsable` and `LostByThrowOnly`. `CacheInv` is inductive given the
types: the locks that are not resolved belong to the tasks that build
(`LocksHeld`), so no circle of waiting tasks can form and nobody waits for a task
that is through (`EveryConnectReturns`); and a profile that is RESTARTING has a
reload on its way (`RestartTended`), as `RestartEnds` needs. For the other two
`IInv` has who owns a client: clients are numbered in the order in which they were
started (`BornInOrder`), one that a task is building belongs to no other task and
is not the session (`Owned`, `OwnedOnce`, `SessionBorn`), so nobody disposes of
it; a client that is not ready has no calls (`NotYetUsed`); a task has collected
calls only while it builds, and when its client is ready they are in flight again
or settled (`Collected`); and a call that nobody has is among the `dropped`
(`Accounted`).

All theorems rest on the assumptions in the modules only (`PoolAssumption`,
`StreamAssumption`, `EtagsAssumption`, `MemberAssumption`, `DdAssumption`,
`DataSetAssumption`, `ClientAssumption`, `CacheAssumption`), which TLC evaluates on the instances.

Only model-checked: all liveness (fairness and `ENABLED` are outside TLAPS). Every
invariant, action property and refinement of a passing run is proved.

## 5. Not modelled, and what the plan has next

Done in this order, most important first: the pool and its theorems, the
client, the cache, requests with streams, etags, the member writer, DD names,
copies. Next:

1. `ServerShutdown`: signals that run the shutdown on the interrupted thread,
   `std::call_once`, and a signal before the pool exists.
2. Pure algorithms: the member pattern matcher, Base64 chunks with left-over
   bytes, the argument lexer.
3. The remaining input and output transforms of `CommandBuilder`, and the ids of
   answers.

Not planned: what only calls z/OS services (job, console, TSO, Metal C), the
generated control-block headers, the CLI and VS Code adapters, which are one
request each, set-up dialogues, logging, and the build.

Abstractions a reader should know of: time is only "late" or a second's tick;
timers have no durations; one profile and one connection at a time per client;
a process that ends is a behaviour in which nothing more happens.

## 6. Where code and text differ

| run | the code | the text |
|---|---|---|
| `pool_poison` | a recovered in-flight request starts again at retry 0 | `worker.test.cpp:333`, `worker.hpp:119`: discarded after `kMaxRequestRetries` |
| `pool_lost` | a line is dropped without an answer while every queue entry is stale | `worker.cpp:376` |

Also visible in the models, without a run of their own.

Pool, client and cache:

* `set_worker_ready` notifies one of two waiters (`worker.cpp:455`); the other
  can sleep on beside a ready worker, whatever `worker.cpp:453` says.
* A replacement reached through a stale queue entry can serve and fault before
  its `start()` stores Idle (`worker.cpp:73`): the fault is hidden, the supervisor
  never replaces it, and what is sent there is lost (`OnRevivedWorker`).
* The resolve of a streamed call that is collected for a replay still waits for
  the stream of the old connection (`RpcStreamManager.ts:54`), so the replay
  need not settle the call (`packages/sdk/CHANGELOG.md:15`).
* Calls collected by `connect` are dropped when the new client cannot be built
  (`SshClientCache.ts:137`), and their promises stay pending: `ZSshClient.ts:100`
  makes the caller responsible for them, and `packages/sdk/CHANGELOG.md:15` says
  that callers can safely collect and replay. `CallsAccounted` names the case.
* The creation of a client has no timer after the SSH handshake, and does not
  hear that its connection closed (`ZSshClient.ts:193`): `connect` then keeps the
  lock of the profile for ever, and every later `connect` waits for it.
* A notification can share a line with a response, since `send_notification` does
  not take `response_mutex`, and the client then sees neither.
* A streamed write whose FIFO could not be made stores an empty text and is
  answered with `success: false`; a FIFO outlives a handler that throws.
* An etag cannot notice a second write of the same length within one second, nor
  a writer between check and open. With the streamed read of a data set these
  are the exceptions named in `SavesOverKnown`.

Members:

* The STOW macro (`zio.h:297`) saves R15 over the wrong operand, so a directory
  entry that was not stored may be reported as stored.
* A record that fills the block of a variable data set with
  LRECL = BLKSIZE - 4 is passed over (`zam.c:654`) and the write succeeds.
* A write or a conversion that fails after OPEN still stores the directory entry:
  the member then has the beginning of the new text, and the answer is an error.
* A DEQ that fails leaves its resource held by the address space, and later writes
  of the member, or of the data set, are refused.
* A failed open leaves the DD allocated, and its name is cleared as if it had
  been freed (`zds.cpp:1734`).

DD names:

* An allocation that is refused leaves the names allocated before it; two
  overlapping searches are enough, and `newdd` is lost to the address space.
* `search` and `amblist` go on when `zds_write` could not write their control
  statements; no utility looks at the close of `sysin`, with which short
  statements are written (`zds.cpp:1346`, `tool.cpp:309`); and a streamed view of
  a volume drops the return code of the read.

Copies:

* A partitioned data set copied onto itself with `--delete-target-members`
  loses all its members and reports success.
* Members beyond the maximum of a listing are not copied, not deleted, and
  overwritten without `--replace`; a read that fails ends a copy like the end of
  the source. All of it is reported as success.
* A copy that fails leaves the data set it created, and the target emptied.
