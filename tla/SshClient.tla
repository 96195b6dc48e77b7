------------------------------ MODULE SshClient ------------------------------
(***************************************************************************)
(* The client side of a connection (packages/sdk/src/ZSshClient.ts and     *)
(* RpcStreamManager.ts): calls and their promises, the map of pending      *)
(* requests, response timeouts, stream transfers, the lines the server     *)
(* writes, and collecting the pending requests of one client to send them  *)
(* again with the next.                                                    *)
(*                                                                         *)
(* Clients are numbered in the order they are created.  A request of       *)
(* client c is <<c, r>>: r names the call that the user made, and a replay *)
(* is the request of the next client for the same call.  JavaScript runs   *)
(* one callback at a time, so each action is one callback; the microtasks  *)
(* that settle a promise belong to it, unless they wait for a stream.      *)
(***************************************************************************)
EXTENDS Naturals, Sequences

CONSTANTS Call,         \* the calls of request() that the user makes
          Streamed,     \* those with a stream function
          MaxClient,    \* bound: clients created one after the other
          NoLine, Garbled

Client == 1 .. MaxClient
Id == Client \X Call

ASSUME ClientAssumption ==
  /\ Streamed \subseteq Call
  /\ MaxClient \in Nat \ {0}

\* A line of the server, and the chunks it may arrive in.  What a line is cut
\* from is remembered, because a piece only makes sense with its other half.
Line == [call : Call, kind : {"notification", "result", "error"}]
Chunk == [line : Line, part : {"whole", "head", "tail"}]
Channel == {"stdout", "stderr"}
Pieces(l) == {<<[line |-> l, part |-> "whole"]>>,
              <<[line |-> l, part |-> "head"], [line |-> l, part |-> "tail"]>>}

VARIABLES
  current,     \* the newest client
  conn,        \* how far that client is
  collected,   \* what collectAllRequests returned, for the next client
  \* per request
  entry,       \* mRequestMap
  timer,       \* its response timeout is running
  promise,     \* the promise request() returned
  resolver,    \* rpc.resolve: plain, waiting for the stream, or called while it waits
  transfer,    \* its stream
  served,      \* external: what the server has written for it
  \* per channel of the current client
  arriving,    \* the chunks under way
  mPartial     \* mPartialStdout and mPartialStderr

mapVars == <<entry, timer, promise, resolver>>
lineVars == <<arriving, mPartial>>
clientVars == <<current, conn, collected>>
vars == <<clientVars, mapVars, transfer, served, lineVars>>

TypeOK ==
  /\ current \in Client
  /\ conn \in {"creating", "up", "disposed", "failed"}
  /\ collected \in SUBSET Call
  /\ entry \in [Id -> {"none", "open", "silenced"}]
  /\ timer \in [Id -> BOOLEAN]
  /\ promise \in [Id -> {"unmade", "pending", "resolved", "rejected"}]
  /\ resolver \in [Id -> {"plain", "linked", "called"}]
  /\ transfer \in [Id -> {"none", "registered", "running", "done", "failed"}]
  /\ served \in [Id -> {"none", "received", "notified", "answered", "warned"}]
  /\ arriving \in [Channel -> Seq(Chunk)]
  /\ mPartial \in [Channel -> Line \cup {NoLine, Garbled}]

Init ==
  /\ current = 1
  /\ conn = "creating"
  /\ collected = {}
  /\ entry = [q \in Id |-> "none"]
  /\ timer = [q \in Id |-> FALSE]
  /\ promise = [q \in Id |-> "unmade"]
  /\ resolver = [q \in Id |-> "plain"]
  /\ transfer = [q \in Id |-> "none"]
  /\ served = [q \in Id |-> "none"]
  /\ arriving = [ch \in Channel |-> <<>>]
  /\ mPartial = [ch \in Channel |-> NoLine]

Up == conn = "up"
Settled(q) == promise[q] \in {"resolved", "rejected"}
Replayed(q) ==
  q[1] < MaxClient /\ promise[q] # "unmade" /\ promise[<<q[1] + 1, q[2]>>] # "unmade"

-----------------------------------------------------------------------------
(* request()                                                               *)

\* The requests of a set are made on client c: the timer, the stream, the
\* entry, the write to the server's stdin.
MakeAll(c, S) ==
  LET made == {c} \X S IN
  /\ promise' = [q \in Id |-> IF q \in made THEN "pending" ELSE promise[q]]
  /\ timer' = [q \in Id |-> q \in made \/ timer[q]]
  /\ entry' = [q \in Id |-> IF q \in made THEN "open" ELSE entry[q]]
  /\ transfer' = [q \in Id |-> IF q \in made /\ q[2] \in Streamed THEN "registered" ELSE transfer[q]]
  /\ served' = [q \in Id |-> IF q \in made THEN "received" ELSE served[q]]
  /\ UNCHANGED resolver

Request(r) ==
  /\ Up /\ \A c \in Client : promise[<<c, r>>] = "unmade"
  /\ MakeAll(current, {r})
  /\ UNCHANGED <<clientVars, lineVars>>

\* rpc.resolve or rpc.reject of request q is called: its promise settles and
\* finally() clears the timer, unless resolve first waits for the stream.
Settle(q, how) ==
  IF how = "resolved" /\ resolver[q] = "linked"
  THEN /\ resolver' = [resolver EXCEPT ![q] = "called"]
       /\ UNCHANGED <<promise, timer>>
  ELSE /\ promise' = [promise EXCEPT ![q] = IF @ = "pending" THEN how ELSE @]
       /\ timer' = [timer EXCEPT ![q] = FALSE]
       /\ UNCHANGED resolver

\* The response timeout: the entry goes, and an unsilenced call is rejected.
Timeout(q) ==
  /\ timer[q]
  /\ timer' = [timer EXCEPT ![q] = FALSE]
  /\ entry' = [entry EXCEPT ![q] = "none"]
  /\ promise' = [promise EXCEPT ![q] = IF entry[q] = "open" THEN "rejected" ELSE @]
  /\ UNCHANGED <<clientVars, resolver, transfer, served, lineVars>>

-----------------------------------------------------------------------------
(* processResponses                                                        *)

Unlinked(q) == resolver
Linked(q) == [resolver EXCEPT ![q] = "linked"]

\* linkStreamToPromise replaces rpc.resolve and starts the transfer; a second
\* notification finds no pending stream and is reported.
HandleNotification(q) ==
  /\ IF transfer[q] = "registered"
     THEN /\ transfer' = [transfer EXCEPT ![q] = "running"]
          /\ resolver' = Linked(q)
     ELSE UNCHANGED <<transfer, resolver>>
  /\ UNCHANGED <<entry, timer, promise>>

\* handleResponse: the response of a silenced request is dropped.
ListeningAfterTransfer(q) == entry[q] = "open" /\ transfer[q] # "running"
Listening(q) == entry[q] = "open"
HandleResponse(q, how) ==
  /\ IF Listening(q) THEN Settle(q, how) ELSE UNCHANGED <<promise, timer, resolver>>
  /\ entry' = [entry EXCEPT ![q] = "none"]
  /\ UNCHANGED transfer

\* A complete line: a response without an entry is reported, nothing else.
HandleLine(l) ==
  LET q == <<current, l.call>> IN
  IF entry[q] = "none" THEN UNCHANGED <<mapVars, transfer>>
  ELSE IF l.kind = "notification" THEN HandleNotification(q)
  ELSE HandleResponse(q, IF l.kind = "result" THEN "resolved" ELSE "rejected")

\* One chunk after what is left of the last ones: a line that is not made of
\* one head and its own tail is invalid JSON, reported and dropped.
ProcessResponses(chunk, partial) ==
  IF <<chunk.part, partial>> \in {<<"whole", NoLine>>, <<"tail", chunk.line>>}
  THEN HandleLine(chunk.line)
  ELSE UNCHANGED <<mapVars, transfer>>

\* The text after the last newline.
Rest(chunk, partial) ==
  IF chunk.part # "head" THEN NoLine
  ELSE IF partial = NoLine THEN chunk.line ELSE Garbled

\* onErrData takes what arrives while nothing is pending for an error message,
\* and leaves mPartialStderr as it is; onOutData has no such rule.
DiscardsIdle(ch) == \A r \in Call : entry[<<current, r>>] = "none"
Discards(ch) == ch = "stderr" /\ \A r \in Call : entry[<<current, r>>] = "none"

OnData(ch) ==
  LET chunk == Head(arriving[ch]) IN
  /\ Up /\ arriving[ch] # <<>>
  /\ arriving' = [arriving EXCEPT ![ch] = Tail(@)]
  /\ IF Discards(ch) THEN UNCHANGED <<mapVars, transfer, mPartial>>
     ELSE /\ ProcessResponses(chunk, mPartial[ch])
          /\ mPartial' = [mPartial EXCEPT ![ch] = Rest(chunk, @)]
  /\ UNCHANGED <<clientVars, served>>

-----------------------------------------------------------------------------
(* RpcStreamManager: the transfers.                                        *)

\* The pipeline ends; a wrapped resolve that was called meanwhile goes on when
\* the stream is done, and compares the content lengths.  It does not go on
\* when the stream has failed.
TransferEnds(q) ==
  /\ transfer[q] = "running"
  /\ \E end \in {"done", "failed"} : transfer' = [transfer EXCEPT ![q] = end]
  /\ UNCHANGED <<clientVars, mapVars, served, lineVars>>

StreamSettles(q) ==
  /\ resolver[q] = "called" /\ transfer[q] = "done" /\ promise[q] = "pending"
  /\ \E how \in {"resolved", "rejected"} : promise' = [promise EXCEPT ![q] = how]
  /\ timer' = [timer EXCEPT ![q] = FALSE]
  /\ UNCHANGED <<clientVars, entry, resolver, transfer, served, lineVars>>

-----------------------------------------------------------------------------
(* The life of a client.                                                   *)

\* create() ends: the collected requests are sent again.
CreateReady ==
  /\ conn = "creating"
  /\ conn' = "up"
  /\ collected' = {}
  /\ MakeAll(current, collected)
  /\ UNCHANGED <<current, lineVars>>

CreateFails ==
  /\ conn = "creating" /\ conn' = "failed"
  /\ UNCHANGED <<current, collected, mapVars, transfer, served, lineVars>>

\* A promise made by a replay settles: then(req.rpc.resolve, req.rpc.reject).
ReplaySettles(q) ==
  /\ Replayed(q) /\ Settled(<<q[1] + 1, q[2]>>)
  /\ promise[q] = "pending" /\ resolver[q] # "called"
  /\ Settle(q, promise[<<q[1] + 1, q[2]>>])
  /\ UNCHANGED <<clientVars, entry, transfer, served, lineVars>>

\* collectAllRequests(true): the timers stop, the entries stay.
CollectAllRequests ==
  LET pending == {r \in Call : entry[<<current, r>>] # "none"} IN
  /\ Up /\ collected = {} /\ pending # {}
  /\ collected' = pending
  /\ entry' = [q \in Id |-> IF q \in {current} \X pending THEN "silenced" ELSE entry[q]]
  /\ timer' = [q \in Id |-> timer[q] /\ q \notin {current} \X pending]
  /\ UNCHANGED <<current, conn, promise, resolver, transfer, served, lineVars>>

\* dispose(): what is not silenced is rejected, and the connection ends.
RejectedAll(q) == entry[q] # "none"
RejectedNobody(q) == FALSE
Rejected(q) == entry[q] = "open"
Dispose ==
  /\ Up /\ conn' = "disposed"
  /\ promise' = [q \in Id |-> IF Rejected(q) THEN "rejected" ELSE promise[q]]
  /\ timer' = [q \in Id |-> timer[q] /\ ~Rejected(q)]
  /\ entry' = [q \in Id |-> "none"]
  /\ arriving' = [ch \in Channel |-> <<>>]
  /\ mPartial' = [ch \in Channel |-> NoLine]
  /\ UNCHANGED <<current, collected, resolver, transfer, served>>

\* The user creates the next client and passes on what was collected; after a
\* failed creation nobody has it any more.
CreateNext ==
  /\ conn \in {"disposed", "failed"} /\ current < MaxClient
  /\ current' = current + 1
  /\ collected' = IF conn = "failed" THEN {} ELSE collected
  /\ conn' = "creating"
  /\ UNCHANGED <<mapVars, transfer, served, lineVars>>

-----------------------------------------------------------------------------
(* External: the server.  It notifies before it streams, and answers a      *)
(* request it has notified when its end of the pipe is closed.  When it      *)
(* cannot make the FIFO it does not notify: the command runs without, and    *)
(* its result has success false (rpc_server.cpp, builder.cpp).  Results go to *)
(* stdout, errors to stderr, and it may never answer.                        *)

WriteLine(ch, q, kind) ==
  \E chunks \in Pieces([call |-> q[2], kind |-> kind]) :
    arriving' = [arriving EXCEPT ![ch] = @ \o chunks]

ServerNotifies(q) ==
  /\ Up /\ q[1] = current /\ q[2] \in Streamed /\ served[q] = "received"
  /\ served' = [served EXCEPT ![q] = "notified"]
  /\ WriteLine("stdout", q, "notification")
  /\ UNCHANGED <<clientVars, mapVars, transfer, mPartial>>

\* The result of request q, as what the server notes of it.
Answer(q) ==
  IF q[2] \in Streamed /\ served[q] = "received" THEN "warned" ELSE "answered"

ServerAnswers(q) ==
  /\ Up /\ q[1] = current /\ served[q] \in {"received", "notified"}
  /\ \/ /\ served[q] = "notified" => transfer[q] \in {"running", "done", "failed"}
        /\ served' = [served EXCEPT ![q] = Answer(q)]
        /\ WriteLine("stdout", q, "result")
     \/ /\ served' = [served EXCEPT ![q] = "answered"]
        /\ WriteLine("stderr", q, "error")
  /\ UNCHANGED <<clientVars, mapVars, transfer, mPartial>>

-----------------------------------------------------------------------------
RequestStep(q) == Timeout(q) \/ TransferEnds(q) \/ StreamSettles(q) \/ ReplaySettles(q)

Next ==
  \/ \E r \in Call : Request(r)
  \/ \E q \in Id : RequestStep(q) \/ ServerNotifies(q) \/ ServerAnswers(q)
  \/ \E ch \in Channel : OnData(ch)
  \/ CreateReady \/ CreateFails \/ CollectAllRequests \/ Dispose \/ CreateNext

Spec == Init /\ [][Next]_vars

\* Timers fire, callbacks and microtasks run, and a pipeline ends once the
\* result has come, because the server has closed its end by then.  A transfer
\* whose result has not come may hang, nothing bounds a creation, and the user
\* and the server are free to do nothing more.
Fairness ==
  /\ \A q \in Id : WF_vars(Timeout(q)) /\ WF_vars(resolver[q] = "called" /\ TransferEnds(q))
  /\ \A q \in Id : WF_vars(StreamSettles(q)) /\ WF_vars(ReplaySettles(q))
  /\ \A ch \in Channel : WF_vars(OnData(ch))

FairSpec == Spec /\ Fairness

-----------------------------------------------------------------------------
(* What the client promises.                                               *)

\* Lines on stdout survive any cut into chunks, whatever calls time out or are
\* made between two chunks: a half line is always followed by its other half.
StdoutWhole ==
  mPartial["stdout"] # NoLine =>
    /\ arriving["stdout"] # <<>>
    /\ Head(arriving["stdout"]) = [line |-> mPartial["stdout"], part |-> "tail"]

\* A call that was collected silently is settled only through its replay: no
\* late response, no timeout and no dispose of the old client ends it.
Owner == IF conn \in {"up", "disposed"} THEN current ELSE current - 1
Silenced(q) == \/ entry[q] = "silenced" \/ Replayed(q)
               \/ q[1] = Owner /\ q[2] \in collected
SilencedLeftAlone ==
  [][\A q \in Id : Silenced(q) /\ promise'[q] # promise[q]
                     => Replayed(q) /\ Settled(<<q[1] + 1, q[2]>>)]_vars

\* A streamed call resolves only when a transfer made for it, or for a replay
\* of it, is complete.  The one other result it gets is that of a server which
\* could not make the FIFO: nothing was streamed, and success is false in it.
Complete(q) == transfer[q] = "done" \/ served[q] = "warned"
ResolvedMeansTransferred ==
  \A q \in Id : q[2] \in Streamed /\ promise[q] = "resolved"
                  => \E c \in Client : c >= q[1] /\ Complete(<<c, q[2]>>)

\* A call waits for somebody in vain: it was collected and no client sends it
\* again, or the stream that its resolve waits for has failed.
Abandoned(q) ==
  \E c \in Client :
    LET p == <<c, q[2]>> IN
    /\ c >= q[1] /\ promise[p] = "pending"
    /\ \/ ~Replayed(p) /\ (q[2] \in collected \/ c < current)
       \/ resolver[p] = "called" /\ transfer[p] = "failed"

\* The response timer of a request runs as long as its entry is open, and on
\* while its result waits for the stream, when the timer can no longer settle
\* it; no timer outlives the promise, and no entry outlives the connection.
TimerKept(q) ==
  /\ entry[q] = "open" => timer[q] /\ promise[q] = "pending" /\ q[1] = current /\ Up
  /\ timer[q] => promise[q] = "pending" /\ (entry[q] = "open" \/ resolver[q] = "called")

\* Behind every pending promise is somebody who will settle it: the entry, for
\* a response, the timer or dispose, the stream that its result waits for, or
\* its replay.
SomebodySettles(q) ==
  promise[q] = "pending" =>
    \/ entry[q] = "open"
    \/ resolver[q] = "called" /\ transfer[q] \in {"running", "done"}
    \/ Replayed(q) /\ resolver[q] # "called"
    \/ Abandoned(q)

\* Whatever answers, times out, is collected, disposed of or replayed, and in
\* whatever order.
ClientInv == TypeOK /\ \A q \in Id : TimerKept(q) /\ SomebodySettles(q)

\* No other call stays pending: a response, its timeout, the dispose or its
\* replay settles it.
EveryCallSettles == \A q \in Id : []<>(promise[q] # "pending" \/ Abandoned(q))
=============================================================================
