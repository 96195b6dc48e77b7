----------------------------- MODULE RpcStreams ------------------------------
(***************************************************************************)
(* One request of the server from end to end, many at once: process_request*)
(* (native/c/server/rpc_server.cpp) on the thread of a worker, the FIFO    *)
(* that the argument transforms make for a streamed request (builder.cpp)  *)
(* and the dispatcher removes, the commands that copy between the FIFO and *)
(* a file or data set, and the lines that all threads write to stdout.     *)
(*                                                                         *)
(* The client is external here: SshClient has its calls and timers, this   *)
(* module the remote `cat` at the other end of the FIFO.  A process that   *)
(* ends, as one may that writes to a FIFO whose reader has gone (SIGPIPE,  *)
(* which nobody handles), is a behaviour in which nothing happens any      *)
(* more; the safety properties include it.                                 *)
(***************************************************************************)
EXTENDS Naturals, Sequences

CONSTANTS Request,
          Pieces,    \* bound: pieces of a stream
          NL         \* a newline on stdout

ASSUME StreamAssumption ==
  /\ Pieces \in Nat \ {0}
  /\ NL \notin {"notification", "response"} \X Request

VARIABLES
  kind,      \* plain, or with a stream: upload (PUT) or download (GET)
  \* the server, per request
  pc,        \* where its thread is
  hasPipe,   \* the argument pipe-path is set
  pipe,      \* what the path of its FIFO names
  copied,    \* contentLen: pieces the command has copied
  status,    \* good, warned (there is text on the error stream), or failed
  \* shared
  stdout,
  \* the client, per request
  call,      \* the promise
  transfer,  \* its stream
  cat,       \* the remote cat
  sent,      \* pieces it has put into the FIFO
  received   \* pieces the client got from it

threadVars == <<hasPipe, pipe, copied, status>>
clientVars == <<call, transfer, cat, sent, received>>
vars == <<kind, pc, threadVars, stdout, clientVars>>

Upload == {r \in Request : kind[r] = "upload"}
Download == {r \in Request : kind[r] = "download"}
Streamed == Upload \cup Download

InHandler == {"handle", "open", "copy"}
Message == {"notification", "response"} \X Request

TypeOK ==
  /\ kind \in [Request -> {"plain", "upload", "download"}]
  /\ pc \in [Request -> InHandler \cup
               {"none", "notify", "notified", "clean", "respond", "responded", "refuse", "end"}]
  /\ hasPipe \in [Request -> BOOLEAN]
  /\ pipe \in [Request -> {"none", "fifo", "file"}]
  /\ copied \in [Request -> 0 .. Pieces]
  /\ status \in [Request -> {"good", "warned", "failed"}]
  /\ stdout \in Seq(Message \cup {NL})
  /\ call \in [Request -> {"none", "pending", "answered", "resolved", "rejected"}]
  /\ transfer \in [Request -> {"none", "running", "done", "failed"}]
  /\ cat \in [Request -> {"none", "opening", "open", "closed"}]
  /\ sent \in [Request -> 0 .. Pieces]
  /\ received \in [Request -> 0 .. Pieces]

Init ==
  /\ kind \in [Request -> {"plain", "upload", "download"}]
  /\ pc = [r \in Request |-> "none"]
  /\ hasPipe = [r \in Request |-> FALSE]
  /\ pipe = [r \in Request |-> "none"]
  /\ copied = [r \in Request |-> 0]
  /\ status = [r \in Request |-> "good"]
  /\ stdout = <<>>
  /\ call = [r \in Request |-> "none"]
  /\ transfer = [r \in Request |-> "none"]
  /\ cat = [r \in Request |-> "none"]
  /\ sent = [r \in Request |-> 0]
  /\ received = [r \in Request |-> 0]

\* The thread of r goes from one step to the next.
Step(r, from, to) == pc[r] = from /\ pc' = [pc EXCEPT ![r] = to] /\ UNCHANGED kind

-----------------------------------------------------------------------------
(* Up to the handler.                                                      *)

\* The parameters are not valid: nothing is dispatched.
Invalid(r) ==
  /\ Step(r, "none", "refuse")
  /\ UNCHANGED threadVars

NoStream(r) ==
  /\ r \notin Streamed
  /\ Step(r, "none", "handle")
  /\ UNCHANGED threadVars

\* HandleFifo: an upload is notified at once, a download when its size is known.
MakeFifo(r) ==
  /\ r \in Streamed
  /\ Step(r, "none", IF r \in Upload THEN "notify" ELSE "handle")
  /\ pipe' = [pipe EXCEPT ![r] = "fifo"]
  /\ hasPipe' = [hasPipe EXCEPT ![r] = TRUE]
  /\ UNCHANGED <<copied, status>>

MakeFifoUnnoticed(r) ==
  /\ r \in Streamed
  /\ Step(r, "none", IF r \in Upload THEN "notify" ELSE "handle")
  /\ hasPipe' = [hasPipe EXCEPT ![r] = TRUE]
  /\ UNCHANGED <<pipe, copied, status>>

\* unlink or mkfifo fails: a line on the error stream, and the command runs
\* without pipe-path.
MakeFifoFails(r) ==
  /\ r \in Streamed
  /\ Step(r, "none", "handle")
  /\ status' = [status EXCEPT ![r] = "warned"]
  /\ UNCHANGED <<hasPipe, pipe, copied>>

\* A call is made, and a worker takes it up.
Begin(r) ==
  /\ call[r] = "none" /\ call' = [call EXCEPT ![r] = "pending"]
  /\ Invalid(r) \/ NoStream(r) \/ MakeFifo(r) \/ MakeFifoFails(r)
  /\ UNCHANGED <<stdout, transfer, cat, sent, received>>

\* send_notification: text and newline, without response_mutex.
Notify(r) ==
  /\ Step(r, "notify", "notified")
  /\ stdout' = Append(stdout, <<"notification", r>>)
  /\ UNCHANGED <<threadVars, clientVars>>

EndNotification(r) ==
  /\ Step(r, "notified", "open")
  /\ stdout' = Append(stdout, NL)
  /\ UNCHANGED <<threadVars, clientVars>>

-----------------------------------------------------------------------------
(* The handlers.                                                           *)

\* A command without a pipe runs to its end.
Run(r) ==
  /\ ~hasPipe[r]
  /\ Step(r, "handle", "clean")
  /\ UNCHANGED <<threadVars, stdout, clientVars>>

\* A download opens its source and sends the deferred notification from the
\* size callback.
ReportSize(r) ==
  /\ hasPipe[r]
  /\ Step(r, "handle", "notify")
  /\ UNCHANGED <<threadVars, stdout, clientVars>>

\* open() of a FIFO returns when its other end is opened too.
OpenPipe(r) ==
  /\ pipe[r] = "fifo" /\ cat[r] = "opening"
  /\ Step(r, "open", "copy")
  /\ cat' = [cat EXCEPT ![r] = "open"]
  /\ UNCHANGED <<threadVars, stdout, call, transfer, sent, received>>

CopyFromPipe(r) ==
  /\ r \in Upload /\ pc[r] = "copy" /\ copied[r] < sent[r]
  /\ copied' = [copied EXCEPT ![r] = @ + 1]
  /\ UNCHANGED <<kind, pc, hasPipe, pipe, status, stdout, clientVars>>

\* The end of an upload is that the writer of the FIFO is gone.
InputComplete(r) == copied[r] = Pieces
InputEnds(r) == copied[r] = sent[r] /\ cat[r] = "closed"
EndOfPipe(r) ==
  /\ r \in Upload /\ InputEnds(r)
  /\ Step(r, "copy", "clean")
  /\ UNCHANGED <<threadVars, stdout, clientVars>>

MoreToRead(r) == copied[r] < Pieces
\* Nobody looks at what fwrite returns: once the cat has gone the rest of the
\* file is counted in contentLen all the same.
CopyToPipe(r) ==
  /\ r \in Download /\ pc[r] = "copy" /\ MoreToRead(r)
  /\ copied' = [copied EXCEPT ![r] = @ + 1]
  /\ received' = IF cat[r] = "open" THEN [received EXCEPT ![r] = @ + 1] ELSE received
  /\ UNCHANGED <<kind, pc, hasPipe, pipe, status, stdout, call, transfer, cat, sent>>

EndOfFile(r) ==
  /\ r \in Download /\ copied[r] = Pieces
  /\ Step(r, "copy", "clean")
  /\ UNCHANGED <<threadVars, stdout, clientVars>>

\* The handler returns a failure, before it opens the pipe or later: an etag
\* that does not match, a file that cannot be opened, a conversion, no space.
Fail(r) ==
  /\ pc[r] \in InHandler
  /\ Step(r, pc[r], "clean")
  /\ status' = [status EXCEPT ![r] = "failed"]
  /\ UNCHANGED <<hasPipe, pipe, copied, stdout, clientVars>>

\* The handler throws: the output transforms are skipped.
Throw(r) ==
  /\ pc[r] \in InHandler
  /\ Step(r, pc[r], "refuse")
  /\ UNCHANGED <<threadVars, stdout, clientVars>>

-----------------------------------------------------------------------------
(* After the handler.                                                      *)

\* HandleFifo again, as an output transform: unlink.  A result that does not
\* validate is refused too.
PipesAfterFailure(r) == IF hasPipe[r] /\ status[r] = "failed" THEN [pipe EXCEPT ![r] = "none"] ELSE pipe
PipesAfter(r) == IF hasPipe[r] THEN [pipe EXCEPT ![r] = "none"] ELSE pipe

Clean(r) ==
  /\ \/ Step(r, "clean", "refuse")
     \/ status[r] # "failed" /\ Step(r, "clean", "respond")
  /\ pipe' = PipesAfter(r)
  /\ UNCHANGED <<hasPipe, copied, status, stdout, clientVars>>

\* print_response holds response_mutex over the text and the newline.
MutexIgnored == TRUE
MutexFree == \A r \in Request : pc[r] # "responded"

Respond(r) ==
  /\ MutexFree
  /\ Step(r, "respond", "responded")
  /\ stdout' = Append(stdout, <<"response", r>>)
  /\ UNCHANGED <<threadVars, clientVars>>

EndResponse(r) ==
  /\ Step(r, "responded", "end")
  /\ stdout' = Append(stdout, NL)
  /\ UNCHANGED <<threadVars, clientVars>>

\* print_error writes to stderr; the client rejects a call it still waits for.
Refuse(r) ==
  /\ MutexFree
  /\ Step(r, "refuse", "end")
  /\ call' = [call EXCEPT ![r] = IF @ = "pending" THEN "rejected" ELSE @]
  /\ UNCHANGED <<threadVars, stdout, transfer, cat, sent, received>>

-----------------------------------------------------------------------------
(* External: the client.                                                   *)

\* The response timeout of the client, or the timeout error of the supervisor
\* of the pool; the thread goes on either way.
GiveUp(r) ==
  /\ call[r] = "pending" /\ call' = [call EXCEPT ![r] = "rejected"]
  /\ UNCHANGED <<kind, pc, threadVars, stdout, transfer, cat, sent, received>>

\* A line is what stands before the first newline.  Two messages on one line
\* are invalid JSON, and neither is seen.
OnLine ==
  \E i \in DOMAIN stdout :
    /\ stdout[i] = NL /\ \A j \in 1 .. i - 1 : stdout[j] # NL
    /\ stdout' = SubSeq(stdout, i + 1, Len(stdout))
    /\ IF i # 2 \/ call[stdout[1][2]] # "pending" THEN UNCHANGED <<call, transfer>>
       ELSE LET r == stdout[1][2] IN
         IF stdout[1][1] = "notification"
         THEN transfer' = [transfer EXCEPT ![r] = "running"] /\ UNCHANGED call
         ELSE /\ call' = [call EXCEPT ![r] = IF transfer[r] = "none" THEN "resolved" ELSE "answered"]
              /\ UNCHANGED transfer
    /\ UNCHANGED <<kind, pc, threadVars, cat, sent, received>>

\* `cat` with the path of the FIFO.  Once the path is gone, `cat >` makes a
\* regular file of it and takes everything, and `cat` finds nothing.
OpenCat(r) ==
  /\ transfer[r] = "running" /\ cat[r] = "none"
  /\ IF pipe[r] = "fifo"
     THEN /\ cat' = [cat EXCEPT ![r] = "opening"]
          /\ UNCHANGED <<pipe, transfer, sent>>
     ELSE /\ cat' = [cat EXCEPT ![r] = "closed"]
          /\ transfer' = [transfer EXCEPT ![r] = "done"]
          /\ pipe' = [pipe EXCEPT ![r] = IF r \in Upload THEN "file" ELSE @]
          /\ UNCHANGED sent
  /\ UNCHANGED <<kind, pc, hasPipe, copied, status, stdout, call, received>>

Send(r) ==
  /\ r \in Upload /\ cat[r] = "open" /\ pc[r] = "copy" /\ sent[r] < Pieces
  /\ sent' = [sent EXCEPT ![r] = @ + 1]
  /\ UNCHANGED <<kind, pc, threadVars, stdout, call, transfer, cat, received>>

\* The upload ends: complete, failed, or with its last bytes lost on the way,
\* which the client does not notice.
UploadEnds(r) ==
  /\ r \in Upload /\ cat[r] = "open"
  /\ cat' = [cat EXCEPT ![r] = "closed"]
  /\ \/ transfer' = [transfer EXCEPT ![r] = "done"]
     \/ sent[r] < Pieces /\ transfer' = [transfer EXCEPT ![r] = "failed"]
  /\ UNCHANGED <<kind, pc, threadVars, stdout, call, sent, received>>

\* The download ends after the server has closed its end, or fails before; the
\* client may have received only the first part.
DownloadEnds(r) ==
  /\ r \in Download /\ cat[r] = "open"
  /\ cat' = [cat EXCEPT ![r] = "closed"]
  /\ \/ /\ pc[r] # "copy"
        /\ transfer' = [transfer EXCEPT ![r] = "done"]
        /\ \E n \in 0 .. received[r] : received' = [received EXCEPT ![r] = n]
     \/ /\ transfer' = [transfer EXCEPT ![r] = "failed"]
        /\ UNCHANGED received
  /\ UNCHANGED <<kind, pc, threadVars, stdout, call, sent>>

\* expectContentLengthMatches: what the client counts against contentLen.
Counted(r) == IF r \in Upload THEN Pieces ELSE received[r]
LengthIgnored(r) == TRUE
LengthMatches(r) == Counted(r) = copied[r]
Conclude(r) ==
  /\ call[r] = "answered" /\ transfer[r] = "done"
  /\ call' = [call EXCEPT ![r] = IF LengthMatches(r) THEN "resolved" ELSE "rejected"]
  /\ UNCHANGED <<kind, pc, threadVars, stdout, transfer, cat, sent, received>>

-----------------------------------------------------------------------------
Thread(r) ==
  \/ Notify(r) \/ EndNotification(r) \/ Run(r) \/ ReportSize(r) \/ OpenPipe(r)
  \/ CopyFromPipe(r) \/ EndOfPipe(r) \/ CopyToPipe(r) \/ EndOfFile(r)
  \/ Clean(r) \/ Respond(r) \/ EndResponse(r) \/ Refuse(r)

Stream(r) == OpenCat(r) \/ Send(r) \/ UploadEnds(r) \/ DownloadEnds(r) \/ Conclude(r)

Next ==
  \/ \E r \in Request : Begin(r) \/ GiveUp(r) \/ Thread(r) \/ Fail(r) \/ Throw(r) \/ Stream(r)
  \/ OnLine

Spec == Init /\ [][Next]_vars

\* Threads are scheduled as long as the process lives, and so are the callbacks
\* of the client and its cats, which read what comes while they are there;
\* nothing needs to fail, no call needs to be made or given up.
Fairness == WF_vars(OnLine) /\ \A r \in Request : WF_vars(Thread(r)) /\ WF_vars(Stream(r))
FairSpec == Spec /\ Fairness

-----------------------------------------------------------------------------
(* What the two ends promise together.                                     *)

\* The path of a FIFO names it from the notification until the command is
\* through, so that a cat which comes in time finds it and one which comes late
\* disturbs nobody; what is still there at the end is from a rejected call.
PathKept(r) ==
  /\ pc[r] \in {"notify", "notified", "open", "copy"} => hasPipe[r]
  /\ hasPipe[r] /\ pc[r] \in InHandler \cup {"notify", "notified", "clean"} => pipe[r] = "fifo"
  /\ pc[r] \in {"respond", "responded"} => pipe[r] = "none"
  /\ pipe[r] = "file" => pc[r] \in {"refuse", "end"}
  /\ pc[r] = "end" /\ pipe[r] # "none" => call[r] = "rejected"

\* Neither end has the FIFO open before the other one opens it.
EndsMeet(r) ==
  /\ pc[r] = "copy" => cat[r] \in {"open", "closed"}
  /\ cat[r] = "open" => pc[r] \notin {"none", "handle", "notify", "notified", "open"}
  /\ cat[r] = "opening" => transfer[r] = "running"

\* No end takes more than the other gave, nor before the FIFO is open; a
\* download is behind only when its cat has stopped.
PiecesMatch(r) ==
  /\ copied[r] > 0 \/ sent[r] > 0 => pc[r] \notin {"none", "handle", "notify", "notified", "open"}
  /\ r \in Upload => copied[r] <= sent[r] /\ received[r] = 0
  /\ r \in Download => received[r] <= copied[r] /\ (cat[r] = "open" => received[r] = copied[r])

\* The two ends of every stream fit each other at any moment, whatever fails,
\* throws, is given up or comes too late.
StreamsFit == TypeOK /\ \A r \in Request : PathKept(r) /\ EndsMeet(r) /\ PiecesMatch(r)

\* A streamed call that is resolved without a warning has moved the whole
\* stream, whatever was lost on the way and however the two ends stopped.
ResolvedComplete ==
  \A r \in Streamed : call[r] = "resolved" /\ status[r] = "good" =>
    copied[r] = Pieces /\ (r \in Download => received[r] = Pieces)

\* By then its FIFO is gone from the directory, and no file has been made in
\* its place.
ResolvedLeavesNothing ==
  \A r \in Streamed : call[r] = "resolved" => pipe[r] = "none"

\* response_mutex keeps two responses on different lines.
IsResponse(m) == m # NL /\ m[1] = "response"
ResponsesApart ==
  \A i \in 1 .. Len(stdout) - 1 : ~(IsResponse(stdout[i]) /\ IsResponse(stdout[i + 1]))

\* A worker gets rid of its request, unless the client never opens the FIFO: a
\* cat that goes in the middle of a copy, in either direction, stops nobody.
Stuck(r) == pc[r] = "open" /\ cat[r] = "none"
ThreadEnds == \A r \in Request : []<>(pc[r] \in {"none", "end"} \/ Stuck(r))
=============================================================================
