-------------------------- MODULE RpcStreams_proofs --------------------------
(***************************************************************************)
(* Proofs about RpcStreams for any set of requests and any stream length.  *)
(***************************************************************************)
EXTENDS RpcStreams, TLAPS

-----------------------------------------------------------------------------
(* Lines on stdout.                                                        *)

Out == {stdout[i] : i \in DOMAIN stdout}

LEMMA Append_Out ==
  ASSUME TypeOK, NEW m \in Message \cup {NL}, stdout' = Append(stdout, m)
  PROVE  stdout' \in Seq(Message \cup {NL}) /\ Out' = Out \cup {m}
<1>1. stdout' \in Seq(Message \cup {NL}) /\ Len(stdout') = Len(stdout) + 1
  BY DEF TypeOK
<1>2. DOMAIN stdout' = DOMAIN stdout \cup {Len(stdout) + 1}
  BY <1>1 DEF TypeOK
<1>3. /\ stdout'[Len(stdout) + 1] = m
      /\ \A i \in DOMAIN stdout : stdout'[i] = stdout[i]
  BY DEF TypeOK
<1> QED BY <1>1, <1>2, <1>3 DEF Out

LEMMA OnLine_Out ==
  ASSUME TypeOK, OnLine
  PROVE  stdout' \in Seq(Message \cup {NL}) /\ Out' \subseteq Out
<1>1. PICK i \in DOMAIN stdout : stdout' = SubSeq(stdout, i + 1, Len(stdout))
  BY DEF OnLine
<1>2. i \in 1 .. Len(stdout) /\ Len(stdout) \in Nat
  BY DEF TypeOK
<1>3. /\ stdout' \in Seq(Message \cup {NL})
      /\ Len(stdout') = Len(stdout) - i
      /\ \A j \in 1 .. Len(stdout) - i : stdout'[j] = stdout[i + j] /\ i + j \in 1 .. Len(stdout)
  BY SMTT(20), <1>1, <1>2 DEF TypeOK
<1>4. DOMAIN stdout' = 1 .. Len(stdout) - i /\ DOMAIN stdout = 1 .. Len(stdout)
  BY <1>3 DEF TypeOK
<1>5. ASSUME NEW m \in Out' PROVE m \in Out
  <2>1. PICK j \in DOMAIN stdout' : m = stdout'[j]
    BY DEF Out
  <2>2. m = stdout[i + j] /\ i + j \in DOMAIN stdout
    BY <2>1, <1>3, <1>4
  <2> QED BY <2>2 DEF Out
<1> QED BY <1>3, <1>5

\* What OnLine does, with the request of the line that is seen, if any.
LEMMA OnLine_Cases ==
  ASSUME TypeOK, OnLine
  PROVE  /\ UNCHANGED <<kind, pc, threadVars, cat, sent, received>>
         /\ \/ UNCHANGED <<call, transfer>>
            \/ \E r \in Request :
                 /\ call[r] = "pending"
                 /\ \/ /\ <<"notification", r>> \in Out
                       /\ transfer' = [transfer EXCEPT ![r] = "running"]
                       /\ UNCHANGED call
                    \/ /\ <<"response", r>> \in Out
                       /\ call' = [call EXCEPT ![r] = IF transfer[r] = "none" THEN "resolved"
                                                      ELSE "answered"]
                       /\ UNCHANGED transfer
<1>1. PICK i \in DOMAIN stdout :
        /\ stdout[i] = NL /\ \A j \in 1 .. i - 1 : stdout[j] # NL
        /\ IF i # 2 \/ call[stdout[1][2]] # "pending" THEN UNCHANGED <<call, transfer>>
           ELSE LET r == stdout[1][2] IN
             IF stdout[1][1] = "notification"
             THEN transfer' = [transfer EXCEPT ![r] = "running"] /\ UNCHANGED call
             ELSE /\ call' = [call EXCEPT ![r] = IF transfer[r] = "none" THEN "resolved" ELSE "answered"]
                  /\ UNCHANGED transfer
        /\ UNCHANGED <<kind, pc, threadVars, cat, sent, received>>
  BY DEF OnLine
<1>2. CASE i # 2 \/ call[stdout[1][2]] # "pending"
  BY <1>1, <1>2
<1>3. CASE i = 2 /\ call[stdout[1][2]] = "pending"
  <2>1. 1 \in DOMAIN stdout /\ stdout[1] # NL
    BY <1>1, <1>3 DEF TypeOK
  <2>2. stdout[1] \in Message /\ stdout[1] \in Out
    BY <2>1 DEF TypeOK, Out
  <2>3. PICK k \in {"notification", "response"}, r \in Request : stdout[1] = <<k, r>>
    BY <2>2 DEF Message
  <2>4. stdout[1][1] = k /\ stdout[1][2] = r
    BY <2>3
  <2> QED BY <1>1, <1>3, <2>2, <2>3, <2>4
<1> QED BY <1>1, <1>2, <1>3

-----------------------------------------------------------------------------
(* Type correctness: what the client has received the command has copied.  *)

TypeInv == TypeOK /\ \A r \in Request : received[r] <= copied[r]

LEMMA TypeInvInit == Init => TypeInv
BY StreamAssumption DEF Init, TypeInv, TypeOK

LEMMA BeginTypes ==
  ASSUME TypeInv, NEW r \in Request, Begin(r)
  PROVE  TypeInv'
<1> USE DEF TypeInv, TypeOK, Begin, Step, threadVars, InHandler
<1>1. CASE Invalid(r)
  BY <1>1 DEF Invalid
<1>2. CASE NoStream(r)
  BY <1>2 DEF NoStream
<1>3. CASE MakeFifo(r)
  BY <1>3 DEF MakeFifo
<1>4. CASE MakeFifoFails(r)
  BY <1>4 DEF MakeFifoFails
<1> QED BY <1>1, <1>2, <1>3, <1>4

LEMMA WriterTypes ==
  ASSUME TypeInv, NEW r \in Request,
         Notify(r) \/ EndNotification(r) \/ Respond(r) \/ EndResponse(r)
  PROVE  TypeInv'
<1>1. <<"notification", r>> \in Message /\ <<"response", r>> \in Message
  BY DEF Message
<1>2. PICK m \in Message \cup {NL} : stdout' = Append(stdout, m)
  BY <1>1 DEF Notify, EndNotification, Respond, EndResponse
<1>3. stdout' \in Seq(Message \cup {NL})
  BY <1>2, Append_Out DEF TypeInv
<1> USE DEF TypeInv, TypeOK, Step, threadVars, clientVars, InHandler
<1>4. CASE Notify(r)
  BY <1>3, <1>4 DEF Notify
<1>5. CASE EndNotification(r)
  BY <1>3, <1>5 DEF EndNotification
<1>6. CASE Respond(r)
  BY <1>3, <1>6 DEF Respond
<1>7. CASE EndResponse(r)
  BY <1>3, <1>7 DEF EndResponse
<1> QED BY <1>4, <1>5, <1>6, <1>7

LEMMA ThreadTypes ==
  ASSUME TypeInv, NEW r \in Request, Thread(r)
  PROVE  TypeInv'
<1> USE DEF TypeInv, TypeOK, Step, threadVars, clientVars, InHandler
<1>1. CASE Notify(r) \/ EndNotification(r) \/ Respond(r) \/ EndResponse(r)
  BY <1>1, WriterTypes
<1>2. CASE Run(r)
  BY <1>2 DEF Run
<1>9. CASE ReportSize(r)
  BY <1>9 DEF ReportSize
<1>3. CASE OpenPipe(r)
  BY <1>3 DEF OpenPipe
<1>4. CASE CopyFromPipe(r)
  BY SMTT(20), <1>4, StreamAssumption DEF CopyFromPipe
<1>5. CASE EndOfPipe(r)
  BY <1>5 DEF EndOfPipe
<1>10. CASE EndOfFile(r)
  BY <1>10 DEF EndOfFile
<1>6. CASE CopyToPipe(r)
  <2>1. copied[r] + 1 \in 0 .. Pieces /\ received[r] + 1 \in 0 .. Pieces /\ received[r] + 1 <= copied[r] + 1
    BY <1>6, StreamAssumption DEF CopyToPipe, MoreToRead
  <2>2. /\ copied' = [copied EXCEPT ![r] = copied[r] + 1]
        /\ received' \in {received, [received EXCEPT ![r] = received[r] + 1]}
        /\ UNCHANGED <<kind, pc, hasPipe, pipe, status, stdout, call, transfer, cat, sent>>
    BY <1>6 DEF CopyToPipe
  <2>3. copied' \in [Request -> 0 .. Pieces] /\ received' \in [Request -> 0 .. Pieces]
    BY <2>1, <2>2
  <2>4. \A q \in Request : received'[q] <= copied'[q]
    BY <2>1, <2>2
  <2> QED BY <2>2, <2>3, <2>4
<1>7. CASE Clean(r)
  <2>1. pc' \in [Request -> {"clean", "refuse", "respond"} \cup InHandler \cup
                   {"none", "notify", "notified", "responded", "end"}]
    <3>1. CASE Step(r, "clean", "refuse")
      BY <3>1
    <3>2. CASE Step(r, "clean", "respond")
      BY <3>2
    <3> QED BY <1>7, <3>1, <3>2 DEF Clean
  <2>2. pipe' \in [Request -> {"none", "fifo", "file"}]
    BY <1>7 DEF Clean, PipesAfter
  <2>3. UNCHANGED <<kind, hasPipe, copied, status, stdout, clientVars>>
    BY <1>7 DEF Clean
  <2> QED BY <2>1, <2>2, <2>3
<1>8. CASE Refuse(r)
  BY <1>8 DEF Refuse
<1> QED BY <1>1, <1>2, <1>3, <1>4, <1>5, <1>6, <1>7, <1>8, <1>9, <1>10 DEF Thread

LEMMA StreamTypes ==
  ASSUME TypeInv, NEW r \in Request, Stream(r)
  PROVE  TypeInv'
<1> USE DEF TypeInv, TypeOK, threadVars
<1>1. CASE OpenCat(r)
  <2>1. UNCHANGED <<kind, pc, hasPipe, copied, status, stdout, call, sent, received>>
    BY <1>1 DEF OpenCat
  <2>2. CASE /\ cat' = [cat EXCEPT ![r] = "opening"] /\ UNCHANGED <<pipe, transfer>>
    BY <2>1, <2>2
  <2>3. CASE /\ cat' = [cat EXCEPT ![r] = "closed"]
             /\ transfer' = [transfer EXCEPT ![r] = "done"]
             /\ pipe' = [pipe EXCEPT ![r] = IF r \in Upload THEN "file" ELSE @]
    <3>1. pipe' \in [Request -> {"none", "fifo", "file"}]
      BY <2>3
    <3> QED BY <2>1, <2>3, <3>1
  <2> QED BY <1>1, <2>2, <2>3 DEF OpenCat
<1>2. CASE Send(r)
  BY SMTT(20), <1>2, StreamAssumption DEF Send
<1>3. CASE UploadEnds(r)
  <2>1. transfer' \in [Request -> {"none", "running", "done", "failed"}]
    <3>1. CASE transfer' = [transfer EXCEPT ![r] = "done"]
      BY <3>1
    <3>2. CASE transfer' = [transfer EXCEPT ![r] = "failed"]
      BY <3>2
    <3> QED BY <1>3, <3>1, <3>2 DEF UploadEnds
  <2>2. cat' \in [Request -> {"none", "opening", "open", "closed"}]
    BY <1>3 DEF UploadEnds
  <2>3. UNCHANGED <<kind, pc, threadVars, stdout, call, sent, received>>
    BY <1>3 DEF UploadEnds
  <2> QED BY <2>1, <2>2, <2>3
<1>4. CASE DownloadEnds(r)
  <2>1. /\ cat' \in [Request -> {"none", "opening", "open", "closed"}]
        /\ transfer' \in [Request -> {"none", "running", "done", "failed"}]
    <3>1. CASE transfer' = [transfer EXCEPT ![r] = "done"]
      BY <1>4, <3>1 DEF DownloadEnds
    <3>2. CASE transfer' = [transfer EXCEPT ![r] = "failed"]
      BY <1>4, <3>2 DEF DownloadEnds
    <3> QED BY <1>4, <3>1, <3>2 DEF DownloadEnds
  <2>2. received' = received \/ \E n \in 0 .. received[r] : received' = [received EXCEPT ![r] = n]
    BY <1>4 DEF DownloadEnds
  <2>3. /\ received' \in [Request -> 0 .. Pieces]
        /\ \A q \in Request : received'[q] <= copied[q]
    <3>1. CASE received' = received
      BY <3>1
    <3>2. ASSUME NEW n \in 0 .. received[r], received' = [received EXCEPT ![r] = n]
          PROVE  <2>3!1 /\ <2>3!2
      <4>1. received[r] \in 0 .. Pieces /\ copied[r] \in 0 .. Pieces /\ received[r] <= copied[r]
        OBVIOUS
      <4>2. n \in 0 .. Pieces /\ n <= copied[r]
        BY <4>1, StreamAssumption
      <4>3. received' \in [Request -> 0 .. Pieces]
        BY <3>2, <4>2
      <4>4. \A q \in Request : received'[q] = IF q = r THEN n ELSE received[q]
        BY <3>2
      <4> QED BY <4>2, <4>3, <4>4
    <3> QED BY <2>2, <3>1, <3>2
  <2> QED BY <1>4, <2>1, <2>3 DEF DownloadEnds
<1>5. CASE Conclude(r)
  BY <1>5 DEF Conclude
<1> QED BY <1>1, <1>2, <1>3, <1>4, <1>5 DEF Stream

LEMMA OnLineTypes == TypeInv /\ OnLine => TypeInv'
<1> SUFFICES ASSUME TypeInv, OnLine PROVE TypeInv'
  OBVIOUS
<1>1. stdout' \in Seq(Message \cup {NL})
  BY OnLine_Out DEF TypeInv
<1>2. call' \in [Request -> {"none", "pending", "answered", "resolved", "rejected"}]
      /\ transfer' \in [Request -> {"none", "running", "done", "failed"}]
  <2>1. CASE call' = call /\ transfer' = transfer
    BY <2>1 DEF TypeInv, TypeOK
  <2>2. ASSUME NEW r \in Request, transfer' = [transfer EXCEPT ![r] = "running"], call' = call
        PROVE  <1>2!1 /\ <1>2!2
    BY <2>2 DEF TypeInv, TypeOK
  <2>3. ASSUME NEW r \in Request, transfer' = transfer,
               call' = [call EXCEPT ![r] = IF transfer[r] = "none" THEN "resolved" ELSE "answered"]
        PROVE  <1>2!1 /\ <1>2!2
    BY <2>3 DEF TypeInv, TypeOK
  <2> QED BY <2>1, <2>2, <2>3, OnLine_Cases DEF TypeInv
<1>3. UNCHANGED <<kind, pc, threadVars, cat, sent, received>>
  BY OnLine_Cases DEF TypeInv
<1> QED BY <1>1, <1>2, <1>3 DEF TypeInv, TypeOK, threadVars

LEMMA TypeInvNext == TypeInv /\ [Next]_vars => TypeInv'
<1> SUFFICES ASSUME TypeInv, [Next]_vars PROVE TypeInv'
  OBVIOUS
<1>1. ASSUME NEW r \in Request, GiveUp(r) \/ Fail(r) \/ Throw(r) PROVE TypeInv'
  <2> USE DEF TypeInv, TypeOK, Step, threadVars, clientVars, InHandler
  <2>1. CASE GiveUp(r)
    BY <2>1 DEF GiveUp
  <2>2. CASE Fail(r)
    BY <2>2 DEF Fail
  <2>3. CASE Throw(r)
    BY <2>3 DEF Throw
  <2> QED BY <1>1, <2>1, <2>2, <2>3
<1>2. CASE UNCHANGED vars
  BY <1>2 DEF TypeInv, TypeOK, vars, threadVars, clientVars
<1> QED BY <1>1, <1>2, BeginTypes, ThreadTypes, StreamTypes, OnLineTypes DEF Next

\* Every variable keeps its type, for any requests and any stream length; no
\* stream is ever longer than what was sent.
THEOREM TypeCorrect == Spec => []TypeOK
<1>1. Spec => []TypeInv
  BY TypeInvInit, TypeInvNext, PTL DEF Spec
<1>2. TypeInv => TypeOK
  BY DEF TypeInv
<1> QED BY <1>1, <1>2, PTL

-----------------------------------------------------------------------------
(* Responses on lines of their own.                                        *)

\* A response without its newline is the last thing on stdout, and its writer
\* still holds response_mutex.
OpenEnded == stdout # <<>> /\ IsResponse(stdout[Len(stdout)])
HeldInv == OpenEnded => ~MutexFree
ApartInv == ResponsesApart /\ HeldInv

LEMMA LastOfTail ==
  ASSUME NEW S, NEW s \in Seq(S), NEW i \in 1 .. Len(s), SubSeq(s, i + 1, Len(s)) # <<>>
  PROVE  /\ s # <<>>
         /\ SubSeq(s, i + 1, Len(s))[Len(SubSeq(s, i + 1, Len(s)))] = s[Len(s)]
<1> DEFINE t == SubSeq(s, i + 1, Len(s))
<1>1. t \in Seq(S) /\ Len(t) = Len(s) - i
  OBVIOUS
<1>2. Len(t) \in 1 .. Len(s) - i
  <2>1. Len(t) # 0
    BY <1>1
  <2> QED BY <1>1, <2>1
<1>3. \A j \in 1 .. Len(s) - i : t[j] = s[i + j]
  OBVIOUS
<1> HIDE DEF t
<1>4. t[Len(t)] = s[i + Len(t)]
  BY <1>2, <1>3
<1>5. i + Len(t) = Len(s)
  BY <1>1
<1>6. s # <<>> /\ t[Len(t)] = s[Len(s)]
  BY <1>4, <1>5
<1> QED BY <1>6 DEF t

LEMMA ApartAppend ==
  ASSUME TypeOK, ApartInv, NEW m \in Message \cup {NL}, stdout' = Append(stdout, m),
         IsResponse(m) => MutexFree
  PROVE  ResponsesApart' /\ (OpenEnded' => IsResponse(m))
<1>1. /\ Len(stdout) \in Nat /\ Len(stdout') = Len(stdout) + 1
      /\ stdout'[Len(stdout) + 1] = m
      /\ \A i \in 1 .. Len(stdout) : stdout'[i] = stdout[i]
  BY DEF TypeOK
<1>2. OpenEnded' => IsResponse(m)
  BY <1>1 DEF OpenEnded, IsResponse
<1>3. ASSUME NEW i \in 1 .. Len(stdout') - 1, IsResponse(stdout'[i]), IsResponse(stdout'[i + 1])
      PROVE  FALSE
  <2>1. CASE i + 1 <= Len(stdout)
    <3>1. i \in 1 .. Len(stdout) - 1 /\ stdout'[i] = stdout[i] /\ stdout'[i + 1] = stdout[i + 1]
      BY <1>1, <2>1
    <3> QED BY <1>3, <3>1 DEF ApartInv, ResponsesApart
  <2>2. CASE i = Len(stdout)
    <3>1. stdout # <<>> /\ stdout'[i] = stdout[Len(stdout)] /\ stdout'[i + 1] = m
      BY <1>1, <2>2
    <3>2. OpenEnded /\ MutexFree
      BY <1>3, <3>1 DEF OpenEnded
    <3> QED BY <3>2 DEF ApartInv, HeldInv
  <2> QED BY <1>1, <2>1, <2>2
<1>4. ResponsesApart'
  BY <1>3 DEF ResponsesApart, IsResponse
<1> QED BY <1>2, <1>4

LEMMA ApartInvNext == TypeOK /\ ApartInv /\ [Next]_vars => ApartInv'
<1> SUFFICES ASSUME TypeOK, ApartInv, [Next]_vars PROVE ApartInv'
  OBVIOUS
<1>1. ASSUME NEW r \in Request, Respond(r) PROVE ApartInv'
  <2>1. <<"response", r>> \in Message
    BY DEF Message
  <2>2. ResponsesApart'
    BY <1>1, <2>1, ApartAppend DEF Respond
  <2>3. pc'[r] = "responded"
    BY <1>1 DEF Respond, Step, TypeOK
  <2> QED BY <2>2, <2>3 DEF ApartInv, HeldInv, MutexFree
<1>2. ASSUME NEW r \in Request, Notify(r) PROVE ApartInv'
  <2>1. <<"notification", r>> \in Message /\ ~IsResponse(<<"notification", r>>)
    BY DEF Message, IsResponse
  <2>2. ResponsesApart' /\ ~OpenEnded'
    BY <1>2, <2>1, ApartAppend DEF Notify
  <2> QED BY <2>2 DEF ApartInv, HeldInv
<1>3. ASSUME NEW r \in Request, EndNotification(r) \/ EndResponse(r) PROVE ApartInv'
  <2>1. ~IsResponse(NL)
    BY DEF IsResponse
  <2>2. ResponsesApart' /\ ~OpenEnded'
    BY <1>3, <2>1, ApartAppend DEF EndNotification, EndResponse
  <2> QED BY <2>2 DEF ApartInv, HeldInv
<1>4. ASSUME OnLine PROVE ApartInv'
  <2>1. PICK i \in DOMAIN stdout : stdout' = SubSeq(stdout, i + 1, Len(stdout))
    BY <1>4 DEF OnLine
  <2>2. i \in 1 .. Len(stdout) /\ Len(stdout) \in Nat
    BY DEF TypeOK
  <2>3. /\ Len(stdout') = Len(stdout) - i
        /\ \A j \in 1 .. Len(stdout) - i : stdout'[j] = stdout[i + j]
    BY <2>1, <2>2 DEF TypeOK
  <2>4. ResponsesApart'
    <3>1. ASSUME NEW j \in 1 .. Len(stdout') - 1
          PROVE  ~(IsResponse(stdout'[j]) /\ IsResponse(stdout'[j + 1]))
      <4>1. /\ j \in 1 .. Len(stdout) - i /\ j + 1 \in 1 .. Len(stdout) - i
            /\ i + j \in 1 .. Len(stdout) - 1 /\ i + (j + 1) = (i + j) + 1
        BY <2>2, <2>3
      <4>2. stdout'[j] = stdout[i + j] /\ stdout'[j + 1] = stdout[(i + j) + 1]
        BY SMTT(20), <4>1, <2>3
      <4> QED BY <4>1, <4>2 DEF ApartInv, ResponsesApart
    <3> QED BY <3>1 DEF ResponsesApart, IsResponse
  <2>5. OpenEnded' => OpenEnded
    <3>1. SubSeq(stdout, i + 1, Len(stdout)) # <<>> =>
            stdout # <<>> /\ SubSeq(stdout, i + 1, Len(stdout))[Len(SubSeq(stdout, i + 1, Len(stdout)))]
                              = stdout[Len(stdout)]
      BY <2>2, LastOfTail DEF TypeOK
    <3>2. stdout' # <<>> => stdout # <<>> /\ stdout'[Len(stdout')] = stdout[Len(stdout)]
      BY <2>1, <3>1, Zenon
    <3> QED BY <3>2 DEF OpenEnded, IsResponse
  <2>6. MutexFree' <=> MutexFree
    BY <1>4, OnLine_Cases DEF MutexFree
  <2> QED BY <2>4, <2>5, <2>6 DEF ApartInv, HeldInv
<1>5. ASSUME stdout' = stdout, \A r \in Request : pc[r] = "responded" => pc'[r] = "responded"
      PROVE  ApartInv'
  BY <1>5 DEF ApartInv, ResponsesApart, HeldInv, OpenEnded, MutexFree, IsResponse
<1>6. ASSUME NEW r \in Request, Begin(r) \/ Run(r) \/ ReportSize(r) \/ OpenPipe(r) \/ EndOfPipe(r)
                \/ EndOfFile(r) \/ Clean(r) \/ Refuse(r) \/ Fail(r) \/ Throw(r)
      PROVE  ApartInv'
  <2>1. stdout' = stdout
    BY <1>6 DEF Begin, Run, ReportSize, OpenPipe, EndOfPipe, EndOfFile, Clean, Refuse, Fail, Throw,
                clientVars
  <2>2. pc[r] # "responded" /\ \E to : pc' = [pc EXCEPT ![r] = to]
    BY <1>6 DEF Begin, Invalid, NoStream, MakeFifo, MakeFifoFails, Run, ReportSize, OpenPipe,
                EndOfPipe, EndOfFile, Clean, Refuse, Fail, Throw, Step, InHandler
  <2> QED BY <2>1, <2>2, <1>5 DEF TypeOK
<1>7. ASSUME NEW r \in Request, GiveUp(r) \/ CopyFromPipe(r) \/ CopyToPipe(r) \/ Stream(r)
      PROVE  ApartInv'
  BY <1>7, <1>5 DEF GiveUp, CopyFromPipe, CopyToPipe, Stream, OpenCat, Send, UploadEnds,
                    DownloadEnds, Conclude, threadVars
<1>8. CASE UNCHANGED vars
  BY <1>8, <1>5 DEF vars
<1> QED BY <1>1, <1>2, <1>3, <1>4, <1>6, <1>7, <1>8 DEF Next, Thread

\* With any number of threads that respond, notify and fail, response_mutex
\* keeps two responses from sharing a line.
THEOREM ResponsesStayApart == Spec => []ResponsesApart
<1>1. Init => ApartInv
  BY DEF Init, ApartInv, ResponsesApart, HeldInv, OpenEnded
<1>2. Spec => []TypeOK
  BY TypeCorrect
<1>3. ApartInv => ResponsesApart
  BY DEF ApartInv
<1> QED BY <1>1, <1>2, <1>3, ApartInvNext, PTL DEF Spec

-----------------------------------------------------------------------------
(* A resolved stream.                                                      *)

\* The command has returned without failing, or the client is beyond that.
Answering(q) ==
  \/ pc[q] \in {"respond", "responded"}
  \/ <<"response", q>> \in Out
  \/ call[q] \in {"answered", "resolved"}

\* A request without a FIFO is never notified, and has no stream.
NoPipeInv(q) ==
  /\ pc[q] = "none" => ~hasPipe[q] /\ status[q] = "good"
  /\ hasPipe[q] => kind[q] # "plain" /\ status[q] # "warned"
  /\ ~hasPipe[q] =>
       /\ pipe[q] = "none" /\ transfer[q] = "none"
       /\ <<"notification", q>> \notin Out
       /\ pc[q] \notin {"notify", "notified", "open", "copy"}
  /\ ~hasPipe[q] /\ kind[q] # "plain" /\ status[q] = "good" =>
       pc[q] \in {"none", "refuse", "end"} /\ ~Answering(q)

\* The remote cat belongs to a transfer, and the command only copies when it
\* has opened the other end.
CatInv(q) ==
  /\ transfer[q] = "none" => cat[q] = "none"
  /\ transfer[q] \in {"done", "failed"} => cat[q] = "closed"
  /\ pc[q] = "copy" => cat[q] \in {"open", "closed"}

\* An answer comes after the FIFO is removed and, unless there was a warning,
\* after everything was copied.
AnswerInv(q) ==
  /\ Answering(q) => /\ pc[q] \in {"respond", "responded", "end"}
                     /\ status[q] # "failed" /\ pipe[q] = "none"
  /\ hasPipe[q] /\ status[q] = "good" /\ (pc[q] = "clean" \/ Answering(q)) =>
       cat[q] \in {"open", "closed"} /\ (kind[q] = "download" => copied[q] = Pieces)
  /\ hasPipe[q] /\ status[q] = "good" /\ call[q] = "resolved" =>
       /\ cat[q] = "closed" /\ copied[q] = Pieces
       /\ kind[q] = "download" => received[q] = Pieces

RequestInv(q) == NoPipeInv(q) /\ CatInv(q) /\ AnswerInv(q)
StreamInv == \A q \in Request : RequestInv(q)

LEMMA StreamInvInit == Init => StreamInv
<1>1. Init => Out = {}
  BY DEF Init, Out
<1> QED BY <1>1 DEF Init, StreamInv, RequestInv, NoPipeInv, CatInv, AnswerInv, Answering

\* A request that a step does not touch.
LEMMA Untouched ==
  ASSUME NEW q \in Request, RequestInv(q),
         kind'[q] = kind[q], pc'[q] = pc[q], hasPipe'[q] = hasPipe[q], pipe'[q] = pipe[q],
         copied'[q] = copied[q], status'[q] = status[q], call'[q] = call[q],
         transfer'[q] = transfer[q], cat'[q] = cat[q], received'[q] = received[q],
         \A k \in {"notification", "response"} : <<k, q>> \in Out' => <<k, q>> \in Out
  PROVE  RequestInv(q)'
BY DEF RequestInv, NoPipeInv, CatInv, AnswerInv, Answering

\* What any step of request r leaves of the others.
LEMMA OthersUntouched ==
  ASSUME TypeOK, NEW r \in Request, NEW q \in Request \ {r}, RequestInv(q),
         Begin(r) \/ GiveUp(r) \/ Thread(r) \/ Fail(r) \/ Throw(r) \/ Stream(r)
  PROVE  RequestInv(q)'
<1> USE DEF TypeOK, Step, threadVars, clientVars
<1>1. CASE Begin(r)
  <2>1. Out' = Out
    BY <1>1 DEF Begin, Out
  <2>2. kind'[q] = kind[q] /\ pc'[q] = pc[q] /\ call'[q] = call[q]
    BY <1>1 DEF Begin, Invalid, NoStream, MakeFifo, MakeFifoFails
  <2>3. /\ hasPipe'[q] = hasPipe[q] /\ pipe'[q] = pipe[q] /\ copied'[q] = copied[q]
        /\ status'[q] = status[q] /\ transfer'[q] = transfer[q]
        /\ cat'[q] = cat[q] /\ received'[q] = received[q]
    BY <1>1 DEF Begin, Invalid, NoStream, MakeFifo, MakeFifoFails
  <2> QED BY <2>1, <2>2, <2>3, Untouched
<1>2. CASE GiveUp(r) \/ Fail(r) \/ Throw(r) \/ Run(r) \/ ReportSize(r) \/ OpenPipe(r)
             \/ CopyFromPipe(r) \/ EndOfPipe(r) \/ CopyToPipe(r) \/ EndOfFile(r) \/ Clean(r)
             \/ Refuse(r)
  <2> USE DEF GiveUp, Fail, Throw, Run, ReportSize, OpenPipe, CopyFromPipe, EndOfPipe, CopyToPipe,
              EndOfFile, Clean, Refuse, PipesAfter
  <2>1. Out' = Out
    BY <1>2 DEF Out
  <2>2. /\ kind' = kind /\ hasPipe' = hasPipe /\ transfer' = transfer
        /\ pc'[q] = pc[q] /\ pipe'[q] = pipe[q] /\ copied'[q] = copied[q]
        /\ status'[q] = status[q] /\ call'[q] = call[q] /\ cat'[q] = cat[q]
        /\ received'[q] = received[q]
    BY <1>2
  <2> QED BY <2>1, <2>2, Untouched
<1>3. CASE Notify(r) \/ EndNotification(r) \/ Respond(r) \/ EndResponse(r)
  <2>1. /\ <<"notification", r>> \in Message /\ <<"response", r>> \in Message
        /\ \A k \in {"notification", "response"} : <<k, q>> # NL
    BY StreamAssumption DEF Message
  <2>2. \A k \in {"notification", "response"} : <<k, q>> \in Out' => <<k, q>> \in Out
    <3>1. PICK m \in {<<"notification", r>>, <<"response", r>>, NL} : stdout' = Append(stdout, m)
      BY <1>3 DEF Notify, EndNotification, Respond, EndResponse
    <3>2. Out' = Out \cup {m}
      BY <2>1, <3>1, Append_Out
    <3> QED BY <2>1, <3>2
  <2> QED BY <1>3, <2>2, Untouched DEF Notify, EndNotification, Respond, EndResponse
<1>4. CASE Stream(r)
  <2>1. Out' = Out
    BY <1>4 DEF Stream, OpenCat, Send, UploadEnds, DownloadEnds, Conclude, Out
  <2>2. /\ kind' = kind /\ pc' = pc /\ hasPipe' = hasPipe /\ copied' = copied /\ status' = status
        /\ pipe'[q] = pipe[q] /\ call'[q] = call[q] /\ transfer'[q] = transfer[q]
        /\ cat'[q] = cat[q] /\ received'[q] = received[q]
    BY <1>4 DEF Stream, OpenCat, Send, UploadEnds, DownloadEnds, Conclude
  <2> QED BY <2>1, <2>2, Untouched
<1> QED BY <1>1, <1>2, <1>3, <1>4 DEF Thread

\* What a step of request r makes of r: up to the handler, and giving up.
LEMMA OwnBegin ==
  ASSUME TypeOK, NEW r \in Request, RequestInv(r), Begin(r) \/ GiveUp(r)
  PROVE  RequestInv(r)'
<1> USE DEF TypeOK, Step, threadVars, RequestInv, NoPipeInv, CatInv, AnswerInv, Answering
<1>1. Out' = Out
  BY DEF Begin, GiveUp, threadVars, Out
<1>2. CASE GiveUp(r)
  BY <1>1, <1>2 DEF GiveUp
<1>3. ASSUME Begin(r) PROVE pc[r] = "none" /\ ~hasPipe[r] /\ status[r] = "good" /\ ~Answering(r)
                            /\ ~Answering(r)' /\ UNCHANGED <<kind, transfer, cat, received>>
  BY <1>1, <1>3 DEF Begin, Invalid, NoStream, MakeFifo, MakeFifoFails
<1>4. CASE Begin(r) /\ (Invalid(r) \/ NoStream(r))
  <2>1. pc'[r] = "refuse" \/ (kind[r] = "plain" /\ pc'[r] = "handle")
    <3>1. r \notin Streamed => kind[r] = "plain"
      BY DEF Streamed, Upload, Download
    <3> QED BY <1>4, <3>1 DEF Invalid, NoStream
  <2> QED BY <1>1, <1>3, <1>4, <2>1 DEF Invalid, NoStream
<1>5. CASE Begin(r) /\ MakeFifo(r)
  BY <1>1, <1>3, <1>5 DEF MakeFifo, Streamed, Upload, Download
<1>6. CASE Begin(r) /\ MakeFifoFails(r)
  BY <1>1, <1>3, <1>6 DEF MakeFifoFails
<1> QED BY <1>2, <1>4, <1>5, <1>6 DEF Begin

\* The steps of its thread that leave stdout alone.
LEMMA OwnHandler ==
  ASSUME TypeOK, NEW r \in Request, RequestInv(r),
         \/ Run(r) \/ ReportSize(r) \/ OpenPipe(r) \/ CopyFromPipe(r) \/ EndOfPipe(r)
         \/ CopyToPipe(r) \/ EndOfFile(r) \/ Clean(r) \/ Refuse(r) \/ Fail(r) \/ Throw(r)
  PROVE  RequestInv(r)'
<1> USE DEF TypeOK, Step, threadVars, clientVars, RequestInv, NoPipeInv, CatInv, AnswerInv,
            Answering, Upload, Download, InHandler
<1>1. Out' = Out
  BY DEF Run, ReportSize, OpenPipe, CopyFromPipe, EndOfPipe, CopyToPipe, EndOfFile, Clean, Refuse,
         Fail, Throw, Out
<1>2. CASE Run(r) \/ ReportSize(r)
  BY <1>1, <1>2 DEF Run, ReportSize
<1>3. CASE OpenPipe(r)
  BY <1>1, <1>3 DEF OpenPipe
<1>4. CASE CopyFromPipe(r)
  BY <1>1, <1>4 DEF CopyFromPipe
<1>5. CASE EndOfPipe(r)
  BY <1>1, <1>5 DEF EndOfPipe, InputEnds
<1>6. CASE CopyToPipe(r)
  BY <1>1, <1>6 DEF CopyToPipe
<1>7. CASE EndOfFile(r)
  BY <1>1, <1>7 DEF EndOfFile
<1>8. CASE Clean(r)
  <2>1. /\ pc[r] = "clean" /\ pipe'[r] = "none" /\ ~Answering(r)
        /\ pc'[r] = "refuse" \/ (pc'[r] = "respond" /\ status[r] # "failed")
        /\ UNCHANGED <<kind, hasPipe, copied, status, call, transfer, cat, received>>
    BY <1>8 DEF Clean, PipesAfter
  <2> QED BY <1>1, <2>1
<1>9. CASE Refuse(r)
  BY <1>1, <1>9 DEF Refuse
<1>10. CASE Fail(r)
  BY <1>1, <1>10 DEF Fail
<1>11. CASE Throw(r)
  BY <1>1, <1>11 DEF Throw
<1> QED BY <1>2, <1>3, <1>4, <1>5, <1>6, <1>7, <1>8, <1>9, <1>10, <1>11

\* The steps that write.
LEMMA OwnWriter ==
  ASSUME TypeOK, NEW r \in Request, RequestInv(r),
         Notify(r) \/ EndNotification(r) \/ Respond(r) \/ EndResponse(r)
  PROVE  RequestInv(r)'
<1> USE DEF TypeOK, Step, threadVars, clientVars, RequestInv, NoPipeInv, CatInv, AnswerInv,
            Answering
<1>1. /\ <<"notification", r>> \in Message /\ <<"response", r>> \in Message
      /\ <<"notification", r>> # NL /\ <<"response", r>> # NL
  BY StreamAssumption DEF Message
<1>2. CASE Notify(r)
  <2>1. Out' = Out \cup {<<"notification", r>>}
    BY <1>1, <1>2, Append_Out DEF Notify
  <2>2. <<"response", r>> \in Out' => <<"response", r>> \in Out
    BY <2>1
  <2> QED BY <1>2, <2>2 DEF Notify
<1>3. CASE EndNotification(r) \/ EndResponse(r)
  <2>1. Out' = Out \cup {NL}
    BY <1>1, <1>3, Append_Out DEF EndNotification, EndResponse
  <2>2. /\ <<"response", r>> \in Out' => <<"response", r>> \in Out
        /\ <<"notification", r>> \in Out' => <<"notification", r>> \in Out
    BY <1>1, <2>1
  <2> QED BY <1>3, <2>2 DEF EndNotification, EndResponse
<1>4. CASE Respond(r)
  <2>1. Out' = Out \cup {<<"response", r>>}
    BY <1>1, <1>4, Append_Out DEF Respond
  <2>2. <<"notification", r>> \in Out' => <<"notification", r>> \in Out
    BY <2>1
  <2> QED BY <1>4, <2>2 DEF Respond
<1> QED BY <1>2, <1>3, <1>4

\* Its stream at the client.
LEMMA OwnStream ==
  ASSUME TypeOK, NEW r \in Request, RequestInv(r), Stream(r)
  PROVE  RequestInv(r)'
<1> USE DEF TypeOK, threadVars, RequestInv, NoPipeInv, CatInv, AnswerInv, Answering, Upload, Download
<1>1. Out' = Out
  BY DEF Stream, OpenCat, Send, UploadEnds, DownloadEnds, Conclude, Out
<1>2. CASE OpenCat(r)
  <2>1. ~Answering(r) /\ hasPipe[r] /\ ~(pc[r] = "clean" /\ status[r] = "good")
    BY <1>2 DEF OpenCat
  <2>2. /\ UNCHANGED <<kind, pc, hasPipe, copied, status, call, received>>
        /\ cat'[r] \in {"opening", "closed"} /\ cat[r] = "none"
        /\ transfer'[r] = "running" \/ (transfer'[r] = "done" /\ cat'[r] = "closed")
    BY <1>2 DEF OpenCat
  <2> QED BY <1>1, <2>1, <2>2
<1>3. CASE Send(r)
  BY <1>1, <1>3 DEF Send
<1>4. CASE UploadEnds(r)
  BY <1>1, <1>4 DEF UploadEnds
<1>5. CASE DownloadEnds(r)
  <2>1. /\ UNCHANGED <<kind, pc, hasPipe, pipe, copied, status, call>>
        /\ cat[r] = "open" /\ cat'[r] = "closed" /\ transfer'[r] \in {"done", "failed"}
    BY <1>5 DEF DownloadEnds
  <2>2. ~hasPipe[r] \/ status[r] # "good" \/ call[r] # "resolved"
    BY <2>1
  <2>3. transfer[r] # "none"
    BY <2>1
  <2> QED BY <1>1, <2>1, <2>2, <2>3
<1>6. CASE Conclude(r)
  <2>1. \/ call[r] = "answered" /\ cat[r] = "closed" /\ copied[r] = Counted(r)
        \/ call'[r] = "rejected"
    BY <1>6 DEF Conclude, LengthMatches
  <2> QED BY <1>1, <1>6, <2>1 DEF Conclude, Counted
<1> QED BY <1>2, <1>3, <1>4, <1>5, <1>6 DEF Stream

LEMMA LineSeen == TypeOK /\ StreamInv /\ OnLine => StreamInv'
<1> SUFFICES ASSUME TypeOK, StreamInv, OnLine, NEW q \in Request PROVE RequestInv(q)'
  BY DEF StreamInv
<1>1. Out' \subseteq Out
  BY OnLine_Out
<1>2. UNCHANGED <<kind, pc, hasPipe, pipe, copied, status, cat, sent, received>>
  BY OnLine_Cases DEF threadVars
<1>3. RequestInv(q)
  BY DEF StreamInv
<1>4. CASE call'[q] = call[q] /\ transfer'[q] = transfer[q]
  BY <1>1, <1>2, <1>3, <1>4, Untouched
<1>5. CASE /\ <<"notification", q>> \in Out /\ transfer'[q] = "running" /\ call'[q] = call[q]
  BY <1>1, <1>2, <1>3, <1>5 DEF RequestInv, NoPipeInv, CatInv, AnswerInv, Answering
<1>6. CASE /\ <<"response", q>> \in Out /\ transfer'[q] = transfer[q]
           /\ call'[q] = IF transfer[q] = "none" THEN "resolved" ELSE "answered"
  <2>1. Answering(q)
    BY <1>6 DEF Answering
  <2>2. hasPipe[q] /\ status[q] = "good" => transfer[q] # "none"
    BY <1>3, <2>1 DEF RequestInv, CatInv, AnswerInv
  <2> QED BY <1>1, <1>2, <1>3, <1>6, <2>1, <2>2
          DEF RequestInv, NoPipeInv, CatInv, AnswerInv, Answering
<1>7. ASSUME NEW r \in Request, call[r] = "pending", <<"notification", r>> \in Out,
             transfer' = [transfer EXCEPT ![r] = "running"], call' = call
      PROVE  RequestInv(q)'
  BY <1>4, <1>5, <1>7 DEF TypeOK
<1>8. ASSUME NEW r \in Request, call[r] = "pending", <<"response", r>> \in Out,
             call' = [call EXCEPT ![r] = IF transfer[r] = "none" THEN "resolved" ELSE "answered"],
             transfer' = transfer
      PROVE  RequestInv(q)'
  BY <1>4, <1>6, <1>8 DEF TypeOK
<1> QED BY <1>4, <1>7, <1>8, OnLine_Cases

LEMMA StreamInvNext == TypeOK /\ StreamInv /\ [Next]_vars => StreamInv'
<1> SUFFICES ASSUME TypeOK, StreamInv, [Next]_vars PROVE StreamInv'
  OBVIOUS
<1>1. CASE UNCHANGED vars
  <2>1. Out' = Out
    BY <1>1 DEF vars, Out
  <2> QED BY <1>1, <2>1, Untouched DEF vars, threadVars, clientVars, StreamInv
<1>2. ASSUME NEW r \in Request,
             Begin(r) \/ GiveUp(r) \/ Thread(r) \/ Fail(r) \/ Throw(r) \/ Stream(r)
      PROVE  StreamInv'
  <2>1. RequestInv(r)'
    BY <1>2, OwnBegin, OwnHandler, OwnWriter, OwnStream DEF StreamInv, Thread
  <2>2. \A q \in Request \ {r} : RequestInv(q)'
    BY <1>2, OthersUntouched DEF StreamInv
  <2> QED BY <2>1, <2>2 DEF StreamInv
<1> QED BY <1>1, <1>2, LineSeen DEF Next

LEMMA StreamInvAlways == Spec => []StreamInv
BY TypeCorrect, StreamInvInit, StreamInvNext, PTL DEF Spec

\* For any requests and any stream length: a streamed call that resolves without
\* a warning has moved the whole stream, although either end may stop early,
\* the last bytes may get lost and the server takes any end of file for success.
THEOREM ResolvedIsComplete == Spec => []ResolvedComplete
<1>1. StreamInv => ResolvedComplete
  BY DEF StreamInv, RequestInv, NoPipeInv, AnswerInv, Answering, ResolvedComplete, Streamed, Upload, Download
<1> QED BY <1>1, StreamInvAlways, PTL

\* And neither its FIFO nor a file in its place is left in the directory,
\* although the client opens the path on its own and may come too late.
THEOREM ResolvedLeavesNoPipe == Spec => []ResolvedLeavesNothing
<1>1. StreamInv => ResolvedLeavesNothing
  BY DEF StreamInv, RequestInv, AnswerInv, Answering, ResolvedLeavesNothing, Streamed, Upload, Download
<1> QED BY <1>1, StreamInvAlways, PTL

-----------------------------------------------------------------------------
(* The two ends of a stream.                                               *)

\* A call is pending from the beginning.  If its request has ended and the call
\* has not, the request was answered, and the line with the answer is on its way
\* or was spoiled.
AnsweredLate(q) ==
  /\ pc[q] # "none" => call[q] # "none"
  /\ pc[q] = "end" /\ call[q] = "pending" /\ hasPipe[q] => cat[q] \in {"open", "closed"}

FitInv(q) == PathKept(q) /\ EndsMeet(q) /\ PiecesMatch(q) /\ AnsweredLate(q)

EndsInv == \A q \in Request : FitInv(q)

\* What an ended or answering request knows of its cat, so that a late cat is
\* none of an answered call.
LEMMA LateCat ==
  ASSUME TypeOK, NEW r \in Request, RequestInv(r), FitInv(r),
         transfer[r] = "running", cat[r] = "none", pipe[r] # "fifo"
  PROVE  /\ hasPipe[r] /\ pc[r] \in {"refuse", "end"}
         /\ pc[r] = "end" => call[r] = "rejected"
<1> USE DEF RequestInv, NoPipeInv, CatInv, AnswerInv, Answering, FitInv, PathKept, AnsweredLate, TypeOK
<1>1. hasPipe[r] /\ status[r] # "warned" BY DEF TypeOK
<1>2. pc[r] \in {"refuse", "end", "respond", "responded"} BY <1>1 DEF InHandler
<1>3. ~Answering(r) BY <1>1 DEF Answering
<1>4. pc[r] \in {"refuse", "end"} BY <1>2, <1>3
<1>5. pc[r] = "end" => call[r] = "rejected"
  <2>1. call[r] \notin {"answered", "resolved"} BY <1>3
  <2> QED BY <1>1, <2>1
<1> QED BY <1>1, <1>4, <1>5

\* A request that a step does not touch.
LEMMA FitUntouched ==
  ASSUME NEW q \in Request, FitInv(q),
         kind'[q] = kind[q], pc'[q] = pc[q], hasPipe'[q] = hasPipe[q], pipe'[q] = pipe[q],
         copied'[q] = copied[q], call'[q] = call[q], transfer'[q] = transfer[q],
         cat'[q] = cat[q], sent'[q] = sent[q], received'[q] = received[q]
  PROVE  FitInv(q)'
BY DEF FitInv, PathKept, EndsMeet, PiecesMatch, AnsweredLate, Upload, Download

LEMMA FitOthers ==
  ASSUME TypeOK, NEW r \in Request, NEW q \in Request \ {r}, FitInv(q),
         Begin(r) \/ GiveUp(r) \/ Thread(r) \/ Fail(r) \/ Throw(r) \/ Stream(r)
  PROVE  FitInv(q)'
<1> USE DEF TypeOK, Step, threadVars, clientVars
<1>1. CASE Begin(r)
  BY <1>1, FitUntouched DEF Begin, Invalid, NoStream, MakeFifo, MakeFifoFails
<1>2. CASE GiveUp(r) \/ Fail(r) \/ Throw(r)
  BY <1>2, FitUntouched DEF GiveUp, Fail, Throw
<1>3. CASE Notify(r) \/ EndNotification(r) \/ Run(r) \/ ReportSize(r) \/ OpenPipe(r)
  BY <1>3, FitUntouched DEF Notify, EndNotification, Run, ReportSize, OpenPipe
<1>4. CASE CopyFromPipe(r) \/ EndOfPipe(r) \/ CopyToPipe(r) \/ EndOfFile(r)
  BY <1>4, FitUntouched DEF CopyFromPipe, EndOfPipe, CopyToPipe, EndOfFile
<1>5. CASE Clean(r) \/ Respond(r) \/ EndResponse(r) \/ Refuse(r)
  BY <1>5, FitUntouched DEF Clean, PipesAfter, Respond, EndResponse, Refuse
<1>6. CASE Stream(r)
  BY <1>6, FitUntouched DEF Stream, OpenCat, Send, UploadEnds, DownloadEnds, Conclude
<1> QED BY <1>1, <1>2, <1>3, <1>4, <1>5, <1>6 DEF Thread

LEMMA FitBegin ==
  ASSUME TypeOK, NEW r \in Request, RequestInv(r), FitInv(r), Begin(r) \/ GiveUp(r)
  PROVE  FitInv(r)'
<1> USE DEF TypeOK, Step, threadVars, FitInv, PathKept, EndsMeet, PiecesMatch, AnsweredLate,
            Upload, Download, InHandler
<1>1. CASE GiveUp(r)
  BY <1>1 DEF GiveUp, RequestInv, AnswerInv, Answering
<1>2. CASE Begin(r)
  <2>1. /\ pc[r] = "none" /\ call'[r] = "pending" /\ pipe[r] = "none" /\ ~hasPipe[r]
        /\ UNCHANGED <<kind, copied, transfer, cat, sent, received>>
    BY <1>2 DEF Begin, Invalid, NoStream, MakeFifo, MakeFifoFails, RequestInv, NoPipeInv
  <2>2. \/ pc'[r] \in {"refuse", "handle"} /\ pipe'[r] = "none" /\ ~hasPipe'[r]
        \/ pc'[r] \in {"notify", "handle"} /\ pipe'[r] = "fifo" /\ hasPipe'[r]
    BY <1>2, <2>1 DEF Begin, Invalid, NoStream, MakeFifo, MakeFifoFails
  <2> QED BY <2>1, <2>2
<1> QED BY <1>1, <1>2

\* Its thread: to the FIFO, ...
LEMMA FitHandler ==
  ASSUME TypeOK, NEW r \in Request, RequestInv(r), FitInv(r),
         \/ Notify(r) \/ EndNotification(r) \/ Run(r) \/ ReportSize(r) \/ OpenPipe(r)
         \/ CopyFromPipe(r) \/ EndOfPipe(r) \/ CopyToPipe(r) \/ EndOfFile(r) \/ Fail(r) \/ Throw(r)
  PROVE  FitInv(r)'
<1> USE DEF TypeOK, Step, threadVars, clientVars, FitInv, PathKept, EndsMeet, PiecesMatch,
            AnsweredLate, Upload, Download, InHandler
<1>1. CASE Notify(r) \/ EndNotification(r)
  BY <1>1 DEF Notify, EndNotification
<1>2. CASE Run(r) \/ ReportSize(r)
  BY <1>2 DEF Run, ReportSize
<1>3. CASE OpenPipe(r)
  <2>1. /\ pc[r] = "open" /\ pc'[r] = "copy" /\ cat'[r] = "open"
        /\ UNCHANGED <<kind, hasPipe, pipe, copied, call, transfer, sent, received>>
    BY <1>3 DEF OpenPipe
  <2>2. copied[r] = 0 /\ (r \in Download => received[r] = copied[r])
    BY <2>1
  <2> QED BY <2>1, <2>2
<1>4. CASE CopyFromPipe(r)
  <2>1. /\ pc[r] = "copy" /\ kind[r] = "upload" /\ copied[r] < sent[r] /\ copied'[r] = copied[r] + 1
        /\ UNCHANGED <<kind, pc, hasPipe, pipe, call, transfer, cat, sent, received>>
    BY <1>4 DEF CopyFromPipe
  <2> QED BY <2>1
<1>5. CASE EndOfPipe(r) \/ EndOfFile(r)
  BY <1>5 DEF EndOfPipe, EndOfFile
<1>6. CASE CopyToPipe(r)
  <2>1. /\ pc[r] = "copy" /\ kind[r] = "download"
        /\ copied'[r] = copied[r] + 1
        /\ received'[r] = IF cat[r] = "open" THEN received[r] + 1 ELSE received[r]
        /\ UNCHANGED <<kind, pc, hasPipe, pipe, call, transfer, cat, sent>>
    BY <1>6 DEF CopyToPipe
  <2> QED BY <2>1
<1>7. CASE Fail(r) \/ Throw(r)
  BY <1>7 DEF Fail, Throw
<1> QED BY <1>1, <1>2, <1>3, <1>4, <1>5, <1>6, <1>7

\* ... and from the handler to its answer.
LEMMA FitAnswer ==
  ASSUME TypeOK, NEW r \in Request, RequestInv(r), FitInv(r),
         Clean(r) \/ Respond(r) \/ EndResponse(r) \/ Refuse(r)
  PROVE  FitInv(r)'
<1> USE DEF TypeOK, Step, threadVars, clientVars, FitInv, PathKept, EndsMeet, PiecesMatch,
            AnsweredLate, Upload, Download, InHandler
<1>1. CASE Clean(r)
  <2>1. /\ pc[r] = "clean" /\ pc'[r] \in {"respond", "refuse"}
        /\ pipe'[r] = IF hasPipe[r] THEN "none" ELSE pipe[r]
        /\ UNCHANGED <<kind, hasPipe, copied, call, transfer, cat, sent, received>>
    BY <1>1 DEF Clean, PipesAfter
  <2>2. pipe'[r] = "none" BY <2>1 DEF RequestInv, NoPipeInv
  <2> QED BY <2>1, <2>2
<1>2. CASE Respond(r)
  BY <1>2 DEF Respond
<1>3. CASE EndResponse(r)
  <2>1. /\ pc[r] = "responded" /\ pc'[r] = "end"
        /\ UNCHANGED <<kind, hasPipe, pipe, copied, call, transfer, cat, sent, received>>
    BY <1>3 DEF EndResponse
  <2>2. hasPipe[r] => cat[r] \in {"open", "closed"}
    BY <2>1 DEF RequestInv, NoPipeInv, AnswerInv, Answering
  <2> QED BY <2>1, <2>2
<1>4. CASE Refuse(r)
  <2>1. /\ pc[r] = "refuse" /\ pc'[r] = "end"
        /\ call'[r] = IF call[r] = "pending" THEN "rejected" ELSE call[r]
        /\ UNCHANGED <<kind, hasPipe, pipe, copied, transfer, cat, sent, received>>
    BY <1>4 DEF Refuse
  <2>2. call[r] \in {"pending", "rejected"}
    BY <2>1 DEF RequestInv, AnswerInv, Answering
  <2>3. call'[r] = "rejected" BY <2>1, <2>2
  <2> QED BY <2>1, <2>3
<1> QED BY <1>1, <1>2, <1>3, <1>4

\* Its stream at the client.
LEMMA FitStream ==
  ASSUME TypeOK, NEW r \in Request, RequestInv(r), FitInv(r), Stream(r)
  PROVE  FitInv(r)'
<1>1. CASE OpenCat(r)
  <2>0. /\ transfer[r] = "running" /\ cat[r] = "none"
        /\ UNCHANGED <<kind, pc, hasPipe, copied, call, sent, received>>
        /\ \/ pipe[r] = "fifo" /\ cat' = [cat EXCEPT ![r] = "opening"] /\ UNCHANGED <<pipe, transfer>>
           \/ /\ pipe[r] # "fifo" /\ cat' = [cat EXCEPT ![r] = "closed"]
              /\ transfer' = [transfer EXCEPT ![r] = "done"]
              /\ pipe' = [pipe EXCEPT ![r] = IF r \in Upload THEN "file" ELSE @]
    BY <1>1 DEF OpenCat
  <2>1. CASE pipe[r] = "fifo"
    <3>1. cat'[r] = "opening" /\ pipe'[r] = pipe[r] /\ transfer'[r] = "running"
      BY <2>0, <2>1 DEF TypeOK
    <3>2. pc[r] # "copy" /\ ~(pc[r] = "end" /\ call[r] = "pending")
      BY <2>0, <2>1 DEF FitInv, EndsMeet, PathKept
    <3> QED BY <2>0, <3>1, <3>2
            DEF FitInv, PathKept, EndsMeet, PiecesMatch, AnsweredLate, Upload, Download
  <2>2. CASE pipe[r] # "fifo"
    <3>1. cat'[r] = "closed" /\ pipe'[r] \in {pipe[r], "file"}
      BY <2>0, <2>2 DEF TypeOK
    <3>2. hasPipe[r] /\ pc[r] \in {"refuse", "end"} /\ (pc[r] = "end" => call[r] = "rejected")
      BY <2>0, <2>2, LateCat
    <3> QED BY <2>0, <3>1, <3>2
            DEF FitInv, PathKept, EndsMeet, PiecesMatch, AnsweredLate, Upload, Download, InHandler
  <2> QED BY <2>1, <2>2
<1> USE DEF TypeOK, threadVars, FitInv, PathKept, EndsMeet, PiecesMatch, AnsweredLate, Upload, Download
<1>2. CASE Send(r)
  <2>1. /\ pc[r] = "copy" /\ kind[r] = "upload" /\ sent'[r] = sent[r] + 1
        /\ UNCHANGED <<kind, pc, hasPipe, pipe, copied, call, transfer, cat, received>>
    BY <1>2 DEF Send
  <2> QED BY <2>1
<1>3. CASE UploadEnds(r)
  <2>1. /\ kind[r] = "upload" /\ cat[r] = "open" /\ cat'[r] = "closed"
        /\ UNCHANGED <<kind, pc, hasPipe, pipe, copied, call, sent, received>>
    BY <1>3 DEF UploadEnds
  <2> QED BY <2>1
<1>4. CASE DownloadEnds(r)
  <2>1. /\ kind[r] = "download" /\ cat[r] = "open" /\ cat'[r] = "closed"
        /\ UNCHANGED <<kind, pc, hasPipe, pipe, copied, call, sent>>
        /\ received'[r] \in 0 .. received[r]
    BY <1>4 DEF DownloadEnds
  <2>2. received'[r] <= copied[r] BY <2>1
  <2> QED BY <2>1, <2>2
<1>5. CASE Conclude(r)
  BY <1>5 DEF Conclude, RequestInv, AnswerInv, Answering
<1> QED BY <1>2, <1>3, <1>4, <1>1, <1>5 DEF Stream

LEMMA FitLine ==
  ASSUME TypeOK, OnLine, NEW q \in Request, RequestInv(q), FitInv(q)
  PROVE  FitInv(q)'
<1>1. UNCHANGED <<kind, pc, hasPipe, pipe, copied, cat, sent, received>>
  BY OnLine_Cases DEF threadVars
<1>2. CASE call'[q] = call[q] /\ transfer'[q] = transfer[q]
  BY <1>1, <1>2, FitUntouched
<1>3. CASE call'[q] = call[q] /\ transfer'[q] = "running"
  BY <1>1, <1>3 DEF FitInv, PathKept, EndsMeet, PiecesMatch, AnsweredLate, Upload, Download
<1>4. CASE <<"response", q>> \in Out /\ transfer'[q] = transfer[q] /\ call'[q] \in {"answered", "resolved"}
  <2>1. pipe[q] = "none" BY <1>4 DEF RequestInv, AnswerInv, Answering
  <2> QED BY <1>1, <1>4, <2>1
          DEF FitInv, PathKept, EndsMeet, PiecesMatch, AnsweredLate, Upload, Download
<1>5. ASSUME NEW r \in Request, transfer' = [transfer EXCEPT ![r] = "running"], call' = call
      PROVE  FitInv(q)'
  BY <1>2, <1>3, <1>5 DEF TypeOK
<1>6. ASSUME NEW r \in Request, <<"response", r>> \in Out, transfer' = transfer,
             call' = [call EXCEPT ![r] = IF transfer[r] = "none" THEN "resolved" ELSE "answered"]
      PROVE  FitInv(q)'
  BY <1>2, <1>4, <1>6 DEF TypeOK
<1> QED BY <1>2, <1>5, <1>6, OnLine_Cases

LEMMA FitNext ==
  TypeOK /\ StreamInv /\ EndsInv /\ [Next]_vars => EndsInv'
<1> SUFFICES ASSUME TypeOK, StreamInv, EndsInv, [Next]_vars, NEW q \in Request
             PROVE FitInv(q)'
  BY DEF EndsInv
<1>0. RequestInv(q) /\ FitInv(q) BY DEF StreamInv, EndsInv
<1>1. CASE UNCHANGED vars
  BY <1>0, <1>1, FitUntouched DEF vars, threadVars, clientVars
<1>2. ASSUME NEW r \in Request,
             Begin(r) \/ GiveUp(r) \/ Thread(r) \/ Fail(r) \/ Throw(r) \/ Stream(r)
      PROVE  FitInv(q)'
  <2>1. CASE q = r BY <1>0, <1>2, <2>1, FitBegin, FitHandler, FitAnswer, FitStream DEF Thread
  <2>2. CASE q # r BY <1>0, <1>2, <2>2, FitOthers
  <2> QED BY <2>1, <2>2
<1>3. CASE OnLine BY <1>0, <1>3, FitLine
<1> QED BY <1>1, <1>2, <1>3 DEF Next

\* StreamsFit always holds: for any requests and any stream length the path
\* names the FIFO while either end relies on it, neither end copies alone, no
\* end has more than the other gave, and only rejected calls leave something in
\* the directory.
THEOREM EndsAlwaysFit == Spec => []StreamsFit
<1>1. Init => EndsInv
  BY DEF Init, EndsInv, FitInv, PathKept, EndsMeet, PiecesMatch, AnsweredLate, InHandler, Upload, Download
<1>2. Spec => []EndsInv
  BY <1>1, FitNext, TypeCorrect, StreamInvAlways, PTL DEF Spec
<1>3. TypeOK /\ EndsInv => StreamsFit BY DEF StreamsFit, EndsInv, FitInv
<1> QED BY <1>2, <1>3, TypeCorrect, PTL
=============================================================================
