---------------------------- MODULE MemberWriter -----------------------------
(***************************************************************************)
(* Worker threads of the server that replace members of one partitioned    *)
(* data set: zds_write_member_bpam and its streamed form (zds.cpp), the    *)
(* BPAM entry points (zdsm.c) and the access method they drive (zam.c,     *)
(* zenq.h): allocate, ENQ the member, RESERVE the data set, OPEN, add      *)
(* records to blocks, flush, statistics and STOW, CLOSE, and give          *)
(* everything back, each of which can fail.                                *)
(*                                                                         *)
(* z/OS is external: what its services do to the directory is taken from   *)
(* how the code uses them.  ENQ and RESERVE are conditional (RET=USE): a   *)
(* resource that is held is refused at once, nobody waits for it.  A DEQ   *)
(* that fails may leave the resource held, though its request goes on to   *)
(* its end; the thread that holds it then is refused it like any other.    *)
(***************************************************************************)
EXTENDS Naturals, FiniteSets

CONSTANTS Writer, Member, NoWriter,
          Lost,       \* a holder whose DEQ has failed
          MaxLost,    \* bound: resources that are left that way
          MaxLines,   \* bound: lines of a text
          PerBlock    \* bound: records of a full block

ASSUME MemberAssumption ==
  /\ NoWriter \notin Writer /\ Lost \notin Writer /\ Lost # NoWriter
  /\ MaxLines \in Nat /\ PerBlock \in Nat \ {0} /\ MaxLost \in Nat

VARIABLES
  recfm,     \* of the data set: fixed, variable blocked, or variable blocked
             \* with LRECL = BLKSIZE - 4 ("tight")
  member,    \* the directory: who stored each member last
  enq,       \* SPFEDIT dsn(member): the holder
  reserve,   \* SPFEDIT dsn: the holder
  \* per thread
  pc,
  req,       \* what is written
  dd,        \* the DD of the last request, and how it was left behind
  opened,    \* ZDSOBPAM succeeded
  dcb,       \* the DCB: closed, open, or closed by the system after an abend
  added,     \* lines handed to zds_write_output_bpam
  buffer,    \* of them, in the buffer
  stored,    \* of them, on disk
  rc,        \* the first failure, or ok
  stow,      \* what became of the directory entry
  answer

lockVars == <<enq, reserve>>
textVars == <<added, buffer, stored>>
vars == <<recfm, member, lockVars, pc, req, dd, opened, dcb, textVars, rc, stow, answer>>

Request == [member : Member, lines : 0 .. MaxLines, full : BOOLEAN]
NoRequest == [lines |-> 0, full |-> FALSE]

TypeOK ==
  /\ recfm \in {"fixed", "variable", "tight"}
  /\ member \in [Member -> Writer \cup {NoWriter}]
  /\ enq \in [Member -> Writer \cup {NoWriter, Lost}]
  /\ reserve \in Writer \cup {NoWriter, Lost}
  /\ pc \in [Writer -> {"out", "alloc", "jfcb", "enq", "reserve", "open", "validate", "setup", "fifo",
                        "write", "stream", "flush", "finalize", "deq reserve", "deq", "free", "reread"}]
  /\ req \in [Writer -> Request \cup {NoRequest}]
  /\ dd \in [Writer -> {"none", "allocated", "left"}]
  /\ opened \in [Writer -> BOOLEAN]
  /\ dcb \in [Writer -> {"closed", "open", "gone"}]
  /\ added \in [Writer -> 0 .. MaxLines]
  /\ buffer \in [Writer -> 0 .. MaxLines]
  /\ stored \in [Writer -> 0 .. MaxLines]
  /\ rc \in [Writer -> {"ok", "failure", "other"}]
  /\ stow \in [Writer -> {"none", "done", "unnoticed", "failed"}]
  /\ answer \in [Writer -> {"none", "ok", "error"}]

Init ==
  /\ recfm \in {"fixed", "variable", "tight"}
  /\ member = [m \in Member |-> NoWriter]
  /\ enq = [m \in Member |-> NoWriter]
  /\ reserve = NoWriter
  /\ pc = [w \in Writer |-> "out"]
  /\ req = [w \in Writer |-> NoRequest]
  /\ dd = [w \in Writer |-> "none"]
  /\ opened = [w \in Writer |-> FALSE]
  /\ dcb = [w \in Writer |-> "closed"]
  /\ added = [w \in Writer |-> 0]
  /\ buffer = [w \in Writer |-> 0]
  /\ stored = [w \in Writer |-> 0]
  /\ rc = [w \in Writer |-> "ok"]
  /\ stow = [w \in Writer |-> "none"]
  /\ answer = [w \in Writer |-> "none"]

Step(w, from, to) == pc[w] = from /\ pc' = [pc EXCEPT ![w] = to]
\* The request is answered and its locals are gone.
Return(w, from, a) ==
  /\ Step(w, from, "out")
  /\ answer' = [answer EXCEPT ![w] = a]
  /\ req' = [req EXCEPT ![w] = NoRequest]
  /\ opened' = [opened EXCEPT ![w] = FALSE]
  /\ added' = [added EXCEPT ![w] = 0]
  /\ buffer' = [buffer EXCEPT ![w] = 0]
  /\ stored' = [stored EXCEPT ![w] = 0]
  /\ rc' = [rc EXCEPT ![w] = "ok"]
  /\ stow' = [stow EXCEPT ![w] = "none"]
FirstRc(w, r) == rc' = [rc EXCEPT ![w] = IF @ = "ok" THEN r ELSE @]

-----------------------------------------------------------------------------
(* zds_write, zds_write_streamed: a request comes to an idle thread.       *)

\* The checks that come first refuse it: existence, record format, etag.
Refuse(w) ==
  /\ pc[w] = "out"
  /\ answer' = [answer EXCEPT ![w] = "error"]
  /\ UNCHANGED <<recfm, member, lockVars, pc, req, dd, opened, dcb, textVars, rc, stow>>

\* A full-length line is told apart only where it matters.
Begin(w) ==
  /\ Step(w, "out", "alloc")
  /\ \E q \in Request :
       /\ q.full => recfm = "tight" /\ q.lines > 0
       /\ req' = [req EXCEPT ![w] = q]
  /\ dd' = [dd EXCEPT ![w] = "none"]
  /\ answer' = [answer EXCEPT ![w] = "none"]
  /\ UNCHANGED <<recfm, member, lockVars, opened, dcb, textVars, rc, stow>>

\* zds_open_output_bpam: ALLOC DA('dsn(member)') SHR
Allocate(w) ==
  /\ Step(w, "alloc", "jfcb")
  /\ dd' = [dd EXCEPT ![w] = "allocated"]
  /\ UNCHANGED <<recfm, member, lockVars, req, opened, dcb, textVars, rc, stow, answer>>

AllocateFails(w) ==
  /\ Return(w, "alloc", "error")
  /\ UNCHANGED <<recfm, member, lockVars, dd, dcb>>

-----------------------------------------------------------------------------
(* open_output_bpam.  A step that fails sends the thread to                *)
(* close_output_bpam, which ZDSOBPAM calls itself.                         *)

OpenStepFails(w) ==
  /\ pc[w] \in {"jfcb", "enq", "reserve", "open", "validate"}
  /\ pc' = [pc EXCEPT ![w] = "flush"]
  /\ rc' = [rc EXCEPT ![w] = "failure"]
  /\ UNCHANGED <<recfm, member, lockVars, req, dd, opened, dcb, textVars, stow, answer>>

ReadJfcb(w) ==
  /\ Step(w, "jfcb", "enq")
  /\ UNCHANGED <<recfm, member, lockVars, req, dd, opened, dcb, textVars, rc, stow, answer>>

EnqShared(w) == pc[w] = "enq"
EnqGranted(w) == enq[req[w].member] = NoWriter

Enq(w) ==
  /\ Step(w, "enq", "reserve")
  /\ EnqGranted(w)
  /\ enq' = [enq EXCEPT ![req[w].member] = w]
  /\ UNCHANGED <<recfm, member, reserve, req, dd, opened, dcb, textVars, rc, stow, answer>>

ReserveShared(w) == pc[w] = "reserve"
ReserveGranted(w) == reserve = NoWriter

\* get_ucb, reserve_data_set
Reserve(w) ==
  /\ Step(w, "reserve", "open")
  /\ ReserveGranted(w)
  /\ reserve' = w
  /\ UNCHANGED <<recfm, member, enq, req, dd, opened, dcb, textVars, rc, stow, answer>>

Open(w) ==
  /\ Step(w, "open", "validate")
  /\ dcb' = [dcb EXCEPT ![w] = "open"]
  /\ UNCHANGED <<recfm, member, lockVars, req, dd, opened, textVars, rc, stow, answer>>

\* validate_dcb_attributes, the buffer
Validate(w) ==
  /\ Step(w, "validate", "setup")
  /\ opened' = [opened EXCEPT ![w] = TRUE]
  /\ UNCHANGED <<recfm, member, lockVars, req, dd, dcb, textVars, rc, stow, answer>>

-----------------------------------------------------------------------------
(* The text.                                                               *)

\* The encoding is set up, and a text that is at hand is encoded as a whole; the
\* streamed form, told apart from here on, opens its FIFO and waits for the other
\* end.
Setup(w) ==
  /\ \E t \in {"write", "fifo"} : Step(w, "setup", t)
  /\ UNCHANGED <<recfm, member, lockVars, req, dd, opened, dcb, textVars, rc, stow, answer>>

FifoOpens(w) ==
  /\ Step(w, "fifo", "stream")
  /\ UNCHANGED <<recfm, member, lockVars, req, dd, opened, dcb, textVars, rc, stow, answer>>

\* A converter that cannot be opened, a line or the shift state that cannot
\* be converted, a FIFO that cannot be opened: close, with what there is.
TextFails(w) ==
  /\ pc[w] \in {"setup", "fifo", "stream"}
  /\ pc' = [pc EXCEPT ![w] = "flush"]
  /\ rc' = [rc EXCEPT ![w] = "failure"]
  /\ UNCHANGED <<recfm, member, lockVars, req, dd, opened, dcb, textVars, stow, answer>>

\* handle_variable_record: a full-length record of a tight data set fits
\* neither the rest of the block nor a new one, and is passed over.
PassedOver(w) == recfm = "tight" /\ req[w].full /\ added[w] = 0

InText(w) == pc[w] \in {"write", "stream"}
MoreLines(w) == InText(w) /\ added[w] < req[w].lines
\* With the next line a block goes out: a fixed block that it fills, a
\* variable block that cannot take it.
BlockGoesOut(w) ==
  IF recfm = "fixed" THEN buffer[w] + 1 = PerBlock ELSE buffer[w] > 0 \/ PassedOver(w)
StaysInBlock(w) == buffer[w] + (IF recfm = "fixed" THEN 1 ELSE 0) < PerBlock

\* zds_write_output_bpam, ZDSWBPAM, write_output_bpam: the record goes into
\* the buffer ...
AddRecord(w) ==
  /\ MoreLines(w) /\ StaysInBlock(w) /\ ~PassedOver(w)
  /\ added' = [added EXCEPT ![w] = @ + 1]
  /\ buffer' = [buffer EXCEPT ![w] = @ + 1]
  /\ UNCHANGED <<recfm, member, lockVars, pc, req, dd, opened, dcb, stored, rc, stow, answer>>

\* ... and a block is written, with or before this record.
WriteBlock(w) ==
  /\ MoreLines(w) /\ BlockGoesOut(w)
  /\ added' = [added EXCEPT ![w] = @ + 1]
  /\ stored' = [stored EXCEPT ![w] = IF recfm = "fixed" THEN @ + buffer[w] + 1 ELSE @ + buffer[w]]
  /\ buffer' = [buffer EXCEPT ![w] = IF recfm = "fixed" \/ PassedOver(w) THEN 0 ELSE 1]
  /\ UNCHANGED <<recfm, member, lockVars, pc, req, dd, opened, dcb, rc, stow, answer>>

\* The write fails, or abends (out of space), when the system may have closed
\* the DCB: close, keeping the buffer.
WriteFails(w) ==
  /\ MoreLines(w) /\ BlockGoesOut(w)
  /\ pc' = [pc EXCEPT ![w] = "flush"]
  /\ rc' = [rc EXCEPT ![w] = "failure"]
  /\ \E d \in {"open", "gone"} : dcb' = [dcb EXCEPT ![w] = d]
  /\ IF recfm = "fixed"
     THEN /\ added' = [added EXCEPT ![w] = @ + 1]
          /\ buffer' = [buffer EXCEPT ![w] = @ + 1]
     ELSE UNCHANGED <<added, buffer>>
  /\ UNCHANGED <<recfm, member, lockVars, req, dd, opened, stored, stow, answer>>

EndOfText(w) ==
  /\ InText(w) /\ Step(w, pc[w], "flush") /\ added[w] = req[w].lines
  /\ UNCHANGED <<recfm, member, lockVars, req, dd, opened, dcb, textVars, rc, stow, answer>>

-----------------------------------------------------------------------------
(* close_output_bpam, for an open that failed too: the rest of the buffer, *)
(* statistics and directory entry, CLOSE, DEQ of what is held.             *)

\* write_flush
Flush(w) ==
  /\ Step(w, "flush", "finalize")
  /\ IF dcb[w] = "open"
     THEN /\ stored' = [stored EXCEPT ![w] = @ + buffer[w]]
          /\ buffer' = [buffer EXCEPT ![w] = 0]
     ELSE UNCHANGED <<stored, buffer>>
  /\ UNCHANGED <<recfm, member, lockVars, req, dd, opened, dcb, added, rc, stow, answer>>

FlushUnnoticed(w) == rc' = rc
FlushNoticed(w) == FirstRc(w, "failure")

FlushFails(w) ==
  /\ Step(w, "flush", "finalize")
  /\ dcb[w] = "open" /\ buffer[w] > 0
  /\ \E d \in {"open", "gone"} : dcb' = [dcb EXCEPT ![w] = d]
  /\ FlushNoticed(w)
  /\ UNCHANGED <<recfm, member, lockVars, req, dd, opened, textVars, stow, answer>>

Stowed(w) == [member EXCEPT ![req[w].member] = w]

\* finalize_dcb: update_ispf_statistics, stow_data_set, close_data_set
Finalize(w) ==
  /\ Step(w, "finalize", "deq reserve")
  /\ dcb[w] = "open"
  /\ member' = Stowed(w)
  /\ stow' = [stow EXCEPT ![w] = "done"]
  /\ dcb' = [dcb EXCEPT ![w] = "closed"]
  /\ UNCHANGED <<recfm, lockVars, req, dd, opened, textVars, rc, answer>>

Stow(w, s) == stow' = [stow EXCEPT ![w] = s]

\* Statistics or STOW fail; CLOSE, or the system that closed the DCB before,
\* may still store the entry.  A failed STOW need not be noticed: the macro
\* (zio.h) saves R15 over the wrong operand, and rc keeps the 0 it had.
FinalizeFails(w) ==
  /\ Step(w, "finalize", "deq reserve")
  /\ \/ dcb[w] = "open" /\ Stow(w, "failed") /\ \E r \in {"failure", "other"} : FirstRc(w, r)
     \/ dcb[w] = "open" /\ Stow(w, "unnoticed") /\ rc' = rc
     \/ dcb[w] = "gone" /\ Stow(w, "failed") /\ rc' = rc
  /\ member' \in {member, Stowed(w)}
  /\ dcb' = [dcb EXCEPT ![w] = "closed"]
  /\ UNCHANGED <<recfm, lockVars, req, dd, opened, textVars, answer>>

\* The entry is stored and CLOSE fails.
CloseFails(w) ==
  /\ Step(w, "finalize", "deq reserve")
  /\ dcb[w] = "open"
  /\ member' = Stowed(w)
  /\ stow' = [stow EXCEPT ![w] = "done"]
  /\ dcb' = [dcb EXCEPT ![w] = "closed"]
  /\ \E r \in {"failure", "other"} : FirstRc(w, r)
  /\ UNCHANGED <<recfm, lockVars, req, dd, opened, textVars, answer>>

\* The data set never was open.
NothingToFinalize(w) ==
  /\ Step(w, "finalize", "deq reserve")
  /\ dcb[w] = "closed"
  /\ UNCHANGED <<recfm, member, lockVars, req, dd, opened, dcb, textVars, rc, stow, answer>>

DeqReserve(w) ==
  /\ Step(w, "deq reserve", "deq")
  /\ reserve' = IF reserve = w THEN NoWriter ELSE reserve
  /\ UNCHANGED <<recfm, member, enq, req, dd, opened, dcb, textVars, rc, stow, answer>>

\* A DEQ that fails, MaxLost times at most; the rest is done all the same.
DeqMayFail ==
  Cardinality({m \in Member : enq[m] = Lost}) + (IF reserve = Lost THEN 1 ELSE 0) < MaxLost

DeqReserveFails(w) ==
  /\ Step(w, "deq reserve", "deq") /\ DeqMayFail
  /\ reserve = w /\ reserve' = Lost
  /\ FirstRc(w, "other")
  /\ UNCHANGED <<recfm, member, enq, req, dd, opened, dcb, textVars, stow, answer>>

DeqIfOpened(w) == enq' = [enq EXCEPT ![req[w].member] = IF @ = w /\ opened[w] THEN NoWriter ELSE @]
DeqMember(w) == enq' = [enq EXCEPT ![req[w].member] = IF @ = w THEN NoWriter ELSE @]

DeqMemberFails(w) ==
  /\ DeqMayFail /\ enq[req[w].member] = w
  /\ enq' = [enq EXCEPT ![req[w].member] = Lost]

Deq(w) ==
  /\ Step(w, "deq", "free") /\ opened[w]
  /\ DeqMember(w)
  /\ UNCHANGED <<recfm, member, reserve, req, dd, opened, dcb, textVars, rc, stow, answer>>

DeqFails(w) ==
  /\ Step(w, "deq", "free") /\ opened[w]
  /\ DeqMemberFails(w)
  /\ FirstRc(w, "other")
  /\ UNCHANGED <<recfm, member, reserve, req, dd, opened, dcb, textVars, stow, answer>>

\* After a failed open zds_write_member_bpam returns at once, without FREE,
\* and zds_write clears the name of the DD.
DeqUnopened(w) ==
  /\ Return(w, "deq", "error") /\ ~opened[w]
  /\ DeqMember(w) \/ DeqMemberFails(w)
  /\ dd' = [dd EXCEPT ![w] = "left"]
  /\ UNCHANGED <<recfm, member, reserve, dcb>>

-----------------------------------------------------------------------------
(* zds_close_output_bpam after ZDSCBPAM, and the end of zds_write.         *)

\* FREE DD; its failure is kept in an inner rc and does not count.
FreeDd(w) == \E d \in {"none", "left"} : dd' = [dd EXCEPT ![w] = d]

Free(w) ==
  /\ Step(w, "free", "reread") /\ rc[w] # "failure"
  /\ FreeDd(w)
  /\ UNCHANGED <<recfm, member, lockVars, req, opened, dcb, textVars, rc, stow, answer>>

FreeAfterFailure(w) ==
  /\ Return(w, "free", "error") /\ rc[w] = "failure"
  /\ FreeDd(w)
  /\ UNCHANGED <<recfm, member, lockVars, dcb>>

\* The member is read again for its etag; when that fails, so does the write.
Reread(w) ==
  /\ \E a \in {IF rc[w] = "ok" THEN "ok" ELSE "error", "error"} : Return(w, "reread", a)
  /\ UNCHANGED <<recfm, member, lockVars, dd, dcb>>

-----------------------------------------------------------------------------

OpenSteps(w) ==
  Allocate(w) \/ AllocateFails(w) \/ OpenStepFails(w) \/ ReadJfcb(w) \/ Enq(w) \/ Reserve(w)
    \/ Open(w) \/ Validate(w) \/ Setup(w)
TextSteps(w) ==
  FifoOpens(w) \/ TextFails(w) \/ AddRecord(w) \/ WriteBlock(w) \/ WriteFails(w)
    \/ EndOfText(w)
CloseSteps(w) ==
  Flush(w) \/ FlushFails(w) \/ Finalize(w) \/ FinalizeFails(w) \/ CloseFails(w)
    \/ NothingToFinalize(w) \/ DeqReserve(w) \/ DeqReserveFails(w)
    \/ Deq(w) \/ DeqFails(w) \/ DeqUnopened(w)
    \/ Free(w) \/ FreeAfterFailure(w) \/ Reread(w)

ThreadStep(w) == Refuse(w) \/ Begin(w) \/ OpenSteps(w) \/ TextSteps(w) \/ CloseSteps(w)

Next == \E w \in Writer : ThreadStep(w)

Spec == Init /\ [][Next]_vars

-----------------------------------------------------------------------------
(* Properties.                                                             *)

Holding(w) == enq[req[w].member] = w /\ reserve = w

\* What a thread holds at each point of open_output_bpam and
\* close_output_bpam: the ENQ of its own member only, RESERVE only after ENQ,
\* an open DCB only under both, and nothing before the open or once it has
\* returned, on any of the failure paths.  Only a resource whose DEQ failed may
\* be left then, and a DD: by a failed open (zds_write_member_bpam returns
\* without FREE) or a failed FREE.
Locks(w) ==
  /\ pc[w] # "out" => req[w] \in Request
  /\ \A m \in Member : enq[m] = w =>
       /\ pc[w] \notin {"out", "alloc", "jfcb", "enq", "free", "reread"}
       /\ req[w].member = m
  /\ pc[w] \in {"out", "alloc", "reread"} => dd[w] # "allocated"
  /\ pc[w] \in {"out", "alloc", "jfcb", "enq", "reserve", "deq", "free", "reread"} =>
       reserve # w
  /\ pc[w] = "reserve" => enq[req[w].member] = w
  /\ pc[w] \in {"open", "validate", "setup", "fifo", "write", "stream"} => Holding(w)
  /\ pc[w] \in {"flush", "finalize"} => dcb[w] = "closed" \/ Holding(w)
  /\ pc[w] \notin {"validate", "setup", "fifo", "write", "stream", "flush", "finalize"} =>
       dcb[w] = "closed"

WriterInv == TypeOK /\ \A w \in Writer : Locks(w)

\* At most one thread has the data set open (RESERVE of dsn before OPEN,
\* DEQ after CLOSE, in open_output_bpam and close_output_bpam), so nobody
\* writes blocks into the middle of the text of another.
OneOpen == \A v, w \in Writer : dcb[v] # "closed" /\ dcb[w] # "closed" => v = w

\* A member changes only by the thread that holds its ENQ and the RESERVE of
\* the data set (update_ispf_statistics, stow_data_set, close_data_set).
ChangedUnderLocks ==
  [][\A m \in Member : member'[m] # member[m] =>
        \E w \in Writer : enq[m] = w /\ reserve = w /\ member'[m] = w]_vars

\* A write that is answered with success (zds_write) has put every line of its
\* text on disk, a line that was cut to the record length with a warning among
\* them, and has stored the directory entry.  The code does not see two
\* failures: a full-length record of a tight data set is lost, and the entry
\* when the return code of STOW is.
SuccessIsWhole ==
  [][\A w \in Writer : answer[w] # "ok" /\ answer'[w] = "ok" =>
       /\ \/ stored[w] = req[w].lines
          \/ recfm = "tight" /\ req[w].full /\ stored[w] = req[w].lines - 1
       /\ stow[w] \in {"done", "unnoticed"}]_vars
=============================================================================
