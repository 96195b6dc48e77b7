------------------------- MODULE MemberWriter_proofs -------------------------
(***************************************************************************)
(* Theorems of MemberWriter, for any number of threads and members, texts  *)
(* of any length, and blocks of any size.                                  *)
(***************************************************************************)
EXTENDS MemberWriter, TLAPS

-----------------------------------------------------------------------------
(* WriterInv is inductive.                                                 *)

LEMMA InitWriter == Init => WriterInv
BY MemberAssumption DEF Init, WriterInv, TypeOK, Locks, Request, NoRequest

LEMMA Steps ==
  ASSUME NEW w \in Writer, ThreadStep(w)
  PROVE  \/ Refuse(w) \/ Begin(w) \/ Allocate(w) \/ AllocateFails(w) \/ OpenStepFails(w)
         \/ ReadJfcb(w) \/ Enq(w) \/ Reserve(w) \/ Open(w) \/ Validate(w)
         \/ Setup(w) \/ FifoOpens(w) \/ TextFails(w) \/ AddRecord(w) \/ WriteBlock(w)
         \/ WriteFails(w) \/ EndOfText(w) \/ Flush(w) \/ FlushFails(w) \/ Finalize(w)
         \/ FinalizeFails(w) \/ CloseFails(w) \/ NothingToFinalize(w) \/ DeqReserve(w)
         \/ DeqReserveFails(w) \/ Deq(w) \/ DeqFails(w)
         \/ DeqUnopened(w) \/ Free(w) \/ FreeAfterFailure(w) \/ Reread(w)
BY DEF ThreadStep, OpenSteps, TextSteps, CloseSteps

\* A thread that is in a request has one.
LEMMA RequestOf ==
  ASSUME WriterInv, NEW w \in Writer, pc[w] # "out"
  PROVE  /\ req[w].member \in Member /\ req[w].lines \in 0 .. MaxLines
         /\ req[w].full \in BOOLEAN
BY DEF WriterInv, Locks, Request

\* Every line handed over is in the buffer or stored, but for the full-length
\* record of a tight data set, which comes first.
Skipped(w) == IF recfm = "tight" /\ req[w].full /\ added[w] > 0 THEN 1 ELSE 0
Counted(w) ==
  /\ stored[w] + buffer[w] + Skipped(w) = added[w]
  /\ pc[w] = "out" => added[w] = 0

LEMMA ExceptType ==
  ASSUME NEW S, NEW T, NEW f \in [S -> T], NEW x \in S, NEW y \in T
  PROVE  [f EXCEPT ![x] = y] \in [S -> T]
OBVIOUS

LEMMA ExceptOther ==
  ASSUME NEW S, NEW T, NEW f \in [S -> T], NEW x \in S, NEW v \in S, v # x, NEW y
  PROVE  [f EXCEPT ![x] = y][v] = f[v]
OBVIOUS

LEMMA ZeroLines == 0 \in 0 .. MaxLines
BY MemberAssumption

\* The counts stay within the text when a line is added and a block written.
LEMMA CountBounds ==
  ASSUME NEW a \in 0 .. MaxLines, NEW b \in 0 .. MaxLines, NEW s \in 0 .. MaxLines,
         NEW k \in {0, 1}, s + b + k = a
  PROVE  /\ s + b \in 0 .. MaxLines
         /\ \A l \in 0 .. MaxLines : a < l =>
              /\ a + 1 \in 0 .. MaxLines /\ b + 1 \in 0 .. MaxLines
              /\ s + b + 1 \in 0 .. MaxLines /\ 1 \in 0 .. MaxLines
BY MemberAssumption

LEMMA LineBounds ==
  ASSUME TypeOK, NEW w \in Writer, Counted(w)
  PROVE  /\ stored[w] + buffer[w] \in 0 .. MaxLines
         /\ \A l \in 0 .. MaxLines : added[w] < l =>
              /\ added[w] + 1 \in 0 .. MaxLines /\ buffer[w] + 1 \in 0 .. MaxLines
              /\ stored[w] + buffer[w] + 1 \in 0 .. MaxLines /\ 1 \in 0 .. MaxLines
<1>1. Skipped(w) \in {0, 1} BY DEF Skipped
<1>2. added[w] \in 0 .. MaxLines /\ buffer[w] \in 0 .. MaxLines /\ stored[w] \in 0 .. MaxLines
  BY DEF TypeOK
<1>3. QED BY <1>1, <1>2, CountBounds DEF Counted

LEMMA ReturnType ==
  ASSUME TypeOK, NEW w \in Writer, NEW l, NEW a \in {"ok", "error"}, Return(w, l, a)
  PROVE  /\ pc' \in [Writer -> {"out", "alloc", "jfcb", "enq", "reserve", "open", "validate", "setup", "fifo",
                        "write", "stream", "flush", "finalize", "deq reserve", "deq", "free", "reread"}]
         /\ answer' \in [Writer -> {"none", "ok", "error"}]
         /\ req' \in [Writer -> Request \cup {NoRequest}]
         /\ opened' \in [Writer -> BOOLEAN]
         /\ added' \in [Writer -> 0 .. MaxLines]
         /\ buffer' \in [Writer -> 0 .. MaxLines]
         /\ stored' \in [Writer -> 0 .. MaxLines]
         /\ rc' \in [Writer -> {"ok", "failure", "other"}]
         /\ stow' \in [Writer -> {"none", "done", "unnoticed", "failed"}]
<1> USE MemberAssumption DEF Return, Step, TypeOK
<1>1. pc' \in [Writer -> {"out", "alloc", "jfcb", "enq", "reserve", "open", "validate", "setup", "fifo",
             "write", "stream", "flush", "finalize", "deq reserve", "deq", "free", "reread"}]
  OBVIOUS
<1>2. answer' \in [Writer -> {"none", "ok", "error"}] /\ opened' \in [Writer -> BOOLEAN]
  OBVIOUS
<1>3. req' \in [Writer -> Request \cup {NoRequest}]
  OBVIOUS
<1>4. added' \in [Writer -> 0 .. MaxLines]
  BY ExceptType, ZeroLines
<1>5. buffer' \in [Writer -> 0 .. MaxLines] /\ stored' \in [Writer -> 0 .. MaxLines]
  BY ExceptType, ZeroLines
<1>6. rc' \in [Writer -> {"ok", "failure", "other"}] /\ stow' \in [Writer -> {"none", "done", "unnoticed", "failed"}]
  OBVIOUS
<1>7. QED BY <1>1, <1>2, <1>3, <1>4, <1>5, <1>6

LEMMA TypeStep ==
  ASSUME WriterInv, \A w \in Writer : Counted(w), NEW w \in Writer, ThreadStep(w)
  PROVE  TypeOK'
<1> USE MemberAssumption DEF WriterInv, TypeOK, lockVars, textVars
<1>1. CASE Refuse(w) BY <1>1, RequestOf DEF Refuse
<1>2. CASE Begin(w)
  <2>1. PICK q \in Request : req' = [req EXCEPT ![w] = q] BY <1>2 DEF Begin
  <2>2. /\ pc' = [pc EXCEPT ![w] = "alloc"] /\ dd' = [dd EXCEPT ![w] = "none"]
        /\ answer' = [answer EXCEPT ![w] = "none"]
        /\ UNCHANGED <<recfm, member, lockVars, opened, dcb, textVars, rc, stow>>
    BY <1>2 DEF Begin, Step
  <2>3. req' \in [Writer -> Request \cup {NoRequest}] BY <2>1
  <2> QED BY <2>2, <2>3
<1>3. CASE Allocate(w) BY <1>3, RequestOf DEF Allocate, Step
<1>4. CASE AllocateFails(w) BY <1>4, ReturnType DEF AllocateFails
<1>5. CASE OpenStepFails(w) BY <1>5, RequestOf DEF OpenStepFails
<1>6. CASE ReadJfcb(w) BY <1>6, RequestOf DEF ReadJfcb, Step
<1>7. CASE Enq(w) BY <1>7, RequestOf DEF Enq, Step, EnqGranted
<1>8. CASE Reserve(w) BY <1>8, RequestOf DEF Reserve, Step, ReserveGranted
<1>9. CASE Open(w) BY <1>9, RequestOf DEF Open, Step
<1>10. CASE Validate(w) BY <1>10, RequestOf DEF Validate, Step
<1>11. CASE Setup(w)
  <2>1. PICK t \in {"write", "fifo"} : Step(w, "setup", t) BY <1>11 DEF Setup
  <2>2. QED BY <1>11, <2>1, RequestOf DEF Setup, Step
<1>12. CASE FifoOpens(w) BY <1>12, RequestOf DEF FifoOpens, Step
<1>13. CASE TextFails(w) BY <1>13, RequestOf DEF TextFails
<1>14. CASE AddRecord(w)
  <2>1. added[w] + 1 \in 0 .. MaxLines /\ buffer[w] + 1 \in 0 .. MaxLines
    BY <1>14, RequestOf, LineBounds DEF AddRecord, MoreLines, InText
  <2>2. QED BY <1>14, <2>1, ExceptType DEF AddRecord
<1>15. CASE WriteBlock(w)
  <2>1. /\ added[w] + 1 \in 0 .. MaxLines /\ stored[w] + buffer[w] \in 0 .. MaxLines
        /\ stored[w] + buffer[w] + 1 \in 0 .. MaxLines /\ 1 \in 0 .. MaxLines
    BY <1>15, RequestOf, LineBounds DEF WriteBlock, MoreLines, InText
  <2>2. /\ added' \in [Writer -> 0 .. MaxLines]
        /\ stored' \in [Writer -> 0 .. MaxLines]
        /\ buffer' \in [Writer -> 0 .. MaxLines]
    BY <1>15, <2>1, ExceptType, ZeroLines DEF WriteBlock
  <2>3. QED BY <1>15, <2>2 DEF WriteBlock
<1>16. CASE WriteFails(w)
  <2>1. added[w] + 1 \in 0 .. MaxLines /\ buffer[w] + 1 \in 0 .. MaxLines
    BY <1>16, RequestOf, LineBounds DEF WriteFails, MoreLines, InText
  <2>2. added' \in [Writer -> 0 .. MaxLines] /\ buffer' \in [Writer -> 0 .. MaxLines]
    <3>1. CASE recfm = "fixed"
      <4>1. /\ added' = [added EXCEPT ![w] = added[w] + 1]
            /\ buffer' = [buffer EXCEPT ![w] = buffer[w] + 1]
        BY <1>16, <3>1 DEF WriteFails
      <4>2. QED BY <4>1, <2>1, ExceptType
    <3>2. CASE recfm # "fixed" BY <1>16, <3>2 DEF WriteFails
    <3>3. QED BY <3>1, <3>2
  <2>3. PICK d \in {"open", "gone"} : dcb' = [dcb EXCEPT ![w] = d]
    BY <1>16 DEF WriteFails
  <2>4. dcb' \in [Writer -> {"closed", "open", "gone"}] BY <2>3, ExceptType
  <2>5. QED BY <1>16, <2>2, <2>4 DEF WriteFails
<1>17. CASE EndOfText(w) BY <1>17, RequestOf DEF EndOfText, InText, Step
<1>18. CASE Flush(w)
  <2>1. stored[w] + buffer[w] \in 0 .. MaxLines BY LineBounds
  <2>2. CASE dcb[w] = "open"
    <3>1. /\ stored' = [stored EXCEPT ![w] = stored[w] + buffer[w]]
          /\ buffer' = [buffer EXCEPT ![w] = 0]
      BY <1>18, <2>2 DEF Flush
    <3>2. stored' \in [Writer -> 0 .. MaxLines] /\ buffer' \in [Writer -> 0 .. MaxLines]
      BY <3>1, <2>1, ExceptType, ZeroLines
    <3>3. QED BY <1>18, <3>2 DEF Flush, Step
  <2>3. CASE dcb[w] # "open" BY <1>18, <2>3 DEF Flush, Step
  <2>4. QED BY <2>2, <2>3
<1>19. CASE FlushFails(w)
  <2>1. PICK d \in {"open", "gone"} : dcb' = [dcb EXCEPT ![w] = d]
    BY <1>19 DEF FlushFails
  <2>2. dcb' \in [Writer -> {"closed", "open", "gone"}] BY <2>1, ExceptType
  <2>3. rc' \in [Writer -> {"ok", "failure", "other"}]
    BY <1>19 DEF FlushFails, FlushNoticed, FirstRc
  <2>4. QED BY <1>19, <2>2, <2>3 DEF FlushFails, Step
<1>20. CASE Finalize(w) BY <1>20, RequestOf DEF Finalize, Step, Stowed
<1>21. CASE FinalizeFails(w)
  <2>1. member' \in [Member -> Writer \cup {NoWriter}] BY <1>21 DEF FinalizeFails, Stowed
  <2>2. rc' \in [Writer -> {"ok", "failure", "other"}]
    <3>1. (\E r \in {"failure", "other"} : FirstRc(w, r)) \/ rc' = rc BY <1>21 DEF FinalizeFails
    <3>2. ASSUME NEW r \in {"failure", "other"}, FirstRc(w, r)
          PROVE  rc' \in [Writer -> {"ok", "failure", "other"}]
      BY <3>2, ExceptType DEF FirstRc
    <3>3. QED BY <3>1, <3>2
  <2>3. stow' \in [Writer -> {"none", "done", "unnoticed", "failed"}] BY <1>21 DEF FinalizeFails, Stow
  <2>4. QED BY <1>21, <2>1, <2>2, <2>3 DEF FinalizeFails, Step
<1>22. CASE CloseFails(w)
  <2>1. member' \in [Member -> Writer \cup {NoWriter}]
    BY <1>22 DEF CloseFails, Stowed
  <2>2. PICK r \in {"failure", "other"} : FirstRc(w, r)
    BY <1>22 DEF CloseFails
  <2>3. rc' \in [Writer -> {"ok", "failure", "other"}] BY <2>2 DEF FirstRc
  <2>4. QED BY <1>22, <2>1, <2>3 DEF CloseFails, Step
<1>23. CASE NothingToFinalize(w) BY <1>23, RequestOf DEF NothingToFinalize, Step
<1>24. CASE DeqReserve(w) BY <1>24, RequestOf DEF DeqReserve, Step
<1>25. CASE Deq(w) BY <1>25, RequestOf DEF Deq, Step, DeqMember
<1>31. CASE DeqReserveFails(w) BY <1>31, RequestOf DEF DeqReserveFails, Step, FirstRc
<1>32. CASE DeqFails(w) BY <1>32, RequestOf DEF DeqFails, Step, DeqMemberFails, FirstRc
<1>26. CASE DeqUnopened(w)
  <2>1. /\ enq' \in [Member -> Writer \cup {NoWriter, Lost}]
        /\ dd' \in [Writer -> {"none", "allocated", "left"}]
    <3>1. CASE DeqMember(w) BY <1>26, <3>1 DEF DeqUnopened, DeqMember
    <3>2. CASE DeqMemberFails(w) BY <1>26, <3>2 DEF DeqUnopened, DeqMemberFails
    <3>3. QED BY <1>26, <3>1, <3>2 DEF DeqUnopened
  <2>2. QED BY <1>26, <2>1, ReturnType DEF DeqUnopened
<1>27. CASE Free(w)
  <2>1. dd' \in [Writer -> {"none", "allocated", "left"}] BY <1>27 DEF Free, FreeDd
  <2>2. QED BY <1>27, <2>1 DEF Free, Step
<1>28. CASE FreeAfterFailure(w)
  <2>1. dd' \in [Writer -> {"none", "allocated", "left"}] BY <1>28 DEF FreeAfterFailure, FreeDd
  <2>2. QED BY <1>28, <2>1, ReturnType DEF FreeAfterFailure
<1>29. CASE Reread(w)
  <2>1. \E a \in {IF rc[w] = "ok" THEN "ok" ELSE "error", "error"} : Return(w, "reread", a)
    BY <1>29 DEF Reread
  <2>2. PICK a \in {"ok", "error"} : Return(w, "reread", a)
    <3>1. CASE rc[w] = "ok" BY <2>1, <3>1
    <3>2. CASE rc[w] # "ok" BY <2>1, <3>2
    <3>3. QED BY <3>1, <3>2
  <2>3. UNCHANGED <<recfm, member, enq, reserve, dd, dcb>> BY <1>29 DEF Reread
  <2>4. CASE Return(w, "reread", "ok") BY <2>3, <2>4, ReturnType
  <2>5. CASE Return(w, "reread", "error") BY <2>3, <2>5, ReturnType
  <2>6. QED BY <2>2, <2>4, <2>5
<1>30. QED BY Steps, <1>1, <1>2, <1>3, <1>4, <1>5, <1>6, <1>7, <1>8, <1>9, <1>10, <1>11, <1>12, <1>13, <1>14, <1>15, <1>16, <1>17, <1>18, <1>19, <1>20, <1>21, <1>22, <1>23, <1>24, <1>25, <1>26, <1>27, <1>28, <1>29,
     <1>31, <1>32

LEMMA DeqOthers ==
  ASSUME TypeOK, NEW w \in Writer, NEW v \in Writer, v # w, req[w].member \in Member,
         DeqMember(w) \/ DeqMemberFails(w)
  PROVE  \A m \in Member : enq'[m] = v <=> enq[m] = v
<1> DEFINE r == req[w].member
<1>1. \/ enq' = [enq EXCEPT ![r] = IF enq[r] = w THEN NoWriter ELSE enq[r]]
      \/ enq[r] = w /\ enq' = [enq EXCEPT ![r] = Lost]
  BY DEF DeqMember, DeqMemberFails
<1>2. enq \in [Member -> Writer \cup {NoWriter, Lost}] /\ r \in Member BY DEF TypeOK
<1> HIDE DEF r
<1>3. QED BY <1>1, <1>2, MemberAssumption

LEMMA ReturnOthers ==
  ASSUME TypeOK, NEW w \in Writer, NEW v \in Writer, v # w, NEW l, NEW a, Return(w, l, a)
  PROVE  /\ pc'[v] = pc[v] /\ req'[v] = req[v] /\ opened'[v] = opened[v]
         /\ added'[v] = added[v] /\ buffer'[v] = buffer[v] /\ stored'[v] = stored[v]
         /\ rc'[v] = rc[v] /\ stow'[v] = stow[v] /\ answer'[v] = answer[v]
<1>1. pc'[v] = pc[v]
  <2>1. pc' = [pc EXCEPT ![w] = "out"] BY DEF Return, Step
  <2>2. DOMAIN pc = Writer /\ pc = [u \in Writer |-> pc[u]] BY DEF TypeOK
  <2>3. QED BY <2>1, <2>2
<1>2. req'[v] = req[v]
  <2>1. req' = [req EXCEPT ![w] = NoRequest] BY DEF Return
  <2>2. DOMAIN req = Writer /\ req = [u \in Writer |-> req[u]] BY DEF TypeOK
  <2>3. QED BY <2>1, <2>2
<1>3. opened'[v] = opened[v]
  <2>1. opened' = [opened EXCEPT ![w] = FALSE] BY DEF Return
  <2>2. DOMAIN opened = Writer /\ opened = [u \in Writer |-> opened[u]] BY DEF TypeOK
  <2>3. QED BY <2>1, <2>2
<1>4. added'[v] = added[v]
  <2>1. added' = [added EXCEPT ![w] = 0] BY DEF Return
  <2>2. DOMAIN added = Writer /\ added = [u \in Writer |-> added[u]] BY DEF TypeOK
  <2>3. QED BY <2>1, <2>2
<1>5. buffer'[v] = buffer[v]
  <2>1. buffer' = [buffer EXCEPT ![w] = 0] BY DEF Return
  <2>2. DOMAIN buffer = Writer /\ buffer = [u \in Writer |-> buffer[u]] BY DEF TypeOK
  <2>3. QED BY <2>1, <2>2
<1>6. stored'[v] = stored[v]
  <2>1. stored' = [stored EXCEPT ![w] = 0] BY DEF Return
  <2>2. DOMAIN stored = Writer /\ stored = [u \in Writer |-> stored[u]] BY DEF TypeOK
  <2>3. QED BY <2>1, <2>2
<1>7. rc'[v] = rc[v]
  <2>1. rc' = [rc EXCEPT ![w] = "ok"] BY DEF Return
  <2>2. DOMAIN rc = Writer /\ rc = [u \in Writer |-> rc[u]] BY DEF TypeOK
  <2>3. QED BY <2>1, <2>2
<1>8. stow'[v] = stow[v]
  <2>1. stow' = [stow EXCEPT ![w] = "none"] BY DEF Return
  <2>2. DOMAIN stow = Writer /\ stow = [u \in Writer |-> stow[u]] BY DEF TypeOK
  <2>3. QED BY <2>1, <2>2
<1>9. answer'[v] = answer[v]
  <2>1. answer' = [answer EXCEPT ![w] = a] BY DEF Return
  <2>2. DOMAIN answer = Writer /\ answer = [u \in Writer |-> answer[u]] BY DEF TypeOK
  <2>3. QED BY <2>1, <2>2
<1>10. QED BY <1>1, <1>2, <1>3, <1>4, <1>5, <1>6, <1>7, <1>8, <1>9

LEMMA ReturnUntouched ==
  ASSUME WriterInv, NEW w \in Writer, NEW v \in Writer, v # w,
         AllocateFails(w) \/ DeqUnopened(w) \/ FreeAfterFailure(w) \/ Reread(w)
  PROVE  /\ pc'[v] = pc[v] /\ req'[v] = req[v] /\ dd'[v] = dd[v] /\ opened'[v] = opened[v] /\ dcb'[v] = dcb[v]
         /\ added'[v] = added[v] /\ buffer'[v] = buffer[v] /\ stored'[v] = stored[v]
         /\ rc'[v] = rc[v] /\ stow'[v] = stow[v] /\ answer'[v] = answer[v]
         /\ reserve' = v <=> reserve = v
         /\ \A m \in Member : enq'[m] = v <=> enq[m] = v
         /\ recfm' = recfm
<1>1. TypeOK BY DEF WriterInv
<1>2. \E l, a : Return(w, l, a) BY DEF AllocateFails, DeqUnopened, FreeAfterFailure, Reread
<1>3. /\ pc'[v] = pc[v] /\ req'[v] = req[v] /\ opened'[v] = opened[v]
      /\ added'[v] = added[v] /\ buffer'[v] = buffer[v] /\ stored'[v] = stored[v]
      /\ rc'[v] = rc[v] /\ stow'[v] = stow[v] /\ answer'[v] = answer[v]
  BY <1>1, <1>2, ReturnOthers
<1>4. dd'[v] = dd[v]
  <2>1. dd' = dd \/ \E d : dd' = [dd EXCEPT ![w] = d]
    BY DEF AllocateFails, DeqUnopened, FreeAfterFailure, FreeDd, Reread
  <2>2. dd \in [Writer -> {"none", "allocated", "left"}] BY <1>1 DEF TypeOK
  <2>3. QED BY <2>1, <2>2, ExceptOther
<1>5. recfm' = recfm /\ reserve' = reserve /\ dcb' = dcb
  BY DEF AllocateFails, DeqUnopened, FreeAfterFailure, Reread, lockVars
<1>6. \A m \in Member : enq'[m] = v <=> enq[m] = v
  <2>1. CASE DeqUnopened(w)
    <3>1. req[w].member \in Member BY <2>1, RequestOf DEF DeqUnopened, Return, Step
    <3>2. QED BY <1>1, <2>1, <3>1, DeqOthers DEF DeqUnopened
  <2>2. CASE ~DeqUnopened(w)
    <3>1. enq' = enq BY <2>2 DEF AllocateFails, FreeAfterFailure, Reread, lockVars
    <3>2. QED BY <3>1
  <2>3. QED BY <2>1, <2>2
<1>7. QED BY <1>3, <1>4, <1>5, <1>6

\* A step of w leaves the locals of another thread, and what it holds, alone.
LEMMA OthersUntouched ==
  ASSUME WriterInv, NEW w \in Writer, NEW v \in Writer, v # w, ThreadStep(w)
  PROVE  /\ pc'[v] = pc[v] /\ req'[v] = req[v] /\ dd'[v] = dd[v] /\ opened'[v] = opened[v] /\ dcb'[v] = dcb[v]
         /\ added'[v] = added[v] /\ buffer'[v] = buffer[v] /\ stored'[v] = stored[v]
         /\ rc'[v] = rc[v] /\ stow'[v] = stow[v] /\ answer'[v] = answer[v]
         /\ reserve' = v <=> reserve = v
         /\ \A m \in Member : enq'[m] = v <=> enq[m] = v
         /\ recfm' = recfm
<1>4. CASE AllocateFails(w) \/ DeqUnopened(w) \/ FreeAfterFailure(w) \/ Reread(w) BY <1>4, ReturnUntouched
<1> USE MemberAssumption DEF TypeOK, lockVars, textVars
<1>0. TypeOK BY DEF WriterInv
<1>1. CASE Refuse(w) BY <1>0, <1>1 DEF Refuse
<1>2. CASE Begin(w)
  <2>1. PICK q \in Request : req' = [req EXCEPT ![w] = q] BY <1>2 DEF Begin
  <2>2. /\ pc' = [pc EXCEPT ![w] = "alloc"] /\ dd' = [dd EXCEPT ![w] = "none"]
        /\ answer' = [answer EXCEPT ![w] = "none"]
        /\ UNCHANGED <<recfm, member, lockVars, opened, dcb, textVars, rc, stow>>
    BY <1>2 DEF Begin, Step
  <2>3. req'[v] = req[v] BY <1>0, <2>1
  <2> QED BY <1>0, <2>2, <2>3
<1>3. CASE Allocate(w) BY <1>0, <1>3 DEF Allocate, Step
<1>5. CASE OpenStepFails(w) BY <1>0, <1>5 DEF OpenStepFails
<1>6. CASE ReadJfcb(w) BY <1>0, <1>6 DEF ReadJfcb, Step
<1>7. CASE Enq(w) BY <1>0, <1>7, RequestOf DEF Enq, Step, EnqGranted
<1>8. CASE Reserve(w) BY <1>0, <1>8 DEF Reserve, Step, ReserveGranted
<1>9. CASE Open(w) BY <1>0, <1>9 DEF Open, Step
<1>10. CASE Validate(w) BY <1>0, <1>10 DEF Validate, Step
<1>11. CASE Setup(w) BY <1>0, <1>11 DEF Setup, Step
<1>12. CASE FifoOpens(w) BY <1>0, <1>12 DEF FifoOpens, Step
<1>13. CASE TextFails(w) BY <1>0, <1>13 DEF TextFails
<1>14. CASE AddRecord(w) BY <1>0, <1>14 DEF AddRecord
<1>15. CASE WriteBlock(w) BY <1>0, <1>15 DEF WriteBlock
<1>16. CASE WriteFails(w)
  <2>1. added'[v] = added[v] /\ buffer'[v] = buffer[v]
    <3>1. CASE recfm = "fixed"
      <4>1. \E a, b : added' = [added EXCEPT ![w] = a] /\ buffer' = [buffer EXCEPT ![w] = b]
        BY <1>16, <3>1 DEF WriteFails
      <4>2. added \in [Writer -> 0 .. MaxLines] /\ buffer \in [Writer -> 0 .. MaxLines] BY <1>0
      <4>3. QED BY <4>1, <4>2, ExceptOther
    <3>2. CASE recfm # "fixed" BY <1>16, <3>2 DEF WriteFails
    <3>3. QED BY <3>1, <3>2
  <2>2. dcb'[v] = dcb[v]
    <3>1. PICK d \in {"open", "gone"} : dcb' = [dcb EXCEPT ![w] = d] BY <1>16 DEF WriteFails
    <3>2. QED BY <1>0, <3>1
  <2>3. pc'[v] = pc[v] /\ rc'[v] = rc[v] BY <1>0, <1>16 DEF WriteFails
  <2>4. UNCHANGED <<recfm, enq, reserve, req, dd, opened, stored, stow, answer>> BY <1>16 DEF WriteFails
  <2>5. QED BY <2>1, <2>2, <2>3, <2>4
<1>17. CASE EndOfText(w) BY <1>0, <1>17 DEF EndOfText, InText, Step
<1>18. CASE Flush(w) BY <1>0, <1>18 DEF Flush, Step
<1>19. CASE FlushFails(w) BY <1>0, <1>19 DEF FlushFails, Step, FlushNoticed, FirstRc
<1>20. CASE Finalize(w) BY <1>0, <1>20 DEF Finalize, Step
<1>21. CASE FinalizeFails(w) BY <1>0, <1>21 DEF FinalizeFails, Step, FirstRc, Stow
<1>22. CASE CloseFails(w) BY <1>0, <1>22 DEF CloseFails, Step, FirstRc
<1>23. CASE NothingToFinalize(w) BY <1>0, <1>23 DEF NothingToFinalize, Step
<1>24. CASE DeqReserve(w)
  <2>1. reserve' = IF reserve = w THEN NoWriter ELSE reserve BY <1>24 DEF DeqReserve
  <2>2. reserve' = v <=> reserve = v BY <2>1
  <2>3. pc'[v] = pc[v] BY <1>0, <1>24 DEF DeqReserve, Step
  <2>4. UNCHANGED <<recfm, enq, req, dd, opened, dcb, added, buffer, stored, rc, stow, answer>>
    BY <1>24 DEF DeqReserve
  <2>5. QED BY <2>2, <2>3, <2>4
<1>25. CASE Deq(w)
  <2>1. req[w].member \in Member BY <1>25, RequestOf DEF Deq, Step
  <2>2. \A m \in Member : enq'[m] = v <=> enq[m] = v BY <1>0, <1>25, <2>1, DeqOthers DEF Deq
  <2>3. pc'[v] = pc[v] BY <1>0, <1>25 DEF Deq, Step
  <2>4. UNCHANGED <<recfm, member, reserve, req, dd, opened, dcb, added, buffer, stored, rc, stow, answer>>
    BY <1>25 DEF Deq
  <2>5. QED BY <2>2, <2>3, <2>4
<1>31. CASE DeqReserveFails(w) BY <1>0, <1>31 DEF DeqReserveFails, Step, FirstRc
<1>32. CASE DeqFails(w)
  <2>1. req[w].member \in Member BY <1>32, RequestOf DEF DeqFails, Step
  <2>2. \A m \in Member : enq'[m] = v <=> enq[m] = v BY <1>0, <1>32, <2>1, DeqOthers DEF DeqFails
  <2>3. pc'[v] = pc[v] /\ rc'[v] = rc[v] BY <1>0, <1>32 DEF DeqFails, Step, FirstRc
  <2>4. UNCHANGED <<recfm, member, reserve, req, dd, opened, dcb, added, buffer, stored, stow, answer>>
    BY <1>32 DEF DeqFails
  <2>5. QED BY <2>2, <2>3, <2>4
<1>27. CASE Free(w) BY <1>0, <1>27 DEF Free, Step, FreeDd
<1>30. QED BY Steps, <1>1, <1>2, <1>3, <1>4, <1>5, <1>6, <1>7, <1>8, <1>9, <1>10, <1>11, <1>12, <1>13, <1>14, <1>15, <1>16, <1>17, <1>18, <1>19, <1>20, <1>21, <1>22, <1>23, <1>24, <1>25, <1>27,
     <1>31, <1>32

LEMMA CountedOfOthers ==
  ASSUME WriterInv, NEW w \in Writer, NEW v \in Writer, v # w, ThreadStep(w), Counted(v)
  PROVE  Counted(v)'
BY OthersUntouched DEF Counted, Skipped

LEMMA ExceptAt ==
  ASSUME NEW S, NEW T, NEW f \in [S -> T], NEW x \in S, NEW y
  PROVE  [f EXCEPT ![x] = y][x] = y
OBVIOUS

LEMMA CountTypes ==
  ASSUME TypeOK, NEW w \in Writer
  PROVE  /\ added \in [Writer -> 0 .. MaxLines] /\ buffer \in [Writer -> 0 .. MaxLines]
         /\ stored \in [Writer -> 0 .. MaxLines]
         /\ added[w] \in Nat /\ buffer[w] \in Nat /\ stored[w] \in Nat
<1>1. /\ added \in [Writer -> 0 .. MaxLines] /\ buffer \in [Writer -> 0 .. MaxLines]
      /\ stored \in [Writer -> 0 .. MaxLines]
  BY DEF TypeOK
<1>2. added[w] \in 0 .. MaxLines /\ buffer[w] \in 0 .. MaxLines /\ stored[w] \in 0 .. MaxLines BY <1>1
<1>3. QED BY <1>1, <1>2, MemberAssumption

LEMMA CountedOfSelf ==
  ASSUME WriterInv, NEW w \in Writer, ThreadStep(w), Counted(w)
  PROVE  Counted(w)'
<1> USE DEF lockVars, textVars
<1>0. /\ added \in [Writer -> 0 .. MaxLines] /\ buffer \in [Writer -> 0 .. MaxLines]
      /\ stored \in [Writer -> 0 .. MaxLines]
      /\ added[w] \in Nat /\ buffer[w] \in Nat /\ stored[w] \in Nat
  BY CountTypes DEF WriterInv
<1>1. CASE AddRecord(w)
  <2>1. added'[w] = added[w] + 1 BY <1>0, <1>1, ExceptAt DEF AddRecord
  <2>2. buffer'[w] = buffer[w] + 1 BY <1>0, <1>1, ExceptAt DEF AddRecord
  <2>3. stored'[w] = stored[w] /\ recfm' = recfm /\ req' = req /\ pc' = pc BY <1>1 DEF AddRecord
  <2>4. ~PassedOver(w) /\ pc[w] # "out" BY <1>1 DEF AddRecord, MoreLines, InText
  <2>5. Skipped(w)' = Skipped(w) BY <1>0, <2>1, <2>3, <2>4 DEF PassedOver, Skipped
  <2>6. Skipped(w) \in {0, 1} BY DEF Skipped
  <2>7. stored'[w] + buffer'[w] + Skipped(w)' = added'[w]
    BY <1>0, <2>1, <2>2, <2>3, <2>5, <2>6 DEF Counted
  <2>8. QED BY <2>3, <2>4, <2>7 DEF Counted
<1>2. CASE WriteBlock(w)
  <2>1. added'[w] = added[w] + 1 BY <1>0, <1>2, ExceptAt DEF WriteBlock
  <2>2. /\ stored'[w] = IF recfm = "fixed" THEN stored[w] + buffer[w] + 1 ELSE stored[w] + buffer[w]
        /\ buffer'[w] = IF recfm = "fixed" \/ PassedOver(w) THEN 0 ELSE 1
    BY <1>0, <1>2, ExceptAt DEF WriteBlock
  <2>3. recfm' = recfm /\ req' = req /\ pc' = pc BY <1>2 DEF WriteBlock
  <2>4. pc[w] # "out" BY <1>2 DEF WriteBlock, MoreLines, InText
  <2>5. Skipped(w) \in {0, 1} BY DEF Skipped
  <2>6. CASE PassedOver(w)
    <3>1. added[w] = 0 /\ recfm = "tight" /\ Skipped(w) = 0 BY <2>6 DEF PassedOver, Skipped
    <3>2. Skipped(w)' = 1 BY <2>1, <2>3, <2>6, <3>1 DEF PassedOver, Skipped
    <3>3. stored'[w] = stored[w] + buffer[w] /\ buffer'[w] = 0 BY <2>2, <2>6, <3>1
    <3>4. stored'[w] + buffer'[w] + Skipped(w)' = added'[w] BY <1>0, <2>1, <3>1, <3>2, <3>3 DEF Counted
    <3>5. QED BY <2>3, <2>4, <3>4 DEF Counted
  <2>7. CASE ~PassedOver(w)
    <3>1. Skipped(w)' = Skipped(w) BY <1>0, <2>1, <2>3, <2>7 DEF PassedOver, Skipped
    <3>2. stored'[w] + buffer'[w] = stored[w] + buffer[w] + 1 BY <1>0, <2>2, <2>7
    <3>3. stored'[w] + buffer'[w] + Skipped(w)' = added'[w]
      BY <1>0, <2>1, <2>5, <3>1, <3>2 DEF Counted
    <3>4. QED BY <2>3, <2>4, <3>3 DEF Counted
  <2>8. QED BY <2>6, <2>7
<1>3. CASE WriteFails(w)
  <2>1. recfm' = recfm /\ req' = req /\ stored' = stored BY <1>3 DEF WriteFails
  <2>2. pc'[w] = "flush" BY <1>3 DEF WriteFails, WriterInv, TypeOK
  <2>3. CASE recfm = "fixed"
    <3>1. added'[w] = added[w] + 1 /\ buffer'[w] = buffer[w] + 1
      BY <1>0, <1>3, <2>3, ExceptAt DEF WriteFails
    <3>2. Skipped(w)' = 0 /\ Skipped(w) = 0 BY <2>1, <2>3 DEF Skipped
    <3>3. QED BY <1>0, <2>1, <2>2, <3>1, <3>2 DEF Counted
  <2>4. CASE recfm # "fixed"
    <3>1. added' = added /\ buffer' = buffer BY <1>3, <2>4 DEF WriteFails
    <3>2. QED BY <2>1, <2>2, <3>1 DEF Counted, Skipped
  <2>5. QED BY <2>3, <2>4
<1>4. CASE Flush(w)
  <2>1. pc'[w] = "finalize" /\ recfm' = recfm /\ req' = req /\ added' = added
    BY <1>4 DEF Flush, Step, WriterInv, TypeOK
  <2>2. Skipped(w)' = Skipped(w) /\ Skipped(w) \in {0, 1} BY <2>1 DEF Skipped
  <2>3. CASE dcb[w] = "open"
    <3>1. stored'[w] = stored[w] + buffer[w] /\ buffer'[w] = 0 BY <1>0, <1>4, <2>3, ExceptAt DEF Flush
    <3>2. QED BY <1>0, <2>1, <2>2, <3>1 DEF Counted
  <2>4. CASE dcb[w] # "open"
    <3>1. stored' = stored /\ buffer' = buffer BY <1>4, <2>4 DEF Flush
    <3>2. QED BY <2>1, <2>2, <3>1 DEF Counted
  <2>5. QED BY <2>3, <2>4
<1>5. CASE Begin(w)
  <2>1. /\ pc[w] = "out" /\ pc'[w] = "alloc" /\ added' = added /\ buffer' = buffer /\ stored' = stored
        /\ recfm' = recfm
    BY <1>5 DEF Begin, Step, WriterInv, TypeOK
  <2>2. added[w] = 0 BY <2>1 DEF Counted
  <2>3. Skipped(w) = 0 /\ Skipped(w)' = 0 BY <2>1, <2>2 DEF Skipped
  <2>4. QED BY <2>1, <2>3 DEF Counted
<1>6. ASSUME NEW l, NEW a, Return(w, l, a) PROVE Counted(w)'
  <2>1. added'[w] = 0 /\ buffer'[w] = 0 /\ stored'[w] = 0 BY <1>0, <1>6, ExceptAt DEF Return
  <2>2. Skipped(w)' = 0 BY <2>1 DEF Skipped
  <2>3. QED BY <2>1, <2>2 DEF Counted
<1>7. CASE AllocateFails(w) \/ DeqUnopened(w) \/ FreeAfterFailure(w) \/ Reread(w)
  <2>1. \E l, a : Return(w, l, a)
    BY <1>7 DEF AllocateFails, DeqUnopened, FreeAfterFailure, Reread
  <2>2. QED BY <1>6, <2>1
<1>8. ASSUME UNCHANGED <<recfm, req, added, buffer, stored>>, pc'[w] # "out" \/ pc' = pc PROVE Counted(w)'
  BY <1>8 DEF Counted, Skipped
<1>9. CASE Refuse(w) BY <1>8, <1>9 DEF Refuse
<1>10. CASE OpenStepFails(w) \/ TextFails(w)
  <2>1. pc'[w] = "flush" BY <1>10 DEF OpenStepFails, TextFails, WriterInv, TypeOK
  <2>2. QED BY <1>8, <1>10, <2>1 DEF OpenStepFails, TextFails
<1>11. CASE Allocate(w) \/ ReadJfcb(w) \/ Enq(w) \/ Reserve(w) \/ Open(w) \/ Validate(w) \/ Setup(w)
             \/ FifoOpens(w) \/ EndOfText(w) \/ FlushFails(w) \/ Finalize(w) \/ FinalizeFails(w)
             \/ CloseFails(w) \/ NothingToFinalize(w) \/ DeqReserve(w) \/ DeqReserveFails(w) \/ Deq(w)
             \/ DeqFails(w) \/ Free(w)
  <2>0. \A l, t : Step(w, l, t) => pc'[w] = t BY DEF Step, WriterInv, TypeOK
  <2>1. Setup(w) => pc'[w] # "out" BY <2>0 DEF Setup
  <2>2. pc'[w] # "out"
    BY <1>11, <2>0, <2>1 DEF Allocate, ReadJfcb, Enq, Reserve, Open, Validate, FifoOpens, EndOfText, FlushFails,
      Finalize, FinalizeFails, CloseFails, NothingToFinalize, DeqReserve, DeqReserveFails, Deq,
      DeqFails, Free
  <2>3. UNCHANGED <<recfm, req, added, buffer, stored>>
    BY <1>11 DEF Allocate, ReadJfcb, Enq, Reserve, Open, Validate, Setup, FifoOpens, EndOfText, FlushFails,
      Finalize, FinalizeFails, CloseFails, NothingToFinalize, DeqReserve, DeqReserveFails, Deq,
      DeqFails, Free
  <2>4. QED BY <1>8, <2>2, <2>3
<1>12. QED BY Steps, <1>1, <1>2, <1>3, <1>4, <1>5, <1>7, <1>9, <1>10, <1>11
-----------------------------------------------------------------------------

LEMMA LocksOfOthers ==
  ASSUME WriterInv, NEW w \in Writer, NEW v \in Writer, v # w, ThreadStep(w)
  PROVE  Locks(v)'
<1>1. Locks(v) BY DEF WriterInv
<1>2. /\ pc'[v] = pc[v] /\ req'[v] = req[v] /\ dd'[v] = dd[v] /\ dcb'[v] = dcb[v]
      /\ reserve' = v <=> reserve = v
      /\ \A m \in Member : enq'[m] = v <=> enq[m] = v
  BY OthersUntouched
<1>3. pc[v] # "out" => req[v].member \in Member BY RequestOf
<1>4. QED BY <1>1, <1>2, <1>3 DEF Locks, Holding

LEMMA LocksOfSelf ==
  ASSUME WriterInv, NEW w \in Writer, ThreadStep(w)
  PROVE  Locks(w)'
<1> USE DEF lockVars, textVars
<1>0. /\ pc \in [Writer -> {"out", "alloc", "jfcb", "enq", "reserve", "open", "validate", "setup", "fifo",
                          "write", "stream", "flush", "finalize", "deq reserve", "deq", "free", "reread"}]
      /\ req \in [Writer -> Request \cup {NoRequest}]
      /\ dd \in [Writer -> {"none", "allocated", "left"}]
      /\ dcb \in [Writer -> {"closed", "open", "gone"}]
      /\ enq \in [Member -> Writer \cup {NoWriter, Lost}]
      /\ NoWriter \notin Writer /\ Lost \notin Writer /\ Lost # NoWriter
      /\ Locks(w)
      /\ pc[w] # "out" => req[w].member \in Member
  BY RequestOf, MemberAssumption DEF WriterInv, TypeOK
<1>1. CASE Refuse(w) BY <1>0, <1>1 DEF Refuse, Locks, Holding
<1>2. CASE Begin(w) BY <1>0, <1>2 DEF Begin, Step, Locks, Holding
<1>3. CASE Allocate(w) BY <1>0, <1>3 DEF Allocate, Step, Locks, Holding
<1>4. CASE AllocateFails(w) BY <1>0, <1>4 DEF AllocateFails, Step, Return, Locks, Holding
<1>5. CASE OpenStepFails(w) BY <1>0, <1>5 DEF OpenStepFails, Locks, Holding
<1>6. CASE ReadJfcb(w) BY <1>0, <1>6 DEF ReadJfcb, Step, Locks, Holding
<1>7. CASE Enq(w) BY <1>0, <1>7 DEF Enq, Step, EnqGranted, Locks, Holding
<1>8. CASE Reserve(w) BY <1>0, <1>8 DEF Reserve, Step, ReserveGranted, Locks, Holding
<1>9. CASE Open(w) BY <1>0, <1>9 DEF Open, Step, Locks, Holding
<1>10. CASE Validate(w) BY <1>0, <1>10 DEF Validate, Step, Locks, Holding
<1>11. CASE Setup(w) BY <1>0, <1>11 DEF Setup, Step, Locks, Holding
<1>12. CASE FifoOpens(w) BY <1>0, <1>12 DEF FifoOpens, Step, Locks, Holding
<1>13. CASE TextFails(w) BY <1>0, <1>13 DEF TextFails, Locks, Holding
<1>14. CASE AddRecord(w) BY <1>0, <1>14 DEF AddRecord, MoreLines, InText, Locks, Holding
<1>15. CASE WriteBlock(w) BY <1>0, <1>15 DEF WriteBlock, MoreLines, InText, Locks, Holding
<1>16. CASE WriteFails(w) BY <1>0, <1>16 DEF WriteFails, MoreLines, InText, Locks, Holding
<1>17. CASE EndOfText(w) BY <1>0, <1>17 DEF EndOfText, InText, Step, Locks, Holding
<1>18. CASE Flush(w) BY <1>0, <1>18 DEF Flush, Step, Locks, Holding
<1>19. CASE FlushFails(w) BY <1>0, <1>19 DEF FlushFails, Step, Locks, Holding
<1>20. CASE Finalize(w) BY <1>0, <1>20 DEF Finalize, Step, Locks, Holding
<1>21. CASE FinalizeFails(w) BY <1>0, <1>21 DEF FinalizeFails, Step, Locks, Holding
<1>22. CASE CloseFails(w) BY <1>0, <1>22 DEF CloseFails, Step, Locks, Holding
<1>23. CASE NothingToFinalize(w) BY <1>0, <1>23 DEF NothingToFinalize, Step, Locks, Holding
<1>24. CASE DeqReserve(w) BY <1>0, <1>24 DEF DeqReserve, Step, Locks, Holding
<1>25. CASE Deq(w) BY <1>0, <1>25 DEF Deq, Step, DeqMember, Locks, Holding
<1>31. CASE DeqReserveFails(w) BY <1>0, <1>31 DEF DeqReserveFails, Step, Locks, Holding
<1>32. CASE DeqFails(w) BY <1>0, <1>32 DEF DeqFails, Step, DeqMemberFails, Locks, Holding
<1>26. CASE DeqUnopened(w)
  <2>1. CASE DeqMember(w)
    BY <1>0, <1>26, <2>1 DEF DeqUnopened, Step, Return, DeqMember, Locks, Holding
  <2>2. CASE DeqMemberFails(w)
    BY <1>0, <1>26, <2>2 DEF DeqUnopened, Step, Return, DeqMemberFails, Locks, Holding
  <2>3. QED BY <1>26, <2>1, <2>2 DEF DeqUnopened
<1>27. CASE Free(w) BY <1>0, <1>27 DEF Free, Step, FreeDd, Locks, Holding
<1>28. CASE FreeAfterFailure(w) BY <1>0, <1>28 DEF FreeAfterFailure, Step, Return, FreeDd, Locks, Holding
<1>29. CASE Reread(w) BY <1>0, <1>29 DEF Reread, Step, Return, Locks, Holding
<1>30. QED BY Steps, <1>1, <1>2, <1>3, <1>4, <1>5, <1>6, <1>7, <1>8, <1>9, <1>10, <1>11, <1>12, <1>13, <1>14, <1>15, <1>16, <1>17, <1>18, <1>19, <1>20, <1>21, <1>22, <1>23, <1>24, <1>25, <1>26, <1>27, <1>28, <1>29,
     <1>31, <1>32
-----------------------------------------------------------------------------
(* A write without a failure has handed over every line, flushed the       *)
(* buffer, and gone through STOW.                                          *)

Whole(w) ==
  /\ pc[w] \in {"validate", "setup", "fifo", "write", "stream"} => dcb[w] = "open"
  /\ rc[w] = "ok" /\ pc[w] \in {"flush", "finalize", "deq reserve", "deq", "free", "reread"} =>
       added[w] = req[w].lines
  /\ rc[w] = "ok" /\ pc[w] \in {"flush", "finalize"} => dcb[w] = "open"
  /\ rc[w] = "ok" /\ pc[w] \in {"finalize", "deq reserve", "deq", "free", "reread"} => buffer[w] = 0
  /\ rc[w] = "ok" /\ pc[w] \in {"deq reserve", "deq", "free", "reread"} => stow[w] \in {"done", "unnoticed"}

LEMMA WholeOfOthers ==
  ASSUME WriterInv, NEW w \in Writer, NEW v \in Writer, v # w, ThreadStep(w), Whole(v)
  PROVE  Whole(v)'
BY OthersUntouched DEF Whole

LEMMA WholeOfSelf ==
  ASSUME WriterInv, NEW w \in Writer, ThreadStep(w), Whole(w)
  PROVE  Whole(w)'
<1> USE DEF lockVars, textVars
<1>0. /\ pc \in [Writer -> {"out", "alloc", "jfcb", "enq", "reserve", "open", "validate", "setup", "fifo",
                          "write", "stream", "flush", "finalize", "deq reserve", "deq", "free", "reread"}]
      /\ dcb \in [Writer -> {"closed", "open", "gone"}]
      /\ rc \in [Writer -> {"ok", "failure", "other"}]
      /\ stow \in [Writer -> {"none", "done", "unnoticed", "failed"}]
      /\ buffer \in [Writer -> 0 .. MaxLines]
      /\ Whole(w)
  BY DEF WriterInv, TypeOK
<1>1. CASE Refuse(w) BY <1>0, <1>1 DEF Refuse, Whole
<1>2. CASE Begin(w) BY <1>0, <1>2 DEF Begin, Step, Whole
<1>3. CASE Allocate(w) BY <1>0, <1>3 DEF Allocate, Step, Whole
<1>4. CASE AllocateFails(w) BY <1>0, <1>4 DEF AllocateFails, Step, Return, Whole
<1>5. CASE OpenStepFails(w) BY <1>0, <1>5 DEF OpenStepFails, Whole
<1>6. CASE ReadJfcb(w) BY <1>0, <1>6 DEF ReadJfcb, Step, Whole
<1>7. CASE Enq(w) BY <1>0, <1>7 DEF Enq, Step, Whole
<1>8. CASE Reserve(w) BY <1>0, <1>8 DEF Reserve, Step, Whole
<1>9. CASE Open(w) BY <1>0, <1>9 DEF Open, Step, Whole
<1>10. CASE Validate(w) BY <1>0, <1>10 DEF Validate, Step, Whole
<1>11. CASE Setup(w) BY <1>0, <1>11 DEF Setup, Step, Whole
<1>12. CASE FifoOpens(w) BY <1>0, <1>12 DEF FifoOpens, Step, Whole
<1>13. CASE TextFails(w) BY <1>0, <1>13 DEF TextFails, Whole
<1>14. CASE AddRecord(w) BY <1>0, <1>14 DEF AddRecord, MoreLines, InText, Whole
<1>15. CASE WriteBlock(w) BY <1>0, <1>15 DEF WriteBlock, MoreLines, InText, Whole
<1>16. CASE WriteFails(w) BY <1>0, <1>16 DEF WriteFails, Whole
<1>17. CASE EndOfText(w) BY <1>0, <1>17 DEF EndOfText, InText, Step, Whole
<1>18. CASE Flush(w) BY <1>0, <1>18 DEF Flush, Step, Whole
<1>19. CASE FlushFails(w) BY <1>0, <1>19 DEF FlushFails, Step, FlushNoticed, FirstRc, Whole
<1>20. CASE Finalize(w) BY <1>0, <1>20 DEF Finalize, Step, Whole
<1>21. CASE FinalizeFails(w) BY <1>0, <1>21 DEF FinalizeFails, Step, FirstRc, Stow, Whole
<1>22. CASE CloseFails(w) BY <1>0, <1>22 DEF CloseFails, Step, FirstRc, Whole
<1>23. CASE NothingToFinalize(w) BY <1>0, <1>23 DEF NothingToFinalize, Step, Whole
<1>24. CASE DeqReserve(w) BY <1>0, <1>24 DEF DeqReserve, Step, Whole
<1>25. CASE Deq(w) BY <1>0, <1>25 DEF Deq, Step, Whole
<1>31. CASE DeqReserveFails(w) BY <1>0, <1>31 DEF DeqReserveFails, Step, FirstRc, Whole
<1>32. CASE DeqFails(w) BY <1>0, <1>32 DEF DeqFails, Step, FirstRc, Whole
<1>26. CASE DeqUnopened(w) BY <1>0, <1>26 DEF DeqUnopened, Step, Return, Whole
<1>27. CASE Free(w) BY <1>0, <1>27 DEF Free, Step, Whole
<1>28. CASE FreeAfterFailure(w) BY <1>0, <1>28 DEF FreeAfterFailure, Step, Return, Whole
<1>29. CASE Reread(w)
  <2>1. PICK a : Return(w, "reread", a) BY <1>29 DEF Reread
  <2>2. pc'[w] = "out" BY <1>0, <2>1 DEF Return, Step
  <2>3. QED BY <2>2 DEF Whole
<1>30. QED BY Steps, <1>1, <1>2, <1>3, <1>4, <1>5, <1>6, <1>7, <1>8, <1>9, <1>10, <1>11, <1>12, <1>13, <1>14, <1>15, <1>16, <1>17, <1>18, <1>19, <1>20, <1>21, <1>22, <1>23, <1>24, <1>25, <1>26, <1>27, <1>28, <1>29,
     <1>31, <1>32

-----------------------------------------------------------------------------

Inv == WriterInv /\ \A w \in Writer : Counted(w) /\ Whole(w)

LEMMA InvInit == Init => Inv
<1> SUFFICES ASSUME Init PROVE Inv OBVIOUS
<1>1. WriterInv BY InitWriter
<1>2. ASSUME NEW w \in Writer PROVE Counted(w) /\ Whole(w)
  <2>1. pc[w] = "out" /\ added[w] = 0 /\ buffer[w] = 0 /\ stored[w] = 0 BY DEF Init
  <2>2. Skipped(w) = 0 BY <2>1 DEF Skipped
  <2>3. QED BY <2>1, <2>2 DEF Counted, Whole
<1>3. QED BY <1>1, <1>2 DEF Inv

LEMMA InvStep == Inv /\ [Next]_vars => Inv'
<1> SUFFICES ASSUME Inv, [Next]_vars PROVE Inv' OBVIOUS
<1>0. WriterInv /\ \A w \in Writer : Counted(w) /\ Whole(w) BY DEF Inv
<1>1. ASSUME NEW w \in Writer, ThreadStep(w) PROVE Inv'
  <2>1. TypeOK' BY <1>0, <1>1, TypeStep
  <2>2. ASSUME NEW v \in Writer PROVE Locks(v)' /\ Counted(v)' /\ Whole(v)'
    <3>1. CASE v = w BY <1>0, <1>1, <3>1, LocksOfSelf, CountedOfSelf, WholeOfSelf
    <3>2. CASE v # w BY <1>0, <1>1, <3>2, LocksOfOthers, CountedOfOthers, WholeOfOthers
    <3>3. QED BY <3>1, <3>2
  <2>3. QED BY <2>1, <2>2 DEF Inv, WriterInv
<1>2. CASE UNCHANGED vars
  <2>1. TypeOK' BY <1>0, <1>2 DEF WriterInv, TypeOK, vars, lockVars, textVars
  <2>2. ASSUME NEW v \in Writer PROVE Locks(v)' /\ Counted(v)' /\ Whole(v)'
    <3>1. Locks(v) BY <1>0 DEF WriterInv
    <3>2. Locks(v)' BY <1>2, <3>1 DEF Locks, Holding, vars, lockVars, textVars
    <3>3. Counted(v)' BY <1>0, <1>2 DEF Counted, Skipped, vars, lockVars, textVars
    <3>4. Whole(v)' BY <1>0, <1>2 DEF Whole, vars, lockVars, textVars
    <3>5. QED BY <3>2, <3>3, <3>4
  <2>3. QED BY <2>1, <2>2 DEF Inv, WriterInv
<1>3. QED BY <1>1, <1>2 DEF Next

LEMMA InvAlways == Spec => []Inv
<1>1. QED BY InvInit, InvStep, PTL DEF Spec

\* What every thread holds at each point of open_output_bpam and
\* close_output_bpam, for any number of threads and members.
THEOREM HeldAsCoded == Spec => []WriterInv
<1>1. Inv => WriterInv BY DEF Inv
<1>2. QED BY <1>1, InvAlways, PTL

\* At most one thread has the data set open.
THEOREM OneThreadOpen == Spec => []OneOpen
<1>1. Inv => OneOpen
  <2> SUFFICES ASSUME Inv, NEW v \in Writer, NEW w \in Writer, dcb[v] # "closed", dcb[w] # "closed"
               PROVE  v = w
    BY DEF OneOpen
  <2>1. Locks(v) /\ Locks(w) BY DEF Inv, WriterInv
  <2>2. reserve = v BY <2>1 DEF Locks, Holding
  <2>3. reserve = w BY <2>1 DEF Locks, Holding
  <2>4. QED BY <2>2, <2>3
<1>2. QED BY <1>1, InvAlways, PTL

\* A member changes only by the thread that holds its ENQ and the RESERVE.
THEOREM ChangesAreLocked == Spec => ChangedUnderLocks
<1>1. ASSUME Inv, [Next]_vars
      PROVE  [\A m \in Member : member'[m] # member[m] =>
                \E w \in Writer : enq[m] = w /\ reserve = w /\ member'[m] = w]_vars
  <2>1. CASE UNCHANGED vars BY <2>1
  <2>2. ASSUME NEW w \in Writer, ThreadStep(w), NEW m \in Member, member'[m] # member[m]
        PROVE  enq[m] = w /\ reserve = w /\ member'[m] = w
    <3>1. Locks(w) /\ member \in [Member -> Writer \cup {NoWriter}] BY <1>1 DEF Inv, WriterInv, TypeOK
    <3>2. Finalize(w) \/ FinalizeFails(w) \/ CloseFails(w)
      BY <2>2, Steps DEF Refuse, Begin, Allocate, AllocateFails, OpenStepFails, ReadJfcb, Enq, Reserve, Open,
        Validate, Setup, FifoOpens, TextFails, AddRecord, WriteBlock, WriteFails, EndOfText, Flush, FlushFails,
        NothingToFinalize, DeqReserve, DeqReserveFails,
        Deq, DeqFails, DeqUnopened, Free, FreeAfterFailure, Reread
    <3>3. pc[w] = "finalize" /\ dcb[w] # "closed" /\ member' \in {member, Stowed(w)}
      BY <3>2 DEF Finalize, FinalizeFails, CloseFails, Step
    <3>4. Holding(w) BY <3>1, <3>3 DEF Locks
    <3>5. member' = [member EXCEPT ![req[w].member] = w] BY <2>2, <3>3 DEF Stowed
    <3>6. m = req[w].member /\ member'[m] = w BY <2>2, <3>1, <3>5
    <3>7. QED BY <3>4, <3>6 DEF Holding
  <2>3. QED BY <1>1, <2>1, <2>2 DEF Next
<1>2. QED BY <1>1, InvAlways, PTL DEF Spec, ChangedUnderLocks

\* A write answered with success has stored its whole text and the directory
\* entry, but for a full-length record of a tight data set and a STOW whose return
\* code is lost: every other failure, of a DEQ too, is answered as an error.
THEOREM SuccessStoresAll == Spec => SuccessIsWhole
<1>1. ASSUME Inv, [Next]_vars
      PROVE  [\A w \in Writer : answer[w] # "ok" /\ answer'[w] = "ok" =>
                /\ \/ stored[w] = req[w].lines
                   \/ recfm = "tight" /\ req[w].full /\ stored[w] = req[w].lines - 1
                /\ stow[w] \in {"done", "unnoticed"}]_vars
  <2>1. CASE UNCHANGED vars BY <2>1
  <2>2. ASSUME NEW v \in Writer, ThreadStep(v), NEW w \in Writer, answer[w] # "ok", answer'[w] = "ok"
        PROVE  /\ \/ stored[w] = req[w].lines
                  \/ recfm = "tight" /\ req[w].full /\ stored[w] = req[w].lines - 1
               /\ stow[w] \in {"done", "unnoticed"}
    <3>0. WriterInv /\ Counted(w) /\ Whole(w) BY <1>1 DEF Inv
    <3>1. v = w BY <2>2, <3>0, OthersUntouched
    <3>2. answer \in [Writer -> {"none", "ok", "error"}] BY <3>0 DEF WriterInv, TypeOK
    <3>3. Reread(w)
      BY <2>2, <3>1, <3>2, Steps DEF Refuse, Begin, Allocate, AllocateFails, OpenStepFails, ReadJfcb, Enq,
        Reserve, Open, Validate, Setup, FifoOpens, TextFails, AddRecord, WriteBlock, WriteFails, EndOfText,
        Flush, FlushFails, Finalize, FinalizeFails, CloseFails, NothingToFinalize, DeqReserve,
        DeqReserveFails, Deq, DeqFails, DeqUnopened, Free, FreeAfterFailure, Return, Step
    <3>4. pc[w] = "reread" /\ rc[w] = "ok"
      <4>1. PICK a \in {IF rc[w] = "ok" THEN "ok" ELSE "error", "error"} : Return(w, "reread", a)
        BY <3>3 DEF Reread
      <4>2. a = "ok" BY <2>2, <3>2, <4>1 DEF Return
      <4>3. QED BY <4>1, <4>2 DEF Return, Step
    <3>5. added[w] = req[w].lines /\ buffer[w] = 0 /\ stow[w] \in {"done", "unnoticed"} BY <3>0, <3>4 DEF Whole
    <3>6. stored[w] \in Nat /\ added[w] \in Nat BY <3>0, CountTypes DEF WriterInv
    <3>7. stored[w] + Skipped(w) = req[w].lines BY <3>0, <3>5, <3>6 DEF Counted, Skipped
    <3>8. CASE Skipped(w) = 0 BY <3>5, <3>6, <3>7, <3>8
    <3>9. CASE Skipped(w) # 0
      <4>1. Skipped(w) = 1 /\ recfm = "tight" /\ req[w].full BY <3>9 DEF Skipped
      <4>2. stored[w] = req[w].lines - 1 BY <3>6, <3>7, <4>1
      <4>3. QED BY <3>5, <4>1, <4>2
    <3>10. QED BY <3>8, <3>9
  <2>3. QED BY <1>1, <2>1, <2>2 DEF Next
<1>2. QED BY <1>1, InvAlways, PTL DEF Spec, SuccessIsWhole
=============================================================================
