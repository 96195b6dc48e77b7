-------------------------- MODULE FileEtags_proofs --------------------------
(***************************************************************************)
(* Theorems of FileEtags, for any number of requests, any length of a text *)
(* and any time.                                                           *)
(***************************************************************************)
EXTENDS FileEtags, SequenceTheorems, TLAPS

-----------------------------------------------------------------------------
(* Texts.                                                                  *)

\* t is the first n pieces of version q.
Holds(t, q, n) == Len(t) = n /\ \A i \in 1 .. n : t[i] = <<q, i>>

LEMMA TextElements ==
  ASSUME NEW t \in Text
  PROVE  /\ t \in Seq(Piece \cup {Hole}) /\ Len(t) \in 0 .. Pieces
         /\ t \in [1 .. Len(t) -> Piece \cup {Hole}]
BY LenProperties, EtagsAssumption DEF Text

LEMMA TextOfPieces ==
  ASSUME NEW n \in 0 .. Pieces, NEW t \in [1 .. n -> Piece \cup {Hole}]
  PROVE  t \in Text /\ Len(t) = n
<1>1. n \in Nat BY EtagsAssumption
<1>2. t \in Seq(Piece \cup {Hole}) BY <1>1, SeqDef
<1>3. Len(t) = n BY <1>1, <1>2, LenProperties
<1> QED BY <1>2, <1>3, EtagsAssumption DEF Text

LEMMA WholeText ==
  ASSUME NEW q \in Version
  PROVE  Whole(q) \in Text /\ Holds(Whole(q), q, Pieces)
<1>1. Whole(q) \in [1 .. Pieces -> Piece \cup {Hole}] BY DEF Whole, Piece
<1>2. Pieces \in 0 .. Pieces BY EtagsAssumption
<1>3. Whole(q) \in Text /\ Len(Whole(q)) = Pieces BY <1>1, <1>2, TextOfPieces
<1> QED BY <1>3 DEF Holds, Whole

LEMMA WholeOnly ==
  ASSUME NEW t \in Text, NEW q \in Version
  PROVE  t = Whole(q) <=> Holds(t, q, Pieces)
<1>1. ASSUME Holds(t, q, Pieces) PROVE t = Whole(q)
  <2>1. t \in Seq(Piece \cup {Hole}) /\ Whole(q) \in Seq(Piece \cup {Hole})
    BY WholeText, TextElements
  <2> QED BY <1>1, <2>1, WholeText, SeqEqual DEF Holds
<1> QED BY <1>1, WholeText

\* Only its own pieces make a text whole.
LEMMA NotWhole ==
  ASSUME NEW t \in Text, NEW q \in Version, NEW w \in Version, w # q,
         Len(t) = 0 \/ \E i \in 1 .. Len(t) : t[i] = <<w, i>>
  PROVE  t # Whole(q)
BY WholeOnly, EtagsAssumption DEF Holds

LEMMA NoText == <<>> \in Text /\ Len(<<>>) = 0
BY EmptySeq, EtagsAssumption DEF Text

LEMMA BeginningText ==
  ASSUME NEW q \in Version, NEW n \in 0 .. Pieces
  PROVE  SubSeq(Whole(q), 1, n) \in Text /\ Holds(SubSeq(Whole(q), 1, n), q, n)
<1>1. n \in Int /\ 1 \in Int BY EtagsAssumption
<1>2. \A i \in 1 .. n : Whole(q)[i] = <<q, i>> /\ <<q, i>> \in Piece \cup {Hole}
  BY EtagsAssumption DEF Whole, Piece
<1>3. /\ SubSeq(Whole(q), 1, n) \in Seq(Piece \cup {Hole})
      /\ Len(SubSeq(Whole(q), 1, n)) = IF 1 <= n THEN n - 1 + 1 ELSE 0
      /\ \A i \in 1 .. n - 1 + 1 : SubSeq(Whole(q), 1, n)[i] = Whole(q)[1 + i - 1]
  <2>1. \A i \in 1 .. n : Whole(q)[i] \in Piece \cup {Hole} BY <1>2
  <2> QED BY <1>1, <2>1, SubSeqProperties
<1>4. Len(SubSeq(Whole(q), 1, n)) = n BY <1>3, EtagsAssumption
<1>5. \A i \in 1 .. n : SubSeq(Whole(q), 1, n)[i] = <<q, i>>
  <2> SUFFICES ASSUME NEW i \in 1 .. n PROVE SubSeq(Whole(q), 1, n)[i] = <<q, i>> OBVIOUS
  <2>1. i \in 1 .. n - 1 + 1 /\ 1 + i - 1 = i BY <1>1
  <2> QED BY <1>2, <1>3, <2>1
<1> QED BY <1>3, <1>4, <1>5, EtagsAssumption DEF Text, Holds

\* The text after one flush of w.
Flushed(w, i) ==
  LET n == IF Len(text) < i THEN i ELSE Len(text)
  IN  [j \in 1 .. n |-> IF j = i THEN <<w, i>> ELSE IF j <= Len(text) THEN text[j] ELSE Hole]

LEMMA FlushedText ==
  ASSUME text \in Text, NEW w \in Request, NEW i \in 1 .. Pieces
  PROVE  /\ Flushed(w, i) \in Text
         /\ i \in 1 .. Len(Flushed(w, i)) /\ Flushed(w, i)[i] = <<w, i>>
         /\ Holds(text, w, i - 1) => Holds(Flushed(w, i), w, i)
<1> DEFINE n == IF Len(text) < i THEN i ELSE Len(text)
<1>1. /\ Len(text) \in 0 .. Pieces
      /\ \A j \in 1 .. Len(text) : text[j] \in Piece \cup {Hole}
  BY TextElements
<1>2. n \in 0 .. Pieces /\ i \in 1 .. n BY <1>1, EtagsAssumption
<1>3. <<w, i>> \in Piece BY DEF Piece, Version
<1>4. \A j \in 1 .. n : j # i /\ j <= Len(text) => j \in 1 .. Len(text) BY <1>1, EtagsAssumption
<1>5. Flushed(w, i) \in [1 .. n -> Piece \cup {Hole}] BY <1>1, <1>3, <1>4 DEF Flushed
<1>6. Flushed(w, i) \in Text /\ Len(Flushed(w, i)) = n BY <1>2, <1>5, TextOfPieces
<1>7. Flushed(w, i)[i] = <<w, i>> BY <1>2 DEF Flushed
<1>8. ASSUME Holds(text, w, i - 1) PROVE Holds(Flushed(w, i), w, i)
  <2>1. Len(text) = i - 1 /\ \A j \in 1 .. i - 1 : text[j] = <<w, j>> BY <1>8 DEF Holds
  <2>2. n = i BY <2>1
  <2>3. ASSUME NEW j \in 1 .. i PROVE Flushed(w, i)[j] = <<w, j>>
    <3>1. j \in 1 .. n /\ (j # i => j \in 1 .. i - 1 /\ j <= Len(text)) BY <2>1, <2>2
    <3> QED BY <2>1, <3>1 DEF Flushed
  <2> QED BY <1>6, <2>2, <2>3 DEF Holds
<1> QED BY <1>2, <1>6, <1>7, <1>8

-----------------------------------------------------------------------------
(* The inductive invariant.                                                *)

\* The clock does not go back, and a file nobody has written is the original.
TimeOK == mtime <= clock /\ (mtime = 0 => text = Whole(Original))

\* The etag of r is of a second that has passed; and nobody has written since
\* it was taken, if the time of modification is still the same.
Stamped(r) == etag[r].mtime <= mtime /\ (~etag[r].racy => etag[r].mtime < clock)
Unmoved(r) == ~etag[r].racy /\ etag[r].mtime = mtime

ReadOK(r) ==
  /\ pc[r] \in {"none", "stat", "read", "etag", "done", "failed"}
  /\ target = "uss" => pc[r] # "etag" /\ Len(got[r]) = offset[r]
  /\ target = "ds" => pc[r] # "stat"
  /\ pc[r] \in {"none", "stat"} => offset[r] = 0
  /\ target = "uss" /\ pc[r] \in {"read", "done"} =>
       /\ Stamped(r)
       /\ Unmoved(r) => /\ etag[r].size = Len(text)
                        /\ offset[r] <= Len(text)
                        /\ \A i \in 1 .. offset[r] : got[r][i] = text[i]
                        /\ pc[r] = "done" => offset[r] = Len(text)
  /\ target = "ds" /\ r \notin disturbed =>
       /\ pc[r] = "etag" => got[r] = text
       /\ pc[r] = "done" => got[r] = etag[r].sum

\* What a save has written is there, while nobody else writes; and a save that
\* is done has the etag of its text.
WriteOK(w) ==
  /\ pc[w] \in {"none", "check", "open", "copy", "etag", "done", "failed"}
  /\ pc[w] \in {"none", "check", "open"} => offset[w] = 0
  /\ pc[w] = "copy" => target = "uss"
  /\ pc[w] = "etag" => target = "ds"
  /\ pc[w] = "open" /\ w \notin disturbed => EtagMatches(w)
  /\ pc[w] \in {"copy", "etag"} /\ w \notin disturbed => Holds(text, w, offset[w])
  /\ pc[w] = "done" =>
       /\ text = Whole(w) => IF target = "ds" THEN etag[w].sum = text
                             ELSE etag[w].mtime = mtime /\ etag[w].size = Len(text)
       /\ target = "uss" => /\ Stamped(w)
                            /\ Unmoved(w) /\ w \notin disturbed => Holds(text, w, offset[w])
       /\ target = "ds" /\ w \notin disturbed => Holds(etag[w].sum, w, offset[w])

BaseOK(r) == base[r] \in Request => Usable(base[r])
RequestOK(r) == BaseOK(r) /\ (r \in Read => ReadOK(r)) /\ (r \in Write => WriteOK(r))

IInv ==
  /\ TypeOK
  /\ etag = [r \in Request |-> etag[r]]
  /\ TimeOK
  /\ \A r \in Request : RequestOK(r)

LEMMA Kinds == Read \subseteq Request /\ Write \subseteq Request /\ Read \cap Write = {}
BY DEF Read, Write

\* What Etag is made of.
LEMMA EtagIs ==
  ASSUME TypeOK
  PROVE  /\ Etag.mtime \in 0 .. MaxClock /\ Etag.size \in 0 .. Pieces
         /\ Etag.racy \in BOOLEAN /\ Etag.sum \in Text
         /\ target = "uss" => /\ Etag.mtime = mtime /\ Etag.size = Len(text)
                              /\ Etag.racy = (mtime = clock)
         /\ target = "ds" => Etag.sum = text
<1>1. text \in Text /\ Len(text) \in 0 .. Pieces /\ mtime \in 0 .. MaxClock /\ target \in {"uss", "ds"}
  BY TextElements DEF TypeOK
<1>2. 0 \in 0 .. MaxClock /\ 0 \in 0 .. Pieces BY EtagsAssumption
<1>3. CASE target = "uss" BY <1>1, <1>3, NoText DEF Etag
<1>4. CASE target = "ds" BY <1>1, <1>2, <1>4 DEF Etag
<1> QED BY <1>1, <1>3, <1>4

LEMMA InitInv == Init => IInv
<1> SUFFICES ASSUME Init PROVE IInv OBVIOUS
<1> USE DEF Init
<1>1. text \in Text /\ <<>> \in Text /\ Len(<<>>) = 0 BY WholeText, NoText DEF Version
<1>2. /\ 0 \in 0 .. MaxClock /\ 1 \in 1 .. MaxClock /\ 0 \in 0 .. Pieces BY EtagsAssumption
<1>3. TypeOK
  <2>1. Len(text) \in 0 .. Pieces BY <1>1, TextElements
  <2>2. Etag.mtime \in 0 .. MaxClock /\ Etag.size \in 0 .. Pieces
        /\ Etag.racy \in BOOLEAN /\ Etag.sum \in Text
    BY <1>1, <1>2, <2>1 DEF Etag
  <2> QED BY <1>1, <1>2, <2>2 DEF TypeOK
<1>4. TimeOK BY DEF TimeOK
<1>5. ASSUME NEW r \in Request PROVE RequestOK(r)
  BY <1>1, EtagsAssumption DEF RequestOK, BaseOK, ReadOK, WriteOK, Version
<1> QED BY <1>3, <1>4, <1>5 DEF IInv

-----------------------------------------------------------------------------
(* A step of somebody else.                                                *)

\* Nothing of r changes, nor of the request whose etag it carries.
Aside(r) ==
  /\ UNCHANGED kindVars
  /\ pc'[r] = pc[r] /\ base'[r] = base[r] /\ etag'[r] = etag[r]
  /\ offset'[r] = offset[r] /\ got'[r] = got[r]
  /\ base[r] \in Request =>
       LET q == base[r] IN pc'[q] = pc[q] /\ offset'[q] = offset[q] /\ etag'[q] = etag[q]

FileAside == text' = text /\ mtime' = mtime /\ disturbed' = disturbed /\ clock' >= clock

\* Others have written, and whoever looks is disturbed.
FileWritten(r) ==
  /\ mtime' = clock /\ clock' = clock
  /\ disturbed \subseteq disturbed' /\ (Looking(r) => r \in disturbed')
  /\ r \in Write => text' # Whole(r)

LEMMA AsideKeeps ==
  ASSUME IInv, TypeOK', NEW r \in Request, Aside(r), FileAside \/ FileWritten(r)
  PROVE  RequestOK(r)'
<1> USE DEF Aside, kindVars
<1>0. /\ TypeOK /\ mtime \in Nat /\ clock \in Nat /\ clock' \in Nat /\ mtime <= clock /\ clock > 0
      /\ etag[r].mtime \in Nat /\ etag[r].racy \in BOOLEAN
  BY EtagsAssumption DEF IInv, TypeOK, TimeOK
<1>1. BaseOK(r)'
  BY DEF IInv, RequestOK, BaseOK, Usable, Write
<1>2. (r \in Read => r \in Read') /\ (r \in Write <=> r \in Write') /\ (r \in Read' => r \in Read)
  BY DEF Read, Write
<1>3. ASSUME r \in Read PROVE ReadOK(r)'
  <2>1. ReadOK(r) BY <1>3 DEF IInv, RequestOK
  <2>2. CASE FileAside
    <3>1. Stamped(r) => Stamped(r)' BY <1>0, <2>2 DEF FileAside, Stamped
    <3>2. Unmoved(r)' = Unmoved(r) BY <2>2 DEF FileAside, Unmoved
    <3> QED BY <2>1, <2>2, <3>1, <3>2 DEF FileAside, ReadOK
  <2>3. CASE FileWritten(r)
    <3>1. Stamped(r) => Stamped(r)' BY <1>0, <2>3 DEF FileWritten, Stamped
    <3>2. Stamped(r) => ~Unmoved(r)' BY <1>0, <2>3 DEF FileWritten, Stamped, Unmoved
    <3>3. r \notin disturbed' => r \notin disturbed /\ pc[r] # "etag"
      BY <1>3, <2>3, Kinds DEF FileWritten, Looking
    <3> QED BY <2>1, <3>1, <3>2, <3>3 DEF ReadOK
  <2> QED BY <2>2, <2>3
<1>4. ASSUME r \in Write PROVE WriteOK(r)'
  <2>1. WriteOK(r) BY <1>4 DEF IInv, RequestOK
  <2>2. CASE FileAside
    <3>1. Stamped(r) => Stamped(r)' BY <1>0, <2>2 DEF FileAside, Stamped
    <3>2. Unmoved(r)' = Unmoved(r) BY <2>2 DEF FileAside, Unmoved
    <3>3. EtagMatches(r) => EtagMatches(r)'
      <4>1. base[r] # NoBase /\ base[r] # Original => base[r] \in Request
        BY DEF IInv, TypeOK, Version
      <4> QED BY <2>2, <4>1 DEF FileAside, EtagMatches, Carried
    <3> QED BY <2>1, <2>2, <3>1, <3>2, <3>3 DEF FileAside, WriteOK
  <2>3. CASE FileWritten(r)
    <3>1. Stamped(r) => Stamped(r)' BY <1>0, <2>3 DEF FileWritten, Stamped
    <3>2. Stamped(r) => ~Unmoved(r)' BY <1>0, <2>3 DEF FileWritten, Stamped, Unmoved
    <3>3. r \notin disturbed' => r \notin disturbed /\ pc[r] \notin {"open", "copy", "etag"}
      BY <1>4, <2>3 DEF FileWritten, Looking
    <3>4. text' # Whole(r) BY <1>4, <2>3 DEF FileWritten
    <3> QED BY <2>1, <3>1, <3>2, <3>3, <3>4 DEF WriteOK
  <2> QED BY <2>2, <2>3
<1> QED BY <1>1, <1>2, <1>3, <1>4 DEF RequestOK

-----------------------------------------------------------------------------
(* The steps of a request.                                                 *)

\* What a step of r has to show: r's own claims, and that it leaves all the
\* others aside.
LEMMA StepKeeps ==
  ASSUME IInv, NEW r \in Request, pc[r] # "done", UNCHANGED kindVars,
         TypeOK', etag' = [q \in Request |-> etag'[q]], RequestOK(r)',
         \A v \in Request : v # r =>
           /\ pc'[v] = pc[v] /\ base'[v] = base[v] /\ etag'[v] = etag[v]
           /\ offset'[v] = offset[v] /\ got'[v] = got[v],
         \/ UNCHANGED <<fileVars, disturbed>>
         \/ /\ mtime' = clock /\ clock' = clock /\ disturbed' = DisturbedBy(r)
            /\ Len(text') = 0 \/ \E i \in 1 .. Len(text') : text'[i] = <<r, i>>
  PROVE  IInv'
<1> USE DEF fileVars
<1>1. /\ TypeOK /\ mtime \in Nat /\ clock \in Nat /\ mtime <= clock /\ clock > 0
      /\ text' \in Text
  BY EtagsAssumption DEF IInv, TypeOK, TimeOK
<1>2. TimeOK'
  BY <1>1 DEF IInv, TimeOK
<1>3. ASSUME NEW v \in Request, v # r PROVE Aside(v)
  <2>1. base[v] \in Request => pc[base[v]] = "done" BY DEF IInv, RequestOK, BaseOK, Usable
  <2>2. base[v] # r \/ base[v] \notin Request BY <2>1
  <2> QED BY <1>3, <2>2 DEF Aside
<1>4. ASSUME NEW v \in Request, v # r PROVE FileAside \/ FileWritten(v)
  <2>1. CASE UNCHANGED <<fileVars, disturbed>> BY <1>1, <2>1 DEF FileAside
  <2>2. CASE ~UNCHANGED <<fileVars, disturbed>>
    <3>1. text' # Whole(v) BY <1>1, <1>4, <2>2, NotWhole DEF Version
    <3> QED BY <1>4, <2>2, <3>1 DEF FileWritten, DisturbedBy
  <2> QED BY <2>1, <2>2
<1>5. \A v \in Request : RequestOK(v)' BY <1>3, <1>4, AsideKeeps
<1> QED BY <1>2, <1>5 DEF IInv

LEMMA BeginOK ==
  ASSUME IInv, NEW r \in Request, Begin(r)
  PROVE  IInv'
<1> USE DEF kindVars, fileVars
<1>0. TypeOK BY DEF IInv
<1>1. PICK b \in IF r \in Write THEN {NoBase, Original} \cup {q \in Request : Usable(q)} ELSE {NoBase} :
        base' = [base EXCEPT ![r] = b]
  BY DEF Begin
<1>2. /\ pc[r] = "none"
      /\ pc' = [pc EXCEPT ![r] = IF r \in Write THEN "check" ELSE IF target = "uss" THEN "stat" ELSE "read"]
      /\ UNCHANGED <<kindVars, fileVars, etag, offset, got, disturbed>>
  BY DEF Begin, Step
<1>3. b \in Version \cup {NoBase} /\ (b \in Request => Usable(b))
  BY EtagsAssumption DEF Version
<1>4. TypeOK' BY <1>0, <1>1, <1>2, <1>3 DEF TypeOK
<1>5. BaseOK(r)'
  <2>1. base'[r] = b BY <1>0, <1>1 DEF TypeOK
  <2>2. b \in Request => pc'[b] = pc[b] BY <1>0, <1>2, <1>3 DEF TypeOK, Usable
  <2> QED BY <1>2, <1>3, <2>1, <2>2 DEF BaseOK, Usable, Write
<1>6. RequestOK(r)'
  <2>1. (r \in Read)' = (r \in Read) /\ (r \in Write)' = (r \in Write)
    BY <1>2 DEF Read, Write
  <2>2. r \in Read => ReadOK(r)'
    <3>1. r \in Read => r \notin Write /\ ReadOK(r) BY Kinds DEF IInv, RequestOK
    <3>2. target \in {"uss", "ds"} /\ (r \notin Write => pc'[r] = IF target = "uss" THEN "stat" ELSE "read")
      BY <1>0, <1>2 DEF TypeOK
    <3> QED BY <1>2, <3>1, <3>2 DEF ReadOK
  <2>3. r \in Write => WriteOK(r)' BY <1>0, <1>2 DEF IInv, RequestOK, WriteOK, TypeOK
  <2> QED BY <1>5, <2>1, <2>2, <2>3 DEF RequestOK
<1>20. etag' = [q \in Request |-> etag'[q]] BY <1>1, <1>2 DEF IInv
<1>21. \A x \in Request : x # r =>
         /\ pc'[x] = pc[x] /\ base'[x] = base[x] /\ etag'[x] = etag[x]
         /\ offset'[x] = offset[x] /\ got'[x] = got[x]
  BY <1>0, <1>1, <1>2 DEF TypeOK
<1> QED BY <1>1, <1>2, <1>4, <1>6, <1>20, <1>21, StepKeeps

\* A step that changes the file, if at all, but not what the etag is based on.
LEMMA SameBase ==
  ASSUME IInv, NEW r \in Request, pc[r] # "done", UNCHANGED <<kindVars, base>>,
         \A v \in Request : v # r => pc'[v] = pc[v] /\ offset'[v] = offset[v],
         r \in Read => ReadOK(r)', r \in Write => WriteOK(r)'
  PROVE  RequestOK(r)'
<1> USE DEF kindVars
<1>1. (r \in Read)' = (r \in Read) /\ (r \in Write)' = (r \in Write) BY DEF Read, Write
<1>2. BaseOK(r)' BY DEF IInv, RequestOK, BaseOK, Usable, Write
<1> QED BY <1>1, <1>2 DEF RequestOK

\* Who takes which step.
LEMMA Actors ==
  ASSUME IInv, NEW r \in Request
  PROVE  /\ r \in Read \/ r \in Write
         /\ pc[r] \in {"stat", "read"} => r \in Read
         /\ pc[r] \in {"check", "open", "copy"} => r \in Write
         /\ r \in Read => ReadOK(r)
         /\ r \in Write => WriteOK(r)
BY DEF IInv, RequestOK, ReadOK, WriteOK, Read

LEMMA FailOK ==
  ASSUME IInv, NEW r \in Request, Fail(r)
  PROVE  IInv'
<1> USE DEF kindVars, fileVars
<1>0. TypeOK BY DEF IInv
<1>1. /\ pc[r] # "done" /\ pc' = [pc EXCEPT ![r] = "failed"]
      /\ UNCHANGED <<kindVars, fileVars, base, etag, offset, got, disturbed>>
  BY DEF Fail, Step
<1>2. TypeOK' BY <1>0, <1>1 DEF TypeOK
<1>3. pc'[r] = "failed" BY <1>0, <1>1 DEF TypeOK
<1>4. r \in Read => ReadOK(r)' BY <1>1, <1>3, Actors DEF ReadOK
<1>5. r \in Write => WriteOK(r)' BY <1>3 DEF WriteOK
<1>6. RequestOK(r)' BY <1>0, <1>1, <1>4, <1>5, SameBase DEF TypeOK
<1>20. etag' = [q \in Request |-> etag'[q]] BY <1>1, <1>2 DEF IInv
<1>21. \A x \in Request : x # r =>
         /\ pc'[x] = pc[x] /\ base'[x] = base[x] /\ etag'[x] = etag[x]
         /\ offset'[x] = offset[x] /\ got'[x] = got[x]
  BY <1>0, <1>1, <1>2 DEF TypeOK
<1> QED BY <1>1, <1>2, <1>6, <1>20, <1>21, StepKeeps

LEMMA StatUssOK ==
  ASSUME IInv, NEW r \in Request, StatUss(r)
  PROVE  IInv'
<1> USE DEF kindVars, fileVars
<1>0. TypeOK /\ etag = [q \in Request |-> etag[q]] BY DEF IInv
<1>1. /\ pc[r] = "stat" /\ pc' = [pc EXCEPT ![r] = "read"]
      /\ etag' = [etag EXCEPT ![r] = Etag]
      /\ UNCHANGED <<kindVars, fileVars, base, offset, got, disturbed>>
  BY DEF StatUss, Step
<1>2. etag'[r] = Etag /\ \A q \in Request : q # r => etag'[q] = etag[q] BY <1>0, <1>1
<1>3. TypeOK' BY <1>0, <1>1, <1>2, EtagIs DEF TypeOK
<1>4. pc'[r] = "read" BY <1>0, <1>1 DEF TypeOK
<1>5. r \in Read /\ r \notin Write /\ target = "uss" /\ offset[r] = 0 /\ Len(got[r]) = 0
  BY <1>0, <1>1, Actors, Kinds DEF ReadOK, TypeOK
<1>6. ReadOK(r)'
  <2>1. Stamped(r)'
    BY <1>0, <1>1, <1>2, <1>5, EtagIs, EtagsAssumption DEF Stamped, IInv, TimeOK, TypeOK
  <2>2. Len(text) \in Nat BY <1>0, TextElements DEF TypeOK
  <2> QED BY <1>1, <1>2, <1>4, <1>5, <2>1, <2>2, EtagIs, <1>0 DEF ReadOK
<1>7. RequestOK(r)' BY <1>0, <1>1, <1>5, <1>6, SameBase DEF TypeOK
<1>8. etag' = [q \in Request |-> etag'[q]] BY <1>0, <1>1
<1> QED BY <1>0, <1>1, <1>2, <1>3, <1>7, <1>8, StepKeeps DEF TypeOK

LEMMA ReadUssOK ==
  ASSUME IInv, NEW r \in Request, ReadUss(r)
  PROVE  IInv'
<1> USE DEF kindVars, fileVars
<1> DEFINE o == offset[r]
<1>0. TypeOK BY DEF IInv
<1>1. /\ target = "uss" /\ pc[r] = "read" /\ o < Len(text)
      /\ got' = [got EXCEPT ![r] = Append(@, text[o + 1])]
      /\ offset' = [offset EXCEPT ![r] = o + 1]
      /\ UNCHANGED <<kindVars, fileVars, pc, base, etag, disturbed>>
  BY DEF ReadUss
<1>2. r \in Read /\ r \notin Write /\ ReadOK(r) BY <1>1, Actors, Kinds
<1>3. /\ o \in Nat /\ Len(text) \in 0 .. Pieces /\ Len(got[r]) = o
      /\ got[r] \in Seq(Piece \cup {Hole}) /\ text[o + 1] \in Piece \cup {Hole}
  <2>1. o \in Nat BY <1>0, EtagsAssumption DEF TypeOK
  <2>2. got[r] \in Text /\ text \in Text BY <1>0 DEF TypeOK
  <2>3. Len(text) \in 0 .. Pieces /\ text \in [1 .. Len(text) -> Piece \cup {Hole}]
    BY <2>2, TextElements
  <2>4. o + 1 \in 1 .. Len(text) BY <1>1, <2>1, <2>3
  <2> QED BY <1>1, <1>2, <2>1, <2>2, <2>3, <2>4, TextElements DEF ReadOK
<1>4. /\ Append(got[r], text[o + 1]) \in Seq(Piece \cup {Hole})
      /\ Len(Append(got[r], text[o + 1])) = o + 1
      /\ \A i \in 1 .. o + 1 : Append(got[r], text[o + 1])[i] = IF i = o + 1 THEN text[o + 1] ELSE got[r][i]
  BY <1>3, AppendProperties
<1>5. got'[r] = Append(got[r], text[o + 1]) /\ offset'[r] = o + 1 BY <1>0, <1>1 DEF TypeOK
<1>6. o + 1 \in 0 .. Pieces BY <1>1, <1>3, EtagsAssumption
<1>7. Append(got[r], text[o + 1]) \in Text BY <1>4, <1>6 DEF Text
<1>8. TypeOK' BY <1>0, <1>1, <1>6, <1>7 DEF TypeOK
<1>9. ReadOK(r)'
  <2>1. Stamped(r)' = Stamped(r) /\ Unmoved(r)' = Unmoved(r) BY <1>1 DEF Stamped, Unmoved
  <2>2. Unmoved(r) => \A i \in 1 .. o + 1 : got'[r][i] = text[i]
    <3> SUFFICES ASSUME Unmoved(r), NEW i \in 1 .. o + 1 PROVE got'[r][i] = text[i] OBVIOUS
    <3>1. i = o + 1 \/ i \in 1 .. o BY <1>3
    <3>2. \A j \in 1 .. o : got[r][j] = text[j] BY <1>1, <1>2 DEF ReadOK
    <3> QED BY <1>4, <1>5, <3>1, <3>2
  <2>3. o + 1 <= Len(text) BY <1>1, <1>3
  <2> QED BY <1>1, <1>2, <1>4, <1>5, <2>1, <2>2, <2>3 DEF ReadOK
<1>10. RequestOK(r)' BY <1>0, <1>1, <1>2, <1>9, SameBase DEF TypeOK
<1>20. etag' = [q \in Request |-> etag'[q]] BY <1>1, <1>2 DEF IInv
<1>21. \A x \in Request : x # r =>
         /\ pc'[x] = pc[x] /\ base'[x] = base[x] /\ etag'[x] = etag[x]
         /\ offset'[x] = offset[x] /\ got'[x] = got[x]
  BY <1>0, <1>1, <1>2 DEF TypeOK
<1> QED BY <1>1, <1>8, <1>10, <1>20, <1>21, StepKeeps

LEMMA EndReadUssOK ==
  ASSUME IInv, NEW r \in Request, EndReadUss(r)
  PROVE  IInv'
<1> USE DEF kindVars, fileVars
<1>0. TypeOK BY DEF IInv
<1>1. /\ target = "uss" /\ offset[r] >= Len(text)
      /\ pc[r] = "read" /\ pc' = [pc EXCEPT ![r] = "done"]
      /\ UNCHANGED <<kindVars, fileVars, base, etag, offset, got, disturbed>>
  BY DEF EndReadUss, Step
<1>2. TypeOK' BY <1>0, <1>1 DEF TypeOK
<1>3. pc'[r] = "done" BY <1>0, <1>1 DEF TypeOK
<1>4. r \in Read /\ r \notin Write /\ ReadOK(r) BY <1>1, Actors, Kinds
<1>5. ReadOK(r)'
  <2>1. Stamped(r)' = Stamped(r) /\ Unmoved(r)' = Unmoved(r) BY <1>1 DEF Stamped, Unmoved
  <2>2. offset[r] \in Nat /\ Len(text) \in Nat BY <1>0, TextElements, EtagsAssumption DEF TypeOK
  <2> QED BY <1>1, <1>3, <1>4, <2>1, <2>2 DEF ReadOK
<1>6. RequestOK(r)' BY <1>0, <1>1, <1>4, <1>5, SameBase DEF TypeOK
<1>20. etag' = [q \in Request |-> etag'[q]] BY <1>1, <1>2 DEF IInv
<1>21. \A x \in Request : x # r =>
         /\ pc'[x] = pc[x] /\ base'[x] = base[x] /\ etag'[x] = etag[x]
         /\ offset'[x] = offset[x] /\ got'[x] = got[x]
  BY <1>0, <1>1, <1>2 DEF TypeOK
<1> QED BY <1>1, <1>2, <1>6, <1>20, <1>21, StepKeeps

LEMMA ReadDsOK ==
  ASSUME IInv, NEW r \in Request, ReadDs(r)
  PROVE  IInv'
<1> USE DEF kindVars, fileVars
<1>0. TypeOK /\ etag = [q \in Request |-> etag[q]] BY DEF IInv
<1>1. /\ target = "ds" /\ pc[r] = "read" /\ pc' = [pc EXCEPT ![r] = NextRead(r)]
      /\ got' = [got EXCEPT ![r] = text]
      /\ etag' = [etag EXCEPT ![r] = Etag]
      /\ UNCHANGED <<kindVars, fileVars, base, offset, disturbed>>
  BY DEF ReadDs, Step
<1>2. etag'[r] = Etag /\ \A q \in Request : q # r => etag'[q] = etag[q] BY <1>0, <1>1
<1>3. NextRead(r) \in {"etag", "done"} BY DEF NextRead
<1>4. TypeOK' BY <1>0, <1>1, <1>2, <1>3, EtagIs DEF TypeOK
<1>5. pc'[r] \in {"etag", "done"} /\ got'[r] = text BY <1>0, <1>1, <1>3 DEF TypeOK
<1>6. r \in Read /\ r \notin Write BY <1>1, Actors, Kinds
<1>7. ReadOK(r)' BY <1>0, <1>1, <1>2, <1>5, EtagIs DEF ReadOK
<1>8. RequestOK(r)' BY <1>0, <1>1, <1>6, <1>7, SameBase DEF TypeOK
<1>9. etag' = [q \in Request |-> etag'[q]] BY <1>0, <1>1
<1> QED BY <1>0, <1>1, <1>2, <1>4, <1>8, <1>9, StepKeeps DEF TypeOK

LEMMA EtagDsOK ==
  ASSUME IInv, NEW r \in Request, EtagDs(r)
  PROVE  IInv'
<1> USE DEF kindVars, fileVars
<1>0. TypeOK /\ etag = [q \in Request |-> etag[q]] BY DEF IInv
<1>1. /\ target = "ds" /\ pc[r] = "etag" /\ pc' = [pc EXCEPT ![r] = "done"]
      /\ etag' = [etag EXCEPT ![r] = Etag]
      /\ UNCHANGED <<kindVars, fileVars, base, offset, got, disturbed>>
  BY DEF EtagDs, Step
<1>2. etag'[r] = Etag /\ \A q \in Request : q # r => etag'[q] = etag[q] BY <1>0, <1>1
<1>3. TypeOK' BY <1>0, <1>1, <1>2, EtagIs DEF TypeOK
<1>4. pc'[r] = "done" BY <1>0, <1>1 DEF TypeOK
<1>5. r \in Read => ReadOK(r)' BY <1>0, <1>1, <1>2, <1>4, EtagIs, Actors DEF ReadOK
<1>6. r \in Write => WriteOK(r)' BY <1>0, <1>1, <1>2, <1>4, EtagIs, Actors DEF WriteOK
<1>7. RequestOK(r)' BY <1>0, <1>1, <1>5, <1>6, SameBase DEF TypeOK
<1>8. etag' = [q \in Request |-> etag'[q]] BY <1>0, <1>1
<1> QED BY <1>0, <1>1, <1>2, <1>3, <1>7, <1>8, StepKeeps DEF TypeOK

LEMMA CheckOK ==
  ASSUME IInv, NEW w \in Request, Check(w)
  PROVE  IInv'
<1> USE DEF kindVars, fileVars
<1>0. TypeOK BY DEF IInv
<1>1. /\ EtagMatches(w) /\ pc[w] = "check" /\ pc' = [pc EXCEPT ![w] = "open"]
      /\ UNCHANGED <<kindVars, fileVars, base, etag, offset, got, disturbed>>
  BY DEF Check, Step
<1>2. TypeOK' BY <1>0, <1>1 DEF TypeOK
<1>3. pc'[w] = "open" BY <1>0, <1>1 DEF TypeOK
<1>4. w \in Write /\ w \notin Read /\ WriteOK(w) BY <1>1, Actors, Kinds
<1>5. EtagMatches(w)' BY <1>1 DEF EtagMatches, Carried
<1>6. WriteOK(w)' BY <1>1, <1>3, <1>4, <1>5 DEF WriteOK
<1>7. RequestOK(w)' BY <1>0, <1>1, <1>4, <1>6, SameBase DEF TypeOK
<1>20. etag' = [q \in Request |-> etag'[q]] BY <1>1, <1>2 DEF IInv
<1>21. \A x \in Request : x # w =>
         /\ pc'[x] = pc[x] /\ base'[x] = base[x] /\ etag'[x] = etag[x]
         /\ offset'[x] = offset[x] /\ got'[x] = got[x]
  BY <1>0, <1>1, <1>2 DEF TypeOK
<1> QED BY <1>1, <1>2, <1>7, <1>20, <1>21, StepKeeps

LEMMA OpenUssOK ==
  ASSUME IInv, NEW w \in Request, OpenUss(w)
  PROVE  IInv'
<1> USE DEF kindVars, fileVars
<1>0. TypeOK BY DEF IInv
<1>1. /\ target = "uss" /\ pc[w] = "open" /\ pc' = [pc EXCEPT ![w] = "copy"]
      /\ text' = <<>> /\ mtime' = clock /\ disturbed' = DisturbedBy(w)
      /\ UNCHANGED <<kindVars, clock, base, etag, offset, got>>
  BY DEF OpenUss, Step
<1>2. TypeOK'
  <2>1. text' \in Text /\ mtime' \in 0 .. MaxClock /\ disturbed' \in SUBSET Request
    BY <1>0, <1>1, NoText, EtagsAssumption DEF TypeOK, DisturbedBy
  <2> QED BY <1>0, <1>1, <2>1 DEF TypeOK
<1>3. pc'[w] = "copy" BY <1>0, <1>1 DEF TypeOK
<1>4. w \in Write /\ w \notin Read /\ WriteOK(w) BY <1>1, Actors, Kinds
<1>5. Holds(text', w, 0) BY <1>1, NoText DEF Holds
<1>6. offset[w] = 0 BY <1>1, <1>4 DEF WriteOK
<1>7. WriteOK(w)' BY <1>1, <1>3, <1>4, <1>5, <1>6 DEF WriteOK
<1>8. RequestOK(w)' BY <1>0, <1>1, <1>4, <1>7, SameBase DEF TypeOK
<1>20. etag' = [q \in Request |-> etag'[q]] BY <1>1, <1>2 DEF IInv
<1>21. \A x \in Request : x # w =>
         /\ pc'[x] = pc[x] /\ base'[x] = base[x] /\ etag'[x] = etag[x]
         /\ offset'[x] = offset[x] /\ got'[x] = got[x]
  BY <1>0, <1>1, <1>2 DEF TypeOK
<1> QED BY <1>1, <1>2, <1>8, NoText, <1>20, <1>21, StepKeeps

LEMMA WriteUssOK ==
  ASSUME IInv, NEW w \in Request, WriteUss(w)
  PROVE  IInv'
<1> USE DEF kindVars, fileVars
<1>0. TypeOK BY DEF IInv
<1>1. /\ target = "uss" /\ w \in Write /\ pc[w] = "copy" /\ offset[w] < Pieces
      /\ text' = Flushed(w, offset[w] + 1) /\ mtime' = clock
      /\ offset' = [offset EXCEPT ![w] = offset[w] + 1]
      /\ disturbed' = DisturbedBy(w)
      /\ UNCHANGED <<kindVars, clock, pc, base, etag, got>>
  BY DEF WriteUss, Flushed, MoreToWrite
<1>2. offset[w] + 1 \in 1 .. Pieces /\ offset[w] + 1 \in 0 .. Pieces /\ offset[w] + 1 - 1 = offset[w]
  BY <1>0, <1>1, EtagsAssumption DEF TypeOK
<1>3. /\ text' \in Text
      /\ \E i \in 1 .. Len(text') : text'[i] = <<w, i>>
      /\ Holds(text, w, offset[w]) => Holds(text', w, offset[w] + 1)
  <2> DEFINE i == offset[w] + 1
  <2>1. text \in Text /\ i \in 1 .. Pieces /\ i - 1 = offset[w] BY <1>0, <1>2 DEF TypeOK
  <2>2. /\ Flushed(w, i) \in Text
        /\ i \in 1 .. Len(Flushed(w, i)) /\ Flushed(w, i)[i] = <<w, i>>
        /\ Holds(text, w, i - 1) => Holds(Flushed(w, i), w, i)
    <3> HIDE DEF i
    <3> QED BY <2>1, FlushedText
  <2>3. Holds(text, w, offset[w]) => Holds(Flushed(w, i), w, i)
    <3> HIDE DEF i
    <3> QED BY <2>1, <2>2
  <2> QED BY <1>1, <2>2, <2>3
<1>4. TypeOK'
  <2>1. mtime' \in 0 .. MaxClock /\ disturbed' \in SUBSET Request
    BY <1>0, <1>1, EtagsAssumption DEF TypeOK, DisturbedBy
  <2> QED BY <1>0, <1>1, <1>2, <1>3, <2>1 DEF TypeOK
<1>5. w \notin Read /\ WriteOK(w) BY <1>1, Actors, Kinds
<1>6. offset'[w] = offset[w] + 1 /\ (w \in disturbed => w \in disturbed')
  BY <1>0, <1>1 DEF TypeOK, DisturbedBy
<1>7. WriteOK(w)' BY <1>1, <1>3, <1>5, <1>6 DEF WriteOK
<1>8. RequestOK(w)' BY <1>0, <1>1, <1>5, <1>7, SameBase DEF TypeOK
<1>20. etag' = [q \in Request |-> etag'[q]] BY <1>1, <1>2 DEF IInv
<1>21. \A x \in Request : x # w =>
         /\ pc'[x] = pc[x] /\ base'[x] = base[x] /\ etag'[x] = etag[x]
         /\ offset'[x] = offset[x] /\ got'[x] = got[x]
  BY <1>0, <1>1, <1>2 DEF TypeOK
<1> QED BY <1>1, <1>3, <1>4, <1>8, <1>20, <1>21, StepKeeps

LEMMA EndWriteUssOK ==
  ASSUME IInv, NEW w \in Request, EndWriteUss(w)
  PROVE  IInv'
<1> USE DEF kindVars, fileVars
<1>0. TypeOK /\ etag = [q \in Request |-> etag[q]] BY DEF IInv
<1>1. /\ target = "uss" /\ pc[w] = "copy" /\ pc' = [pc EXCEPT ![w] = "done"]
      /\ etag' = [etag EXCEPT ![w] = Etag]
      /\ UNCHANGED <<kindVars, fileVars, base, offset, got, disturbed>>
  BY DEF EndWriteUss, Step
<1>2. etag'[w] = Etag /\ \A q \in Request : q # w => etag'[q] = etag[q] BY <1>0, <1>1
<1>3. TypeOK' BY <1>0, <1>1, <1>2, EtagIs DEF TypeOK
<1>4. pc'[w] = "done" BY <1>0, <1>1 DEF TypeOK
<1>5. w \in Write /\ w \notin Read /\ WriteOK(w) BY <1>1, Actors, Kinds
<1>6. Stamped(w)'
  BY <1>0, <1>1, <1>2, EtagIs, EtagsAssumption DEF Stamped, IInv, TimeOK, TypeOK
<1>7. w \notin disturbed => Holds(text, w, offset[w]) BY <1>1, <1>5 DEF WriteOK
<1>8. WriteOK(w)' BY <1>0, <1>1, <1>2, <1>4, <1>6, <1>7, EtagIs DEF WriteOK
<1>9. RequestOK(w)' BY <1>0, <1>1, <1>5, <1>8, SameBase DEF TypeOK
<1>10. etag' = [q \in Request |-> etag'[q]] BY <1>0, <1>1
<1> QED BY <1>0, <1>1, <1>2, <1>3, <1>9, <1>10, StepKeeps DEF TypeOK

LEMMA StoreDsOK ==
  ASSUME IInv, NEW w \in Request, StoreDs(w)
  PROVE  IInv'
<1> USE DEF kindVars, fileVars
<1>0. TypeOK BY DEF IInv
<1>1. /\ target = "ds" /\ pc[w] = "open" /\ pc' = [pc EXCEPT ![w] = "etag"]
      /\ mtime' = clock /\ disturbed' = DisturbedBy(w)
      /\ UNCHANGED <<kindVars, clock, base, etag, got>>
  BY DEF StoreDs, Step
<1>2. PICK n \in Given(w) : /\ text' = SubSeq(Whole(w), 1, n)
                            /\ offset' = [offset EXCEPT ![w] = n]
  BY DEF StoreDs
<1>3. n \in 0 .. Pieces BY EtagsAssumption DEF Given
<1>4. text' \in Text /\ Holds(text', w, n) BY <1>2, <1>3, BeginningText DEF Version
<1>5. TypeOK'
  <2>1. mtime' \in 0 .. MaxClock /\ disturbed' \in SUBSET Request
    BY <1>0, <1>1, EtagsAssumption DEF TypeOK, DisturbedBy
  <2> QED BY <1>0, <1>1, <1>2, <1>3, <1>4, <2>1 DEF TypeOK
<1>6. pc'[w] = "etag" /\ offset'[w] = n BY <1>0, <1>1, <1>2 DEF TypeOK
<1>7. w \in Write /\ w \notin Read /\ WriteOK(w) BY <1>1, Actors, Kinds
<1>8. WriteOK(w)' BY <1>1, <1>4, <1>6, <1>7 DEF WriteOK
<1>9. RequestOK(w)' BY <1>0, <1>1, <1>2, <1>7, <1>8, SameBase DEF TypeOK
<1>10. Len(text') = 0 \/ \E i \in 1 .. Len(text') : text'[i] = <<w, i>>
  <2>1. n = 0 \/ 1 \in 1 .. n BY <1>3, EtagsAssumption
  <2> QED BY <1>4, <2>1 DEF Holds
<1>20. etag' = [q \in Request |-> etag'[q]] BY <1>1, <1>2 DEF IInv
<1>21. \A x \in Request : x # w =>
         /\ pc'[x] = pc[x] /\ base'[x] = base[x] /\ etag'[x] = etag[x]
         /\ offset'[x] = offset[x] /\ got'[x] = got[x]
  BY <1>0, <1>1, <1>2 DEF TypeOK
<1> QED BY <1>1, <1>2, <1>5, <1>9, <1>10, <1>20, <1>21, StepKeeps

LEMMA TickOK ==
  ASSUME IInv, Tick \/ UNCHANGED vars
  PROVE  IInv'
<1> USE DEF kindVars, fileVars
<1>0. TypeOK /\ mtime \in Nat /\ clock \in Nat BY EtagsAssumption DEF IInv, TypeOK
<1>1. /\ UNCHANGED <<kindVars, text, mtime, pc, base, etag, offset, got, disturbed>>
      /\ clock' >= clock /\ clock' \in 1 .. MaxClock
  BY <1>0, EtagsAssumption DEF Tick, vars, TypeOK
<1>2. TypeOK' BY <1>0, <1>1 DEF TypeOK
<1>3. TimeOK' BY <1>0, <1>1, EtagsAssumption DEF IInv, TimeOK
<1>4. ASSUME NEW r \in Request PROVE RequestOK(r)'
  <2>1. Aside(r) /\ FileAside BY <1>1 DEF Aside, FileAside
  <2> QED BY <1>2, <2>1, AsideKeeps
<1> QED BY <1>1, <1>2, <1>3, <1>4 DEF IInv

LEMMA NextInv == IInv /\ [Next]_vars => IInv'
<1> SUFFICES ASSUME IInv, [Next]_vars PROVE IInv' OBVIOUS
<1>1. CASE Tick \/ UNCHANGED vars BY <1>1, TickOK
<1>2. ASSUME NEW r \in Request, RequestStep(r) PROVE IInv'
  BY <1>2, BeginOK, FailOK, StatUssOK, ReadUssOK, EndReadUssOK, ReadDsOK, EtagDsOK,
     CheckOK, OpenUssOK, WriteUssOK, EndWriteUssOK, StoreDsOK DEF RequestStep
<1> QED BY <1>1, <1>2 DEF Next

LEMMA Invariance == Spec => []IInv
<1>1. Init => IInv BY InitInv
<1>2. IInv /\ [Next]_vars => IInv' BY NextInv
<1> QED BY <1>1, <1>2, PTL DEF Spec

-----------------------------------------------------------------------------
(* The theorems.                                                           *)

\* Every variable keeps to its type: no text grows beyond the pieces that are
\* written, and no etag is of a time or a size that there cannot be.
THEOREM TypeCorrect == Spec => []TypeOK
<1>1. IInv => TypeOK BY DEF IInv
<1> QED BY <1>1, Invariance, PTL

\* The answer of a save (process_data_set_write, zusf_write_to_uss_file) has
\* an etag with which the same editor can save again as long as his text is
\* there, whoever else wrote meanwhile.
THEOREM OwnSaves == Spec => []OwnSaveAccepted
<1>1. IInv => OwnSaveAccepted
  <2> SUFFICES ASSUME IInv, NEW w \in Write, base[w] \in Write, text = Whole(base[w])
               PROVE  EtagMatches(w)
    BY DEF OwnSaveAccepted
  <2>1. base[w] \in Request /\ w \in Request /\ base[w] # Original BY EtagsAssumption, Kinds
  <2>2. pc[base[w]] = "done" BY <2>1 DEF IInv, RequestOK, BaseOK, Usable
  <2>3. WriteOK(base[w]) BY <2>1, Actors
  <2>4. target \in {"uss", "ds"} BY DEF IInv, TypeOK
  <2> QED BY <2>1, <2>2, <2>3, <2>4 DEF WriteOK, EtagMatches, Carried
<1> QED BY <1>1, Invariance, PTL

\* An etag that matches is of the text its editor knows, but for the gaps.
LEMMA MatchedIsKnown ==
  ASSUME IInv, NEW w \in Write, EtagMatches(w), base[w] # NoBase, ~Gap(base[w])
  PROVE  text = Known(base[w])
<1> DEFINE q == base[w]
<1>0. /\ w \in Request /\ TypeOK /\ q \in Version
      /\ text \in Text /\ target \in {"uss", "ds"}
  BY Kinds DEF IInv, TypeOK
<1>1. CASE q = Original
  <2>1. target = "ds" => text = Whole(Original)
    BY <1>1, EtagsAssumption DEF EtagMatches, Carried, OriginalEtag
  <2>2. target = "uss" => mtime = 0
    BY <1>1, EtagsAssumption DEF EtagMatches, Carried, OriginalEtag
  <2>3. text = Whole(Original) BY <1>0, <2>1, <2>2 DEF IInv, TimeOK
  <2> QED BY <1>1, <2>3, Kinds, EtagsAssumption DEF Known
<1>2. CASE q \in Request
  <2>1. q # Original /\ q \notin disturbed /\ ~etag[q].racy BY <1>2, EtagsAssumption DEF Gap
  <2>2. pc[q] = "done" /\ (q \in Write => offset[q] = Pieces)
    BY <1>0, <1>2 DEF IInv, RequestOK, BaseOK, Usable
  <2>3. /\ target = "ds" => etag[q].sum = text
        /\ target = "uss" => Unmoved(q) /\ etag[q].size = Len(text)
    BY <2>1 DEF EtagMatches, Carried, Unmoved
  <2>4. CASE q \in Read
    <3>1. ReadOK(q) BY <1>2, <2>4, Actors
    <3>2. CASE target = "ds" BY <2>1, <2>2, <2>3, <2>4, <3>1, <3>2 DEF ReadOK, Known
    <3>3. CASE target = "uss"
      <4>1. /\ Len(got[q]) = offset[q] /\ offset[q] = Len(text)
            /\ \A i \in 1 .. offset[q] : got[q][i] = text[i]
        BY <2>2, <2>3, <3>1, <3>3 DEF ReadOK
      <4>2. got[q] \in Text BY <1>0, <1>2 DEF TypeOK
      <4>3. got[q] \in Seq(Piece \cup {Hole}) /\ text \in Seq(Piece \cup {Hole})
        BY <1>0, <4>2, TextElements
      <4>4. got[q] = text BY <4>1, <4>3, SeqEqual
      <4> QED BY <2>4, <4>4 DEF Known
    <3> QED BY <1>0, <3>2, <3>3
  <2>5. CASE q \in Write
    <3>1. WriteOK(q) BY <1>2, <2>5, Actors
    <3>2. Holds(text, q, Pieces)
      BY <1>0, <2>1, <2>2, <2>3, <2>5, <3>1 DEF WriteOK
    <3>3. text = Whole(q) BY <1>0, <3>2, WholeOnly
    <3> QED BY <2>5, <3>3, Kinds DEF Known
  <2> QED BY <1>2, <2>4, <2>5 DEF Read
<1> QED BY <1>0, <1>1, <1>2 DEF Version

\* A save with an etag overwrites only the text that its editor knows, but for
\* the three gaps: a writer between the check and the end of the save, a writer
\* between the two looks of the request that answered the etag, and a look in
\* the second of a modification (zut_build_etag, zut_calc_adler32_checksum).
THEOREM SavesKnown == Spec => SavesOverKnown
<1>1. IInv /\ [Next]_vars =>
        [\A w \in Write : Overwrites(w) /\ base[w] # NoBase =>
           text = Known(base[w]) \/ w \in disturbed \/ Gap(base[w])]_vars
  <2> SUFFICES ASSUME IInv, NEW w \in Write, pc[w] = "open", base[w] # NoBase,
                      w \notin disturbed, ~Gap(base[w])
               PROVE  text = Known(base[w])
    BY DEF Overwrites
  <2>1. EtagMatches(w) BY Actors, Kinds DEF WriteOK
  <2> QED BY <2>1, MatchedIsKnown
<1> QED BY <1>1, Invariance, PTL DEF Spec, SavesOverKnown
=============================================================================
