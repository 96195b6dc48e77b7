------------------------------ MODULE FileEtags ------------------------------
(***************************************************************************)
(* Editors that read and save one USS file or one data set, and the etags  *)
(* that are meant to keep them from overwriting each other (zusf.cpp,      *)
(* zds.cpp and commands/uss.cpp, ds.cpp of native/c).  The requests run at *)
(* once, on workers of one server or in the servers of several users.      *)
(*                                                                         *)
(* A text is a sequence of pieces <<v, i>>, piece i of version v.  A USS   *)
(* file changes piece by piece, at the offset of the descriptor that       *)
(* writes.  A data set is replaced as a whole, a member by the STOW at     *)
(* close and a sequential data set under an exclusive allocation; that is  *)
(* external, as is the clock.                                              *)
(***************************************************************************)
EXTENDS Naturals, Sequences

CONSTANTS Request,
          Original,   \* the version there is at first
          NoBase,     \* a write without an etag
          Pieces,     \* bound: pieces of a complete text
          MaxClock,   \* bound: seconds
          Hole        \* what lies before a piece written past the end

Version == Request \cup {Original}
Piece == Version \X (1 .. Pieces)
Whole(v) == [i \in 1 .. Pieces |-> <<v, i>>]

ASSUME EtagsAssumption ==
  /\ Original \notin Request /\ NoBase \notin Version
  /\ Pieces \in Nat \ {0} /\ MaxClock \in Nat \ {0}
  /\ Hole \notin Piece

VARIABLES
  target,    \* uss or ds
  op,        \* what each request is: read or write,
  streamed,  \* and whether through a FIFO
  text, mtime, clock,
  pc,        \* where its handler is
  base,      \* the request whose etag a write carries
  etag,      \* the etag it answers
  offset,    \* pieces it has copied
  got,       \* the text it has read
  disturbed  \* history: somebody else wrote between its two looks at the file

kindVars == <<target, op, streamed>>
fileVars == <<text, mtime, clock>>
vars == <<kindVars, fileVars, pc, base, etag, offset, got, disturbed>>

Write == {r \in Request : op[r] = "write"}
Read == Request \ Write
Text == {t \in Seq(Piece \cup {Hole}) : Len(t) <= Pieces}

TypeOK ==
  /\ target \in {"uss", "ds"}
  /\ op \in [Request -> {"read", "write"}] /\ streamed \in [Request -> BOOLEAN]
  /\ text \in Text /\ mtime \in 0 .. MaxClock /\ clock \in 1 .. MaxClock
  /\ pc \in [Request -> {"none", "stat", "read", "check", "open", "copy", "etag", "done", "failed"}]
  /\ base \in [Request -> Version \cup {NoBase}]
  /\ \A r \in Request :
       /\ etag[r].mtime \in 0 .. MaxClock /\ etag[r].size \in 0 .. Pieces
       /\ etag[r].racy \in BOOLEAN /\ etag[r].sum \in Text
  /\ offset \in [Request -> 0 .. Pieces]
  /\ got \in [Request -> Text]
  /\ disturbed \in SUBSET Request

\* zut_build_etag of a USS file is the second of its last modification and its
\* size.  That this second was not yet over does not show in the etag; it is
\* noted because the next write may then leave the etag as it is.  The etag of
\* a data set is a checksum of its text (zut_calc_adler32_checksum), which is
\* taken to tell texts apart.
EtagByClock == [mtime |-> clock, size |-> Len(text), racy |-> FALSE, sum |-> <<>>]
Etag == IF target = "uss"
        THEN [mtime |-> mtime, size |-> Len(text), racy |-> mtime = clock, sum |-> <<>>]
        ELSE [mtime |-> 0, size |-> 0, racy |-> FALSE, sum |-> text]

Init ==
  /\ target \in {"uss", "ds"}
  /\ op \in [Request -> {"read", "write"}] /\ streamed \in [Request -> BOOLEAN]
  /\ text = Whole(Original) /\ mtime = 0 /\ clock = 1
  /\ pc = [r \in Request |-> "none"]
  /\ base = [r \in Request |-> NoBase]
  /\ etag = [r \in Request |-> Etag]
  /\ offset = [r \in Request |-> 0]
  /\ got = [r \in Request |-> <<>>]
  /\ disturbed = {}

Step(r, from, to) ==
  /\ pc[r] = from /\ pc' = [pc EXCEPT ![r] = to]
  /\ UNCHANGED kindVars

\* What r is given to write, of which a stream may lose the end.
Given(r) == IF streamed[r] THEN 0 .. Pieces ELSE {Pieces}

\* Somebody looks at the file twice and w writes in between.
Looking(r) == IF r \in Write THEN pc[r] \in {"open", "copy", "etag"} ELSE pc[r] = "etag"
DisturbedBy(w) == disturbed \cup {r \in Request \ {w} : Looking(r)}

-----------------------------------------------------------------------------
(* A request is made.  A save carries the etag of a read or of an earlier  *)
(* save that was answered and was complete (the client compares the        *)
(* length), of a read long ago, or none.                                   *)

Usable(q) == pc[q] = "done" /\ (q \in Write => offset[q] = Pieces)

Begin(r) ==
  /\ Step(r, "none", IF r \in Write THEN "check" ELSE IF target = "uss" THEN "stat" ELSE "read")
  /\ \E b \in IF r \in Write THEN {NoBase, Original} \cup {q \in Request : Usable(q)} ELSE {NoBase} :
       base' = [base EXCEPT ![r] = b]
  /\ UNCHANGED <<fileVars, etag, offset, got, disturbed>>

Fail(r) ==
  /\ pc[r] \notin {"none", "done", "failed"}
  /\ Step(r, pc[r], "failed")
  /\ UNCHANGED <<fileVars, base, etag, offset, got, disturbed>>

-----------------------------------------------------------------------------
(* Reads.                                                                  *)

\* handle_uss_view looks at the file before it is read.
StatUss(r) ==
  /\ Step(r, "stat", "read")
  /\ etag' = [etag EXCEPT ![r] = Etag]
  /\ UNCHANGED <<fileVars, base, offset, got, disturbed>>

ReadUss(r) ==
  /\ target = "uss" /\ pc[r] = "read" /\ offset[r] < Len(text)
  /\ got' = [got EXCEPT ![r] = Append(@, text[offset[r] + 1])]
  /\ offset' = [offset EXCEPT ![r] = @ + 1]
  /\ UNCHANGED <<kindVars, fileVars, pc, base, etag, disturbed>>

EndReadUss(r) ==
  /\ target = "uss" /\ offset[r] >= Len(text)
  /\ Step(r, "read", "done")
  /\ UNCHANGED <<fileVars, base, etag, offset, got, disturbed>>

\* handle_data_set_view: the etag of what was read, but a streamed read reads
\* the data set again for it afterwards.
NextRead(r) == IF streamed[r] THEN "etag" ELSE "done"
ReadDs(r) ==
  /\ target = "ds"
  /\ Step(r, "read", NextRead(r))
  /\ got' = [got EXCEPT ![r] = text]
  /\ etag' = [etag EXCEPT ![r] = Etag]
  /\ UNCHANGED <<fileVars, base, offset, disturbed>>

\* The second read of a streamed view, and the one after a write.
EtagDs(r) ==
  /\ target = "ds"
  /\ Step(r, "etag", "done")
  /\ etag' = [etag EXCEPT ![r] = Etag]
  /\ UNCHANGED <<fileVars, base, offset, got, disturbed>>

-----------------------------------------------------------------------------
(* Writes.                                                                 *)

OriginalEtag == [mtime |-> 0, size |-> Pieces, racy |-> FALSE, sum |-> Whole(Original)]
Carried(w) == IF base[w] = Original THEN OriginalEtag ELSE etag[base[w]]
SizeMatches(w) == base[w] # NoBase =>
  IF target = "ds" THEN Carried(w).sum = text ELSE Carried(w).size = Len(text)
EtagMatches(w) == base[w] # NoBase =>
  IF target = "ds" THEN Carried(w).sum = text
  ELSE Carried(w).mtime = mtime /\ Carried(w).size = Len(text)

\* Before anything is opened; the write fails if it does not match.
Check(w) ==
  /\ EtagMatches(w)
  /\ Step(w, "check", "open")
  /\ UNCHANGED <<fileVars, base, etag, offset, got, disturbed>>

\* fopen(file, "w"), which a streamed write does before it waits for the FIFO.
OpenUss(w) ==
  /\ target = "uss"
  /\ Step(w, "open", "copy")
  /\ text' = <<>> /\ mtime' = clock
  /\ disturbed' = DisturbedBy(w)
  /\ UNCHANGED <<clock, base, etag, offset, got>>

MoreOrSame(w) == offset[w] <= Pieces
MoreToWrite(w) == offset[w] < Pieces

\* One flush of the stdio buffer, at the offset of this descriptor.
WriteUss(w) ==
  LET i == offset[w] + 1
      n == IF Len(text) < i THEN i ELSE Len(text) IN
  /\ target = "uss" /\ w \in Write /\ pc[w] = "copy" /\ MoreToWrite(w)
  /\ text' = [j \in 1 .. n |-> IF j = i THEN <<w, i>> ELSE IF j <= Len(text) THEN text[j] ELSE Hole]
  /\ mtime' = clock
  /\ offset' = [offset EXCEPT ![w] = i]
  /\ disturbed' = DisturbedBy(w)
  /\ UNCHANGED <<kindVars, clock, pc, base, etag, got>>

\* The input has ended, too early perhaps; the file is looked at again.
EndWriteUss(w) ==
  /\ target = "uss" /\ offset[w] \in Given(w)
  /\ Step(w, "copy", "done")
  /\ etag' = [etag EXCEPT ![w] = Etag]
  /\ UNCHANGED <<fileVars, base, offset, got, disturbed>>

StoreDs(w) ==
  /\ target = "ds"
  /\ Step(w, "open", "etag")
  /\ \E n \in Given(w) : /\ text' = SubSeq(Whole(w), 1, n)
                         /\ offset' = [offset EXCEPT ![w] = n]
  /\ mtime' = clock
  /\ disturbed' = DisturbedBy(w)
  /\ UNCHANGED <<clock, base, etag, got>>

Tick ==
  /\ clock < MaxClock /\ clock' = clock + 1
  /\ UNCHANGED <<kindVars, text, mtime, pc, base, etag, offset, got, disturbed>>

-----------------------------------------------------------------------------
RequestStep(r) ==
  \/ Begin(r) \/ Fail(r)
  \/ StatUss(r) \/ ReadUss(r) \/ EndReadUss(r) \/ ReadDs(r) \/ EtagDs(r)
  \/ Check(r) \/ OpenUss(r) \/ WriteUss(r) \/ EndWriteUss(r) \/ StoreDs(r)

Next == Tick \/ \E r \in Request : RequestStep(r)
Spec == Init /\ [][Next]_vars

-----------------------------------------------------------------------------
(* What the etags are for (native/CHANGELOG.md:240, vsce/CHANGELOG.md:103).*)

\* The text the editor has before it when its save carries the etag of q.
Known(q) == IF q \in Read THEN got[q] ELSE Whole(q)

\* A save with an etag overwrites only the text that its editor knows.  There
\* are three gaps, and no others: somebody writes while the save is between
\* its check and its last look at the file; somebody wrote between the two
\* looks of the request that answered the etag; or that request looked at a
\* USS file in the very second of a modification.
Gap(q) == q # Original /\ (q \in disturbed \/ etag[q].racy)
Overwrites(w) == pc[w] = "open" /\ pc'[w] \in {"copy", "etag"}
SavesOverKnown ==
  [][\A w \in Write : Overwrites(w) /\ base[w] # NoBase =>
        text = Known(base[w]) \/ w \in disturbed \/ Gap(base[w])]_vars

\* An editor can save again on top of its own save: as long as that text is
\* there, the etag the save answered matches, whoever else wrote meanwhile.
OwnSaveAccepted ==
  \A w \in Write :
    pc[w] = "check" /\ base[w] \in Write /\ text = Whole(base[w]) => EtagMatches(w)
=============================================================================
