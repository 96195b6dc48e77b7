----------------------------- MODULE UtilityDds ------------------------------
(***************************************************************************)
(* Commands that allocate DDs under fixed names, use them and free them:   *)
(* data sets read or written on a given volume (commands/ds.cpp), and the  *)
(* utilities run by compress and by the tool commands (commands/tool.cpp), *)
(* with the loops of zut.cpp that allocate and free.  The names belong to  *)
(* the address space: the worker threads of the server share them, and in  *)
(* an interactive session one command leaves them to the next.             *)
(*                                                                         *)
(* z/OS is external: an allocation under a name in use is refused, FREE    *)
(* takes whatever has the name, a utility may end with any return code.    *)
(***************************************************************************)
EXTENDS Naturals, Sequences

CONSTANTS Thread,
          Nobody, \* the name is not allocated
          Left    \* allocated, by a command that has returned

ASSUME DdAssumption == Nobody \notin Thread /\ Left \notin Thread /\ Nobody # Left

\* The names, in the order they are allocated and freed.  Those of "run" are
\* the user's; here, an input and an output.
Names ==
  [view     |-> <<"input">>,
   write    |-> <<"output">>,
   search   |-> <<"newdd", "outdd", "sysin">>,
   amblist  |-> <<"syslib", "sysprint", "sysin">>,
   compress |-> <<"a", "b", "sysprint", "sysin">>,
   ccnedsct |-> <<"sysprint", "sysout", "sysadata", "edcdsect">>,
   run      |-> <<"sysin", "sysprint">>]

Command == DOMAIN Names
Dd == UNION {{Names[c][i] : i \in DOMAIN Names[c]} : c \in Command}

\* Registered with the server, which gives each to a thread of its own.
Remote == {"view", "write", "search"}
\* They write control statements to "sysin", and read what the program prints.
Utility == {"search", "amblist", "compress", "run"}
\* Of these, the ones that do not look at what zds_write returns.
DroppedByAll == Utility
Dropped == {"search", "amblist"}
Output == [c \in Utility |-> IF c = "search" THEN "outdd" ELSE "sysprint"]
\* zut_free_dynalloc_dds looks for "dd(", and ccnedsct allocates with "fi(".
FreeableButAmblist == Command \ {"ccnedsct", "amblist"}
Freeable == Command \ {"ccnedsct"}
\* A failure of FREE is an error of these only.
FreeMatters == {"view", "write", "compress"}

VARIABLES
  interactive, \* one session that runs any command, or the server
  holder,      \* of each name
  text,        \* whose control statements are in it, or were obeyed in it
  \* per thread
  pc,
  cmd, streamed,
  next,        \* index into Names
  rc,          \* ok or error
  got,         \* whose output was read, as far as reading went
  failed,      \* what a service refused (history)
  answer

dataVars == <<holder, text>>
vars == <<interactive, dataVars, pc, cmd, streamed, next, rc, got, failed, answer>>

NamesOf(c) == {Names[c][i] : i \in DOMAIN Names[c]}
\* The names that a loop at index n has come past.
Past(c, n) == {Names[c][i] : i \in {j \in DOMAIN Names[c] : j < n}}
Mine(w) == {d \in Dd : holder[d] = w}

TypeOK ==
  /\ interactive \in BOOLEAN
  /\ holder \in [Dd -> Thread \cup {Nobody, Left}]
  /\ text \in [Dd -> Thread \cup {Nobody}]
  /\ pc \in [Thread -> {"out", "alloc", "control", "use", "read", "free", "end"}]
  /\ cmd \in [Thread -> Command \cup {"none"}]
  /\ streamed \in [Thread -> BOOLEAN]
  /\ next \in [Thread -> 1 .. 5]
  /\ rc \in [Thread -> {"ok", "error"}]
  /\ got \in [Thread -> Thread \cup {Nobody}]
  /\ failed \in [Thread -> SUBSET {"alloc", "control", "close", "use", "read", "free"}]
  /\ answer \in [Thread -> {"none", "ok", "error"}]

Init ==
  /\ interactive \in BOOLEAN
  /\ holder = [d \in Dd |-> Nobody]
  /\ text = [d \in Dd |-> Nobody]
  /\ pc = [w \in Thread |-> "out"]
  /\ cmd = [w \in Thread |-> "none"]
  /\ streamed = [w \in Thread |-> FALSE]
  /\ next = [w \in Thread |-> 1]
  /\ rc = [w \in Thread |-> "ok"]
  /\ got = [w \in Thread |-> Nobody]
  /\ failed = [w \in Thread |-> {}]
  /\ answer = [w \in Thread |-> "none"]

Goto(w, l) == pc' = [pc EXCEPT ![w] = l]
Step(w, from, to) == pc[w] = from /\ Goto(w, to)
SetRc(w, r) == rc' = [rc EXCEPT ![w] = r]
Refused(w, what) == failed' = [failed EXCEPT ![w] = @ \cup {what}]
\* zut_free_dynalloc_dds takes the list from its start.
Reclaim(w) == Goto(w, "free") /\ next' = [next EXCEPT ![w] = 1]

-----------------------------------------------------------------------------

Begin(w) ==
  /\ Step(w, "out", "alloc")
  /\ interactive => \A v \in Thread : pc[v] = "out"
  /\ \E c \in IF interactive THEN Command ELSE Remote, s \in BOOLEAN :
       /\ s => c \in {"view", "write"}
       /\ cmd' = [cmd EXCEPT ![w] = c]
       /\ streamed' = [streamed EXCEPT ![w] = s]
  /\ answer' = [answer EXCEPT ![w] = "none"]
  /\ UNCHANGED <<interactive, dataVars, next, rc, got, failed>>

Name(w) == Names[cmd[w]][next[w]]
MoreNames(w) == next[w] <= Len(Names[cmd[w]])

InUseToo(d) == d \in Dd
Available(d) == holder[d] = Nobody

\* zut_loop_dynalloc, one turn; a new temporary data set is empty.
Allocate(w) ==
  /\ pc[w] = "alloc" /\ MoreNames(w) /\ Available(Name(w))
  /\ holder' = [holder EXCEPT ![Name(w)] = w]
  /\ text' = [text EXCEPT ![Name(w)] = Nobody]
  /\ next' = [next EXCEPT ![w] = @ + 1]
  /\ UNCHANGED <<interactive, pc, cmd, streamed, rc, got, failed, answer>>

\* The loop stops at the first refusal, and the command returns without
\* freeing the names it already has.
ReclaimAfterRefusal(w) == Reclaim(w)
AfterRefusal(w) == Goto(w, "end") /\ next' = next

AllocateFails(w) ==
  /\ pc[w] = "alloc" /\ MoreNames(w)
  /\ AfterRefusal(w)
  /\ SetRc(w, "error")
  /\ Refused(w, "alloc")
  /\ UNCHANGED <<interactive, dataVars, cmd, streamed, got, answer>>

Allocated(w) ==
  /\ pc[w] = "alloc" /\ ~MoreNames(w)
  /\ Goto(w, IF cmd[w] \in Utility THEN "control" ELSE "use")
  /\ UNCHANGED <<interactive, dataVars, cmd, streamed, next, rc, got, failed, answer>>

\* zds_write to DD "sysin"
Control(w) ==
  /\ Step(w, "control", "use")
  /\ text' = [text EXCEPT !["sysin"] = w]
  /\ UNCHANGED <<interactive, holder, cmd, streamed, next, rc, got, failed, answer>>

\* The open fails, or in zds_write the fwrite comes back short.
ControlFails(w) ==
  /\ pc[w] = "control"
  /\ IF cmd[w] \in Dropped
     THEN Goto(w, "use") /\ UNCHANGED <<next, rc>>
     ELSE Reclaim(w) /\ SetRc(w, "error")
  /\ Refused(w, "control")
  /\ UNCHANGED <<interactive, dataVars, cmd, streamed, got, answer>>

\* Short statements stay in the buffer until the file is closed, by FileGuard
\* or by the ofstream of "run", and nobody looks at the outcome of that.
ControlLost(w) ==
  /\ Step(w, "control", "use")
  /\ Refused(w, "close")
  /\ UNCHANGED <<interactive, dataVars, cmd, streamed, next, rc, got, answer>>

\* zut_run, zut_search, zut_convert_dsect, and for view and write the transfer;
\* a write goes to the data set by its name, and only holds the DD.
Use(w) ==
  /\ pc[w] = "use"
  /\ IF cmd[w] \in Utility
     THEN /\ text' = [text EXCEPT ![Output[cmd[w]]] = text["sysin"]]
          /\ Goto(w, "read") /\ next' = next
     ELSE Reclaim(w) /\ text' = text
  /\ UNCHANGED <<interactive, holder, cmd, streamed, rc, got, failed, answer>>

\* A plain view returns at once; "run" goes on to show the output.
UseFails(w) ==
  /\ pc[w] = "use"
  /\ IF cmd[w] = "run"
     THEN /\ \E o \in {text["sysin"], Nobody} : text' = [text EXCEPT !["sysprint"] = o]
          /\ Goto(w, "read") /\ next' = next
     ELSE /\ text' = text
          /\ IF cmd[w] = "view" /\ ~streamed[w] THEN Goto(w, "end") /\ next' = next ELSE Reclaim(w)
  /\ SetRc(w, "error")
  /\ Refused(w, "use")
  /\ UNCHANGED <<interactive, holder, cmd, streamed, got, answer>>

Read(w) ==
  /\ pc[w] = "read"
  /\ got' = [got EXCEPT ![w] = text[Output[cmd[w]]]]
  /\ Reclaim(w)
  /\ UNCHANGED <<interactive, dataVars, cmd, streamed, rc, failed, answer>>

ReadFails(w) ==
  /\ pc[w] = "read"
  /\ Reclaim(w)
  /\ SetRc(w, "error")
  /\ Refused(w, "read")
  /\ UNCHANGED <<interactive, dataVars, cmd, streamed, got, answer>>

FreeGoesOn(w) == pc[w] = "free" /\ MoreNames(w) /\ cmd[w] \in Freeable

\* zut_free_dynalloc_dds, one turn
Free(w) ==
  /\ FreeGoesOn(w)
  /\ holder' = [holder EXCEPT ![Name(w)] = Nobody]
  /\ text' = [text EXCEPT ![Name(w)] = Nobody]
  /\ next' = [next EXCEPT ![w] = @ + 1]
  /\ UNCHANGED <<interactive, pc, cmd, streamed, rc, got, failed, answer>>

\* The loop stops at the first failure.
FreeFails(w) ==
  /\ FreeGoesOn(w)
  /\ Goto(w, "end")
  /\ IF cmd[w] \in FreeMatters THEN SetRc(w, "error") ELSE rc' = rc
  /\ Refused(w, "free")
  /\ UNCHANGED <<interactive, dataVars, cmd, streamed, next, got, answer>>

\* A view keeps the return code of the loop in the place of its own.
Freed(w) ==
  /\ Step(w, "free", "end")
  /\ ~FreeGoesOn(w)
  /\ IF cmd[w] = "view" THEN SetRc(w, "ok") ELSE rc' = rc
  /\ UNCHANGED <<interactive, dataVars, cmd, streamed, next, got, failed, answer>>

\* The command returns; what it has not freed stays allocated.
Return(w) ==
  /\ Step(w, "end", "out")
  /\ answer' = [answer EXCEPT ![w] = rc[w]]
  /\ holder' = [d \in Dd |-> IF holder[d] = w THEN Left ELSE holder[d]]
  /\ text' = [d \in Dd |-> IF holder[d] = w THEN Nobody ELSE text[d]]
  /\ cmd' = [cmd EXCEPT ![w] = "none"]
  /\ streamed' = [streamed EXCEPT ![w] = FALSE]
  /\ next' = [next EXCEPT ![w] = 1]
  /\ rc' = [rc EXCEPT ![w] = "ok"]
  /\ got' = [got EXCEPT ![w] = Nobody]
  /\ failed' = [failed EXCEPT ![w] = {}]
  /\ UNCHANGED interactive

ThreadStep(w) ==
  \/ Begin(w)
  \/ Allocate(w) \/ AllocateFails(w) \/ Allocated(w)
  \/ Control(w) \/ ControlFails(w) \/ ControlLost(w)
  \/ Use(w) \/ UseFails(w)
  \/ Read(w) \/ ReadFails(w)
  \/ Free(w) \/ FreeFails(w) \/ Freed(w)
  \/ Return(w)

Next == \E w \in Thread : ThreadStep(w)

Spec == Init /\ [][Next]_vars

-----------------------------------------------------------------------------
(* Properties.                                                             *)

\* What a thread holds: while it allocates, the names it has come past; while
\* it uses them, all of its command's; while it frees, those still ahead; and
\* nothing once it has returned.
Holds(w) ==
  /\ pc[w] = "out" <=> cmd[w] = "none"
  /\ pc[w] = "out" => Mine(w) = {} /\ next[w] = 1
  /\ pc[w] = "alloc" => Mine(w) = Past(cmd[w], next[w])
  /\ pc[w] \in {"control", "read"} => cmd[w] \in Utility
  /\ pc[w] \in {"control", "use", "read"} => Mine(w) = NamesOf(cmd[w])
  /\ pc[w] = "free" => Mine(w) = NamesOf(cmd[w]) \ Past(cmd[w], next[w])
  /\ pc[w] = "end" => Mine(w) \subseteq NamesOf(cmd[w])

\* No two threads ever work through one DD name, although the handlers of the
\* server (handle_tool_search, handle_data_set_view, handle_data_set_write)
\* use fixed names without a lock: a command goes on only with every name of
\* its own.
DdInv == TypeOK /\ \A w \in Thread : Holds(w)

\* A command frees names that it allocated and nobody else's: the handlers
\* call zut_free_dynalloc_dds, which goes by name, only after every allocation
\* succeeded, never after a refusal.
FreesOwn ==
  [][\A d \in Dd : holder[d] # Nobody /\ holder'[d] = Nobody =>
       \E w \in Thread : pc[w] = "free" /\ holder[d] = w]_vars

\* A command that is answered with success has run its program, and read the
\* output of its own control statements.  The code has three gaps: search and
\* amblist drop a failure to write them (tool.cpp), every utility one that comes
\* with the close (FileGuard, in zds.cpp; the ofstream of run, in tool.cpp), so
\* that the program runs without, and the streamed view of a volume drops the
\* return code of zds_read_streamed (ds.cpp).
OkMeansDone ==
  [][\A w \in Thread : answer[w] # "ok" /\ answer'[w] = "ok" =>
       /\ "use" \in failed[w] => streamed[w] /\ cmd[w] = "view"
       /\ cmd[w] \in Utility =>
            \/ got[w] = w
            \/ "control" \in failed[w] /\ cmd[w] \in {"search", "amblist"}
            \/ "close" \in failed[w]]_vars

\* A DD is left behind, and its name lost to every later command, only by a
\* refused allocation or free, a plain view that failed (ds.cpp), and ccnedsct.
LeftByCause ==
  \A w \in Thread : pc[w] = "end" =>
    \/ Mine(w) = {}
    \/ "alloc" \in failed[w] \/ "free" \in failed[w]
    \/ cmd[w] = "view" /\ ~streamed[w] /\ "use" \in failed[w]
    \/ cmd[w] = "ccnedsct"
=============================================================================
