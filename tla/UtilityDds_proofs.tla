-------------------------- MODULE UtilityDds_proofs --------------------------
(***************************************************************************)
(* Theorems of UtilityDds, for any number of threads.                      *)
(***************************************************************************)
EXTENDS UtilityDds, TLAPS

-----------------------------------------------------------------------------
(* The lists of names.                                                     *)

\* Every command has one to four names, all different.
LEMMA NamesFacts ==
  ASSUME NEW c \in Command
  PROVE  /\ Len(Names[c]) \in 1 .. 4
         /\ DOMAIN Names[c] = 1 .. Len(Names[c])
         /\ \A i, j \in 1 .. Len(Names[c]) : Names[c][i] = Names[c][j] => i = j
<1> USE DEF Names
<1>1. c \in {"view", "write", "search", "amblist", "compress", "ccnedsct", "run"}
  BY DEF Command
<1>2. CASE c = "view" BY <1>2
<1>3. CASE c = "write" BY <1>3
<1>4. CASE c = "search" BY <1>4
<1>5. CASE c = "amblist" BY <1>5
<1>6. CASE c = "compress" BY <1>6
<1>7. CASE c = "ccnedsct" BY <1>7
<1>8. CASE c = "run" BY <1>8
<1>9. QED BY <1>1, <1>2, <1>3, <1>4, <1>5, <1>6, <1>7, <1>8

LEMMA UtilityNames ==
  ASSUME NEW c \in Utility
  PROVE  /\ c \in Command /\ "sysin" \in Dd /\ Output[c] \in Dd
         /\ "sysin" \in NamesOf(c) /\ Output[c] \in NamesOf(c)
<1>1. c \in Command BY DEF Utility, Command, Names
<1>2. \E i, j \in DOMAIN Names[c] : "sysin" = Names[c][i] /\ Output[c] = Names[c][j]
  <2>1. CASE c = "search"
    <3>1. {2, 3} \subseteq DOMAIN Names[c] /\ "sysin" = Names[c][3] /\ "outdd" = Names[c][2]
      BY <2>1 DEF Names
    <3>2. QED BY <2>1, <3>1 DEF Output, Utility
  <2>2. CASE c = "amblist"
    <3>1. {2, 3} \subseteq DOMAIN Names[c] /\ "sysin" = Names[c][3] /\ "sysprint" = Names[c][2]
      BY <2>2 DEF Names
    <3>2. QED BY <2>2, <3>1 DEF Output, Utility
  <2>3. CASE c = "compress"
    <3>1. {3, 4} \subseteq DOMAIN Names[c] /\ "sysin" = Names[c][4] /\ "sysprint" = Names[c][3]
      BY <2>3 DEF Names
    <3>2. QED BY <2>3, <3>1 DEF Output, Utility
  <2>4. CASE c = "run"
    <3>1. {1, 2} \subseteq DOMAIN Names[c] /\ "sysin" = Names[c][1] /\ "sysprint" = Names[c][2]
      BY <2>4 DEF Names
    <3>2. QED BY <2>4, <3>1 DEF Output, Utility
  <2>5. QED BY <2>1, <2>2, <2>3, <2>4 DEF Utility
<1>3. QED BY <1>1, <1>2 DEF NamesOf, Dd

LEMMA NamesInDd ==
  ASSUME NEW c \in Command
  PROVE  NamesOf(c) \subseteq Dd
BY DEF NamesOf, Dd

\* A loop that is past n - 1 names and takes the nth is past n.
LEMMA PastGrows ==
  ASSUME NEW c \in Command, NEW n \in 1 .. Len(Names[c])
  PROVE  /\ Names[c][n] \in NamesOf(c) \ Past(c, n)
         /\ Past(c, n + 1) = Past(c, n) \cup {Names[c][n]}
         /\ n + 1 \in 1 .. 5
BY NamesFacts DEF Past, NamesOf

\* A loop that has no more names is past all of them, a new one past none.
LEMMA PastEnds ==
  ASSUME NEW c \in Command
  PROVE  /\ Past(c, 1) = {}
         /\ \A n \in 1 .. 5 : n > Len(Names[c]) => Past(c, n) = NamesOf(c)
BY NamesFacts DEF Past, NamesOf

-----------------------------------------------------------------------------
(* DdInv is inductive.                                                     *)

LEMMA InitDd == Init => DdInv
BY DdAssumption DEF Init, DdInv, TypeOK, Holds, Mine

\* A step of thread w reads the command of w only while there is one.
LEMMA CommandOf ==
  ASSUME DdInv, NEW w \in Thread, pc[w] # "out"
  PROVE  cmd[w] \in Command
BY DEF DdInv, TypeOK, Holds

\* The name at the index of w, and what it does to that index to go past it.
LEMMA NameOf ==
  ASSUME DdInv, NEW w \in Thread, pc[w] # "out", MoreNames(w)
  PROVE  /\ Name(w) \in NamesOf(cmd[w]) \ Past(cmd[w], next[w])
         /\ Name(w) \in Dd
         /\ Past(cmd[w], next[w] + 1) = Past(cmd[w], next[w]) \cup {Name(w)}
         /\ next[w] + 1 \in 1 .. 5
<1>1. cmd[w] \in Command BY CommandOf
<1>2. next[w] \in 1 .. Len(Names[cmd[w]])
  BY <1>1, NamesFacts DEF MoreNames, DdInv, TypeOK
<1>3. QED BY <1>1, <1>2, PastGrows, NamesInDd DEF Name

LEMMA TypeStep ==
  ASSUME DdInv, [Next]_vars
  PROVE  TypeOK'
<1> USE DEF DdInv, TypeOK, Holds
<1>1. CASE UNCHANGED vars BY <1>1 DEF vars, dataVars
<1>2. ASSUME NEW w \in Thread, Begin(w) PROVE TypeOK'
  BY <1>2 DEF Begin, Step, Goto, dataVars, Remote, Command, Names
<1>3. ASSUME NEW w \in Thread, Allocate(w) PROVE TypeOK'
  BY <1>3, NameOf DEF Allocate, Step, Goto, SetRc, Refused, dataVars
<1>4. ASSUME NEW w \in Thread, AllocateFails(w) PROVE TypeOK'
  BY <1>4 DEF AllocateFails, Step, Goto, SetRc, Refused, dataVars, AfterRefusal
<1>5. ASSUME NEW w \in Thread, Allocated(w) PROVE TypeOK'
  BY <1>5 DEF Allocated, Step, Goto, SetRc, Refused, dataVars
<1>6. ASSUME NEW w \in Thread, Control(w) PROVE TypeOK'
  BY <1>6, UtilityNames DEF Control, Step, Goto, SetRc, Refused, dataVars
<1>7. ASSUME NEW w \in Thread, ControlFails(w) PROVE TypeOK'
  BY <1>7 DEF ControlFails, Step, Goto, SetRc, Refused, dataVars, Reclaim
<1>17. ASSUME NEW w \in Thread, ControlLost(w) PROVE TypeOK'
  BY <1>17 DEF ControlLost, Step, Goto, Refused, dataVars
<1>8. ASSUME NEW w \in Thread, Use(w) PROVE TypeOK'
  BY <1>8, UtilityNames DEF Use, Step, Goto, SetRc, Refused, dataVars, Reclaim
<1>9. ASSUME NEW w \in Thread, UseFails(w) PROVE TypeOK'
  <2>1. "sysin" \in Dd BY UtilityNames DEF Utility
  <2>2. text' \in [Dd -> Thread \cup {Nobody}] BY <1>9, <2>1 DEF UseFails
  <2>3. QED BY <1>9, <2>2 DEF UseFails, Step, Goto, SetRc, Refused, Reclaim
<1>10. ASSUME NEW w \in Thread, Read(w) PROVE TypeOK'
  BY <1>10, UtilityNames DEF Read, Step, Goto, SetRc, Refused, dataVars, Reclaim
<1>11. ASSUME NEW w \in Thread, ReadFails(w) PROVE TypeOK'
  BY <1>11 DEF ReadFails, Step, Goto, SetRc, Refused, dataVars, Reclaim
<1>12. ASSUME NEW w \in Thread, Free(w) PROVE TypeOK'
  BY <1>12, NameOf DEF Free, Step, Goto, SetRc, Refused, dataVars, FreeGoesOn
<1>13. ASSUME NEW w \in Thread, FreeFails(w) PROVE TypeOK'
  BY <1>13 DEF FreeFails, Step, Goto, SetRc, Refused, dataVars, FreeGoesOn
<1>14. ASSUME NEW w \in Thread, Freed(w) PROVE TypeOK'
  BY <1>14 DEF Freed, Step, Goto, SetRc, Refused, dataVars, FreeGoesOn
<1>15. ASSUME NEW w \in Thread, Return(w) PROVE TypeOK'
  BY <1>15 DEF Return, Step, Goto, SetRc, Refused, dataVars
<1>16. QED BY <1>1, <1>2, <1>3, <1>4, <1>5, <1>6, <1>7, <1>8, <1>9, <1>10, <1>11, <1>12, <1>13, <1>14,
     <1>15, <1>17 DEF Next, ThreadStep

\* Only what w does to itself and to names that are free or its own can
\* change what w holds, and nothing changes what others hold.
LEMMA OthersHold ==
  ASSUME DdInv, NEW w \in Thread, NEW v \in Thread, v # w,
         pc'[v] = pc[v], cmd'[v] = cmd[v], next'[v] = next[v],
         \A d \in Dd : holder'[d] = v <=> holder[d] = v
  PROVE  Holds(v)'
<1>1. Mine(v)' = Mine(v) BY DEF Mine
<1>2. QED BY <1>1 DEF DdInv, Holds

LEMMA HoldsStep ==
  ASSUME DdInv, [Next]_vars, NEW v \in Thread
  PROVE  Holds(v)'
<1> USE DEF TypeOK
<1>0. TypeOK /\ \A w \in Thread : Holds(w) BY DEF DdInv
<1>1. CASE UNCHANGED vars BY <1>0, <1>1 DEF vars, dataVars, Holds, Mine
<1>2. ASSUME NEW w \in Thread, Begin(w) PROVE Holds(v)'
  <2>1. CASE v # w BY <1>0, <1>2, <2>1, OthersHold DEF Begin, Step, Goto, dataVars
  <2>2. CASE v = w
    <3>1. cmd'[w] \in Command /\ pc'[w] = "alloc" /\ next'[w] = 1 /\ Mine(w)' = {}
      BY <1>0, <1>2 DEF Begin, Step, Goto, dataVars, Holds, Mine, Remote, Command, Names
    <3>2. cmd'[w] # "none" /\ Past(cmd'[w], 1) = {}
      BY <3>1, PastEnds DEF Command, Names
    <3>3. QED BY <3>1, <3>2, <2>2 DEF Holds
  <2>3. QED BY <2>1, <2>2
<1>3. ASSUME NEW w \in Thread, Allocate(w) PROVE Holds(v)'
  <2>1. CASE v # w BY <1>0, <1>3, <2>1, OthersHold, DdAssumption DEF Allocate, Available
  <2>2. CASE v = w
    <3>1. Mine(w)' = Mine(w) \cup {Name(w)}
      BY <1>0, <1>3, NameOf DEF Allocate, Mine, Holds
    <3>2. QED BY <1>0, <1>3, <2>2, <3>1, NameOf DEF Allocate, Holds
  <2>3. QED BY <2>1, <2>2
<1>4. ASSUME NEW w \in Thread, AllocateFails(w) PROVE Holds(v)'
  <2>1. CASE v # w BY <1>0, <1>4, <2>1, OthersHold DEF AllocateFails, AfterRefusal, Goto, dataVars
  <2>2. CASE v = w
    <3>1. Mine(w)' = Mine(w) /\ Past(cmd[w], next[w]) \subseteq NamesOf(cmd[w])
      BY <1>4 DEF AllocateFails, Mine, Past, NamesOf, dataVars
    <3>2. QED BY <1>0, <1>4, <2>2, <3>1 DEF AllocateFails, AfterRefusal, Goto, Holds
  <2>3. QED BY <2>1, <2>2
<1>5. ASSUME NEW w \in Thread, Allocated(w) PROVE Holds(v)'
  <2>1. CASE v # w BY <1>0, <1>5, <2>1, OthersHold DEF Allocated, Goto, dataVars
  <2>2. CASE v = w
    BY <1>0, <1>5, <2>2, CommandOf, PastEnds DEF Allocated, Goto, dataVars, MoreNames, Holds, Mine
  <2>3. QED BY <2>1, <2>2
<1>6. ASSUME NEW w \in Thread, Control(w) PROVE Holds(v)'
  <2>1. CASE v # w BY <1>0, <1>6, <2>1, OthersHold DEF Control, Step, Goto
  <2>2. CASE v = w
    BY <1>0, <1>6, <2>2, CommandOf, PastEnds DEF Control, Step, Goto, MoreNames, Holds, Mine
  <2>3. QED BY <2>1, <2>2
<1>7. ASSUME NEW w \in Thread, ControlFails(w) PROVE Holds(v)'
  <2>1. CASE v # w BY <1>0, <1>7, <2>1, OthersHold DEF ControlFails, Reclaim, Goto, dataVars
  <2>2. CASE v = w
    BY <1>0, <1>7, <2>2, CommandOf, PastEnds DEF ControlFails, Reclaim, Goto, dataVars, MoreNames, Holds, Mine
  <2>3. QED BY <2>1, <2>2
<1>17. ASSUME NEW w \in Thread, ControlLost(w) PROVE Holds(v)'
  <2>1. CASE v # w BY <1>0, <1>17, <2>1, OthersHold DEF ControlLost, Step, Goto, dataVars
  <2>2. CASE v = w BY <1>0, <1>17, <2>2 DEF ControlLost, Step, Goto, dataVars, Holds, Mine
  <2>3. QED BY <2>1, <2>2
<1>8. ASSUME NEW w \in Thread, Use(w) PROVE Holds(v)'
  <2>1. CASE v # w BY <1>0, <1>8, <2>1, OthersHold DEF Use, Reclaim, Goto
  <2>2. CASE v = w
    BY <1>0, <1>8, <2>2, CommandOf, PastEnds DEF Use, Reclaim, Goto, MoreNames, Holds, Mine
  <2>3. QED BY <2>1, <2>2
<1>9. ASSUME NEW w \in Thread, UseFails(w) PROVE Holds(v)'
  <2>0. Mine(w)' = Mine(w) BY <1>9 DEF UseFails, Mine
  <2>1. CASE v # w BY <1>0, <1>9, <2>1, OthersHold DEF UseFails, Reclaim, Goto
  <2>2. CASE v = w
    <3>1. cmd'[w] = cmd[w] /\ cmd[w] \in Command /\ Past(cmd[w], 1) = {}
      BY <1>0, <1>9, PastEnds, CommandOf DEF UseFails
    <3>2. Mine(w) = NamesOf(cmd[w]) BY <1>0, <1>9 DEF UseFails, Holds
    <3>3. cmd[w] = "run" => cmd[w] \in Utility BY DEF Utility
    <3>4. cmd[w] # "none" BY <3>1 DEF Command, Names
    <3>5. \/ pc'[w] = "read" /\ cmd[w] = "run"
          \/ pc'[w] = "end"
          \/ pc'[w] = "free" /\ next'[w] = 1
      BY <1>0, <1>9 DEF UseFails, Goto, Reclaim
    <3>6. QED BY <2>0, <2>2, <3>1, <3>2, <3>3, <3>4, <3>5 DEF Holds
  <2>3. QED BY <2>1, <2>2
<1>10. ASSUME NEW w \in Thread, Read(w) PROVE Holds(v)'
  <2>1. CASE v # w BY <1>0, <1>10, <2>1, OthersHold DEF Read, Reclaim, Goto, dataVars
  <2>2. CASE v = w
    BY <1>0, <1>10, <2>2, CommandOf, PastEnds DEF Read, Reclaim, Goto, dataVars, MoreNames, Holds, Mine
  <2>3. QED BY <2>1, <2>2
<1>11. ASSUME NEW w \in Thread, ReadFails(w) PROVE Holds(v)'
  <2>1. CASE v # w BY <1>0, <1>11, <2>1, OthersHold DEF ReadFails, Reclaim, Goto, dataVars
  <2>2. CASE v = w
    BY <1>0, <1>11, <2>2, CommandOf, PastEnds DEF ReadFails, Reclaim, Goto, dataVars, MoreNames, Holds, Mine
  <2>3. QED BY <2>1, <2>2
<1>12. ASSUME NEW w \in Thread, Free(w) PROVE Holds(v)'
  <2>0. Name(w) \in Dd /\ holder[Name(w)] = w
    BY <1>0, <1>12, NameOf DEF Free, FreeGoesOn, Holds, Mine
  <2>1. CASE v # w BY <1>0, <1>12, <2>0, <2>1, OthersHold, DdAssumption DEF Free
  <2>2. CASE v = w
    <3>1. Mine(w)' = Mine(w) \ {Name(w)}
      BY <1>0, <1>12, <2>0, DdAssumption DEF Free, Mine
    <3>2. QED BY <1>0, <1>12, <2>2, <3>1, NameOf DEF Free, FreeGoesOn, Holds
  <2>3. QED BY <2>1, <2>2
<1>13. ASSUME NEW w \in Thread, FreeFails(w) PROVE Holds(v)'
  <2>1. CASE v # w BY <1>0, <1>13, <2>1, OthersHold DEF FreeFails, FreeGoesOn, Goto, dataVars
  <2>2. CASE v = w
    BY <1>0, <1>13, <2>2, CommandOf, PastEnds DEF FreeFails, FreeGoesOn, Goto, dataVars, MoreNames, Holds, Mine
  <2>3. QED BY <2>1, <2>2
<1>14. ASSUME NEW w \in Thread, Freed(w) PROVE Holds(v)'
  <2>1. CASE v # w BY <1>0, <1>14, <2>1, OthersHold DEF Freed, FreeGoesOn, Step, Goto, dataVars
  <2>2. CASE v = w
    BY <1>0, <1>14, <2>2, CommandOf, PastEnds DEF Freed, FreeGoesOn, Step, Goto, dataVars, MoreNames, Holds, Mine
  <2>3. QED BY <2>1, <2>2
<1>15. ASSUME NEW w \in Thread, Return(w) PROVE Holds(v)'
  <2>1. CASE v # w BY <1>0, <1>15, <2>1, OthersHold, DdAssumption DEF Return, Step, Goto
  <2>2. CASE v = w
    <3>1. Mine(w)' = {} BY <1>15, DdAssumption DEF Return, Mine
    <3>2. QED BY <1>0, <1>15, <2>2, <3>1 DEF Return, Step, Goto, Holds
  <2>3. QED BY <2>1, <2>2
<1>16. QED BY <1>1, <1>2, <1>3, <1>4, <1>5, <1>6, <1>7, <1>8, <1>9, <1>10, <1>11, <1>12, <1>13, <1>14,
     <1>15, <1>17 DEF Next, ThreadStep

\* No two threads of the server ever work through one DD name, however many
\* commands run at once (handle_tool_search, handle_data_set_view,
\* handle_data_set_write).
THEOREM NamesAreHeld == Spec => []DdInv
<1>1. DdInv /\ [Next]_vars => DdInv'
  BY TypeStep, HoldsStep DEF DdInv
<1>2. QED BY InitDd, <1>1, PTL DEF Spec

-----------------------------------------------------------------------------
(* What is freed, and what is left.                                        *)

\* zut_free_dynalloc_dds, which goes by name, never takes the DD of another
\* thread or one that an earlier command left behind.
THEOREM FreesOnlyOwn == Spec => FreesOwn
<1>1. ASSUME DdInv, [Next]_vars,
             NEW d \in Dd, holder[d] # Nobody, holder'[d] = Nobody
      PROVE  \E w \in Thread : pc[w] = "free" /\ holder[d] = w
  <2> USE DdAssumption DEF TypeOK
  <2>0. TypeOK /\ \A w \in Thread : Holds(w) BY <1>1 DEF DdInv
  <2>1. holder' # holder BY <1>1
  <2>2. ~UNCHANGED vars BY <2>1 DEF vars, dataVars
  <2>3. PICK w \in Thread : Allocate(w) \/ Free(w) \/ Return(w)
    BY <1>1, <2>1, <2>2 DEF Next, ThreadStep, Begin, AllocateFails, Allocated, Control, ControlFails,
      ControlLost, Use, UseFails, Read, ReadFails, FreeFails, Freed, dataVars
  <2>4. CASE Allocate(w) BY <1>1, <2>0, <2>4 DEF Allocate
  <2>5. CASE Return(w) BY <1>1, <2>0, <2>5 DEF Return
  <2>6. CASE Free(w)
    <3>1. holder[Name(w)] = w
      BY <1>1, <2>0, <2>6, NameOf DEF Free, FreeGoesOn, Holds, Mine
    <3>2. d = Name(w) BY <1>1, <2>0, <2>6 DEF Free
    <3>3. QED BY <2>6, <3>1, <3>2 DEF Free, FreeGoesOn
  <2>7. QED BY <2>3, <2>4, <2>5, <2>6
<1>2. DdInv /\ [Next]_vars =>
        [\A d \in Dd : holder[d] # Nobody /\ holder'[d] = Nobody =>
           \E w \in Thread : pc[w] = "free" /\ holder[d] = w]_vars
  BY <1>1
<1>3. QED BY <1>2, NamesAreHeld, PTL DEF Spec, FreesOwn

\* What a step of w leaves alone of another thread.
LEMMA OthersUntouched ==
  ASSUME DdInv, NEW w \in Thread, NEW v \in Thread, v # w,
         ThreadStep(w)
  PROVE  /\ pc'[v] = pc[v] /\ cmd'[v] = cmd[v] /\ streamed'[v] = streamed[v]
         /\ failed'[v] = failed[v] /\ rc'[v] = rc[v] /\ got'[v] = got[v] /\ answer'[v] = answer[v]
         /\ Mine(v)' = Mine(v)
<1> USE DdAssumption DEF TypeOK, Step, Goto, Reclaim, SetRc, Refused, dataVars
<1>0. TypeOK /\ \A u \in Thread : Holds(u) BY DEF DdInv
<1>1. CASE Begin(w) BY <1>0, <1>1 DEF Begin, Mine
<1>2. CASE Allocate(w) BY <1>0, <1>2 DEF Allocate, Mine, Available
<1>3. CASE AllocateFails(w) BY <1>0, <1>3 DEF AllocateFails, Mine, AfterRefusal
<1>4. CASE Allocated(w) BY <1>0, <1>4 DEF Allocated, Mine
<1>5. CASE Control(w) BY <1>0, <1>5 DEF Control, Mine
<1>6. CASE ControlFails(w) BY <1>0, <1>6 DEF ControlFails, Mine
<1>16. CASE ControlLost(w) BY <1>0, <1>16 DEF ControlLost, Mine
<1>7. CASE Use(w) BY <1>0, <1>7 DEF Use, Mine
<1>8. CASE UseFails(w) BY <1>0, <1>8 DEF UseFails, Mine
<1>9. CASE Read(w) BY <1>0, <1>9 DEF Read, Mine
<1>10. CASE ReadFails(w) BY <1>0, <1>10 DEF ReadFails, Mine
<1>11. CASE Free(w)
  <2>1. holder[Name(w)] = w
    BY <1>0, <1>11, NameOf DEF Free, FreeGoesOn, Holds, Mine
  <2>2. QED BY <1>0, <1>11, <2>1 DEF Free, Mine
<1>12. CASE FreeFails(w) BY <1>0, <1>12 DEF FreeFails, Mine
<1>13. CASE Freed(w) BY <1>0, <1>13 DEF Freed, Mine
<1>14. CASE Return(w) BY <1>0, <1>14 DEF Return, Mine
<1>15. QED BY <1>1, <1>2, <1>3, <1>4, <1>5, <1>6, <1>7, <1>8, <1>9, <1>10, <1>11, <1>12, <1>13, <1>14,
     <1>16 DEF ThreadStep

LEMMA LeftStep ==
  ASSUME DdInv, LeftByCause, [Next]_vars
  PROVE  LeftByCause'
<1> USE DEF TypeOK
<1>0. TypeOK /\ \A w \in Thread : Holds(w) BY DEF DdInv
<1> SUFFICES ASSUME NEW v \in Thread, pc'[v] = "end", Mine(v)' # {},
                    "alloc" \notin failed'[v], "free" \notin failed'[v], cmd'[v] # "ccnedsct"
             PROVE  cmd'[v] = "view" /\ ~streamed'[v] /\ "use" \in failed'[v]
  BY DEF LeftByCause
<1>1. CASE UNCHANGED vars BY <1>1 DEF vars, dataVars, LeftByCause, Mine
<1>2. ASSUME NEW w \in Thread, w # v,
             ThreadStep(w)
      PROVE  cmd'[v] = "view" /\ ~streamed'[v] /\ "use" \in failed'[v]
  BY <1>2, OthersUntouched DEF LeftByCause
<1>3. CASE Begin(v) \/ Allocate(v) \/ Allocated(v) \/ Control(v) \/ Use(v) \/ Read(v) \/ ReadFails(v)
             \/ Free(v) \/ Return(v) \/ ControlFails(v) \/ ControlLost(v)
  BY <1>0, <1>3 DEF Begin, Allocate, Allocated, Control, Use, Read, ReadFails, Free, Return, ControlFails,
    ControlLost, FreeGoesOn, Step, Goto, Reclaim
<1>4. CASE AllocateFails(v) \/ FreeFails(v)
  BY <1>0, <1>4 DEF AllocateFails, FreeFails, Refused
<1>5. CASE UseFails(v) BY <1>0, <1>5 DEF UseFails, Goto, Reclaim, Refused
<1>6. CASE Freed(v)
  <2>1. cmd[v] \in Freeable BY <1>0, <1>6, CommandOf DEF Freed, Step, Freeable
  <2>2. cmd[v] \in Command /\ next[v] \in 1 .. 5 /\ next[v] > Len(Names[cmd[v]])
    BY <1>0, <1>6, <2>1, CommandOf, NamesFacts DEF Freed, Step, FreeGoesOn, MoreNames, Freeable
  <2>3. Mine(v) = {} BY <1>0, <1>6, <2>2, PastEnds DEF Freed, Step, Holds
  <2>4. QED BY <1>6, <2>3 DEF Freed, Mine, dataVars
<1>7. QED BY <1>1, <1>2, <1>3, <1>4, <1>5, <1>6 DEF Next, ThreadStep

\* A name is lost only by a refused allocation or free, a plain view of a
\* volume that fails (handle_data_set_view), and ccnedsct
\* (handle_tool_convert_dsect): every other path of every handler frees.
THEOREM LeftOnlyByCause == Spec => []LeftByCause
<1>1. Init => LeftByCause BY DEF Init, LeftByCause
<1>2. QED BY <1>1, LeftStep, NamesAreHeld, PTL DEF Spec

-----------------------------------------------------------------------------
(* What success means.                                                     *)

\* The control statements of w may not be in "sysin".
Unwritten(w) == failed[w] \cap {"control", "close"} # {}

\* How far the command of w has come: its statements in "sysin", what was
\* made of them in its output, and what it read, each its own unless a
\* failure says otherwise.
Work(w) ==
  /\ pc[w] \in {"out", "alloc", "control"} => failed[w] = {} /\ rc[w] = "ok"
  /\ "control" \in failed[w] => cmd[w] \in Utility /\ (rc[w] = "error" \/ cmd[w] \in Dropped)
  /\ "use" \in failed[w] => rc[w] = "error" \/ (cmd[w] = "view" /\ streamed[w])
  /\ "use" \in failed[w] /\ cmd[w] = "view" /\ ~streamed[w] => pc[w] = "end"
  /\ pc[w] = "use" /\ cmd[w] \in Utility => text["sysin"] = w \/ Unwritten(w)
  /\ pc[w] = "read" => text[Output[cmd[w]]] = w \/ Unwritten(w) \/ rc[w] = "error"
  /\ pc[w] \in {"free", "end"} /\ cmd[w] \in Utility =>
       got[w] = w \/ Unwritten(w) \/ rc[w] = "error"

\* A thread writes into DDs that it holds, or that nobody did.
LEMMA TextOfOthers ==
  ASSUME DdInv, NEW w \in Thread, NEW v \in Thread, v # w, ThreadStep(w),
         NEW d \in Mine(v)
  PROVE  text'[d] = text[d]
<1> USE DdAssumption DEF TypeOK, dataVars
<1>0. /\ TypeOK /\ \A u \in Thread : Holds(u)
      /\ d \in Dd /\ d \notin Mine(w) /\ holder[d] # Nobody /\ holder[d] # w
  BY DEF DdInv, Mine
<1>1. CASE Control(w)
  <2>1. "sysin" \in Mine(w) BY <1>0, <1>1, UtilityNames DEF Control, Step, Holds
  <2>2. QED BY <1>0, <1>1, <2>1 DEF Control
<1>2. CASE Use(w) \/ UseFails(w)
  <2>1. cmd[w] \in Utility => Output[cmd[w]] \in Mine(w)
    BY <1>0, <1>2, UtilityNames DEF Use, UseFails, Holds
  <2>2. cmd[w] = "run" => cmd[w] \in Utility /\ Output[cmd[w]] = "sysprint" BY DEF Utility, Output
  <2>3. QED BY <1>0, <1>2, <2>1, <2>2 DEF Use, UseFails
<1>3. CASE Free(w)
  <2>1. Name(w) \in Mine(w) BY <1>0, <1>3, NameOf DEF Free, FreeGoesOn, Holds
  <2>2. QED BY <1>0, <1>3, <2>1 DEF Free
<1>4. CASE Allocate(w) BY <1>0, <1>4 DEF Allocate, Available
<1>5. CASE Return(w) BY <1>0, <1>5 DEF Return
<1>6. CASE Begin(w) \/ AllocateFails(w) \/ Allocated(w) \/ ControlFails(w) \/ ControlLost(w) \/ Read(w) \/ ReadFails(w)
             \/ FreeFails(w) \/ Freed(w)
  BY <1>0, <1>6 DEF Begin, AllocateFails, Allocated, ControlFails, ControlLost, Read, ReadFails,
    FreeFails, Freed
<1>7. QED BY <1>1, <1>2, <1>3, <1>4, <1>5, <1>6 DEF ThreadStep

LEMMA WorkOfOthers ==
  ASSUME DdInv, NEW w \in Thread, NEW v \in Thread, v # w, ThreadStep(w), Work(v)
  PROVE  Work(v)'
<1>1. Holds(v) BY DEF DdInv
<1>2. /\ pc[v] = "use" /\ cmd[v] \in Utility => text'["sysin"] = text["sysin"]
      /\ pc[v] = "read" => text'[Output[cmd[v]]] = text[Output[cmd[v]]]
  BY <1>1, UtilityNames, TextOfOthers DEF Holds
<1>3. QED BY <1>2, OthersUntouched DEF Work, Unwritten

LEMMA WorkOfSelf ==
  ASSUME DdInv, NEW w \in Thread, ThreadStep(w), Work(w)
  PROVE  Work(w)'
<1> USE DEF TypeOK, Work, Unwritten, Goto, SetRc, Refused, dataVars
<1>0. TypeOK /\ Holds(w) BY DEF DdInv
<1>1. CASE Begin(w) BY <1>0, <1>1 DEF Begin, Step, Holds
<1>2. CASE Allocate(w) BY <1>0, <1>2 DEF Allocate, Holds
<1>3. CASE AllocateFails(w) BY <1>0, <1>3 DEF AllocateFails, AfterRefusal, Holds
<1>4. CASE Allocated(w) BY <1>0, <1>4 DEF Allocated, Holds
<1>5. CASE Control(w) BY <1>0, <1>5, UtilityNames DEF Control, Step, Holds
<1>6. CASE ControlFails(w) BY <1>0, <1>6 DEF ControlFails, Reclaim, Utility, Holds
<1>16. CASE ControlLost(w) BY <1>0, <1>16 DEF ControlLost, Step, Holds
<1>7. CASE Use(w) BY <1>0, <1>7, UtilityNames DEF Use, Reclaim, Holds
<1>8. CASE UseFails(w) BY <1>0, <1>8 DEF UseFails, Reclaim, Utility, Output, Holds
<1>9. CASE Read(w) BY <1>0, <1>9 DEF Read, Reclaim, Holds
<1>10. CASE ReadFails(w) BY <1>0, <1>10 DEF ReadFails, Reclaim, Holds
<1>11. CASE Free(w) BY <1>0, <1>11 DEF Free, FreeGoesOn, Holds
<1>12. CASE FreeFails(w)
  <2>1. /\ pc'[w] = "end" /\ pc[w] = "free" /\ cmd'[w] = cmd[w] /\ got'[w] = got[w]
        /\ streamed'[w] = streamed[w] /\ rc'[w] \in {rc[w], "error"} /\ failed'[w] = failed[w] \cup {"free"}
    BY <1>0, <1>12 DEF FreeFails, FreeGoesOn
  <2>2. QED BY <2>1
<1>13. CASE Freed(w) BY <1>0, <1>13 DEF Freed, Step, Utility, Holds
<1>14. CASE Return(w) BY <1>0, <1>14 DEF Return, Step, Holds
<1>15. QED BY <1>1, <1>2, <1>3, <1>4, <1>5, <1>6, <1>7, <1>8, <1>9, <1>10, <1>11, <1>12, <1>13, <1>14,
     <1>16 DEF ThreadStep

\* A command answered with success did what it was asked, on its own control
\* statements and nobody else's, but for the failures that the code drops
\* (of zds_write in handle_tool_search and handle_tool_amblist, of the close of
\* "sysin" for every utility, of the streamed read in handle_data_set_view).
THEOREM SuccessIsOwn == Spec => OkMeansDone
<1> DEFINE WorkInv == \A w \in Thread : Work(w)
<1>1. Init => WorkInv BY DEF Init, Work
<1>2. ASSUME DdInv, WorkInv, [Next]_vars PROVE WorkInv'
  <2>1. CASE UNCHANGED vars BY <1>2, <2>1 DEF vars, dataVars, Work, Unwritten
  <2>2. CASE Next BY <1>2, <2>2, WorkOfOthers, WorkOfSelf DEF Next
  <2>3. QED BY <1>2, <2>1, <2>2
<1>3. ASSUME DdInv, WorkInv, [Next]_vars,
             NEW w \in Thread, answer[w] # "ok", answer'[w] = "ok"
      PROVE  /\ "use" \in failed[w] => streamed[w] /\ cmd[w] = "view"
             /\ cmd[w] \in Utility =>
                  \/ got[w] = w
                  \/ "control" \in failed[w] /\ cmd[w] \in {"search", "amblist"}
                  \/ "close" \in failed[w]
  <2>1. PICK u \in Thread : ThreadStep(u) BY <1>3 DEF Next, vars
  <2>2. u = w BY <1>3, <2>1, OthersUntouched
  <2>3. Return(w)
    BY <1>3, <2>1, <2>2 DEF ThreadStep, DdInv, TypeOK, Begin, Allocate, AllocateFails, Allocated, Control,
      ControlFails, ControlLost, Use, UseFails, Read, ReadFails, Free, FreeFails, Freed
  <2>4. pc[w] = "end" /\ rc[w] = "ok" BY <1>3, <2>3 DEF Return, Step, DdInv, TypeOK
  <2>5. QED BY <1>3, <2>4 DEF Work, Unwritten, Dropped
<1>4. DdInv /\ WorkInv /\ [Next]_vars =>
        [\A w \in Thread : answer[w] # "ok" /\ answer'[w] = "ok" =>
           /\ "use" \in failed[w] => streamed[w] /\ cmd[w] = "view"
           /\ cmd[w] \in Utility =>
                \/ got[w] = w
                \/ "control" \in failed[w] /\ cmd[w] \in {"search", "amblist"}
                \/ "close" \in failed[w]]_vars
  BY <1>3
<1> HIDE DEF WorkInv
<1>5. QED BY <1>1, <1>2, <1>4, NamesAreHeld, PTL DEF Spec, OkMeansDone
=============================================================================
