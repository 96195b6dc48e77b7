--------------------------- MODULE DataSets_proofs ---------------------------
(***************************************************************************)
(* Proofs about DataSets, for any data sets, members, copies and number of *)
(* commands.  IInv is the inductive invariant: what a copy has seen, done  *)
(* and still has to do at each point of zds_copy_dsn.                      *)
(***************************************************************************)
EXTENDS DataSets, WellFoundedInduction, TLAPS

\* The first member of a set of members exists and is one of them: the names
\* are numbered by natural numbers, which are well-founded.
LEMMA FirstIsMember ==
  ASSUME NEW members \in SUBSET Member, members # {}
  PROVE  First(members) \in members
<1> DEFINE R == {ss \in Nat \X Nat : ss[1] < ss[2]}
<1>1. members \subseteq Nat BY DataSetAssumption
<1>2. OpToRel(<, Nat) = R BY DEF OpToRel
<1>3. IsWellFoundedOn(R, Nat) BY <1>2, NatLessThanWellFounded
<1>4. PICK m \in members : \A n \in members : ~(<<n, m>> \in R)
  BY <1>1, <1>3, WFMin
<1>5. \A n \in members : m <= n
  <2> SUFFICES ASSUME NEW n \in members, n < m PROVE FALSE BY <1>1
  <2>1. <<n, m>> \in Nat \X Nat BY <1>1
  <2>2. <<n, m>>[1] = n /\ <<n, m>>[2] = m OBVIOUS
  <2>3. <<n, m>> \in R BY <2>1, <2>2
  <2> QED BY <1>4, <2>3
<1> QED BY <1>5 DEF First

-----------------------------------------------------------------------------
(* Types.                                                                  *)

LEMMA Places ==
  ASSUME TypeOK, NEW w \in Copier
  PROVE  /\ req[w] \in Request
         /\ req[w].src \in Dsn /\ req[w].dst \in Dsn /\ req[w].from \in Part /\ req[w].to \in Part
         /\ req[w].replace \in BOOLEAN /\ req[w].delete \in BOOLEAN
         /\ part[w] \in Part /\ todo[w] \subseteq Member
         /\ Source(w) \in Place /\ Target(w) \in Place
BY DEF TypeOK, Request, Source, Target, Place

LEMMA Listed ==
  ASSUME NEW d, NEW list \in Listing(d)
  PROVE  list \subseteq Member /\ \A m \in list : text[<<d, m>>] # Absent
BY DEF Listing, Present

LEMMA LeftOutIsPlace ==
  ASSUME NEW d \in Dsn, NEW list
  PROVE  LeftOut(d, list) \subseteq Place
<1> SUFFICES ASSUME NEW m \in Present(d) \ list PROVE <<d, m>> \in Place BY DEF LeftOut
<1> QED BY DEF Present, Place, Part

LEMMA HideTypes ==
  ASSUME TypeOK, NEW w \in Copier, NEW places \in SUBSET Place, Hide(w, places)
  PROVE  hidden' \in [Copier -> SUBSET Place]
BY DEF Hide, TypeOK

\* A change of the catalog keeps its types, and shows everybody else's changes.
LEMMA CatalogTypes ==
  ASSUME TypeOK, NEW who, NEW o \in [Dsn -> {"none", "PS", "PO"}],
         NEW t \in [Place -> Text \cup {Absent}], Catalog(who, o, t)
  PROVE  /\ org' \in [Dsn -> {"none", "PS", "PO"}]
         /\ text' \in [Place -> Text \cup {Absent}]
         /\ touched' \in [Copier -> SUBSET Place]
BY DEF Catalog, TypeOK

LEMMA NewDataSetTypes ==
  ASSUME TypeOK, NEW who, NEW d \in Dsn, NEW o \in {"PS", "PO"}, NewDataSet(who, d, o)
  PROVE  /\ org' \in [Dsn -> {"none", "PS", "PO"}]
         /\ text' \in [Place -> Text \cup {Absent}]
         /\ touched' \in [Copier -> SUBSET Place]
<1>1. [org EXCEPT ![d] = o] \in [Dsn -> {"none", "PS", "PO"}] BY DEF TypeOK
<1>2. [text EXCEPT ![<<d, Whole>>] = Empty] \in [Place -> Text \cup {Absent}]
  BY DEF TypeOK, Text
<1>3. text \in [Place -> Text \cup {Absent}] BY DEF TypeOK
<1> QED BY <1>1, <1>2, <1>3, CatalogTypes DEF NewDataSet

LEMMA TextTypes ==
  ASSUME TypeOK, NEW x \in Place, NEW t \in Text \cup {Absent}
  PROVE  [text EXCEPT ![x] = t] \in [Place -> Text \cup {Absent}]
BY DEF TypeOK

LEMMA LocalTypes ==
  ASSUME TypeOK, NEW w \in Copier,
         UNCHANGED <<changes, req, before>>,
         UNCHANGED <<org, text, touched>> \/
           (/\ org' \in [Dsn -> {"none", "PS", "PO"}]
            /\ text' \in [Place -> Text \cup {Absent}]
            /\ touched' \in [Copier -> SUBSET Place]),
         Fail(w)
  PROVE  TypeOK'
BY DEF TypeOK, Fail, Finish, Goto

LEMMA CopyTypes ==
  ASSUME TypeOK, NEW w \in Copier, CopyStep(w),
         pc[w] = "delete" => todo[w] # {}
  PROVE  TypeOK'
<1> USE Places
<1>1. CASE Begin(w) BY <1>1 DEF Begin, Goto, TypeOK
<1>2. CASE LookSource(w)
  <2>1. PICK k \in TypeInfo(req[w].src, req[w].from) : kind' = [kind EXCEPT ![w] = k]
    BY <1>2 DEF LookSource
  <2>2. k \in {"none", "PS", "PDS", "MEMBER"} BY DEF TypeInfo
  <2> QED BY <1>2, <2>1, <2>2 DEF LookSource, Goto, catalogVars, TypeOK
<1>15. CASE LookTarget(w)
  <2>1. UNCHANGED <<org, text, changes, touched, req, before>> BY <1>15 DEF LookTarget, catalogVars
  <2>2. CASE Fail(w) BY <2>1, <2>2, LocalTypes
  <2>3. CASE ~Fail(w)
    <3>1. Goto(w, "look base") /\ UNCHANGED <<kind, existed, todo, part, data, answer, hidden>>
      BY <1>15, <2>3 DEF LookTarget
    <3> QED BY <2>1, <3>1 DEF Goto, TypeOK
  <2> QED BY <2>2, <2>3
<1>16. CASE LookBase(w)
  <2>1. PICK there \in BOOLEAN :
          /\ existed' = [existed EXCEPT ![w] = there]
          /\ pc' = [pc EXCEPT ![w] = IF there THEN "check" ELSE "create"]
    BY <1>16 DEF LookBase, Goto
  <2> QED BY <1>16, <2>1 DEF LookBase, catalogVars, TypeOK
<1>3. CASE CreateTarget(w)
  <2>1. UNCHANGED <<changes, req, before>> BY <1>3 DEF CreateTarget
  <2>2. UNCHANGED <<org, text, touched>> \/
           (/\ org' \in [Dsn -> {"none", "PS", "PO"}]
            /\ text' \in [Place -> Text \cup {Absent}]
            /\ touched' \in [Copier -> SUBSET Place])
    BY <1>3, NewDataSetTypes DEF CreateTarget
  <2>3. CASE Fail(w) BY <2>1, <2>2, <2>3, LocalTypes
  <2>4. CASE Goto(w, "check") /\ UNCHANGED <<kind, existed, todo, part, data, answer, hidden>>
    BY <2>1, <2>2, <2>4 DEF Goto, TypeOK
  <2> QED BY <1>3, <2>3, <2>4 DEF CreateTarget
<1>4. CASE Check(w)
  <2>1. UNCHANGED <<org, text, changes, touched, req, before>> BY <1>4 DEF Check, catalogVars
  <2>2. CASE Fail(w) BY <2>1, <2>2, LocalTypes
  <2>3. CASE ~Fail(w)
    <3>1. PICK list \in Listing(req[w].dst) :
            /\ Goto(w, IF EmptiesFirst(w) THEN "empty" ELSE IF Full(w) THEN "list" ELSE "open")
            /\ Hide(w, IF Full(w) THEN {} ELSE LeftOut(req[w].dst, list))
            /\ UNCHANGED <<kind, existed, todo, part, data, answer>>
      BY <1>4, <2>3 DEF Check
    <3>2. hidden' \in [Copier -> SUBSET Place] BY <3>1, LeftOutIsPlace, HideTypes
    <3> QED BY <2>1, <3>1, <3>2 DEF Goto, TypeOK
  <2> QED BY <2>2, <2>3
<1>5. CASE ListTarget(w)
  <2>1. PICK list \in Listing(req[w].dst) :
          /\ todo' = [todo EXCEPT ![w] = list]
          /\ Hide(w, LeftOut(req[w].dst, list))
          /\ Goto(w, IF list = {} THEN "list" ELSE "delete")
    BY <1>5 DEF ListTarget
  <2>2. todo' \in [Copier -> SUBSET Member] BY <2>1, Listed DEF TypeOK
  <2>3. hidden' \in [Copier -> SUBSET Place] BY <2>1, HideTypes, LeftOutIsPlace
  <2> QED BY <1>5, <2>1, <2>2, <2>3 DEF ListTarget, Goto, TypeOK, catalogVars
<1>6. CASE DeleteOne(w)
  <2> DEFINE m == First(todo[w])
             x == <<req[w].dst, m>>
  <2>1. pc[w] = "delete" /\ UNCHANGED <<changes, req, before>> BY <1>6 DEF DeleteOne
  <2>2. x \in Place BY <2>1, FirstIsMember DEF Place, Part
  <2>3. CASE Fail(w) BY <1>6, <2>1, <2>3, LocalTypes DEF DeleteOne, Fail, Finish, Goto, TypeOK
  <2>4. CASE /\ Catalog({w}, org, [text EXCEPT ![x] = Absent])
             /\ todo' = [todo EXCEPT ![w] = @ \ {m}]
             /\ Goto(w, IF todo'[w] = {} THEN "list" ELSE "delete")
             /\ UNCHANGED <<kind, existed, part, data, answer, hidden>>
    <3>1. org \in [Dsn -> {"none", "PS", "PO"}] BY DEF TypeOK
    <3>2. /\ org' \in [Dsn -> {"none", "PS", "PO"}]
          /\ text' \in [Place -> Text \cup {Absent}]
          /\ touched' \in [Copier -> SUBSET Place]
      BY <2>2, <2>4, <3>1, CatalogTypes, TextTypes
    <3> QED BY <2>1, <2>4, <3>2 DEF Goto, TypeOK
  <2> QED BY <1>6, <2>3, <2>4 DEF DeleteOne
<1>7. CASE ListSource(w)
  <2>1. PICK list \in Listing(req[w].src) :
          /\ todo' = [todo EXCEPT ![w] = list]
          /\ Hide(w, LeftOut(req[w].src, list))
          /\ Goto(w, "next")
    BY <1>7 DEF ListSource
  <2>2. todo' \in [Copier -> SUBSET Member] BY <2>1, Listed DEF TypeOK
  <2>3. hidden' \in [Copier -> SUBSET Place] BY <2>1, HideTypes, LeftOutIsPlace
  <2> QED BY <1>7, <2>1, <2>2, <2>3 DEF ListSource, Goto, TypeOK, catalogVars
<1>8. CASE NextMember(w)
  <2>1. /\ pc[w] = "next" /\ todo[w] # {}
        /\ UNCHANGED <<org, text, changes, touched, req, kind, existed, data, answer, before>>
    BY <1>8 DEF NextMember, catalogVars
  <2>2. First(todo[w]) \in Member BY <2>1, FirstIsMember
  <2>3. todo' = [todo EXCEPT ![w] = @ \ {First(todo[w])}] BY <1>8 DEF NextMember
  <2>4. CASE UNCHANGED <<pc, part, hidden>> BY <2>1, <2>3, <2>4 DEF TypeOK
  <2>5. CASE ~UNCHANGED <<pc, part, hidden>>
    <3>1. PICK list \in Listing(req[w].dst) :
            /\ Goto(w, "open")
            /\ part' = [part EXCEPT ![w] = First(todo[w])]
            /\ Hide(w, IF Replaces(w) THEN {} ELSE LeftOut(req[w].dst, list))
      BY <1>8, <2>5 DEF NextMember
    <3>2. hidden' \in [Copier -> SUBSET Place] BY <3>1, LeftOutIsPlace, HideTypes
    <3> QED BY <2>1, <2>2, <2>3, <3>1, <3>2 DEF Goto, TypeOK, Part
  <2> QED BY <2>4, <2>5
<1>9. CASE AllCopied(w) BY <1>9 DEF AllCopied, Finish, Goto, TypeOK, catalogVars
<1>10. CASE Open(w)
  <2> DEFINE x == Target(w)
  <2>1. UNCHANGED <<changes, req, before>> BY <1>10 DEF Open
  <2>2. CASE Fail(w) /\ UNCHANGED <<org, text, touched>> BY <2>1, <2>2, LocalTypes
  <2>3. CASE /\ \E t \in {text[Source(w)]} \cup Emptied(w) : data' = [data EXCEPT ![w] = t]
             /\ IF x[2] = Whole
                THEN Catalog({w}, [org EXCEPT ![x[1]] = "PS"], [text EXCEPT ![x] = Cut])
                ELSE UNCHANGED <<org, text, touched>>
             /\ Goto(w, "copy")
             /\ UNCHANGED <<kind, existed, todo, part, answer, hidden>>
    <3>1. [org EXCEPT ![x[1]] = "PS"] \in [Dsn -> {"none", "PS", "PO"}] BY DEF TypeOK
    <3>2. Cut \in Text BY DEF Text
    <3>3. /\ org' \in [Dsn -> {"none", "PS", "PO"}]
          /\ text' \in [Place -> Text \cup {Absent}]
          /\ touched' \in [Copier -> SUBSET Place]
      <4>1. CASE x[2] = Whole BY <2>3, <3>1, <3>2, <4>1, CatalogTypes, TextTypes
      <4>2. CASE x[2] # Whole BY <2>3, <4>2 DEF TypeOK
      <4> QED BY <4>1, <4>2
    <3>4. data' \in [Copier -> Text \cup {Absent}]
      <4>1. PICK t \in {text[Source(w)]} \cup Emptied(w) : data' = [data EXCEPT ![w] = t] BY <2>3
      <4>2. text[Source(w)] \in Text \cup {Absent} BY Places DEF TypeOK
      <4>3. t \in Text \cup {Absent} BY <4>2 DEF Emptied, Text
      <4> QED BY <4>1, <4>3 DEF TypeOK
    <3>5. /\ pc' = [pc EXCEPT ![w] = "copy"]
          /\ UNCHANGED <<kind, existed, todo, part, answer, hidden>>
      BY <2>3 DEF Goto
    <3> QED BY <2>1, <3>3, <3>4, <3>5 DEF TypeOK
  <2> QED BY <1>10, <2>2, <2>3 DEF Open
<1>11. CASE CopyText(w)
  <2> DEFINE x == Target(w)
  <2>1. UNCHANGED <<changes, req, before>> BY <1>11 DEF CopyText
  <2>2. PICK t \in {data[w], Cut} : Catalog({w}, org, [text EXCEPT ![x] = t])
    BY <1>11 DEF CopyText
  <2>3. t \in Text \cup {Absent} BY DEF Text, TypeOK
  <2>4. /\ org' \in [Dsn -> {"none", "PS", "PO"}]
        /\ text' \in [Place -> Text \cup {Absent}]
        /\ touched' \in [Copier -> SUBSET Place]
    <3>1. org \in [Dsn -> {"none", "PS", "PO"}] BY DEF TypeOK
    <3> QED BY <2>2, <2>3, <3>1, CatalogTypes, TextTypes
  <2>5. CASE Fail(w) BY <2>1, <2>4, <2>5, LocalTypes
  <2>6. CASE ~Fail(w)
    <3>1. /\ UNCHANGED <<kind, existed, todo, part, hidden>>
          /\ data' = [data EXCEPT ![w] = Absent]
          /\ \/ pc' = [pc EXCEPT ![w] = "next"] /\ answer' = answer
             \/ pc' = [pc EXCEPT ![w] = "ended"] /\ answer' = [answer EXCEPT ![w] = "done"]
      BY <1>11, <2>6 DEF CopyText, Finish, Goto
    <3>2. data' \in [Copier -> Text \cup {Absent}] BY <3>1 DEF TypeOK
    <3>3. CASE pc' = [pc EXCEPT ![w] = "next"] /\ answer' = answer
      BY <2>1, <2>4, <3>1, <3>2, <3>3 DEF TypeOK
    <3>4. CASE pc' = [pc EXCEPT ![w] = "ended"] /\ answer' = [answer EXCEPT ![w] = "done"]
      BY <2>1, <2>4, <3>1, <3>2, <3>4 DEF TypeOK
    <3> QED BY <3>1, <3>3, <3>4
  <2> QED BY <2>5, <2>6
<1> QED BY <1>1, <1>2, <1>3, <1>4, <1>5, <1>6, <1>7, <1>8, <1>9, <1>10, <1>11, <1>15, <1>16
     DEF CopyStep

\* What every command of the server does: it changes the catalog, for all to see.
ServerStep ==
  \/ \E d \in Dsn : CreateDataSet(d) \/ DeleteDataSet(d)
  \/ \E d \in Dsn, m \in Member : CreateMember(d, m) \/ DeleteMember(d, m)
  \/ \E d, e \in Dsn : RenameDataSet(d, e)
  \/ \E d \in Dsn, m, n \in Member : RenameMember(d, m, n)

LEMMA ServerTypes ==
  ASSUME TypeOK, ServerStep
  PROVE  TypeOK'
<1>9. SUFFICES /\ org' \in [Dsn -> {"none", "PS", "PO"}]
               /\ text' \in [Place -> Text \cup {Absent}]
               /\ touched' \in [Copier -> SUBSET Place]
               /\ Command
  <2>1. Command => changes' \in 0 .. MaxChanges
    <3>1. changes \in 0 .. MaxChanges BY DEF TypeOK
    <3>2. MaxChanges \in Nat BY DataSetAssumption
    <3> QED BY <3>1, <3>2 DEF Command
  <2> QED BY <2>1 DEF Command, TypeOK
<1> DEFINE O == [Dsn -> {"none", "PS", "PO"}]
           T == [Place -> Text \cup {Absent}]
<1>0. org \in O /\ text \in T BY DEF TypeOK
<1>00. Empty \in Text BY DEF Text
<1>1. ASSUME NEW d \in Dsn, CreateDataSet(d)
      PROVE  org' \in O /\ text' \in T /\ touched' \in [Copier -> SUBSET Place] /\ Command
  BY <1>1, NewDataSetTypes DEF CreateDataSet
<1>2. ASSUME NEW d \in Dsn, DeleteDataSet(d)
      PROVE  org' \in O /\ text' \in T /\ touched' \in [Copier -> SUBSET Place] /\ Command
  <2>1. [org EXCEPT ![d] = "none"] \in O BY <1>0
  <2>2. [x \in Place |-> IF x[1] = d THEN Absent ELSE text[x]] \in T BY <1>0
  <2> QED BY <1>2, <2>1, <2>2, CatalogTypes DEF DeleteDataSet
<1>3. ASSUME NEW d \in Dsn, NEW m \in Member, CreateMember(d, m)
      PROVE  org' \in O /\ text' \in T /\ touched' \in [Copier -> SUBSET Place] /\ Command
  <2>1. <<d, m>> \in Place BY DEF Place, Part
  <2> QED BY <1>0, <1>00, <1>3, <2>1, TextTypes, CatalogTypes DEF CreateMember
<1>4. ASSUME NEW d \in Dsn, NEW m \in Member, DeleteMember(d, m)
      PROVE  org' \in O /\ text' \in T /\ touched' \in [Copier -> SUBSET Place] /\ Command
  <2>1. <<d, m>> \in Place BY DEF Place, Part
  <2> QED BY <1>0, <1>4, <2>1, TextTypes, CatalogTypes DEF DeleteMember
<1>5. ASSUME NEW d \in Dsn, NEW e \in Dsn, RenameDataSet(d, e)
      PROVE  org' \in O /\ text' \in T /\ touched' \in [Copier -> SUBSET Place] /\ Command
  <2>1. [org EXCEPT ![d] = "none", ![e] = org[d]] \in O BY <1>0
  <2>2. [x \in Place |-> IF x[1] = e THEN text[<<d, x[2]>>]
                         ELSE IF x[1] = d THEN Absent ELSE text[x]] \in T
    BY <1>0 DEF Place
  <2> QED BY <1>5, <2>1, <2>2, CatalogTypes DEF RenameDataSet
<1>6. ASSUME NEW d \in Dsn, NEW m \in Member, NEW n \in Member, RenameMember(d, m, n)
      PROVE  org' \in O /\ text' \in T /\ touched' \in [Copier -> SUBSET Place] /\ Command
  <2>1. <<d, m>> \in Place /\ <<d, n>> \in Place BY DEF Place, Part
  <2>2. [text EXCEPT ![<<d, n>>] = text[<<d, m>>], ![<<d, m>>] = Absent] \in T
    BY <1>0, <2>1
  <2> QED BY <1>0, <1>6, <2>2, CatalogTypes DEF RenameMember
<1> QED BY <1>1, <1>2, <1>3, <1>4, <1>5, <1>6 DEF ServerStep

-----------------------------------------------------------------------------
(* The inductive invariant.                                                *)

AfterLook == {"create", "check", "empty", "delete", "list", "next", "open", "copy"}

Same(w, x) == x \in touched[w] \/ text[x] = before[w][x]
Loose(w, x) == x \in touched[w] \cup hidden[w]

\* What a copy may change, of what was there.
May(w, x) ==
  /\ x[1] = req[w].dst
  /\ IF Full(w) THEN x[2] # Whole ELSE x[2] = req[w].to
  /\ Replaces(w) \/ before[w][x] = Absent \/ x \in hidden[w]

\* A text was found at the source, unless a member of a sequential data set is named.
Found(w) ==
  LET x == <<req[w].src, req[w].from>>
  IN  \/ kind[w] \in {"none", "PDS"}
      \/ kind[w] = "PS" /\ req[w].from # Whole
      \/ x \in touched[w] \/ before[w][x] # Absent

\* Where a copy is says what it copies and which options it has.
PlaceOK(w) ==
  /\ answer[w] # "none" => pc[w] = "ended"
  /\ pc[w] \in AfterLook \cup {"look target", "look base"} => Found(w)
  /\ pc[w] \in AfterLook \cup {"look base"} =>
       /\ Full(w) => req[w].to = Whole
       /\ ~Full(w) => (kind[w] = "PS" <=> req[w].to = Whole)
       /\ kind[w] # "none"
  /\ pc[w] \in AfterLook \ {"create"} /\ ~existed[w] =>
       \A p \in Part : LET x == <<req[w].dst, p>> IN x \in touched[w] \/ before[w][x] = Absent
  /\ pc[w] = "create" => ~existed[w]
  /\ pc[w] \in {"empty", "delete", "list", "next"} => Full(w)
  /\ pc[w] \in {"empty", "delete"} => req[w].delete
  /\ pc[w] \in {"open", "copy"} /\ Full(w) => part[w] \in Member \ todo[w]
  /\ pc[w] = "delete" => todo[w] # {}

\* Nothing but the target has changed, as far as it may.
KeptOK(w) ==
  /\ pc[w] \in {"look", "look target", "look base", "create"} => \A x \in Place : Same(w, x)
  /\ pc[w] \in AfterLook => \A x \in Place : Same(w, x) \/ May(w, x)
  /\ pc[w] \in {"open", "copy"} =>
       Replaces(w) \/ before[w][Target(w)] = Absent \/ Loose(w, Target(w))

\* A copy of one text: before the target is opened only its creation shows,
\* and what is read then is what was there.
OneOK(w) ==
  ~Full(w) =>
    /\ pc[w] \in {"create", "check", "open"} =>
         \A x \in Place : Same(w, x) \/ (x = Target(w) /\ ~existed[w])
    /\ pc[w] = "copy" =>
         \/ Source(w) \in touched[w]
         \/ data[w] = before[w][Source(w)]
         \/ data[w] = Empty /\ req[w].src = req[w].dst /\ req[w].to = Whole

\* The members that a copy of all has still to come to, ...
Pending(w) ==
  IF pc[w] \in {"create", "check", "empty", "delete", "list"} THEN Member
  ELSE IF pc[w] = "next" THEN todo[w]
  ELSE todo[w] \cup {part[w]}

\* ... and those it is through with.
Settled(w, m) ==
  LET was == before[w][<<req[w].src, m>>]
      had == before[w][<<req[w].dst, m>>]
      now == text[<<req[w].dst, m>>]
  IN  \/ Excused(w, m)
      \/ was # Absent /\ now \in {was, Cut}
      \/ was # Absent /\ ~Replaces(w) /\ had # Absent /\ now = had
      \/ was = Absent /\ (req[w].delete => now = Absent)

Gone(w, m) == Loose(w, <<req[w].dst, m>>) \/ text[<<req[w].dst, m>>] = Absent

ManyOK(w) ==
  Full(w) /\ (req[w].src # req[w].dst \/ ~req[w].delete) =>
    /\ pc[w] \in AfterLook => \A m \in Pending(w) :
         /\ Same(w, <<req[w].src, m>>)
         /\ req[w].delete \/ Same(w, <<req[w].dst, m>>)
    /\ pc[w] = "check" /\ ~existed[w] => \A m \in Member : Gone(w, m)
    /\ pc[w] = "delete" => \A m \in Member \ todo[w] : Gone(w, m)
    /\ pc[w] = "list" /\ req[w].delete => \A m \in Member : Gone(w, m)
    /\ pc[w] \in {"next", "open", "copy"} =>
         /\ \A m \in Pending(w) : Excused(w, m) \/ before[w][<<req[w].src, m>>] # Absent
         /\ \A m \in Member \ Pending(w) : Settled(w, m)
    /\ pc[w] = "copy" => Excused(w, part[w]) \/ data[w] = before[w][<<req[w].src, part[w]>>]

\* What CopiedWhole says of one copy.
DoneOK(w) ==
  answer[w] = "done" =>
    IF Full(w)
    THEN req[w].src # req[w].dst \/ ~req[w].delete => \A m \in Member : Settled(w, m)
    ELSE \/ {Source(w), Target(w)} \cap touched[w] # {}
         \/ text[Target(w)] \in {before[w][Source(w)], Cut}
         \/ text[Target(w)] = Empty /\ req[w].src = req[w].dst /\ req[w].to = Whole

CopyOK(w) == PlaceOK(w) /\ KeptOK(w) /\ OneOK(w) /\ ManyOK(w) /\ DoneOK(w)

\* An open target stays what it is: nobody deletes or renames what is in use.
OpenOK(w) ==
  pc[w] = "copy" =>
    /\ data[w] # Absent
    /\ org[req[w].dst] = IF Target(w)[2] = Whole THEN "PS" ELSE "PO"

IInv == DataSetInv /\ (\A w \in Copier : CopyOK(w) /\ OpenOK(w))

-----------------------------------------------------------------------------
(* The catalog.                                                            *)

Fits(o, t) ==
  \A x \in Place : IF x[2] = Whole THEN t[x] # Absent <=> o[x[1]] = "PS"
                   ELSE t[x] # Absent => o[x[1]] = "PO"

LEMMA TextFits == TextOK <=> Fits(org, text)
BY DEF TextOK, Fits

LEMMA CatalogFits ==
  ASSUME NEW who, NEW o, NEW t, Catalog(who, o, t), Fits(o, t)
  PROVE  TextOK'
BY DEF Catalog, Fits, TextOK

\* What others change is touched; what a copy changes itself is not.
LEMMA CatalogSeen ==
  ASSUME TypeOK, NEW who, NEW o, NEW t, Catalog(who, o, t), NEW w \in Copier
  PROVE  /\ w \in who => touched'[w] = touched[w]
         /\ w \notin who => /\ touched[w] \subseteq touched'[w]
                            /\ \A x \in Place : text'[x] # text[x] => x \in touched'[w]
BY DEF Catalog, TypeOK

LEMMA PutFits ==
  ASSUME TypeOK, TextOK, NEW x \in Place, NEW t \in Text \cup {Absent}, t # Absent, NEW o,
         IF x[2] = Whole THEN org[x[1]] # "PO" /\ o = [org EXCEPT ![x[1]] = "PS"]
         ELSE org[x[1]] = "PO" /\ o = org
  PROVE  Fits(o, [text EXCEPT ![x] = t])
<1>1. x = <<x[1], x[2]>> /\ x[1] \in Dsn /\ x[2] \in Part BY DEF Place
<1> SUFFICES ASSUME NEW y \in Place
             PROVE  IF y[2] = Whole THEN [text EXCEPT ![x] = t][y] # Absent <=> o[y[1]] = "PS"
                    ELSE [text EXCEPT ![x] = t][y] # Absent => o[y[1]] = "PO"
  BY DEF Fits
<1>2. y = <<y[1], y[2]>> /\ y[1] \in Dsn /\ y[2] \in Part BY DEF Place
<1>3. text \in [Place -> Text \cup {Absent}] /\ org \in [Dsn -> {"none", "PS", "PO"}]
  BY DEF TypeOK
<1>4. IF y[2] = Whole THEN text[y] # Absent <=> org[y[1]] = "PS"
      ELSE text[y] # Absent => org[y[1]] = "PO"
  BY DEF TextOK
<1>5. CASE y = x BY <1>1, <1>3, <1>5
<1>6. CASE y # x /\ y[1] # x[1] BY <1>1, <1>2, <1>3, <1>4, <1>6
<1>7. CASE y # x /\ y[1] = x[1]
  <2>1. y[2] # x[2] BY <1>1, <1>2, <1>7
  <2> QED BY <1>1, <1>2, <1>3, <1>4, <1>7, <2>1
<1> QED BY <1>5, <1>6, <1>7

LEMMA DropFits ==
  ASSUME TypeOK, TextOK, NEW x \in Place, x[2] # Whole
  PROVE  Fits(org, [text EXCEPT ![x] = Absent])
BY DEF TypeOK, TextOK, Fits

LEMMA NewFits ==
  ASSUME TypeOK, TextOK, NEW who, NEW d \in Dsn, org[d] = "none", NEW o \in {"PS", "PO"},
         NewDataSet(who, d, o)
  PROVE  TextOK'
<1> DEFINE x == <<d, Whole>>
<1>1. x \in Place /\ x[1] = d /\ x[2] = Whole BY DEF Place, Part
<1>2. Empty \in Text /\ Empty # Absent BY DataSetAssumption DEF Text
<1>3. CASE o = "PS"
  <2>1. Fits([org EXCEPT ![d] = o], [text EXCEPT ![x] = Empty]) BY <1>1, <1>2, <1>3, PutFits
  <2> QED BY <1>3, <2>1, CatalogFits DEF NewDataSet
<1>4. CASE o = "PO"
  <2>1. \A y \in Place : IF y[2] = Whole THEN text[y] # Absent <=> [org EXCEPT ![d] = o][y[1]] = "PS"
                         ELSE text[y] # Absent => [org EXCEPT ![d] = o][y[1]] = "PO"
    BY <1>4 DEF TextOK, TypeOK, Place
  <2>2. Fits([org EXCEPT ![d] = o], text) BY <2>1 DEF Fits
  <2> QED BY <1>4, <2>2, CatalogFits DEF NewDataSet
<1> QED BY <1>3, <1>4

LEMMA SameText ==
  ASSUME TextOK, UNCHANGED <<org, text>>
  PROVE  TextOK'
BY DEF TextOK

\* Where the catalog is changed by a copy.
LEMMA CopyChanges ==
  ASSUME TypeOK, TextOK, NEW w \in Copier, PlaceOK(w), OpenOK(w), CopyStep(w)
  PROVE  /\ TextOK'
         /\ \A d \in Dsn : org[d] # "none" => org'[d] = org[d]
<1> USE Places
<1> DEFINE x == Target(w)
<1>1. CASE UNCHANGED <<org, text>> BY <1>1, SameText
<1>2. ASSUME ~UNCHANGED <<org, text>>
      PROVE  CreateTarget(w) \/ DeleteOne(w) \/ Open(w) \/ CopyText(w)
  BY <1>2 DEF CopyStep, Begin, LookSource, LookTarget, LookBase, Check, ListTarget,
         ListSource, NextMember, AllCopied, catalogVars
<1>3. CASE CreateTarget(w) /\ ~UNCHANGED <<org, text>>
  <2> DEFINE o == IF kind[w] = "PS" THEN "PS" ELSE "PO"
  <2>1. org[req[w].dst] = "none" /\ NewDataSet({w}, req[w].dst, o)
    BY <1>3 DEF CreateTarget
  <2>2. TextOK' BY <2>1, NewFits
  <2>3. org' = [org EXCEPT ![req[w].dst] = o] BY <2>1 DEF NewDataSet, Catalog
  <2> QED BY <2>1, <2>2, <2>3 DEF TypeOK
<1>4. CASE DeleteOne(w) /\ ~UNCHANGED <<org, text>>
  <2> DEFINE y == <<req[w].dst, First(todo[w])>>
  <2>1. pc[w] = "delete" /\ Catalog({w}, org, [text EXCEPT ![y] = Absent])
    BY <1>4 DEF DeleteOne
  <2>2. todo[w] # {} BY <2>1 DEF PlaceOK
  <2>3. First(todo[w]) \in Member BY <2>2, FirstIsMember
  <2>4. y \in Place /\ y[2] # Whole BY <2>3, DataSetAssumption DEF Place, Part
  <2>5. TextOK' BY <2>1, <2>4, DropFits, CatalogFits
  <2> QED BY <2>1, <2>5 DEF Catalog
<1>5. CASE Open(w) /\ ~UNCHANGED <<org, text>>
  <2>1. /\ CanOpen(w)
        /\ x[2] = Whole
        /\ Catalog({w}, [org EXCEPT ![x[1]] = "PS"], [text EXCEPT ![x] = Cut])
    BY <1>5 DEF Open
  <2>2. org[x[1]] # "PO" /\ x[1] \in Dsn BY <2>1 DEF CanOpen, Place
  <2>3. Cut \in Text /\ Cut # Absent BY DataSetAssumption DEF Text
  <2>4. TextOK' BY <2>1, <2>2, <2>3, PutFits, CatalogFits
  <2>5. org' = [org EXCEPT ![x[1]] = "PS"] BY <2>1 DEF Catalog
  <2> QED BY <2>2, <2>4, <2>5 DEF TypeOK
<1>6. CASE CopyText(w) /\ ~UNCHANGED <<org, text>>
  <2>1. PICK t \in {data[w], Cut} : Catalog({w}, org, [text EXCEPT ![x] = t])
    BY <1>6 DEF CopyText
  <2>2. pc[w] = "copy" BY <1>6 DEF CopyText
  <2>3. t \in Text \cup {Absent} /\ t # Absent
    BY <2>2, DataSetAssumption DEF OpenOK, TypeOK, Text
  <2>4. x[1] = req[w].dst BY DEF Target
  <2>5. IF x[2] = Whole THEN org[x[1]] # "PO" /\ org = [org EXCEPT ![x[1]] = "PS"]
        ELSE org[x[1]] = "PO" /\ org = org
    BY <2>2, <2>4 DEF OpenOK, TypeOK
  <2>6. Fits(org, [text EXCEPT ![x] = t]) BY <2>3, <2>5, PutFits
  <2>7. TextOK' BY <2>1, <2>6, CatalogFits
  <2> QED BY <2>1, <2>7 DEF Catalog
<1> QED BY <1>1, <1>2, <1>3, <1>4, <1>5, <1>6

LEMMA ServerChanges ==
  ASSUME TypeOK, TextOK, ServerStep
  PROVE  /\ TextOK'
         /\ \A d \in Dsn : org[d] # "none" /\ InUse(d) => org'[d] = org[d]
         /\ Command
         /\ \E o, t : Catalog({}, o, t)
<1>0. org \in [Dsn -> {"none", "PS", "PO"}] /\ text \in [Place -> Text \cup {Absent}] BY DEF TypeOK
<1>00. Empty \in Text /\ Empty # Absent BY DataSetAssumption DEF Text
<1> DEFINE Goal == /\ TextOK'
                   /\ \A d \in Dsn : org[d] # "none" /\ InUse(d) => org'[d] = org[d]
                   /\ Command
                   /\ \E o, t : Catalog({}, o, t)
<1>1. ASSUME NEW d \in Dsn, CreateDataSet(d) PROVE Goal
  <2>1. PICK o \in {"PS", "PO"} : org[d] = "none" /\ NewDataSet({}, d, o) /\ Command
    BY <1>1 DEF CreateDataSet
  <2>2. TextOK' BY <2>1, NewFits
  <2>3. org' = [org EXCEPT ![d] = o] BY <2>1 DEF NewDataSet, Catalog
  <2>4. \E oo, t : Catalog({}, oo, t) BY <2>1 DEF NewDataSet
  <2> QED BY <1>0, <2>1, <2>2, <2>3, <2>4
<1>2. ASSUME NEW d \in Dsn, DeleteDataSet(d) PROVE Goal
  <2> DEFINE o == [org EXCEPT ![d] = "none"]
             t == [x \in Place |-> IF x[1] = d THEN Absent ELSE text[x]]
  <2>1. ~InUse(d) /\ Catalog({}, o, t) /\ Command BY <1>2 DEF DeleteDataSet
  <2>2. \A x \in Place : x[1] \in Dsn BY DEF Place
  <2>3. \A x \in Place : IF x[2] = Whole THEN t[x] # Absent <=> o[x[1]] = "PS"
                         ELSE t[x] # Absent => o[x[1]] = "PO"
    BY <1>0, <2>2 DEF TextOK
  <2>4. TextOK' BY <2>1, <2>3, CatalogFits DEF Fits
  <2>5. org' = o BY <2>1 DEF Catalog
  <2> QED BY <1>0, <2>1, <2>4, <2>5
<1>3. ASSUME NEW d \in Dsn, NEW m \in Member, CreateMember(d, m) PROVE Goal
  <2> DEFINE x == <<d, m>>
  <2>1. org[d] = "PO" /\ Catalog({}, org, [text EXCEPT ![x] = Empty]) /\ Command
    BY <1>3 DEF CreateMember
  <2>2. x \in Place /\ x[1] = d /\ x[2] # Whole BY DataSetAssumption DEF Place, Part
  <2>3. Fits(org, [text EXCEPT ![x] = Empty]) BY <1>00, <2>1, <2>2, PutFits
  <2>4. TextOK' BY <2>1, <2>3, CatalogFits
  <2>5. org' = org BY <2>1 DEF Catalog
  <2> QED BY <2>1, <2>4, <2>5
<1>4. ASSUME NEW d \in Dsn, NEW m \in Member, DeleteMember(d, m) PROVE Goal
  <2> DEFINE x == <<d, m>>
  <2>1. Catalog({}, org, [text EXCEPT ![x] = Absent]) /\ Command
    BY <1>4 DEF DeleteMember
  <2>2. x \in Place /\ x[2] # Whole BY DataSetAssumption DEF Place, Part
  <2>3. TextOK' BY <2>1, <2>2, DropFits, CatalogFits
  <2>4. org' = org BY <2>1 DEF Catalog
  <2> QED BY <2>1, <2>3, <2>4
<1>5. ASSUME NEW d \in Dsn, NEW e \in Dsn, RenameDataSet(d, e) PROVE Goal
  <2> DEFINE o == [org EXCEPT ![d] = "none", ![e] = org[d]]
             t == [x \in Place |-> IF x[1] = e THEN text[<<d, x[2]>>]
                                   ELSE IF x[1] = d THEN Absent ELSE text[x]]
  <2>1. org[d] # "none" /\ org[e] = "none" /\ ~InUse(d) /\ Catalog({}, o, t) /\ Command
    BY <1>5 DEF RenameDataSet
  <2>2. \A x \in Place : x[1] \in Dsn /\ x[2] \in Part /\ <<d, x[2]>> \in Place
                         /\ <<d, x[2]>>[1] = d /\ <<d, x[2]>>[2] = x[2]
    BY DEF Place
  <2>3. \A x \in Place : IF x[2] = Whole THEN t[x] # Absent <=> o[x[1]] = "PS"
                         ELSE t[x] # Absent => o[x[1]] = "PO"
    BY <1>0, <2>1, <2>2 DEF TextOK
  <2>4. TextOK' BY <2>1, <2>3, CatalogFits DEF Fits
  <2>5. org' = o BY <2>1 DEF Catalog
  <2> QED BY <1>0, <2>1, <2>4, <2>5
<1>6. ASSUME NEW d \in Dsn, NEW m \in Member, NEW n \in Member, RenameMember(d, m, n) PROVE Goal
  <2> DEFINE x == <<d, m>>
             y == <<d, n>>
             t == [text EXCEPT ![y] = text[x], ![x] = Absent]
  <2>1. text[x] # Absent /\ Catalog({}, org, t) /\ Command BY <1>6 DEF RenameMember
  <2>2. x \in Place /\ x[1] = d /\ x[2] = m /\ y \in Place /\ y[1] = d /\ y[2] = n
    BY DEF Place, Part
  <2>3. m # Whole /\ n # Whole BY DataSetAssumption
  <2>4. org[d] = "PO" BY <2>1, <2>2, <2>3 DEF TextOK
  <2>5. \A z \in Place : IF z[2] = Whole THEN t[z] # Absent <=> org[z[1]] = "PS"
                         ELSE t[z] # Absent => org[z[1]] = "PO"
    BY <1>0, <2>2, <2>3, <2>4 DEF TextOK
  <2>6. TextOK' BY <2>1, <2>5, CatalogFits DEF Fits
  <2>7. org' = org BY <2>1 DEF Catalog
  <2> QED BY <2>1, <2>6, <2>7
<1> QED BY <1>1, <1>2, <1>3, <1>4, <1>5, <1>6 DEF ServerStep

-----------------------------------------------------------------------------
(* What others do leaves the claims about a copy as they are: whatever     *)
(* they change is touched.                                                 *)

Aside(w) ==
  /\ pc'[w] = pc[w] /\ req'[w] = req[w] /\ kind'[w] = kind[w] /\ existed'[w] = existed[w]
  /\ todo'[w] = todo[w] /\ part'[w] = part[w] /\ data'[w] = data[w] /\ answer'[w] = answer[w]
  /\ before'[w] = before[w] /\ hidden'[w] = hidden[w]

Watched(w) ==
  /\ touched[w] \subseteq touched'[w]
  /\ \A x \in Place : text'[x] # text[x] => x \in touched'[w]

LEMMA AsidePlaces ==
  ASSUME NEW w \in Copier, Aside(w)
  PROVE  /\ Full(w)' = Full(w) /\ Source(w)' = Source(w) /\ Target(w)' = Target(w)
         /\ Replaces(w)' = Replaces(w) /\ Pending(w)' = Pending(w)
BY DEF Aside, Full, Source, Target, Replaces, Pending

LEMMA AsideMarks ==
  ASSUME NEW w \in Copier, Aside(w), Watched(w)
  PROVE  /\ \A x \in Place : Same(w, x) => Same(w, x)'
         /\ \A x \in Place : Loose(w, x) => Loose(w, x)'
         /\ \A x \in Place : May(w, x) => May(w, x)'
         /\ \A m \in Member : Excused(w, m) => Excused(w, m)'
<1>1. \A x \in Place : Same(w, x) => Same(w, x)' BY DEF Aside, Watched, Same
<1>2. \A x \in Place : Loose(w, x) => Loose(w, x)' BY DEF Aside, Watched, Loose
<1>3. \A x \in Place : May(w, x) => May(w, x)' BY AsidePlaces DEF Aside, May
<1>4. \A m \in Member : Excused(w, m) => Excused(w, m)' BY DEF Aside, Watched, Excused
<1> QED BY <1>1, <1>2, <1>3, <1>4

LEMMA MemberPlaces ==
  ASSUME TypeOK, NEW w \in Copier, NEW m \in Member
  PROVE  /\ <<req[w].src, m>> \in Place
         /\ <<req[w].dst, m>> \in Place
BY Places DEF Place, Part

LEMMA AsideMembers ==
  ASSUME TypeOK, NEW w \in Copier, Aside(w), Watched(w), NEW m \in Member
  PROVE  /\ Settled(w, m) => Settled(w, m)'
         /\ Gone(w, m) => Gone(w, m)'
<1> DEFINE x == <<req[w].src, m>>
           y == <<req[w].dst, m>>
<1>1. y \in Place BY MemberPlaces
<1>2. text'[y] = text[y] \/ y \in touched'[w] BY <1>1 DEF Watched
<1>3. Gone(w, m) => Gone(w, m)' BY <1>1, <1>2, AsideMarks DEF Gone, Loose, Aside
<1>4. y \in touched'[w] => Excused(w, m)' BY DEF Excused, Aside
<1> SUFFICES Settled(w, m) => Settled(w, m)' BY <1>3
<1>5. CASE text'[y] = text[y] /\ ~Excused(w, m)
  <2>1. Replaces(w)' = Replaces(w) BY AsidePlaces
  <2> QED BY <1>5, <2>1 DEF Settled, Aside
<1>6. CASE Excused(w, m)'
  BY <1>6 DEF Settled
<1>7. CASE Excused(w, m) BY <1>6, <1>7, AsideMarks
<1>8. CASE y \in touched'[w] BY <1>4, <1>6, <1>8
<1> QED BY <1>2, <1>3, <1>5, <1>7, <1>8

LEMMA AsideKeeps ==
  ASSUME TypeOK, NEW w \in Copier, Aside(w), Watched(w), CopyOK(w)
  PROVE  CopyOK(w)'
<1> USE Places, AsidePlaces, AsideMarks
<1>1. PlaceOK(w)' BY DEF CopyOK, PlaceOK, Aside, Watched, Found
<1>2. KeptOK(w)' BY DEF CopyOK, KeptOK, Aside
<1>3. OneOK(w)'
  BY DEF CopyOK, OneOK, Aside, Watched
<1>4. ManyOK(w)'
  <2>0. Pending(w) \subseteq Member \/ pc[w] \notin AfterLook \/ ~Full(w)
    BY DEF Pending, CopyOK, PlaceOK, AfterLook
  <2>1. SUFFICES ASSUME Full(w), req[w].src # req[w].dst \/ ~req[w].delete
                 PROVE  ManyOK(w)'
    BY DEF ManyOK, Aside
  <2>2. ASSUME pc[w] \in AfterLook, NEW m \in Pending(w)
        PROVE  Same(w, <<req[w].src, m>>)' /\ (req[w].delete \/ Same(w, <<req[w].dst, m>>)')
    BY <2>0, <2>1, <2>2, MemberPlaces DEF CopyOK, ManyOK, Aside
  <2>3. \A m \in Member : (Settled(w, m) => Settled(w, m)') /\ (Gone(w, m) => Gone(w, m)')
    BY AsideMembers
  <2>4. \A m \in Member : Excused(w, m) => Excused(w, m)' OBVIOUS
  <2>5. pc[w] = "copy" => Excused(w, part[w])' \/ data[w] = before[w][<<req[w].src, part[w]>>]
    <3> SUFFICES ASSUME pc[w] = "copy", data[w] # before[w][<<req[w].src, part[w]>>]
                 PROVE  Excused(w, part[w])'
      OBVIOUS
    <3>1. Excused(w, part[w]) BY <2>1 DEF CopyOK, ManyOK
    <3>2. part[w] \in Member BY <2>1 DEF CopyOK, PlaceOK
    <3>3. part'[w] = part[w] BY DEF Aside
    <3> QED BY <2>4, <3>1, <3>2, <3>3
  <2>6. pc[w] = "check" /\ ~existed[w] => \A m \in Member : Gone(w, m)'
    BY <2>1, <2>3 DEF CopyOK, ManyOK
  <2>7. pc[w] = "delete" => \A m \in Member \ todo[w] : Gone(w, m)'
    BY <2>1, <2>3 DEF CopyOK, ManyOK
  <2>8. pc[w] = "list" /\ req[w].delete => \A m \in Member : Gone(w, m)'
    BY <2>1, <2>3 DEF CopyOK, ManyOK
  <2>9. pc[w] \in {"next", "open", "copy"} =>
          /\ \A m \in Pending(w) : Excused(w, m)' \/ before[w][<<req[w].src, m>>] # Absent
          /\ \A m \in Member \ Pending(w) : Settled(w, m)'
    BY <2>0, <2>1, <2>3, <2>4 DEF CopyOK, ManyOK, AfterLook
  <2> QED BY <2>2, <2>5, <2>6, <2>7, <2>8, <2>9 DEF ManyOK, Aside
<1>5. DoneOK(w)'
  <2>1. CASE Full(w)
    BY <2>1, AsideMembers DEF CopyOK, DoneOK, Aside
  <2>2. CASE ~Full(w)
    <3>1. text'[Target(w)] = text[Target(w)] \/ Target(w) \in touched'[w] BY DEF Watched
    <3> QED BY <2>2, <3>1 DEF CopyOK, DoneOK, Aside, Watched
  <2> QED BY <2>1, <2>2
<1> QED BY <1>1, <1>2, <1>3, <1>4, <1>5 DEF CopyOK

LEMMA AsideFree ==
  ASSUME TypeOK, NEW w \in Copier, Aside(w), Watched(w), pc[w] = "open" => TargetIsFree(w)
  PROVE  pc'[w] = "open" => TargetIsFree(w)'
<1>1. text'[Target(w)] = text[Target(w)] \/ Target(w) \in touched'[w] BY Places DEF Watched
<1> QED BY <1>1, AsidePlaces DEF TargetIsFree, Aside, Watched

-----------------------------------------------------------------------------
(* The steps of a copy itself.                                             *)

\* A copy that ends without success claims nothing.
LEMMA EndedOK ==
  ASSUME NEW w \in Copier, pc'[w] = "ended", answer'[w] # "done"
  PROVE  CopyOK(w)' /\ OpenOK(w)' /\ (pc'[w] = "open" => TargetIsFree(w)')
<1>1. PlaceOK(w)' BY DEF PlaceOK, AfterLook
<1>2. KeptOK(w)' BY DEF KeptOK, AfterLook
<1>3. OneOK(w)' BY DEF OneOK
<1>4. ManyOK(w)' BY DEF ManyOK, AfterLook
<1>5. DoneOK(w)' BY DEF DoneOK
<1>6. OpenOK(w)' BY DEF OpenOK
<1> QED BY <1>1, <1>2, <1>3, <1>4, <1>5, <1>6 DEF CopyOK

LEMMA FailOK ==
  ASSUME TypeOK, NEW w \in Copier, Fail(w)
  PROVE  CopyOK(w)' /\ OpenOK(w)' /\ (pc'[w] = "open" => TargetIsFree(w)')
<1>1. pc'[w] = "ended" /\ answer'[w] # "done" BY DEF Fail, Finish, Goto, TypeOK
<1> QED BY <1>1, EndedOK

\* A step that only looks leaves every claim as it is, or excuses more.
Looks(w) ==
  /\ UNCHANGED <<text, touched>>
  /\ req'[w] = req[w] /\ before'[w] = before[w] /\ kind'[w] = kind[w]
  /\ hidden[w] \subseteq hidden'[w]

LEMMA LookMarks ==
  ASSUME NEW w \in Copier, Looks(w)
  PROVE  /\ Full(w)' = Full(w) /\ Replaces(w)' = Replaces(w)
         /\ \A x : Same(w, x) => Same(w, x)'
         /\ \A x : Loose(w, x) => Loose(w, x)'
         /\ \A x : May(w, x) => May(w, x)'
         /\ \A m : Excused(w, m) => Excused(w, m)'
         /\ \A m : Gone(w, m) => Gone(w, m)'
         /\ \A m : Settled(w, m) => Settled(w, m)'
<1>1. Full(w)' = Full(w) /\ Replaces(w)' = Replaces(w) BY DEF Looks, Full, Replaces
<1>2. \A x : Same(w, x) => Same(w, x)' BY DEF Looks, Same
<1>3. \A x : Loose(w, x) => Loose(w, x)' BY DEF Looks, Loose
<1>4. \A x : May(w, x) => May(w, x)' BY <1>1 DEF Looks, May
<1>5. \A m : Excused(w, m) => Excused(w, m)' BY DEF Looks, Excused
<1>6. \A m : Gone(w, m) => Gone(w, m)' BY <1>3 DEF Looks, Gone
<1>7. ASSUME NEW m, Settled(w, m) PROVE Settled(w, m)'
  <2>1. CASE Excused(w, m)'
    BY <2>1 DEF Settled
  <2>2. CASE ~Excused(w, m) BY <1>1, <1>7, <2>2 DEF Settled, Looks
  <2> QED BY <1>5, <2>1, <2>2
<1> QED BY <1>1, <1>2, <1>3, <1>4, <1>5, <1>6, <1>7

LEMMA BeginOK ==
  ASSUME TypeOK, NEW w \in Copier, CopyOK(w), Begin(w)
  PROVE  CopyOK(w)' /\ OpenOK(w)' /\ (pc'[w] = "open" => TargetIsFree(w)')
<1>1. /\ pc[w] = "out" /\ pc'[w] = "look" /\ answer'[w] = answer[w]
      /\ before'[w] = text /\ text' = text
  BY DEF Begin, Goto, TypeOK
<1>2. answer[w] = "none" BY <1>1 DEF CopyOK, PlaceOK
<1>3. PlaceOK(w)' BY <1>1, <1>2 DEF PlaceOK, AfterLook
<1>4. KeptOK(w)' BY <1>1 DEF KeptOK, Same, AfterLook
<1>5. OneOK(w)' BY <1>1 DEF OneOK
<1>6. ManyOK(w)' BY <1>1 DEF ManyOK, AfterLook
<1>7. DoneOK(w)' BY <1>1, <1>2 DEF DoneOK
<1> QED BY <1>1, <1>3, <1>4, <1>5, <1>6, <1>7 DEF CopyOK, OpenOK

\* Before the target is created nothing has changed but by others.
LEMMA StillSame ==
  ASSUME TypeOK, NEW w \in Copier, CopyOK(w),
         pc[w] \in {"look", "look target", "look base"},
         UNCHANGED <<org, text, changes, touched, req, before>>
  PROVE  /\ \A x \in Place : Same(w, x) /\ Same(w, x)'
         /\ answer[w] = "none"
BY DEF CopyOK, KeptOK, PlaceOK, Same, TypeOK

LEMMA LookSourceOK ==
  ASSUME TypeOK, TextOK, NEW w \in Copier, CopyOK(w), LookSource(w)
  PROVE  CopyOK(w)' /\ OpenOK(w)' /\ (pc'[w] = "open" => TargetIsFree(w)')
<1> USE Places
<1> DEFINE x == <<req[w].src, req[w].from>>
<1>1. PICK k \in TypeInfo(req[w].src, req[w].from) : kind' = [kind EXCEPT ![w] = k]
  BY DEF LookSource
<1>2. /\ pc[w] = "look" /\ pc'[w] = "look target" /\ kind'[w] = k /\ answer'[w] = answer[w]
      /\ UNCHANGED <<org, text, changes, touched, req, before, hidden>>
  BY <1>1 DEF LookSource, Goto, catalogVars, TypeOK
<1>3. answer'[w] = "none" /\ \A y \in Place : Same(w, y) /\ Same(w, y)'
  BY <1>2, StillSame
<1>4. Found(w)'
  <2>1. x \in Place BY DEF Place, TypeOK, Request
  <2>2. CASE k = "PS" /\ req[w].from = Whole
    <3>1. org[req[w].src] = "PS" BY <2>2 DEF TypeInfo
    <3>2. text[x] # Absent BY <2>1, <2>2, <3>1 DEF TextOK
    <3> QED BY <1>2, <1>3, <2>1, <3>2 DEF Found, Same
  <2>3. CASE k = "MEMBER"
    <3>1. text[x] # Absent BY <2>3 DEF TypeInfo, Listing, Present
    <3> QED BY <1>2, <1>3, <2>1, <3>1 DEF Found, Same
  <2>4. k \in {"none", "PS", "PDS", "MEMBER"} BY DEF TypeInfo
  <2>5. CASE k \in {"none", "PDS"} BY <1>2, <2>5 DEF Found
  <2>6. CASE k = "PS" /\ req[w].from # Whole BY <1>2, <2>6 DEF Found
  <2>7. CASE k = "PS" BY <2>2, <2>6, <2>7
  <2> QED BY <2>3, <2>4, <2>5, <2>7
<1>5. PlaceOK(w)' BY <1>2, <1>3, <1>4 DEF PlaceOK, AfterLook
<1>6. KeptOK(w)' BY <1>2, <1>3 DEF KeptOK, AfterLook
<1> QED BY <1>2, <1>3, <1>5, <1>6 DEF CopyOK, OneOK, ManyOK, DoneOK, OpenOK, AfterLook

LEMMA LookTargetOK ==
  ASSUME TypeOK, TextOK, NEW w \in Copier, CopyOK(w), LookTarget(w)
  PROVE  CopyOK(w)' /\ OpenOK(w)' /\ (pc'[w] = "open" => TargetIsFree(w)')
<1>1. CASE Fail(w) BY <1>1, FailOK
<1>2. CASE ~Fail(w)
  <2>1. PICK t : /\ kind[w] # "none" /\ ~Unsupported(kind[w], req[w].to, t)
                 /\ Goto(w, "look base")
                 /\ UNCHANGED <<kind, existed, todo, part, data, answer, hidden>>
    BY <1>2 DEF LookTarget
  <2>2. /\ pc[w] = "look target" /\ pc'[w] = "look base"
        /\ UNCHANGED <<org, text, changes, touched, req, before>>
    BY <2>1 DEF LookTarget, Goto, catalogVars, TypeOK
  <2>3. answer'[w] = "none" /\ \A y \in Place : Same(w, y)' BY <2>1, <2>2, StillSame
  <2>4. Found(w)' BY <2>1, <2>2 DEF CopyOK, PlaceOK, Found
  <2>5. kind[w] \in {"PS", "PDS", "MEMBER"} BY <2>1 DEF TypeOK
  <2>6. PlaceOK(w)'
    BY <2>1, <2>2, <2>3, <2>4, <2>5 DEF PlaceOK, Full, Unsupported, AfterLook
  <2>7. KeptOK(w)' BY <2>2, <2>3 DEF KeptOK, AfterLook
  <2> QED BY <2>2, <2>3, <2>6, <2>7 DEF CopyOK, OneOK, ManyOK, DoneOK, OpenOK, AfterLook
<1> QED BY <1>1, <1>2

LEMMA LookBaseOK ==
  ASSUME TypeOK, TextOK, NEW w \in Copier, CopyOK(w), LookBase(w)
  PROVE  CopyOK(w)' /\ OpenOK(w)' /\ (pc'[w] = "open" => TargetIsFree(w)')
<1> USE Places
<1> DEFINE d == req[w].dst
<1>1. /\ pc[w] = "look base"
      /\ existed'[w] \in BOOLEAN /\ pc'[w] = IF existed'[w] THEN "check" ELSE "create"
      /\ UNCHANGED <<org, text, changes, touched, req, before, kind, hidden, answer>>
  BY DEF LookBase, Goto, catalogVars, TypeOK
<1>2. answer'[w] = "none" /\ \A y \in Place : Same(w, y)' BY <1>1, StillSame
<1>3. Full(w)' = Full(w) BY <1>1 DEF Full
<1>4. Found(w)' BY <1>1 DEF CopyOK, PlaceOK, Found
<1>5. PlaceOK(w)' BY <1>1, <1>2, <1>3, <1>4 DEF CopyOK, PlaceOK, AfterLook
<1>6. KeptOK(w)' BY <1>1, <1>2 DEF KeptOK
<1>7. OneOK(w)' BY <1>1, <1>2 DEF OneOK
<1>8. ManyOK(w)'
  <2>1. Pending(w)' = Member BY <1>1 DEF Pending
  <2>2. ASSUME NEW m \in Member PROVE Same(w, <<req[w].src, m>>)' /\ Same(w, <<d, m>>)'
    BY <1>1, <1>2, MemberPlaces DEF Same
  <2> QED BY <1>1, <2>1, <2>2 DEF ManyOK
<1>9. DoneOK(w)' BY <1>2 DEF DoneOK
<1> QED BY <1>1, <1>5, <1>6, <1>7, <1>8, <1>9 DEF CopyOK, OpenOK

LEMMA CreateTargetOK ==
  ASSUME TypeOK, TextOK, NEW w \in Copier, CopyOK(w), CreateTarget(w)
  PROVE  CopyOK(w)' /\ OpenOK(w)' /\ (pc'[w] = "open" => TargetIsFree(w)')
<1> USE Places
<1> DEFINE d == req[w].dst
           x == <<d, Whole>>
<1>1. CASE Fail(w) BY <1>1, FailOK
<1>2. CASE ~Fail(w)
  <2>1. /\ pc[w] = "create"
        /\ org[d] = "none"
        /\ NewDataSet({w}, d, IF kind[w] = "PS" THEN "PS" ELSE "PO")
        /\ Goto(w, "check")
        /\ UNCHANGED <<kind, existed, todo, part, data, answer, hidden, req, before>>
    BY <1>2 DEF CreateTarget
  <2>2. pc'[w] = "check" BY <2>1 DEF Goto, TypeOK
  <2>3. /\ touched'[w] = touched[w]
        /\ text' = IF kind[w] = "PS" THEN [text EXCEPT ![x] = Empty] ELSE text
    BY <2>1 DEF NewDataSet, Catalog, TypeOK
  <2>4. x \in Place BY DEF Place, Part
  <2>5. \A y \in Place : y # x \/ kind[w] # "PS" => text'[y] = text[y]
    BY <2>3 DEF TypeOK
  <2>6. ~existed[w] BY <2>1 DEF CopyOK, PlaceOK
  <2>15. ASSUME NEW p \in Part
         PROVE  text[<<d, p>>] = Absent /\ (<<d, p>> \in touched[w] \/ before[w][<<d, p>>] = Absent)
    <3>1. <<d, p>> \in Place /\ <<d, p>>[1] = d BY DEF Place
    <3>2. text[<<d, p>>] = Absent BY <2>1, <3>1 DEF TextOK
    <3>3. Same(w, <<d, p>>) BY <2>1, <3>1 DEF CopyOK, KeptOK
    <3> QED BY <3>2, <3>3 DEF Same
  <2>7. kind[w] = "PS" => ~Full(w) /\ req[w].to = Whole /\ Target(w) = x
    BY <2>1 DEF CopyOK, PlaceOK, AfterLook, Full, Target
  <2>8. \A y \in Place : y # x \/ kind[w] # "PS" => (Same(w, y) => Same(w, y)')
    BY <2>1, <2>3, <2>5 DEF Same
  <2>9. \A y \in Place : May(w, y) => May(w, y)'
    BY <2>1 DEF May, Full, Replaces
  <2>10. PlaceOK(w)'
    <3>1. Found(w)' BY <2>1, <2>3 DEF CopyOK, PlaceOK, AfterLook, Found
    <3> QED BY <2>1, <2>2, <2>3, <2>15, <3>1 DEF CopyOK, PlaceOK, AfterLook, Full
  <2>11. KeptOK(w)'
    <3>1. kind[w] = "PS" => x \in touched[w] \/ before[w][x] = Absent
      BY <2>15 DEF Part
    <3>2. kind[w] = "PS" => Same(w, x)' \/ May(w, x)'
      BY <2>1, <2>3, <2>7, <3>1 DEF Same, May, Full
    <3>3. \A y \in Place : Same(w, y)' \/ May(w, y)'
      BY <2>1, <2>8, <2>9, <3>2 DEF CopyOK, KeptOK, AfterLook
    <3> QED BY <2>2, <3>3 DEF KeptOK
  <2>12. OneOK(w)'
    <3>1. SUFFICES ASSUME ~Full(w), NEW y \in Place
                   PROVE  Same(w, y)' \/ (y = Target(w)' /\ ~existed'[w])
      BY <2>1, <2>2 DEF OneOK, Full
    <3>2. Target(w)' = Target(w) BY <2>1 DEF Target, Full
    <3> QED BY <2>1, <2>6, <2>7, <2>8, <3>1, <3>2 DEF CopyOK, OneOK
  <2>13. ManyOK(w)'
    <3>1. SUFFICES ASSUME Full(w), req[w].src # req[w].dst \/ ~req[w].delete
                   PROVE  ManyOK(w)'
      BY <2>1 DEF ManyOK, Full
    <3>2. kind[w] # "PS" BY <3>1 DEF Full
    <3>3. text' = text /\ Pending(w) = Member /\ Pending(w)' = Member
      BY <2>1, <2>2, <2>3, <3>2 DEF Pending
    <3>4. \A m \in Member : Gone(w, m)'
      <4>1. SUFFICES ASSUME NEW m \in Member PROVE text[<<d, m>>] = Absent
        BY <2>1, <3>3 DEF Gone
      <4> QED BY <2>15 DEF Part
    <3>5. \A m \in Member : Same(w, <<req[w].src, m>>)' /\ (req[w].delete \/ Same(w, <<d, m>>)')
      BY <2>1, <2>8, <3>1, <3>2, <3>3, MemberPlaces DEF CopyOK, ManyOK, AfterLook
    <3> QED BY <2>1, <2>2, <3>3, <3>4, <3>5 DEF ManyOK
  <2>14. DoneOK(w)' BY <2>1 DEF CopyOK, PlaceOK, DoneOK, TypeOK
  <2> QED BY <2>2, <2>10, <2>11, <2>12, <2>13, <2>14 DEF CopyOK, OpenOK
<1> QED BY <1>1, <1>2


LEMMA NotEnded ==
  ASSUME TypeOK, NEW w \in Copier, CopyOK(w), pc[w] # "ended"
  PROVE  answer[w] = "none"
BY DEF CopyOK, PlaceOK, TypeOK

\* A copy's own writing: all but the place it writes to is as it was.
Writes(w, x) ==
  /\ \A y \in Place : y # x => text'[y] = text[y]
  /\ touched'[w] = touched[w] /\ hidden'[w] = hidden[w]
  /\ req'[w] = req[w] /\ before'[w] = before[w] /\ kind'[w] = kind[w]

LEMMA WriteMarks ==
  ASSUME TypeOK, NEW w \in Copier, NEW x, Writes(w, x)
  PROVE  /\ Full(w)' = Full(w) /\ Replaces(w)' = Replaces(w)
         /\ \A y \in Place : y # x => (Same(w, y) => Same(w, y)')
         /\ \A y : May(w, y) => May(w, y)'
         /\ \A m : Excused(w, m) => Excused(w, m)'
         /\ \A m \in Member : <<req[w].dst, m>> # x => (Gone(w, m) => Gone(w, m)')
         /\ \A m \in Member : <<req[w].dst, m>> # x => (Settled(w, m) => Settled(w, m)')
<1>1. Full(w)' = Full(w) /\ Replaces(w)' = Replaces(w) BY DEF Writes, Full, Replaces
<1>2. \A y \in Place : y # x => (Same(w, y) => Same(w, y)') BY DEF Writes, Same
<1>3. \A y : May(w, y) => May(w, y)' BY <1>1 DEF Writes, May
<1>4. \A m : Excused(w, m) => Excused(w, m)' BY DEF Writes, Excused
<1>5. ASSUME NEW m \in Member, <<req[w].dst, m>> # x
      PROVE  (Gone(w, m) => Gone(w, m)') /\ (Settled(w, m) => Settled(w, m)')
  <2>1. text'[<<req[w].dst, m>>] = text[<<req[w].dst, m>>] BY <1>5, MemberPlaces DEF Writes
  <2>2. Gone(w, m) => Gone(w, m)' BY <2>1 DEF Gone, Loose, Writes
  <2>3. CASE Excused(w, m) BY <1>4, <2>2, <2>3 DEF Settled
  <2>4. CASE ~Excused(w, m) BY <1>1, <2>1, <2>2, <2>4 DEF Settled, Writes
  <2> QED BY <2>3, <2>4
<1> QED BY <1>1, <1>2, <1>3, <1>4, <1>5

\* What a copy changes it may change, or somebody else has changed it before.
LEMMA OwnChanges ==
  ASSUME TypeOK, TextOK, NEW w \in Copier, CopyOK(w), CopyStep(w), pc[w] # "out",
         NEW x \in Place, text'[x] # text[x]
  PROVE  x \in touched'[w] \/ May(w, x)
<1> USE Places
<1>1. CreateTarget(w) \/ DeleteOne(w) \/ Open(w) \/ CopyText(w)
  BY DEF CopyStep, Begin, LookSource, LookTarget, LookBase, Check, ListTarget,
         ListSource, NextMember, AllCopied, catalogVars
<1>2. CASE CreateTarget(w)
  <2>1. /\ pc[w] = "create"
        /\ NewDataSet({w}, req[w].dst, IF kind[w] = "PS" THEN "PS" ELSE "PO")
    BY <1>2 DEF CreateTarget
  <2>2. touched'[w] = touched[w] /\ kind[w] = "PS" /\ x = <<req[w].dst, Whole>>
    BY <2>1 DEF NewDataSet, Catalog, TypeOK
  <2>3. ~Full(w) /\ req[w].to = Whole
    BY <2>1, <2>2 DEF CopyOK, PlaceOK, AfterLook, Full
  <2>4. x \in touched[w] \/ before[w][x] = Absent
    <3>1. org[req[w].dst] = "none" BY <1>2 DEF CreateTarget, NewDataSet, Catalog
    <3>2. text[x] = Absent BY <2>2, <3>1 DEF TextOK
    <3> QED BY <2>1, <3>2 DEF CopyOK, KeptOK, Same
  <2> QED BY <2>2, <2>3, <2>4 DEF May
<1>3. CASE DeleteOne(w)
  <2> DEFINE y == <<req[w].dst, First(todo[w])>>
  <2>1. pc[w] = "delete" /\ Catalog({w}, org, [text EXCEPT ![y] = Absent])
    BY <1>3 DEF DeleteOne
  <2>2. First(todo[w]) \in Member BY <2>1, FirstIsMember DEF CopyOK, PlaceOK
  <2>3. x = y BY <2>1 DEF Catalog, TypeOK
  <2>4. Full(w) /\ req[w].delete /\ First(todo[w]) # Whole
    BY <2>1, <2>2, DataSetAssumption DEF CopyOK, PlaceOK
  <2> QED BY <2>3, <2>4 DEF May, Replaces
<1>4. CASE Open(w) \/ CopyText(w)
  <2>1. /\ pc[w] \in {"open", "copy"}
        /\ \E o, t : Catalog({w}, o, [text EXCEPT ![Target(w)] = t])
    BY <1>4 DEF Open, CopyText
  <2>2. x = Target(w) /\ touched'[w] = touched[w] BY <2>1 DEF Catalog, TypeOK
  <2>3. Replaces(w) \/ before[w][x] = Absent \/ Loose(w, x)
    BY <2>1, <2>2 DEF CopyOK, KeptOK
  <2>4. Full(w) => part[w] # Whole
    BY <2>1, DataSetAssumption DEF CopyOK, PlaceOK
  <2>5. x[1] = req[w].dst /\ (IF Full(w) THEN x[2] # Whole ELSE x[2] = req[w].to)
    BY <2>2, <2>4 DEF Target
  <2> QED BY <2>2, <2>3, <2>5 DEF May, Loose
<1> QED BY <1>1, <1>2, <1>3, <1>4

LEMMA OwnKept ==
  ASSUME TypeOK, TextOK, NEW w \in Copier, CopyOK(w), CopyStep(w), pc[w] \in AfterLook,
         NEW z, Writes(w, z)
  PROVE  \A x \in Place : Same(w, x)' \/ May(w, x)'
<1> SUFFICES ASSUME NEW x \in Place PROVE Same(w, x)' \/ May(w, x)' OBVIOUS
<1>1. CASE text'[x] # text[x]
  <2>1. x \in touched'[w] \/ May(w, x) BY <1>1, OwnChanges DEF AfterLook
  <2> QED BY <2>1, WriteMarks DEF Same
<1>2. CASE text'[x] = text[x]
  <2>1. Same(w, x) \/ May(w, x) BY DEF CopyOK, KeptOK
  <2>2. Same(w, x) => Same(w, x)' BY <1>2 DEF Same, Writes
  <2> QED BY <2>1, <2>2, WriteMarks
<1> QED BY <1>1, <1>2

LEMMA CheckOK ==
  ASSUME TypeOK, TextOK, NEW w \in Copier, CopyOK(w), Check(w)
  PROVE  CopyOK(w)' /\ OpenOK(w)' /\ (pc'[w] = "open" => TargetIsFree(w)')
<1> USE Places
<1> DEFINE d == req[w].dst
           x == Target(w)
<1>1. CASE Fail(w) BY <1>1, FailOK
<1>2. CASE ~Fail(w)
  <2>1. PICK list \in Listing(d) :
          /\ ~(TargetThere(w, list) /\ ~req[w].replace /\ ~Full(w))
          /\ Goto(w, IF EmptiesFirst(w) THEN "empty" ELSE IF Full(w) THEN "list" ELSE "open")
          /\ Hide(w, IF Full(w) THEN {} ELSE LeftOut(d, list))
          /\ UNCHANGED <<kind, existed, todo, part, data, answer>>
    BY <1>2 DEF Check
  <2>2. pc[w] = "check" /\ UNCHANGED <<org, text, changes, touched, req, before>>
    BY DEF Check, catalogVars
  <2>3. hidden'[w] = hidden[w] \cup IF Full(w) THEN {} ELSE LeftOut(d, list)
    BY <2>1 DEF Hide, TypeOK
  <2>4. Looks(w) BY <2>1, <2>2, <2>3 DEF Looks
  <2>5. /\ pc'[w] = IF EmptiesFirst(w) THEN "empty" ELSE IF Full(w) THEN "list" ELSE "open"
        /\ answer'[w] = "none"
    BY <2>1, <2>2, NotEnded DEF Goto, TypeOK
  <2>6. PlaceOK(w)'
    BY <2>1, <2>2, <2>4, <2>5, LookMarks DEF CopyOK, PlaceOK, AfterLook, EmptiesFirst, Found
  <2>7. \A y \in Place : Same(w, y)' \/ May(w, y)'
    BY <2>2, <2>4, LookMarks DEF CopyOK, KeptOK, AfterLook
  <2>8. DoneOK(w)' BY <2>5 DEF DoneOK
  <2>9. OpenOK(w)' BY <2>5 DEF OpenOK
  <2>10. CASE Full(w)
    <3>1. pc'[w] \in {"empty", "list"} BY <2>5, <2>10
    <3>2. KeptOK(w)' BY <2>7, <3>1 DEF KeptOK
    <3>3. OneOK(w)' BY <3>1 DEF OneOK
    <3>4. ManyOK(w)'
      <4>1. SUFFICES ASSUME req[w].src # d \/ ~req[w].delete PROVE ManyOK(w)'
        BY <2>2 DEF ManyOK
      <4>2. Pending(w) = Member /\ Pending(w)' = Member BY <2>2, <3>1 DEF Pending
      <4>3. ASSUME NEW m \in Member
            PROVE  Same(w, <<req[w].src, m>>)' /\ (req[w].delete \/ Same(w, <<d, m>>)')
        BY <2>2, <2>4, <2>10, <4>1, <4>2, LookMarks DEF CopyOK, ManyOK, AfterLook, Same
      <4>4. pc'[w] = "list" /\ req[w].delete => \A m \in Member : Gone(w, m)'
        BY <2>2, <2>4, <2>5, <2>10, <4>1, LookMarks DEF CopyOK, ManyOK, EmptiesFirst
      <4> QED BY <2>2, <3>1, <4>2, <4>3, <4>4 DEF ManyOK
    <3> QED BY <2>6, <2>8, <2>9, <3>1, <3>2, <3>3, <3>4 DEF CopyOK
  <2>11. CASE ~Full(w)
    <3>1. pc'[w] = "open" BY <2>5, <2>11 DEF EmptiesFirst
    <3>2. Target(w)' = x /\ Replaces(w)' = Replaces(w) /\ x = <<d, req[w].to>> /\ ~Full(w)'
      BY <2>1, <2>2, <2>11 DEF Target, Full, Replaces
    <3>3. Replaces(w) = req[w].replace BY <2>11 DEF Replaces
    <3>4. req[w].replace => TargetIsFree(w)' BY <3>2, <3>3 DEF TargetIsFree
    <3>5. ASSUME ~req[w].replace
          PROVE  TargetIsFree(w)' /\ (before[w][x] = Absent \/ Loose(w, x)')
      <4>1. ~TargetThere(w, list) BY <2>1, <2>11, <3>5
      <4>2. ~existed[w] => x \in touched[w] \/ before[w][x] = Absent
        BY <2>2, <3>2 DEF CopyOK, PlaceOK, AfterLook
      <4>3. CASE req[w].to = Whole
        <5>1. ~existed[w] BY <4>1, <4>3 DEF TargetThere
        <5>2. TargetIsFree(w)' BY <2>1, <3>2, <4>3, <5>1 DEF TargetIsFree
        <5> QED BY <2>2, <3>2, <4>2, <5>1, <5>2 DEF Loose
      <4>4. CASE req[w].to # Whole
        <5>1. req[w].to \in Member \ list BY <4>1, <4>4 DEF TargetThere, Part
        <5>2. text[x] = Absent \/ x \in LeftOut(d, list)
          BY <3>2, <5>1 DEF LeftOut, Present
        <5>3. text[x] = Absent \/ x \in hidden'[w] BY <2>3, <2>11, <5>2
        <5>4. TargetIsFree(w)' BY <2>2, <3>2, <5>3 DEF TargetIsFree
        <5>5. Same(w, x) \/ ~existed[w] BY <2>2, <2>11 DEF CopyOK, OneOK
        <5> QED BY <2>2, <3>2, <4>2, <5>3, <5>4, <5>5 DEF Loose, Same
      <4> QED BY <4>3, <4>4
    <3>6. KeptOK(w)'
      <4>1. Replaces(w) \/ before[w][x] = Absent \/ Loose(w, x)' BY <3>3, <3>5
      <4> QED BY <2>2, <2>7, <3>1, <3>2, <4>1 DEF KeptOK, Loose
    <3>7. OneOK(w)'
      <4>1. \A y \in Place : Same(w, y)' \/ (y = x /\ ~existed[w])
        BY <2>2, <2>4, <2>11, LookMarks DEF CopyOK, OneOK
      <4> QED BY <2>1, <3>1, <3>2, <4>1 DEF OneOK
    <3>8. ManyOK(w)' BY <3>2 DEF ManyOK
    <3>9. TargetIsFree(w)' BY <3>2, <3>3, <3>4, <3>5 DEF TargetIsFree
    <3> QED BY <2>6, <2>8, <2>9, <3>6, <3>7, <3>8, <3>9 DEF CopyOK
  <2> QED BY <2>10, <2>11
<1> QED BY <1>1, <1>2

LEMMA ListTargetOK ==
  ASSUME TypeOK, NEW w \in Copier, CopyOK(w), ListTarget(w)
  PROVE  CopyOK(w)' /\ OpenOK(w)' /\ (pc'[w] = "open" => TargetIsFree(w)')
<1> USE Places
<1> DEFINE d == req[w].dst
<1>1. PICK list \in Listing(d) :
        /\ todo' = [todo EXCEPT ![w] = list]
        /\ Hide(w, LeftOut(d, list))
        /\ Goto(w, IF list = {} THEN "list" ELSE "delete")
  BY DEF ListTarget
<1>2. /\ pc[w] = "empty" /\ Full(w) /\ req[w].delete
      /\ UNCHANGED <<org, text, changes, touched, req, kind, existed, part, data, answer, before>>
  BY DEF ListTarget, catalogVars, CopyOK, PlaceOK
<1>3. /\ pc'[w] = IF list = {} THEN "list" ELSE "delete"
      /\ todo'[w] = list /\ hidden'[w] = hidden[w] \cup LeftOut(d, list)
      /\ answer'[w] = "none"
  BY <1>1, <1>2, NotEnded DEF Goto, Hide, TypeOK
<1>4. Looks(w) BY <1>2, <1>3 DEF Looks
<1>5. Full(w)' BY <1>2, <1>4, LookMarks
<1>6. PlaceOK(w)' BY <1>2, <1>3, <1>5 DEF CopyOK, PlaceOK, AfterLook, Found
<1>7. KeptOK(w)' BY <1>2, <1>3, <1>4, LookMarks DEF CopyOK, KeptOK, AfterLook
<1>8. OneOK(w)' BY <1>5 DEF OneOK
<1>9. ManyOK(w)'
  <2>1. SUFFICES ASSUME req[w].src # d PROVE ManyOK(w)' BY <1>2 DEF ManyOK
  <2>2. Pending(w) = Member /\ Pending(w)' = Member BY <1>2, <1>3 DEF Pending
  <2>3. \A m \in Member : Same(w, <<req[w].src, m>>)'
    BY <1>2, <1>4, <2>1, <2>2, LookMarks DEF CopyOK, ManyOK, AfterLook, Same
  <2>4. \A m \in Member \ list : Gone(w, m)'
    BY <1>2, <1>3 DEF Gone, Loose, LeftOut, Present
  <2> QED BY <1>2, <1>3, <2>2, <2>3, <2>4 DEF ManyOK
<1>10. DoneOK(w)' BY <1>3 DEF DoneOK
<1> QED BY <1>3, <1>6, <1>7, <1>8, <1>9, <1>10 DEF CopyOK, OpenOK

LEMMA DeleteOneOK ==
  ASSUME TypeOK, TextOK, NEW w \in Copier, CopyOK(w), DeleteOne(w)
  PROVE  CopyOK(w)' /\ OpenOK(w)' /\ (pc'[w] = "open" => TargetIsFree(w)')
<1> USE Places
<1> DEFINE d == req[w].dst
           m == First(todo[w])
           x == <<d, m>>
<1>1. CASE Fail(w) BY <1>1, FailOK
<1>2. CASE ~Fail(w)
  <2>1. /\ Catalog({w}, org, [text EXCEPT ![x] = Absent])
        /\ todo' = [todo EXCEPT ![w] = @ \ {m}]
        /\ Goto(w, IF todo'[w] = {} THEN "list" ELSE "delete")
        /\ UNCHANGED <<changes, req, kind, existed, part, data, answer, before, hidden>>
    BY <1>2 DEF DeleteOne
  <2>2. pc[w] = "delete" /\ Full(w) /\ req[w].delete /\ m \in Member
    BY FirstIsMember DEF DeleteOne, CopyOK, PlaceOK
  <2>3. /\ text' = [text EXCEPT ![x] = Absent] /\ touched'[w] = touched[w]
        /\ todo'[w] = todo[w] \ {m}
        /\ pc'[w] = IF todo'[w] = {} THEN "list" ELSE "delete"
        /\ answer'[w] = "none"
    BY <2>1, <2>2, NotEnded DEF Catalog, Goto, TypeOK
  <2>4. x \in Place /\ text'[x] = Absent BY <2>2, <2>3, MemberPlaces DEF TypeOK
  <2>5. Writes(w, x) BY <2>1, <2>3, <2>4 DEF Writes, TypeOK
  <2>6. Full(w)' BY <2>2, <2>5, WriteMarks
  <2>7. PlaceOK(w)' BY <2>1, <2>2, <2>3, <2>6 DEF CopyOK, PlaceOK, AfterLook, Found
  <2>8. KeptOK(w)'
    <3>1. CopyStep(w) BY DEF CopyStep
    <3>2. \A y \in Place : Same(w, y)' \/ May(w, y)'
      BY <2>2, <2>5, <3>1, OwnKept DEF AfterLook
    <3> QED BY <2>3, <3>2 DEF KeptOK
  <2>9. OneOK(w)' BY <2>6 DEF OneOK
  <2>10. ManyOK(w)'
    <3>1. SUFFICES ASSUME req[w].src # d PROVE ManyOK(w)' BY <2>1, <2>2 DEF ManyOK
    <3>2. Pending(w) = Member /\ Pending(w)' = Member BY <2>2, <2>3 DEF Pending
    <3>3. ASSUME NEW n \in Member PROVE Same(w, <<req[w].src, n>>)'
      <4>1. <<req[w].src, n>> \in Place /\ <<req[w].src, n>> # x BY <3>1, MemberPlaces
      <4>2. Same(w, <<req[w].src, n>>)
        BY <2>2, <3>1, <3>2 DEF CopyOK, ManyOK, AfterLook
      <4> QED BY <2>1, <2>5, <4>1, <4>2 DEF Same, Writes
    <3>4. ASSUME NEW n \in Member \ todo'[w] PROVE Gone(w, n)'
      <4>1. CASE n = m BY <2>1, <2>4, <4>1 DEF Gone
      <4>2. CASE n # m
        <5>1. n \in Member \ todo[w] BY <2>3, <4>2
        <5>2. Gone(w, n) BY <2>2, <3>1, <5>1 DEF CopyOK, ManyOK
        <5> QED BY <2>5, <4>2, <5>2, WriteMarks
      <4> QED BY <4>1, <4>2
    <3> QED BY <2>1, <2>2, <2>3, <3>2, <3>3, <3>4 DEF ManyOK
  <2>11. DoneOK(w)' BY <2>3 DEF DoneOK
  <2> QED BY <2>3, <2>7, <2>8, <2>9, <2>10, <2>11 DEF CopyOK, OpenOK
<1> QED BY <1>1, <1>2

LEMMA ListSourceOK ==
  ASSUME TypeOK, NEW w \in Copier, CopyOK(w), ListSource(w)
  PROVE  CopyOK(w)' /\ OpenOK(w)' /\ (pc'[w] = "open" => TargetIsFree(w)')
<1> USE Places
<1> DEFINE s == req[w].src
           d == req[w].dst
<1>1. PICK list \in Listing(s) :
        /\ todo' = [todo EXCEPT ![w] = list]
        /\ Hide(w, LeftOut(s, list))
  BY DEF ListSource
<1>2. /\ pc[w] = "list" /\ Full(w)
      /\ UNCHANGED <<org, text, changes, touched, req, kind, existed, part, data, answer, before>>
  BY DEF ListSource, catalogVars, CopyOK, PlaceOK
<1>3. /\ pc'[w] = "next"
      /\ todo'[w] = list /\ hidden'[w] = hidden[w] \cup LeftOut(s, list)
      /\ answer'[w] = "none"
  BY <1>1, <1>2, NotEnded DEF ListSource, Goto, Hide, TypeOK
<1>4. Looks(w) BY <1>2, <1>3 DEF Looks
<1>5. Full(w)' /\ Replaces(w)' = Replaces(w) BY <1>2, <1>4, LookMarks
<1>6. PlaceOK(w)' BY <1>2, <1>3, <1>5 DEF CopyOK, PlaceOK, AfterLook, Found
<1>7. KeptOK(w)' BY <1>2, <1>3, <1>4, LookMarks DEF CopyOK, KeptOK, AfterLook
<1>8. OneOK(w)' BY <1>5 DEF OneOK
<1>9. ManyOK(w)'
  <2>1. SUFFICES ASSUME s # d \/ ~req[w].delete PROVE ManyOK(w)' BY <1>2 DEF ManyOK
  <2>2. Pending(w) = Member /\ Pending(w)' = list /\ list \subseteq Member
    BY <1>2, <1>3, Listed DEF Pending
  <2>3. ASSUME NEW m \in Member PROVE Same(w, <<s, m>>) /\ (req[w].delete \/ Same(w, <<d, m>>))
    BY <1>2, <2>1, <2>2 DEF CopyOK, ManyOK, AfterLook
  <2>4. ASSUME NEW m \in Member PROVE Same(w, <<s, m>>)' /\ (req[w].delete \/ Same(w, <<d, m>>)')
    BY <1>2, <2>3, <2>4 DEF Same
  <2>5. ASSUME NEW m \in list
        PROVE  Excused(w, m)' \/ before[w][<<s, m>>] # Absent
    <3>1. text[<<s, m>>] # Absent BY Listed
    <3>2. m \in Member BY <2>2
    <3> QED BY <1>2, <2>3, <3>1, <3>2 DEF Same, Excused
  <2>6. ASSUME NEW m \in Member \ list PROVE Settled(w, m)'
    <3>1. CASE text[<<s, m>>] # Absent
      BY <1>2, <1>3, <3>1 DEF LeftOut, Present, Settled, Excused
    <3>2. CASE text[<<s, m>>] = Absent
      <4>1. <<s, m>> \in touched[w] \/ before[w][<<s, m>>] = Absent
        BY <2>3, <3>2 DEF Same
      <4>2. req[w].delete => Gone(w, m) BY <1>2, <2>1 DEF CopyOK, ManyOK
      <4>3. req[w].delete => Excused(w, m)' \/ text[<<d, m>>] = Absent
        BY <1>2, <1>3, <4>2 DEF Gone, Loose, Excused
      <4>4. Excused(w, m)' \/ before[w][<<s, m>>] = Absent BY <1>2, <4>1 DEF Excused
      <4> QED BY <1>2, <4>3, <4>4 DEF Settled
    <3> QED BY <3>1, <3>2
  <2> QED BY <1>2, <1>3, <2>2, <2>4, <2>5, <2>6 DEF ManyOK
<1>10. DoneOK(w)' BY <1>3 DEF DoneOK
<1> QED BY <1>3, <1>6, <1>7, <1>8, <1>9, <1>10 DEF CopyOK, OpenOK

LEMMA NextMemberOK ==
  ASSUME TypeOK, NEW w \in Copier, CopyOK(w), NextMember(w)
  PROVE  CopyOK(w)' /\ OpenOK(w)' /\ (pc'[w] = "open" => TargetIsFree(w)')
<1> USE Places
<1> DEFINE s == req[w].src
           d == req[w].dst
<1>0. PICK m \in todo[w] : m = First(todo[w])
  BY FirstIsMember DEF NextMember
<1> DEFINE x == <<d, m>>
<1>1. PICK list \in Listing(d) :
        IF Skips(w, m, list)
        THEN UNCHANGED <<pc, part, hidden>>
        ELSE /\ Goto(w, "open")
             /\ part' = [part EXCEPT ![w] = m]
             /\ Hide(w, IF Replaces(w) THEN {} ELSE LeftOut(d, list))
  BY <1>0 DEF NextMember
<1>2. /\ pc[w] = "next" /\ Full(w) /\ m \in todo[w] /\ m \in Member
      /\ todo' = [todo EXCEPT ![w] = @ \ {m}]
      /\ UNCHANGED <<org, text, changes, touched, req, kind, existed, data, answer, before>>
  BY <1>0 DEF NextMember, catalogVars, CopyOK, PlaceOK
<1>3. todo'[w] = todo[w] \ {m} /\ answer'[w] = "none" BY <1>2, NotEnded DEF TypeOK
<1>4. x \in Place /\ <<s, m>> \in Place BY <1>2, MemberPlaces
<1>5. DoneOK(w)' BY <1>3 DEF DoneOK
<1>6. hidden[w] \subseteq hidden'[w]
  <2>1. CASE Skips(w, m, list) BY <1>1, <2>1
  <2>2. CASE ~Skips(w, m, list)
    <3>1. hidden \in [Copier -> SUBSET Place] BY DEF TypeOK
    <3>2. PICK places : Hide(w, places) BY <1>1, <2>2
    <3> QED BY <3>1, <3>2 DEF Hide
  <2> QED BY <2>1, <2>2
<1>7. Looks(w) BY <1>2, <1>6 DEF Looks
<1>8. Full(w)' /\ Replaces(w)' = Replaces(w) BY <1>2, <1>7, LookMarks
<1>9. OneOK(w)' BY <1>8 DEF OneOK
<1>10. \A y \in Place : Same(w, y)' \/ May(w, y)'
  BY <1>2, <1>7, LookMarks DEF CopyOK, KeptOK, AfterLook
<1>11. ~req[w].delete => Same(w, x)
  BY <1>2 DEF CopyOK, ManyOK, Pending, AfterLook
<1>12. ~Replaces(w) => ~req[w].delete BY <1>2 DEF Replaces
<1>13. CASE Skips(w, m, list)
  <2>1. pc'[w] = "next" /\ ~Replaces(w) /\ m \in list
    BY <1>1, <1>2, <1>13 DEF Skips
  <2>2. PlaceOK(w)' BY <1>2, <1>3, <1>8, <2>1 DEF CopyOK, PlaceOK, AfterLook, Found
  <2>3. KeptOK(w)' BY <1>10, <2>1 DEF KeptOK
  <2>4. ManyOK(w)'
    <3>1. SUFFICES ASSUME s # d \/ ~req[w].delete PROVE ManyOK(w)' BY <1>2 DEF ManyOK
    <3>2. Pending(w) = todo[w] /\ Pending(w)' = todo[w] \ {m} BY <1>2, <1>3, <2>1 DEF Pending
    <3>3. \A n \in todo[w] : Same(w, <<s, n>>)' /\ (req[w].delete \/ Same(w, <<d, n>>)')
      BY <1>2, <3>1, <3>2 DEF CopyOK, ManyOK, AfterLook, Same
    <3>4. \A n \in todo[w] : Excused(w, n)' \/ before[w][<<s, n>>] # Absent
      BY <1>2, <1>7, <3>1, <3>2, LookMarks DEF CopyOK, ManyOK
    <3>5. Settled(w, m)'
      <4>1. text[x] # Absent BY <2>1, Listed
      <4>2. x \in touched[w] \/ before[w][x] = text[x] BY <1>11, <1>12, <2>1 DEF Same
      <4>3. x \in touched[w] => Excused(w, m)' BY <1>2 DEF Excused
      <4> QED BY <1>2, <1>8, <2>1, <3>4, <4>1, <4>2, <4>3 DEF Settled
    <3>6. \A n \in Member \ todo[w] : Settled(w, n)'
      BY <1>2, <1>7, <3>1, <3>2, LookMarks DEF CopyOK, ManyOK
    <3> QED BY <1>2, <2>1, <3>2, <3>3, <3>4, <3>5, <3>6 DEF ManyOK
  <2> QED BY <1>5, <1>9, <2>1, <2>2, <2>3, <2>4 DEF CopyOK, OpenOK
<1>14. CASE ~Skips(w, m, list)
  <2>1. /\ pc'[w] = "open" /\ part'[w] = m
        /\ hidden'[w] = hidden[w] \cup IF Replaces(w) THEN {} ELSE LeftOut(d, list)
    BY <1>1, <1>14 DEF Goto, Hide, TypeOK
  <2>2. Target(w)' = x BY <1>2, <1>8, <2>1 DEF Target
  <2>3. PlaceOK(w)' BY <1>2, <1>3, <1>8, <2>1 DEF CopyOK, PlaceOK, AfterLook, Found
  <2>4. ~Replaces(w) => text[x] = Absent \/ x \in hidden'[w]
    BY <1>2, <1>14, <2>1 DEF Skips, LeftOut, Present
  <2>5. ~Replaces(w) => before[w][x] = Absent \/ x \in touched[w] \cup hidden'[w]
    BY <1>11, <1>12, <2>4 DEF Same
  <2>6. KeptOK(w)' BY <1>2, <1>8, <1>10, <2>1, <2>2, <2>5 DEF KeptOK, Loose
  <2>7. TargetIsFree(w)' BY <1>2, <1>8, <2>2, <2>4 DEF TargetIsFree
  <2>8. ManyOK(w)'
    <3>1. SUFFICES ASSUME s # d \/ ~req[w].delete PROVE ManyOK(w)' BY <1>2 DEF ManyOK
    <3>2. Pending(w) = todo[w] /\ Pending(w)' = todo[w] BY <1>2, <1>3, <2>1 DEF Pending
    <3>3. \A n \in todo[w] : Same(w, <<s, n>>)' /\ (req[w].delete \/ Same(w, <<d, n>>)')
      BY <1>2, <3>1, <3>2 DEF CopyOK, ManyOK, AfterLook, Same
    <3>4. \A n \in todo[w] : Excused(w, n)' \/ before[w][<<s, n>>] # Absent
      BY <1>2, <1>7, <3>1, <3>2, LookMarks DEF CopyOK, ManyOK
    <3>5. \A n \in Member \ todo[w] : Settled(w, n)'
      BY <1>2, <1>7, <3>1, <3>2, LookMarks DEF CopyOK, ManyOK
    <3> QED BY <1>2, <2>1, <3>2, <3>3, <3>4, <3>5 DEF ManyOK
  <2> QED BY <1>5, <1>9, <2>1, <2>3, <2>6, <2>7, <2>8 DEF CopyOK, OpenOK
<1> QED BY <1>13, <1>14

LEMMA AllCopiedOK ==
  ASSUME TypeOK, NEW w \in Copier, CopyOK(w), AllCopied(w)
  PROVE  CopyOK(w)' /\ OpenOK(w)' /\ (pc'[w] = "open" => TargetIsFree(w)')
<1>1. /\ pc[w] = "next" /\ pc'[w] = "ended" /\ todo[w] = {} /\ Full(w)
      /\ UNCHANGED <<text, touched, hidden, req, kind, before>>
  BY DEF AllCopied, Finish, Goto, TypeOK, catalogVars, CopyOK, PlaceOK
<1>2. Looks(w) BY <1>1 DEF Looks
<1>3. DoneOK(w)'
  <2>1. SUFFICES ASSUME req[w].src # req[w].dst \/ ~req[w].delete
                 PROVE  \A m \in Member : Settled(w, m)'
    BY <1>1, <1>2, LookMarks DEF DoneOK
  <2>2. Pending(w) = {} BY <1>1 DEF Pending
  <2>3. \A m \in Member : Settled(w, m) BY <1>1, <2>1, <2>2 DEF CopyOK, ManyOK
  <2> QED BY <1>2, <2>3, LookMarks
<1> QED BY <1>1, <1>3 DEF CopyOK, OpenOK, PlaceOK, KeptOK, OneOK, ManyOK, AfterLook

LEMMA OpenStepOK ==
  ASSUME TypeOK, TextOK, NEW w \in Copier, CopyOK(w), Open(w)
  PROVE  CopyOK(w)' /\ OpenOK(w)' /\ (pc'[w] = "open" => TargetIsFree(w)')
<1> USE Places
<1> DEFINE s == req[w].src
           d == req[w].dst
           x == Target(w)
<1>1. CASE Fail(w) BY <1>1, FailOK
<1>2. CASE ~Fail(w)
  <2>1. /\ CanOpen(w)
        /\ IF x[2] = Whole THEN Catalog({w}, [org EXCEPT ![x[1]] = "PS"], [text EXCEPT ![x] = Cut])
                           ELSE UNCHANGED <<org, text, touched>>
        /\ Goto(w, "copy")
        /\ UNCHANGED <<kind, existed, todo, part, answer, hidden, req, before>>
    BY <1>2 DEF Open
  <2>2. PICK t \in {text[Source(w)]} \cup Emptied(w) : data' = [data EXCEPT ![w] = t]
    BY <1>2 DEF Open
  <2>3. /\ pc[w] = "open" /\ pc'[w] = "copy" /\ data'[w] = t /\ answer'[w] = "none"
    BY <2>1, <2>2, NotEnded DEF Open, Goto, TypeOK
  <2>4. x[1] = d /\ x[1] \in Dsn /\ (x[2] # Whole => org' = org /\ text' = text)
    BY <2>1 DEF Target
  <2>5. touched'[w] = touched[w] /\ \A y \in Place : y # x => text'[y] = text[y]
    BY <2>1 DEF Catalog, TypeOK
  <2>6. Writes(w, x) BY <2>1, <2>5 DEF Writes
  <2>7. /\ Full(w)' = Full(w) /\ Replaces(w)' = Replaces(w) /\ Target(w)' = x
        /\ Source(w)' = Source(w)
    BY <2>1 DEF Full, Replaces, Target, Source
  <2>8. Full(w) => part[w] \in Member \ todo[w] /\ part[w] # Whole
    BY <2>3, DataSetAssumption DEF CopyOK, PlaceOK
  <2>9. PlaceOK(w)' BY <2>1, <2>3, <2>5, <2>7, <2>8 DEF CopyOK, PlaceOK, AfterLook, Found
  <2>10. KeptOK(w)'
    <3>1. CopyStep(w) BY DEF CopyStep
    <3>2. \A y \in Place : Same(w, y)' \/ May(w, y)'
      BY <2>3, <2>6, <3>1, OwnKept DEF AfterLook
    <3>3. Replaces(w) \/ before[w][x] = Absent \/ x \in touched[w] \cup hidden[w]
      BY <2>3 DEF CopyOK, KeptOK, Loose
    <3> QED BY <2>1, <2>3, <2>5, <2>7, <3>2, <3>3 DEF KeptOK, Loose
  <2>11. OneOK(w)'
    <3>1. SUFFICES ASSUME ~Full(w)
                   PROVE  \/ Source(w) \in touched[w]
                          \/ t = before[w][Source(w)]
                          \/ t = Empty /\ s = d /\ req[w].to = Whole
      BY <2>1, <2>3, <2>5, <2>7 DEF OneOK
    <3>2. Source(w) = <<s, req[w].from>> /\ x = <<d, req[w].to>>
      BY <3>1 DEF Source, Target
    <3>3. Same(w, Source(w))
      <4>1. Same(w, Source(w)) \/ (Source(w) = x /\ ~existed[w])
        BY <2>3, <3>1 DEF CopyOK, OneOK
      <4>2. Source(w) = x /\ ~existed[w] => x \in touched[w]
        <5>1. SUFFICES ASSUME Source(w) = x, ~existed[w] PROVE x \in touched[w] OBVIOUS
        <5>2. s = d /\ req[w].from = req[w].to BY <3>2, <5>1
        <5>3. x \in touched[w] \/ before[w][x] = Absent
          BY <2>3, <3>2, <5>1 DEF CopyOK, PlaceOK, AfterLook
        <5>4. kind[w] # "none" /\ kind[w] # "PDS" /\ (kind[w] = "PS" <=> req[w].to = Whole)
          BY <2>3, <3>1 DEF CopyOK, PlaceOK, AfterLook, Full
        <5>5. x \in touched[w] \/ before[w][x] # Absent
          BY <2>3, <3>2, <5>2, <5>4 DEF CopyOK, PlaceOK, AfterLook, Found
        <5> QED BY <5>3, <5>5
      <4> QED BY <4>1, <4>2 DEF Same
    <3> QED BY <3>2, <3>3 DEF Same, Emptied
  <2>12. ManyOK(w)'
    <3>1. SUFFICES ASSUME Full(w), s # d \/ ~req[w].delete PROVE ManyOK(w)'
      BY <2>1, <2>7 DEF ManyOK
    <3>2. x = <<d, part[w]>> /\ Source(w) = <<s, part[w]>> /\ x[2] # Whole
      BY <2>8, <3>1 DEF Source, Target
    <3>3. Looks(w) BY <2>1, <2>4, <2>5, <3>2 DEF Looks
    <3>4. Pending(w) = todo[w] \cup {part[w]} /\ Pending(w)' = todo[w] \cup {part[w]}
      BY <2>1, <2>3 DEF Pending
    <3>5. \A n \in Pending(w) : Same(w, <<s, n>>)' /\ (req[w].delete \/ Same(w, <<d, n>>)')
      BY <2>1, <2>3, <2>4, <2>5, <3>1, <3>2 DEF CopyOK, ManyOK, AfterLook, Same
    <3>6. \A n \in Pending(w) : Excused(w, n)' \/ before[w][<<s, n>>] # Absent
      BY <2>3, <3>1, <3>3, LookMarks DEF CopyOK, ManyOK
    <3>7. \A n \in Member \ Pending(w) : Settled(w, n)'
      BY <2>3, <3>1, <3>3, LookMarks DEF CopyOK, ManyOK
    <3>8. Excused(w, part[w]) \/ data'[w] = before[w][<<s, part[w]>>]
      <4>1. t = text[Source(w)] BY <3>2 DEF Emptied
      <4>2. Same(w, Source(w)) BY <2>3, <3>1, <3>2, <3>4 DEF CopyOK, ManyOK, AfterLook
      <4> QED BY <2>3, <3>2, <4>1, <4>2 DEF Same, Excused
    <3>9. part'[w] = part[w] BY <2>1
    <3>10. Excused(w, part[w])' \/ data'[w] = before[w][<<s, part[w]>>]
      BY <2>1, <2>5, <3>8, <3>9 DEF Excused
    <3> QED BY <2>1, <2>3, <3>4, <3>5, <3>6, <3>7, <3>10 DEF ManyOK
  <2>13. DoneOK(w)' BY <2>3 DEF DoneOK
  <2>14. OpenOK(w)'
    <3>1. data'[w] # Absent
      BY <2>1, <2>3, DataSetAssumption DEF CanOpen, Emptied
    <3>2. org'[d] = IF x[2] = Whole THEN "PS" ELSE "PO"
      <4>1. CASE x[2] = Whole BY <2>1, <2>4, <4>1 DEF Catalog, TypeOK
      <4>2. CASE x[2] # Whole BY <2>1, <2>4, <4>2 DEF CanOpen
      <4> QED BY <4>1, <4>2
    <3> QED BY <2>1, <2>7, <3>1, <3>2 DEF OpenOK
  <2> QED BY <2>3, <2>9, <2>10, <2>11, <2>12, <2>13, <2>14 DEF CopyOK
<1> QED BY <1>1, <1>2

LEMMA CopyTextOK ==
  ASSUME TypeOK, TextOK, NEW w \in Copier, CopyOK(w), CopyText(w)
  PROVE  CopyOK(w)' /\ OpenOK(w)' /\ (pc'[w] = "open" => TargetIsFree(w)')
<1> USE Places
<1> DEFINE s == req[w].src
           d == req[w].dst
           x == Target(w)
<1>1. CASE Fail(w) BY <1>1, FailOK
<1>2. CASE ~Fail(w)
  <2>1. PICK t \in {data[w], Cut} : Catalog({w}, org, [text EXCEPT ![x] = t])
    BY <1>2 DEF CopyText
  <2>2. /\ IF Full(w) THEN Goto(w, "next") /\ UNCHANGED answer ELSE Finish(w, "done")
        /\ UNCHANGED <<kind, existed, todo, part, hidden, req, before>>
    BY <1>2 DEF CopyText
  <2>3. /\ pc[w] = "copy" /\ text' = [text EXCEPT ![x] = t] /\ touched'[w] = touched[w]
        /\ answer[w] = "none"
    BY <2>1, NotEnded DEF CopyText, Catalog, TypeOK
  <2>4. Writes(w, x) BY <2>2, <2>3 DEF Writes, TypeOK
  <2>5. text'[x] = t BY <2>3 DEF TypeOK
  <2>6. /\ Full(w)' = Full(w) /\ Replaces(w)' = Replaces(w) /\ Target(w)' = x
        /\ Source(w)' = Source(w)
    BY <2>2 DEF Full, Replaces, Target, Source
  <2>7. CASE Full(w)
    <3>1. pc'[w] = "next" /\ answer'[w] = "none" BY <2>2, <2>3, <2>7 DEF Goto, TypeOK
    <3>2. part[w] \in Member \ todo[w] BY <2>3, <2>7 DEF CopyOK, PlaceOK
    <3>3. x = <<d, part[w]>> BY <2>7 DEF Target
    <3>4. PlaceOK(w)' BY <2>2, <2>3, <2>6, <3>1, <2>7 DEF CopyOK, PlaceOK, AfterLook, Found
    <3>5. KeptOK(w)'
      <4>1. CopyStep(w) BY DEF CopyStep
      <4>2. \A y \in Place : Same(w, y)' \/ May(w, y)'
        BY <2>3, <2>4, <4>1, OwnKept DEF AfterLook
      <4> QED BY <3>1, <4>2 DEF KeptOK
    <3>6. ManyOK(w)'
      <4>1. SUFFICES ASSUME s # d \/ ~req[w].delete PROVE ManyOK(w)' BY <2>2 DEF ManyOK
      <4>2. Pending(w) = todo[w] \cup {part[w]} /\ Pending(w)' = todo[w]
        BY <2>2, <2>3, <3>1 DEF Pending
      <4>3. ASSUME NEW n \in todo[w]
            PROVE  Same(w, <<s, n>>)' /\ (req[w].delete \/ Same(w, <<d, n>>)')
        <5>1. n # part[w] /\ n \in Member BY <3>2
        <5>2. /\ <<s, n>> \in Place /\ <<s, n>> # x
              /\ <<d, n>> \in Place /\ <<d, n>> # x
          BY <3>3, <5>1, MemberPlaces
        <5>3. Same(w, <<s, n>>) /\ (req[w].delete \/ Same(w, <<d, n>>))
          BY <2>3, <2>7, <4>1, <4>2 DEF CopyOK, ManyOK, AfterLook
        <5> QED BY <2>2, <2>4, <5>2, <5>3 DEF Same, Writes
      <4>4. \A n \in Pending(w) : Excused(w, n)' \/ before[w][<<s, n>>] # Absent
        BY <2>3, <2>4, <2>7, <4>1, WriteMarks DEF CopyOK, ManyOK
      <4>5. ASSUME NEW n \in Member \ todo[w] PROVE Settled(w, n)'
        <5>1. CASE n = part[w]
          <6>1. Excused(w, n)' \/ before[w][<<s, n>>] # Absent BY <4>2, <4>4, <5>1
          <6>2. Excused(w, n) \/ data[w] = before[w][<<s, n>>]
            BY <2>3, <2>7, <4>1, <5>1 DEF CopyOK, ManyOK
          <6>3. Excused(w, n) => Excused(w, n)' BY <2>4, WriteMarks
          <6>4. text'[<<d, n>>] \in {data[w], Cut} BY <2>5, <3>3, <5>1
          <6> QED BY <2>2, <6>1, <6>2, <6>3, <6>4 DEF Settled
        <5>2. CASE n # part[w]
          <6>1. Settled(w, n) BY <2>3, <2>7, <4>1, <4>2, <5>2 DEF CopyOK, ManyOK
          <6> QED BY <2>4, <3>3, <5>2, <6>1, WriteMarks
        <5> QED BY <5>1, <5>2
      <4> QED BY <2>2, <3>1, <4>2, <4>3, <4>4, <4>5 DEF ManyOK
    <3> QED BY <2>6, <2>7, <3>1, <3>4, <3>5, <3>6 DEF CopyOK, OneOK, DoneOK, OpenOK
  <2>8. CASE ~Full(w)
    <3>1. pc'[w] = "ended" BY <2>2, <2>8 DEF Finish, Goto, TypeOK
    <3>2. \/ Source(w) \in touched[w]
          \/ data[w] = before[w][Source(w)]
          \/ data[w] = Empty /\ s = d /\ req[w].to = Whole
      BY <2>3, <2>8 DEF CopyOK, OneOK
    <3>3. DoneOK(w)' BY <2>1, <2>2, <2>3, <2>5, <2>6, <2>8, <3>2 DEF DoneOK
    <3> QED BY <3>1, <3>3 DEF CopyOK, OpenOK, PlaceOK, KeptOK, OneOK, ManyOK, AfterLook
  <2> QED BY <2>7, <2>8
<1> QED BY <1>1, <1>2

LEMMA OwnStepOK ==
  ASSUME TypeOK, TextOK, NEW w \in Copier, CopyOK(w), CopyStep(w)
  PROVE  CopyOK(w)' /\ OpenOK(w)' /\ (pc'[w] = "open" => TargetIsFree(w)')
BY BeginOK, LookSourceOK, LookTargetOK, LookBaseOK, CreateTargetOK, CheckOK, ListTargetOK,
   DeleteOneOK, ListSourceOK,
   NextMemberOK, AllCopiedOK, OpenStepOK, CopyTextOK DEF CopyStep

-----------------------------------------------------------------------------
(* The invariant, and what follows from it.                                *)

\* A copy is a process of its own: it leaves the others where they are.
LEMMA OthersAside ==
  ASSUME TypeOK, NEW w \in Copier, NEW v \in Copier, v # w, CopyStep(w)
  PROVE  Aside(v) /\ Watched(v)
<1>1. CASE Begin(w) BY <1>1 DEF Begin, Goto, Aside, Watched, TypeOK
<1>2. CASE LookSource(w) BY <1>2 DEF LookSource, Goto, catalogVars, Aside, Watched, TypeOK
<1>12. CASE LookTarget(w)
  BY <1>12 DEF LookTarget, Fail, Finish, Goto, catalogVars, Aside, Watched, TypeOK
<1>13. CASE LookBase(w) BY <1>13 DEF LookBase, Goto, catalogVars, Aside, Watched, TypeOK
<1>3. CASE Check(w) BY <1>3 DEF Check, Fail, Finish, Goto, Hide, catalogVars, Aside, Watched, TypeOK
<1>4. CASE ListTarget(w) BY <1>4 DEF ListTarget, Goto, Hide, catalogVars, Aside, Watched, TypeOK
<1>5. CASE ListSource(w) BY <1>5 DEF ListSource, Goto, Hide, catalogVars, Aside, Watched, TypeOK
<1>6. CASE NextMember(w) BY <1>6 DEF NextMember, Goto, Hide, catalogVars, Aside, Watched, TypeOK
<1>7. CASE AllCopied(w) BY <1>7 DEF AllCopied, Finish, Goto, catalogVars, Aside, Watched, TypeOK
<1>8. CASE CreateTarget(w)
  <2>1. Aside(v) BY <1>8 DEF CreateTarget, Fail, Finish, Goto, Aside, TypeOK
  <2>2. UNCHANGED <<text, touched>> \/ \E o, t : Catalog({w}, o, t)
    BY <1>8 DEF CreateTarget, NewDataSet
  <2> QED BY <2>1, <2>2, CatalogSeen DEF Watched
<1>9. CASE DeleteOne(w)
  <2>1. Aside(v) BY <1>9 DEF DeleteOne, Fail, Finish, Goto, Aside, TypeOK
  <2>2. UNCHANGED <<text, touched>> \/ \E o, t : Catalog({w}, o, t) BY <1>9 DEF DeleteOne
  <2> QED BY <2>1, <2>2, CatalogSeen DEF Watched
<1>10. CASE Open(w)
  <2>1. Aside(v) BY <1>10 DEF Open, Fail, Finish, Goto, Aside, TypeOK
  <2>2. UNCHANGED <<text, touched>> \/ \E o, t : Catalog({w}, o, t) BY <1>10 DEF Open
  <2> QED BY <2>1, <2>2, CatalogSeen DEF Watched
<1>11. CASE CopyText(w)
  <2>1. Aside(v) BY <1>11 DEF CopyText, Fail, Finish, Goto, Aside, TypeOK
  <2>2. \E o, t : Catalog({w}, o, t) BY <1>11 DEF CopyText
  <2> QED BY <2>1, <2>2, CatalogSeen DEF Watched
<1> QED BY <1>1, <1>2, <1>3, <1>4, <1>5, <1>6, <1>7, <1>8, <1>9, <1>10, <1>11, <1>12, <1>13
     DEF CopyStep

LEMMA ServerAside ==
  ASSUME TypeOK, TextOK, ServerStep, NEW v \in Copier
  PROVE  Aside(v) /\ Watched(v)
<1>1. Command /\ \E o, t : Catalog({}, o, t) BY ServerChanges
<1>2. Aside(v) BY <1>1 DEF Command, Aside
<1> QED BY <1>1, <1>2, CatalogSeen DEF Watched

\* What a step of somebody else leaves of the claims about a copy.
LEMMA AsideStep ==
  ASSUME TypeOK, NEW v \in Copier, Aside(v), Watched(v), CopyOK(v), OpenOK(v),
         pc[v] = "open" => TargetIsFree(v),
         pc[v] = "copy" => org'[req[v].dst] = org[req[v].dst]
  PROVE  CopyOK(v)' /\ OpenOK(v)' /\ (pc'[v] = "open" => TargetIsFree(v)')
<1>1. CopyOK(v)' BY AsideKeeps
<1>2. pc'[v] = "open" => TargetIsFree(v)' BY AsideFree
<1>3. OpenOK(v)' BY AsidePlaces DEF OpenOK, Aside
<1> QED BY <1>1, <1>2, <1>3

LEMMA InitInv == Init => IInv
<1> SUFFICES ASSUME Init PROVE IInv OBVIOUS
<1> USE DEF Init
<1>1. TypeOK
  <2>1. text \in [Place -> Text \cup {Absent}] BY DEF Text
  <2> QED BY <2>1, DataSetAssumption DEF TypeOK, Part
<1>2. TextOK BY DEF TextOK
<1>3. ASSUME NEW w \in Copier PROVE CopyOK(w) /\ OpenOK(w) /\ pc[w] # "open"
  BY DEF CopyOK, PlaceOK, KeptOK, OneOK, ManyOK, DoneOK, OpenOK, AfterLook
<1> QED BY <1>1, <1>2, <1>3 DEF IInv, DataSetInv

LEMMA NextInv == IInv /\ [Next]_vars => IInv'
<1> SUFFICES ASSUME IInv, [Next]_vars PROVE IInv' OBVIOUS
<1> USE DEF IInv, DataSetInv
<1>1. ASSUME NEW w \in Copier, CopyStep(w) PROVE IInv'
  <2>1. TypeOK' BY <1>1, CopyTypes DEF CopyOK, PlaceOK
  <2>2. TextOK' /\ \A d \in Dsn : org[d] # "none" => org'[d] = org[d]
    BY <1>1, CopyChanges DEF CopyOK
  <2>3. ASSUME NEW v \in Copier
        PROVE  CopyOK(v)' /\ OpenOK(v)' /\ (pc'[v] = "open" => TargetIsFree(v)')
    <3>1. CASE v = w BY <1>1, <3>1, OwnStepOK
    <3>2. CASE v # w
      <4>1. Aside(v) /\ Watched(v) BY <1>1, <3>2, OthersAside
      <4>2. pc[v] = "copy" => org'[req[v].dst] = org[req[v].dst]
        BY <2>2, Places DEF OpenOK
      <4> QED BY <4>1, <4>2, AsideStep
    <3> QED BY <3>1, <3>2
  <2> QED BY <2>1, <2>2, <2>3
<1>2. CASE ServerStep
  <2>1. TypeOK' BY <1>2, ServerTypes
  <2>2. TextOK' /\ \A d \in Dsn : org[d] # "none" /\ InUse(d) => org'[d] = org[d]
    BY <1>2, ServerChanges
  <2>3. ASSUME NEW v \in Copier
        PROVE  CopyOK(v)' /\ OpenOK(v)' /\ (pc'[v] = "open" => TargetIsFree(v)')
    <3>1. Aside(v) /\ Watched(v) BY <1>2, ServerAside
    <3>2. pc[v] = "copy" => org'[req[v].dst] = org[req[v].dst]
      BY <2>2, Places DEF OpenOK, InUse
    <3> QED BY <3>1, <3>2, AsideStep
  <2> QED BY <2>1, <2>2, <2>3
<1>3. CASE UNCHANGED vars
  <2>1. TypeOK' BY <1>3 DEF vars, TypeOK
  <2>2. TextOK' BY <1>3, SameText DEF vars
  <2>3. ASSUME NEW v \in Copier
        PROVE  CopyOK(v)' /\ OpenOK(v)' /\ (pc'[v] = "open" => TargetIsFree(v)')
    <3>1. Aside(v) /\ Watched(v) BY <1>3 DEF vars, Aside, Watched
    <3>2. org' = org BY <1>3 DEF vars
    <3> QED BY <3>1, <3>2, AsideStep
  <2> QED BY <2>1, <2>2, <2>3
<1> QED BY <1>1, <1>2, <1>3 DEF Next, ServerStep

\* DataSetInv always holds: the values have their types, the members and the
\* whole of a data set go with its organization under every interleaving of
\* copies and commands, and zds_copy_dsn opens no target that it found taken
\* and may not replace.
THEOREM CatalogSound == Spec => []DataSetInv
<1>1. IInv => DataSetInv BY DEF IInv
<1> QED BY <1>1, InitInv, NextInv, PTL DEF Spec

\* CopiedWhole always holds: when zds_copy_dsn answers success, what is at the
\* target is what was at the source when the copy began, or cut short, with the
\* exceptions CopiedWhole names.
THEOREM SuccessMeansCopied == Spec => []CopiedWhole
<1>1. IInv => CopiedWhole
  <2> SUFFICES ASSUME IInv, NEW w \in Copier, answer[w] = "done"
               PROVE  /\ Full(w) /\ (req[w].src # req[w].dst \/ ~req[w].delete) =>
                           \A m \in Member : Settled(w, m)
                      /\ ~Full(w) =>
                           LET x == <<req[w].src, req[w].from>>
                               y == <<req[w].dst, req[w].to>>
                           IN  \/ {x, y} \cap touched[w] # {}
                               \/ text[y] \in {before[w][x], Cut}
                               \/ text[y] = Empty /\ req[w].src = req[w].dst /\ req[w].to = Whole
    BY DEF CopiedWhole, Settled
  <2>1. DoneOK(w) BY DEF IInv, CopyOK
  <2> QED BY <2>1 DEF DoneOK, Source, Target
<1> QED BY <1>1, InitInv, NextInv, PTL DEF Spec

\* KeepsWhatWasThere holds of every step: whatever changes while a copy runs is
\* marked as changed by others, or is at its target and was free to be replaced.
THEOREM CopyKeeps == Spec => KeepsWhatWasThere
<1> DEFINE Keeps ==
      \A w \in Copier : pc[w] \notin {"out", "ended"} =>
        \A x \in Place : text'[x] # text[x] => x \in touched'[w] \/ May(w, x)
<1>1. IInv /\ [Next]_vars => Keeps
  <2> SUFFICES ASSUME IInv, [Next]_vars, NEW w \in Copier, pc[w] # "out",
                      NEW x \in Place, text'[x] # text[x]
               PROVE  x \in touched'[w] \/ May(w, x)
    OBVIOUS
  <2>0. TypeOK /\ TextOK /\ CopyOK(w) BY DEF IInv, DataSetInv
  <2>1. CASE CopyStep(w) BY <2>0, <2>1, OwnChanges
  <2>2. ASSUME NEW v \in Copier, v # w, CopyStep(v) PROVE x \in touched'[w]
    BY <2>0, <2>2, OthersAside DEF Watched
  <2>3. CASE ServerStep BY <2>0, <2>3, ServerAside DEF Watched
  <2>4. CASE UNCHANGED vars BY <2>4 DEF vars
  <2> QED BY <2>1, <2>2, <2>3, <2>4 DEF Next, ServerStep
<1>2. Keeps =>
        \A w \in Copier : pc[w] \notin {"out", "ended"} =>
          \A x \in Place : text'[x] # text[x] =>
            \/ x \in touched'[w]
            \/ /\ x[1] = req[w].dst
               /\ IF Full(w) THEN x[2] # Whole ELSE x[2] = req[w].to
               /\ Replaces(w) \/ before[w][x] = Absent \/ x \in hidden[w]
  BY DEF May
<1> QED BY <1>1, <1>2, InitInv, NextInv, PTL DEF Spec, KeepsWhatWasThere
=============================================================================
