------------------------------- MODULE DataSets -------------------------------
(***************************************************************************)
(* The catalog and the members of data sets: copies (zds_copy_dsn, each a  *)
(* process of its own, started from a shell) beside the commands of the    *)
(* server that create, delete and rename (zds.cpp, commands/ds.cpp).       *)
(*                                                                         *)
(* A copy looks, decides and acts in many calls, and holds a data set only *)
(* while it has it open.  z/OS is external: ALLOC NEW, remove and rename   *)
(* are atomic, refuse what exists or is in use, and may fail; a member     *)
(* appears under its name when it is closed.  A sequential data set that   *)
(* is opened for output is empty from then on.  Data sets are sequential   *)
(* or partitioned: other organizations (VSAM, direct) are left out.        *)
(***************************************************************************)
EXTENDS Naturals

CONSTANTS Dsn, Copier,
          Member,     \* names, numbered in the order of a directory
          Whole,      \* no member is named
          Absent,     \* no such data set or member
          Empty, Cut, \* an empty text, and one cut short by an error
          MaxChanges  \* bound: commands of the server

ASSUME DataSetAssumption ==
  /\ Member \subseteq Nat
  /\ Whole \notin Member
  /\ {Absent, Empty, Cut} \cap (Dsn \X (Member \cup {Whole})) = {}
  /\ Absent \notin {Empty, Cut}
  /\ MaxChanges \in Nat

Part == Member \cup {Whole}
Place == Dsn \X Part
\* A text is known by where it was first.
Text == Place \cup {Empty, Cut}

VARIABLES
  org,      \* of each data set: none, PS or PO
  text,     \* at each place
  changes,  \* commands of the server so far
  \* per copy
  pc,
  req,
  kind,     \* info1.type
  existed,  \* target_base_exists
  todo,     \* members still to delete, or to copy
  part,     \* the member being copied
  data,     \* what is read and not yet written
  answer,
  before,   \* (history) the texts when the copy began
  touched,  \* (history) places that others have changed since
  hidden    \* (history) members that a listing of this copy left out

vars == <<org, text, changes, pc, req, kind, existed, todo, part, data, answer,
          before, touched, hidden>>
catalogVars == <<org, text, changes, touched>>

Request == [src : Dsn, from : Part, dst : Dsn, to : Part, replace : BOOLEAN, delete : BOOLEAN]

Full(w) == kind[w] = "PDS"
Source(w) == IF Full(w) THEN <<req[w].src, part[w]>> ELSE <<req[w].src, req[w].from>>
Target(w) == IF Full(w) THEN <<req[w].dst, part[w]>> ELSE <<req[w].dst, req[w].to>>
Replaces(w) == req[w].replace \/ (Full(w) /\ req[w].delete)

\* get_member_names: zds_list_members stops at its maximum of entries, or when
\* the directory cannot be opened or read, and the rc is not looked at.
Present(d) == {m \in Member : text[<<d, m>>] # Absent}
Listing(d) == {{m \in Present(d) : m < k} : k \in Present(d)} \cup {Present(d)}
LeftOut(d, list) == {<<d, m>> : m \in Present(d) \ list}
Hide(w, places) == hidden' = [hidden EXCEPT ![w] = @ \cup places]
First(members) == CHOOSE m \in members : \A n \in members : m <= n

\* A new catalog, changed by the copies in who, or by the server when it is {}.
Catalog(who, o, t) ==
  /\ org' = o
  /\ text' = t
  /\ touched' = [v \in Copier |-> IF v \in who THEN touched[v]
                                  ELSE touched[v] \cup {x \in Place : t[x] # text[x]}]

Init ==
  /\ org \in [Dsn -> {"none", "PS", "PO"}]
  /\ text \in {t \in [Place -> Place \cup {Absent}] :
                 \A x \in Place :
                   /\ t[x] \in {Absent, x}
                   /\ x[2] = Whole => (t[x] # Absent <=> org[x[1]] = "PS")
                   /\ x[2] # Whole => (t[x] # Absent => org[x[1]] = "PO")}
  /\ changes = 0
  /\ pc = [w \in Copier |-> "out"]
  /\ req \in [Copier -> Request]
  /\ kind = [w \in Copier |-> "none"]
  /\ existed = [w \in Copier |-> FALSE]
  /\ todo = [w \in Copier |-> {}]
  /\ part = [w \in Copier |-> Whole]
  /\ data = [w \in Copier |-> Absent]
  /\ answer = [w \in Copier |-> "none"]
  /\ before = [w \in Copier |-> text]
  /\ touched = [w \in Copier |-> {}]
  /\ hidden = [w \in Copier |-> {}]
-------------------------------------------------------------------------------
Goto(w, where) == pc' = [pc EXCEPT ![w] = where]
Finish(w, a) == /\ Goto(w, "ended")
                /\ answer' = [answer EXCEPT ![w] = a]
\* Nothing is undone by a copy that fails: what it made or deleted stays so.
Fail(w) == /\ Finish(w, "failed")
           /\ UNCHANGED <<kind, existed, todo, part, data, hidden>>

Begin(w) ==
  /\ pc[w] = "out"
  /\ Goto(w, "look")
  /\ before' = [before EXCEPT ![w] = text]
  /\ touched' = [touched EXCEPT ![w] = {}]
  /\ UNCHANGED <<org, text, changes, req, kind, existed, todo, part, data, answer, hidden>>

\* zds_get_type_info: a member the listing leaves out, and a data set whose
\* entry cannot be listed, are not found.
TypeInfo(d, p) ==
  {"none"} \cup (IF org[d] = "PS" THEN {"PS"}
                 ELSE IF org[d] = "none" THEN {}
                 ELSE IF p = Whole THEN {"PDS"}
                 ELSE {"MEMBER" : list \in {l \in Listing(d) : p \in l}})

\* info1: of the source
LookSource(w) ==
  /\ pc[w] = "look"
  /\ \E k \in TypeInfo(req[w].src, req[w].from) : kind' = [kind EXCEPT ![w] = k]
  /\ Goto(w, "look target")
  /\ UNCHANGED <<catalogVars, req, existed, todo, part, data, answer, before, hidden>>

\* The copies zds_copy_dsn has no way to do.
Unsupported(k, to, target) ==
  \/ k = "PDS" /\ (to # Whole \/ target = "PS")
  \/ k = "MEMBER" /\ to = Whole
  \/ k = "PS" /\ to # Whole

\* info2: of the target, and then what is refused
LookTarget(w) ==
  /\ pc[w] = "look target"
  /\ \E t \in TypeInfo(req[w].dst, req[w].to) :
       IF kind[w] = "none" \/ Unsupported(kind[w], req[w].to, t)
       THEN Fail(w)
       ELSE /\ Goto(w, "look base")
            /\ UNCHANGED <<kind, existed, todo, part, data, answer, hidden>>
  /\ UNCHANGED <<catalogVars, req, before>>

\* zds_dataset_exists: an fopen, which may also fail for other reasons
LookBase(w) ==
  /\ pc[w] = "look base"
  /\ \E there \in {FALSE, org[req[w].dst] # "none"} :
       /\ existed' = [existed EXCEPT ![w] = there]
       /\ Goto(w, IF there THEN "check" ELSE "create")
  /\ UNCHANGED <<catalogVars, req, kind, todo, part, data, answer, before, hidden>>

\* zds_create_dsn: ALLOC NEW refuses a name that is there by now.
NewDataSet(who, d, o) ==
  Catalog(who, [org EXCEPT ![d] = o], IF o = "PS" THEN [text EXCEPT ![<<d, Whole>>] = Empty] ELSE text)

CreateTarget(w) ==
  /\ pc[w] = "create"
  /\ LET d == req[w].dst IN
     \/ /\ org[d] = "none"
        /\ NewDataSet({w}, d, IF kind[w] = "PS" THEN "PS" ELSE "PO")
        /\ \/ /\ Goto(w, "check")
              /\ UNCHANGED <<kind, existed, todo, part, data, answer, hidden>>
           \/ Fail(w)  \* the FREE failed: the data set is there
     \/ Fail(w) /\ UNCHANGED <<org, text, touched>>
  /\ UNCHANGED <<changes, req, before>>

\* Mutants: a member that is there is not looked for; and
\* --delete-target-members does nothing without --replace.
NoMemberThere(w, list) == req[w].to = Whole /\ existed[w]
EmptiesIfReplacing(w) == Full(w) /\ req[w].delete /\ existed[w] /\ req[w].replace

TargetThere(w, list) == IF req[w].to = Whole THEN existed[w] ELSE req[w].to \in list
EmptiesFirst(w) == Full(w) /\ req[w].delete /\ existed[w]

\* Is the target there already?  Then on to the first of the steps that are due.
Check(w) ==
  /\ pc[w] = "check"
  /\ \E list \in Listing(req[w].dst) :
       IF TargetThere(w, list) /\ ~req[w].replace /\ ~Full(w) THEN Fail(w)
       ELSE /\ Goto(w, IF EmptiesFirst(w) THEN "empty" ELSE IF Full(w) THEN "list" ELSE "open")
            /\ Hide(w, IF Full(w) THEN {} ELSE LeftOut(req[w].dst, list))
            /\ UNCHANGED <<kind, existed, todo, part, data, answer>>
  /\ UNCHANGED <<catalogVars, req, before>>

\* delete_all_members
ListTarget(w) ==
  /\ pc[w] = "empty"
  /\ \E list \in Listing(req[w].dst) :
       /\ todo' = [todo EXCEPT ![w] = list]
       /\ Hide(w, LeftOut(req[w].dst, list))
       /\ Goto(w, IF list = {} THEN "list" ELSE "delete")
  /\ UNCHANGED <<catalogVars, req, kind, existed, part, data, answer, before>>

DeleteOne(w) ==
  /\ pc[w] = "delete"
  /\ LET m == First(todo[w])
         x == <<req[w].dst, m>> IN
     \/ /\ text[x] # Absent
        /\ Catalog({w}, org, [text EXCEPT ![x] = Absent])
        /\ todo' = [todo EXCEPT ![w] = @ \ {m}]
        /\ Goto(w, IF todo'[w] = {} THEN "list" ELSE "delete")
        /\ UNCHANGED <<kind, existed, part, data, answer, hidden>>
     \/ Fail(w) /\ UNCHANGED <<org, text, touched>>
  /\ UNCHANGED <<changes, req, before>>

\* copy_pds_to_pds: the members of the source, then one after the other
ListSource(w) ==
  /\ pc[w] = "list"
  /\ \E list \in Listing(req[w].src) :
       /\ todo' = [todo EXCEPT ![w] = list]
       /\ Hide(w, LeftOut(req[w].src, list))
  /\ Goto(w, "next")
  /\ UNCHANGED <<catalogVars, req, kind, existed, part, data, answer, before>>

\* Mutant: --replace is taken the wrong way round.
SkipsIfReplacing(w, m, list) == Replaces(w) /\ m \in list

Skips(w, m, list) == ~Replaces(w) /\ m \in list

NextMember(w) ==
  /\ pc[w] = "next"
  /\ todo[w] # {}
  /\ LET m == First(todo[w]) IN
     /\ todo' = [todo EXCEPT ![w] = @ \ {m}]
     /\ \E list \in Listing(req[w].dst) :
          IF Skips(w, m, list)
          THEN UNCHANGED <<pc, part, hidden>>
          ELSE /\ Goto(w, "open")
               /\ part' = [part EXCEPT ![w] = m]
               /\ Hide(w, IF Replaces(w) THEN {} ELSE LeftOut(req[w].dst, list))
  /\ UNCHANGED <<catalogVars, req, kind, existed, data, answer, before>>

AllCopied(w) ==
  /\ pc[w] = "next"
  /\ todo[w] = {}
  /\ Finish(w, "done")
  /\ UNCHANGED <<catalogVars, req, kind, existed, todo, part, data, before, hidden>>

\* copy_sequential: fopen for input, fopen for output, which makes a
\* sequential data set that is not there (any more).
CanOpen(w) ==
  /\ text[Source(w)] # Absent
  /\ IF Target(w)[2] = Whole THEN org[Target(w)[1]] # "PO" ELSE org[Target(w)[1]] = "PO"

\* A sequential data set copied onto itself is emptied before it is read.
Emptied(w) == IF Source(w) = Target(w) /\ Target(w)[2] = Whole THEN {Empty} ELSE {}

Open(w) ==
  /\ pc[w] = "open"
  /\ LET x == Target(w) IN
     \/ /\ CanOpen(w)
        /\ \E t \in {text[Source(w)]} \cup Emptied(w) : data' = [data EXCEPT ![w] = t]
        /\ IF x[2] = Whole THEN Catalog({w}, [org EXCEPT ![x[1]] = "PS"], [text EXCEPT ![x] = Cut])
                           ELSE UNCHANGED <<org, text, touched>>
        /\ Goto(w, "copy")
        /\ UNCHANGED <<kind, existed, todo, part, answer, hidden>>
     \/ Fail(w) /\ UNCHANGED <<org, text, touched>>
  /\ UNCHANGED <<changes, req, before>>

\* The loop of fread and fwrite.  A read that fails ends it like the end of the
\* source, and no fclose is checked; a short write is noticed.
CopyText(w) ==
  /\ pc[w] = "copy"
  /\ \/ /\ \E t \in {data[w], Cut} : Catalog({w}, org, [text EXCEPT ![Target(w)] = t])
        /\ data' = [data EXCEPT ![w] = Absent]
        /\ IF Full(w) THEN Goto(w, "next") /\ UNCHANGED answer ELSE Finish(w, "done")
        /\ UNCHANGED <<kind, existed, todo, part, hidden>>
     \/ /\ Catalog({w}, org, [text EXCEPT ![Target(w)] = Cut])
        /\ Fail(w)
  /\ UNCHANGED <<changes, req, before>>

CopyStep(w) ==
  \/ Begin(w) \/ LookSource(w) \/ LookTarget(w) \/ LookBase(w) \/ CreateTarget(w) \/ Check(w)
  \/ ListTarget(w) \/ DeleteOne(w) \/ ListSource(w) \/ NextMember(w) \/ AllCopied(w)
  \/ Open(w) \/ CopyText(w)
-------------------------------------------------------------------------------
\* The commands of the server.  One that a service refuses changes nothing.
InUse(d) == \E w \in Copier : pc[w] = "copy" /\ d \in {req[w].src, req[w].dst}

Command ==
  /\ changes < MaxChanges
  /\ changes' = changes + 1
  /\ UNCHANGED <<pc, req, kind, existed, todo, part, data, answer, before, hidden>>

\* create, create-fb and so on; with a member named, CreateMember comes next
CreateDataSet(d) ==
  /\ org[d] = "none"
  /\ \E o \in {"PS", "PO"} : NewDataSet({}, d, o)
  /\ Command

\* zds_write of nothing, which replaces a member that is there
CreateMember(d, m) ==
  /\ org[d] = "PO"
  /\ Catalog({}, org, [text EXCEPT ![<<d, m>>] = Empty])
  /\ Command

DeleteDataSet(d) ==
  /\ org[d] # "none"
  /\ ~InUse(d)
  /\ Catalog({}, [org EXCEPT ![d] = "none"],
             [x \in Place |-> IF x[1] = d THEN Absent ELSE text[x]])
  /\ Command

DeleteMember(d, m) ==
  /\ text[<<d, m>>] # Absent
  /\ Catalog({}, org, [text EXCEPT ![<<d, m>>] = Absent])
  /\ Command

RenameDataSet(d, e) ==
  /\ org[d] # "none"
  /\ org[e] = "none"
  /\ ~InUse(d)
  /\ Catalog({}, [org EXCEPT ![d] = "none", ![e] = org[d]],
             [x \in Place |-> IF x[1] = e THEN text[<<d, x[2]>>]
                              ELSE IF x[1] = d THEN Absent ELSE text[x]])
  /\ Command

RenameMember(d, m, n) ==
  /\ text[<<d, m>>] # Absent
  /\ text[<<d, n>>] = Absent
  /\ Catalog({}, org, [text EXCEPT ![<<d, n>>] = text[<<d, m>>], ![<<d, m>>] = Absent])
  /\ Command

Next ==
  \/ \E w \in Copier : CopyStep(w)
  \/ \E d \in Dsn : CreateDataSet(d) \/ DeleteDataSet(d)
  \/ \E d \in Dsn, m \in Member : CreateMember(d, m) \/ DeleteMember(d, m)
  \/ \E d, e \in Dsn : RenameDataSet(d, e)
  \/ \E d \in Dsn, m, n \in Member : RenameMember(d, m, n)

Spec == Init /\ [][Next]_vars
-------------------------------------------------------------------------------
TypeOK ==
  /\ org \in [Dsn -> {"none", "PS", "PO"}]
  /\ text \in [Place -> Text \cup {Absent}]
  /\ changes \in 0 .. MaxChanges
  /\ pc \in [Copier -> {"out", "look", "look target", "look base", "create", "check", "empty",
                        "delete", "list", "next", "open", "copy", "ended"}]
  /\ req \in [Copier -> Request]
  /\ kind \in [Copier -> {"none", "PS", "PDS", "MEMBER"}]
  /\ existed \in [Copier -> BOOLEAN]
  /\ todo \in [Copier -> SUBSET Member]
  /\ part \in [Copier -> Part]
  /\ data \in [Copier -> Text \cup {Absent}]
  /\ answer \in [Copier -> {"none", "done", "failed"}]
  /\ before \in [Copier -> [Place -> Text \cup {Absent}]]
  /\ touched \in [Copier -> SUBSET Place]
  /\ hidden \in [Copier -> SUBSET Place]

\* A copy that may not replace goes on to open its target only when nothing was
\* there, as far as its listings show and as long as nobody else writes there.
TargetIsFree(w) ==
  \/ Replaces(w)
  \/ text[Target(w)] = Absent
  \/ Target(w) \in hidden[w] \cup touched[w]
  \/ Target(w)[2] = Whole /\ ~existed[w]

TextOK ==
  \A x \in Place : IF x[2] = Whole THEN text[x] # Absent <=> org[x[1]] = "PS"
                   ELSE text[x] # Absent => org[x[1]] = "PO"

\* The values have their types; the whole of a data set is there just when it is
\* sequential, and members only when it is partitioned, whatever the creations,
\* deletions, renames and copies in between; and a copy that opens its target
\* found it free (the checks of zds_copy_dsn and copy_pds_to_pds).
DataSetInv ==
  /\ TypeOK
  /\ TextOK
  /\ \A w \in Copier : pc[w] = "open" => TargetIsFree(w)

\* A copy changes its target and nothing else, and without --replace and
\* --delete-target-members nothing that was there when it began, but for
\* members its listings left out and what others have changed since.
KeepsWhatWasThere ==
  [][\A w \in Copier : pc[w] \notin {"out", "ended"} =>
       \A x \in Place : text'[x] # text[x] =>
         \/ x \in touched'[w]
         \/ /\ x[1] = req[w].dst
            /\ IF Full(w) THEN x[2] # Whole ELSE x[2] = req[w].to
            /\ Replaces(w) \/ before[w][x] = Absent \/ x \in hidden[w]]_vars

\* Nothing to hold a copy to: others have changed it, or a listing left it out.
Excused(w, p) == {<<req[w].src, p>>, <<req[w].dst, p>>} \cap (touched[w] \cup hidden[w]) # {}

\* zds_copy_dsn answers success: the member or data set is the source's, or cut
\* short by an error it does not look for.  Of a whole data set every member is
\* so, except those kept for want of --replace, and after --delete-target-members
\* no other is left.  (Copied onto itself, a data set may end up empty.)
CopiedWhole ==
  \A w \in Copier : answer[w] = "done" =>
    LET was(p) == before[w][<<req[w].src, p>>]
        had(p) == before[w][<<req[w].dst, p>>]
        now(p) == text[<<req[w].dst, p>>]
    IN  IF Full(w)
        THEN req[w].src # req[w].dst \/ ~req[w].delete =>
               \A m \in Member : \/ Excused(w, m)
                                 \/ was(m) # Absent /\ now(m) \in {was(m), Cut}
                                 \/ was(m) # Absent /\ ~Replaces(w) /\ had(m) # Absent /\ now(m) = had(m)
                                 \/ was(m) = Absent /\ (req[w].delete => now(m) = Absent)
        ELSE \/ {<<req[w].src, req[w].from>>, <<req[w].dst, req[w].to>>} \cap touched[w] # {}
             \/ now(req[w].to) \in {was(req[w].from), Cut}
             \/ now(req[w].to) = Empty /\ req[w].src = req[w].dst /\ req[w].to = Whole
===============================================================================
