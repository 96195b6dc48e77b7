-------------------------- MODULE SshClient_proofs --------------------------
(***************************************************************************)
(* Theorems of SshClient, for any calls and any number of clients.         *)
(***************************************************************************)
EXTENDS SshClient, SequenceTheorems, TLAPS

LEMMA IdFacts ==
  /\ \A q \in Id : q[1] \in Client /\ q[2] \in Call /\ q = <<q[1], q[2]>>
  /\ \A c \in Client, r \in Call : <<c, r>> \in Id /\ <<c, r>>[1] = c /\ <<c, r>>[2] = r
  /\ \A q \in Id : q[1] < MaxClient => <<q[1] + 1, q[2]>> \in Id
  /\ \A q \in Id, c \in Client, S \in SUBSET Call : q \in {c} \X S <=> q[1] = c /\ q[2] \in S
  /\ Client \subseteq Nat
BY ClientAssumption DEF Id, Client

LEMMA LineFacts ==
  /\ \A q \in Id : \A k \in {"notification", "result", "error"} : [call |-> q[2], kind |-> k] \in Line
  /\ \A l \in Line : l.call \in Call /\ l.kind \in {"notification", "result", "error"}
  /\ \A chunk \in Chunk : chunk.line \in Line /\ chunk.part \in {"whole", "head", "tail"}
BY IdFacts DEF Line, Chunk

-----------------------------------------------------------------------------
(* The inductive invariant.                                                *)

Started(q) == transfer[q] \in {"running", "done", "failed"}
Successor(q) == <<q[1] + 1, q[2]>>
MayResolve(q) == Started(q) \/ served[q] = "warned"
\* MayResolve after the step, for a request that the step itself names.
MayResolveNext(q) == transfer'[q] \in {"running", "done", "failed"} \/ served'[q] = "warned"

\* A request that was not made has left nothing, and those of clients that are
\* not ready are not made.
Unmade(q) ==
  /\ promise[q] = "unmade" => /\ entry[q] = "none" /\ ~timer[q]
                            /\ transfer[q] = "none" /\ resolver[q] = "plain"
  /\ q[1] > current \/ (q[1] = current /\ conn \in {"creating", "failed"}) => promise[q] = "unmade"

\* A call whose response is awaited is pending; once the transfer has begun its
\* resolve is the linked one.
Linking(q) ==
  /\ entry[q] = "open" => promise[q] = "pending" /\ resolver[q] # "called"
  /\ Started(q) => resolver[q] \in {"linked", "called"}

Transferred(q) ==
  q[2] \in Streamed /\ promise[q] = "resolved" => \E c \in Client : c >= q[1] /\ Complete(<<c, q[2]>>)

\* No response is awaited for a silenced request; if its resolve waits for a
\* stream, it was its replay that called it.
Aloof(q) ==
  Silenced(q) =>
    /\ entry[q] # "open"
    /\ resolver[q] = "called" => Replayed(q) /\ Settled(Successor(q))

ServedMade == \A q \in Id : served[q] # "none" => promise[q] # "unmade"

CollectedMade == \A r \in collected, c \in Client : c = Owner => promise[<<c, r>>] # "unmade"

RequestInv ==
  /\ \A q \in Id : Unmade(q) /\ Linking(q) /\ Transferred(q) /\ Aloof(q)
  /\ CollectedMade /\ ServedMade

\* The lines under way: none without a connection; a result of a streamed
\* request only after its transfer has begun, or in its place; on stdout a head and its tail.
Chunks(ch) == 1 .. Len(arriving[ch])
Quiet == conn # "up" => \A ch \in Channel : arriving[ch] = <<>>
ResultsLate ==
  \A ch \in Channel : \A i \in Chunks(ch) :
    LET l == arriving[ch][i].line IN
    l.kind = "result" /\ l.call \in Streamed => MayResolve(<<current, l.call>>)
HeadsTails ==
  \A i \in Chunks("stdout") :
    LET s == arriving["stdout"] IN
    s[i].part = "head" => i + 1 \in Chunks("stdout") /\ s[i + 1] = [line |-> s[i].line, part |-> "tail"]

LineInv == Quiet /\ ResultsLate /\ HeadsTails /\ StdoutWhole

IInv == TypeOK /\ RequestInv /\ LineInv

LEMMA InitInv == Init => IInv
<1> SUFFICES ASSUME Init PROVE IInv OBVIOUS
<1> USE DEF Init
<1>1. 1 \in Client BY ClientAssumption DEF Client
<1>2. <<>> \in Seq(Chunk) /\ Len(<<>>) = 0 BY EmptySeq
<1>3. TypeOK BY <1>1, <1>2 DEF TypeOK, Channel
<1>4. RequestInv
  BY IdFacts DEF RequestInv, Unmade, Linking, Transferred, Aloof, Silenced, Replayed, Started, CollectedMade,
     ServedMade
<1>5. LineInv
  <2>1. \A ch \in Channel : Chunks(ch) = {} BY <1>2 DEF Chunks
  <2> QED BY <2>1 DEF LineInv, Quiet, ResultsLate, HeadsTails, StdoutWhole, Channel
<1> QED BY <1>3, <1>4, <1>5 DEF IInv

-----------------------------------------------------------------------------
(* Steps of one request.                                                   *)

\* What a step of request q may do: q was made, its entry goes, its promise
\* settles, its resolve is called, its transfer moves on.
OneRequest(q) ==
  /\ UNCHANGED <<clientVars, served>>
  /\ \A p \in Id : p # q => /\ entry'[p] = entry[p] /\ promise'[p] = promise[p]
                            /\ resolver'[p] = resolver[p] /\ transfer'[p] = transfer[p]
                            /\ timer'[p] = timer[p]
  /\ promise[q] # "unmade"
  /\ promise'[q] = promise[q] \/ (promise[q] = "pending" /\ promise'[q] \in {"resolved", "rejected"})
  /\ entry'[q] \in {entry[q], "none"}
  /\ Started(q) => Started(q)'
  /\ transfer[q] = "done" => transfer'[q] = "done"
  /\ Linking(q)'
  /\ promise'[q] = "resolved" /\ q[2] \in Streamed =>
       \/ promise[q] = "resolved" \/ Complete(q)'
       \/ Replayed(q) /\ promise[Successor(q)] = "resolved"
  /\ resolver'[q] = "called" => \/ resolver[q] = "called" \/ ~Silenced(q)
                                \/ Replayed(q) /\ Settled(Successor(q))

LEMMA OneRequestKeeps ==
  ASSUME IInv, NEW q \in Id, OneRequest(q)
  PROVE  RequestInv'
<1> USE DEF clientVars
<1>1. /\ UNCHANGED <<current, conn, collected, served>>
      /\ \A p \in Id : (promise[p] = "unmade") = (promise'[p] = "unmade")
      /\ \A p \in Id : Settled(p) => Settled(p)' /\ promise'[p] = promise[p]
      /\ \A p \in Id : Complete(p) => Complete(p)'
  BY DEF OneRequest, Settled, Complete
<1>2. \A p \in Id : Replayed(p)' = Replayed(p)
  BY <1>1, IdFacts DEF Replayed
<1>3. \A p \in Id : Silenced(p)' => Silenced(p)
  BY <1>1, <1>2 DEF OneRequest, Silenced, Owner
<1>4. ASSUME NEW p \in Id PROVE Unmade(p)' /\ Linking(p)'
  BY <1>1 DEF OneRequest, IInv, RequestInv, Unmade, Linking, Started
<1>5. ASSUME NEW p \in Id PROVE Transferred(p)'
  <2> SUFFICES ASSUME p[2] \in Streamed, promise'[p] = "resolved"
               PROVE \E c \in Client : c >= p[1] /\ Complete(<<c, p[2]>>)'
    BY DEF Transferred
  <2>1. CASE promise[p] = "resolved"
    <3>1. PICK c \in Client : c >= p[1] /\ Complete(<<c, p[2]>>)
      BY <2>1 DEF IInv, RequestInv, Transferred
    <3>2. <<c, p[2]>> \in Id BY IdFacts
    <3> QED BY <1>1, <3>1, <3>2
  <2>2. CASE promise[p] # "resolved" /\ Complete(p)'
    <3>1. p = <<p[1], p[2]>> /\ p[1] \in Client /\ p[1] >= p[1] BY IdFacts, ClientAssumption DEF Client
    <3> QED BY <2>2, <3>1 DEF Complete
  <2>3. CASE promise[p] # "resolved" /\ Replayed(p) /\ promise[Successor(p)] = "resolved"
    <3>1. Successor(p) \in Id /\ Successor(p)[1] = p[1] + 1 /\ Successor(p)[2] = p[2] /\ p[1] \in Nat
      BY <2>3, IdFacts DEF Replayed, Successor
    <3>2. PICK c \in Client : c >= p[1] + 1 /\ Complete(<<c, p[2]>>)
      BY <2>3, <3>1 DEF IInv, RequestInv, Transferred
    <3>3. <<c, p[2]>> \in Id /\ c \in Nat BY IdFacts
    <3>4. c >= p[1] BY <3>1, <3>2, <3>3
    <3> QED BY <1>1, <3>2, <3>3, <3>4
  <2> QED BY <2>1, <2>2, <2>3 DEF OneRequest
<1>6. ASSUME NEW p \in Id PROVE Aloof(p)'
  <2> SUFFICES ASSUME Silenced(p) PROVE entry'[p] # "open" /\
          (resolver'[p] = "called" => Replayed(p)' /\ Settled(Successor(p))')
    BY <1>3 DEF Aloof, Successor
  <2>1. entry[p] # "open" /\ entry'[p] # "open" BY DEF OneRequest, IInv, RequestInv, Aloof
  <2>2. resolver'[p] = "called" => Replayed(p) /\ Settled(Successor(p))
    BY DEF OneRequest, IInv, RequestInv, Aloof
  <2>3. Replayed(p) => Successor(p) \in Id BY IdFacts DEF Replayed, Successor
  <2> QED BY <1>1, <1>2, <2>1, <2>2, <2>3 DEF Successor
<1>7. CollectedMade'
  <2>1. \A r \in collected : r \in Call BY DEF IInv, TypeOK
  <2> QED BY <1>1, <2>1, IdFacts DEF IInv, RequestInv, CollectedMade, Owner
<1>8. ServedMade' BY <1>1 DEF IInv, RequestInv, ServedMade
<1> QED BY <1>4, <1>5, <1>6, <1>7, <1>8 DEF RequestInv

LEMMA TimeoutKeeps ==
  ASSUME IInv, NEW q \in Id, Timeout(q)
  PROVE  RequestInv'
<1>1. TypeOK /\ Linking(q) /\ Unmade(q) BY DEF IInv, RequestInv
<1>2. /\ entry' = [entry EXCEPT ![q] = "none"]
      /\ promise' = [promise EXCEPT ![q] = IF entry[q] = "open" THEN "rejected" ELSE @]
      /\ UNCHANGED <<clientVars, resolver, transfer, served>>
      /\ timer[q] /\ timer' = [timer EXCEPT ![q] = FALSE]
  BY DEF Timeout
<1>3. OneRequest(q) BY <1>1, <1>2 DEF OneRequest, Linking, Unmade, Started, TypeOK
<1> QED BY <1>3, OneRequestKeeps

LEMMA NotificationKeeps ==
  ASSUME IInv, NEW q \in Id, entry[q] # "none", HandleNotification(q), UNCHANGED <<clientVars, served>>
  PROVE  RequestInv'
<1>1. TypeOK /\ Linking(q) /\ Unmade(q) BY DEF IInv, RequestInv
<1>2. UNCHANGED <<entry, timer, promise>> BY DEF HandleNotification
<1>3. CASE transfer[q] = "registered"
  <2>1. /\ transfer' = [transfer EXCEPT ![q] = "running"]
        /\ resolver' = [resolver EXCEPT ![q] = "linked"]
    BY <1>3 DEF HandleNotification, Linked
  <2>2. transfer'[q] = "running" /\ resolver'[q] = "linked" BY <1>1, <2>1 DEF TypeOK
  <2>3. OneRequest(q)
    BY <1>1, <1>2, <1>3, <2>1, <2>2 DEF OneRequest, Linking, Unmade, Started, TypeOK
  <2> QED BY <2>3, OneRequestKeeps
<1>4. CASE transfer[q] # "registered"
  <2>1. UNCHANGED <<transfer, resolver>> BY <1>4 DEF HandleNotification
  <2>2. OneRequest(q) BY <1>1, <1>2, <2>1 DEF OneRequest, Linking, Unmade, Started
  <2> QED BY <2>2, OneRequestKeeps
<1> QED BY <1>3, <1>4

\* A result of a streamed request finds its resolve linked to the stream, or
\* there is no stream.
LEMMA ResponseKeeps ==
  ASSUME IInv, NEW q \in Id, NEW how \in {"resolved", "rejected"},
         entry[q] # "none", HandleResponse(q, how), UNCHANGED <<clientVars, served>>,
         how = "resolved" /\ q[2] \in Streamed => MayResolve(q)
  PROVE  RequestInv'
<1>1. TypeOK /\ Linking(q) /\ Unmade(q) /\ Aloof(q) BY DEF IInv, RequestInv
<1>2. entry' = [entry EXCEPT ![q] = "none"] /\ transfer' = transfer BY DEF HandleResponse
<1>3. CASE entry[q] # "open"
  <2>1. UNCHANGED <<timer, promise, resolver>> BY <1>3 DEF HandleResponse, Listening
  <2>2. OneRequest(q) BY <1>1, <1>2, <2>1 DEF OneRequest, Linking, Unmade, Started, TypeOK
  <2> QED BY <2>2, OneRequestKeeps
<1>4. CASE entry[q] = "open"
  <2>1. Settle(q, how) BY <1>4 DEF HandleResponse, Listening
  <2>2. ~Silenced(q) /\ resolver[q] # "called" BY <1>1, <1>4 DEF Aloof, Linking
  <2>3. CASE how = "resolved" /\ resolver[q] = "linked"
    <3>1. resolver' = [resolver EXCEPT ![q] = "called"] /\ UNCHANGED <<timer, promise>>
      BY <2>1, <2>3 DEF Settle
    <3>2. OneRequest(q)
      BY <1>1, <1>2, <2>2, <3>1 DEF OneRequest, Linking, Unmade, Started, TypeOK
    <3> QED BY <3>2, OneRequestKeeps
  <2>4. CASE ~(how = "resolved" /\ resolver[q] = "linked")
    <3>1. /\ resolver' = resolver /\ timer' = [timer EXCEPT ![q] = FALSE]
          /\ promise' = [promise EXCEPT ![q] = IF @ = "pending" THEN how ELSE @]
      BY <2>1, <2>4 DEF Settle
    <3>2. how = "resolved" /\ q[2] \in Streamed => Complete(q)'
      BY <1>1, <2>2, <2>4 DEF Linking, MayResolve, Complete
    <3>3. promise'[q] = IF promise[q] = "pending" THEN how ELSE promise[q]
      BY <1>1, <3>1 DEF TypeOK
    <3>4. OneRequest(q)
      BY <1>1, <1>2, <2>2, <3>1, <3>2, <3>3 DEF OneRequest, Linking, Unmade, Started, TypeOK
    <3> QED BY <3>4, OneRequestKeeps
  <2> QED BY <2>3, <2>4
<1> QED BY <1>3, <1>4

LEMMA TransferKeeps ==
  ASSUME IInv, NEW q \in Id, TransferEnds(q)
  PROVE  RequestInv'
<1>1. TypeOK /\ Linking(q) /\ Unmade(q) BY DEF IInv, RequestInv
<1>2. /\ transfer[q] = "running" /\ UNCHANGED <<clientVars, entry, timer, promise, resolver, served>>
      /\ \E end \in {"done", "failed"} : transfer' = [transfer EXCEPT ![q] = end]
  BY DEF TransferEnds, mapVars
<1>3. OneRequest(q) BY <1>1, <1>2 DEF OneRequest, Linking, Unmade, Started, TypeOK
<1> QED BY <1>3, OneRequestKeeps

LEMMA StreamKeeps ==
  ASSUME IInv, NEW q \in Id, StreamSettles(q)
  PROVE  RequestInv'
<1>1. TypeOK /\ Linking(q) /\ Unmade(q) BY DEF IInv, RequestInv
<1>2. /\ resolver[q] = "called" /\ transfer[q] = "done" /\ promise[q] = "pending"
      /\ UNCHANGED <<clientVars, entry, transfer, resolver, served>> /\ timer' = [timer EXCEPT ![q] = FALSE]
      /\ \E how \in {"resolved", "rejected"} : promise' = [promise EXCEPT ![q] = how]
  BY DEF StreamSettles
<1>3. OneRequest(q) BY <1>1, <1>2 DEF OneRequest, Complete, Linking, Unmade, Started, TypeOK
<1> QED BY <1>3, OneRequestKeeps

LEMMA ReplayKeeps ==
  ASSUME IInv, NEW q \in Id, ReplaySettles(q)
  PROVE  RequestInv'
<1> DEFINE how == promise[<<q[1] + 1, q[2]>>]
<1>1. TypeOK /\ Linking(q) /\ Unmade(q) /\ Aloof(q) BY DEF IInv, RequestInv
<1>2. /\ Replayed(q) /\ how \in {"resolved", "rejected"} /\ promise[q] = "pending"
      /\ resolver[q] # "called" /\ Settle(q, how)
      /\ UNCHANGED <<clientVars, entry, transfer, served>>
  BY DEF ReplaySettles, Settled
<1>3. Silenced(q) /\ entry[q] # "open" BY <1>1, <1>2 DEF Silenced, Aloof
<1>4. Settled(Successor(q)) /\ promise[Successor(q)] = how BY <1>2 DEF Settled, Successor
<1> HIDE DEF how
<1>5. CASE how = "resolved" /\ resolver[q] = "linked"
  <2>1. resolver' = [resolver EXCEPT ![q] = "called"] /\ UNCHANGED <<timer, promise>>
    BY <1>2, <1>5 DEF Settle
  <2>2. OneRequest(q)
    BY <1>1, <1>2, <1>3, <1>4, <2>1 DEF OneRequest, Linking, Unmade, Started, TypeOK
  <2> QED BY <2>2, OneRequestKeeps
<1>6. CASE ~(how = "resolved" /\ resolver[q] = "linked")
  <2>1. /\ resolver' = resolver /\ timer' = [timer EXCEPT ![q] = FALSE]
        /\ promise' = [promise EXCEPT ![q] = IF @ = "pending" THEN how ELSE @]
    BY <1>2, <1>6 DEF Settle
  <2>2. promise'[q] = how BY <1>1, <1>2, <2>1 DEF TypeOK
  <2>3. OneRequest(q)
    BY <1>1, <1>2, <1>3, <1>4, <2>1, <2>2 DEF OneRequest, Linking, Unmade, Started, TypeOK
  <2> QED BY <2>3, OneRequestKeeps
<1> QED BY <1>5, <1>6

-----------------------------------------------------------------------------
(* Steps of all requests.                                                  *)

\* What MakeAll does: the requests of S, which nobody has made, are pending.
Makes(S) ==
  LET made(q) == q[1] = current /\ q[2] \in S IN
  \A q \in Id :
    IF made(q)
    THEN /\ promise[q] = "unmade" /\ promise'[q] = "pending" /\ entry'[q] = "open"
         /\ transfer'[q] \in {"none", "registered"} /\ resolver'[q] = resolver[q]
    ELSE /\ promise'[q] = promise[q] /\ entry'[q] = entry[q] /\ timer'[q] = timer[q]
         /\ transfer'[q] = transfer[q] /\ resolver'[q] = resolver[q] /\ served'[q] = served[q]

LEMMA MakesAll ==
  ASSUME TypeOK, NEW S \in SUBSET Call, MakeAll(current, S),
         \A q \in Id : q[1] = current /\ q[2] \in S => promise[q] = "unmade" /\ transfer[q] = "none"
  PROVE  Makes(S)
<1>1. current \in Client BY DEF TypeOK
<1>2. \A q \in Id : q \in {current} \X S <=> q[1] = current /\ q[2] \in S BY <1>1, IdFacts
<1> DEFINE made == {current} \X S
<1>3. /\ promise' = [q \in Id |-> IF q \in made THEN "pending" ELSE promise[q]]
      /\ timer' = [q \in Id |-> q \in made \/ timer[q]]
      /\ entry' = [q \in Id |-> IF q \in made THEN "open" ELSE entry[q]]
      /\ transfer' = [q \in Id |-> IF q \in made /\ q[2] \in Streamed THEN "registered" ELSE transfer[q]]
      /\ served' = [q \in Id |-> IF q \in made THEN "received" ELSE served[q]]
      /\ resolver' = resolver
  BY DEF MakeAll
<1> HIDE DEF made
<1>4. \A q \in Id : q \in made <=> q[1] = current /\ q[2] \in S BY <1>2 DEF made
<1>5. ASSUME NEW q \in Id, q \notin made PROVE timer'[q] = timer[q]
  <2>1. timer'[q] = (q \in made \/ timer[q]) BY <1>3
  <2>2. timer[q] \in BOOLEAN BY DEF TypeOK
  <2> QED BY <1>5, <2>1, <2>2
<1> QED BY <1>3, <1>4, <1>5 DEF Makes

LEMMA MakesKeeps ==
  ASSUME IInv, NEW S \in SUBSET Call, Makes(S),
         \/ /\ Up /\ UNCHANGED clientVars /\ \E r \in Call : S = {r}
            /\ \A q \in Id : q[2] \in S => promise[q] = "unmade"
         \/ /\ conn = "creating" /\ conn' = "up" /\ current' = current
            /\ S = collected /\ collected' = {}
  PROVE  RequestInv'
<1> USE DEF clientVars
<1> DEFINE made(q) == q[1] = current /\ q[2] \in S
<1>1. /\ current' = current /\ current \in Nat /\ current \in Client /\ conn' = "up"
      /\ \A q \in Id : q[1] \in Nat
  BY IdFacts DEF IInv, TypeOK, Up
<1>2. /\ \A q \in Id : made(q) => /\ promise[q] = "unmade" /\ promise'[q] = "pending" /\ entry'[q] = "open"
                                  /\ transfer'[q] \in {"none", "registered"} /\ resolver'[q] = resolver[q]
      /\ \A q \in Id : ~made(q) => /\ promise'[q] = promise[q] /\ entry'[q] = entry[q] /\ timer'[q] = timer[q]
                                   /\ transfer'[q] = transfer[q] /\ resolver'[q] = resolver[q]
                                   /\ served'[q] = served[q]
  BY DEF Makes
<1>3. /\ \A q \in Id : Unmade(q) /\ Linking(q) /\ Transferred(q) /\ Aloof(q)
      /\ ServedMade
  BY DEF IInv, RequestInv
<1> HIDE DEF made
<1>4. ASSUME NEW q \in Id PROVE Unmade(q)' /\ Linking(q)'
  <2>1. CASE made(q) BY <1>1, <1>2, <1>3, <2>1 DEF made, Unmade, Linking, Started
  <2>2. CASE ~made(q) BY <1>1, <1>2, <1>3, <2>2 DEF Unmade, Linking, Started, Up
  <2> QED BY <2>1, <2>2
<1>5. \A q \in Id : Settled(q)' = Settled(q) /\ (Complete(q) => Complete(q)')
  BY <1>2, <1>3 DEF Settled, Unmade, Complete, ServedMade
<1>6. ASSUME NEW q \in Id PROVE Transferred(q)'
  <2> SUFFICES ASSUME q[2] \in Streamed, promise'[q] = "resolved"
               PROVE \E c \in Client : c >= q[1] /\ Complete(<<c, q[2]>>)'
    BY DEF Transferred
  <2>1. promise[q] = "resolved" BY <1>2
  <2>2. PICK c \in Client : c >= q[1] /\ Complete(<<c, q[2]>>)
    BY <1>3, <2>1 DEF Transferred
  <2>3. <<c, q[2]>> \in Id BY IdFacts
  <2> QED BY <1>5, <2>2, <2>3
<1>7. ASSUME NEW q \in Id PROVE Aloof(q)'
  <2> SUFFICES ASSUME Silenced(q)'
               PROVE  entry'[q] # "open" /\
                      (resolver'[q] = "called" => Replayed(q)' /\ Settled(Successor(q))')
    BY DEF Aloof
  <2>1. ~made(q)
    <3> SUFFICES ASSUME made(q) PROVE FALSE OBVIOUS
    <3>1. entry'[q] = "open" /\ promise[q] = "unmade" BY <1>2
    <3>2. ~Replayed(q)'
      <4> SUFFICES ASSUME q[1] < MaxClient PROVE promise'[Successor(q)] = "unmade"
        BY DEF Replayed, Successor
      <4>1. /\ Successor(q) \in Id /\ Successor(q)[1] = q[1] + 1 /\ Successor(q)[2] = q[2]
        BY IdFacts DEF Successor
      <4>2. Successor(q)[1] > current /\ ~made(Successor(q)) BY <1>1, <4>1 DEF made
      <4> QED BY <1>2, <1>3, <4>1, <4>2 DEF Unmade
    <3>3. q[1] = Owner' /\ q[2] \in collected' BY <3>1, <3>2 DEF Silenced
    <3>4. UNCHANGED clientVars BY <3>3
    <3>5. q[1] = Owner /\ q[2] \in collected BY <3>3, <3>4 DEF Owner
    <3> QED BY <3>1, <3>5, IdFacts DEF IInv, RequestInv, CollectedMade
  <2>2. Silenced(q)
    <3>1. CASE entry'[q] = "silenced" BY <1>2, <2>1, <3>1 DEF Silenced
    <3>2. CASE q[1] = Owner' /\ q[2] \in collected'
      <4>1. UNCHANGED clientVars BY <3>2
      <4> QED BY <3>2, <4>1 DEF Silenced, Owner
    <3>3. CASE Replayed(q)'
      <4>1. /\ Successor(q) \in Id /\ Successor(q)[1] = q[1] + 1 /\ Successor(q)[2] = q[2]
            /\ q[1] < MaxClient /\ promise'[q] # "unmade" /\ promise'[Successor(q)] # "unmade"
        BY <3>3, IdFacts DEF Successor, Replayed
      <4>2. promise[q] # "unmade" BY <1>2, <2>1, <4>1
      <4>3. CASE ~made(Successor(q))
        BY <1>2, <4>1, <4>2, <4>3 DEF Silenced, Replayed, Successor
      <4>4. CASE made(Successor(q))
        <5>1. q[1] = current - 1 /\ q[2] \in S BY <1>1, <4>1, <4>4 DEF made
        <5>2. conn = "creating" /\ S = collected BY <4>2, <5>1
        <5> QED BY <5>1, <5>2 DEF Silenced, Owner
      <4> QED BY <4>3, <4>4
    <3> QED BY <3>1, <3>2, <3>3 DEF Silenced
  <2>3. Replayed(q) => Replayed(q)' /\ Successor(q) \in Id
    BY <1>2, IdFacts DEF Replayed, Successor
  <2>4. Replayed(q) => (Settled(Successor(q)) => Settled(Successor(q))')
    BY <1>5, <2>3 DEF Successor
  <2> QED BY <1>2, <1>3, <2>1, <2>2, <2>3, <2>4 DEF Aloof
<1>8. CollectedMade'
  <2>1. \A r \in collected : r \in Call BY DEF IInv, TypeOK
  <2> SUFFICES ASSUME NEW r \in collected', NEW c \in Client, c = Owner' PROVE promise'[<<c, r>>] # "unmade"
    BY DEF CollectedMade
  <2>2. UNCHANGED clientVars OBVIOUS
  <2>3. promise[<<c, r>>] # "unmade" /\ <<c, r>> \in Id
    BY <2>1, <2>2, IdFacts DEF IInv, RequestInv, CollectedMade, Owner
  <2> QED BY <1>2, <2>3
<1>9. ServedMade'
  <2> SUFFICES ASSUME NEW q \in Id, promise'[q] = "unmade" PROVE served'[q] = "none"
    BY DEF ServedMade
  <2> QED BY <1>2, <1>3 DEF ServedMade
<1> QED BY <1>4, <1>6, <1>7, <1>8, <1>9 DEF RequestInv

LEMMA RequestKeeps ==
  ASSUME IInv, NEW r \in Call, Request(r)
  PROVE  RequestInv'
<1>1. /\ Up /\ \A c \in Client : promise[<<c, r>>] = "unmade"
      /\ MakeAll(current, {r}) /\ UNCHANGED clientVars
  BY DEF Request
<1>2. \A q \in Id : q[2] \in {r} => promise[q] = "unmade" /\ transfer[q] = "none"
  <2> SUFFICES ASSUME NEW q \in Id, q[2] = r PROVE promise[q] = "unmade" /\ transfer[q] = "none"
    OBVIOUS
  <2>1. promise[q] = "unmade" BY <1>1, IdFacts
  <2> QED BY <2>1 DEF IInv, RequestInv, Unmade
<1>3. Makes({r}) BY <1>1, <1>2, MakesAll DEF IInv
<1> QED BY <1>1, <1>2, <1>3, MakesKeeps

LEMMA ReadyKeeps ==
  ASSUME IInv, CreateReady
  PROVE  RequestInv'
<1>1. /\ conn = "creating" /\ conn' = "up" /\ collected' = {} /\ current' = current
      /\ MakeAll(current, collected)
  BY DEF CreateReady
<1>2. collected \in SUBSET Call BY DEF IInv, TypeOK
<1>3. \A q \in Id : q[1] = current => promise[q] = "unmade" /\ transfer[q] = "none"
  BY <1>1 DEF IInv, RequestInv, Unmade
<1>4. Makes(collected) BY <1>1, <1>2, <1>3, MakesAll DEF IInv
<1> QED BY <1>1, <1>2, <1>4, MakesKeeps

LEMMA CollectKeeps ==
  ASSUME IInv, CollectAllRequests
  PROVE  RequestInv'
<1> DEFINE pending == {r \in Call : entry[<<current, r>>] # "none"}
<1>1. /\ Up /\ collected' = pending
      /\ entry' = [q \in Id |-> IF q \in {current} \X pending THEN "silenced" ELSE entry[q]]
      /\ timer' = [q \in Id |-> timer[q] /\ q \notin {current} \X pending]
      /\ UNCHANGED <<current, conn, promise, resolver, transfer, served>>
  BY DEF CollectAllRequests
<1>2. TypeOK /\ current \in Client /\ pending \in SUBSET Call BY DEF IInv, TypeOK
<1>3. \A q \in Id : q \in {current} \X pending <=> q[1] = current /\ entry[q] # "none"
  BY <1>2, IdFacts
<1>4. \A q \in Id : /\ entry'[q] = IF q[1] = current /\ entry[q] # "none" THEN "silenced" ELSE entry[q]
                    /\ timer'[q] => timer[q]
  BY <1>1, <1>3
<1>5. \A r \in collected' : r \in Call /\ entry[<<current, r>>] # "none" BY <1>1
<1> HIDE DEF pending
<1>6. \A q \in Id : Unmade(q) /\ Linking(q) /\ Transferred(q) /\ Aloof(q)
  BY DEF IInv, RequestInv
<1>7. ASSUME NEW q \in Id PROVE Unmade(q)' /\ Linking(q)' /\ Transferred(q)'
  BY <1>1, <1>4, <1>6 DEF Unmade, Linking, Transferred, Started, Complete
<1>8. ASSUME NEW q \in Id PROVE Aloof(q)'
  <2> SUFFICES ASSUME Silenced(q)'
               PROVE  entry'[q] # "open" /\ (resolver[q] = "called" => Replayed(q) /\ Settled(Successor(q)))
    BY <1>1 DEF Aloof, Replayed, Settled, Successor
  <2>1. Silenced(q) \/ (q[1] = current /\ entry[q] # "none")
    <3>1. CASE entry'[q] = "silenced" BY <1>4, <3>1 DEF Silenced
    <3>2. CASE Replayed(q)' BY <1>1, <3>2 DEF Replayed, Silenced
    <3>3. CASE q[1] = Owner' /\ q[2] \in collected'
      <4>1. q[1] = current BY <1>1, <3>3 DEF Owner, Up
      <4>2. entry[<<current, q[2]>>] # "none" BY <1>5, <3>3
      <4> QED BY <4>1, <4>2, IdFacts
    <3> QED BY <3>1, <3>2, <3>3 DEF Silenced
  <2>2. CASE Silenced(q) BY <1>4, <1>6, <2>2 DEF Aloof
  <2>3. CASE ~Silenced(q)
    <3>1. q[1] = current /\ entry[q] = "open" BY <1>2, <2>1, <2>3 DEF Silenced, TypeOK
    <3> QED BY <1>4, <1>6, <3>1 DEF Linking
  <2> QED BY <2>2, <2>3
<1>9. CollectedMade'
  <2> SUFFICES ASSUME NEW r \in collected', NEW c \in Client, c = Owner' PROVE promise'[<<c, r>>] # "unmade"
    BY DEF CollectedMade
  <2>1. c = current BY <1>1 DEF Owner, Up
  <2>2. <<c, r>> \in Id /\ entry[<<c, r>>] # "none" BY <1>5, <2>1, IdFacts
  <2> QED BY <1>1, <1>6, <2>2 DEF Unmade
<1>10. ServedMade' BY <1>1 DEF IInv, RequestInv, ServedMade
<1> QED BY <1>7, <1>8, <1>9, <1>10 DEF RequestInv

LEMMA DisposeKeeps ==
  ASSUME IInv, Dispose
  PROVE  RequestInv'
<1>1. /\ Up /\ conn' = "disposed"
      /\ promise' = [q \in Id |-> IF entry[q] = "open" THEN "rejected" ELSE promise[q]]
      /\ timer' = [q \in Id |-> timer[q] /\ entry[q] # "open"]
      /\ entry' = [q \in Id |-> "none"]
      /\ UNCHANGED <<current, collected, resolver, transfer, served>>
  BY DEF Dispose, Rejected
<1>2. \A q \in Id : Unmade(q) /\ Linking(q) /\ Transferred(q) /\ Aloof(q)
  BY DEF IInv, RequestInv
<1>3. \A q \in Id : (promise'[q] = "unmade") = (promise[q] = "unmade")
  BY <1>1, <1>2 DEF Linking
<1>4. \A q \in Id : Settled(q) => Settled(q)' BY <1>1, <1>2 DEF Settled, Linking
<1>5. Owner' = Owner BY <1>1 DEF Owner, Up
<1>6. ASSUME NEW q \in Id PROVE Unmade(q)' /\ Linking(q)' /\ Transferred(q)'
  <2>1. Unmade(q)' BY <1>1, <1>2, <1>3 DEF Unmade, Up
  <2>2. Linking(q)' BY <1>1, <1>2 DEF Linking, Started
  <2>3. promise'[q] = "resolved" => promise[q] = "resolved" BY <1>1
  <2>4. Transferred(q)' BY <1>1, <1>2, <2>3 DEF Transferred, Complete
  <2> QED BY <2>1, <2>2, <2>4
<1>7. ASSUME NEW q \in Id PROVE Aloof(q)'
  <2>1. Replayed(q) => Successor(q) \in Id BY IdFacts DEF Replayed, Successor
  <2>2. Replayed(q)' = Replayed(q) BY <1>3, IdFacts DEF Replayed
  <2>3. Silenced(q)' => Silenced(q) BY <1>1, <1>5, <2>2 DEF Silenced
  <2> QED BY <1>1, <1>2, <1>4, <2>1, <2>2, <2>3 DEF Aloof, Successor
<1>8. CollectedMade'
  <2>1. \A r \in collected : r \in Call BY DEF IInv, TypeOK
  <2> QED BY <1>1, <1>3, <1>5, <2>1, IdFacts DEF IInv, RequestInv, CollectedMade
<1>9. ServedMade' BY <1>1, <1>3 DEF IInv, RequestInv, ServedMade
<1> QED BY <1>6, <1>7, <1>8, <1>9 DEF RequestInv

LEMMA CreationKeeps ==
  ASSUME IInv, CreateFails \/ CreateNext
  PROVE  RequestInv'
<1>1. UNCHANGED <<mapVars, transfer, served>> BY DEF CreateFails, CreateNext
<1>2. /\ current' >= current /\ collected' \subseteq collected /\ conn' # "up"
      /\ conn # "up" /\ (current' = current => conn = "creating" /\ conn' = "failed")
      /\ current' \in Nat /\ current \in Nat /\ collected \subseteq Call
      /\ collected' # {} => Owner' = Owner
  <2>1. TypeOK /\ current \in Nat /\ collected \subseteq Call BY IdFacts DEF IInv, TypeOK
  <2>2. CASE CreateFails BY <2>1, <2>2 DEF CreateFails, Owner
  <2>3. CASE CreateNext BY <2>1, <2>3 DEF CreateNext, Owner
  <2> QED BY <2>2, <2>3
<1>3. \A q \in Id : q[1] \in Nat /\ Unmade(q) /\ Linking(q) /\ Transferred(q) /\ Aloof(q)
  BY IdFacts DEF IInv, RequestInv
<1>4. ASSUME NEW q \in Id PROVE Unmade(q)' /\ Linking(q)' /\ Transferred(q)'
  <2>1. Unmade(q)' BY <1>1, <1>2, <1>3 DEF Unmade, mapVars
  <2>2. Linking(q)' /\ Transferred(q)' BY <1>1, <1>3 DEF Linking, Transferred, Started, Complete, mapVars
  <2> QED BY <2>1, <2>2
<1>5. ASSUME NEW q \in Id PROVE Aloof(q)'
  <2>1. Replayed(q)' = Replayed(q) /\ Settled(Successor(q))' = Settled(Successor(q))
    BY <1>1 DEF Replayed, Settled, Successor, mapVars
  <2>2. Silenced(q)' => Silenced(q) BY <1>1, <1>2, <2>1 DEF Silenced, mapVars
  <2> QED BY <1>1, <1>3, <2>1, <2>2 DEF Aloof, mapVars
<1>6. CollectedMade' BY <1>1, <1>2 DEF IInv, RequestInv, CollectedMade, mapVars
<1>7. ServedMade' BY <1>1 DEF IInv, RequestInv, ServedMade, mapVars
<1> QED BY <1>4, <1>5, <1>6, <1>7 DEF RequestInv

\* What changes nothing of the requests.
LEMMA QuietKeeps ==
  ASSUME IInv, UNCHANGED <<clientVars, mapVars, transfer>>,
         \A q \in Id : /\ served[q] = "warned" => served'[q] = "warned"
                       /\ served'[q] # "none" => served[q] # "none"
  PROVE  RequestInv'
<1> USE DEF clientVars, mapVars
<1>1. \A q \in Id : Complete(q) => Complete(q)' BY DEF Complete
<1>2. ASSUME NEW q \in Id, q[2] \in Streamed, promise[q] = "resolved"
      PROVE  \E c \in Client : c >= q[1] /\ Complete(<<c, q[2]>>)'
  <2>1. PICK c \in Client : c >= q[1] /\ Complete(<<c, q[2]>>)
    BY <1>2 DEF IInv, RequestInv, Transferred
  <2>2. <<c, q[2]>> \in Id BY IdFacts
  <2> QED BY <1>1, <2>1, <2>2
<1>3. \A q \in Id : Transferred(q)' BY <1>2 DEF Transferred
<1>4. ServedMade' BY DEF IInv, RequestInv, ServedMade
<1>5. (\A q \in Id : Unmade(q)' /\ Linking(q)' /\ Aloof(q)') /\ CollectedMade'
  BY DEF IInv, RequestInv, Unmade, Linking, Started, Aloof, Silenced, Replayed, Settled,
    Successor, CollectedMade, Owner
<1> QED BY <1>3, <1>4, <1>5 DEF RequestInv

-----------------------------------------------------------------------------
(* Types.                                                                  *)

LEMMA MakeTypes ==
  ASSUME TypeOK, NEW S \in SUBSET Call, MakeAll(current, S)
  PROVE  /\ entry' \in [Id -> {"none", "open", "silenced"}]
         /\ timer' \in [Id -> BOOLEAN]
         /\ promise' \in [Id -> {"unmade", "pending", "resolved", "rejected"}]
         /\ resolver' \in [Id -> {"plain", "linked", "called"}]
         /\ transfer' \in [Id -> {"none", "registered", "running", "done", "failed"}]
         /\ served' \in [Id -> {"none", "received", "notified", "answered", "warned"}]
BY DEF TypeOK, MakeAll

LEMMA SettleTypes ==
  ASSUME TypeOK, NEW q \in Id, NEW how \in {"resolved", "rejected"}, Settle(q, how)
  PROVE  /\ timer' \in [Id -> BOOLEAN]
         /\ promise' \in [Id -> {"unmade", "pending", "resolved", "rejected"}]
         /\ resolver' \in [Id -> {"plain", "linked", "called"}]
<1>1. promise[q] \in {"unmade", "pending", "resolved", "rejected"} BY DEF TypeOK
<1>2. CASE how = "resolved" /\ resolver[q] = "linked" BY <1>2 DEF TypeOK, Settle
<1>3. CASE ~(how = "resolved" /\ resolver[q] = "linked")
  <2> DEFINE p == IF promise[q] = "pending" THEN how ELSE promise[q]
  <2>1. p \in {"unmade", "pending", "resolved", "rejected"} BY <1>1
  <2>2. /\ promise' = [promise EXCEPT ![q] = p]
        /\ timer' = [timer EXCEPT ![q] = FALSE] /\ resolver' = resolver
    BY <1>3 DEF Settle
  <2> HIDE DEF p
  <2> QED BY <2>1, <2>2 DEF TypeOK
<1> QED BY <1>2, <1>3

\* The first chunk, and what comes after it.
LEMMA FirstChunk ==
  ASSUME TypeOK, NEW ch \in Channel, arriving[ch] # <<>>
  PROVE  LET s == arriving[ch] IN
         /\ s \in Seq(Chunk) /\ Len(s) \in Nat \ {0}
         /\ Head(s) = s[1] /\ Head(s) \in Chunk /\ Head(s).line \in Line
         /\ Tail(s) \in Seq(Chunk) /\ Len(Tail(s)) = Len(s) - 1
         /\ \A i \in 1 .. Len(s) - 1 : Tail(s)[i] = s[i + 1]
<1> DEFINE s == arriving[ch]
<1>1. s \in Seq(Chunk) /\ s # <<>> BY DEF TypeOK
<1> HIDE DEF s
<1>2. Len(s) \in Nat \ {0} /\ Head(s) = s[1] /\ Head(s) \in Chunk /\ Tail(s) \in Seq(Chunk)
      /\ Len(Tail(s)) = Len(s) - 1 /\ \A i \in 1 .. Len(Tail(s)) : Tail(s)[i] = s[i + 1]
  BY <1>1, HeadTailProperties, EmptySeq, LenProperties
<1>3. Head(s).line \in Line BY <1>2, LineFacts
<1> QED BY <1>1, <1>2, <1>3 DEF s

LEMMA LineTypes ==
  ASSUME TypeOK, NEW ch \in Channel, OnData(ch)
  PROVE  TypeOK'
<1> DEFINE chunk == Head(arriving[ch])
<1> DEFINE q == <<current, chunk.line.call>>
<1>1. /\ arriving[ch] # <<>> /\ arriving' = [arriving EXCEPT ![ch] = Tail(@)]
      /\ UNCHANGED <<clientVars, served>>
      /\ \/ UNCHANGED <<mapVars, transfer, mPartial>>
         \/ /\ ProcessResponses(chunk, mPartial[ch])
            /\ mPartial' = [mPartial EXCEPT ![ch] = Rest(chunk, @)]
  BY DEF OnData
<1>2. chunk \in Chunk /\ chunk.line \in Line /\ Tail(arriving[ch]) \in Seq(Chunk)
  BY <1>1, FirstChunk
<1>3. q \in Id BY <1>2, LineFacts, IdFacts DEF TypeOK
<1> HIDE DEF chunk, q
<1>4. arriving' \in [Channel -> Seq(Chunk)] BY <1>1, <1>2 DEF TypeOK
<1>5. mPartial' \in [Channel -> Line \cup {NoLine, Garbled}] BY <1>1, <1>2 DEF TypeOK, Rest
<1>6. \/ UNCHANGED <<mapVars, transfer>> \/ HandleNotification(q)
      \/ \E how \in {"resolved", "rejected"} : HandleResponse(q, how)
  BY <1>1 DEF ProcessResponses, HandleLine, q
<1>7. /\ entry' \in [Id -> {"none", "open", "silenced"}]
      /\ timer' \in [Id -> BOOLEAN]
      /\ promise' \in [Id -> {"unmade", "pending", "resolved", "rejected"}]
      /\ resolver' \in [Id -> {"plain", "linked", "called"}]
      /\ transfer' \in [Id -> {"none", "registered", "running", "done", "failed"}]
  <2>1. CASE UNCHANGED <<mapVars, transfer>> BY <2>1 DEF mapVars, TypeOK
  <2>2. CASE HandleNotification(q) BY <1>3, <2>2 DEF HandleNotification, Linked, TypeOK
  <2>3. ASSUME NEW how \in {"resolved", "rejected"}, HandleResponse(q, how)
        PROVE  /\ entry' \in [Id -> {"none", "open", "silenced"}]
               /\ timer' \in [Id -> BOOLEAN]
               /\ promise' \in [Id -> {"unmade", "pending", "resolved", "rejected"}]
               /\ resolver' \in [Id -> {"plain", "linked", "called"}]
               /\ transfer' \in [Id -> {"none", "registered", "running", "done", "failed"}]
    <3>1. entry' = [entry EXCEPT ![q] = "none"] /\ transfer' = transfer
          /\ (Settle(q, how) \/ UNCHANGED <<promise, timer, resolver>>)
      BY <2>3 DEF HandleResponse
    <3>2. CASE Settle(q, how) BY <1>3, <3>1, <3>2, SettleTypes DEF TypeOK
    <3>3. CASE UNCHANGED <<promise, timer, resolver>> BY <1>3, <3>1, <3>3 DEF TypeOK
    <3> QED BY <3>1, <3>2, <3>3
  <2> QED BY <1>6, <2>1, <2>2, <2>3
<1> QED BY <1>1, <1>4, <1>5, <1>7 DEF TypeOK, clientVars

\* The chunks of a line the server writes.
LEMMA PieceFacts ==
  ASSUME NEW l \in Line, NEW chunks \in Pieces(l)
  PROVE  /\ chunks \in Seq(Chunk) /\ Len(chunks) \in {1, 2}
         /\ \A i \in 1 .. Len(chunks) : chunks[i].line = l
         /\ Len(chunks) = 1 => chunks[1].part # "head"
         /\ Len(chunks) = 2 => chunks[2] = [line |-> l, part |-> "tail"]
<1> DEFINE part(k) == [line |-> l, part |-> k]
<1>1. part("whole") \in Chunk /\ part("head") \in Chunk /\ part("tail") \in Chunk BY DEF Chunk
<1>2. /\ part("whole").line = l /\ part("head").line = l /\ part("tail").line = l
      /\ part("whole").part # "head"
  OBVIOUS
<1>3. chunks = <<part("whole")>> \/ chunks = <<part("head"), part("tail")>> BY DEF Pieces
<1>4. part("tail") = [line |-> l, part |-> "tail"] OBVIOUS
<1> HIDE DEF part
<1>5. CASE chunks = <<part("whole")>> BY <1>1, <1>2, <1>5
<1>6. CASE chunks = <<part("head"), part("tail")>> BY <1>1, <1>2, <1>4, <1>6
<1> QED BY <1>3, <1>5, <1>6

LEMMA WrittenTypes ==
  ASSUME TypeOK, NEW ch \in Channel, NEW q \in Id,
         NEW kind \in {"notification", "result", "error"}, WriteLine(ch, q, kind)
  PROVE  arriving' \in [Channel -> Seq(Chunk)]
<1>1. [call |-> q[2], kind |-> kind] \in Line BY LineFacts
<1>2. PICK chunks \in Pieces([call |-> q[2], kind |-> kind]) :
        arriving' = [arriving EXCEPT ![ch] = @ \o chunks]
  BY DEF WriteLine
<1>3. chunks \in Seq(Chunk) BY <1>1, PieceFacts
<1>4. arriving[ch] \o chunks \in Seq(Chunk) BY <1>3, ConcatProperties DEF TypeOK
<1> QED BY <1>2, <1>4 DEF TypeOK

LEMMA ServerTypes ==
  ASSUME TypeOK, NEW q \in Id, ServerNotifies(q) \/ ServerAnswers(q)
  PROVE  TypeOK'
<1>1. /\ UNCHANGED <<clientVars, mapVars, transfer, mPartial>>
      /\ \E s \in {"notified", "answered", "warned"} : served' = [served EXCEPT ![q] = s]
      /\ \E ch \in Channel, kind \in {"notification", "result", "error"} : WriteLine(ch, q, kind)
  BY DEF ServerNotifies, ServerAnswers, Answer, Channel
<1>2. arriving' \in [Channel -> Seq(Chunk)] BY <1>1, WrittenTypes
<1> QED BY <1>1, <1>2 DEF TypeOK, clientVars, mapVars

LEMMA TypeKeeps ==
  ASSUME TypeOK, [Next]_vars
  PROVE  TypeOK'
<1> USE DEF clientVars, mapVars, lineVars
<1>1. CASE UNCHANGED vars BY <1>1 DEF vars, TypeOK
<1>2. ASSUME NEW r \in Call, Request(r) PROVE TypeOK'
  <2>1. MakeAll(current, {r}) /\ UNCHANGED <<clientVars, lineVars>> BY <1>2 DEF Request
  <2> QED BY <2>1, MakeTypes DEF TypeOK
<1>3. ASSUME NEW q \in Id, RequestStep(q) PROVE TypeOK'
  <2>1. CASE Timeout(q) BY <2>1 DEF Timeout, TypeOK
  <2>2. CASE TransferEnds(q) BY <2>2 DEF TransferEnds, TypeOK
  <2>3. CASE StreamSettles(q) BY <2>3 DEF StreamSettles, TypeOK
  <2>4. CASE ReplaySettles(q)
    <3>1. \E how \in {"resolved", "rejected"} : Settle(q, how)
      BY <2>4 DEF ReplaySettles, Settled
    <3>2. UNCHANGED <<clientVars, entry, transfer, served, lineVars>> BY <2>4 DEF ReplaySettles
    <3> QED BY <3>1, <3>2, SettleTypes DEF TypeOK
  <2> QED BY <1>3, <2>1, <2>2, <2>3, <2>4 DEF RequestStep
<1>4. ASSUME NEW q \in Id, ServerNotifies(q) \/ ServerAnswers(q) PROVE TypeOK' BY <1>4, ServerTypes
<1>5. ASSUME NEW ch \in Channel, OnData(ch) PROVE TypeOK' BY <1>5, LineTypes
<1>6. CASE CreateReady
  <2>1. MakeAll(current, collected) /\ conn' = "up" /\ collected' = {} /\ UNCHANGED <<current, lineVars>>
    BY <1>6 DEF CreateReady
  <2> QED BY <2>1, MakeTypes DEF TypeOK
<1>7. CASE CreateFails BY <1>7 DEF CreateFails, TypeOK
<1>8. CASE CollectAllRequests BY <1>8 DEF CollectAllRequests, TypeOK
<1>9. CASE Dispose
  <2>1. <<>> \in Seq(Chunk) BY EmptySeq
  <2> QED BY <1>9, <2>1 DEF Dispose, TypeOK
<1>10. CASE CreateNext BY <1>10, ClientAssumption DEF CreateNext, TypeOK, Client
<1> QED BY <1>1, <1>2, <1>3, <1>4, <1>5, <1>6, <1>7, <1>8, <1>9, <1>10 DEF Next

-----------------------------------------------------------------------------
(* Lines.                                                                  *)

LEMMA LinesAside ==
  ASSUME IInv, UNCHANGED <<lineVars, current>>, conn' # "up" => conn # "up",
         \A q \in Id : MayResolve(q) => MayResolveNext(q)
  PROVE  LineInv'
<1> USE DEF lineVars
<1>1. Quiet' /\ HeadsTails' /\ StdoutWhole'
  BY DEF IInv, LineInv, Quiet, HeadsTails, StdoutWhole, Chunks
<1>2. ResultsLate'
  <2> SUFFICES ASSUME NEW ch \in Channel, NEW i \in Chunks(ch),
                      arriving[ch][i].line.kind = "result", arriving[ch][i].line.call \in Streamed
               PROVE  MayResolveNext(<<current, arriving[ch][i].line.call>>)
    BY DEF ResultsLate, MayResolve, MayResolveNext, Started, Chunks
  <2>1. MayResolve(<<current, arriving[ch][i].line.call>>) BY DEF IInv, LineInv, ResultsLate
  <2>2. <<current, arriving[ch][i].line.call>> \in Id
    BY IdFacts, ClientAssumption DEF IInv, TypeOK
  <2>3. MayResolveNext(<<current, arriving[ch][i].line.call>>) BY <2>1, <2>2
  <2> QED BY <2>3
<1> QED BY <1>1, <1>2 DEF LineInv

LEMMA NoLines ==
  ASSUME \A ch \in Channel : arriving'[ch] = <<>>, mPartial'["stdout"] = NoLine
  PROVE  LineInv'
<1>1. \A ch \in Channel : Chunks(ch)' = {} BY EmptySeq DEF Chunks
<1>2. "stdout" \in Channel BY DEF Channel
<1> QED BY <1>1, <1>2 DEF LineInv, Quiet, ResultsLate, HeadsTails, StdoutWhole

LEMMA WrittenKeeps ==
  ASSUME IInv, NEW ch \in Channel, NEW q \in Id, NEW kind \in {"notification", "result", "error"},
         WriteLine(ch, q, kind), Up, q[1] = current,
         kind = "result" /\ q[2] \in Streamed => MayResolveNext(q),
         \A p \in Id : MayResolve(p) => MayResolveNext(p),
         UNCHANGED <<conn, current, transfer, mPartial>>
  PROVE  LineInv'
<1> DEFINE l == [call |-> q[2], kind |-> kind]
<1> DEFINE s == arriving[ch]
<1>0. TypeOK /\ s \in Seq(Chunk) BY DEF IInv, TypeOK
<1>1. l \in Line /\ l.call = q[2] /\ l.kind = kind BY LineFacts
<1>2. PICK chunks \in Pieces(l) : arriving' = [arriving EXCEPT ![ch] = @ \o chunks]
  BY DEF WriteLine
<1> DEFINE n == Len(s)
<1>3. /\ chunks \in Seq(Chunk) /\ Len(chunks) \in {1, 2}
      /\ \A i \in 1 .. Len(chunks) : chunks[i].line = l
      /\ Len(chunks) = 1 => chunks[1].part # "head"
      /\ Len(chunks) = 2 => chunks[2] = [line |-> l, part |-> "tail"]
  BY <1>1, PieceFacts
<1>4. /\ n \in Nat /\ Len(s \o chunks) = n + Len(chunks)
      /\ \A i \in 1 .. n + Len(chunks) : (s \o chunks)[i] = IF i <= n THEN s[i] ELSE chunks[i - n]
  BY <1>0, <1>3, ConcatProperties, LenProperties
<1>5. /\ arriving'[ch] = s \o chunks
      /\ \A d \in Channel : d # ch => arriving'[d] = arriving[d]
  BY <1>0, <1>2 DEF TypeOK
<1>6. \A d \in Channel : d # ch => Chunks(d)' = Chunks(d) BY <1>5 DEF Chunks
<1>7. Chunks(ch)' = 1 .. n + Len(chunks) /\ Chunks(ch) = 1 .. n BY <1>4, <1>5 DEF Chunks
<1>8. chunks[2].part # "head" \/ Len(chunks) = 1 BY <1>3
<1>9. <<current, q[2]>> = q BY IdFacts
<1> HIDE DEF l, s, n
<1>10. Quiet' BY DEF Quiet, Up
<1>11. ResultsLate'
  <2> SUFFICES ASSUME NEW d \in Channel, NEW i \in Chunks(d)',
                      arriving'[d][i].line.kind = "result", arriving'[d][i].line.call \in Streamed
               PROVE  MayResolveNext(<<current, arriving'[d][i].line.call>>)
    BY DEF ResultsLate, MayResolve, MayResolveNext, Started
  <2>1. ASSUME NEW j \in Chunks(d), arriving'[d][i] = arriving[d][j]
        PROVE  MayResolveNext(<<current, arriving'[d][i].line.call>>)
    <3>1. MayResolve(<<current, arriving[d][j].line.call>>)
      BY <2>1 DEF IInv, LineInv, ResultsLate
    <3>2. <<current, arriving'[d][i].line.call>> \in Id
      BY <1>0, IdFacts, ClientAssumption DEF TypeOK
    <3> DEFINE p == <<current, arriving'[d][i].line.call>>
    <3>3. p \in Id /\ MayResolve(p) BY <2>1, <3>1, <3>2
    <3> HIDE DEF p
    <3>4. MayResolveNext(p) BY <3>3
    <3> QED BY <3>4 DEF p
  <2>2. CASE d # ch BY <1>5, <1>6, <2>1, <2>2
  <2>3. CASE d = ch /\ i <= n
    <3>1. i \in Chunks(ch) /\ arriving'[d][i] = arriving[ch][i]
      BY <1>4, <1>5, <1>7, <2>3 DEF s
    <3> QED BY <2>1, <2>3, <3>1
  <2>4. CASE d = ch /\ i > n
    <3>1. i - n \in 1 .. Len(chunks) /\ arriving'[d][i] = chunks[i - n]
      <4>1. i \in 1 .. n + Len(chunks) BY <1>7, <2>4
      <4>2. arriving'[d][i] = (s \o chunks)[i] BY <1>5, <2>4
      <4> QED BY <1>3, <1>4, <2>4, <4>1, <4>2
    <3>2. arriving'[d][i].line = l BY <1>3, <3>1
    <3> QED BY <1>1, <1>9, <3>2
  <2>5. i \in Nat BY <1>3, <1>4, <1>6, <1>7 DEF Chunks
  <2> QED BY <1>4, <2>2, <2>3, <2>4, <2>5
<1>12. HeadsTails' /\ StdoutWhole'
  <2>1. HeadsTails /\ StdoutWhole BY DEF IInv, LineInv
  <2>2. CASE ch # "stdout"
    <3>1. arriving'["stdout"] = arriving["stdout"] BY <1>5, <2>2 DEF Channel
    <3> QED BY <2>1, <3>1 DEF HeadsTails, StdoutWhole, Chunks
  <2>3. CASE ch = "stdout"
    <3>1. ASSUME NEW i \in 1 .. n + Len(chunks), (s \o chunks)[i].part = "head"
          PROVE  /\ i + 1 \in 1 .. n + Len(chunks)
                 /\ (s \o chunks)[i + 1] = [line |-> (s \o chunks)[i].line, part |-> "tail"]
      <4>1. CASE i <= n
        <5>1. i \in 1 .. n /\ (s \o chunks)[i] = s[i] BY <1>4, <4>1
        <5>2. i + 1 \in 1 .. n /\ s[i + 1] = [line |-> s[i].line, part |-> "tail"]
          BY <1>7, <2>1, <2>3, <3>1, <5>1 DEF HeadsTails, s
        <5> QED BY <1>3, <1>4, <5>1, <5>2
      <4>2. CASE i > n
        <5>1. i - n \in 1 .. Len(chunks) /\ (s \o chunks)[i] = chunks[i - n]
          BY <1>3, <1>4, <4>2
        <5>2. i - n = 1 /\ Len(chunks) = 2 BY <1>3, <1>8, <3>1, <5>1
        <5>3. i + 1 \in 1 .. n + Len(chunks) /\ i + 1 - n = 2 /\ i + 1 > n BY <1>4, <5>2
        <5>4. (s \o chunks)[i + 1] = chunks[2] BY <1>4, <5>3
        <5> QED BY <1>3, <5>1, <5>2, <5>3, <5>4
      <4> QED BY <1>3, <1>4, <4>1, <4>2
    <3>2. HeadsTails' BY <1>5, <1>7, <2>3, <3>1 DEF HeadsTails
    <3>3. StdoutWhole'
      <4> SUFFICES ASSUME mPartial["stdout"] # NoLine
                   PROVE  /\ s \o chunks # <<>>
                          /\ Head(s \o chunks) = [line |-> mPartial["stdout"], part |-> "tail"]
        BY <1>5, <2>3 DEF StdoutWhole
      <4>1. s # <<>> /\ Head(s) = [line |-> mPartial["stdout"], part |-> "tail"]
        BY <2>1, <2>3 DEF StdoutWhole, s
      <4>2. Head(s) = s[1] /\ n > 0 BY <1>0, <4>1, EmptySeq, LenProperties DEF n
      <4>3. s \o chunks # <<>> BY <1>3, <1>4, EmptySeq
      <4>4. (s \o chunks)[1] = s[1] BY <1>3, <1>4, <4>2
      <4>5. Head(s \o chunks) = (s \o chunks)[1] BY <1>0, <1>3, <4>3
      <4> QED BY <4>1, <4>2, <4>3, <4>4, <4>5
    <3> QED BY <3>2, <3>3
  <2> QED BY <2>2, <2>3
<1> QED BY <1>10, <1>11, <1>12 DEF LineInv

LEMMA DataKeeps ==
  ASSUME IInv, NEW ch \in Channel, OnData(ch), \A q \in Id : MayResolve(q) => MayResolveNext(q)
  PROVE  LineInv'
<1> DEFINE s == arriving[ch]
<1> DEFINE chunk == Head(s)
<1>0. TypeOK BY DEF IInv
<1>1. /\ Up /\ s # <<>> /\ arriving' = [arriving EXCEPT ![ch] = Tail(s)]
      /\ UNCHANGED clientVars
      /\ ch = "stdout" => mPartial' = [mPartial EXCEPT ![ch] = Rest(chunk, @)]
      /\ ch # "stdout" => mPartial'["stdout"] = mPartial["stdout"]
  <2>1. /\ Up /\ s # <<>> /\ arriving' = [arriving EXCEPT ![ch] = Tail(s)]
        /\ UNCHANGED clientVars
        /\ IF Discards(ch) THEN mPartial' = mPartial
           ELSE mPartial' = [mPartial EXCEPT ![ch] = Rest(chunk, @)]
    BY DEF OnData
  <2>2. ch = "stdout" => ~Discards(ch) BY DEF Discards
  <2>3. "stdout" \in Channel /\ mPartial \in [Channel -> Line \cup {NoLine, Garbled}]
    BY <1>0 DEF TypeOK, Channel
  <2> HIDE DEF s, chunk
  <2> QED BY <2>1, <2>2, <2>3
<1>2. /\ Len(s) \in Nat \ {0} /\ chunk = s[1]
      /\ Tail(s) \in Seq(Chunk) /\ Len(Tail(s)) = Len(s) - 1
      /\ \A i \in 1 .. Len(s) - 1 : Tail(s)[i] = s[i + 1]
  BY <1>0, <1>1, FirstChunk
<1>3. arriving'[ch] = Tail(s) /\ \A d \in Channel : d # ch => arriving'[d] = arriving[d]
  BY <1>0, <1>1 DEF TypeOK
<1>4. Chunks(ch)' = 1 .. Len(s) - 1 /\ Chunks(ch) = 1 .. Len(s) BY <1>2, <1>3 DEF Chunks
<1> HIDE DEF s, chunk
<1>5. Quiet' BY <1>1 DEF Quiet, Up, clientVars
<1>6. ResultsLate'
  <2> SUFFICES ASSUME NEW d \in Channel, NEW i \in Chunks(d)',
                      arriving'[d][i].line.kind = "result", arriving'[d][i].line.call \in Streamed
               PROVE  MayResolveNext(<<current, arriving'[d][i].line.call>>)
    BY <1>1 DEF ResultsLate, MayResolve, MayResolveNext, Started, clientVars
  <2>1. \E j \in Chunks(d) : arriving'[d][i] = arriving[d][j]
    <3>1. CASE d # ch BY <1>3, <3>1 DEF Chunks
    <3>2. CASE d = ch
      <4>1. i + 1 \in Chunks(ch) /\ arriving'[ch][i] = arriving[ch][i + 1]
        BY <1>2, <1>3, <1>4, <3>2 DEF s
      <4> QED BY <3>2, <4>1
    <3> QED BY <3>1, <3>2
  <2>2. MayResolve(<<current, arriving'[d][i].line.call>>) BY <2>1 DEF IInv, LineInv, ResultsLate
  <2>3. <<current, arriving'[d][i].line.call>> \in Id
    BY <1>0, IdFacts, ClientAssumption DEF TypeOK
  <2> DEFINE q == <<current, arriving'[d][i].line.call>>
  <2>4. q \in Id /\ MayResolve(q) BY <2>2, <2>3
  <2> HIDE DEF q
  <2>5. MayResolveNext(q) BY <2>4
  <2> QED BY <2>5 DEF q
<1>7. HeadsTails' /\ StdoutWhole'
  <2>1. HeadsTails /\ StdoutWhole BY DEF IInv, LineInv
  <2>2. CASE ch # "stdout"
    <3>1. arriving'["stdout"] = arriving["stdout"] BY <1>3, <2>2 DEF Channel
    <3> QED BY <1>1, <2>1, <2>2, <3>1 DEF HeadsTails, StdoutWhole, Chunks
  <2>3. CASE ch = "stdout"
    <3>1. ASSUME NEW i \in 1 .. Len(s), s[i].part = "head"
          PROVE  i + 1 \in 1 .. Len(s) /\ s[i + 1] = [line |-> s[i].line, part |-> "tail"]
      BY <1>4, <2>1, <2>3, <3>1 DEF HeadsTails, s
    <3>2. ASSUME NEW i \in 1 .. Len(s) - 1, Tail(s)[i].part = "head"
          PROVE  i + 1 \in 1 .. Len(s) - 1 /\ Tail(s)[i + 1] = [line |-> Tail(s)[i].line, part |-> "tail"]
      <4>1. Tail(s)[i] = s[i + 1] /\ i + 1 \in 1 .. Len(s) BY <1>2
      <4>2. i + 1 + 1 \in 1 .. Len(s) /\ s[i + 1 + 1] = [line |-> s[i + 1].line, part |-> "tail"]
        BY <3>1, <3>2, <4>1
      <4>3. i + 1 \in 1 .. Len(s) - 1 BY <1>2, <4>2
      <4>4. Tail(s)[i + 1] = s[i + 1 + 1] BY <1>2, <4>3
      <4> QED BY <4>1, <4>2, <4>3, <4>4
    <3>3. HeadsTails' BY <1>3, <1>4, <2>3, <3>2 DEF HeadsTails
    <3>4. mPartial'["stdout"] = Rest(chunk, mPartial["stdout"]) BY <1>0, <1>1, <2>3 DEF TypeOK, Channel
    <3>5. CASE chunk.part # "head" BY <3>3, <3>4, <3>5 DEF StdoutWhole, Rest
    <3>6. CASE chunk.part = "head"
      <4>1. mPartial["stdout"] = NoLine BY <2>1, <2>3, <3>6 DEF StdoutWhole, s, chunk
      <4>2. mPartial'["stdout"] = chunk.line BY <3>4, <3>6, <4>1 DEF Rest
      <4>3. 1 + 1 \in 1 .. Len(s) /\ s[1 + 1] = [line |-> chunk.line, part |-> "tail"]
        BY <1>2, <3>1, <3>6
      <4>4. 1 \in 1 .. Len(s) - 1 /\ Len(Tail(s)) # 0 BY <1>2, <4>3
      <4>5. Tail(s) # <<>> /\ Tail(s)[1] = s[1 + 1] BY <1>2, <4>4, EmptySeq
      <4>6. Head(Tail(s)) = Tail(s)[1] BY <1>2, <4>5
      <4> QED BY <1>3, <2>3, <3>3, <4>2, <4>3, <4>5, <4>6 DEF StdoutWhole
    <3> QED BY <3>3, <3>5, <3>6
  <2> QED BY <2>2, <2>3
<1> QED BY <1>5, <1>6, <1>7 DEF LineInv

-----------------------------------------------------------------------------
(* All steps.                                                              *)

\* What a chunk does to the requests.
LEMMA DataHandled ==
  ASSUME IInv, NEW ch \in Channel, OnData(ch)
  PROVE  /\ UNCHANGED <<clientVars, served>>
         /\ \/ UNCHANGED <<mapVars, transfer>>
            \/ \E q \in Id : entry[q] # "none" /\
                 \/ HandleNotification(q)
                 \/ \E how \in {"resolved", "rejected"} :
                      HandleResponse(q, how) /\ (how = "resolved" /\ q[2] \in Streamed => MayResolve(q))
<1> DEFINE l == Head(arriving[ch]).line
<1> DEFINE q == <<current, l.call>>
<1>0. TypeOK /\ arriving[ch] # <<>> /\ UNCHANGED <<clientVars, served>> BY DEF IInv, OnData
<1>1. /\ l \in Line /\ Head(arriving[ch]) = arriving[ch][1] /\ 1 \in Chunks(ch)
  BY <1>0, FirstChunk DEF Chunks
<1>2. q \in Id /\ q[2] = l.call BY <1>0, <1>1, LineFacts, IdFacts DEF TypeOK
<1>3. l.kind = "result" /\ l.call \in Streamed => MayResolve(q)
  BY <1>1 DEF IInv, LineInv, ResultsLate
<1>4. UNCHANGED <<mapVars, transfer>> \/ HandleLine(l) BY DEF OnData, ProcessResponses
<1> HIDE DEF l
<1>5. CASE HandleLine(l) /\ ~UNCHANGED <<mapVars, transfer>>
  <2>1. /\ entry[q] # "none"
        /\ \/ HandleNotification(q)
           \/ HandleResponse(q, IF l.kind = "result" THEN "resolved" ELSE "rejected")
    BY <1>5 DEF HandleLine
  <2> HIDE DEF q
  <2>2. CASE HandleNotification(q) BY <1>0, <1>2, <2>1, <2>2
  <2>3. CASE HandleResponse(q, IF l.kind = "result" THEN "resolved" ELSE "rejected")
    <3> DEFINE how == IF l.kind = "result" THEN "resolved" ELSE "rejected"
    <3>1. how \in {"resolved", "rejected"} /\ (how = "resolved" => l.kind = "result") OBVIOUS
    <3>2. HandleResponse(q, how) BY <2>3
    <3> HIDE DEF how
    <3> QED BY <1>0, <1>2, <1>3, <2>1, <3>1, <3>2
  <2> QED BY <2>1, <2>2, <2>3
<1> QED BY <1>0, <1>4, <1>5

LEMMA StartedStays ==
  ASSUME IInv, [Next]_vars, NEW p \in Id, Started(p)
  PROVE  Started(p)'
<1>0. TypeOK BY DEF IInv
<1>1. CASE transfer' = transfer BY <1>1 DEF Started
<1>2. ASSUME NEW q \in Id, transfer[q] \in {"registered", "running"},
             NEW t \in {"running", "done", "failed"}, transfer' = [transfer EXCEPT ![q] = t]
      PROVE  Started(p)'
  BY <1>0, <1>2 DEF Started, TypeOK
<1>3. ASSUME NEW S \in SUBSET Call, MakeAll(current, S),
             \A q \in Id : q[1] = current /\ q[2] \in S => promise[q] = "unmade"
      PROVE  Started(p)'
  <2>1. \A q \in Id : promise[q] = "unmade" => transfer[q] = "none" BY DEF IInv, RequestInv, Unmade
  <2>2. Makes(S) BY <1>0, <1>3, <2>1, MakesAll
  <2>3. ~(p[1] = current /\ p[2] \in S) BY <1>3, <2>1 DEF Started
  <2> QED BY <2>2, <2>3 DEF Makes, Started
<1>4. ASSUME NEW r \in Call, Request(r) PROVE Started(p)'
  <2>1. \A q \in Id : q[1] = current /\ q[2] \in {r} => promise[q] = "unmade"
    BY <1>4, IdFacts DEF Request
  <2>2. MakeAll(current, {r}) BY <1>4 DEF Request
  <2> QED BY <1>3, <2>1, <2>2
<1>5. CASE CreateReady
  <2>1. MakeAll(current, collected) /\ conn = "creating" /\ collected \in SUBSET Call
    BY <1>0, <1>5 DEF CreateReady, TypeOK
  <2>2. \A q \in Id : q[1] = current => promise[q] = "unmade"
    BY <2>1 DEF IInv, RequestInv, Unmade
  <2> QED BY <1>3, <2>1, <2>2
<1>6. ASSUME NEW ch \in Channel, OnData(ch) PROVE Started(p)'
  <2>1. ASSUME NEW q \in Id, HandleNotification(q) PROVE Started(p)'
    BY <1>1, <1>2, <2>1 DEF HandleNotification
  <2>2. ASSUME NEW q \in Id, NEW how \in {"resolved", "rejected"}, HandleResponse(q, how) PROVE Started(p)'
    BY <1>1, <2>2 DEF HandleResponse
  <2> QED BY <1>1, <1>6, <2>1, <2>2, DataHandled
<1>7. ASSUME NEW q \in Id, RequestStep(q) PROVE Started(p)'
  <2>1. CASE TransferEnds(q) BY <1>2, <2>1 DEF TransferEnds
  <2>2. CASE Timeout(q) \/ StreamSettles(q) \/ ReplaySettles(q)
    BY <1>1, <2>2 DEF Timeout, StreamSettles, ReplaySettles
  <2> QED BY <1>7, <2>1, <2>2 DEF RequestStep
<1>8. ASSUME NEW q \in Id, ServerNotifies(q) \/ ServerAnswers(q) PROVE Started(p)'
  BY <1>1, <1>8 DEF ServerNotifies, ServerAnswers
<1>9. CASE CreateFails \/ CollectAllRequests \/ Dispose \/ CreateNext \/ UNCHANGED vars
  BY <1>1, <1>9 DEF CreateFails, CollectAllRequests, Dispose, CreateNext, vars
<1> QED BY <1>4, <1>5, <1>6, <1>7, <1>8, <1>9 DEF Next

LEMMA WarnedStays ==
  ASSUME IInv, [Next]_vars, NEW p \in Id, served[p] = "warned"
  PROVE  served'[p] = "warned"
<1>0. TypeOK /\ promise[p] # "unmade" BY DEF IInv, RequestInv, ServedMade
<1>1. CASE served' = served BY <1>1
<1>2. ASSUME NEW S \in SUBSET Call, MakeAll(current, S), p \notin {current} \X S
      PROVE  served'[p] = "warned"
  BY <1>2 DEF MakeAll
<1>3. ASSUME NEW r \in Call, Request(r) PROVE served'[p] = "warned"
  <2>1. p[2] # r BY <1>0, <1>3, IdFacts DEF Request
  <2>2. p \notin {current} \X {r} BY <1>0, <2>1, IdFacts DEF TypeOK
  <2> QED BY <1>2, <1>3, <2>2 DEF Request
<1>4. CASE CreateReady
  <2>1. p[1] # current BY <1>0, <1>4 DEF CreateReady, IInv, RequestInv, Unmade
  <2>2. p \notin {current} \X collected /\ collected \in SUBSET Call
    BY <1>0, <2>1, IdFacts DEF TypeOK
  <2> QED BY <1>2, <1>4, <2>2 DEF CreateReady
<1>5. ASSUME NEW q \in Id, ServerNotifies(q) \/ ServerAnswers(q) PROVE served'[p] = "warned"
  BY <1>0, <1>5 DEF ServerNotifies, ServerAnswers, TypeOK
<1>6. ASSUME NEW q \in Id, RequestStep(q) PROVE served'[p] = "warned"
  BY <1>1, <1>6 DEF RequestStep, Timeout, TransferEnds, StreamSettles, ReplaySettles
<1>7. ASSUME NEW ch \in Channel, OnData(ch) PROVE served'[p] = "warned"
  BY <1>1, <1>7 DEF OnData
<1>8. CASE CreateFails \/ CollectAllRequests \/ Dispose \/ CreateNext \/ UNCHANGED vars
  BY <1>1, <1>8 DEF CreateFails, CollectAllRequests, Dispose, CreateNext, vars
<1> QED BY <1>3, <1>4, <1>5, <1>6, <1>7, <1>8 DEF Next

LEMMA RequestsKeep ==
  ASSUME IInv, [Next]_vars
  PROVE  RequestInv'
<1>1. ASSUME NEW q \in Id, RequestStep(q) PROVE RequestInv'
  BY <1>1, TimeoutKeeps, TransferKeeps, StreamKeeps, ReplayKeeps DEF RequestStep
<1>2. ASSUME NEW q \in Id, ServerNotifies(q) \/ ServerAnswers(q) PROVE RequestInv'
  <2>1. TypeOK /\ UNCHANGED <<clientVars, mapVars, transfer>> /\ served[q] # "none"
    BY <1>2 DEF IInv, ServerNotifies, ServerAnswers
  <2>2. \A p \in Id : p # q => served'[p] = served[p]
    BY <1>2, <2>1 DEF ServerNotifies, ServerAnswers, TypeOK
  <2>3. \A p \in Id : served[p] = "warned" => served'[p] = "warned" BY WarnedStays, <1>2 DEF Next
  <2> QED BY <2>1, <2>2, <2>3, QuietKeeps
<1>3. ASSUME NEW ch \in Channel, OnData(ch) PROVE RequestInv'
  BY <1>3, DataHandled, QuietKeeps, NotificationKeeps, ResponseKeeps
<1>4. CASE UNCHANGED vars BY <1>4, QuietKeeps DEF vars
<1> QED BY <1>1, <1>2, <1>3, <1>4, RequestKeeps, ReadyKeeps, CreationKeeps, CollectKeeps, DisposeKeeps DEF Next

LEMMA LinesKeep ==
  ASSUME IInv, [Next]_vars
  PROVE  LineInv'
<1> USE DEF clientVars
<1>0. \A q \in Id : MayResolve(q) => MayResolveNext(q)
  BY StartedStays, WarnedStays DEF MayResolve, MayResolveNext, Started
<1>1. CASE UNCHANGED <<lineVars, current>> /\ (conn' # "up" => conn # "up")
  BY <1>0, <1>1, LinesAside
<1>2. ASSUME NEW q \in Id, RequestStep(q) PROVE LineInv'
  BY <1>1, <1>2 DEF RequestStep, Timeout, TransferEnds, StreamSettles, ReplaySettles
<1>3. ASSUME NEW r \in Call, Request(r) PROVE LineInv' BY <1>1, <1>3 DEF Request
<1>4. CASE CreateReady \/ CreateFails \/ CollectAllRequests \/ UNCHANGED vars
  BY <1>1, <1>4 DEF CreateReady, CreateFails, CollectAllRequests, vars
<1>5. ASSUME NEW ch \in Channel, OnData(ch) PROVE LineInv' BY <1>0, <1>5, DataKeeps
<1>6. CASE Dispose
  <2>1. \A ch \in Channel : arriving'[ch] = <<>> /\ mPartial'[ch] = NoLine BY <1>6 DEF Dispose
  <2> QED BY <2>1, NoLines DEF Channel
<1>7. CASE CreateNext
  <2>1. UNCHANGED lineVars /\ conn # "up" BY <1>7 DEF CreateNext
  <2>2. \A ch \in Channel : arriving[ch] = <<>> BY <2>1 DEF IInv, LineInv, Quiet
  <2>3. mPartial["stdout"] = NoLine BY <2>2 DEF IInv, LineInv, StdoutWhole, Channel
  <2> QED BY <2>1, <2>2, <2>3, NoLines DEF lineVars
<1>8. ASSUME NEW q \in Id, ServerNotifies(q) PROVE LineInv'
  <2>1. /\ WriteLine("stdout", q, "notification") /\ Up /\ q[1] = current
        /\ UNCHANGED <<conn, current, transfer, mPartial>> /\ "stdout" \in Channel
    BY <1>8 DEF ServerNotifies, Channel
  <2> QED BY <1>0, <2>1, WrittenKeeps
<1>9. ASSUME NEW q \in Id, ServerAnswers(q) PROVE LineInv'
  <2>0. TypeOK BY DEF IInv
  <2>1. /\ Up /\ q[1] = current /\ UNCHANGED <<conn, current, transfer, mPartial>>
        /\ \/ WriteLine("stdout", q, "result") /\ (q[2] \in Streamed => MayResolveNext(q))
           \/ WriteLine("stderr", q, "error")
        /\ "stdout" \in Channel /\ "stderr" \in Channel
    BY <1>9, <2>0 DEF ServerAnswers, Answer, Channel, MayResolveNext, TypeOK, clientVars
  <2> QED BY <1>0, <2>1, WrittenKeeps
<1> QED BY <1>2, <1>3, <1>4, <1>5, <1>6, <1>7, <1>8, <1>9 DEF Next

LEMMA Invariance == Spec => []IInv
<1>1. IInv /\ [Next]_vars => IInv' BY TypeKeeps, RequestsKeep, LinesKeep DEF IInv
<1> QED BY <1>1, InitInv, PTL DEF Spec

-----------------------------------------------------------------------------
(* The theorems.                                                           *)

\* TypeOK always holds: the variables of SshClient have their types.
THEOREM TypeCorrect == Spec => []TypeOK
<1>1. IInv => TypeOK BY DEF IInv
<1> QED BY <1>1, Invariance, PTL

\* StdoutWhole always holds: what onOutData keeps of one chunk is the first
\* half of a line whose other half comes next, whatever happens between them.
THEOREM LinesStayWhole == Spec => []StdoutWhole
<1>1. IInv => StdoutWhole BY DEF IInv, LineInv
<1> QED BY <1>1, Invariance, PTL

\* ResolvedMeansTransferred always holds: a streamed call resolves, directly
\* or through its replays, only when a transfer made for it is complete
\* (linkStreamToPromise), or with the result of a server that could not make
\* its FIFO and says so in it.
THEOREM TransferredFirst == Spec => []ResolvedMeansTransferred
<1>1. IInv => ResolvedMeansTransferred BY DEF IInv, RequestInv, Transferred, ResolvedMeansTransferred
<1> QED BY <1>1, Invariance, PTL

\* Who settles a promise of a silenced request: nobody but its replay.
LEMMA OneSettles ==
  ASSUME IInv, NEW q \in Id, NEW p \in Id, Silenced(p), promise'[p] # promise[p],
         \/ Timeout(q) \/ StreamSettles(q) \/ ReplaySettles(q)
         \/ \E how \in {"resolved", "rejected"} : HandleResponse(q, how)
  PROVE  Replayed(p) /\ Settled(Successor(p))
<1>0. TypeOK /\ Linking(q) /\ Aloof(p) BY DEF IInv, RequestInv
<1>1. p = q
  BY <1>0 DEF Timeout, StreamSettles, ReplaySettles, HandleResponse, Settle, TypeOK
<1>2. entry[p] # "open" BY <1>0 DEF Aloof
<1>3. ~Timeout(q) /\ \A how \in {"resolved", "rejected"} : ~HandleResponse(q, how)
  BY <1>0, <1>1, <1>2 DEF Timeout, HandleResponse, Listening, TypeOK
<1>4. CASE StreamSettles(q) BY <1>0, <1>1, <1>4 DEF StreamSettles, Aloof
<1>5. CASE ReplaySettles(q) BY <1>1, <1>5 DEF ReplaySettles, Successor
<1> QED BY <1>3, <1>4, <1>5

LEMMA MakesNone ==
  ASSUME IInv, NEW S \in SUBSET Call, Makes(S), NEW p \in Id, Silenced(p)
  PROVE  promise'[p] = promise[p]
<1>1. promise[p] # "unmade"
  <2>1. CASE entry[p] = "silenced" BY <2>1 DEF IInv, RequestInv, Unmade
  <2>2. CASE Replayed(p) BY <2>2 DEF Replayed
  <2>3. CASE p[1] = Owner /\ p[2] \in collected
    BY <2>3, IdFacts DEF IInv, RequestInv, CollectedMade
  <2> QED BY <2>1, <2>2, <2>3 DEF Silenced
<1> QED BY <1>1 DEF Makes

\* SilencedLeftAlone: once a call was collected (collectAllRequests(true)), no
\* late response, no timeout, no stream and no dispose of the old client
\* settles it; only its replay does.
THEOREM SilencedAreLeft == Spec => SilencedLeftAlone
<1>1. IInv /\ [Next]_vars =>
        [\A q \in Id : Silenced(q) /\ promise'[q] # promise[q]
                         => Replayed(q) /\ Settled(<<q[1] + 1, q[2]>>)]_vars
  <2> SUFFICES ASSUME IInv, [Next]_vars, NEW p \in Id, Silenced(p), promise'[p] # promise[p]
               PROVE  Replayed(p) /\ Settled(Successor(p))
    BY DEF Successor
  <2>0. TypeOK /\ promise' # promise BY DEF IInv
  <2>1. ASSUME NEW r \in Call, Request(r) PROVE FALSE
    <3>1. \A q \in Id : q[1] = current /\ q[2] \in {r} => promise[q] = "unmade" /\ transfer[q] = "none"
      BY <2>1, IdFacts DEF Request, IInv, RequestInv, Unmade
    <3>2. Makes({r}) BY <2>0, <2>1, <3>1, MakesAll DEF Request
    <3> QED BY <3>2, MakesNone
  <2>2. CASE CreateReady
    <3>1. MakeAll(current, collected) /\ conn = "creating" /\ collected \in SUBSET Call
      BY <2>0, <2>2 DEF CreateReady, TypeOK
    <3>2. \A q \in Id : q[1] = current => promise[q] = "unmade" /\ transfer[q] = "none"
      BY <3>1 DEF IInv, RequestInv, Unmade
    <3>3. Makes(collected) BY <2>0, <3>1, <3>2, MakesAll
    <3> QED BY <3>1, <3>3, MakesNone
  <2>3. ASSUME NEW q \in Id, RequestStep(q) PROVE Replayed(p) /\ Settled(Successor(p))
    <3>1. ~TransferEnds(q) BY <2>0 DEF TransferEnds, mapVars
    <3> QED BY <2>3, <3>1, OneSettles DEF RequestStep
  <2>4. ASSUME NEW ch \in Channel, OnData(ch) PROVE Replayed(p) /\ Settled(Successor(p))
    <3>1. \E q \in Id, how \in {"resolved", "rejected"} : HandleResponse(q, how)
      BY <2>0, <2>4, DataHandled DEF HandleNotification, mapVars
    <3> QED BY <3>1, OneSettles
  <2>5. CASE Dispose
    <3>1. entry[p] # "open" BY DEF IInv, RequestInv, Aloof
    <3> QED BY <2>5, <3>1 DEF Dispose, Rejected
  <2>6. ~CreateFails /\ ~CollectAllRequests /\ ~CreateNext /\ ~UNCHANGED vars
    BY <2>0 DEF CreateFails, CollectAllRequests, CreateNext, vars, mapVars
  <2>7. \A q \in Id : ~ServerNotifies(q) /\ ~ServerAnswers(q)
    BY <2>0 DEF ServerNotifies, ServerAnswers, mapVars
  <2> QED BY <2>1, <2>2, <2>3, <2>4, <2>5, <2>6, <2>7 DEF Next
<1> QED BY <1>1, Invariance, PTL DEF Spec, SilencedLeftAlone

-----------------------------------------------------------------------------
(* Who settles a call.                                                     *)

\* A pending request whose entry has gone was collected, is replayed or
\* belongs to an earlier client, unless its resolve waits for the stream; the
\* resolve is linked when the transfer starts, never before.
Known(q) ==
  promise[q] = "pending" =>
    entry[q] = "open" \/ resolver[q] = "called" \/ Replayed(q) \/ q[2] \in collected \/ q[1] < current
LinkedLate(q) == resolver[q] # "plain" => Started(q)

CallInv == \A q \in Id : TimerKept(q) /\ Known(q) /\ LinkedLate(q)

LEMMA SomebodyFollows == IInv /\ CallInv => ClientInv
<1> SUFFICES ASSUME IInv, CallInv, NEW q \in Id, promise[q] = "pending"
             PROVE SomebodySettles(q)
  BY DEF CallInv, ClientInv, IInv, SomebodySettles
<1>1. /\ entry[q] = "open" \/ resolver[q] = "called" \/ Replayed(q) \/ q[2] \in collected \/ q[1] < current
      /\ LinkedLate(q)
  BY DEF CallInv, Known
<1>2. /\ q[1] \in Client /\ q = <<q[1], q[2]>> /\ q[1] >= q[1] BY IdFacts
<1>3. ASSUME \/ ~Replayed(q) /\ (q[2] \in collected \/ q[1] < current)
             \/ resolver[q] = "called" /\ transfer[q] = "failed"
      PROVE  Abandoned(q)
  BY <1>2, <1>3 DEF Abandoned
<1>4. CASE resolver[q] = "called"
  BY <1>1, <1>3, <1>4 DEF LinkedLate, Started, SomebodySettles
<1>5. CASE resolver[q] # "called" BY <1>1, <1>3, <1>5 DEF SomebodySettles
<1> QED BY <1>4, <1>5

\* A step of one request: its entry may go, but then its promise is settled or
\* its resolve waits for the stream.
OneCall(q) ==
  /\ UNCHANGED clientVars
  /\ \A p \in Id : p # q => /\ entry'[p] = entry[p] /\ promise'[p] = promise[p] /\ timer'[p] = timer[p]
                            /\ resolver'[p] = resolver[p] /\ transfer'[p] = transfer[p]
  /\ promise[q] # "unmade" /\ promise'[q] # "unmade"
  /\ promise'[q] = "pending" =>
       /\ promise[q] = "pending"
       /\ entry'[q] = "open" \/ resolver'[q] = "called" \/ (entry[q] # "open" /\ resolver[q] # "called")
  /\ TimerKept(q)' /\ LinkedLate(q)'

LEMMA OneCallKeeps ==
  ASSUME CallInv, NEW q \in Id, OneCall(q)
  PROVE  CallInv'
<1> USE DEF clientVars
<1>1. \A p \in Id : TimerKept(p) /\ Known(p) /\ LinkedLate(p) BY DEF CallInv
<1>2. /\ UNCHANGED <<current, conn, collected>>
      /\ \A p \in Id : promise[p] # "unmade" <=> promise'[p] # "unmade"
  BY DEF OneCall
<1>3. \A p \in Id : Replayed(p)' = Replayed(p) BY <1>2, IdFacts DEF Replayed
<1>4. ASSUME NEW p \in Id, p # q PROVE TimerKept(p)' /\ Known(p)' /\ LinkedLate(p)'
  <2>1. /\ entry'[p] = entry[p] /\ promise'[p] = promise[p] /\ timer'[p] = timer[p]
        /\ resolver'[p] = resolver[p] /\ transfer'[p] = transfer[p]
    BY <1>4 DEF OneCall
  <2> QED BY <1>1, <1>2, <1>3, <2>1 DEF TimerKept, Known, LinkedLate, Started, Up
<1>5. TimerKept(q)' /\ LinkedLate(q)' BY DEF OneCall
<1>6. Known(q)' BY <1>1, <1>2, <1>3 DEF OneCall, Known
<1> QED BY <1>4, <1>5, <1>6 DEF CallInv

\* rpc.resolve or rpc.reject is called of a request that is not settled.
LEMMA SettleCall ==
  ASSUME IInv, CallInv, NEW q \in Id, NEW how \in {"resolved", "rejected"}, Settle(q, how),
         promise[q] = "pending", resolver[q] # "called", UNCHANGED <<clientVars, transfer>>,
         entry' = [entry EXCEPT ![q] = "none"] \/ (entry' = entry /\ entry[q] # "open")
  PROVE  CallInv'
<1>0. TypeOK /\ TimerKept(q) /\ LinkedLate(q) BY DEF IInv, CallInv
<1>1. /\ entry'[q] # "open" /\ \A p \in Id : p # q => entry'[p] = entry[p]
  BY <1>0 DEF TypeOK
<1>2. CASE how = "resolved" /\ resolver[q] = "linked"
  <2>1. resolver' = [resolver EXCEPT ![q] = "called"] /\ UNCHANGED <<promise, timer>>
    BY <1>2 DEF Settle
  <2>2. resolver'[q] = "called" /\ \A p \in Id : p # q => resolver'[p] = resolver[p]
    BY <1>0, <2>1 DEF TypeOK
  <2>3. TimerKept(q)' BY <1>0, <1>1, <2>1, <2>2 DEF TimerKept
  <2>4. LinkedLate(q)' BY <1>0, <1>2 DEF LinkedLate, Started
  <2>5. OneCall(q) BY <1>1, <2>1, <2>2, <2>3, <2>4 DEF OneCall
  <2> QED BY <2>5, OneCallKeeps
<1>3. CASE ~(how = "resolved" /\ resolver[q] = "linked")
  <2>1. /\ promise' = [promise EXCEPT ![q] = IF @ = "pending" THEN how ELSE @]
        /\ timer' = [timer EXCEPT ![q] = FALSE] /\ resolver' = resolver
    BY <1>3 DEF Settle
  <2>2. /\ promise'[q] = how /\ ~timer'[q]
        /\ \A p \in Id : p # q => promise'[p] = promise[p] /\ timer'[p] = timer[p]
    BY <1>0, <2>1 DEF TypeOK
  <2>3. TimerKept(q)' BY <1>1, <2>2 DEF TimerKept
  <2>4. LinkedLate(q)' BY <1>0, <2>1 DEF LinkedLate, Started
  <2>5. OneCall(q) BY <1>1, <2>1, <2>2, <2>3, <2>4 DEF OneCall
  <2> QED BY <2>5, OneCallKeeps
<1> QED BY <1>2, <1>3

LEMMA CallSteps ==
  ASSUME IInv, CallInv, NEW q \in Id, RequestStep(q)
  PROVE  CallInv'
<1>0. /\ TypeOK /\ TimerKept(q) /\ LinkedLate(q) /\ Known(q) /\ Unmade(q) /\ Linking(q)
  BY DEF IInv, RequestInv, CallInv
<1>1. CASE Timeout(q)
  <2>1. /\ timer[q] /\ timer' = [timer EXCEPT ![q] = FALSE]
        /\ entry' = [entry EXCEPT ![q] = "none"]
        /\ promise' = [promise EXCEPT ![q] = IF entry[q] = "open" THEN "rejected" ELSE @]
        /\ UNCHANGED <<clientVars, resolver, transfer>>
    BY <1>1 DEF Timeout
  <2>2. /\ ~timer'[q] /\ entry'[q] = "none"
        /\ promise'[q] = IF entry[q] = "open" THEN "rejected" ELSE promise[q]
        /\ \A p \in Id : p # q => entry'[p] = entry[p] /\ promise'[p] = promise[p] /\ timer'[p] = timer[p]
    BY <1>0, <2>1 DEF TypeOK
  <2>3. promise[q] = "pending" /\ (entry[q] = "open" \/ resolver[q] = "called")
    BY <1>0, <2>1 DEF TimerKept
  <2>4. TimerKept(q)' BY <2>2 DEF TimerKept
  <2>5. LinkedLate(q)' BY <1>0, <2>1 DEF LinkedLate, Started
  <2>6. OneCall(q) BY <2>1, <2>2, <2>3, <2>4, <2>5 DEF OneCall
  <2> QED BY <2>6, OneCallKeeps
<1>2. CASE TransferEnds(q)
  <2>1. /\ transfer[q] = "running" /\ UNCHANGED <<clientVars, entry, timer, promise, resolver>>
        /\ \E end \in {"done", "failed"} : transfer' = [transfer EXCEPT ![q] = end]
    BY <1>2 DEF TransferEnds, mapVars
  <2>2. Started(q)' /\ \A p \in Id : p # q => transfer'[p] = transfer[p]
    BY <1>0, <2>1 DEF Started, TypeOK
  <2>3. promise[q] # "unmade" BY <1>0, <2>1 DEF Unmade
  <2>4. TimerKept(q)' BY <1>0, <2>1 DEF TimerKept, Up, clientVars
  <2>5. LinkedLate(q)' BY <2>2 DEF LinkedLate
  <2>6. OneCall(q) BY <2>1, <2>2, <2>3, <2>4, <2>5 DEF OneCall
  <2> QED BY <2>6, OneCallKeeps
<1>3. CASE StreamSettles(q)
  <2>1. /\ resolver[q] = "called" /\ promise[q] = "pending"
        /\ UNCHANGED <<clientVars, entry, resolver, transfer>> /\ timer' = [timer EXCEPT ![q] = FALSE]
        /\ \E how \in {"resolved", "rejected"} : promise' = [promise EXCEPT ![q] = how]
    BY <1>3 DEF StreamSettles
  <2>2. /\ ~timer'[q] /\ promise'[q] \in {"resolved", "rejected"}
        /\ \A p \in Id : p # q => promise'[p] = promise[p] /\ timer'[p] = timer[p]
    BY <1>0, <2>1 DEF TypeOK
  <2>3. entry'[q] # "open" BY <1>0, <2>1 DEF Linking
  <2>4. TimerKept(q)' BY <2>2, <2>3 DEF TimerKept
  <2>5. LinkedLate(q)' BY <1>0, <2>1 DEF LinkedLate, Started
  <2>6. OneCall(q) BY <2>1, <2>2, <2>4, <2>5 DEF OneCall
  <2> QED BY <2>6, OneCallKeeps
<1>4. CASE ReplaySettles(q)
  <2>1. /\ Replayed(q) /\ promise[q] = "pending" /\ resolver[q] # "called"
        /\ UNCHANGED <<clientVars, entry, transfer>>
        /\ \E how \in {"resolved", "rejected"} : Settle(q, how)
    BY <1>4 DEF ReplaySettles, Settled
  <2>2. entry[q] # "open" BY <2>1 DEF IInv, RequestInv, Aloof, Silenced
  <2> QED BY <2>1, <2>2, SettleCall
<1> QED BY <1>1, <1>2, <1>3, <1>4 DEF RequestStep

\* Steps that change none of it, but for the requests being collected or
\* dropped with the client.
LEMMA CallsAside ==
  ASSUME CallInv, UNCHANGED <<clientVars, mapVars, transfer>>
  PROVE  CallInv'
BY DEF CallInv, TimerKept, Known, LinkedLate, Replayed, Started, Up, clientVars, mapVars

LEMMA DataCalls ==
  ASSUME IInv, CallInv, NEW ch \in Channel, OnData(ch)
  PROVE  CallInv'
<1>1. UNCHANGED clientVars BY DataHandled
<1>2. CASE UNCHANGED <<mapVars, transfer>> BY <1>1, <1>2, CallsAside
<1>3. ASSUME NEW q \in Id, entry[q] # "none", HandleNotification(q) PROVE CallInv'
  <2>0. TypeOK /\ TimerKept(q) /\ LinkedLate(q) /\ Unmade(q)
    BY DEF IInv, RequestInv, CallInv
  <2>1. UNCHANGED <<entry, timer, promise>> /\ promise[q] # "unmade"
    BY <1>3, <2>0 DEF HandleNotification, Unmade
  <2>2. CASE transfer[q] = "registered"
    <3>1. /\ transfer' = [transfer EXCEPT ![q] = "running"]
          /\ resolver' = [resolver EXCEPT ![q] = "linked"]
      BY <1>3, <2>2 DEF HandleNotification, Linked
    <3>2. /\ transfer'[q] = "running" /\ resolver'[q] = "linked" /\ resolver[q] = "plain"
          /\ \A p \in Id : p # q => transfer'[p] = transfer[p] /\ resolver'[p] = resolver[p]
      BY <2>0, <2>2, <3>1 DEF TypeOK, LinkedLate, Started
    <3>3. TimerKept(q)' BY <1>1, <2>0, <2>1, <3>2 DEF TimerKept, Up, clientVars
    <3>4. LinkedLate(q)' BY <3>2 DEF LinkedLate, Started
    <3>5. OneCall(q) BY <1>1, <2>1, <3>2, <3>3, <3>4 DEF OneCall
    <3> QED BY <3>5, OneCallKeeps
  <2>3. CASE transfer[q] # "registered"
    <3>1. UNCHANGED <<transfer, resolver>> BY <1>3, <2>3 DEF HandleNotification
    <3> QED BY <1>1, <2>1, <3>1, CallsAside DEF mapVars
  <2> QED BY <2>2, <2>3
<1>4. ASSUME NEW q \in Id, NEW how \in {"resolved", "rejected"}, entry[q] # "none",
             HandleResponse(q, how)
      PROVE  CallInv'
  <2>0. TypeOK /\ TimerKept(q) /\ LinkedLate(q) /\ Known(q) /\ Unmade(q) /\ Linking(q)
    BY DEF IInv, RequestInv, CallInv
  <2>1. entry' = [entry EXCEPT ![q] = "none"] /\ transfer' = transfer BY <1>4 DEF HandleResponse
  <2>2. CASE entry[q] = "open"
    <3>1. Settle(q, how) BY <1>4, <2>2 DEF HandleResponse, Listening
    <3>2. promise[q] = "pending" /\ resolver[q] # "called" BY <2>0, <2>2 DEF Linking
    <3> QED BY <1>1, <2>1, <3>1, <3>2, SettleCall
  <2>3. CASE entry[q] # "open"
    <3>1. UNCHANGED <<timer, promise, resolver>> BY <1>4, <2>3 DEF HandleResponse, Listening
    <3>2. /\ entry'[q] = "none" /\ promise[q] # "unmade"
          /\ \A p \in Id : p # q => entry'[p] = entry[p]
      BY <1>4, <2>0, <2>1 DEF TypeOK, Unmade
    <3>3. TimerKept(q)' BY <2>0, <2>3, <3>1, <3>2 DEF TimerKept
    <3>4. LinkedLate(q)' BY <2>0, <2>1, <3>1 DEF LinkedLate, Started
    <3>5. OneCall(q) BY <1>1, <2>1, <2>3, <3>1, <3>2, <3>3, <3>4 DEF OneCall
    <3> QED BY <3>5, OneCallKeeps
  <2> QED BY <2>2, <2>3
<1> QED BY <1>2, <1>3, <1>4, DataHandled

\* The requests of S are made on a client that is up.
LEMMA MakesCalls ==
  ASSUME IInv, CallInv, NEW S \in SUBSET Call, MakeAll(current, S), Makes(S),
         current' = current, conn' = "up",
         \/ UNCHANGED clientVars
         \/ conn = "creating" /\ S = collected
  PROVE  CallInv'
<1> DEFINE made(q) == q[1] = current /\ q[2] \in S
<1>0. /\ TypeOK /\ current \in Client /\ \A q \in Id : q[1] \in Nat
      /\ current \in Nat
  BY IdFacts DEF IInv, TypeOK
<1>1. \A q \in Id : made(q) => timer'[q]
  <2> SUFFICES ASSUME NEW q \in Id, made(q) PROVE timer'[q] OBVIOUS
  <2>1. q \in {current} \X S BY <1>0, IdFacts
  <2>2. timer' = [p \in Id |-> p \in {current} \X S \/ timer[p]] BY DEF MakeAll
  <2>3. timer'[q] = (q \in {current} \X S \/ timer[q]) BY <2>2
  <2> QED BY <2>1, <2>3
<1>2. /\ \A q \in Id : made(q) => /\ promise[q] = "unmade" /\ promise'[q] = "pending" /\ entry'[q] = "open"
                                  /\ resolver'[q] = resolver[q]
      /\ \A q \in Id : ~made(q) => /\ promise'[q] = promise[q] /\ entry'[q] = entry[q] /\ timer'[q] = timer[q]
                                   /\ transfer'[q] = transfer[q] /\ resolver'[q] = resolver[q]
                                   /\ served'[q] = served[q]
  BY DEF Makes
<1>3. \A q \in Id : TimerKept(q) /\ Known(q) /\ LinkedLate(q) /\ Unmade(q) BY DEF CallInv, IInv, RequestInv
<1>4. ASSUME NEW q \in Id, made(q) PROVE TimerKept(q)' /\ Known(q)' /\ LinkedLate(q)'
  <2>1. /\ promise[q] = "unmade" /\ promise'[q] = "pending" /\ entry'[q] = "open"
        /\ resolver'[q] = resolver[q] /\ timer'[q]
    BY <1>1, <1>2, <1>4
  <2>2. resolver'[q] = "plain" BY <1>3, <2>1 DEF Unmade
  <2>3. q[1] = current BY <1>4
  <2> QED BY <2>1, <2>2, <2>3 DEF TimerKept, Known, LinkedLate, Up
<1>5. ASSUME NEW q \in Id, Replayed(q) PROVE Replayed(q)'
  <2>1. <<q[1] + 1, q[2]>> \in Id BY <1>5, IdFacts DEF Replayed
  <2>2. \A p \in Id : promise[p] # "unmade" => promise'[p] # "unmade"
    <3> HIDE DEF made
    <3> QED BY <1>2
  <2> QED BY <1>5, <2>1, <2>2 DEF Replayed
<1> HIDE DEF made
<1>6. ASSUME NEW q \in Id, ~made(q) PROVE TimerKept(q)' /\ Known(q)' /\ LinkedLate(q)'
  <2>1. /\ promise'[q] = promise[q] /\ entry'[q] = entry[q] /\ timer'[q] = timer[q]
        /\ transfer'[q] = transfer[q] /\ resolver'[q] = resolver[q]
    BY <1>2, <1>6
  <2>2. TimerKept(q)' BY <1>3, <2>1 DEF TimerKept, Up
  <2>3. LinkedLate(q)' BY <1>3, <2>1 DEF LinkedLate, Started
  <2>4. q[2] \in collected => promise[q] # "pending" \/ q[2] \in collected' \/ q[1] < current
    <3>1. CASE UNCHANGED clientVars BY <3>1 DEF clientVars
    <3>2. CASE conn = "creating" BY <1>0, <1>3, <3>2 DEF Unmade
    <3> QED BY <3>1, <3>2
  <2>5. Known(q)' BY <1>3, <1>5, <2>1, <2>4 DEF Known
  <2> QED BY <2>2, <2>3, <2>5
<1> QED BY <1>4, <1>6 DEF CallInv

LEMMA MadeCalls ==
  ASSUME IInv, CallInv, CreateReady \/ \E r \in Call : Request(r)
  PROVE  CallInv'
<1>1. ASSUME NEW r \in Call, Request(r) PROVE CallInv'
  <2>1. MakeAll(current, {r}) /\ Up /\ UNCHANGED clientVars BY <1>1 DEF Request
  <2>2. \A q \in Id : q[1] = current /\ q[2] \in {r} => promise[q] = "unmade" /\ transfer[q] = "none"
    BY <1>1, IdFacts DEF Request, IInv, RequestInv, Unmade
  <2>3. Makes({r}) BY <2>1, <2>2, MakesAll DEF IInv
  <2> QED BY <2>1, <2>3, MakesCalls DEF Up, clientVars
<1>2. CASE CreateReady
  <2>1. /\ conn = "creating" /\ conn' = "up" /\ current' = current
        /\ MakeAll(current, collected) /\ collected \in SUBSET Call
    BY <1>2 DEF CreateReady, IInv, TypeOK
  <2>2. \A q \in Id : q[1] = current => promise[q] = "unmade" /\ transfer[q] = "none"
    BY <2>1 DEF IInv, RequestInv, Unmade
  <2>3. Makes(collected) BY <2>1, <2>2, MakesAll DEF IInv
  <2> QED BY <2>1, <2>3, MakesCalls
<1> QED BY <1>1, <1>2

LEMMA CollectCalls ==
  ASSUME IInv, CallInv, CollectAllRequests
  PROVE  CallInv'
<1> DEFINE pending == {r \in Call : entry[<<current, r>>] # "none"}
<1>1. /\ Up /\ collected = {} /\ collected' = pending
      /\ entry' = [q \in Id |-> IF q \in {current} \X pending THEN "silenced" ELSE entry[q]]
      /\ timer' = [q \in Id |-> timer[q] /\ q \notin {current} \X pending]
      /\ UNCHANGED <<current, conn, promise, resolver, transfer, served>>
  BY DEF CollectAllRequests
<1>2. current \in Client /\ pending \in SUBSET Call BY DEF IInv, TypeOK
<1>3. \A q \in Id : q \in {current} \X pending <=> q[1] = current /\ entry[q] # "none"
  BY <1>2, IdFacts
<1>4. \A q \in Id : q[1] = current /\ entry[q] # "none" => q[2] \in collected'
  BY <1>1, <1>2, IdFacts
<1>5. \A q \in Id :
        /\ entry'[q] = IF q[1] = current /\ entry[q] # "none" THEN "silenced" ELSE entry[q]
        /\ timer'[q] <=> timer[q] /\ ~(q[1] = current /\ entry[q] # "none")
  BY <1>1, <1>3
<1> HIDE DEF pending
<1>6. ASSUME NEW q \in Id PROVE TimerKept(q)' /\ Known(q)' /\ LinkedLate(q)'
  <2>1. TimerKept(q) /\ Known(q) /\ LinkedLate(q) BY DEF CallInv
  <2>2. TimerKept(q)' BY <1>1, <1>5, <2>1 DEF TimerKept, Up
  <2>3. LinkedLate(q)' BY <1>1, <2>1 DEF LinkedLate, Started
  <2>4. Replayed(q)' = Replayed(q) BY <1>1 DEF Replayed
  <2>5. entry[q] = "open" => q[2] \in collected' BY <1>4, <2>1 DEF TimerKept
  <2>6. Known(q)' BY <1>1, <2>1, <2>4, <2>5 DEF Known
  <2> QED BY <2>2, <2>3, <2>6
<1> QED BY <1>6 DEF CallInv

LEMMA EndCalls ==
  ASSUME IInv, CallInv, Dispose \/ CreateFails \/ CreateNext
  PROVE  CallInv'
<1>0. \A q \in Id : /\ TimerKept(q) /\ Known(q) /\ LinkedLate(q) /\ Unmade(q)
                    /\ q[1] \in Nat
  BY IdFacts DEF CallInv, IInv, RequestInv
<1>1. CASE Dispose
  <2>1. /\ UNCHANGED <<current, collected, resolver, transfer>>
        /\ \A q \in Id : /\ promise'[q] = IF entry[q] = "open" THEN "rejected" ELSE promise[q]
                         /\ timer'[q] <=> timer[q] /\ entry[q] # "open"
                         /\ entry'[q] = "none"
    BY <1>1 DEF Dispose, Rejected
  <2>2. \A q \in Id : promise'[q] # "unmade" <=> promise[q] # "unmade"
    BY <1>0, <2>1 DEF TimerKept
  <2>3. ASSUME NEW q \in Id PROVE TimerKept(q)' /\ Known(q)' /\ LinkedLate(q)'
    <3>1. TimerKept(q) /\ Known(q) /\ LinkedLate(q) BY <1>0
    <3>2. /\ promise'[q] = IF entry[q] = "open" THEN "rejected" ELSE promise[q]
          /\ timer'[q] <=> timer[q] /\ entry[q] # "open"
          /\ entry'[q] = "none"
      BY <2>1
    <3>3. Replayed(q)' = Replayed(q) BY <2>2, IdFacts DEF Replayed
    <3>4. TimerKept(q)' BY <2>1, <3>1, <3>2 DEF TimerKept
    <3>5. Known(q)' BY <2>1, <3>1, <3>2, <3>3 DEF Known
    <3>6. LinkedLate(q)' BY <2>1, <3>1 DEF LinkedLate, Started
    <3> QED BY <3>4, <3>5, <3>6
  <2> QED BY <2>3 DEF CallInv
<1>2. CASE CreateFails
  <2>1. conn = "creating" /\ UNCHANGED <<current, collected, entry, timer, promise, resolver, transfer>>
    BY <1>2 DEF CreateFails, mapVars
  <2> QED BY <1>0, <2>1 DEF CallInv, TimerKept, Known, LinkedLate, Replayed, Started, Up
<1>3. CASE CreateNext
  <2>1. /\ conn \in {"disposed", "failed"} /\ current' = current + 1
        /\ UNCHANGED <<entry, timer, promise, resolver, transfer>>
    BY <1>3 DEF CreateNext, mapVars
  <2>2. current \in Nat BY IdFacts DEF IInv, TypeOK
  <2>3. ASSUME NEW q \in Id PROVE TimerKept(q)' /\ Known(q)' /\ LinkedLate(q)'
    <3>1. TimerKept(q) /\ LinkedLate(q) /\ Unmade(q) /\ q[1] \in Nat BY <1>0
    <3>2. TimerKept(q)' /\ LinkedLate(q)' BY <2>1, <3>1 DEF TimerKept, LinkedLate, Started, Up
    <3>3. Known(q)' BY <2>1, <2>2, <3>1 DEF Known, Unmade
    <3> QED BY <3>2, <3>3
  <2> QED BY <2>3 DEF CallInv
<1> QED BY <1>1, <1>2, <1>3

LEMMA CallsKeep ==
  ASSUME IInv, CallInv, [Next]_vars
  PROVE  CallInv'
<1>1. ASSUME NEW q \in Id, ServerNotifies(q) \/ ServerAnswers(q) PROVE CallInv'
  BY <1>1, CallsAside DEF ServerNotifies, ServerAnswers
<1>2. CASE UNCHANGED vars BY <1>2, CallsAside DEF vars
<1> QED BY <1>1, <1>2, CallSteps, DataCalls, MadeCalls, CollectCalls, EndCalls DEF Next

\* ClientInv always holds: behind every pending promise of request() is an open
\* entry with its timer running, a stream that has not ended, or a replay,
\* unless the call is one that nobody will settle; and no timer is left running
\* for a promise that is settled, nor an entry for a connection that is gone.
THEOREM SomebodyAlwaysSettles == Spec => []ClientInv
<1>1. Init => CallInv
  BY DEF Init, CallInv, TimerKept, Known, LinkedLate
<1>2. IInv /\ CallInv /\ [Next]_vars => CallInv' BY CallsKeep
<1>3. Spec => []CallInv BY <1>1, <1>2, Invariance, PTL DEF Spec
<1> QED BY <1>3, SomebodyFollows, Invariance, PTL
=============================================================================
