------------------------ MODULE SshClientCache_proofs ------------------------
(***************************************************************************)
(* Theorems of SshClientCache, for any number of connect() calls, calls,   *)
(* clients and error messages.                                             *)
(***************************************************************************)
EXTENDS SshClientCache, TLAPS

-----------------------------------------------------------------------------
(* The inductive invariant.                                                *)

\* Clients are numbered as they are started.
BornInOrder == \A c \in ClientId : client[c] = "unborn" <=> c > created

\* A client that a task has built is not the session's and no other task's,
\* so nobody disposes of it; while the task waits for it, it is starting, unless
\* its connection has closed.
Owned(t) ==
  /\ pc[t] \in Building <=> built[t] # NoClient
  /\ built[t] # NoClient => built[t] # session /\ client[built[t]] \notin {"unborn", "disposed"}
  /\ pc[t] \in {"building", "rebuilding"} => client[built[t]] \in {"starting", "closed"}
  /\ pc[t] = "checking" => client[built[t]] # "starting"
OwnedOnce == \A t, u \in Task : t # u /\ built[t] # NoClient => built[t] # built[u]

\* The session's client was started.
SessionBorn == session # NoClient => client[session] \notin {"unborn", "starting", "disposed"}

\* No call is in flight on a client that is not ready, ...
NotYetUsed == \A c \in ClientId : client[c] \in {"unborn", "starting"} => inflight[c] = {}

\* ... and a task has collected calls only while it builds; when its client is
\* ready they are in flight again.
Collected(t) ==
  /\ pc[t] \notin Building => replay[t] = {}
  /\ pc[t] = "checking" => replay[t] \subseteq settled \cup inflight[built[t]]

\* CallsAccounted, wherever the task is that has collected the call.
Accounted ==
  \A r \in Call :
    \/ r \in unmade \cup settled \cup dropped
    \/ \E c \in ClientId : r \in inflight[c] /\ client[c] # "disposed"
    \/ \E t \in Task : r \in replay[t]

IInv ==
  /\ TypeOK
  /\ BornInOrder /\ OwnedOnce /\ SessionBorn /\ NotYetUsed
  /\ \A t \in Task : Owned(t) /\ Collected(t)
  /\ Accounted

LEMMA InitInv == Init => IInv
<1> SUFFICES ASSUME Init PROVE IInv OBVIOUS
<1> USE DEF Init
<1>1. TypeOK
  <2>1. 0 \in 0 .. MaxClient /\ 0 \in 0 .. MaxPrompt BY CacheAssumption
  <2> QED BY <2>1 DEF TypeOK
<1>2. BornInOrder BY CacheAssumption DEF BornInOrder, ClientId
<1>3. OwnedOnce /\ SessionBorn /\ NotYetUsed /\ Accounted
  BY DEF OwnedOnce, SessionBorn, NotYetUsed, Accounted
<1>4. \A t \in Task : Owned(t) /\ Collected(t) BY DEF Owned, Collected, Building
<1> QED BY <1>1, <1>2, <1>3, <1>4 DEF IInv

-----------------------------------------------------------------------------
(* One lemma for each kind of step.                                        *)

\* Steps that leave the clients, the calls and the session as they are.
LEMMA QuietStep ==
  ASSUME IInv, TypeOK', UNCHANGED <<session, client, inflight, created, settled, unmade, replay, dropped>>,
         \A t \in Task : \/ pc'[t] = pc[t] /\ built'[t] = built[t]
                         \/ /\ pc'[t] \in {"loading", "waiting"}
                            /\ pc[t] \in {"idle", "loading"}
                            /\ built'[t] = built[t]
                         \/ /\ pc'[t] \in {"returned", "failed", "unloaded"}
                            /\ pc[t] \in {"loading", "waiting"}
                            /\ built'[t] = NoClient
                         \/ /\ pc[t] = "checking" /\ pc'[t] = "deploying"
                            /\ built'[t] = built[t]
  PROVE  IInv'
<1>1. BornInOrder' /\ SessionBorn' /\ NotYetUsed' /\ Accounted'
  BY DEF IInv, BornInOrder, SessionBorn, NotYetUsed, Accounted
<1>2. OwnedOnce' BY DEF IInv, OwnedOnce
<1>3. ASSUME NEW t \in Task PROVE Owned(t)' /\ Collected(t)'
  <2>1. Owned(t) /\ Collected(t) BY DEF IInv
  <2>2. Owned(t)' BY <2>1 DEF Owned, Building
  <2>3. Collected(t)' BY <2>1 DEF Collected, Building
  <2> QED BY <2>2, <2>3
<1> QED BY <1>1, <1>2, <1>3 DEF IInv

LEMMA QuietSteps ==
  ASSUME IInv, NEW t \in Task,
         \/ Connect(t) \/ UseSession(t) \/ RetryWithoutSession(t) \/ OutOfDate(t)
         \/ Reload(t) \/ ProfileLoaded(t) \/ ProfileMissing(t)
  PROVE  IInv'
<1> USE DEF Leave, Goto, EnterConnect, sessionVars, mutexVars, taskVars, clientVars, userVars
<1>0. TypeOK BY DEF IInv
<1>1. CASE Connect(t)
  <2>1. TypeOK' BY <1>0, <1>1 DEF Connect, TypeOK
  <2> QED BY <1>0, <1>1, <2>1, QuietStep DEF Connect, TypeOK
<1>2. CASE UseSession(t)
  <2>1. TypeOK' BY <1>0, <1>2 DEF UseSession, TypeOK
  <2> QED BY <1>0, <1>2, <2>1, QuietStep DEF UseSession, MayGoOn, TypeOK
<1>3. CASE RetryWithoutSession(t)
  <2>1. TypeOK' BY <1>0, <1>3 DEF RetryWithoutSession, TypeOK
  <2> QED BY <1>0, <1>3, <2>1, QuietStep DEF RetryWithoutSession, MayGoOn, TypeOK
<1>4. CASE OutOfDate(t)
  <2>1. TypeOK' BY <1>0, <1>4 DEF OutOfDate, TypeOK
  <2> QED BY <1>0, <1>4, <2>1, QuietStep DEF OutOfDate, TypeOK
<1>5. CASE Reload(t)
  <2>1. prompts' \in 0 .. MaxPrompt BY <1>0, <1>5, CacheAssumption DEF Reload, TypeOK
  <2>2. TypeOK' BY <1>0, <1>5, <2>1 DEF Reload, TypeOK
  <2> QED BY <1>0, <1>5, <2>2, QuietStep DEF Reload, TypeOK
<1>6. CASE ProfileLoaded(t)
  <2>1. TypeOK' BY <1>0, <1>6 DEF ProfileLoaded, TypeOK
  <2> QED BY <1>0, <1>6, <2>1, QuietStep DEF ProfileLoaded, TypeOK
<1>7. CASE ProfileMissing(t)
  <2>1. TypeOK' BY <1>0, <1>7 DEF ProfileMissing, TypeOK
  <2> QED BY <1>0, <1>7, <2>1, QuietStep DEF ProfileMissing, TypeOK
<1> QED BY <1>1, <1>2, <1>3, <1>4, <1>5, <1>6, <1>7

LEMMA QuietAnyway ==
  ASSUME IInv, ClientError \/ Dismiss \/ UNCHANGED vars
  PROVE  IInv'
<1> USE DEF sessionVars, mutexVars, taskVars, clientVars, userVars
<1>0. TypeOK BY DEF IInv
<1>1. CASE ClientError
  <2>1. prompts' \in 0 .. MaxPrompt BY <1>0, <1>1, CacheAssumption DEF ClientError, TypeOK
  <2>2. TypeOK' BY <1>0, <1>1, <2>1 DEF ClientError, TypeOK
  <2> QED BY <1>1, <2>2, QuietStep DEF ClientError
<1>2. CASE Dismiss
  <2>1. prompts' \in 0 .. MaxPrompt BY <1>0, <1>2, CacheAssumption DEF Dismiss, TypeOK
  <2>2. TypeOK' BY <1>0, <1>2, <2>1 DEF Dismiss, TypeOK
  <2> QED BY <1>2, <2>2, QuietStep DEF Dismiss
<1>3. CASE UNCHANGED vars
  <2>1. TypeOK' BY <1>0, <1>3 DEF vars, TypeOK
  <2> QED BY <1>3, <2>1, QuietStep DEF vars
<1> QED BY <1>1, <1>2, <1>3

\* end(): the calls of the session's client are settled, or silenced.
LEMMA EndTypes ==
  ASSUME TypeOK
  PROVE  /\ ClientsAfterEnd \in [ClientId -> {"unborn", "starting", "live", "orphan", "disposed", "closed"}]
         /\ InflightAfterEnd \in [ClientId -> SUBSET Call]
         /\ InSession \subseteq Call
BY DEF TypeOK, ClientsAfterEnd, InflightAfterEnd, InSession

LEMMA InSessionIs ==
  ASSUME NEW c \in ClientId, c = session
  PROVE  inflight[c] \subseteq InSession
BY DEF InSession

\* A connection closes, or the server is uninstalled.
LEMMA EndStep ==
  ASSUME IInv,
         session' = NoClient, inflight' = InflightAfterEnd, settled' = settled \cup InSession,
         NEW d \in ClientId \cup {NoClient},
         d # NoClient => client[d] # "unborn",
         client' = [c \in ClientId |-> IF c = d THEN "closed" ELSE ClientsAfterEnd[c]],
         UNCHANGED <<pc, built, replay, created, unmade, dropped>>, TypeOK'
  PROVE  IInv'
<1>0. TypeOK BY DEF IInv
<1>1. \A c \in ClientId : /\ client'[c] = IF c = d THEN "closed"
                                          ELSE IF c = session /\ client[c] = "live" THEN "disposed"
                                          ELSE client[c]
                          /\ inflight'[c] = IF c = session THEN {} ELSE inflight[c]
  BY DEF ClientsAfterEnd, InflightAfterEnd
<1>2. BornInOrder'
  <2>1. NoClient \notin ClientId BY CacheAssumption DEF ClientId, NoClient
  <2> QED BY <1>1, <2>1 DEF IInv, BornInOrder
<1>3. OwnedOnce' /\ SessionBorn' BY DEF IInv, OwnedOnce, SessionBorn
<1>4. NotYetUsed' BY <1>1 DEF IInv, NotYetUsed
<1>5. ASSUME NEW t \in Task PROVE Owned(t)' /\ Collected(t)'
  <2>1. Owned(t) /\ Collected(t) BY DEF IInv
  <2>2. built[t] # NoClient => built[t] \in ClientId /\ built[t] # session BY <2>1 DEF Owned, TypeOK, IInv
  <2>3. Owned(t)' BY <1>1, <2>1, <2>2 DEF Owned, Building
  <2>4. Collected(t)' BY <1>1, <2>1, <2>2 DEF Collected, Owned, Building
  <2> QED BY <2>3, <2>4
<1>6. Accounted'
  <2> SUFFICES ASSUME NEW r \in Call, r \notin unmade \cup settled' \cup dropped,
                      \A t \in Task : r \notin replay[t]
               PROVE  \E c \in ClientId : r \in inflight'[c] /\ client'[c] # "disposed"
    BY DEF Accounted
  <2>1. PICK c \in ClientId : r \in inflight[c] /\ client[c] # "disposed"
    BY DEF IInv, Accounted
  <2>2. c # session BY <2>1, InSessionIs
  <2> QED BY <1>1, <2>1, <2>2
<1> QED BY <1>2, <1>3, <1>4, <1>5, <1>6 DEF IInv

LEMMA EndSteps ==
  ASSUME IInv, (\E c \in ClientId : ConnectionCloses(c)) \/ Uninstall
  PROVE  IInv'
<1>0. TypeOK BY DEF IInv
<1>1. ASSUME NEW c \in ClientId, ConnectionCloses(c) PROVE IInv'
  <2>1. /\ session' = NoClient /\ inflight' = InflightAfterEnd /\ settled' = settled \cup InSession
        /\ client' = [b \in ClientId |-> IF b = c THEN "closed" ELSE ClientsAfterEnd[b]]
        /\ client[c] # "unborn"
        /\ UNCHANGED <<mutex, unresolved, pc, kind, awaited, built, replay, created, prompts, unmade>>
        /\ UNCHANGED dropped
        /\ status' = "UP"
    BY <1>1 DEF ConnectionCloses, SessionAfterEnd, SettledAfterEnd, ClientsAfterEnd, mutexVars, taskVars
  <2>2. c # NoClient BY DEF ClientId, NoClient
  <2>3. TypeOK' BY <1>0, <2>1, EndTypes DEF TypeOK
  <2> QED BY <2>1, <2>2, <2>3, EndStep
<1>2. CASE Uninstall
  <2>1. /\ session' = NoClient /\ inflight' = InflightAfterEnd /\ settled' = settled \cup InSession
        /\ client' = ClientsAfterEnd
        /\ UNCHANGED <<mutex, unresolved, pc, kind, awaited, built, replay, created, prompts, unmade>>
        /\ UNCHANGED dropped
        /\ status' = "UP"
    BY <1>2 DEF Uninstall, SessionAfterEnd, SettledAfterEnd, mutexVars, taskVars
  <2>2. client' = [b \in ClientId |-> IF b = NoClient THEN "closed" ELSE ClientsAfterEnd[b]]
    BY <2>1 DEF ClientsAfterEnd, ClientId, NoClient
  <2>3. TypeOK' BY <1>0, <2>1, EndTypes DEF TypeOK
  <2> QED BY <2>1, <2>2, <2>3, EndStep
<1> QED BY <1>1, <1>2

\* A task starts a client, perhaps after it has ended the session: the new
\* client is nobody else's.
LEMMA StartStep ==
  ASSUME IInv, TypeOK', NEW t \in Task, NEW silenced \in SUBSET Call, NEW ended \in BOOLEAN,
         created < MaxClient, created' = created + 1,
         ended => /\ session' = NoClient /\ inflight' = InflightAfterEnd
                  /\ settled' = settled \cup (InSession \ silenced)
                  /\ replay' = [replay EXCEPT ![t] = silenced]
                  /\ replay[t] = {},
         ~ended => UNCHANGED <<session, inflight, settled, replay>>,
         client' = [(IF ended THEN ClientsAfterEnd ELSE client) EXCEPT ![created + 1] = "starting"],
         built' = [built EXCEPT ![t] = created + 1],
         pc' = [pc EXCEPT ![t] = IF pc[t] = "deploying" THEN "rebuilding" ELSE "building"],
         pc[t] \notin Building \/ pc[t] = "deploying",
         UNCHANGED <<unmade, dropped>>
  PROVE  IInv'
<1> DEFINE n == created + 1
<1>0. TypeOK BY DEF IInv
<1>1. n \in ClientId /\ NoClient \notin ClientId /\ created \in Nat
  BY <1>0, CacheAssumption DEF TypeOK, ClientId, NoClient
<1>2. client[n] = "unborn" BY <1>1 DEF IInv, BornInOrder
<1>3. session # n BY <1>1, <1>2 DEF IInv, SessionBorn
<1>4. \A u \in Task : built[u] # n BY <1>1, <1>2 DEF IInv, Owned
<1>5. \A u \in Task : u # t => built'[u] = built[u] /\ pc'[u] = pc[u]
  BY <1>0 DEF TypeOK
<1>6. built'[t] = n /\ pc'[t] \in {"building", "rebuilding"} BY <1>0 DEF TypeOK
<1>7. \A c \in ClientId :
        /\ client'[c] = IF c = n THEN "starting"
                        ELSE IF ended /\ c = session /\ client[c] = "live" THEN "disposed"
                        ELSE client[c]
        /\ inflight'[c] = IF ended /\ c = session THEN {} ELSE inflight[c]
  BY <1>0, <1>1 DEF ClientsAfterEnd, InflightAfterEnd, TypeOK
<1>8. BornInOrder'
  <2> SUFFICES ASSUME NEW c \in ClientId PROVE (client'[c] = "unborn") <=> c > created'
    BY DEF BornInOrder
  <2>1. c \in Nat BY DEF ClientId
  <2>2. client[c] = "unborn" <=> c > created BY DEF IInv, BornInOrder
  <2>3. CASE c = n BY <1>1, <1>7, <2>3
  <2>4. CASE c # n BY <1>1, <1>7, <2>1, <2>2, <2>4
  <2> QED BY <2>3, <2>4
<1>9. OwnedOnce' BY <1>4, <1>5, <1>6 DEF IInv, OwnedOnce
<1>10. SessionBorn'
  <2>1. session \in ClientId \cup {NoClient} BY <1>0 DEF TypeOK
  <2> QED BY <1>3, <1>7, <2>1 DEF IInv, SessionBorn
<1>11. NotYetUsed' BY <1>2, <1>7 DEF IInv, NotYetUsed
<1>12. ASSUME NEW u \in Task PROVE Owned(u)' /\ Collected(u)'
  <2>1. Owned(u) /\ Collected(u) BY DEF IInv
  <2>2. session' = session \/ session' = NoClient OBVIOUS
  <2>3. CASE u = t
    <3>1. Owned(u)' BY <1>1, <1>3, <1>6, <1>7, <2>2, <2>3 DEF Owned, Building
    <3>2. Collected(u)' BY <1>6, <2>3 DEF Collected, Building
    <3> QED BY <3>1, <3>2
  <2>4. CASE u # t
    <3>1. built[u] # NoClient => built[u] \in ClientId /\ built[u] # session /\ built[u] # n
      BY <1>0, <1>4, <2>1 DEF Owned, TypeOK
    <3>2. Owned(u)' BY <1>5, <1>7, <2>1, <2>2, <2>4, <3>1 DEF Owned, Building
    <3>3. replay'[u] = replay[u] /\ settled \subseteq settled' BY <1>0, <2>4 DEF TypeOK
    <3>4. Collected(u)' BY <1>5, <1>7, <2>1, <2>4, <3>1, <3>3 DEF Collected, Owned, Building
    <3> QED BY <3>2, <3>4
  <2> QED BY <2>3, <2>4
<1>13. Accounted'
  <2> SUFFICES ASSUME NEW r \in Call, r \notin unmade \cup settled' \cup dropped,
                      \A u \in Task : r \notin replay'[u]
               PROVE  \E c \in ClientId : r \in inflight'[c] /\ client'[c] # "disposed"
    BY DEF Accounted
  <2>1. \A u \in Task : r \notin replay[u] BY <1>0 DEF TypeOK
  <2>2. PICK c \in ClientId : r \in inflight[c] /\ client[c] # "disposed"
    BY <2>1 DEF IInv, Accounted
  <2>3. ended => r \notin InSession BY <1>0 DEF TypeOK
  <2>4. ~(ended /\ c = session) BY <2>2, <2>3, InSessionIs
  <2> QED BY <1>7, <2>2, <2>4
<1> QED BY <1>8, <1>9, <1>10, <1>11, <1>12, <1>13 DEF IInv

LEMMA StartSteps ==
  ASSUME IInv, NEW t \in Task, BuildFirst(t) \/ Restart(t) \/ Deployed(t)
  PROVE  IInv'
<1>0. TypeOK BY DEF IInv
<1> USE DEF Goto, StartClient, Acquire
<1>1. created < MaxClient => created + 1 \in ClientId /\ created + 1 \in 0 .. MaxClient
  BY <1>0, CacheAssumption DEF TypeOK, ClientId
<1>2. CASE BuildFirst(t)
  <2>1. TypeOK'
    BY <1>0, <1>1, <1>2 DEF BuildFirst, TypeOK, sessionVars, userVars
  <2>2. created < MaxClient /\ pc[t] = "waiting" /\ UNCHANGED <<session, inflight, settled, replay, unmade, dropped>>
    BY <1>2 DEF BuildFirst, MayGoOn, sessionVars, userVars
  <2> QED BY <1>2, <2>1, <2>2, StartStep DEF BuildFirst, Building
<1>3. CASE Restart(t)
  <2> DEFINE silenced == IF WantsRetry(t) THEN InSession ELSE {}
  <2>1. silenced \subseteq Call BY <1>0, EndTypes
  <2>2. /\ pc[t] = "waiting" /\ created < MaxClient
        /\ replay' = [replay EXCEPT ![t] = silenced]
        /\ session' = NoClient /\ status' = "UP"
        /\ inflight' = InflightAfterEnd
        /\ settled' = settled \cup (InSession \ silenced)
        /\ mutex' = t /\ unresolved' = unresolved \cup {t}
        /\ created' = created + 1
        /\ client' = [ClientsAfterEnd EXCEPT ![created + 1] = "starting"]
        /\ built' = [built EXCEPT ![t] = created + 1]
        /\ pc' = [pc EXCEPT ![t] = "building"]
        /\ UNCHANGED <<kind, awaited, prompts, unmade, dropped>>
    BY <1>3 DEF Restart, MayGoOn, SessionAfterEnd, SettledAfterEnd
  <2>3. TypeOK' BY <1>0, <1>1, <2>1, <2>2, EndTypes DEF TypeOK
  <2>4. replay[t] = {} BY <2>2 DEF IInv, Collected, Building
  <2> HIDE DEF silenced
  <2> QED BY <2>1, <2>2, <2>3, <2>4, StartStep DEF Building
<1>4. CASE Deployed(t)
  <2>1. TypeOK'
    BY <1>0, <1>1, <1>4 DEF Deployed, TypeOK, sessionVars, mutexVars, userVars
  <2>2. created < MaxClient /\ pc[t] = "deploying" /\ UNCHANGED <<session, inflight, settled, replay, unmade, dropped>>
    BY <1>4 DEF Deployed, sessionVars, userVars
  <2> QED BY <1>4, <2>1, <2>2, StartStep DEF Deployed
<1> QED BY <1>2, <1>3, <1>4

\* A client becomes ready and sends again what its task has collected; or the
\* task goes on without it.
LEMMA OwnClientStep ==
  ASSUME IInv, TypeOK', NEW t \in Task, pc[t] \in {"building", "rebuilding"},
         client[built[t]] = "starting",
         NEW state \in {"live", "orphan"},
         client' = [client EXCEPT ![built[t]] = state],
         inflight' = IF state = "live" THEN [inflight EXCEPT ![built[t]] = replay[t] \ settled]
                     ELSE inflight,
         UNCHANGED <<created, settled, unmade, dropped>>,
         \A u \in Task : u # t => pc'[u] = pc[u] /\ built'[u] = built[u] /\ replay'[u] = replay[u],
         \/ /\ pc'[t] = (IF state = "live" THEN "checking" ELSE "deploying")
            /\ built'[t] = built[t] /\ replay'[t] = replay[t]
            /\ session' = session
         \/ /\ pc'[t] = "returned" /\ state = "live" /\ built'[t] = NoClient /\ replay'[t] = {}
            /\ session' = built[t]
  PROVE  IInv'
<1> DEFINE b == built[t]
<1>0. TypeOK BY DEF IInv
<1>1. b \in ClientId /\ b # NoClient /\ b # session /\ client[b] = "starting"
  BY <1>0 DEF IInv, Owned, Building, TypeOK
<1>2. inflight[b] = {} BY <1>1 DEF IInv, NotYetUsed
<1>3. \A c \in ClientId :
        /\ client'[c] = IF c = b THEN state ELSE client[c]
        /\ inflight'[c] = IF c = b THEN (IF state = "live" THEN replay[t] \ settled ELSE {})
                          ELSE inflight[c]
  BY <1>0, <1>1, <1>2 DEF TypeOK
<1>4. \A u \in Task : u # t => built[u] # b BY <1>1 DEF IInv, OwnedOnce
<1>5. BornInOrder' BY <1>1, <1>3 DEF IInv, BornInOrder
<1>6. OwnedOnce' BY <1>4 DEF IInv, OwnedOnce
<1>7. SessionBorn'
  <2>1. session' = session \/ session' = b OBVIOUS
  <2>2. session \in ClientId \cup {NoClient} BY <1>0 DEF TypeOK
  <2> QED BY <1>1, <1>3, <2>1, <2>2 DEF IInv, SessionBorn
<1>8. NotYetUsed' BY <1>3 DEF IInv, NotYetUsed
<1>9. ASSUME NEW u \in Task PROVE Owned(u)' /\ Collected(u)'
  <2>1. Owned(u) /\ Collected(u) BY DEF IInv
  <2>2. session' = session \/ session' = b OBVIOUS
  <2>3. CASE u = t
    <3>1. client'[b] = state /\ inflight'[b] = (IF state = "live" THEN replay[t] \ settled ELSE {})
      BY <1>1, <1>3
    <3>2. CASE pc'[t] = "checking" \/ pc'[t] = "deploying"
      <4>1. /\ pc'[t] = (IF state = "live" THEN "checking" ELSE "deploying")
            /\ built'[t] = b /\ replay'[t] = replay[t] /\ session' = session
        BY <3>2
      <4>2. Owned(t)' BY <1>1, <3>1, <4>1 DEF Owned, Building
      <4>3. Collected(t)' BY <3>1, <4>1 DEF Collected, Building
      <4> QED BY <2>3, <4>2, <4>3
    <3>3. CASE pc'[t] = "returned"
      <4>1. built'[t] = NoClient /\ replay'[t] = {} BY <3>3
      <4>2. Owned(t)' BY <3>3, <4>1 DEF Owned, Building
      <4>3. Collected(t)' BY <3>3, <4>1 DEF Collected
      <4> QED BY <2>3, <4>2, <4>3
    <3> QED BY <3>2, <3>3
  <2>4. CASE u # t
    <3>1. built[u] # NoClient => built[u] \in ClientId /\ built[u] # session /\ built[u] # b
      BY <1>0, <1>4, <2>1, <2>4 DEF Owned, TypeOK
    <3>2. pc'[u] = pc[u] /\ built'[u] = built[u] /\ replay'[u] = replay[u] BY <2>4
    <3>3. CASE built[u] = NoClient
      <4>1. pc[u] \notin Building BY <2>1, <3>3 DEF Owned
      <4>2. Owned(u)' BY <3>2, <3>3, <4>1 DEF Owned, Building
      <4>3. Collected(u)' BY <2>1, <3>2, <4>1 DEF Collected, Building
      <4> QED BY <4>2, <4>3
    <3>4. CASE built[u] # NoClient
      <4>1. /\ client'[built[u]] = client[built[u]] /\ inflight'[built[u]] = inflight[built[u]]
            /\ built[u] # session'
        BY <1>3, <2>2, <3>1, <3>4
      <4>2. Owned(u)' BY <2>1, <3>2, <4>1 DEF Owned
      <4>3. Collected(u)' BY <2>1, <3>2, <4>1 DEF Collected
      <4> QED BY <4>2, <4>3
    <3> QED BY <3>3, <3>4
  <2> QED BY <2>3, <2>4
<1>10. Accounted'
  <2> SUFFICES ASSUME NEW r \in Call, r \notin unmade \cup settled \cup dropped,
                      \A u \in Task : r \notin replay'[u]
               PROVE  \E c \in ClientId : r \in inflight'[c] /\ client'[c] # "disposed"
    BY DEF Accounted
  <2>1. CASE r \in replay[t]
    <3>1. replay'[t] # replay[t] BY <2>1
    <3>2. state = "live" BY <3>1
    <3> QED BY <1>1, <1>3, <2>1, <3>2
  <2>2. CASE r \notin replay[t]
    <3>1. \A u \in Task : r \notin replay[u] BY <2>2
    <3>2. PICK c \in ClientId : r \in inflight[c] /\ client[c] # "disposed"
      BY <3>1 DEF IInv, Accounted
    <3> QED BY <1>2, <1>3, <3>2
  <2> QED BY <2>1, <2>2
<1> QED BY <1>5, <1>6, <1>7, <1>8, <1>9, <1>10 DEF IInv

LEMMA OwnClientSteps ==
  ASSUME IInv, NEW t \in Task,
         BuildReady(t) \/ ServerMissing(t) \/ RebuildReady(t)
  PROVE  IInv'
<1>0. TypeOK BY DEF IInv
<1> USE DEF Goto, Leave, Release, Return, ClientReady, sessionVars, mutexVars, userVars
<1>1. pc[t] \in {"building", "rebuilding"} => built[t] \in ClientId
  BY <1>0 DEF IInv, Owned, Building, TypeOK
<1>2. CASE BuildReady(t)
  <2>1. TypeOK' BY <1>0, <1>1, <1>2 DEF BuildReady, TypeOK
  <2>2. /\ pc[t] = "building" /\ client[built[t]] = "starting" /\ session' = session
        /\ client' = [client EXCEPT ![built[t]] = "live"]
        /\ inflight' = [inflight EXCEPT ![built[t]] = replay[t] \ settled]
        /\ UNCHANGED <<built, replay, created, settled, unmade, dropped>>
    BY <1>2 DEF BuildReady
  <2>3. pc'[t] = "checking" /\ \A u \in Task : u # t => pc'[u] = pc[u]
    BY <1>0, <1>2 DEF BuildReady, TypeOK
  <2> QED BY <2>1, <2>2, <2>3, OwnClientStep
<1>3. CASE ServerMissing(t)
  <2>1. TypeOK' BY <1>0, <1>1, <1>3 DEF ServerMissing, TypeOK
  <2>2. /\ pc[t] = "building" /\ client[built[t]] = "starting" /\ session' = session
        /\ client' = [client EXCEPT ![built[t]] = "orphan"]
        /\ inflight' = inflight
        /\ UNCHANGED <<built, replay, created, settled, unmade, dropped>>
    BY <1>3 DEF ServerMissing
  <2>3. pc'[t] = "deploying" /\ \A u \in Task : u # t => pc'[u] = pc[u]
    BY <1>0, <1>3 DEF ServerMissing, TypeOK
  <2> QED BY <2>1, <2>2, <2>3, OwnClientStep
<1>4. CASE RebuildReady(t)
  <2>1. TypeOK' BY <1>0, <1>1, <1>4 DEF RebuildReady, TypeOK
  <2>2. /\ pc[t] = "rebuilding" /\ client[built[t]] = "starting" /\ session' = built[t]
        /\ client' = [client EXCEPT ![built[t]] = "live"]
        /\ inflight' = [inflight EXCEPT ![built[t]] = replay[t] \ settled]
        /\ UNCHANGED <<created, settled, unmade, dropped>>
    BY <1>4 DEF RebuildReady
  <2>3. pc'[t] = "returned" /\ built'[t] = NoClient /\ replay'[t] = {}
    BY <1>0, <1>4 DEF RebuildReady, TypeOK
  <2>4. \A u \in Task : u # t => pc'[u] = pc[u] /\ built'[u] = built[u] /\ replay'[u] = replay[u]
    BY <1>0, <1>4 DEF RebuildReady, TypeOK
  <2> QED BY <2>1, <2>2, <2>3, <2>4, OwnClientStep
<1> QED BY <1>2, <1>3, <1>4

\* A task is through with the client it has built, which becomes the session's.
LEMMA UpToDateKeeps ==
  ASSUME IInv, NEW t \in Task, UpToDate(t)
  PROVE  IInv'
<1> USE DEF Goto, Leave, Release, Return, sessionVars, mutexVars, clientVars, userVars
<1>0. TypeOK BY DEF IInv
<1> DEFINE b == built[t]
<1>1. /\ pc[t] = "checking" /\ pc'[t] = "returned" /\ built'[t] = NoClient /\ replay'[t] = {}
      /\ session' = b
      /\ UNCHANGED <<client, inflight, created, settled, unmade, dropped>>
      /\ \A u \in Task : u # t => pc'[u] = pc[u] /\ built'[u] = built[u] /\ replay'[u] = replay[u]
  BY <1>0 DEF UpToDate, TypeOK
<1>2. TypeOK' BY <1>0 DEF UpToDate, TypeOK
<1>3. b \in ClientId /\ b # session /\ client[b] \notin {"unborn", "starting", "disposed"}
  BY <1>0, <1>1 DEF IInv, Owned, Building, TypeOK
<1> HIDE DEF b
<1>4. \A u \in Task : u # t => built[u] # b BY <1>1, <1>3 DEF IInv, OwnedOnce, Owned, Building, b
<1>5. BornInOrder' /\ NotYetUsed' BY <1>1 DEF IInv, BornInOrder, NotYetUsed
<1>6. OwnedOnce' BY <1>1 DEF IInv, OwnedOnce
<1>7. SessionBorn' BY <1>1, <1>3 DEF SessionBorn
<1>8. ASSUME NEW u \in Task PROVE Owned(u)' /\ Collected(u)'
  <2>1. Owned(u) /\ Collected(u) BY DEF IInv
  <2>2. Owned(u)' BY <1>1, <1>4, <2>1 DEF Owned, Building
  <2>3. Collected(u)' BY <1>1, <2>1 DEF Collected, Building
  <2> QED BY <2>2, <2>3
<1>9. Accounted'
  <2> SUFFICES ASSUME NEW r \in Call, r \notin unmade \cup settled \cup dropped,
                      \A u \in Task : r \notin replay'[u]
               PROVE  \E c \in ClientId : r \in inflight[c] /\ client[c] # "disposed"
    BY <1>1 DEF Accounted
  <2>1. CASE r \in replay[t]
    <3>1. r \in inflight[b] BY <1>1, <2>1 DEF IInv, Collected, b
    <3> QED BY <1>3, <3>1
  <2>2. CASE r \notin replay[t]
    <3>1. \A u \in Task : r \notin replay[u] BY <1>1, <2>2
    <3> QED BY <3>1 DEF IInv, Accounted
  <2> QED BY <2>1, <2>2
<1> QED BY <1>2, <1>5, <1>6, <1>7, <1>8, <1>9 DEF IInv

\* A task throws: what it had collected and is not in flight again is dropped.
LEMMA ThrowsKeeps ==
  ASSUME IInv, NEW t \in Task, ConnectThrows(t)
  PROVE  IInv'
<1>0. TypeOK BY DEF IInv
<1> DEFINE b == built[t]
<1> DEFINE end == IF client[b] = "starting" THEN "orphan" ELSE client[b]
<1>1. /\ pc[t] \in Building /\ pc' = [pc EXCEPT ![t] = "failed"]
      /\ built' = [built EXCEPT ![t] = NoClient] /\ replay' = [replay EXCEPT ![t] = {}]
      /\ client' = [client EXCEPT ![b] = end]
      /\ dropped' = dropped \cup {r \in replay[t] \ settled : ~OnClient(r)}
      /\ UNCHANGED <<session, inflight, created, settled, unmade>>
  BY DEF ConnectThrows, Leave, Goto, Building, sessionVars, userVars
<1>2. b \in ClientId /\ b # session /\ client[b] \notin {"unborn", "disposed"}
  BY <1>0, <1>1 DEF IInv, Owned, TypeOK
<1>3. /\ end \in {"live", "orphan", "closed"} /\ (client[b] # "starting" => end = client[b])
      /\ NoClient \notin ClientId
  BY <1>0, <1>2 DEF TypeOK, ClientId, NoClient
<1>4. TypeOK'
  <2>1. dropped' \subseteq Call BY <1>0, <1>1 DEF TypeOK
  <2>2. client' \in [ClientId -> {"unborn", "starting", "live", "orphan", "disposed", "closed"}]
    BY <1>0, <1>1, <1>3 DEF TypeOK
  <2> QED BY <1>0, <2>1, <2>2
         DEF ConnectThrows, Leave, Goto, Release, TypeOK, sessionVars, userVars
<1> HIDE DEF b, end
<1>5. /\ pc'[t] = "failed" /\ built'[t] = NoClient /\ replay'[t] = {}
      /\ \A u \in Task : u # t => pc'[u] = pc[u] /\ built'[u] = built[u] /\ replay'[u] = replay[u]
      /\ \A c \in ClientId : client'[c] = IF c = b THEN end ELSE client[c]
  BY <1>0, <1>1 DEF TypeOK
<1>6. \A u \in Task : u # t => built[u] # b
  BY <1>2, <1>3 DEF IInv, OwnedOnce, b
<1>7. BornInOrder' BY <1>1, <1>2, <1>3, <1>5 DEF IInv, BornInOrder
<1>8. NotYetUsed' BY <1>1, <1>3, <1>5 DEF IInv, NotYetUsed
<1>9. OwnedOnce' BY <1>5 DEF IInv, OwnedOnce
<1>10. SessionBorn'
  <2>1. session \in ClientId \cup {NoClient} BY <1>0 DEF TypeOK
  <2> QED BY <1>1, <1>2, <1>5, <2>1 DEF IInv, SessionBorn
<1>11. ASSUME NEW u \in Task PROVE Owned(u)' /\ Collected(u)'
  <2>1. Owned(u) /\ Collected(u) BY DEF IInv
  <2>2. CASE u = t BY <1>5, <2>2 DEF Owned, Collected, Building
  <2>3. CASE u # t
    <3>1. built[u] # NoClient => built[u] \in ClientId /\ built[u] # b
      BY <1>0, <1>6, <2>3 DEF TypeOK
    <3>2. Owned(u)' BY <1>1, <1>5, <2>1, <2>3, <3>1 DEF Owned, Building
    <3>3. Collected(u)' BY <1>1, <1>5, <2>1, <2>3 DEF Collected
    <3> QED BY <3>2, <3>3
  <2> QED BY <2>2, <2>3
<1>12. Accounted'
  <2> SUFFICES ASSUME NEW r \in Call, r \notin unmade \cup settled \cup dropped',
                      \A u \in Task : r \notin replay'[u]
               PROVE  \E c \in ClientId : r \in inflight[c] /\ client'[c] # "disposed"
    BY <1>1 DEF Accounted
  <2>1. \E c \in ClientId : r \in inflight[c] /\ client[c] # "disposed"
    <3>1. CASE r \in replay[t] BY <1>1, <3>1 DEF OnClient
    <3>2. CASE r \notin replay[t]
      <4>1. \A u \in Task : r \notin replay[u] BY <1>5, <3>2
      <4>2. r \notin dropped BY <1>1
      <4> QED BY <4>1, <4>2 DEF IInv, Accounted
    <3> QED BY <3>1, <3>2
  <2> QED BY <1>3, <1>5, <2>1
<1> QED BY <1>4, <1>7, <1>8, <1>9, <1>10, <1>11, <1>12 DEF IInv

\* A call is made on the session's client, or ends.
LEMMA CallSteps ==
  ASSUME IInv, NEW r \in Call, MakeCall(r) \/ \E c \in ClientId : CallEnds(c, r)
  PROVE  IInv'
<1>0. TypeOK BY DEF IInv
<1> USE DEF sessionVars, mutexVars, taskVars
<1>1. TypeOK' BY <1>0 DEF MakeCall, CallEnds, TypeOK
<1>2. UNCHANGED <<session, pc, built, replay, client, created, dropped>> BY DEF MakeCall, CallEnds
<1>3. BornInOrder' /\ OwnedOnce' /\ SessionBorn'
  BY <1>2 DEF IInv, BornInOrder, OwnedOnce, SessionBorn
<1>4. \A t \in Task : Owned(t)' BY <1>2 DEF IInv, Owned
<1>5. CASE MakeCall(r)
  <2>1. session \in ClientId /\ client[session] \notin {"unborn", "starting", "disposed"}
    BY <1>0, <1>5 DEF MakeCall, IInv, SessionBorn, TypeOK
  <2>2. /\ \A c \in ClientId : inflight'[c] = IF c = session THEN inflight[c] \cup {r} ELSE inflight[c]
        /\ unmade' = unmade \ {r} /\ settled' = settled
    BY <1>0, <1>5 DEF MakeCall, TypeOK
  <2>3. NotYetUsed' BY <1>2, <2>1, <2>2 DEF IInv, NotYetUsed
  <2>4. \A t \in Task : Collected(t)'
    <3> SUFFICES ASSUME NEW t \in Task PROVE Collected(t)' OBVIOUS
    <3>1. pc[t] = "checking" => built[t] \in ClientId
      BY <1>0 DEF IInv, Owned, Building, TypeOK
    <3>2. Collected(t) BY DEF IInv
    <3> QED BY <1>2, <2>2, <3>1, <3>2 DEF Collected
  <2>5. Accounted'
    <3> SUFFICES ASSUME NEW q \in Call, q \notin unmade' \cup settled \cup dropped, \A t \in Task : q \notin replay[t]
                 PROVE  \E c \in ClientId : q \in inflight'[c] /\ client[c] # "disposed"
      BY <1>2, <2>2 DEF Accounted
    <3>1. CASE q = r BY <2>1, <2>2, <3>1
    <3>2. CASE q # r BY <2>2, <3>2 DEF IInv, Accounted
    <3> QED BY <3>1, <3>2
  <2> QED BY <1>1, <1>3, <1>4, <2>3, <2>4, <2>5 DEF IInv
<1>6. ASSUME NEW c \in ClientId, CallEnds(c, r) PROVE IInv'
  <2>1. /\ \A d \in ClientId : inflight'[d] = IF d = c THEN inflight[d] \ {r} ELSE inflight[d]
        /\ unmade' = unmade /\ settled' = settled \cup {r}
    BY <1>0, <1>6 DEF CallEnds, TypeOK
  <2>2. NotYetUsed' BY <1>2, <2>1 DEF IInv, NotYetUsed
  <2>3. \A t \in Task : Collected(t)'
    <3> SUFFICES ASSUME NEW t \in Task PROVE Collected(t)' OBVIOUS
    <3>1. pc[t] = "checking" => built[t] \in ClientId
      BY <1>0 DEF IInv, Owned, Building, TypeOK
    <3>2. Collected(t) BY DEF IInv
    <3> QED BY <1>2, <2>1, <3>1, <3>2 DEF Collected
  <2>4. Accounted' BY <1>2, <2>1 DEF IInv, Accounted
  <2> QED BY <1>1, <1>3, <1>4, <2>2, <2>3, <2>4 DEF IInv
<1> QED BY <1>5, <1>6

-----------------------------------------------------------------------------
(* The theorems.                                                           *)

LEMMA NextInv == IInv /\ [Next]_vars => IInv'
<1> SUFFICES ASSUME IInv, [Next]_vars PROVE IInv' OBVIOUS
<1>1. ASSUME NEW t \in Task, Connect(t) \/ Reload(t) \/ Load(t) PROVE IInv'
  BY <1>1, QuietSteps DEF Load
<1>2. ASSUME NEW t \in Task, GoOn(t) PROVE IInv'
  BY <1>2, QuietSteps, StartSteps DEF GoOn
<1>3. ASSUME NEW t \in Task, Build(t) \/ Check(t) PROVE IInv'
  <2>1. CASE ConnectThrows(t) BY <2>1, ThrowsKeeps
  <2>2. CASE OutOfDate(t) BY <2>2, QuietSteps
  <2>3. CASE Deployed(t) BY <2>3, StartSteps
  <2>4. CASE UpToDate(t) BY <2>4, UpToDateKeeps
  <2>5. CASE BuildReady(t) \/ ServerMissing(t) \/ RebuildReady(t) BY <2>5, OwnClientSteps
  <2> QED BY <1>3, <2>1, <2>2, <2>3, <2>4, <2>5 DEF Build, Check
<1>4. CASE (\E c \in ClientId : ConnectionCloses(c)) \/ Uninstall BY <1>4, EndSteps
<1>5. ASSUME NEW r \in Call, MakeCall(r) \/ \E c \in ClientId : CallEnds(c, r) PROVE IInv'
  BY <1>5, CallSteps
<1>6. CASE ClientError \/ Dismiss \/ UNCHANGED vars BY <1>6, QuietAnyway
<1> QED BY <1>1, <1>2, <1>3, <1>4, <1>5, <1>6 DEF Next

\* TypeOK always holds: the variables of SshClientCache have their types.
THEOREM TypeCorrect == Spec => []TypeOK
<1>1. IInv => TypeOK BY DEF IInv
<1> QED BY <1>1, InitInv, NextInv, PTL DEF Spec

\* SessionNotDisposed always holds: connect never returns a client that end()
\* has disposed, whatever connects, reloads and closes come in between.
THEOREM SessionStaysUsable == Spec => []SessionNotDisposed
<1>1. IInv => SessionNotDisposed BY DEF IInv, SessionBorn, SessionNotDisposed
<1> QED BY <1>1, InitInv, NextInv, PTL DEF Spec

\* CallsAccounted always holds: through end(), collectAllRequests and the
\* replay of create() a call is not made, settled, in flight on a client that
\* will settle it, or collected by a connect() that is still building, unless
\* one that had collected it has thrown.
THEOREM LostByThrowOnly == Spec => []CallsAccounted
<1>1. IInv => CallsAccounted
  <2> SUFFICES ASSUME IInv, NEW r \in Call, r \notin dropped PROVE Kept(r)
    BY DEF CallsAccounted
  <2>1. \A t \in Task : r \in replay[t] => pc[t] \in Building BY DEF IInv, Collected
  <2> QED BY <2>1 DEF IInv, Accounted, Kept, OnClient
<1> QED BY <1>1, InitInv, NextInv, PTL DEF Spec

-----------------------------------------------------------------------------
(* The mutex and the status of the profile.  Of the rest their invariant   *)
(* needs only the types.                                                   *)

LEMMA TendedFrame ==
  ASSUME RestartTended, session' = session, status' # "RESTARTING" \/ status' = status,
         \A t \in Task : \/ pc'[t] = pc[t] /\ kind'[t] = kind[t]
                         \/ ~(pc[t] \in {"loading", "waiting"} /\ WantsRestart(t)) /\ pc[t] # "unloaded"
                         \/ pc'[t] \in {"loading", "waiting"} /\ WantsRestart(t)'
                         \/ pc'[t] = "unloaded"
  PROVE  RestartTended'
BY DEF RestartTended, WantsRestart

LEMMA TendedAgain == ASSUME status' # "RESTARTING" PROVE RestartTended'
BY DEF RestartTended

\* Steps that leave the locks as they are, and a task on its side of them.
LEMMA LocksFrame ==
  ASSUME LocksHeld, UNCHANGED <<mutex, unresolved>>,
         \A t \in Task : pc'[t] \in Building <=> pc[t] \in Building
  PROVE  LocksHeld'
BY DEF LocksHeld

LEMMA LocksTaken ==
  ASSUME LocksHeld, NEW t \in Task, Acquire(t), pc'[t] \in Building,
         \A u \in Task : u # t => pc'[u] = pc[u]
  PROVE  LocksHeld'
BY DEF LocksHeld, Acquire

LEMMA LocksReleased ==
  ASSUME LocksHeld, NEW t \in Task, Release(t), pc'[t] \notin Building,
         \A u \in Task : u # t => pc'[u] = pc[u]
  PROVE  LocksHeld'
BY DEF LocksHeld, Release

\* What a connect() does while it holds no lock, and a reload.
LEMMA WaiterKeeps ==
  ASSUME CacheInv, NEW t \in Task, Connect(t) \/ Reload(t) \/ Load(t) \/ GoOn(t)
  PROVE  LocksHeld' /\ RestartTended'
<1>0. TypeOK /\ LocksHeld /\ RestartTended BY DEF CacheInv
<1>1. \A u \in Task : u # t => pc'[u] = pc[u] /\ kind'[u] = kind[u]
  BY <1>0 DEF TypeOK, Connect, Reload, Load, GoOn, ProfileLoaded, ProfileMissing, UseSession,
     BuildFirst, Restart, RetryWithoutSession, EnterConnect, Goto, Leave
<1>2. CASE Connect(t)
  <2>1. pc[t] = "idle" /\ pc'[t] = "waiting" /\ UNCHANGED <<session, status, mutex, unresolved>>
    BY <1>0, <1>2 DEF Connect, EnterConnect, TypeOK, sessionVars, mutexVars
  <2>2. LocksHeld' BY <1>0, <1>1, <2>1, LocksFrame DEF Building
  <2> QED BY <1>0, <1>1, <2>1, <2>2, TendedFrame
<1>3. CASE Reload(t)
  <2>1. /\ pc[t] = "idle" /\ pc'[t] = "loading" /\ kind'[t] \in {"restart", "retry"}
        /\ session # NoClient /\ UNCHANGED <<session, mutex, unresolved>>
    BY <1>0, <1>3 DEF Reload, Goto, TypeOK, mutexVars
  <2>2. LocksHeld' BY <1>0, <1>1, <2>1, LocksFrame DEF Building
  <2>3. RestartTended' BY <2>1 DEF RestartTended, WantsRestart
  <2> QED BY <2>2, <2>3
<1>4. CASE ProfileLoaded(t)
  <2>1. /\ pc[t] = "loading" /\ pc'[t] = "waiting" /\ kind'[t] = kind[t]
        /\ UNCHANGED <<session, status, mutex, unresolved>>
    BY <1>0, <1>4 DEF ProfileLoaded, EnterConnect, TypeOK, sessionVars, mutexVars
  <2>2. LocksHeld' BY <1>0, <1>1, <2>1, LocksFrame DEF Building
  <2>3. \/ pc'[t] \in {"loading", "waiting"} /\ WantsRestart(t)'
        \/ ~(pc[t] \in {"loading", "waiting"} /\ WantsRestart(t)) /\ pc[t] # "unloaded"
    BY <2>1 DEF WantsRestart
  <2> QED BY <1>0, <1>1, <2>1, <2>2, <2>3, TendedFrame
<1>5. CASE ProfileMissing(t)
  <2>1. /\ pc[t] = "loading" /\ pc'[t] = "unloaded"
        /\ UNCHANGED <<session, status, mutex, unresolved>>
    BY <1>0, <1>5 DEF ProfileMissing, Leave, Goto, TypeOK, sessionVars, mutexVars
  <2>2. LocksHeld' BY <1>0, <1>1, <2>1, LocksFrame DEF Building
  <2> QED BY <1>0, <1>1, <2>1, <2>2, TendedFrame
<1>6. CASE UseSession(t)
  <2>1. /\ pc[t] = "waiting" /\ pc'[t] = "returned" /\ ~WantsRestart(t)
        /\ UNCHANGED <<session, status, mutex, unresolved>>
    BY <1>0, <1>6 DEF UseSession, MayGoOn, Leave, Goto, TypeOK, sessionVars, mutexVars
  <2>2. LocksHeld' BY <1>0, <1>1, <2>1, LocksFrame DEF Building
  <2> QED BY <1>0, <1>1, <2>1, <2>2, TendedFrame
<1>7. CASE BuildFirst(t)
  <2>1. /\ pc[t] = "waiting" /\ pc'[t] = "building" /\ ~WantsRestart(t) /\ Acquire(t)
        /\ UNCHANGED <<session, status>>
    BY <1>0, <1>7 DEF BuildFirst, MayGoOn, Goto, TypeOK, sessionVars
  <2>2. LocksHeld' BY <1>0, <1>1, <2>1, LocksTaken DEF Building
  <2> QED BY <1>0, <1>1, <2>1, <2>2, TendedFrame
<1>8. CASE Restart(t)
  <2>1. pc'[t] = "building" /\ Acquire(t) /\ status' = "UP"
    BY <1>0, <1>8 DEF Restart, Goto, TypeOK
  <2>2. LocksHeld' BY <1>0, <1>1, <2>1, LocksTaken DEF Building
  <2> QED BY <2>1, <2>2, TendedAgain
<1>9. CASE RetryWithoutSession(t)
  <2>1. /\ pc[t] = "waiting" /\ pc'[t] = "failed" /\ session = NoClient
        /\ UNCHANGED <<session, status, mutex, unresolved>>
    BY <1>0, <1>9 DEF RetryWithoutSession, MayGoOn, Leave, Goto, TypeOK, sessionVars, mutexVars
  <2>2. LocksHeld' BY <1>0, <1>1, <2>1, LocksFrame DEF Building
  <2>3. status' # "RESTARTING" BY <1>0, <2>1 DEF RestartTended
  <2> QED BY <2>2, <2>3, TendedAgain
<1> QED BY <1>2, <1>3, <1>4, <1>5, <1>6, <1>7, <1>8, <1>9 DEF Load, GoOn

\* What a connect() does while it holds its lock, up to its release.
LEMMA BuilderKeeps ==
  ASSUME CacheInv, NEW t \in Task, Build(t) \/ Check(t)
  PROVE  LocksHeld' /\ RestartTended'
<1>0. TypeOK /\ LocksHeld /\ RestartTended BY DEF CacheInv
<1>1. \A u \in Task : u # t => pc'[u] = pc[u] /\ kind'[u] = kind[u]
  BY <1>0 DEF TypeOK, Build, Check, BuildReady, UpToDate, OutOfDate, ServerMissing, Deployed,
     RebuildReady, ConnectThrows, Return, Goto, Leave
<1>2. CASE UpToDate(t) \/ RebuildReady(t)
  <2>1. Return(t) BY <1>2 DEF UpToDate, RebuildReady
  <2>2. pc'[t] = "returned" /\ Release(t) /\ status' = "UP"
    BY <1>0, <2>1 DEF Return, Leave, Goto, TypeOK
  <2>3. LocksHeld' BY <1>0, <1>1, <2>2, LocksReleased DEF Building
  <2> QED BY <2>2, <2>3, TendedAgain
<1>3. CASE ConnectThrows(t)
  <2>1. /\ pc[t] \in Building /\ pc'[t] = "failed" /\ Release(t)
        /\ UNCHANGED <<session, status>>
    BY <1>0, <1>3 DEF ConnectThrows, Leave, Goto, TypeOK, sessionVars, Building
  <2>2. LocksHeld' BY <1>0, <1>1, <2>1, LocksReleased DEF Building
  <2> QED BY <1>0, <1>1, <2>1, <2>2, TendedFrame DEF Building
<1>4. CASE BuildReady(t) \/ OutOfDate(t) \/ ServerMissing(t) \/ Deployed(t)
  <2>1. /\ pc[t] \in Building /\ pc'[t] \in Building
        /\ UNCHANGED <<session, status, mutex, unresolved>>
    BY <1>0, <1>4 DEF BuildReady, OutOfDate, ServerMissing, Deployed, Goto, TypeOK,
       sessionVars, mutexVars, Building
  <2>2. LocksHeld' BY <1>0, <1>1, <2>1, LocksFrame
  <2> QED BY <1>0, <1>1, <2>1, <2>2, TendedFrame DEF Building
<1> QED BY <1>2, <1>3, <1>4 DEF Build, Check

\* What happens to the clients, the calls and the messages.
LEMMA OthersKeep ==
  ASSUME CacheInv,
         \/ \E c \in ClientId : ConnectionCloses(c) \/ \E r \in Call : CallEnds(c, r)
         \/ \E r \in Call : MakeCall(r)
         \/ Uninstall \/ ClientError \/ Dismiss \/ UNCHANGED vars
  PROVE  LocksHeld' /\ RestartTended'
<1>0. TypeOK /\ LocksHeld /\ RestartTended BY DEF CacheInv
<1>1. UNCHANGED <<mutex, unresolved, pc, kind>>
  BY DEF ConnectionCloses, CallEnds, MakeCall, Uninstall, ClientError, Dismiss, vars,
     mutexVars, taskVars
<1>2. LocksHeld' BY <1>0, <1>1, LocksFrame
<1>3. \/ status' # "RESTARTING"
      \/ status' = status /\ session' = session
  BY DEF ConnectionCloses, CallEnds, MakeCall, Uninstall, ClientError, Dismiss, vars, sessionVars
<1>4. RestartTended' BY <1>0, <1>1, <1>3, TendedFrame, TendedAgain
<1> QED BY <1>2, <1>4

\* CacheInv always holds: of the connect() calls that run at once exactly those
\* that build hold a lock, none waits for a waiter, and a session that is
\* RESTARTING has a reload that will end it or could not load its profile.
THEOREM LocksAndRestarts == Spec => []CacheInv
<1>1. Init => CacheInv
  <2> SUFFICES ASSUME Init PROVE CacheInv OBVIOUS
  <2>1. TypeOK BY InitInv DEF IInv
  <2>2. LocksHeld /\ RestartTended BY DEF Init, LocksHeld, RestartTended, Building
  <2> QED BY <2>1, <2>2 DEF CacheInv
<1>2. TypeOK' /\ CacheInv /\ [Next]_vars => CacheInv'
  <2> SUFFICES ASSUME TypeOK', CacheInv, [Next]_vars PROVE LocksHeld' /\ RestartTended'
    BY DEF CacheInv
  <2>1. CASE \E t \in Task : Connect(t) \/ Reload(t) \/ Load(t) \/ GoOn(t)
    BY <2>1, WaiterKeeps
  <2>2. CASE \E t \in Task : Build(t) \/ Check(t) BY <2>2, BuilderKeeps
  <2> QED BY <2>1, <2>2, OthersKeep DEF Next
<1> QED BY <1>1, <1>2, TypeCorrect, PTL DEF Spec
=============================================================================
