---------------------------- MODULE SshClientCache ----------------------------
(***************************************************************************)
(* The VS Code extension's cache of SSH clients                            *)
(* (packages/vsce/src/SshClientCache.ts), for one profile: the session and *)
(* the mutex of the profile, the connect() calls that run at once, the     *)
(* reloads that the user starts from an error message, and the clients,    *)
(* which close, report errors and hold the calls in flight.                *)
(*                                                                         *)
(* A task is one call of connect(), with what leads to it.  Each action is *)
(* what runs between two awaits.  SshClient models one client in detail;   *)
(* here a client is its connection and the calls pending in its map.       *)
(***************************************************************************)
EXTENDS Naturals, FiniteSets

CONSTANTS Task,
          Call,         \* calls made through the extension
          MaxClient,    \* bound: clients created
          MaxPrompt,    \* bound: error messages with a reload button
          NoTask

ClientId == 1 .. MaxClient
NoClient == 0

ASSUME CacheAssumption ==
  /\ MaxClient \in Nat \ {0}
  /\ MaxPrompt \in Nat
  /\ NoTask \notin Task

VARIABLES
  session,     \* the entry of mClientSessionMap: its client, NoClient if there is none
  status,      \* and its ServerStatus ("UP" while there is none)
  mutex,       \* the entry of mMutexMap: the task whose lock it is
  unresolved,  \* the tasks whose lock is not resolved yet
  \* per task
  pc, kind,
  awaited,     \* the lock it found on entry
  built,       \* newClient
  replay,      \* replayRequests
  \* clients
  client, inflight, created,
  \* the user
  prompts,     \* error messages that wait for an answer
  unmade,      \* calls not made yet
  settled,
  \* history: calls that a connect() had collected and not sent again when it threw
  dropped

sessionVars == <<session, status>>
mutexVars == <<mutex, unresolved>>
taskVars == <<pc, kind, awaited, built, replay>>
clientVars == <<client, inflight, created>>
userVars == <<prompts, unmade, settled>>
vars == <<sessionVars, mutexVars, taskVars, clientVars, userVars, dropped>>

TypeOK ==
  /\ session \in ClientId \cup {NoClient}
  /\ status \in {"UP", "DOWN", "RESTARTING"}
  /\ mutex \in Task \cup {NoTask} /\ unresolved \in SUBSET Task
  /\ pc \in [Task -> {"idle", "loading", "waiting", "building", "checking", "deploying",
                      "rebuilding", "returned", "failed", "unloaded"}]
  /\ kind \in [Task -> {"connect", "restart", "retry"}]
  /\ awaited \in [Task -> Task \cup {NoTask}]
  /\ built \in [Task -> ClientId \cup {NoClient}]
  /\ replay \in [Task -> SUBSET Call]
  /\ client \in [ClientId -> {"unborn", "starting", "live", "orphan", "disposed", "closed"}]
  /\ inflight \in [ClientId -> SUBSET Call]
  /\ created \in 0 .. MaxClient
  /\ prompts \in 0 .. MaxPrompt
  /\ unmade \in SUBSET Call /\ settled \in SUBSET Call /\ dropped \in SUBSET Call

Init ==
  /\ session = NoClient /\ status = "UP"
  /\ mutex = NoTask /\ unresolved = {}
  /\ pc = [t \in Task |-> "idle"]
  /\ kind = [t \in Task |-> "connect"]
  /\ awaited = [t \in Task |-> NoTask]
  /\ built = [t \in Task |-> NoClient]
  /\ replay = [t \in Task |-> {}]
  /\ client = [c \in ClientId |-> "unborn"]
  /\ inflight = [c \in ClientId |-> {}]
  /\ created = 0
  /\ prompts = 0 /\ unmade = Call /\ settled = {} /\ dropped = {}

-----------------------------------------------------------------------------
(* end(): the session's client is disposed, which rejects the calls in its *)
(* map that are not silenced, and the session is deleted.                  *)

SessionKept == session
SessionAfterEnd == NoClient
ClientsAfterEnd ==
  [c \in ClientId |-> IF c = session /\ client[c] = "live" THEN "disposed" ELSE client[c]]
InflightAfterEnd == [c \in ClientId |-> IF c = session THEN {} ELSE inflight[c]]
InSession == UNION {inflight[c] : c \in {session} \cap ClientId}
SettledByNone(silenced) == settled
SettledAfterEnd(silenced) == settled \cup (InSession \ silenced)

\* onClose of any client, the session's or not, calls end().  A creation that
\* waits for the server's ready line does not hear of it.
ConnectionCloses(c) ==
  /\ client[c] \in {"starting", "live", "orphan", "disposed"}
  /\ session' = SessionAfterEnd /\ status' = "UP"
  /\ client' = [ClientsAfterEnd EXCEPT ![c] = "closed"]
  /\ inflight' = InflightAfterEnd
  /\ settled' = SettledAfterEnd({})
  /\ UNCHANGED <<mutexVars, taskVars, created, prompts, unmade, dropped>>

\* The server is uninstalled.
Uninstall ==
  /\ session # NoClient
  /\ session' = SessionAfterEnd /\ status' = "UP"
  /\ client' = ClientsAfterEnd
  /\ inflight' = InflightAfterEnd
  /\ settled' = SettledAfterEnd({})
  /\ UNCHANGED <<mutexVars, taskVars, created, prompts, unmade, dropped>>

-----------------------------------------------------------------------------
(* connect()                                                               *)

\* The mutex is read once, on entry; without one, connect goes on at the next
\* microtask, after others may have entered as well.
EnterConnect(t, k) ==
  /\ pc' = [pc EXCEPT ![t] = "waiting"]
  /\ kind' = [kind EXCEPT ![t] = k]
  /\ awaited' = [awaited EXCEPT ![t] = mutex]

Connect(t) ==
  /\ pc[t] = "idle"
  /\ \E k \in {"connect", "restart"} : EnterConnect(t, k)
  /\ UNCHANGED <<sessionVars, mutexVars, built, replay, clientVars, userVars, dropped>>

MayGoOn(t) == pc[t] = "waiting" /\ awaited[t] \notin unresolved

Goto(t, where) == pc' = [pc EXCEPT ![t] = where]

\* connect returns or throws; its locals are forgotten.
Leave(t, how) ==
  /\ Goto(t, how)
  /\ kind' = [kind EXCEPT ![t] = "connect"]
  /\ awaited' = [awaited EXCEPT ![t] = NoTask]
  /\ built' = [built EXCEPT ![t] = NoClient]

WantsRetry(t) == kind[t] = "retry"
WantsRestart(t) == kind[t] \in {"restart", "retry"}

\* There is a session, and no restart is asked for.
UseSession(t) ==
  /\ MayGoOn(t) /\ ~WantsRestart(t) /\ session # NoClient
  /\ Leave(t, "returned")
  /\ UNCHANGED <<sessionVars, mutexVars, replay, clientVars, userVars, dropped>>

\* buildClient starts a client for task t; the lock goes into the map over any
\* other that is there.
StartClient(t, clients) ==
  /\ created < MaxClient
  /\ created' = created + 1
  /\ client' = [clients EXCEPT ![created + 1] = "starting"]
  /\ built' = [built EXCEPT ![t] = created + 1]
Acquire(t) == mutex' = t /\ unresolved' = unresolved \cup {t}

BuildFirst(t) ==
  /\ MayGoOn(t) /\ ~WantsRestart(t) /\ session = NoClient
  /\ Acquire(t) /\ StartClient(t, client)
  /\ Goto(t, "building")
  /\ UNCHANGED <<sessionVars, kind, awaited, replay, inflight, userVars, dropped>>

\* A restart ends the session and builds another client; a retry first collects
\* the calls in flight, and fails with a TypeError if the session has gone.
Restart(t) ==
  LET silenced == IF WantsRetry(t) THEN InSession ELSE {} IN
  /\ MayGoOn(t) /\ WantsRestart(t)
  /\ WantsRetry(t) => session # NoClient
  /\ replay' = [replay EXCEPT ![t] = silenced]
  /\ session' = SessionAfterEnd /\ status' = "UP"
  /\ inflight' = InflightAfterEnd
  /\ settled' = SettledAfterEnd(silenced)
  /\ Acquire(t) /\ StartClient(t, ClientsAfterEnd)
  /\ Goto(t, "building")
  /\ UNCHANGED <<kind, awaited, prompts, unmade, dropped>>

RetryWithoutSession(t) ==
  /\ MayGoOn(t) /\ WantsRetry(t) /\ session = NoClient
  /\ Leave(t, "failed")
  /\ UNCHANGED <<sessionVars, mutexVars, replay, clientVars, userVars, dropped>>

\* create() sends the collected calls again as soon as its client is ready.
ClientReady(t) ==
  /\ client' = [client EXCEPT ![built[t]] = "live"]
  /\ inflight' = [inflight EXCEPT ![built[t]] = replay[t] \ settled]

BuildReady(t) ==
  /\ pc[t] = "building" /\ client[built[t]] = "starting"
  /\ ClientReady(t)
  /\ Goto(t, "checking")
  /\ UNCHANGED <<sessionVars, mutexVars, kind, awaited, built, replay, created, userVars, dropped>>

\* Leaving the scope of the lock resolves it and takes whatever lock is in the
\* map out of it.
ReleaseMapOnly(t) == mutex' = NoTask /\ unresolved' = unresolved
Release(t) == mutex' = NoTask /\ unresolved' = unresolved \ {t}

\* The session is set, and connect returns its client.
Return(t) ==
  /\ session' = built[t] /\ status' = "UP"
  /\ Release(t)
  /\ Leave(t, "returned")
  /\ replay' = [replay EXCEPT ![t] = {}]

UpToDate(t) ==
  /\ pc[t] = "checking"
  /\ Return(t)
  /\ UNCHANGED <<clientVars, userVars, dropped>>

\* The server is out of date: the client is dropped as it is, still connected.
OutOfDate(t) ==
  /\ pc[t] = "checking"
  /\ Goto(t, "deploying")
  /\ UNCHANGED <<sessionVars, mutexVars, kind, awaited, built, replay, clientVars, userVars>>
  /\ UNCHANGED dropped

\* ENOTFOUND: create() was rejected, and left its connection open.
ServerMissing(t) ==
  /\ pc[t] = "building" /\ client[built[t]] = "starting"
  /\ client' = [client EXCEPT ![built[t]] = "orphan"]
  /\ Goto(t, "deploying")
  /\ UNCHANGED <<sessionVars, mutexVars, kind, awaited, built, replay, inflight, created, userVars>>
  /\ UNCHANGED dropped

Deployed(t) ==
  /\ pc[t] = "deploying"
  /\ StartClient(t, client)
  /\ Goto(t, "rebuilding")
  /\ UNCHANGED <<sessionVars, mutexVars, kind, awaited, replay, inflight, userVars, dropped>>

RebuildReady(t) ==
  /\ pc[t] = "rebuilding" /\ client[built[t]] = "starting"
  /\ ClientReady(t)
  /\ Return(t)
  /\ UNCHANGED <<created, userVars, dropped>>

\* A call is in the map of a client that still settles it.
OnClient(r) == \E c \in ClientId : r \in inflight[c] /\ client[c] # "disposed"

\* create(), checkIfOutdated or the deployment throws, and so does connect: the
\* calls it has collected are gone with its locals.
ConnectThrows(t) ==
  /\ pc[t] \in {"building", "checking", "deploying", "rebuilding"}
  /\ Release(t)
  /\ client' = [client EXCEPT ![built[t]] = IF @ = "starting" THEN "orphan" ELSE @]
  /\ Leave(t, "failed")
  /\ replay' = [replay EXCEPT ![t] = {}]
  /\ dropped' = dropped \cup {r \in replay[t] \ settled : ~OnClient(r)}
  /\ UNCHANGED <<sessionVars, inflight, created, userVars>>

-----------------------------------------------------------------------------
(* Errors and reloads                                                      *)

\* handleClientError while a session exists: swallowed during a restart, else
\* fatal errors mark the server down, and these and timeouts ask the user.
\* (Without a session it throws; any client may report an error.)
ClientError ==
  /\ session # NoClient /\ status # "RESTARTING"
  /\ prompts < MaxPrompt
  /\ \E s \in {status, "DOWN"} : status' = s
  /\ prompts' = prompts + 1
  /\ UNCHANGED <<session, mutexVars, taskVars, clientVars, unmade, settled, dropped>>

\* The user closes the message, or reloads when there is no session.
Dismiss ==
  /\ prompts > 0 /\ prompts' = prompts - 1
  /\ UNCHANGED <<sessionVars, mutexVars, taskVars, clientVars, unmade, settled, dropped>>

\* reloadClient, up to the await of the profile.
Reload(t) ==
  /\ pc[t] = "idle" /\ prompts > 0 /\ session # NoClient
  /\ prompts' = prompts - 1
  /\ status' = "RESTARTING"
  /\ \E k \in {"restart", "retry"} : kind' = [kind EXCEPT ![t] = k]
  /\ Goto(t, "loading")
  /\ UNCHANGED <<session, mutexVars, awaited, built, replay, clientVars, unmade, settled, dropped>>

ProfileLoaded(t) ==
  /\ pc[t] = "loading"
  /\ EnterConnect(t, kind[t])
  /\ UNCHANGED <<sessionVars, mutexVars, built, replay, clientVars, userVars, dropped>>

\* The profile is gone: the reload throws.
ProfileMissing(t) ==
  /\ pc[t] = "loading"
  /\ Leave(t, "unloaded")
  /\ UNCHANGED <<sessionVars, mutexVars, replay, clientVars, userVars, dropped>>

-----------------------------------------------------------------------------
(* Calls (SshClient): made on the session's client, settled by a response, *)
(* an error or the timeout of the client they are in flight on.            *)

MakeCall(r) ==
  /\ session # NoClient /\ r \in unmade
  /\ unmade' = unmade \ {r}
  /\ inflight' = [inflight EXCEPT ![session] = @ \cup {r}]
  /\ UNCHANGED <<sessionVars, mutexVars, taskVars, client, created, prompts, settled, dropped>>

CallEnds(c, r) ==
  /\ r \in inflight[c]
  /\ inflight' = [inflight EXCEPT ![c] = @ \ {r}]
  /\ settled' = settled \cup {r}
  /\ UNCHANGED <<sessionVars, mutexVars, taskVars, client, created, prompts, unmade, dropped>>

-----------------------------------------------------------------------------
\* The steps of a connect() that wait for the SSH server or the deployment, and
\* those that do not.
Build(t) ==
  \/ BuildReady(t) \/ ServerMissing(t) \/ Deployed(t) \/ RebuildReady(t)
  \/ pc[t] # "checking" /\ ConnectThrows(t)
Check(t) == UpToDate(t) \/ OutOfDate(t) \/ (pc[t] = "checking" /\ ConnectThrows(t))
GoOn(t) == UseSession(t) \/ BuildFirst(t) \/ Restart(t) \/ RetryWithoutSession(t)
Load(t) == ProfileLoaded(t) \/ ProfileMissing(t)

Next ==
  \/ \E t \in Task : Connect(t) \/ Reload(t) \/ Load(t) \/ GoOn(t) \/ Build(t) \/ Check(t)
  \/ \E c \in ClientId : ConnectionCloses(c) \/ \E r \in Call : CallEnds(c, r)
  \/ \E r \in Call : MakeCall(r)
  \/ Uninstall \/ ClientError \/ Dismiss

Spec == Init /\ [][Next]_vars

\* Callbacks and microtasks run, the profile is read or not, and every call ends,
\* by its timer if need be.  Nothing bounds a creation once the SSH handshake is
\* through, nor a deployment; nobody has to connect, to answer a message or to
\* close.
Fairness ==
  /\ \A t \in Task : WF_vars(Load(t)) /\ WF_vars(GoOn(t)) /\ WF_vars(Check(t))
  /\ \A c \in ClientId, r \in Call : WF_vars(CallEnds(c, r))

FairSpec == Spec /\ Fairness

-----------------------------------------------------------------------------
(* What the cache promises.                                                *)

Running(t) == pc[t] \notin {"idle", "returned", "failed", "unloaded"}
OutOfClients(t) == MayGoOn(t) /\ created = MaxClient   \* the bound, not the code

\* The cache never hands out a client that it has disposed of itself.
SessionNotDisposed == session # NoClient => client[session] # "disposed"

\* Exactly the tasks that build or deploy hold a lock that is not resolved, and
\* the map holds one of these or none: a connect() waits for a task that builds,
\* never for one that waits itself, and no lock is left behind, although the
\* map's entry is overwritten and deleted by other tasks than its own.
Building == {"building", "checking", "deploying", "rebuilding"}
LocksHeld ==
  /\ unresolved = {t \in Task : pc[t] \in Building}
  /\ mutex \in unresolved \cup {NoTask}

\* A profile that is RESTARTING, so that the errors of its client are
\* swallowed, has a session whose end will take the status with it: some reload
\* is on its way to the restart, unless its profile could not be loaded.
RestartTended ==
  status = "RESTARTING" =>
    /\ session # NoClient
    /\ \E t \in Task : \/ pc[t] \in {"loading", "waiting"} /\ WantsRestart(t)
                       \/ pc[t] = "unloaded"

\* The mutex and the status of the profile fit the tasks that run, at every
\* interleaving of their awaits.
CacheInv == TypeOK /\ LocksHeld /\ RestartTended

\* What no timer ends: the creation of a client after the handshake, which also
\* misses that its connection has closed, and a deployment.
OnServer(t) == pc[t] \in {"building", "deploying", "rebuilding"}

\* Whatever locks are overwritten or taken out of the map by others, every
\* connect() returns or throws, unless it waits for the server itself or for the
\* lock of a task that does: nobody waits for one that is through.
EveryConnectReturns ==
  \A t \in Task :
    []<>(\/ ~Running(t) \/ OutOfClients(t)
         \/ OnServer(t)
         \/ pc[t] = "waiting" /\ awaited[t] \in Task /\ OnServer(awaited[t]))

\* A session does not stay in RESTARTING, in which all its errors are
\* swallowed, unless the profile could not be loaded for the reload.
RestartEnds ==
  []<>(status # "RESTARTING" \/ \E t \in Task : pc[t] = "unloaded" \/ OutOfClients(t))

\* A call has somebody who settles it: a client that still has it in its map, or
\* the connect() that has collected it and is still at work on the next client.
Kept(r) ==
  \/ r \in unmade \cup settled
  \/ OnClient(r)
  \/ \E t \in Task : pc[t] \in Building /\ r \in replay[t]

\* Every call is kept through every close, restart and reload, however these
\* overlap.  The one way to lose it is a connect() that throws after it has
\* collected the call, although collectAllRequests makes its caller responsible
\* for what it collects.
CallsAccounted == \A r \in Call : Kept(r) \/ r \in dropped
=============================================================================
