---------------------------- MODULE UserServices ----------------------------
(***************************************************************************)
(* The privileged server's registry of user services (UserServiceManager,   *)
(* UserServiceRecord and ShizukuUserServiceManager).  A client process binds *)
(* a service by key; the server keeps one record per key, starts a process   *)
(* for it from a single-threaded executor, hands the process's binder to     *)
(* every registered connection when the process attaches, and retires the    *)
(* record on unbind, version change, start timeout, death of the process,    *)
(* death of the last connection of a non-daemon service, removal of the APK  *)
(* or revocation of the package's permission.                                *)
(*                                                                          *)
(* Everything done under synchronized(manager) is one action.  What the code *)
(* does outside that monitor is a step of its own: the start-timeout and     *)
(* callback-died handlers test a field first and take the monitor later, and *)
(* removeUserServicesForPackage walks an unsynchronized list.                *)
(***************************************************************************)
EXTENDS Naturals, Sequences

CONSTANTS
  Clients,      \* client processes; each has one connection binder per key
  Keys,         \* "package:tag" keys of userServiceRecords
  Packages,     \* packages the keys belong to
  PackageOf,    \* the package of a key
  Versions,     \* version codes a bind may carry
  MaxRecords,   \* bound: records the server creates in one behaviour
  MaxRevokes,   \* bound: calls of removeUserServicesForPackage
  MaxUpgrades   \* bound: APK upgrades seen by the observers

ASSUME MaxRecordsAssumption == MaxRecords \in Nat
ASSUME KeysAssumption == PackageOf \in [Keys -> Packages]
ASSUME VersionsAssumption == Versions \subseteq Nat \ {0}

Tokens == 1 .. MaxRecords
NoToken == 0

VARIABLES
  rec,        \* rec[t]: the UserServiceRecord with token t (NoRecord: not created)
  current,    \* userServiceRecords: the token of the record a key maps to
  tracked,    \* packageUserServiceRecords: the list of tokens of a package
  queue,      \* startUserService jobs waiting in the single-thread executor
  removing,   \* tokens whose handler has passed its test and will removeSelf()
  observed,   \* tokens whose ApkChangedListener is registered with an observer
  upgrading,  \* tokens whose listener is between stop(this) and start(.., this)
  upgrades,   \* APK upgrades so far (bound)
  client,     \* life of each client process
  told,       \* <<c, t>>: client c received connected(binder of t)
  revoke      \* the thread in removeUserServicesForPackage

vars == <<rec, current, tracked, queue, removing, observed, upgrading,
          upgrades, client, told, revoke>>

ProcStates  == {"none", "starting", "sending", "lost", "attached", "destroying", "exited"}
TimerStates == {"none", "posted", "fired"}
\* "calling": the process was killed while a bind of it was being delivered.
ClientStates == {"alive", "calling", "dead"}

Record == [key : Keys, version : Versions, daemon : BOOLEAN, starting : BOOLEAN,
           timer : TimerStates, service : BOOLEAN, linked : BOOLEAN,
           callbacks : SUBSET Clients, proc : ProcStates]
NoRecord == [proc |-> "absent"]

Created(t) == rec[t].proc # "absent"
CreatedTokens == {t \in Tokens : Created(t)}
Registered(t) == Created(t) /\ current[rec[t].key] = t
AliveClients  == {c \in Clients : client[c] = "alive"}

\* Mutant: the token is derived from the key, and used again once it is free.
FreshToken_Reused == CHOOSE t \in Tokens : ~Registered(t)

\* UUID.randomUUID: a token no record has.
FreshToken == CHOOSE t \in Tokens : ~Created(t)

\* IBinder.pingBinder of the record's service.
ProcAlive(t) == rec[t].proc \in {"attached", "destroying"}
ServiceAlive(t) == rec[t].service /\ ProcAlive(t)

Init ==
  /\ rec = [t \in Tokens |-> NoRecord]
  /\ current = [k \in Keys |-> NoToken]
  /\ tracked = [p \in Packages |-> <<>>]
  /\ queue = <<>>
  /\ removing = {}
  /\ observed = {}
  /\ upgrading = {}
  /\ upgrades = 0
  /\ client = [c \in Clients |-> "alive"]
  /\ told = {}
  /\ revoke = [pc |-> "idle", calls |-> 0]

-----------------------------------------------------------------------------
(* Helpers shared by the handlers that hold the manager's monitor.          *)

\* Mutant: the process is not asked to stop.
Destroyed_NoTransact(r) == [r EXCEPT !.linked = FALSE, !.callbacks = {}]

\* Mutant: the connections are not killed.
Destroyed_KeepsCallbacks(r) ==
  [r EXCEPT !.linked = FALSE,
            !.proc = IF r.service /\ r.proc = "attached" THEN "destroying" ELSE @]

\* UserServiceRecord.destroy: unlink, ask a live process to stop, kill callbacks.
Destroyed(r) ==
  [r EXCEPT !.linked = FALSE,
            !.callbacks = {},
            !.proc = IF r.service /\ r.proc = "attached" THEN "destroying" ELSE @]

\* removeUserServiceLocked on a record that may or may not still be mapped.
RemoveLocked(t) ==
  IF Registered(t)
  THEN /\ rec' = [rec EXCEPT ![t] = Destroyed(@)]
       /\ current' = [current EXCEPT ![rec[t].key] = NoToken]
       /\ observed' = observed \ {t}
  ELSE UNCHANGED <<rec, current, observed>>

\* Mutant: a null connection is registered for a dead caller.
WithCallback_Null(r, c) ==
  [r EXCEPT !.callbacks = @ \cup {IF client[c] = "alive" THEN c ELSE 0}]

\* RemoteCallbackList.register: refused when the caller is already dead.
WithCallback(r, c) ==
  [r EXCEPT !.callbacks = IF client[c] = "alive" THEN @ \cup {c} ELSE @]

\* broadcastBinderReceived to the callbacks cs of record t.
Broadcast(t, cs) == told' = told \cup ((cs \cap AliveClients) \X {t})

\* Mutant: broadcasts to the connections registered before this one.
Rebroadcast_Before(t, r) ==
  IF ServiceAlive(t) THEN Broadcast(t, rec[t].callbacks) ELSE UNCHANGED told

\* addUserService on an existing record r (as registered): the service, if it
\* answers, is broadcast again.
Rebroadcast(t, r) ==
  IF ServiceAlive(t) THEN Broadcast(t, r.callbacks) ELSE UNCHANGED told

\* The caller's process is gone once the call it died in has been served.
CallServed(c) == client' = [client EXCEPT ![c] = IF @ = "calling" THEN "dead" ELSE @]

CanCall(c) == client[c] \in {"alive", "calling"}

-----------------------------------------------------------------------------
(* addUserService                                                           *)

\* createUserServiceRecordIfNeededLocked keeps the mapped record t.
Reusable(t, v) ==
  /\ t # NoToken
  /\ rec[t].version = v
  /\ rec[t].starting \/ ServiceAlive(t)

\* bindUserService on a record that is kept.
BindExisting(c, k, v, d) ==
  LET t == current[k]
      r == WithCallback([rec[t] EXCEPT !.daemon = d], c)
  IN /\ CanCall(c)
     /\ Reusable(t, v)
     /\ rec' = [rec EXCEPT ![t] = r]
     /\ Rebroadcast(t, r)
     /\ CallServed(c)
     /\ UNCHANGED <<current, tracked, queue, removing, observed, upgrading, upgrades, revoke>>

\* Mutant: starting is set first, so setStartingTimeout returns early.
NewRecord_NoTimeout(k, v, d) ==
  [key |-> k, version |-> v, daemon |-> d, starting |-> TRUE, timer |-> "none",
   service |-> FALSE, linked |-> FALSE, callbacks |-> {}, proc |-> "none"]

\* A new record, after setStartingTimeout.
NewRecord(k, v, d) ==
  [key |-> k, version |-> v, daemon |-> d, starting |-> TRUE, timer |-> "posted",
   service |-> FALSE, linked |-> FALSE, callbacks |-> {}, proc |-> "none"]

\* bindUserService that creates a record, retiring the one in its way; the new
\* record's start is queued and its 30 s timeout is posted.
BindNew(c, k, v, d) ==
  LET old == current[k]
      t   == FreshToken
      new == NewRecord(k, v, d)
      p   == PackageOf[k]
  IN /\ CanCall(c)
     /\ ~Reusable(old, v)
     /\ CreatedTokens # Tokens
     /\ rec' = [u \in Tokens |-> IF u = t THEN WithCallback(new, c)
                                 ELSE IF u = old THEN Destroyed(rec[u])
                                 ELSE rec[u]]
     /\ current' = [current EXCEPT ![k] = t]
     /\ tracked' = [tracked EXCEPT ![p] = Append(@, t)]
     /\ queue' = Append(queue, t)
     /\ observed' = (observed \ {old}) \cup {t}
     /\ CallServed(c)
     /\ UNCHANGED <<removing, upgrading, upgrades, told, revoke>>

\* peekUserService (noCreate): registers on whatever record there is.
Peek(c, k) ==
  LET t == current[k]
      r == WithCallback(rec[t], c)
  IN /\ CanCall(c)
     /\ IF t # NoToken
        THEN /\ rec' = [rec EXCEPT ![t] = r]
             /\ Rebroadcast(t, r)
        ELSE UNCHANGED <<rec, told>>
     /\ CallServed(c)
     /\ UNCHANGED <<current, tracked, queue, removing, observed, upgrading, upgrades, revoke>>

(* removeUserService: unbind, with or without removing the service.         *)
Unbind(c, k, remove) ==
  LET t == current[k]
  IN /\ client[c] = "alive"
     /\ t # NoToken
     /\ IF remove
        THEN RemoveLocked(t)
        ELSE /\ rec' = [rec EXCEPT ![t].callbacks = @ \ {c}]
             /\ UNCHANGED <<current, observed>>
     /\ UNCHANGED <<tracked, queue, removing, upgrading, upgrades, client, told, revoke>>

-----------------------------------------------------------------------------
(* The service process                                                      *)

\* The executor runs the next startUserService; exec may fail, and then the
\* job throws and no process exists.
StartUserService(spawned) ==
  /\ queue # <<>>
  /\ queue' = Tail(queue)
  /\ rec' = [rec EXCEPT ![Head(queue)].proc = IF spawned THEN "starting" ELSE "exited"]
  /\ UNCHANGED <<current, tracked, removing, observed, upgrading, upgrades, client, told, revoke>>

\* ServiceStarter.sendBinder issues the attach call.
SendBinder(t) ==
  /\ Created(t)
  /\ rec[t].proc = "starting"
  /\ rec' = [rec EXCEPT ![t].proc = "sending"]
  /\ UNCHANGED <<current, tracked, queue, removing, observed, upgrading, upgrades,
                 client, told, revoke>>

\* Mutant: the token is looked up among all records ever created.
KnowsToken_Stale(t) == Created(t)

\* sendUserServiceLocked finds the token among the mapped records.
KnowsToken(t) == Registered(t)

\* attachUserService: setBinder on the record with this token, or an
\* IllegalArgumentException that makes the process exit.
AttachUserService(t) ==
  /\ Created(t)
  /\ rec[t].proc \in {"sending", "lost"}
  /\ LET up == rec[t].proc = "sending"
     IN IF KnowsToken(t)
        THEN /\ rec' = [rec EXCEPT ![t].timer = IF @ = "posted" THEN "none" ELSE @,
                                   ![t].service = TRUE,
                                   ![t].linked = up,
                                   ![t].proc = IF up THEN "attached" ELSE "exited"]
             /\ Broadcast(t, rec[t].callbacks)
        ELSE /\ rec' = [rec EXCEPT ![t].proc = "exited"]
             /\ UNCHANGED told
  /\ UNCHANGED <<current, tracked, queue, removing, observed, upgrading, upgrades,
                 client, revoke>>

\* The process stops: on its own, or because destroy asked it to.  If it was
\* sending its binder, the server still gets the call.
ServiceProcessDies(t) ==
  /\ Created(t)
  /\ rec[t].proc \in {"starting", "sending", "attached", "destroying"}
  /\ rec' = [rec EXCEPT ![t].proc = IF @ = "sending" THEN "lost" ELSE "exited"]
  /\ UNCHANGED <<current, tracked, queue, removing, observed, upgrading, upgrades,
                 client, told, revoke>>

-----------------------------------------------------------------------------
(* Handlers that retire a record                                            *)

\* deathRecipient: removeSelf().
ServiceBinderDied(t) ==
  /\ Created(t)
  /\ rec[t].linked
  /\ rec[t].proc = "exited"
  /\ IF Registered(t) THEN RemoveLocked(t)
     ELSE rec' = [rec EXCEPT ![t].linked = FALSE] /\ UNCHANGED <<current, observed>>
  /\ UNCHANGED <<tracked, queue, removing, upgrading, upgrades, client, told, revoke>>

\* startTimeoutCallback reaches the head of the main handler and tests starting.
StartTimeout(t) ==
  /\ Created(t)
  /\ rec[t].timer = "posted"
  /\ rec' = [rec EXCEPT ![t].timer = "fired"]
  /\ removing' = IF rec[t].starting THEN removing \cup {t} ELSE removing
  /\ UNCHANGED <<current, tracked, queue, observed, upgrading, upgrades, client, told, revoke>>

\* Mutant: the callbacks are counted before c's is taken out.
LastCallback_Before(t, c) == ~rec[t].daemon /\ rec[t].callbacks = {}

\* onCallbackDied, after c's callback is out of the list, finds a non-daemon
\* record without callbacks.
LastCallback(t, c) == ~rec[t].daemon /\ rec[t].callbacks = {c}

\* RemoteCallbackList.binderDied and onCallbackDied for a dead client's callback.
CallbackDied(t, c) ==
  /\ Created(t)
  /\ c \in rec[t].callbacks
  /\ client[c] # "alive"
  /\ rec' = [rec EXCEPT ![t].callbacks = @ \ {c}]
  /\ removing' = IF LastCallback(t, c) THEN removing \cup {t} ELSE removing
  /\ UNCHANGED <<current, tracked, queue, observed, upgrading, upgrades, client, told, revoke>>

\* removeSelf() of a handler that passed its test before taking the monitor.
RemoveSelf(t) ==
  /\ t \in removing
  /\ RemoveLocked(t)
  /\ removing' = removing \ {t}
  /\ UNCHANGED <<tracked, queue, upgrading, upgrades, client, told, revoke>>

\* onApkChanged of record t's listener: the package is gone.
ApkRemoved(t) ==
  /\ t \in observed
  /\ RemoveLocked(t)
  /\ UNCHANGED <<tracked, queue, removing, upgrading, upgrades, client, told, revoke>>

\* onApkChanged of record t's listener: the package moved to a new path; the
\* listener is stopped and then started on the new path, outside the monitor.
ApkUpgradedStop(t) ==
  /\ t \in observed
  /\ t \notin upgrading
  /\ upgrades < MaxUpgrades
  /\ upgrades' = upgrades + 1
  /\ observed' = observed \ {t}
  /\ upgrading' = upgrading \cup {t}
  /\ UNCHANGED <<rec, current, tracked, queue, removing, client, told, revoke>>

ApkUpgradedStart(t) ==
  /\ t \in upgrading
  /\ observed' = observed \cup {t}
  /\ upgrading' = upgrading \ {t}
  /\ UNCHANGED <<rec, current, tracked, queue, removing, upgrades, client, told, revoke>>

-----------------------------------------------------------------------------
(* removeUserServicesForPackage: a fail-fast iterator over the package's    *)
(* list, without the monitor; addUserService may append meanwhile.          *)

RevokeStart(p) ==
  /\ revoke.pc = "idle"
  /\ revoke.calls < MaxRevokes
  /\ tracked[p] # <<>>
  /\ revoke' = [pc |-> "iterate", calls |-> revoke.calls + 1, package |-> p,
                index |-> 1, size |-> Len(tracked[p])]
  /\ UNCHANGED <<rec, current, tracked, queue, removing, observed, upgrading,
                 upgrades, client, told>>

RevokeIdle == revoke' = [pc |-> "idle", calls |-> revoke.calls]

\* Mutant: a record whose process has not attached yet is passed over.
RevokeRecord_Attached ==
  /\ revoke.pc = "iterate"
  /\ Len(tracked[revoke.package]) = revoke.size
  /\ revoke.index <= revoke.size
  /\ IF ServiceAlive(tracked[revoke.package][revoke.index])
     THEN RemoveLocked(tracked[revoke.package][revoke.index])
     ELSE UNCHANGED <<rec, current, observed>>
  /\ revoke' = [revoke EXCEPT !.index = @ + 1]
  /\ UNCHANGED <<tracked, queue, removing, upgrading, upgrades, client, told>>

\* hasNext() is true and the list is as the iterator knew it: removeSelf().
RevokeRecord ==
  /\ revoke.pc = "iterate"
  /\ Len(tracked[revoke.package]) = revoke.size
  /\ revoke.index <= revoke.size
  /\ RemoveLocked(tracked[revoke.package][revoke.index])
  /\ revoke' = [revoke EXCEPT !.index = @ + 1]
  /\ UNCHANGED <<tracked, queue, removing, upgrading, upgrades, client, told>>

\* hasNext() is true but the list has grown: ConcurrentModificationException
\* leaves the loop and the caller; the list stays.
RevokeFails ==
  /\ revoke.pc = "iterate"
  /\ Len(tracked[revoke.package]) # revoke.size
  /\ RevokeIdle
  /\ UNCHANGED <<rec, current, tracked, queue, removing, observed, upgrading,
                 upgrades, client, told>>

\* hasNext() is false: the loop is over.
RevokeLoopDone ==
  /\ revoke.pc = "iterate"
  /\ Len(tracked[revoke.package]) = revoke.size
  /\ revoke.index > revoke.size
  /\ revoke' = [revoke EXCEPT !.pc = "drop"]
  /\ UNCHANGED <<rec, current, tracked, queue, removing, observed, upgrading,
                 upgrades, client, told>>

\* packageUserServiceRecords.remove(packageName), whatever it holds by now.
RevokeDrop ==
  /\ revoke.pc = "drop"
  /\ tracked' = [tracked EXCEPT ![revoke.package] = <<>>]
  /\ RevokeIdle
  /\ UNCHANGED <<rec, current, queue, removing, observed, upgrading, upgrades, client, told>>

-----------------------------------------------------------------------------
(* Client processes                                                         *)

\* A client process is killed, possibly while a bind of it is being delivered.
ClientDies(c, calling) ==
  /\ client[c] = "alive"
  /\ client' = [client EXCEPT ![c] = IF calling THEN "calling" ELSE "dead"]
  /\ UNCHANGED <<rec, current, tracked, queue, removing, observed, upgrading,
                 upgrades, told, revoke>>

Bind(c, k, v, d) == BindExisting(c, k, v, d) \/ BindNew(c, k, v, d)

ClientCall ==
  \E c \in Clients, k \in Keys :
    \/ \E v \in Versions, d \in BOOLEAN : Bind(c, k, v, d)
    \/ Peek(c, k)
    \/ \E remove \in BOOLEAN : Unbind(c, k, remove)

Process ==
  \/ \E spawned \in BOOLEAN : StartUserService(spawned)
  \/ \E t \in Tokens : SendBinder(t) \/ AttachUserService(t) \/ ServiceProcessDies(t)

Retire ==
  \E t \in Tokens :
    \/ ServiceBinderDied(t)
    \/ StartTimeout(t)
    \/ \E c \in Clients : CallbackDied(t, c)
    \/ RemoveSelf(t)
    \/ ApkRemoved(t)
    \/ ApkUpgradedStop(t)
    \/ ApkUpgradedStart(t)

Revoke ==
  \/ \E p \in Packages : RevokeStart(p)
  \/ RevokeRecord \/ RevokeFails \/ RevokeLoopDone \/ RevokeDrop

Next ==
  \/ ClientCall
  \/ Process
  \/ Retire
  \/ Revoke
  \/ \E c \in Clients, calling \in BOOLEAN : ClientDies(c, calling)

\* The executor thread, the main handler (timeouts), binder death delivery and
\* calls already issued make progress; clients, service processes and the
\* package manager are free.
Fairness ==
  /\ WF_vars(\E spawned \in BOOLEAN : StartUserService(spawned))
  /\ \A t \in Tokens :
       /\ WF_vars(AttachUserService(t))
       /\ WF_vars(ServiceBinderDied(t))
       /\ WF_vars(StartTimeout(t))
       /\ WF_vars(RemoveSelf(t))
       /\ \A c \in Clients : WF_vars(CallbackDied(t, c))
  /\ WF_vars(RevokeRecord \/ RevokeFails \/ RevokeLoopDone \/ RevokeDrop)

Spec == Init /\ [][Next]_vars
FairSpec == Spec /\ Fairness

\* The registry seen as one table: a record that was created and is no longer
\* mapped has ended, whatever its process, its timer and late calls still do.
PhaseOf(t) ==
  IF ~Created(t) THEN "new"
  ELSE IF ~Registered(t) THEN "ended"
  ELSE IF rec[t].service THEN "running"
  ELSE "starting"

Phases == [t \in Tokens |-> PhaseOf(t)]
Up == {t \in CreatedTokens : rec[t].proc = "attached"}
Connections == {a \in Clients \X Tokens : Created(a[2]) /\ a[1] \in rec[a[2]].callbacks}

Table == INSTANCE ServiceRegistry WITH
  Instances <- Tokens,
  NoInstance <- NoToken,
  serving <- current,
  phase <- Phases,
  up <- Up,
  connected <- Connections,
  alive <- AliveClients

-----------------------------------------------------------------------------
(* Properties                                                               *)

\* Every variable keeps its type: the registry's maps (UserServiceManager 43-44)
\* and the records' fields (UserServiceRecord 35-41).
TypeOK ==
  /\ rec \in [Tokens -> Record \cup {NoRecord}]
  /\ current \in [Keys -> Tokens \cup {NoToken}]
  /\ tracked \in [Packages -> Seq(Tokens)]
  /\ queue \in Seq(Tokens)
  /\ removing \in SUBSET Tokens
  /\ observed \in SUBSET Tokens
  /\ upgrading \in SUBSET Tokens
  /\ upgrades \in Nat
  /\ client \in [Clients -> ClientStates]
  /\ told \in SUBSET (Clients \X Tokens)
  /\ revoke \in [pc : {"idle"}, calls : Nat] \cup
                [pc : {"iterate", "drop"}, calls : Nat, package : Packages,
                 index : Nat \ {0}, size : Nat]

\* A service process that attached and was not asked to stop is the one its key
\* maps to: no interleaving of attach, timeout, unbind, version change or
\* revocation leaves a privileged process running that the server has forgotten
\* (UserServiceManager 94-99, 242-268: the token is looked up and the record
\* destroyed under one monitor).
NoOrphanService ==
  \A t \in CreatedTokens : rec[t].proc = "attached" => Registered(t)

\* Two processes never serve one key at a time (follows a version change or a
\* restart that overlaps the start of the previous process).
OneServicePerKey ==
  \A t, u \in CreatedTokens :
    /\ rec[t].proc = "attached"
    /\ rec[u].proc = "attached"
    /\ rec[t].key = rec[u].key
    => t = u

\* No live connection registered on a record misses the binder of the attached
\* process, whichever of register and attach comes first (setBinder broadcasts,
\* addUserService broadcasts again when the service is already there).
NoMissedBinder ==
  \A t \in CreatedTokens :
    rec[t].proc = "attached" =>
      \A c \in rec[t].callbacks \cap AliveClients : <<c, t>> \in told

\* A mapped record that has no binder yet is always covered by its start
\* timeout: pending on the main handler, or past its test and about to remove.
StartIsBounded ==
  \A t \in CreatedTokens :
    Registered(t) /\ ~rec[t].service => rec[t].timer = "posted" \/ t \in removing

\* While removeUserServicesForPackage walks a package's list, the records it
\* has passed are gone for good.
RevokedStayRemoved ==
  revoke.pc = "iterate" =>
    \A i \in 1 .. Len(tracked[revoke.package]) :
      i < revoke.index => ~Registered(tracked[revoke.package][i])

\* A retired record never comes back, whatever late message names its token.
RetiredForGood ==
  [][\A t \in Tokens : (Created(t) /\ ~Registered(t)) => ~Registered(t)']_vars

\* The registry is the atomic table of ServiceRegistry: one instance per key,
\* which comes up at most once, while it serves, before the eyes of exactly its
\* live connections, and whatever retires it (unbind, version change, start
\* timeout, death, revocation, in any interleaving with a late attach) ends it
\* with its process and its connections in one step (UserServiceManager 94-268).
KeepsRegistry == Table!Spec

\* Every mapped record without a binder gets one or is retired (the 30 s start
\* timeout), even if the process never starts, dies or answers too late.
StartResolves ==
  \A t \in Tokens :
    (Registered(t) /\ ~rec[t].service) ~> ((Created(t) /\ rec[t].service) \/ ~Registered(t))

\* The last connection of a non-daemon record dies with its process: the record
\* is retired, in whatever order the deaths of several connections arrive.
LastConnectionStops ==
  \A t \in Tokens :
    (/\ Registered(t)
     /\ ~rec[t].daemon
     /\ rec[t].callbacks # {}
     /\ \A c \in Clients : client[c] = "dead") ~> ~Registered(t)

\* Claimed by the documentation of UserServiceArgs.daemon: a non-daemon service
\* is stopped once the app processes are dead.  The code stops it only when a
\* registered connection dies, and a connection that was unregistered by an
\* unbind without remove, or never registered because its process was already
\* dead, does not die.
NonDaemonStops ==
  \A t \in Tokens :
    (/\ Registered(t)
     /\ ~rec[t].daemon
     /\ rec[t].proc = "attached"
     /\ \A c \in Clients : client[c] = "dead") ~> ~(Created(t) /\ rec[t].proc = "attached")

=============================================================================
