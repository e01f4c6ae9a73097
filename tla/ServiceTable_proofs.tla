------------------------ MODULE ServiceTable_proofs ------------------------
(***************************************************************************)
(* UserServices implements ServiceRegistry: the registry, with its queue, its *)
(* timeouts, its late calls and its unlocked handlers, is one atomic table.   *)
(***************************************************************************)
EXTENDS UserServices_proofs

\* A process that has answered is never started or heard from again.
ServedOnce ==
  \A t \in CreatedTokens :
    rec[t].service => rec[t].proc \in {"attached", "destroying", "exited"}

\* A mapped record's process has not been asked to stop.
MappedNotDestroyed ==
  \A t \in CreatedTokens : Registered(t) => rec[t].proc # "destroying"

\* Each record is queued at most once, and before it has a process.
QueuedOnce ==
  \A i \in 1 .. Len(queue) :
    /\ rec[queue[i]].proc = "none"
    /\ \A j \in 1 .. Len(queue) : queue[i] = queue[j] => i = j

TInv == ServedOnce /\ MappedNotDestroyed /\ QueuedOnce

-----------------------------------------------------------------------------
(* The life of a record's process                                           *)

\* What one step does to the process of a created record: it is started from
\* the queue, sends, answers, dies, or is asked to stop when the record goes.
Lives(t) ==
  \/ /\ rec'[t].proc = rec[t].proc
     /\ rec'[t].service = rec[t].service
  \/ /\ queue # <<>> /\ queue' = Tail(queue) /\ t = Head(queue)
     /\ rec'[t].proc \in {"starting", "exited"}
     /\ rec'[t].service = rec[t].service
  \/ /\ rec[t].proc = "starting"
     /\ rec'[t].proc = "sending"
     /\ rec'[t].service = rec[t].service
  \/ /\ rec[t].proc \in {"sending", "lost"}
     /\ rec'[t].proc \in {"attached", "exited"}
     /\ rec'[t].service \/ rec'[t].service = rec[t].service
  \/ /\ rec[t].proc \in {"starting", "sending", "attached", "destroying"}
     /\ rec'[t].proc = IF rec[t].proc = "sending" THEN "lost" ELSE "exited"
     /\ rec'[t].service = rec[t].service
  \/ /\ rec[t].proc = "attached"
     /\ rec'[t].proc = "destroying"
     /\ rec'[t].service = rec[t].service
     /\ ~(Registered(t))'

LEMMA RemoveLives ==
  ASSUME IInv, NEW u \in Tokens, RemoveLocked(u), NEW t \in Tokens, Created(t)
  PROVE  Lives(t)
<1>1. CASE Registered(u) /\ t = u
  <2>1. rec'[t] = Destroyed(rec[t])
    BY <1>1 DEF RemoveLocked, IInv, TypeOK
  <2>2. ~(Registered(t))'
    BY <1>1, RemoveLockedEffect
  <2>3. rec[t] \in Record
    BY CreatedIsRecord DEF IInv
  <2> QED BY <2>1, <2>2, <2>3 DEF Destroyed, Record, Lives
<1>2. CASE ~(Registered(u) /\ t = u)
  BY <1>2 DEF RemoveLocked, IInv, TypeOK, Lives
<1> QED BY <1>1, <1>2

\* A record that is replaced by one with the same process lives on.
LEMMA SameProcessLives ==
  ASSUME IInv, NEW u \in Tokens, NEW r, rec' = [rec EXCEPT ![u] = r],
         r.proc = rec[u].proc, r.service = rec[u].service,
         NEW t \in Tokens
  PROVE  Lives(t)
BY DEF IInv, TypeOK, Lives

LEMMA LivesSteps ==
  ASSUME IInv, [Next]_vars, NEW t \in Tokens, Created(t)
  PROVE  Lives(t)
<1>1. rec[t] \in Record /\ DOMAIN rec = Tokens
  BY CreatedIsRecord DEF IInv, TypeOK
<1>2. ASSUME NEW b \in Clients, NEW k \in Keys, NEW v \in Versions, NEW d \in BOOLEAN,
             BindExisting(b, k, v, d)
      PROVE  Lives(t)
  <2> DEFINE u == current[k]
             r == WithCallback([rec[u] EXCEPT !.daemon = d], b)
  <2>1. rec' = [rec EXCEPT ![u] = r]
    BY <1>2 DEF BindExisting
  <2>2. u \in Tokens /\ rec[u] \in Record
    BY <1>2, MappedRecord DEF BindExisting, Reusable
  <2>3. r.proc = rec[u].proc /\ r.service = rec[u].service
    BY <2>2 DEF WithCallback, Record
  <2> HIDE DEF u, r
  <2> QED BY <2>1, <2>2, <2>3, SameProcessLives
<1>3. ASSUME NEW b \in Clients, NEW k \in Keys, NEW v \in Versions, NEW d \in BOOLEAN,
             BindNew(b, k, v, d)
      PROVE  Lives(t)
  <2>1. t # FreshToken /\ FreshToken \in Tokens
    BY <1>3, FreshTokenIsFree DEF BindNew
  <2>2. rec'[t] = IF t = current[k] THEN Destroyed(rec[t]) ELSE rec[t]
    BY <1>3, <2>1 DEF BindNew
  <2>3. t = current[k] => ~(Registered(t))'
    <3> HAVE t = current[k]
    <3>1. Destroyed(rec[t]).key = k
      BY <1>1, DestroyedRecord, MappedRecord DEF NoToken, Tokens
    <3>2. current'[k] = FreshToken
      BY <1>3 DEF BindNew, IInv, TypeOK
    <3> QED BY <2>1, <2>2, <3>1, <3>2 DEF Registered
  <2> QED BY <1>1, <2>2, <2>3 DEF Destroyed, Record, Lives
<1>4. ASSUME NEW b \in Clients, NEW k \in Keys, Peek(b, k)
      PROVE  Lives(t)
  <2> DEFINE u == current[k]
             r == WithCallback(rec[u], b)
  <2>1. CASE u # NoToken
    <3>1. rec' = [rec EXCEPT ![u] = r]
      BY <1>4, <2>1 DEF Peek
    <3>2. u \in Tokens /\ rec[u] \in Record
      BY <2>1, MappedRecord
    <3>3. r.proc = rec[u].proc /\ r.service = rec[u].service
      BY <3>2 DEF WithCallback, Record
    <3> HIDE DEF u, r
    <3> QED BY <3>1, <3>2, <3>3, SameProcessLives
  <2>2. CASE u = NoToken
    BY <1>4, <2>2 DEF Peek, Lives
  <2> QED BY <2>1, <2>2
<1>5. ASSUME NEW b \in Clients, NEW k \in Keys, NEW remove \in BOOLEAN, Unbind(b, k, remove)
      PROVE  Lives(t)
  <2>1. current[k] \in Tokens
    BY <1>5, MappedRecord DEF Unbind
  <2>2. CASE remove
    BY <1>5, <2>1, <2>2, RemoveLives DEF Unbind
  <2>3. CASE ~remove
    BY <1>1, <1>5, <2>1, <2>3 DEF Unbind, Record, Lives
  <2> QED BY <2>2, <2>3
<1>6. CASE ClientCall
  BY <1>2, <1>3, <1>4, <1>5, <1>6 DEF ClientCall, Bind
<1>7. CASE Process
  <2>1. ASSUME NEW spawned \in BOOLEAN, StartUserService(spawned)
        PROVE  Lives(t)
    BY <1>1, <2>1 DEF StartUserService, Record, Lives
  <2>2. ASSUME NEW u \in Tokens, SendBinder(u)
        PROVE  Lives(t)
    BY <1>1, <2>2 DEF SendBinder, Record, Lives
  <2>3. ASSUME NEW u \in Tokens, ServiceProcessDies(u)
        PROVE  Lives(t)
    BY <1>1, <2>3 DEF ServiceProcessDies, Record, Lives
  <2>4. ASSUME NEW u \in Tokens, AttachUserService(u)
        PROVE  Lives(t)
    BY <1>1, <2>4 DEF AttachUserService, Record, Lives
  <2> QED BY <1>7, <2>1, <2>2, <2>3, <2>4 DEF Process
<1>8. CASE Retire
  <2>1. PICK u \in Tokens :
          \/ ServiceBinderDied(u)
          \/ StartTimeout(u)
          \/ \E b \in Clients : CallbackDied(u, b)
          \/ RemoveSelf(u)
          \/ ApkRemoved(u)
          \/ ApkUpgradedStop(u)
          \/ ApkUpgradedStart(u)
    BY <1>8 DEF Retire
  <2>2. ServiceBinderDied(u) => Lives(t)
    <3> HAVE ServiceBinderDied(u)
    <3>1. CASE Registered(u)
      BY <3>1, RemoveLives DEF ServiceBinderDied
    <3>2. CASE ~Registered(u)
      BY <1>1, <3>2 DEF ServiceBinderDied, Record, Lives
    <3> QED BY <3>1, <3>2
  <2>3. StartTimeout(u) => Lives(t)
    BY <1>1 DEF StartTimeout, Record, Lives
  <2>4. ASSUME NEW b \in Clients, CallbackDied(u, b)
        PROVE  Lives(t)
    BY <1>1, <2>4 DEF CallbackDied, Record, Lives
  <2>5. RemoveSelf(u) \/ ApkRemoved(u) => Lives(t)
    BY RemoveLives DEF RemoveSelf, ApkRemoved
  <2>6. ApkUpgradedStop(u) \/ ApkUpgradedStart(u) => Lives(t)
    BY DEF ApkUpgradedStop, ApkUpgradedStart, Lives
  <2> QED BY <2>1, <2>2, <2>3, <2>4, <2>5, <2>6
<1>9. CASE Revoke
  <2>1. RevokeRecord => Lives(t)
    BY RemoveLives, IteratedToken DEF RevokeRecord
  <2>2. ~RevokeRecord => Lives(t)
    BY <1>9 DEF Revoke, RevokeStart, RevokeFails, RevokeLoopDone, RevokeDrop, Lives
  <2> QED BY <2>1, <2>2
<1>10. CASE \E c \in Clients, calling \in BOOLEAN : ClientDies(c, calling)
  BY <1>10 DEF ClientDies, Lives
<1>11. CASE UNCHANGED vars
  BY <1>11 DEF vars, Lives
<1> QED BY <1>6, <1>7, <1>8, <1>9, <1>10, <1>11 DEF Next

\* A step leaves the queue, takes its head, or appends the record it creates.
LEMMA QueueSteps ==
  ASSUME IInv, [Next]_vars
  PROVE  \/ queue' = queue
         \/ queue # <<>> /\ queue' = Tail(queue)
         \/ \E t \in Tokens : ~Created(t) /\ (Created(t))' /\ queue' = Append(queue, t)
<1>1. ASSUME NEW c \in Clients, NEW k \in Keys, NEW v \in Versions, NEW d \in BOOLEAN,
             BindNew(c, k, v, d)
      PROVE  \E t \in Tokens : ~Created(t) /\ (Created(t))' /\ queue' = Append(queue, t)
  <2>1. PICK t \in Tokens : t = FreshToken /\ ~Created(t)
    BY <1>1, FreshTokenIsFree DEF BindNew
  <2>2. rec'[t] = WithCallback(NewRecord(k, v, d), c)
    BY <1>1, <2>1 DEF BindNew
  <2>3. (Created(t))'
    BY <2>2 DEF WithCallback, NewRecord, Created
  <2> QED BY <1>1, <2>1, <2>3 DEF BindNew
<1>2. CASE ClientCall
  BY <1>1, <1>2 DEF ClientCall, Bind, BindExisting, Peek, Unbind
<1>3. CASE Process
  BY <1>3 DEF Process, StartUserService, SendBinder, AttachUserService, ServiceProcessDies
<1>4. CASE Retire
  BY <1>4 DEF Retire, ServiceBinderDied, StartTimeout, CallbackDied, RemoveSelf, ApkRemoved,
     ApkUpgradedStop, ApkUpgradedStart
<1>5. CASE Revoke
  BY <1>5 DEF Revoke, RevokeStart, RevokeRecord, RevokeFails, RevokeLoopDone, RevokeDrop
<1>6. CASE \E c \in Clients, calling \in BOOLEAN : ClientDies(c, calling)
  BY <1>6 DEF ClientDies
<1>7. CASE UNCHANGED vars
  BY <1>7 DEF vars
<1> QED BY <1>2, <1>3, <1>4, <1>5, <1>6, <1>7 DEF Next

LEMMA TInvStep == IInv /\ TInv /\ [Next]_vars => TInv'
<1> SUFFICES ASSUME IInv, TInv, [Next]_vars PROVE TInv'
  OBVIOUS
<1>1. \A t \in Tokens : ~Created(t) /\ (Created(t))' => rec'[t].proc = "none" /\ ~rec'[t].service
  BY BornPosted
<1>2. /\ queue \in Seq(Tokens)
      /\ \A i \in 1 .. Len(queue) : queue[i] \in Tokens /\ Created(queue[i])
  BY OtherTypes DEF IInv, QueueCreated
<1>3. queue # <<>> => rec[Head(queue)].proc = "none"
  BY <1>2 DEF TInv, QueuedOnce
<1>4. ServedOnce'
  <2> SUFFICES ASSUME NEW t \in Tokens, (Created(t))', rec'[t].service
               PROVE  rec'[t].proc \in {"attached", "destroying", "exited"}
    BY DEF ServedOnce, CreatedTokens
  <2>1. Created(t)
    BY <1>1
  <2>2. rec[t].service => rec[t].proc \in {"attached", "destroying", "exited"}
    BY <2>1 DEF TInv, ServedOnce, CreatedTokens
  <2> QED BY <1>3, <2>1, <2>2, LivesSteps DEF Lives
<1>5. MappedNotDestroyed'
  <2> SUFFICES ASSUME NEW t \in Tokens, (Created(t))', (Registered(t))'
               PROVE  rec'[t].proc # "destroying"
    BY DEF MappedNotDestroyed, CreatedTokens
  <2>1. CASE ~Created(t)
    BY <1>1, <2>1
  <2>2. CASE Created(t)
    <3>1. Registered(t)
      BY <2>2, NoRevival
    <3>2. rec[t].proc # "destroying"
      BY <2>2, <3>1 DEF TInv, MappedNotDestroyed, CreatedTokens
    <3> QED BY <2>2, <3>2, LivesSteps DEF Lives
  <2> QED BY <2>1, <2>2
<1>6. QueuedOnce'
  <2>0. queue # <<>> => Len(Tail(queue)) = Len(queue) - 1
    BY <1>2
  <2>1. \A i \in 1 .. Len(queue) :
          /\ rec[queue[i]].proc = "none"
          /\ \A j \in 1 .. Len(queue) : queue[i] = queue[j] => i = j
    BY DEF TInv, QueuedOnce
  <2>2. ASSUME NEW i \in 1 .. Len(queue),
               ~(queue # <<>> /\ queue' = Tail(queue) /\ queue[i] = Head(queue))
        PROVE  rec'[queue[i]].proc = "none"
    <3>1. Lives(queue[i])
      BY <1>2, LivesSteps
    <3> QED BY <2>1, <2>2, <3>1 DEF Lives
  <2>3. CASE queue' = queue
    <3>1. queue # <<>> => queue' # Tail(queue)
      BY <1>2, <2>0, <2>3
    <3> QED BY <2>1, <2>2, <2>3, <3>1 DEF QueuedOnce
  <2>4. CASE queue # <<>> /\ queue' = Tail(queue)
    <3>1. \A i \in 1 .. Len(queue') : i + 1 \in 1 .. Len(queue) /\ queue'[i] = queue[i + 1]
      BY <1>2, <2>4
    <3>2. Head(queue) = queue[1] /\ 1 \in 1 .. Len(queue)
      BY <1>2, <2>4
    <3>3. \A i \in 1 .. Len(queue') : queue[i + 1] # Head(queue)
      BY <2>1, <3>1, <3>2
    <3>4. \A i \in 1 .. Len(queue') : rec'[queue'[i]].proc = "none"
      BY <2>2, <3>1, <3>3
    <3> QED BY <2>1, <3>1, <3>4 DEF QueuedOnce
  <2>5. ASSUME NEW t \in Tokens, ~Created(t), (Created(t))', queue' = Append(queue, t)
        PROVE  QueuedOnce'
    <3>1. Len(queue') = Len(queue) + 1 /\ Len(queue) \in Nat
      BY <1>2, <2>5
    <3>2. queue'[Len(queue) + 1] = t /\ \A i \in 1 .. Len(queue) : queue'[i] = queue[i]
      BY <1>2, <2>5
    <3>3. queue # <<>> => queue' # Tail(queue)
      BY <2>0, <3>1
    <3>4. \A i \in 1 .. Len(queue) : rec'[queue[i]].proc = "none"
      BY <2>2, <3>3
    <3>5. rec'[t].proc = "none" /\ \A i \in 1 .. Len(queue) : queue[i] # t
      BY <1>1, <1>2, <2>5
    <3>6. \A i \in 1 .. Len(queue') : i \in 1 .. Len(queue) \/ i = Len(queue) + 1
      BY <3>1
    <3>7. \A i \in 1 .. Len(queue') : rec'[queue'[i]].proc = "none"
      BY <3>2, <3>4, <3>5, <3>6
    <3>8. \A i, j \in 1 .. Len(queue') : queue'[i] = queue'[j] => i = j
      BY <2>1, <3>2, <3>5, <3>6
    <3> QED BY <3>7, <3>8 DEF QueuedOnce
  <2> QED BY <2>3, <2>4, <2>5, QueueSteps
<1> QED BY <1>4, <1>5, <1>6 DEF TInv

-----------------------------------------------------------------------------
(* What the table shows of a record                                         *)

\* A created record's row, from its fields.
LEMMA PhaseOfRecord ==
  ASSUME NEW t \in Tokens, Created(t)
  PROVE  PhaseOf(t) = IF ~Registered(t) THEN "ended"
                      ELSE IF rec[t].service THEN "running" ELSE "starting"
BY DEF PhaseOf

\* Two clients and tokens name one connection only if they are the same.
LEMMA ConnectionOf ==
  ASSUME NEW c \in Clients, NEW t \in Tokens
  PROVE  <<c, t>> \in Connections <=> Created(t) /\ c \in rec[t].callbacks
BY DEF Connections

\* Replacing a created record changes its row of the table and no other.
LEMMA RowChange ==
  ASSUME IInv, NEW t \in Tokens, Created(t), NEW r \in Record,
         rec' = [rec EXCEPT ![t] = r], UNCHANGED current, r.key = rec[t].key
  PROVE  /\ Phases' = [Phases EXCEPT ![t] = IF ~Registered(t) THEN "ended"
                                            ELSE IF r.service THEN "running" ELSE "starting"]
         /\ Up' = IF r.proc = "attached" THEN Up \cup {t} ELSE Up \ {t}
         /\ Connections' = (Connections \ (Clients \X {t})) \cup (r.callbacks \X {t})
<1>1. /\ rec'[t] = r /\ r.proc # "absent" /\ r.callbacks \subseteq Clients
      /\ \A u \in Tokens : u # t => rec'[u] = rec[u]
  BY DEF IInv, TypeOK, Record, ProcStates
<1>2. \A u \in Tokens : Created(u) <=> (Created(u))'
  BY <1>1 DEF Created
<1>3. \A u \in Tokens : Registered(u) <=> (Registered(u))'
  BY <1>1, <1>2 DEF Registered
<1>4. \A u \in Tokens : u # t => (PhaseOf(u))' = PhaseOf(u)
  BY <1>1, <1>2, <1>3 DEF PhaseOf
<1>5. (PhaseOf(t))' = IF ~Registered(t) THEN "ended"
                      ELSE IF r.service THEN "running" ELSE "starting"
  BY <1>1, <1>2, <1>3 DEF PhaseOf
<1>6. Up' = IF r.proc = "attached" THEN Up \cup {t} ELSE Up \ {t}
  BY <1>1, <1>2 DEF Up, CreatedTokens
<1>7. Connections' = (Connections \ (Clients \X {t})) \cup (r.callbacks \X {t})
  <2>1. \A c \in Clients, u \in Tokens :
          <<c, u>> \in Connections' <=> (Created(u))' /\ c \in rec'[u].callbacks
    BY DEF Connections
  <2>2. \A c \in Clients, u \in Tokens :
          <<c, u>> \in Connections' <=>
            <<c, u>> \in (Connections \ (Clients \X {t})) \cup (r.callbacks \X {t})
    BY <1>1, <1>2, <2>1, ConnectionOf
  <2>3. Connections' \subseteq Clients \X Tokens /\ Connections \subseteq Clients \X Tokens
    BY DEF Connections
  <2>4. r.callbacks \X {t} \subseteq Clients \X Tokens
    BY <1>1
  <2> QED BY <2>2, <2>3, <2>4
<1> QED BY <1>4, <1>5, <1>6, <1>7 DEF Phases

\* Whatever retires a mapped record ends its instance; a late one does nothing.
LEMMA RemoveInTable ==
  ASSUME IInv, NEW t \in Tokens, RemoveLocked(t), UNCHANGED <<client, told>>
  PROVE  [Table!Next]_(Table!vars)
<1>1. CASE ~Registered(t)
  BY <1>1 DEF RemoveLocked, Table!vars, Phases, PhaseOf, Up, Connections, AliveClients,
     CreatedTokens, Created, Registered
<1>2. CASE Registered(t)
  <2> DEFINE k == rec[t].key
  <2>1. rec[t] \in Record /\ Created(t) /\ current[k] = t /\ k \in Keys
    BY <1>2, CreatedIsRecord DEF IInv, Registered, Record
  <2>2. /\ rec'[t] = Destroyed(rec[t])
        /\ \A u \in Tokens : u # t => rec'[u] = rec[u]
        /\ current' = [current EXCEPT ![k] = NoToken]
    BY <1>2 DEF RemoveLocked, IInv, TypeOK
  <2>3. /\ \A u \in Tokens : Created(u) <=> (Created(u))'
        /\ \A u \in Tokens : (Registered(u))' <=> Registered(u) /\ u # t
        /\ rec'[t].proc # "attached"
    BY <2>1, RemoveLockedEffect
  <2>4. rec'[t].callbacks = {}
    BY <2>1, <2>2, DestroyedRecord
  <2>5. Phases' = [Phases EXCEPT ![t] = "ended"]
    <3>1. (PhaseOf(t))' = "ended"
      BY <2>1, <2>3 DEF PhaseOf
    <3>2. \A u \in Tokens : u # t => (PhaseOf(u))' = PhaseOf(u)
      BY <2>2, <2>3 DEF PhaseOf
    <3> QED BY <3>1, <3>2 DEF Phases
  <2>6. Up' = Up \ {t}
    BY <2>2, <2>3 DEF Up, CreatedTokens
  <2>7. Connections' = Connections \ (Clients \X {t})
    <3>1. \A c \in Clients, u \in Tokens :
            <<c, u>> \in Connections' <=> (Created(u))' /\ c \in rec'[u].callbacks
      BY DEF Connections
    <3>2. \A c \in Clients, u \in Tokens :
            <<c, u>> \in Connections' <=> <<c, u>> \in Connections \ (Clients \X {t})
      BY <2>2, <2>3, <2>4, <3>1, ConnectionOf
    <3>3. Connections' \subseteq Clients \X Tokens /\ Connections \subseteq Clients \X Tokens
      BY DEF Connections
    <3> QED BY <3>2, <3>3
  <2>8. AliveClients' = AliveClients
    BY DEF AliveClients
  <2>9. Table!End(k, t)
    BY <2>1, <2>2, <2>5, <2>6, <2>7, <2>8 DEF Table!End, Table!Without
  <2> QED BY <2>1, <2>9 DEF Table!Next
<1> QED BY <1>1, <1>2

\* A record loses callbacks or its process and keeps the rest.
LEMMA LoseInTable ==
  ASSUME IInv, NEW t \in Tokens, Created(t), NEW r \in Record,
         rec' = [rec EXCEPT ![t] = r], UNCHANGED <<current, told>>,
         AliveClients' = AliveClients,
         r.key = rec[t].key, r.service = rec[t].service,
         \/ /\ r.callbacks = rec[t].callbacks
            /\ r.proc = "attached" => rec[t].proc = "attached"
         \/ /\ r.proc = rec[t].proc
            /\ \E c \in Clients : r.callbacks = rec[t].callbacks \ {c}
  PROVE  [Table!Next]_(Table!vars)
<1>1. /\ Phases' = Phases
      /\ Up' = IF r.proc = "attached" THEN Up \cup {t} ELSE Up \ {t}
      /\ Connections' = (Connections \ (Clients \X {t})) \cup (r.callbacks \X {t})
  <2>1. /\ Phases' = [Phases EXCEPT ![t] = PhaseOf(t)]
        /\ Up' = IF r.proc = "attached" THEN Up \cup {t} ELSE Up \ {t}
        /\ Connections' = (Connections \ (Clients \X {t})) \cup (r.callbacks \X {t})
    BY RowChange, PhaseOfRecord
  <2>2. [Phases EXCEPT ![t] = PhaseOf(t)] = Phases
    BY DEF Phases
  <2> QED BY <2>1, <2>2
<1>2. t \in Up <=> rec[t].proc = "attached"
  BY DEF Up, CreatedTokens
<1>3. Connections \subseteq Clients \X Tokens /\ \A c \in Clients :
        <<c, t>> \in Connections <=> c \in rec[t].callbacks
  BY ConnectionOf DEF Connections
<1>4. rec[t].callbacks \subseteq Clients
  BY CreatedIsRecord DEF IInv, Record
<1>5. ASSUME r.callbacks = rec[t].callbacks, r.proc = "attached" => rec[t].proc = "attached"
      PROVE  [Table!Next]_(Table!vars)
  <2>1. Connections' = Connections
    BY <1>1, <1>3, <1>4, <1>5
  <2>2. Up' = Up \/ (t \in Up /\ Up' = Up \ {t})
    BY <1>1, <1>2, <1>5
  <2>3. t \in Up /\ Up' = Up \ {t} => Table!Crash(t)
    BY <1>1, <2>1 DEF Table!Crash
  <2> QED BY <1>1, <2>1, <2>2, <2>3 DEF Table!Next, Table!vars
<1>6. ASSUME r.proc = rec[t].proc, NEW c \in Clients, r.callbacks = rec[t].callbacks \ {c}
      PROVE  [Table!Next]_(Table!vars)
  <2>1. Connections' = Connections \ {<<c, t>>}
    BY <1>1, <1>3, <1>4, <1>6
  <2>2. Up' = Up
    BY <1>1, <1>2, <1>6
  <2>3. Table!Disconnect(<<c, t>>)
    BY <1>1, <2>1, <2>2 DEF Table!Disconnect
  <2>4. CASE <<c, t>> \in Connections
    BY <2>3, <2>4 DEF Table!Next
  <2>5. CASE <<c, t>> \notin Connections
    BY <1>1, <2>1, <2>2, <2>5 DEF Table!vars
  <2> QED BY <2>4, <2>5
<1> QED BY <1>5, <1>6

\* A live client that registers on the mapped record connects to its instance; a
\* dead one does nothing, and repeating the broadcast tells nobody anything new.
LEMMA RegisterInTable ==
  ASSUME IInv, TInv, NoMissedBinder, NEW k \in Keys, NEW t \in Tokens, current[k] = t,
         NEW c \in Clients, NEW b \in Record, UNCHANGED current,
         b.key = rec[t].key, b.service = rec[t].service, b.proc = rec[t].proc,
         b.callbacks = rec[t].callbacks,
         NEW r, r = WithCallback(b, c),
         rec' = [rec EXCEPT ![t] = r], Rebroadcast(t, r), CallServed(c)
  PROVE  [Table!Next]_(Table!vars)
<1>1. Created(t) /\ Registered(t) /\ rec[t] \in Record
  BY MappedRecord DEF Tokens, NoToken
<1>2. /\ r \in Record /\ r.key = rec[t].key /\ r.service = rec[t].service
      /\ r.proc = rec[t].proc
      /\ r.callbacks = IF c \in AliveClients THEN rec[t].callbacks \cup {c} ELSE rec[t].callbacks
  BY DEF WithCallback, Record, AliveClients
<1>3. AliveClients' = AliveClients
  BY OtherTypes DEF CallServed, AliveClients
<1>4. /\ Phases' = Phases
      /\ Up' = Up
      /\ Connections' = (Connections \ (Clients \X {t})) \cup (r.callbacks \X {t})
  <2>1. t \in Up <=> rec[t].proc = "attached"
    BY <1>1 DEF Up, CreatedTokens
  <2>2. /\ Phases' = [Phases EXCEPT ![t] = IF ~Registered(t) THEN "ended"
                                           ELSE IF r.service THEN "running" ELSE "starting"]
        /\ Up' = IF r.proc = "attached" THEN Up \cup {t} ELSE Up \ {t}
        /\ Connections' = (Connections \ (Clients \X {t})) \cup (r.callbacks \X {t})
    BY <1>1, <1>2, RowChange
  <2>4. PhaseOf(t) = IF ~Registered(t) THEN "ended"
                     ELSE IF r.service THEN "running" ELSE "starting"
    BY <1>1, <1>2, PhaseOfRecord
  <2>3. [Phases EXCEPT ![t] = PhaseOf(t)] = Phases
    BY DEF Phases
  <2> QED BY <1>2, <2>1, <2>2, <2>3, <2>4
<1>5. Connections \subseteq Clients \X Tokens /\ \A e \in Clients :
        <<e, t>> \in Connections <=> e \in rec[t].callbacks
  BY <1>1, ConnectionOf DEF Connections
<1>6. rec[t].callbacks \subseteq Clients
  BY <1>1 DEF Record
<1>7. ServiceAlive(t) <=> t \in Up
  BY <1>1 DEF ServiceAlive, ProcAlive, Up, CreatedTokens, TInv, MappedNotDestroyed, IInv,
     RecordsConsistent
<1>8. t \in Up => (rec[t].callbacks \cap AliveClients) \X {t} \subseteq told
  BY <1>1 DEF NoMissedBinder, Up
<1>9. told' = IF t \in Up THEN told \cup ((r.callbacks \cap AliveClients) \X {t}) ELSE told
  BY <1>7 DEF Rebroadcast, Broadcast
<1>10. CASE c \in AliveClients
  <2>1. Connections' = Connections \cup {<<c, t>>}
    BY <1>2, <1>4, <1>5, <1>6, <1>10
  <2>2. told' = IF t \in Up THEN told \cup {<<c, t>>} ELSE told
    BY <1>2, <1>8, <1>9, <1>10
  <2>3. Table!Connect(c, k, t)
    BY <1>3, <1>4, <1>10, <2>1, <2>2 DEF Table!Connect
  <2> QED BY <2>3 DEF Table!Next
<1>11. CASE c \notin AliveClients
  <2>1. Connections' = Connections
    BY <1>2, <1>4, <1>5, <1>6, <1>11
  <2>2. told' = told
    BY <1>2, <1>8, <1>9, <1>11
  <2> QED BY <1>3, <1>4, <2>1, <2>2 DEF Table!vars
<1> QED BY <1>10, <1>11

\* A new record takes its key over from the one in its way, in one step.
LEMMA BindNewInTable ==
  ASSUME IInv, NEW c \in Clients, NEW k \in Keys, NEW v \in Versions, NEW d \in BOOLEAN,
         BindNew(c, k, v, d)
  PROVE  [Table!Next]_(Table!vars)
<1>0. PICK old : old = current[k]
  OBVIOUS
<1> DEFINE r == WithCallback(NewRecord(k, v, d), c)
           askers == {c} \cap AliveClients
<1>1. PICK t \in Tokens : t = FreshToken /\ ~Created(t)
  BY FreshTokenIsFree DEF BindNew
<1>2. /\ rec' = [u \in Tokens |-> IF u = t THEN r ELSE IF u = old THEN Destroyed(rec[u]) ELSE rec[u]]
      /\ current' = [current EXCEPT ![k] = t]
      /\ CallServed(c)
      /\ UNCHANGED told
  BY <1>0, <1>1 DEF BindNew
<1>3. r.key = k /\ ~r.service /\ r.proc = "none" /\ r.callbacks = askers
  BY DEF WithCallback, NewRecord, AliveClients
<1>4. old \in Tokens =>
        /\ Created(old) /\ Registered(old) /\ rec[old] \in Record /\ rec[old].key = k
        /\ rec[old].proc = "attached" => rec[old].service
  BY <1>0, MappedRecord DEF NoToken, Tokens
<1>5. \A u \in Tokens : Registered(u) /\ rec[u].key = k => u = old
  BY <1>0 DEF Registered
<1> HIDE DEF r
<1>6. old # t
  BY <1>1, <1>4
<1>7. old \in Tokens =>
        /\ rec'[old].key = k
        /\ rec'[old].callbacks = {}
        /\ rec'[old].proc # "absent"
        /\ rec'[old].proc # "attached"
  BY <1>2, <1>4, <1>6, DestroyedRecord
<1>8. rec'[t] = r /\ \A u \in Tokens : u # t /\ u # old => rec'[u] = rec[u]
  BY <1>2
<1>9. current'[k] = t /\ \A j \in Keys : j # k => current'[j] = current[j]
  BY <1>2 DEF IInv, TypeOK
<1>10. \A u \in Tokens : u # t => ((Created(u))' <=> Created(u))
  BY <1>4, <1>7, <1>8 DEF Created
<1>11. (Created(t))' /\ (Registered(t))'
  BY <1>3, <1>8, <1>9 DEF Created, Registered
<1>12. old \in Tokens => ~(Registered(old))'
  BY <1>6, <1>7, <1>9 DEF Registered
<1>13. \A u \in Tokens : u # t /\ u # old => ((Registered(u))' <=> Registered(u))
  <2> SUFFICES ASSUME NEW u \in Tokens, u # t, u # old, Created(u)
               PROVE  (Registered(u))' <=> Registered(u)
    BY <1>10 DEF Registered
  <2>1. rec'[u] = rec[u] /\ rec[u].key \in Keys /\ (Created(u))'
    BY <1>8, <1>10, CreatedIsRecord DEF IInv, Record
  <2>2. CASE rec[u].key = k
    BY <2>1, <2>2, <1>5, <1>9 DEF Registered
  <2>3. CASE rec[u].key # k
    BY <2>1, <2>3, <1>9 DEF Registered
  <2> QED BY <2>2, <2>3
<1>14. PhaseOf(t) = "new"
  BY <1>1 DEF PhaseOf
<1>15. Phases' = [j \in Tokens |-> IF j = t THEN "starting"
                                  ELSE IF j = old THEN "ended" ELSE Phases[j]]
  <2>1. (PhaseOf(t))' = "starting"
    BY <1>3, <1>8, <1>11 DEF PhaseOf
  <2>2. old \in Tokens => (PhaseOf(old))' = "ended"
    BY <1>4, <1>6, <1>10, <1>12 DEF PhaseOf
  <2>3. \A u \in Tokens : u # t /\ u # old => (PhaseOf(u))' = PhaseOf(u)
    BY <1>8, <1>10, <1>13 DEF PhaseOf
  <2> QED BY <1>6, <2>1, <2>2, <2>3 DEF Phases
<1>16. Up' = Up \ {old}
  BY <1>1, <1>3, <1>7, <1>8, <1>10, <1>11 DEF Up, CreatedTokens
<1>17. Connections' = (Connections \ (Clients \X {old})) \cup (askers \X {t})
  <2>1. \A e \in Clients, u \in Tokens :
          <<e, u>> \in Connections' <=> (Created(u))' /\ e \in rec'[u].callbacks
    BY DEF Connections
  <2>2. \A e \in Clients :
          <<e, t>> \in Connections' <=>
            <<e, t>> \in (Connections \ (Clients \X {old})) \cup (askers \X {t})
    BY <1>1, <1>3, <1>6, <1>8, <1>11, <2>1, ConnectionOf
  <2>3. old \in Tokens => \A e \in Clients :
          <<e, old>> \in Connections' <=>
            <<e, old>> \in (Connections \ (Clients \X {old})) \cup (askers \X {t})
    BY <1>6, <1>7, <2>1
  <2>4. \A e \in Clients, u \in Tokens : u # t /\ u # old =>
          (<<e, u>> \in Connections' <=>
             <<e, u>> \in (Connections \ (Clients \X {old})) \cup (askers \X {t}))
    BY <1>8, <1>10, <2>1, ConnectionOf
  <2>5. Connections' \subseteq Clients \X Tokens /\ Connections \subseteq Clients \X Tokens
    BY DEF Connections
  <2>6. askers \X {t} \subseteq Clients \X Tokens
    OBVIOUS
  <2> HIDE DEF askers
  <2> QED BY <2>2, <2>3, <2>4, <2>5, <2>6
<1>18. AliveClients' = AliveClients
  BY <1>2, OtherTypes DEF CallServed, AliveClients
<1>19. Phases[t] = "new"
  BY <1>14 DEF Phases
<1>20. Table!Start(k, t, askers)
  BY <1>0, <1>2, <1>15, <1>16, <1>17, <1>18, <1>19 DEF Table!Start
<1>21. askers \in SUBSET AliveClients
  OBVIOUS
<1> QED BY <1>20, <1>21 DEF Table!Next

\* The first call of the process of a mapped record attaches its instance, before
\* its live connections; a call that comes too late changes nothing.
LEMMA AttachInTable ==
  ASSUME IInv, TInv, NEW t \in Tokens, AttachUserService(t)
  PROVE  [Table!Next]_(Table!vars)
<1> DEFINE lives == rec[t].proc = "sending"
<1>1. /\ Created(t) /\ rec[t] \in Record /\ rec[t].proc \in {"sending", "lost"}
      /\ ~rec[t].service /\ UNCHANGED <<current, client>>
  BY CreatedIsRecord DEF AttachUserService, IInv, TInv, ServedOnce, CreatedTokens
<1>2. AliveClients' = AliveClients
  BY <1>1 DEF AliveClients
<1>3. CASE Registered(t)
  <2> DEFINE r == [rec[t] EXCEPT !.timer = IF @ = "posted" THEN "none" ELSE @,
                                 !.service = TRUE,
                                 !.linked = lives,
                                 !.proc = IF lives THEN "attached" ELSE "exited"]
             k == rec[t].key
  <2>1. rec' = [rec EXCEPT ![t] = r] /\ Broadcast(t, rec[t].callbacks)
    BY <1>3 DEF AttachUserService, KnowsToken, IInv, TypeOK
  <2>2. /\ r \in Record /\ r.key = k /\ r.service /\ r.callbacks = rec[t].callbacks
        /\ r.proc = IF lives THEN "attached" ELSE "exited"
    BY <1>1 DEF Record, TimerStates, ProcStates
  <2>3. k \in Keys /\ current[k] = t /\ PhaseOf(t) = "starting" /\ t \notin Up
    BY <1>1, <1>3 DEF Record, Registered, PhaseOf, Up
  <2> HIDE DEF r, k
  <2>4. /\ Phases' = [Phases EXCEPT ![t] = "running"]
        /\ Up' = IF r.proc = "attached" THEN Up \cup {t} ELSE Up \ {t}
        /\ Connections' = (Connections \ (Clients \X {t})) \cup (r.callbacks \X {t})
    BY <1>1, <1>3, <2>1, <2>2, RowChange DEF k
  <2>5. Up' = IF lives THEN Up \cup {t} ELSE Up
    BY <2>2, <2>3, <2>4
  <2>6. Connections \subseteq Clients \X Tokens /\ rec[t].callbacks \subseteq Clients
        /\ \A c \in Clients : <<c, t>> \in Connections <=> c \in rec[t].callbacks
    BY <1>1, ConnectionOf DEF Connections, Record
  <2>7. Connections' = Connections
    BY <2>2, <2>4, <2>6
  <2>8. {a \in Connections : a[1] \in AliveClients /\ a[2] = t}
          = (rec[t].callbacks \cap AliveClients) \X {t}
    BY <2>6
  <2>9. told' = told \cup {a \in Connections : a[1] \in AliveClients /\ a[2] = t}
    BY <2>1, <2>8 DEF Broadcast
  <2>10. Phases[t] = "starting"
    BY <2>3 DEF Phases
  <2>11. Table!Attach(k, t, lives)
    BY <1>1, <1>2, <2>3, <2>4, <2>5, <2>7, <2>9, <2>10 DEF Table!Attach
  <2> QED BY <2>3, <2>11 DEF Table!Next
<1>4. CASE ~Registered(t)
  <2> DEFINE r == [rec[t] EXCEPT !.proc = "exited"]
  <2>1. rec' = [rec EXCEPT ![t] = r] /\ UNCHANGED told
    BY <1>4 DEF AttachUserService, KnowsToken
  <2>2. r \in Record /\ r.key = rec[t].key /\ r.service = rec[t].service
        /\ r.callbacks = rec[t].callbacks /\ r.proc # "attached"
    BY <1>1 DEF Record, ProcStates
  <2> HIDE DEF r
  <2> QED BY <1>1, <1>2, <2>1, <2>2, LoseInTable
<1> QED BY <1>3, <1>4

\* A step that leaves records, map, broadcasts and living clients alone leaves
\* the table alone.
LEMMA QuietInTable ==
  ASSUME UNCHANGED <<rec, current, told>>, AliveClients' = AliveClients
  PROVE  [Table!Next]_(Table!vars)
BY DEF Table!vars, Phases, PhaseOf, Up, Connections, CreatedTokens, Created, Registered

-----------------------------------------------------------------------------
(* The refinement                                                           *)

LEMMA ClientCallInTable ==
  ASSUME IInv, TInv, NoMissedBinder, ClientCall
  PROVE  [Table!Next]_(Table!vars)
<1>1. ASSUME NEW c \in Clients, NEW k \in Keys, NEW v \in Versions, NEW d \in BOOLEAN,
             BindExisting(c, k, v, d)
      PROVE  [Table!Next]_(Table!vars)
  <2>1. PICK t \in Tokens : current[k] = t /\ rec[t] \in Record
    BY <1>1, MappedRecord DEF BindExisting, Reusable
  <2>2. PICK b \in Record : b = [rec[t] EXCEPT !.daemon = d]
    BY <2>1 DEF Record
  <2>3. /\ b.key = rec[t].key /\ b.service = rec[t].service /\ b.proc = rec[t].proc
        /\ b.callbacks = rec[t].callbacks
    BY <2>1, <2>2 DEF Record
  <2>4. PICK r : r = WithCallback(b, c)
    OBVIOUS
  <2>5. rec' = [rec EXCEPT ![t] = r] /\ Rebroadcast(t, r) /\ CallServed(c) /\ UNCHANGED current
    BY <1>1, <2>1, <2>2, <2>4 DEF BindExisting
  <2> QED BY <2>1, <2>3, <2>4, <2>5, RegisterInTable
<1>2. ASSUME NEW c \in Clients, NEW k \in Keys, Peek(c, k)
      PROVE  [Table!Next]_(Table!vars)
  <2>1. CASE current[k] # NoToken
    <3>1. PICK t \in Tokens : current[k] = t /\ rec[t] \in Record
      BY <2>1, MappedRecord
    <3>2. PICK r : r = WithCallback(rec[t], c)
      OBVIOUS
    <3>3. rec' = [rec EXCEPT ![t] = r] /\ Rebroadcast(t, r) /\ CallServed(c) /\ UNCHANGED current
      BY <1>2, <2>1, <3>1, <3>2 DEF Peek
    <3> QED BY <3>1, <3>2, <3>3, RegisterInTable
  <2>2. CASE current[k] = NoToken
    <3>1. UNCHANGED <<rec, current, told>> /\ CallServed(c)
      BY <1>2, <2>2 DEF Peek
    <3>2. AliveClients' = AliveClients
      BY <3>1, OtherTypes DEF CallServed, AliveClients
    <3> QED BY <3>1, <3>2, QuietInTable
  <2> QED BY <2>1, <2>2
<1>3. ASSUME NEW c \in Clients, NEW k \in Keys, NEW remove \in BOOLEAN, Unbind(c, k, remove)
      PROVE  [Table!Next]_(Table!vars)
  <2>1. PICK t \in Tokens : current[k] = t /\ Created(t) /\ rec[t] \in Record
    BY <1>3, MappedRecord DEF Unbind
  <2>2. UNCHANGED <<client, told>> /\ AliveClients' = AliveClients
    BY <1>3 DEF Unbind, AliveClients
  <2>3. CASE remove
    BY <1>3, <2>1, <2>2, <2>3, RemoveInTable DEF Unbind
  <2>4. CASE ~remove
    <3>1. PICK r \in Record : r = [rec[t] EXCEPT !.callbacks = @ \ {c}]
      BY <2>1 DEF Record
    <3>2. /\ r.key = rec[t].key /\ r.service = rec[t].service /\ r.proc = rec[t].proc
          /\ r.callbacks = rec[t].callbacks \ {c}
      BY <2>1, <3>1 DEF Record
    <3>3. rec' = [rec EXCEPT ![t] = r] /\ UNCHANGED current
      BY <1>3, <2>1, <2>4, <3>1 DEF Unbind
    <3> QED BY <2>1, <2>2, <3>2, <3>3, LoseInTable
  <2> QED BY <2>3, <2>4
<1> QED BY <1>1, <1>2, <1>3, BindNewInTable DEF ClientCall, Bind

LEMMA ProcessInTable ==
  ASSUME IInv, TInv, Process
  PROVE  [Table!Next]_(Table!vars)
<1>1. UNCHANGED <<current, client>> /\ AliveClients' = AliveClients
  BY DEF Process, StartUserService, SendBinder, AttachUserService, ServiceProcessDies, AliveClients
<1>2. ASSUME NEW t \in Tokens, Created(t), NEW s \in ProcStates \ {"attached"},
             rec' = [rec EXCEPT ![t].proc = s], UNCHANGED told
      PROVE  [Table!Next]_(Table!vars)
  <2>1. rec[t] \in Record
    BY <1>2, CreatedIsRecord DEF IInv
  <2>2. PICK r \in Record : r = [rec[t] EXCEPT !.proc = s]
    BY <2>1 DEF Record
  <2>3. /\ r.key = rec[t].key /\ r.service = rec[t].service /\ r.proc # "attached"
        /\ r.callbacks = rec[t].callbacks
    BY <2>1, <2>2 DEF Record
  <2> QED BY <1>1, <1>2, <2>2, <2>3, LoseInTable
<1>3. ASSUME NEW spawned \in BOOLEAN, StartUserService(spawned)
      PROVE  [Table!Next]_(Table!vars)
  BY <1>2, <1>3, QueueHead DEF StartUserService, ProcStates
<1>4. ASSUME NEW t \in Tokens, SendBinder(t) \/ ServiceProcessDies(t)
      PROVE  [Table!Next]_(Table!vars)
  BY <1>2, <1>4 DEF SendBinder, ServiceProcessDies, ProcStates
<1> QED BY <1>3, <1>4, AttachInTable DEF Process

LEMMA RetireInTable ==
  ASSUME IInv, Retire
  PROVE  [Table!Next]_(Table!vars)
<1>1. UNCHANGED <<client, told>> /\ AliveClients' = AliveClients
  BY DEF Retire, ServiceBinderDied, StartTimeout, CallbackDied, RemoveSelf, ApkRemoved,
     ApkUpgradedStop, ApkUpgradedStart, AliveClients
<1>2. PICK t \in Tokens :
        \/ ServiceBinderDied(t)
        \/ StartTimeout(t)
        \/ \E c \in Clients : CallbackDied(t, c)
        \/ RemoveSelf(t)
        \/ ApkRemoved(t)
        \/ ApkUpgradedStop(t)
        \/ ApkUpgradedStart(t)
  BY DEF Retire
<1>3. ASSUME Created(t), NEW r, r \in Record, rec' = [rec EXCEPT ![t] = r], UNCHANGED current,
             r.key = rec[t].key, r.service = rec[t].service, r.proc = rec[t].proc,
             \/ r.callbacks = rec[t].callbacks
             \/ \E c \in Clients : r.callbacks = rec[t].callbacks \ {c}
      PROVE  [Table!Next]_(Table!vars)
  BY <1>1, <1>3, LoseInTable
<1>4. Created(t) => rec[t] \in Record
  BY CreatedIsRecord DEF IInv
<1>5. ASSUME ServiceBinderDied(t)
      PROVE  [Table!Next]_(Table!vars)
  <2>1. CASE Registered(t)
    BY <1>1, <1>5, <2>1, RemoveInTable DEF ServiceBinderDied
  <2>2. CASE ~Registered(t)
    BY <1>3, <1>4, <1>5, <2>2 DEF ServiceBinderDied, Record
  <2> QED BY <2>1, <2>2
<1>6. ASSUME StartTimeout(t)
      PROVE  [Table!Next]_(Table!vars)
  BY <1>3, <1>4, <1>6 DEF StartTimeout, Record, TimerStates
<1>7. ASSUME NEW c \in Clients, CallbackDied(t, c)
      PROVE  [Table!Next]_(Table!vars)
  BY <1>3, <1>4, <1>7 DEF CallbackDied, Record
<1>8. RemoveSelf(t) \/ ApkRemoved(t) => [Table!Next]_(Table!vars)
  BY <1>1, RemoveInTable DEF RemoveSelf, ApkRemoved
<1>9. ApkUpgradedStop(t) \/ ApkUpgradedStart(t) => [Table!Next]_(Table!vars)
  BY <1>1, QuietInTable DEF ApkUpgradedStop, ApkUpgradedStart
<1> QED BY <1>2, <1>5, <1>6, <1>7, <1>8, <1>9

LEMMA RevokeInTable ==
  ASSUME IInv, Revoke
  PROVE  [Table!Next]_(Table!vars)
<1>1. RevokeRecord => [Table!Next]_(Table!vars)
  BY IteratedToken, RemoveInTable DEF RevokeRecord
<1>2. ~RevokeRecord => UNCHANGED <<rec, current, told, client>>
  BY DEF Revoke, RevokeStart, RevokeFails, RevokeLoopDone, RevokeDrop
<1> QED BY <1>1, <1>2, QuietInTable DEF AliveClients

LEMMA ClientDiesInTable ==
  ASSUME IInv, NEW c \in Clients, NEW calling \in BOOLEAN, ClientDies(c, calling)
  PROVE  [Table!Next]_(Table!vars)
<1>1. c \in AliveClients /\ AliveClients' = AliveClients \ {c}
  BY OtherTypes DEF ClientDies, AliveClients
<1>2. UNCHANGED <<current, told, Phases, Up, Connections>>
  BY DEF ClientDies, Phases, PhaseOf, Up, Connections, CreatedTokens, Created, Registered
<1>3. Table!ClientDies(c)
  BY <1>1, <1>2 DEF Table!ClientDies
<1> QED BY <1>1, <1>3 DEF Table!Next

LEMMA TableStep == IInv /\ TInv /\ NoMissedBinder /\ [Next]_vars => [Table!Next]_(Table!vars)
<1> SUFFICES ASSUME IInv, TInv, NoMissedBinder, [Next]_vars PROVE [Table!Next]_(Table!vars)
  OBVIOUS
<1>1. CASE UNCHANGED vars
  BY <1>1, QuietInTable DEF vars, AliveClients
<1> QED
  BY <1>1, ClientCallInTable, ProcessInTable, RetireInTable, RevokeInTable, ClientDiesInTable
  DEF Next

LEMMA TableInit == Init => Table!Init /\ TInv
<1> SUFFICES ASSUME Init PROVE Table!Init /\ TInv
  OBVIOUS
<1>1. \A t \in Tokens : ~Created(t)
  BY DEF Init, Created, NoRecord
<1>2. /\ Phases = [t \in Tokens |-> "new"]
      /\ Up = {} /\ Connections = {} /\ AliveClients = Clients
  BY <1>1 DEF Init, Phases, PhaseOf, Up, Connections, AliveClients, CreatedTokens
<1>3. Len(queue) = 0
  BY DEF Init
<1> QED
  BY <1>1, <1>2, <1>3 DEF Init, Table!Init, TInv, ServedOnce, MappedNotDestroyed, QueuedOnce,
     CreatedTokens

\* Each record is started once, answers once, and is asked to stop only when it
\* is no longer mapped.
THEOREM ServesOnce == Spec => []TInv
BY TableInit, Invariance, TInvStep, PTL DEF Spec

\* The registry of user services implements the atomic table.
THEOREM RegistryIsTable == Spec => KeepsRegistry
<1>1. Init => Table!Init
  BY TableInit
<1> QED
  BY <1>1, Invariance, ServesOnce, BinderHeard, TableStep, PTL DEF Spec, KeepsRegistry, Table!Spec
=============================================================================
