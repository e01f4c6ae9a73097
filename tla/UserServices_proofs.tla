------------------------ MODULE UserServices_proofs ------------------------
(***************************************************************************)
(* Theorems about UserServices, for every set of clients, keys, packages and *)
(* versions and every bound on the records, revocations and upgrades.        *)
(***************************************************************************)
EXTENDS UserServices, TLAPS

\* The map points only at created records of the key it maps.
KeysMapped ==
  \A k \in Keys :
    current[k] # NoToken => Created(current[k]) /\ rec[current[k]].key = k

\* Start jobs are queued only for created records.
QueueCreated == \A i \in 1 .. Len(queue) : Created(queue[i])

\* An attached process is known to its record, and starting is never cleared.
RecordsConsistent ==
  \A t \in CreatedTokens :
    /\ rec[t].proc = "attached" => rec[t].service
    /\ rec[t].starting

IInv ==
  /\ TypeOK
  /\ KeysMapped
  /\ QueueCreated
  /\ RecordsConsistent
  /\ NoOrphanService

-----------------------------------------------------------------------------
(* Records                                                                  *)

\* A record that is not absent is a Record.
LEMMA CreatedIsRecord ==
  ASSUME TypeOK, NEW t \in Tokens, Created(t)
  PROVE  rec[t] \in Record
BY DEF TypeOK, Created, NoRecord

\* A fresh token is the token of no record.
LEMMA FreshTokenIsFree ==
  ASSUME CreatedTokens # Tokens
  PROVE  FreshToken \in Tokens /\ ~Created(FreshToken)
BY DEF CreatedTokens, FreshToken

\* destroy keeps a record a record, of the same key, and leaves no process
\* attached that the record knows.
LEMMA DestroyedRecord ==
  ASSUME NEW r \in Record
  PROVE  /\ Destroyed(r) \in Record
         /\ Destroyed(r).key = r.key
         /\ Destroyed(r).service = r.service
         /\ Destroyed(r).starting = r.starting
         /\ Destroyed(r).timer = r.timer
         /\ Destroyed(r).callbacks = {}
         /\ Destroyed(r).proc # "absent"
         /\ Destroyed(r).proc = "attached" => ~r.service /\ r.proc = "attached"
BY DEF Destroyed, Record, ProcStates

\* register changes a record's callbacks only, by at most the caller.
LEMMA WithCallbackRecord ==
  ASSUME NEW r \in Record, NEW c \in Clients
  PROVE  /\ WithCallback(r, c) \in Record
         /\ WithCallback(r, c) = [r EXCEPT !.callbacks = WithCallback(r, c).callbacks]
         /\ WithCallback(r, c).callbacks \subseteq r.callbacks \cup {c}
BY DEF WithCallback, Record
-----------------------------------------------------------------------------
(* Steps                                                                    *)

\* What removeUserServiceLocked does to the maps, whoever calls it.
LEMMA RemoveLockedEffect ==
  ASSUME IInv, NEW t \in Tokens, RemoveLocked(t)
  PROVE  /\ rec' \in [Tokens -> Record \cup {NoRecord}]
         /\ current' \in [Keys -> Tokens \cup {NoToken}]
         /\ observed' \in SUBSET Tokens
         /\ \A u \in Tokens : Created(u) <=> Created(u)'
         /\ \A u \in Tokens : Created(u) =>
              /\ rec'[u].key = rec[u].key
              /\ rec'[u].service = rec[u].service
              /\ rec'[u].starting = rec[u].starting
              /\ rec'[u].timer = rec[u].timer
              /\ rec'[u].callbacks \subseteq rec[u].callbacks
              /\ rec'[u].proc = "attached" => rec[u].proc = "attached"
         /\ \A u \in Tokens : (Registered(u))' <=> Registered(u) /\ u # t
         /\ Created(t) => rec'[t].proc # "attached"
<1>1. CASE Registered(t)
  <2> DEFINE r == rec[t]
  <2>1. /\ rec' = [rec EXCEPT ![t] = Destroyed(r)]
        /\ current' = [current EXCEPT ![r.key] = NoToken]
        /\ observed' = observed \ {t}
    BY <1>1 DEF RemoveLocked
  <2>2. r \in Record /\ Created(t) /\ current[r.key] = t
    BY <1>1, CreatedIsRecord DEF Registered, IInv
  <2>3. /\ Destroyed(r) \in Record
        /\ Destroyed(r).key = r.key
        /\ Destroyed(r).service = r.service
        /\ Destroyed(r).starting = r.starting
        /\ Destroyed(r).timer = r.timer
        /\ Destroyed(r).callbacks = {}
        /\ Destroyed(r).proc # "absent"
        /\ Destroyed(r).proc = "attached" => ~r.service /\ r.proc = "attached"
    BY <2>2, DestroyedRecord
  <2>4. r.key \in Keys
    BY <2>2 DEF Record
  <2> HIDE DEF r
  <2>5. /\ DOMAIN rec = Tokens
        /\ DOMAIN current = Keys
        /\ rec'[t] = Destroyed(r)
        /\ \A u \in Tokens : u # t => rec'[u] = rec[u]
        /\ current'[r.key] = NoToken
        /\ \A k \in Keys : k # r.key => current'[k] = current[k]
    BY <2>1, <2>4 DEF IInv, TypeOK
  <2>6. \A u \in Tokens : Created(u) <=> Created(u)'
    BY <2>2, <2>3, <2>5 DEF Created
  <2>7. \A u \in Tokens : (Registered(u))' <=> Registered(u) /\ u # t
    <3> TAKE u \in Tokens
    <3>1. CASE u = t
      BY <3>1, <2>2, <2>3, <2>5 DEF Registered, Tokens, NoToken, r
    <3>2. CASE u # t /\ Created(u)
      <4>1. rec'[u] = rec[u] /\ Created(u)'
        BY <3>2, <2>5, <2>6
      <4>2. rec[u].key \in Keys
        BY <3>2, CreatedIsRecord DEF IInv, Record
      <4>3. CASE rec[u].key = r.key
        BY <3>2, <4>1, <4>2, <4>3, <2>2, <2>5 DEF Registered, Tokens, NoToken
      <4>4. CASE rec[u].key # r.key
        BY <3>2, <4>1, <4>2, <4>4, <2>5 DEF Registered
      <4> QED BY <4>3, <4>4
    <3>3. CASE ~Created(u)
      BY <3>3, <2>6 DEF Registered
    <3> QED BY <3>1, <3>2, <3>3
  <2>8. r.proc = "attached" => r.service
    BY <2>2 DEF IInv, RecordsConsistent, CreatedTokens, r
  <2> QED
    BY <2>1, <2>2, <2>3, <2>4, <2>5, <2>6, <2>7, <2>8 DEF IInv, TypeOK, r
<1>2. CASE ~Registered(t)
  <2>1. UNCHANGED <<rec, current, observed>>
    BY <1>2 DEF RemoveLocked
  <2>2. \A u \in Tokens : ((Created(u))' <=> Created(u)) /\ ((Registered(u))' <=> Registered(u))
    BY <2>1 DEF Created, Registered
  <2> QED
    BY <1>2, <2>1, <2>2 DEF IInv, TypeOK, NoOrphanService, CreatedTokens
<1> QED BY <1>1, <1>2
\* The part of the invariant that speaks of the records and the map.
Registry ==
  /\ rec \in [Tokens -> Record \cup {NoRecord}]
  /\ current \in [Keys -> Tokens \cup {NoToken}]
  /\ KeysMapped
  /\ RecordsConsistent
  /\ NoOrphanService

\* Retiring a record keeps the registry consistent, and creates no record.
LEMMA RemoveLockedRegistry ==
  ASSUME IInv, NEW t \in Tokens, RemoveLocked(t)
  PROVE  Registry' /\ observed' \in SUBSET Tokens /\ \A u \in Tokens : Created(u) <=> Created(u)'
<1>1. /\ rec' \in [Tokens -> Record \cup {NoRecord}]
      /\ current' \in [Keys -> Tokens \cup {NoToken}]
      /\ observed' \in SUBSET Tokens
      /\ \A u \in Tokens : Created(u) <=> Created(u)'
      /\ \A u \in Tokens : Created(u) =>
           /\ rec'[u].key = rec[u].key
           /\ rec'[u].service = rec[u].service
           /\ rec'[u].starting = rec[u].starting
           /\ rec'[u].proc = "attached" => rec[u].proc = "attached"
      /\ \A u \in Tokens : (Registered(u))' <=> Registered(u) /\ u # t
      /\ Created(t) => rec'[t].proc # "attached"
  BY RemoveLockedEffect
<1>2. KeysMapped'
  <2>1. \A k \in Keys : current'[k] = current[k] \/ current'[k] = NoToken
    BY DEF RemoveLocked, IInv, TypeOK
  <2>2. ASSUME NEW k \in Keys, current'[k] # NoToken
        PROVE  /\ Created(current[k])'
               /\ rec'[current'[k]].key = k
    <3> DEFINE u == current[k]
    <3>1. current'[k] = u /\ u \in Tokens
      BY <2>1, <2>2 DEF IInv, TypeOK
    <3>2. Created(u) /\ rec[u].key = k
      BY <2>2, <3>1 DEF IInv, KeysMapped
    <3>3. rec'[u].key = k /\ rec'[u].proc # "absent"
      BY <1>1, <3>1, <3>2 DEF Created
    <3> QED BY <3>1, <3>3 DEF Created
  <2> QED BY <2>2 DEF KeysMapped
<1>3. RecordsConsistent'
  BY <1>1 DEF RecordsConsistent, CreatedTokens, IInv
<1>4. NoOrphanService'
  BY <1>1 DEF NoOrphanService, CreatedTokens, IInv
<1> QED BY <1>1, <1>2, <1>3, <1>4 DEF Registry

\* So does replacing a created record by one of the same key whose process is
\* attached only if it was, or if the record is mapped and knows its service.
LEMMA UpdateRegistry ==
  ASSUME IInv, NEW t \in Tokens, Created(t), NEW r \in Record,
         rec' = [rec EXCEPT ![t] = r], UNCHANGED current,
         r.key = rec[t].key, r.starting = rec[t].starting,
         r.proc = "attached" => r.service /\ (Registered(t) \/ rec[t].proc = "attached")
  PROVE  Registry' /\ \A u \in Tokens : Created(u) <=> Created(u)'
<1>1. /\ rec' \in [Tokens -> Record \cup {NoRecord}]
      /\ current' \in [Keys -> Tokens \cup {NoToken}]
      /\ rec'[t] = r
      /\ \A u \in Tokens : u # t => rec'[u] = rec[u]
  BY DEF IInv, TypeOK
<1>2. r.proc # "absent"
  BY DEF Record, ProcStates
<1>3. \A u \in Tokens : Created(u) <=> Created(u)'
  BY <1>1, <1>2 DEF Created
<1>4. \A u \in Tokens : Registered(u) <=> (Registered(u))'
  BY <1>1, <1>3 DEF Registered
<1>5. KeysMapped'
  BY <1>1, <1>3 DEF KeysMapped, IInv, TypeOK
<1>6. RecordsConsistent'
  BY <1>1, <1>3 DEF RecordsConsistent, CreatedTokens, IInv
<1>7. NoOrphanService'
  BY <1>1, <1>3, <1>4 DEF NoOrphanService, CreatedTokens, IInv
<1> QED BY <1>1, <1>3, <1>5, <1>6, <1>7 DEF Registry

\* And so does a step that leaves the records and the map alone.
LEMMA SameRegistry ==
  ASSUME IInv, UNCHANGED <<rec, current>>
  PROVE  Registry' /\ \A u \in Tokens : Created(u) <=> Created(u)'
BY DEF IInv, Registry, TypeOK, KeysMapped, RecordsConsistent, NoOrphanService,
       CreatedTokens, Created, Registered

\* The queue and the other variables, once the registry is known to be kept.
LEMMA IInvFromRegistry ==
  ASSUME IInv, Registry', \A u \in Tokens : Created(u) => Created(u)',
         queue' = queue \/ (queue # <<>> /\ queue' = Tail(queue)),
         tracked' \in [Packages -> Seq(Tokens)],
         removing' \in SUBSET Tokens, observed' \in SUBSET Tokens,
         upgrading' \in SUBSET Tokens, upgrades' \in Nat,
         client' \in [Clients -> ClientStates], told' \in SUBSET (Clients \X Tokens),
         revoke' \in [pc : {"idle"}, calls : Nat] \cup
                     [pc : {"iterate", "drop"}, calls : Nat, package : Packages,
                      index : Nat \ {0}, size : Nat]
  PROVE  IInv'
<1>1. queue \in Seq(Tokens) /\ \A i \in 1 .. Len(queue) : Created(queue[i])
  BY DEF IInv, TypeOK, QueueCreated
<1>2. queue' \in Seq(Tokens) /\ \A i \in 1 .. Len(queue') : Created(queue'[i])
  <2>1. CASE queue' = queue
    BY <1>1, <2>1
  <2>2. CASE queue # <<>> /\ queue' = Tail(queue)
    <3>1. /\ queue' \in Seq(Tokens)
          /\ \A i \in 1 .. Len(queue') : queue'[i] = queue[i + 1] /\ i + 1 \in 1 .. Len(queue)
      BY <1>1, <2>2
    <3> QED BY <1>1, <3>1
  <2> QED BY <2>1, <2>2
<1>3. \A i \in 1 .. Len(queue') : queue'[i] \in Tokens
  BY <1>2
<1>4. QueueCreated'
  BY <1>2, <1>3 DEF QueueCreated
<1> QED BY <1>2, <1>4 DEF IInv, TypeOK, Registry
-----------------------------------------------------------------------------
(* One lemma per action that changes the registry                           *)

\* What type correctness says of the variables outside the registry.
LEMMA OtherTypes ==
  ASSUME IInv
  PROVE  /\ queue \in Seq(Tokens)
         /\ tracked \in [Packages -> Seq(Tokens)]
         /\ removing \in SUBSET Tokens
         /\ observed \in SUBSET Tokens
         /\ upgrading \in SUBSET Tokens
         /\ upgrades \in Nat
         /\ client \in [Clients -> ClientStates]
         /\ told \in SUBSET (Clients \X Tokens)
         /\ revoke \in [pc : {"idle"}, calls : Nat] \cup
                       [pc : {"iterate", "drop"}, calls : Nat, package : Packages,
                        index : Nat \ {0}, size : Nat]
BY DEF IInv, TypeOK

\* The executor's next job is for a created record.
LEMMA QueueHead ==
  ASSUME IInv, queue # <<>>
  PROVE  Head(queue) \in Tokens /\ Created(Head(queue))
<1>1. queue \in Seq(Tokens)
  BY OtherTypes
<1>2. 1 \in 1 .. Len(queue) /\ Head(queue) = queue[1] /\ Head(queue) \in Tokens
  BY <1>1
<1> QED BY <1>2 DEF IInv, QueueCreated

\* The record an iterator reaches is one of the package's.
LEMMA IteratedToken ==
  ASSUME IInv, RevokeRecord
  PROVE  /\ revoke.package \in Packages
         /\ revoke.index \in 1 .. Len(tracked[revoke.package])
         /\ tracked[revoke.package][revoke.index] \in Tokens
<1>1. revoke \in [pc : {"iterate", "drop"}, calls : Nat, package : Packages,
                  index : Nat \ {0}, size : Nat]
  BY OtherTypes DEF RevokeRecord
<1>2. tracked[revoke.package] \in Seq(Tokens) /\ revoke.index \in 1 .. Len(tracked[revoke.package])
  BY <1>1, OtherTypes DEF RevokeRecord
<1> QED BY <1>1, <1>2

\* Serving a call and broadcasting keep the types of client and told.
LEMMA CallTypes ==
  ASSUME IInv, NEW c \in Clients
  PROVE  /\ CallServed(c) => client' \in [Clients -> ClientStates]
         /\ \A t \in Tokens : \A r : Rebroadcast(t, r) => told' \in SUBSET (Clients \X Tokens)
         /\ \A t \in Tokens : \A cs : Broadcast(t, cs) => told' \in SUBSET (Clients \X Tokens)
<1>1. CallServed(c) => client' \in [Clients -> ClientStates]
  BY OtherTypes DEF CallServed, ClientStates
<1>2. \A t \in Tokens : \A cs : Broadcast(t, cs) => told' \in SUBSET (Clients \X Tokens)
  BY OtherTypes DEF Broadcast, AliveClients
<1>3. \A t \in Tokens : \A r : Rebroadcast(t, r) => told' \in SUBSET (Clients \X Tokens)
  BY <1>2, OtherTypes DEF Rebroadcast
<1> QED BY <1>1, <1>2, <1>3

\* A key that is mapped is mapped to a created record.
LEMMA MappedRecord ==
  ASSUME IInv, NEW k \in Keys, current[k] # NoToken
  PROVE  /\ current[k] \in Tokens
         /\ Created(current[k])
         /\ Registered(current[k])
         /\ rec[current[k]] \in Record
         /\ rec[current[k]].key = k
         /\ rec[current[k]].proc = "attached" => rec[current[k]].service
BY CreatedIsRecord DEF IInv, TypeOK, KeysMapped, Registered, RecordsConsistent, CreatedTokens

\* A bind that keeps the mapped record registers a callback on it and broadcasts.
LEMMA BindExistingStep ==
  ASSUME IInv, NEW c \in Clients, NEW k \in Keys, NEW v \in Versions, NEW d \in BOOLEAN,
         BindExisting(c, k, v, d)
  PROVE  IInv'
<1> DEFINE t == current[k]
           b == [rec[t] EXCEPT !.daemon = d]
           r == WithCallback(b, c)
<1>1. /\ t # NoToken
      /\ rec' = [rec EXCEPT ![t] = r]
      /\ Rebroadcast(t, r)
      /\ CallServed(c)
      /\ UNCHANGED <<current, tracked, queue, removing, observed, upgrading, upgrades, revoke>>
  BY DEF BindExisting, Reusable
<1>2. /\ t \in Tokens /\ Created(t) /\ Registered(t)
      /\ rec[t] \in Record
      /\ rec[t].proc = "attached" => rec[t].service
  BY <1>1, MappedRecord
<1>3. b \in Record /\ b.key = rec[t].key /\ b.starting = rec[t].starting
      /\ b.proc = rec[t].proc /\ b.service = rec[t].service
  BY <1>2 DEF Record
<1> HIDE DEF b
<1>4. r \in Record /\ r.key = b.key /\ r.starting = b.starting
      /\ r.proc = b.proc /\ r.service = b.service
  BY <1>3 DEF WithCallback, Record
<1> HIDE DEF r, t
<1>5. Registry' /\ \A u \in Tokens : Created(u) <=> Created(u)'
  BY <1>1, <1>2, <1>3, <1>4, UpdateRegistry
<1>6. client' \in [Clients -> ClientStates] /\ told' \in SUBSET (Clients \X Tokens)
  BY <1>1, <1>2, CallTypes
<1> QED BY <1>1, <1>5, <1>6, OtherTypes, IInvFromRegistry

\* A peek registers on the mapped record, if any, and creates nothing.
LEMMA PeekStep ==
  ASSUME IInv, NEW c \in Clients, NEW k \in Keys, Peek(c, k)
  PROVE  IInv'
<1> DEFINE t == current[k]
           r == WithCallback(rec[t], c)
<1>1. /\ CallServed(c)
      /\ UNCHANGED <<current, tracked, queue, removing, observed, upgrading, upgrades, revoke>>
  BY DEF Peek
<1>2. client' \in [Clients -> ClientStates]
  BY <1>1, CallTypes
<1>3. CASE t # NoToken
  <2>1. rec' = [rec EXCEPT ![t] = r] /\ Rebroadcast(t, r)
    BY <1>3 DEF Peek
  <2>2. /\ t \in Tokens /\ Created(t) /\ Registered(t)
        /\ rec[t] \in Record
        /\ rec[t].proc = "attached" => rec[t].service
    BY <1>3, MappedRecord
  <2>3. r \in Record /\ r.key = rec[t].key /\ r.starting = rec[t].starting
        /\ r.proc = rec[t].proc /\ r.service = rec[t].service
    BY <2>2 DEF WithCallback, Record
  <2> HIDE DEF r, t
  <2>4. Registry' /\ \A u \in Tokens : Created(u) <=> Created(u)'
    BY <1>1, <2>1, <2>2, <2>3, UpdateRegistry
  <2>5. told' \in SUBSET (Clients \X Tokens)
    BY <2>1, <2>2, CallTypes
  <2> QED BY <1>1, <1>2, <2>4, <2>5, OtherTypes, IInvFromRegistry
<1>4. CASE t = NoToken
  <2>1. UNCHANGED <<rec, told>>
    BY <1>4 DEF Peek
  <2>2. Registry' /\ \A u \in Tokens : Created(u) <=> Created(u)'
    BY <1>1, <2>1, SameRegistry
  <2> QED BY <1>1, <1>2, <2>1, <2>2, OtherTypes, IInvFromRegistry
<1> QED BY <1>3, <1>4

\* A bind that creates a record retires the one it replaces, under the same monitor,
\* so the new token is the only one its key maps to.
LEMMA BindNewStep ==
  ASSUME IInv, NEW c \in Clients, NEW k \in Keys, NEW v \in Versions, NEW d \in BOOLEAN,
         BindNew(c, k, v, d)
  PROVE  IInv'
<1> DEFINE old == current[k]
           t   == FreshToken
           n   == NewRecord(k, v, d)
           r   == WithCallback(n, c)
           p   == PackageOf[k]
<1>1. /\ CreatedTokens # Tokens
      /\ rec' = [u \in Tokens |-> IF u = t THEN r ELSE IF u = old THEN Destroyed(rec[u]) ELSE rec[u]]
      /\ current' = [current EXCEPT ![k] = t]
      /\ tracked' = [tracked EXCEPT ![p] = Append(@, t)]
      /\ queue' = Append(queue, t)
      /\ observed' = (observed \ {old}) \cup {t}
      /\ CallServed(c)
      /\ UNCHANGED <<removing, upgrading, upgrades, told, revoke>>
  BY DEF BindNew
<1>2. t \in Tokens /\ ~Created(t)
  BY <1>1, FreshTokenIsFree
<1>3. n \in Record /\ n.key = k /\ n.starting /\ n.proc = "none"
  BY VersionsAssumption DEF NewRecord, Record, TimerStates, ProcStates
<1> HIDE DEF n
<1>4. r \in Record /\ r.key = k /\ r.starting /\ r.proc = "none"
  BY <1>3 DEF WithCallback, Record
<1>5. old # NoToken =>
        /\ old \in Tokens /\ Created(old) /\ Registered(old) /\ rec[old].key = k
        /\ rec[old] \in Record
        /\ rec[old].proc = "attached" => rec[old].service
  BY MappedRecord
<1>6. old # t /\ (old = NoToken => old \notin Tokens)
  BY <1>2, <1>5 DEF NoToken, Tokens
<1> HIDE DEF r, t, old
<1>7. old # NoToken =>
        /\ Destroyed(rec[old]) \in Record
        /\ Destroyed(rec[old]).key = rec[old].key
        /\ Destroyed(rec[old]).service = rec[old].service
        /\ Destroyed(rec[old]).starting = rec[old].starting
        /\ Destroyed(rec[old]).proc # "absent"
        /\ Destroyed(rec[old]).proc # "attached"
  BY <1>5, DestroyedRecord
<1>8. /\ rec' \in [Tokens -> Record \cup {NoRecord}]
      /\ rec'[t] = r
      /\ old # NoToken => rec'[old] = Destroyed(rec[old])
      /\ \A u \in Tokens : u # t /\ u # old => rec'[u] = rec[u]
  BY <1>1, <1>2, <1>4, <1>5, <1>6, <1>7 DEF IInv, TypeOK
<1>9. /\ current' \in [Keys -> Tokens \cup {NoToken}]
      /\ current'[k] = t
      /\ \A j \in Keys : j # k => current'[j] = current[j]
  BY <1>1, <1>2 DEF IInv, TypeOK
<1>10. \A u \in Tokens : (Created(u))' <=> Created(u) \/ u = t
  <2>1. r.proc # "absent"
    BY <1>4
  <2> QED BY <1>2, <1>5, <1>6, <1>7, <1>8, <2>1 DEF Created
<1>11. KeysMapped'
  <2> SUFFICES ASSUME NEW j \in Keys, current'[j] # NoToken
               PROVE  rec'[current'[j]].proc # "absent" /\ rec'[current'[j]].key = j
    BY DEF KeysMapped, Created
  <2>1. CASE j = k
    BY <2>1, <1>2, <1>4, <1>8, <1>9
  <2>2. CASE j # k
    <3>1. current[j] # NoToken /\ current'[j] = current[j]
      BY <2>2, <1>9
    <3>2. current[j] \in Tokens /\ Created(current[j]) /\ rec[current[j]].key = j
      BY <3>1, MappedRecord
    <3>3. current[j] # t /\ current[j] # old
      BY <3>2, <2>2, <1>2, <1>5, <1>6
    <3> QED BY <3>1, <3>2, <3>3, <1>8 DEF Created
  <2> QED BY <2>1, <2>2
<1>12. RecordsConsistent'
  <2> SUFFICES ASSUME NEW u \in Tokens, Created(u)'
               PROVE  (rec'[u].proc = "attached" => rec'[u].service) /\ rec'[u].starting
    BY DEF RecordsConsistent, CreatedTokens
  <2>1. u # t => Created(u) /\ (rec[u].proc = "attached" => rec[u].service) /\ rec[u].starting
    BY <1>10 DEF IInv, RecordsConsistent, CreatedTokens
  <2> QED BY <2>1, <1>4, <1>5, <1>6, <1>7, <1>8
<1>13. NoOrphanService'
  <2> SUFFICES ASSUME NEW u \in Tokens, Created(u)', rec'[u].proc = "attached"
               PROVE  Registered(u)'
    BY DEF NoOrphanService, CreatedTokens
  <2>1. u # t /\ u # old
    BY <1>4, <1>5, <1>6, <1>7, <1>8
  <2>2. rec'[u] = rec[u] /\ Created(u)
    BY <2>1, <1>8, <1>10
  <2>3. current[rec[u].key] = u /\ rec[u].key \in Keys
    BY <2>2, CreatedIsRecord DEF IInv, NoOrphanService, CreatedTokens, Registered, Record
  <2>4. rec[u].key # k
    BY <2>1, <2>3 DEF old
  <2> QED BY <2>2, <2>3, <2>4, <1>9 DEF Registered
<1>14. QueueCreated' /\ queue' \in Seq(Tokens)
  <2>1. queue \in Seq(Tokens) /\ \A i \in 1 .. Len(queue) : Created(queue[i]) /\ queue[i] \in Tokens
    BY DEF IInv, TypeOK, QueueCreated
  <2>2. /\ queue' \in Seq(Tokens)
        /\ \A i \in 1 .. Len(queue') : queue'[i] = t \/ (i \in 1 .. Len(queue) /\ queue'[i] = queue[i])
    BY <2>1, <1>1, <1>2
  <2> QED BY <2>1, <2>2, <1>2, <1>10 DEF QueueCreated
<1>15. tracked' \in [Packages -> Seq(Tokens)]
  <2>1. p \in Packages
    BY KeysAssumption
  <2>2. Append(tracked[p], t) \in Seq(Tokens)
    BY <2>1, <1>2, OtherTypes
  <2> QED BY <2>1, <2>2, <1>1, OtherTypes
<1>16. client' \in [Clients -> ClientStates] /\ observed' \in SUBSET Tokens
  BY <1>1, <1>2, CallTypes, OtherTypes
<1> QED
  BY <1>1, <1>8, <1>9, <1>11, <1>12, <1>13, <1>14, <1>15, <1>16 DEF IInv, TypeOK

\* An unbind removes the mapped record or one of its callbacks.
LEMMA UnbindStep ==
  ASSUME IInv, NEW c \in Clients, NEW k \in Keys, NEW remove \in BOOLEAN,
         Unbind(c, k, remove)
  PROVE  IInv'
<1> DEFINE t == current[k]
           r == [rec[t] EXCEPT !.callbacks = @ \ {c}]
<1>1. /\ t # NoToken
      /\ UNCHANGED <<tracked, queue, removing, upgrading, upgrades, client, told, revoke>>
  BY DEF Unbind
<1>2. t \in Tokens /\ Created(t) /\ Registered(t) /\ rec[t] \in Record
  BY <1>1, MappedRecord
<1>3. CASE remove
  <2>1. RemoveLocked(t)
    BY <1>3 DEF Unbind
  <2> QED BY <1>1, <1>2, <2>1, RemoveLockedRegistry, OtherTypes, IInvFromRegistry
<1>4. CASE ~remove
  <2>1. rec' = [rec EXCEPT ![t] = r] /\ UNCHANGED <<current, observed>>
    BY <1>4 DEF Unbind
  <2>2. r \in Record /\ r.key = rec[t].key /\ r.starting = rec[t].starting
        /\ (r.proc = "attached" => r.service)
    BY <1>2 DEF Record, IInv, RecordsConsistent, CreatedTokens
  <2> HIDE DEF r, t
  <2>3. Registry' /\ \A u \in Tokens : Created(u) <=> Created(u)'
    BY <1>2, <2>1, <2>2, UpdateRegistry
  <2> QED BY <1>1, <2>1, <2>3, OtherTypes, IInvFromRegistry
<1> QED BY <1>3, <1>4

\* A process that changes state without becoming attached.
LEMMA ProcStep ==
  ASSUME IInv, NEW t \in Tokens, Created(t), NEW q \in ProcStates \ {"attached"},
         rec' = [rec EXCEPT ![t].proc = q],
         UNCHANGED <<current, tracked, removing, observed, upgrading, upgrades,
                     client, told, revoke>>,
         queue' = queue \/ (queue # <<>> /\ queue' = Tail(queue))
  PROVE  IInv'
<1> DEFINE r == [rec[t] EXCEPT !.proc = q]
<1>1. rec[t] \in Record
  BY CreatedIsRecord DEF IInv
<1>2. r \in Record /\ r.key = rec[t].key /\ r.starting = rec[t].starting /\ r.proc # "attached"
  BY <1>1 DEF Record
<1>3. rec' = [rec EXCEPT ![t] = r]
  OBVIOUS
<1> HIDE DEF r
<1>4. Registry' /\ \A u \in Tokens : Created(u) <=> Created(u)'
  BY <1>2, <1>3, UpdateRegistry
<1> QED BY <1>4, OtherTypes, IInvFromRegistry

\* The executor starts the process of a queued record: no process was there before.
LEMMA StartUserServiceStep ==
  ASSUME IInv, NEW spawned \in BOOLEAN, StartUserService(spawned)
  PROVE  IInv'
<1> DEFINE t == Head(queue)
           q == IF spawned THEN "starting" ELSE "exited"
<1>1. t \in Tokens /\ Created(t)
  <2>1. queue \in Seq(Tokens) /\ queue # <<>>
    BY OtherTypes DEF StartUserService
  <2>2. 1 \in 1 .. Len(queue) /\ t = queue[1] /\ t \in Tokens
    BY <2>1
  <2> QED BY <2>2 DEF IInv, QueueCreated
<1>2. q \in ProcStates \ {"attached"}
  BY DEF ProcStates
<1>3. /\ rec' = [rec EXCEPT ![t].proc = q]
      /\ UNCHANGED <<current, tracked, removing, observed, upgrading, upgrades,
                     client, told, revoke>>
      /\ queue # <<>> /\ queue' = Tail(queue)
  BY DEF StartUserService
<1> HIDE DEF t, q
<1> QED BY <1>1, <1>2, <1>3, ProcStep

\* A process that sends its binder is not attached yet.
LEMMA SendBinderStep ==
  ASSUME IInv, NEW t \in Tokens, SendBinder(t)
  PROVE  IInv'
<1>1. "sending" \in ProcStates \ {"attached"}
  BY DEF ProcStates
<1> QED BY <1>1, ProcStep DEF SendBinder

\* A process that dies is not attached any more.
LEMMA ServiceProcessDiesStep ==
  ASSUME IInv, NEW t \in Tokens, ServiceProcessDies(t)
  PROVE  IInv'
<1> DEFINE q == IF rec[t].proc = "sending" THEN "lost" ELSE "exited"
<1>1. q \in ProcStates \ {"attached"}
  BY DEF ProcStates
<1>2. /\ Created(t)
      /\ rec' = [rec EXCEPT ![t].proc = q]
      /\ UNCHANGED <<current, tracked, queue, removing, observed, upgrading, upgrades,
                     client, told, revoke>>
  BY DEF ServiceProcessDies
<1> HIDE DEF q
<1> QED BY <1>1, <1>2, ProcStep

\* The only step that attaches a process, and only for a token that is mapped.
LEMMA AttachUserServiceStep ==
  ASSUME IInv, NEW t \in Tokens, AttachUserService(t)
  PROVE  IInv'
<1> DEFINE up == rec[t].proc = "sending"
           r  == [rec[t] EXCEPT !.timer = IF @ = "posted" THEN "none" ELSE @,
                                !.service = TRUE,
                                !.linked = up,
                                !.proc = IF up THEN "attached" ELSE "exited"]
<1>1. Created(t) /\ rec[t] \in Record
  BY CreatedIsRecord DEF AttachUserService, IInv
<1>2. UNCHANGED <<current, tracked, queue, removing, observed, upgrading, upgrades,
                  client, revoke>>
  BY DEF AttachUserService
<1>3. CASE Registered(t)
  <2>1. rec' = [rec EXCEPT ![t] = r] /\ Broadcast(t, rec[t].callbacks)
    BY <1>3 DEF AttachUserService, KnowsToken
  <2>2. r \in Record /\ r.key = rec[t].key /\ r.starting = rec[t].starting /\ r.service
    BY <1>1 DEF Record, TimerStates, ProcStates
  <2> HIDE DEF r
  <2>3. Registry' /\ \A u \in Tokens : Created(u) <=> Created(u)'
    BY <1>1, <1>2, <1>3, <2>1, <2>2, UpdateRegistry
  <2>4. told' \in SUBSET (Clients \X Tokens)
    BY <2>1, OtherTypes DEF Broadcast, AliveClients
  <2> QED BY <1>2, <2>3, <2>4, OtherTypes, IInvFromRegistry
<1>4. CASE ~Registered(t)
  <2>1. rec' = [rec EXCEPT ![t].proc = "exited"] /\ UNCHANGED told
    BY <1>4 DEF AttachUserService, KnowsToken
  <2>2. "exited" \in ProcStates \ {"attached"}
    BY DEF ProcStates
  <2> QED BY <1>1, <1>2, <2>1, <2>2, ProcStep
<1> QED BY <1>3, <1>4

\* A record changes in a field the registry's invariant does not speak of.
LEMMA FieldStep ==
  ASSUME IInv, NEW t \in Tokens, Created(t), NEW r \in Record,
         rec' = [rec EXCEPT ![t] = r],
         r.key = rec[t].key, r.starting = rec[t].starting,
         r.proc = rec[t].proc, r.service = rec[t].service,
         removing' \in SUBSET Tokens,
         UNCHANGED <<current, tracked, queue, observed, upgrading, upgrades,
                     client, told, revoke>>
  PROVE  IInv'
<1>1. rec[t].proc = "attached" => rec[t].service
  BY DEF IInv, RecordsConsistent, CreatedTokens
<1>2. Registry' /\ \A u \in Tokens : Created(u) <=> Created(u)'
  BY <1>1, UpdateRegistry
<1> QED BY <1>2, OtherTypes, IInvFromRegistry

\* The death recipient removes the record, whose process has exited.
LEMMA ServiceBinderDiedStep ==
  ASSUME IInv, NEW t \in Tokens, ServiceBinderDied(t)
  PROVE  IInv'
<1>1. UNCHANGED <<tracked, queue, removing, upgrading, upgrades, client, told, revoke>>
  BY DEF ServiceBinderDied
<1>2. CASE Registered(t)
  <2>1. RemoveLocked(t)
    BY <1>2 DEF ServiceBinderDied
  <2> QED BY <1>1, <2>1, RemoveLockedRegistry, OtherTypes, IInvFromRegistry
<1>3. CASE ~Registered(t)
  <2> DEFINE r == [rec[t] EXCEPT !.linked = FALSE]
  <2>1. Created(t) /\ rec' = [rec EXCEPT ![t] = r] /\ UNCHANGED <<current, observed>>
    BY <1>3 DEF ServiceBinderDied
  <2>2. rec[t] \in Record
    BY <2>1, CreatedIsRecord DEF IInv
  <2>3. r \in Record /\ r.key = rec[t].key /\ r.starting = rec[t].starting
        /\ r.proc = rec[t].proc /\ r.service = rec[t].service
    BY <2>2 DEF Record
  <2> HIDE DEF r
  <2> QED BY <1>1, <2>1, <2>3, OtherTypes, FieldStep
<1> QED BY <1>2, <1>3

\* The timeout only tests the record; its removal is a later step.
LEMMA StartTimeoutStep ==
  ASSUME IInv, NEW t \in Tokens, StartTimeout(t)
  PROVE  IInv'
<1> DEFINE r == [rec[t] EXCEPT !.timer = "fired"]
<1>1. /\ Created(t)
      /\ rec' = [rec EXCEPT ![t] = r]
      /\ removing' \in SUBSET Tokens
      /\ UNCHANGED <<current, tracked, queue, observed, upgrading, upgrades, client, told, revoke>>
  BY OtherTypes DEF StartTimeout
<1>2. rec[t] \in Record
  BY <1>1, CreatedIsRecord DEF IInv
<1>3. r \in Record /\ r.key = rec[t].key /\ r.starting = rec[t].starting
      /\ r.proc = rec[t].proc /\ r.service = rec[t].service
  BY <1>2 DEF Record, TimerStates
<1> HIDE DEF r
<1> QED BY <1>1, <1>3, FieldStep

\* A dead connection leaves the record; its removal is a later step.
LEMMA CallbackDiedStep ==
  ASSUME IInv, NEW t \in Tokens, NEW c \in Clients, CallbackDied(t, c)
  PROVE  IInv'
<1> DEFINE r == [rec[t] EXCEPT !.callbacks = @ \ {c}]
<1>1. /\ Created(t)
      /\ rec' = [rec EXCEPT ![t] = r]
      /\ removing' \in SUBSET Tokens
      /\ UNCHANGED <<current, tracked, queue, observed, upgrading, upgrades, client, told, revoke>>
  BY OtherTypes DEF CallbackDied
<1>2. rec[t] \in Record
  BY <1>1, CreatedIsRecord DEF IInv
<1>3. r \in Record /\ r.key = rec[t].key /\ r.starting = rec[t].starting
      /\ r.proc = rec[t].proc /\ r.service = rec[t].service
  BY <1>2 DEF Record
<1> HIDE DEF r
<1> QED BY <1>1, <1>3, FieldStep

\* removeUserServiceLocked called by a handler that changes little else.
LEMMA RetireStep ==
  ASSUME IInv, NEW t \in Tokens, RemoveLocked(t),
         removing' \in SUBSET Tokens,
         revoke' \in [pc : {"idle"}, calls : Nat] \cup
                     [pc : {"iterate", "drop"}, calls : Nat, package : Packages,
                      index : Nat \ {0}, size : Nat],
         UNCHANGED <<tracked, queue, upgrading, upgrades, client, told>>
  PROVE  IInv'
BY RemoveLockedRegistry, OtherTypes, IInvFromRegistry

\* removeSelf() of a handler that passed its test.
LEMMA RemoveSelfStep ==
  ASSUME IInv, NEW t \in Tokens, RemoveSelf(t)
  PROVE  IInv'
<1>1. /\ RemoveLocked(t) /\ removing' \in SUBSET Tokens
      /\ UNCHANGED <<tracked, queue, upgrading, upgrades, client, told, revoke>>
  BY OtherTypes DEF RemoveSelf
<1> QED BY <1>1, OtherTypes, RetireStep

\* removeSelf() of a listener whose package is gone.
LEMMA ApkRemovedStep ==
  ASSUME IInv, NEW t \in Tokens, ApkRemoved(t)
  PROVE  IInv'
BY OtherTypes, RetireStep DEF ApkRemoved

\* removeSelf() of the record the iterator has reached.
LEMMA RevokeRecordStep ==
  ASSUME IInv, RevokeRecord
  PROVE  IInv'
<1> DEFINE p == revoke.package
           i == revoke.index
<1>1. /\ revoke.pc = "iterate" /\ Len(tracked[p]) = revoke.size /\ i <= revoke.size
      /\ RemoveLocked(tracked[p][i])
      /\ revoke' = [revoke EXCEPT !.index = @ + 1]
      /\ UNCHANGED <<tracked, queue, removing, upgrading, upgrades, client, told>>
  BY DEF RevokeRecord
<1>2. revoke \in [pc : {"iterate", "drop"}, calls : Nat, package : Packages,
                   index : Nat \ {0}, size : Nat]
  BY <1>1, OtherTypes
<1>3. revoke' \in [pc : {"iterate", "drop"}, calls : Nat, package : Packages,
                    index : Nat \ {0}, size : Nat]
  BY <1>1, <1>2
<1>4. tracked[p][i] \in Tokens
  <2>1. tracked[p] \in Seq(Tokens) /\ i \in 1 .. Len(tracked[p])
    BY <1>1, <1>2, OtherTypes
  <2> QED BY <2>1
<1> QED BY <1>1, <1>3, <1>4, OtherTypes, RetireStep

\* The steps that leave the registry alone.
LEMMA QuietStep ==
  ASSUME IInv,
         \/ \E t \in Tokens : ApkUpgradedStop(t) \/ ApkUpgradedStart(t)
         \/ \E p \in Packages : RevokeStart(p)
         \/ RevokeFails \/ RevokeLoopDone \/ RevokeDrop
         \/ \E c \in Clients, calling \in BOOLEAN : ClientDies(c, calling)
  PROVE  IInv'
<1> DEFINE RevokeType == [pc : {"idle"}, calls : Nat] \cup
                         [pc : {"iterate", "drop"}, calls : Nat, package : Packages,
                          index : Nat \ {0}, size : Nat]
<1>1. UNCHANGED <<rec, current, queue, removing, told>>
  BY DEF ApkUpgradedStop, ApkUpgradedStart, RevokeStart, RevokeFails, RevokeLoopDone,
         RevokeDrop, ClientDies
<1>2. /\ observed' \in SUBSET Tokens /\ upgrading' \in SUBSET Tokens /\ upgrades' \in Nat
      /\ client' \in [Clients -> ClientStates]
  BY OtherTypes DEF ApkUpgradedStop, ApkUpgradedStart, RevokeStart, RevokeFails,
       RevokeLoopDone, RevokeDrop, ClientDies, ClientStates
<1>3. tracked' \in [Packages -> Seq(Tokens)]
  <2>1. CASE RevokeDrop
    <3>1. <<>> \in Seq(Tokens)
      OBVIOUS
    <3> QED BY <2>1, <3>1, OtherTypes DEF RevokeDrop
  <2>2. CASE UNCHANGED tracked
    BY <2>2, OtherTypes
  <2> QED BY <2>1, <2>2 DEF ApkUpgradedStop, ApkUpgradedStart, RevokeStart, RevokeFails,
       RevokeLoopDone, ClientDies
<1>4. revoke' \in RevokeType
  <2>1. revoke \in RevokeType /\ revoke.calls \in Nat
    BY OtherTypes
  <2>2. CASE RevokeFails \/ RevokeDrop
    BY <2>1, <2>2 DEF RevokeFails, RevokeDrop, RevokeIdle
  <2>3. ASSUME NEW p \in Packages, RevokeStart(p) PROVE revoke' \in RevokeType
    <3>1. Len(tracked[p]) \in Nat
      BY OtherTypes
    <3> QED BY <2>1, <2>3, <3>1 DEF RevokeStart
  <2>4. CASE RevokeLoopDone
    BY <2>1, <2>4 DEF RevokeLoopDone
  <2>5. CASE UNCHANGED revoke
    BY <2>1, <2>5
  <2> QED BY <2>2, <2>3, <2>4, <2>5 DEF ApkUpgradedStop, ApkUpgradedStart, ClientDies
<1> QED BY <1>1, <1>2, <1>3, <1>4, SameRegistry, OtherTypes, IInvFromRegistry
-----------------------------------------------------------------------------
(* The invariant and its consequences                                       *)

\* No record exists at first.
LEMMA InitIInv == Init => IInv
<1> SUFFICES ASSUME Init PROVE IInv
  OBVIOUS
<1>1. TypeOK
  BY DEF Init, TypeOK, ClientStates, NoRecord
<1>2. \A t \in Tokens : ~Created(t)
  BY DEF Init, Created, NoRecord
<1>3. KeysMapped /\ QueueCreated
  BY DEF Init, KeysMapped, QueueCreated
<1> QED
  BY <1>1, <1>2, <1>3 DEF IInv, RecordsConsistent, NoOrphanService, CreatedTokens

\* The inductive step, one case per action of Next.
LEMMA NextIInv == IInv /\ [Next]_vars => IInv'
<1> SUFFICES ASSUME IInv, [Next]_vars PROVE IInv'
  OBVIOUS
<1>1. CASE ClientCall
  BY <1>1, BindExistingStep, BindNewStep, PeekStep, UnbindStep DEF ClientCall, Bind
<1>2. CASE Process
  BY <1>2, StartUserServiceStep, SendBinderStep, AttachUserServiceStep,
     ServiceProcessDiesStep DEF Process
<1>3. CASE Retire
  BY <1>3, ServiceBinderDiedStep, StartTimeoutStep, CallbackDiedStep, RemoveSelfStep,
     ApkRemovedStep, QuietStep DEF Retire
<1>4. CASE Revoke
  BY <1>4, RevokeRecordStep, QuietStep DEF Revoke
<1>5. CASE \E c \in Clients, calling \in BOOLEAN : ClientDies(c, calling)
  BY <1>5, QuietStep
<1>6. CASE UNCHANGED vars
  <2>1. UNCHANGED <<rec, current, tracked, queue, removing, observed, upgrading,
                    upgrades, client, told, revoke>>
    BY <1>6 DEF vars
  <2> QED BY <2>1, SameRegistry, OtherTypes, IInvFromRegistry
<1> QED BY <1>1, <1>2, <1>3, <1>4, <1>5, <1>6 DEF Next

\* The registry's invariant holds in every reachable state.
THEOREM Invariance == Spec => []IInv
BY InitIInv, NextIInv, PTL DEF Spec

\* Type correctness of the registry.
THEOREM TypeCorrect == Spec => []TypeOK
<1>1. IInv => TypeOK
  BY DEF IInv
<1> QED BY <1>1, Invariance, PTL

\* No attached process is forgotten: it is always the one its key maps to.
THEOREM NoOrphan == Spec => []NoOrphanService
<1>1. IInv => NoOrphanService
  BY DEF IInv
<1> QED BY <1>1, Invariance, PTL

\* At most one attached process serves a key.
THEOREM OnePerKey == Spec => []OneServicePerKey
<1>1. IInv => OneServicePerKey
  BY DEF IInv, NoOrphanService, OneServicePerKey, Registered
<1> QED BY <1>1, Invariance, PTL

-----------------------------------------------------------------------------
(* Retirement is final                                                      *)

\* A step maps a key to what it was mapped to, to nothing, or to a new record.
LEMMA MapSteps ==
  ASSUME IInv, [Next]_vars, NEW k \in Keys
  PROVE  current'[k] = current[k] \/ current'[k] = NoToken \/ ~Created(current'[k])
<1>1. \A t : RemoveLocked(t) => current'[k] = current[k] \/ current'[k] = NoToken
  BY DEF RemoveLocked, IInv, TypeOK
<1>2. CASE ClientCall
  <2>1. PICK c \in Clients, j \in Keys :
          \/ \E v \in Versions, d \in BOOLEAN : Bind(c, j, v, d)
          \/ Peek(c, j)
          \/ \E remove \in BOOLEAN : Unbind(c, j, remove)
    BY <1>2 DEF ClientCall
  <2>2. ASSUME NEW v \in Versions, NEW d \in BOOLEAN, BindNew(c, j, v, d)
        PROVE  current'[k] = current[k] \/ ~Created(current'[k])
    <3>1. ~Created(FreshToken) /\ current' = [current EXCEPT ![j] = FreshToken]
      BY <2>2, FreshTokenIsFree DEF BindNew
    <3> QED BY <3>1 DEF IInv, TypeOK
  <2>3. ASSUME NEW v \in Versions, NEW d \in BOOLEAN, BindExisting(c, j, v, d)
        PROVE  current' = current
    BY <2>3 DEF BindExisting
  <2>4. Peek(c, j) => current' = current
    BY DEF Peek
  <2>5. ASSUME NEW remove \in BOOLEAN, Unbind(c, j, remove)
        PROVE  current'[k] = current[k] \/ current'[k] = NoToken
    BY <1>1, <2>5 DEF Unbind
  <2> QED BY <2>1, <2>2, <2>3, <2>4, <2>5 DEF Bind
<1>3. CASE Process
  BY <1>3 DEF Process, StartUserService, SendBinder, AttachUserService, ServiceProcessDies
<1>4. CASE Retire
  BY <1>1, <1>4 DEF Retire, ServiceBinderDied, StartTimeout, CallbackDied, RemoveSelf,
     ApkRemoved, ApkUpgradedStop, ApkUpgradedStart
<1>5. CASE Revoke
  BY <1>1, <1>5 DEF Revoke, RevokeStart, RevokeRecord, RevokeFails, RevokeLoopDone, RevokeDrop
<1>6. CASE \E c \in Clients, calling \in BOOLEAN : ClientDies(c, calling)
  BY <1>6 DEF ClientDies
<1>7. CASE UNCHANGED vars
  BY <1>7 DEF vars
<1> QED BY <1>2, <1>3, <1>4, <1>5, <1>6, <1>7 DEF Next

\* A step maps no created record that was not mapped.
LEMMA NoRevival ==
  ASSUME IInv, [Next]_vars, NEW t \in Tokens, Created(t), ~Registered(t)
  PROVE  ~(Registered(t))'
<1> SUFFICES ASSUME (Registered(t))' PROVE FALSE
  OBVIOUS
<1>1. IInv'
  BY NextIInv
<1>2. rec'[t] \in Record
  BY <1>1 DEF IInv, TypeOK, Registered, Created, NoRecord
<1> DEFINE k == rec'[t].key
<1>3. k \in Keys /\ current'[k] = t
  BY <1>2 DEF Registered, Record
<1> HIDE DEF k
<1>4. current[k] = t
  BY <1>3, MapSteps DEF Tokens, NoToken
<1>5. rec[t].key = k
  BY <1>3, <1>4 DEF IInv, KeysMapped, Tokens, NoToken
<1> QED BY <1>4, <1>5 DEF Registered

\* A retired record is never mapped again, whatever late call names its token.
THEOREM Retirement == Spec => RetiredForGood
<1>1. IInv /\ [Next]_vars =>
        [\A t \in Tokens : (Created(t) /\ ~Registered(t)) => ~Registered(t)']_vars
  BY NoRevival
<1> QED BY <1>1, Invariance, PTL DEF Spec, RetiredForGood
-----------------------------------------------------------------------------
(* A start is covered by its timeout                                        *)

\* A step keeps a record's service and timer and its place among the records to
\* remove, or attaches its process, or moves its timeout past its test, or
\* retires it.
LEMMA CoverSteps ==
  ASSUME IInv, [Next]_vars, NEW t \in Tokens, Created(t)
  PROVE  /\ (Created(t))'
         /\ \/ /\ rec'[t].service = rec[t].service
               /\ rec'[t].timer = rec[t].timer
               /\ t \in removing => t \in removing'
            \/ rec'[t].service
            \/ rec'[t].service = rec[t].service /\ t \in removing'
            \/ ~(Registered(t))'
<1> DEFINE Same == /\ rec'[t].service = rec[t].service
                   /\ rec'[t].timer = rec[t].timer
                   /\ (Created(t))'
<1>1. rec[t] \in Record /\ rec[t].starting /\ DOMAIN rec = Tokens
  BY CreatedIsRecord DEF IInv, TypeOK, RecordsConsistent, CreatedTokens
<1>2. \A u \in Tokens : RemoveLocked(u) => Same
  BY RemoveLockedEffect
<1>3. ASSUME NEW c \in Clients, NEW k \in Keys, NEW v \in Versions, NEW d \in BOOLEAN,
             BindExisting(c, k, v, d)
      PROVE  Same /\ removing' = removing
  BY <1>1, <1>3 DEF BindExisting, WithCallback, Record, Created
<1>4. ASSUME NEW c \in Clients, NEW k \in Keys, NEW v \in Versions, NEW d \in BOOLEAN,
             BindNew(c, k, v, d)
      PROVE  Same /\ removing' = removing
  <2>1. t # FreshToken
    BY <1>4, FreshTokenIsFree DEF BindNew
  <2>2. rec'[t] = rec[t] \/ rec'[t] = Destroyed(rec[t])
    BY <1>4, <2>1 DEF BindNew
  <2>3. Destroyed(rec[t]).service = rec[t].service /\ Destroyed(rec[t]).timer = rec[t].timer
        /\ Destroyed(rec[t]).proc # "absent"
    BY <1>1, DestroyedRecord
  <2> QED BY <1>4, <2>2, <2>3 DEF BindNew, Created
<1>5. ASSUME NEW c \in Clients, NEW k \in Keys, Peek(c, k)
      PROVE  Same /\ removing' = removing
  BY <1>1, <1>5 DEF Peek, WithCallback, Record, Created
<1>6. ASSUME NEW c \in Clients, NEW k \in Keys, NEW remove \in BOOLEAN, Unbind(c, k, remove)
      PROVE  Same /\ removing' = removing
  <2>1. current[k] \in Tokens
    BY <1>6, MappedRecord DEF Unbind
  <2>2. CASE remove
    BY <1>2, <1>6, <2>1, <2>2 DEF Unbind
  <2>3. CASE ~remove
    BY <1>1, <1>6, <2>1, <2>3 DEF Unbind, Record, Created
  <2> QED BY <2>2, <2>3
<1>7. CASE Process
  <2>1. ASSUME NEW spawned \in BOOLEAN, StartUserService(spawned)
        PROVE  Same /\ removing' = removing
    BY <1>1, <2>1 DEF StartUserService, Record, Created
  <2>2. ASSUME NEW u \in Tokens, SendBinder(u) \/ ServiceProcessDies(u)
        PROVE  Same /\ removing' = removing
    BY <1>1, <2>2 DEF SendBinder, ServiceProcessDies, Record, Created
  <2>3. ASSUME NEW u \in Tokens, AttachUserService(u)
        PROVE  removing' = removing /\ (Created(t))' /\ (Same \/ rec'[t].service)
    BY <1>1, <2>3 DEF AttachUserService, Record, Created
  <2> QED BY <1>7, <2>1, <2>2, <2>3 DEF Process
<1>8. CASE Retire
  <2>1. PICK u \in Tokens :
          \/ ServiceBinderDied(u)
          \/ StartTimeout(u)
          \/ \E c \in Clients : CallbackDied(u, c)
          \/ RemoveSelf(u)
          \/ ApkRemoved(u)
          \/ ApkUpgradedStop(u)
          \/ ApkUpgradedStart(u)
    BY <1>8 DEF Retire
  <2>2. ASSUME ServiceBinderDied(u)
        PROVE  Same /\ removing' = removing
    <3>1. CASE Registered(u)
      BY <1>2, <2>2, <3>1 DEF ServiceBinderDied
    <3>2. CASE ~Registered(u)
      BY <1>1, <2>2, <3>2 DEF ServiceBinderDied, Record, Created
    <3> QED BY <3>1, <3>2
  <2>3. StartTimeout(u) => rec'[t].service = rec[t].service /\ (Created(t))' /\ (t \in removing' \/ Same)
                           /\ (t \in removing => t \in removing')
    BY <1>1 DEF StartTimeout, Record, Created
  <2>4. ASSUME NEW c \in Clients, CallbackDied(u, c)
        PROVE  Same /\ (t \in removing => t \in removing')
    BY <1>1, <2>4 DEF CallbackDied, Record, Created
  <2>5. ASSUME RemoveSelf(u)
        PROVE  Same /\ ((t \in removing => t \in removing') \/ ~(Registered(t))')
    <3>1. RemoveLocked(u) /\ removing' = removing \ {u}
      BY <2>5 DEF RemoveSelf
    <3>2. u = t => ~(Registered(t))'
      BY <3>1, RemoveLockedEffect
    <3> QED BY <1>2, <3>1, <3>2
  <2>6. ApkRemoved(u) => Same /\ removing' = removing
    BY <1>2 DEF ApkRemoved
  <2>7. ApkUpgradedStop(u) \/ ApkUpgradedStart(u) => Same /\ removing' = removing
    BY DEF ApkUpgradedStop, ApkUpgradedStart, Created
  <2> QED BY <2>1, <2>2, <2>3, <2>4, <2>5, <2>6, <2>7
<1>9. CASE Revoke
  <2>1. RevokeRecord => Same /\ removing' = removing
    <3> SUFFICES ASSUME RevokeRecord PROVE Same /\ removing' = removing
      OBVIOUS
    <3>1. RemoveLocked(tracked[revoke.package][revoke.index]) /\ removing' = removing
      BY DEF RevokeRecord
    <3>2. tracked[revoke.package][revoke.index] \in Tokens
      BY IteratedToken
    <3> QED BY <1>2, <3>1, <3>2
  <2>2. ~RevokeRecord => Same /\ removing' = removing
    BY <1>9 DEF Revoke, RevokeStart, RevokeFails, RevokeLoopDone, RevokeDrop, Created
  <2> QED BY <2>1, <2>2
<1>10. CASE \E c \in Clients, calling \in BOOLEAN : ClientDies(c, calling)
  BY <1>10 DEF ClientDies, Created
<1>11. CASE UNCHANGED vars
  BY <1>11 DEF vars, Created
<1>12. CASE ClientCall
  BY <1>3, <1>4, <1>5, <1>6, <1>12 DEF ClientCall, Bind
<1> QED BY <1>7, <1>8, <1>9, <1>10, <1>11, <1>12 DEF Next

\* A step creates a record only by a bind, with its timeout posted and no binder.
LEMMA BornPosted ==
  ASSUME IInv, [Next]_vars, NEW t \in Tokens, ~Created(t), (Created(t))'
  PROVE  rec'[t].timer = "posted" /\ rec'[t].proc = "none" /\ ~rec'[t].service
<1>1. \A c \in Clients, k \in Keys, v \in Versions, d \in BOOLEAN : 
        BindNew(c, k, v, d) => rec'[t].timer = "posted" /\ rec'[t].proc = "none" /\ ~rec'[t].service
  <2> SUFFICES ASSUME NEW c \in Clients, NEW k \in Keys, NEW v \in Versions, NEW d \in BOOLEAN,
                      BindNew(c, k, v, d)
               PROVE  rec'[t].timer = "posted" /\ rec'[t].proc = "none" /\ ~rec'[t].service
    OBVIOUS
  <2>1. t # current[k]
    BY MappedRecord DEF NoToken, Tokens
  <2>2. t # FreshToken => rec'[t] = rec[t]
    BY <2>1 DEF BindNew
  <2>3. t = FreshToken
    BY <2>2 DEF Created
  <2>4. rec'[t] = WithCallback(NewRecord(k, v, d), c)
    BY <2>3 DEF BindNew
  <2> QED BY <2>4 DEF WithCallback, NewRecord
<1>2. ASSUME NEW u \in Tokens, Created(u), NEW r, rec' = [rec EXCEPT ![u] = r]
      PROVE  FALSE
  BY <1>2 DEF Created, IInv, TypeOK
<1>3. rec' # rec
  BY DEF Created
<1>4. \A u \in Tokens : ~RemoveLocked(u)
  BY RemoveLockedEffect
<1>5. \A c \in Clients, k \in Keys, v \in Versions, d \in BOOLEAN : ~BindExisting(c, k, v, d)
  <2> SUFFICES ASSUME NEW c \in Clients, NEW k \in Keys, NEW v \in Versions, NEW d \in BOOLEAN,
                      BindExisting(c, k, v, d)
               PROVE  FALSE
    OBVIOUS
  <2>1. current[k] \in Tokens /\ Created(current[k])
    BY MappedRecord DEF BindExisting, Reusable
  <2> QED BY <1>2, <2>1 DEF BindExisting
<1>6. \A c \in Clients, k \in Keys : ~Peek(c, k)
  <2> SUFFICES ASSUME NEW c \in Clients, NEW k \in Keys, Peek(c, k)
               PROVE  FALSE
    OBVIOUS
  <2>1. current[k] # NoToken /\ rec' = [rec EXCEPT ![current[k]] = WithCallback(rec[current[k]], c)]
    BY <1>3 DEF Peek
  <2> QED BY <1>2, <2>1, MappedRecord
<1>7. \A c \in Clients, k \in Keys, remove \in BOOLEAN : ~Unbind(c, k, remove)
  <2> SUFFICES ASSUME NEW c \in Clients, NEW k \in Keys, NEW remove \in BOOLEAN,
                      Unbind(c, k, remove)
               PROVE  FALSE
    OBVIOUS
  <2>1. current[k] \in Tokens /\ Created(current[k])
    BY MappedRecord DEF Unbind
  <2>2. ~remove
    BY <1>4, <2>1 DEF Unbind
  <2>3. rec' = [rec EXCEPT ![current[k]].callbacks = @ \ {c}]
    BY <2>2 DEF Unbind
  <2> QED BY <1>2, <2>1, <2>3
<1>8. ~Process
  <2>1. ASSUME NEW spawned \in BOOLEAN, StartUserService(spawned)
        PROVE  FALSE
    <3>1. Head(queue) \in Tokens /\ Created(Head(queue))
      BY <2>1, QueueHead DEF StartUserService
    <3> QED BY <1>2, <2>1, <3>1 DEF StartUserService
  <2>2. ASSUME NEW u \in Tokens, SendBinder(u) \/ ServiceProcessDies(u)
        PROVE  FALSE
    BY <1>2, <2>2 DEF SendBinder, ServiceProcessDies
  <2>3. ASSUME NEW u \in Tokens, AttachUserService(u)
        PROVE  FALSE
    BY <1>2, <2>3 DEF AttachUserService
  <2> QED BY <2>1, <2>2, <2>3 DEF Process
<1>9. ~Retire
  <2> SUFFICES ASSUME NEW u \in Tokens,
                      \/ ServiceBinderDied(u)
                      \/ StartTimeout(u)
                      \/ \E c \in Clients : CallbackDied(u, c)
                      \/ RemoveSelf(u)
                      \/ ApkRemoved(u)
                      \/ ApkUpgradedStop(u)
                      \/ ApkUpgradedStart(u)
               PROVE  FALSE
    BY DEF Retire
  <2>1. ~ServiceBinderDied(u)
    BY <1>2, <1>4 DEF ServiceBinderDied
  <2>2. ~StartTimeout(u)
    BY <1>2 DEF StartTimeout
  <2>3. \A c \in Clients : ~CallbackDied(u, c)
    BY <1>2 DEF CallbackDied
  <2>4. ~RemoveSelf(u) /\ ~ApkRemoved(u)
    BY <1>4 DEF RemoveSelf, ApkRemoved
  <2>5. ~ApkUpgradedStop(u) /\ ~ApkUpgradedStart(u)
    BY <1>3 DEF ApkUpgradedStop, ApkUpgradedStart
  <2> QED BY <2>1, <2>2, <2>3, <2>4, <2>5
<1>10. ~Revoke
  <2>1. ~RevokeRecord
    BY <1>4, IteratedToken DEF RevokeRecord
  <2> QED BY <1>3, <2>1 DEF Revoke, RevokeStart, RevokeFails, RevokeLoopDone, RevokeDrop
<1>11. \A c \in Clients, calling \in BOOLEAN : ~ClientDies(c, calling)
  BY <1>3 DEF ClientDies
<1>12. ~UNCHANGED vars
  BY <1>3 DEF vars
<1> QED
  BY <1>1, <1>5, <1>6, <1>7, <1>8, <1>9, <1>10, <1>11, <1>12 DEF Next, ClientCall, Bind

\* The timeout of a mapped record without a binder is posted or about to remove it.
LEMMA StartStep == IInv /\ [Next]_vars /\ StartIsBounded => StartIsBounded'
<1> SUFFICES ASSUME IInv, [Next]_vars, StartIsBounded, NEW t \in Tokens, (Created(t))',
                    (Registered(t))', ~rec'[t].service
             PROVE  rec'[t].timer = "posted" \/ t \in removing'
  BY DEF StartIsBounded, CreatedTokens
<1>1. CASE ~Created(t)
  BY <1>1, BornPosted
<1>2. CASE Created(t)
  <2>1. Registered(t)
    BY <1>2, NoRevival
  <2>2. ~rec[t].service => rec[t].timer = "posted" \/ t \in removing
    BY <1>2, <2>1 DEF StartIsBounded, CreatedTokens
  <2> QED BY <1>2, <2>2, CoverSteps
<1> QED BY <1>1, <1>2

\* Every start is bounded, whatever the process, the clients and the APKs do.
THEOREM StartBounded == Spec => []StartIsBounded
<1>1. Init => StartIsBounded
  BY DEF Init, StartIsBounded, CreatedTokens, Created, NoRecord
<1> QED BY <1>1, Invariance, StartStep, PTL DEF Spec
-----------------------------------------------------------------------------
(* Every connection hears of the binder                                     *)

\* A connection c that lives and is registered on the attached record t after a
\* step was so before it, or has been told in the step.
Hears(t, c) ==
  (rec'[t].proc = "attached" /\ c \in rec'[t].callbacks /\ client'[c] = "alive") =>
    \/ rec[t].proc = "attached" /\ c \in rec[t].callbacks /\ client[c] = "alive"
    \/ <<c, t>> \in told'

\* A step that gives a record r, registered by caller b, where record u was, and
\* broadcasts to its callbacks what was there to be heard.
LEMMA RegisterHears ==
  ASSUME IInv, NEW t \in Tokens, NEW c \in Clients,
         NEW u \in Tokens, NEW b \in Clients, Created(u), NEW r \in Record,
         rec' = [rec EXCEPT ![u] = WithCallback(r, b)],
         r.proc = rec[u].proc, r.service = rec[u].service,
         Rebroadcast(u, WithCallback(r, b)), CallServed(b)
  PROVE  told \subseteq told' /\ Hears(t, c)
<1> DEFINE q == WithCallback(r, b)
<1>1. q.proc = rec[u].proc /\ DOMAIN rec = Tokens
  BY DEF WithCallback, Record, IInv, TypeOK
<1>2. told \subseteq told'
  BY DEF Rebroadcast, Broadcast
<1>3. client'[c] = "alive" => client[c] = "alive"
  BY DEF CallServed, IInv, TypeOK
<1>4. CASE t # u
  BY <1>1, <1>2, <1>3, <1>4 DEF Hears
<1>5. CASE t = u
  <2> SUFFICES ASSUME q.proc = "attached", c \in q.callbacks, client'[c] = "alive"
               PROVE  <<c, t>> \in told'
    BY <1>1, <1>2, <1>5 DEF Hears
  <2>1. ServiceAlive(u)
    BY <1>1 DEF ServiceAlive, ProcAlive, IInv, RecordsConsistent, CreatedTokens
  <2>2. told' = told \cup ((q.callbacks \cap AliveClients) \X {u})
    BY <2>1 DEF Rebroadcast, Broadcast
  <2>3. c \in q.callbacks \cap AliveClients
    BY <1>3 DEF AliveClients
  <2> QED BY <1>5, <2>2, <2>3
<1> QED BY <1>4, <1>5

\* Retiring a record tells nobody and leaves nobody to tell.
LEMMA RemoveHears ==
  ASSUME IInv, NEW t \in Tokens, NEW c \in Clients, Created(t),
         NEW u \in Tokens, RemoveLocked(u), UNCHANGED <<client, told>>
  PROVE  Hears(t, c)
BY RemoveLockedEffect DEF Hears

\* What attach broadcasts reaches every connection registered so far.
LEMMA AttachHears ==
  ASSUME IInv, NEW t \in Tokens, NEW c \in Clients, NEW u \in Tokens, AttachUserService(u)
  PROVE  told \subseteq told' /\ Hears(t, c)
<1>1. Created(u) /\ rec[u] \in Record /\ DOMAIN rec = Tokens /\ client' = client
  BY CreatedIsRecord DEF AttachUserService, IInv, TypeOK
<1>2. CASE KnowsToken(u)
  <2>1. told' = told \cup ((rec[u].callbacks \cap AliveClients) \X {u})
    BY <1>2 DEF AttachUserService, Broadcast
  <2>2. t # u => rec'[t] = rec[t]
    BY <1>1, <1>2 DEF AttachUserService
  <2>3. rec'[u].callbacks = rec[u].callbacks
    BY <1>1, <1>2 DEF AttachUserService, Record
  <2>4. CASE t = u
    <3>1. c \in rec'[t].callbacks /\ client'[c] = "alive" => <<c, t>> \in told'
      BY <1>1, <2>1, <2>3, <2>4 DEF AliveClients
    <3> QED BY <2>1, <3>1 DEF Hears
  <2>5. CASE t # u
    BY <1>1, <2>1, <2>2, <2>5 DEF Hears
  <2> QED BY <2>4, <2>5
<1>3. CASE ~KnowsToken(u)
  BY <1>1, <1>3 DEF AttachUserService, Hears, Record
<1> QED BY <1>2, <1>3

\* No step forgets a broadcast or leaves a connection out of one.
LEMMA HearsSteps ==
  ASSUME IInv, [Next]_vars, NEW t \in Tokens, Created(t), NEW c \in Clients
  PROVE  told \subseteq told' /\ Hears(t, c)
<1> DEFINE Goal == told \subseteq told' /\ Hears(t, c)
<1>1. rec[t] \in Record /\ DOMAIN rec = Tokens /\ client \in [Clients -> ClientStates]
  BY CreatedIsRecord DEF IInv, TypeOK
<1>2. ASSUME NEW b \in Clients, NEW k \in Keys, NEW v \in Versions, NEW d \in BOOLEAN,
             BindExisting(b, k, v, d)
      PROVE  Goal
  <2> DEFINE u == current[k]
             r == [rec[u] EXCEPT !.daemon = d]
  <2>1. /\ rec' = [rec EXCEPT ![u] = WithCallback(r, b)]
        /\ Rebroadcast(u, WithCallback(r, b)) /\ CallServed(b)
    BY <1>2 DEF BindExisting
  <2>2. u \in Tokens /\ Created(u) /\ rec[u] \in Record
    BY <1>2, MappedRecord DEF BindExisting, Reusable
  <2>3. r \in Record /\ r.proc = rec[u].proc /\ r.service = rec[u].service
    BY <2>2 DEF Record
  <2> HIDE DEF u, r
  <2> QED BY <2>1, <2>2, <2>3, RegisterHears
<1>3. ASSUME NEW b \in Clients, NEW k \in Keys, NEW v \in Versions, NEW d \in BOOLEAN,
             BindNew(b, k, v, d)
      PROVE  Goal
  <2>1. t # FreshToken
    BY <1>3, FreshTokenIsFree DEF BindNew
  <2>2. rec'[t] = rec[t] \/ rec'[t] = Destroyed(rec[t])
    BY <1>3, <2>1 DEF BindNew
  <2>3. Destroyed(rec[t]).callbacks = {}
    BY <1>1, DestroyedRecord
  <2>4. told' = told /\ (client'[c] = "alive" => client[c] = "alive")
    BY <1>1, <1>3 DEF BindNew, CallServed
  <2> QED BY <2>2, <2>3, <2>4 DEF Hears
<1>4. ASSUME NEW b \in Clients, NEW k \in Keys, Peek(b, k)
      PROVE  Goal
  <2> DEFINE u == current[k]
  <2>1. CASE u # NoToken
    <3>1. /\ rec' = [rec EXCEPT ![u] = WithCallback(rec[u], b)]
          /\ Rebroadcast(u, WithCallback(rec[u], b)) /\ CallServed(b)
      BY <1>4, <2>1 DEF Peek
    <3>2. u \in Tokens /\ Created(u) /\ rec[u] \in Record
      BY <2>1, MappedRecord
    <3> HIDE DEF u
    <3> QED BY <3>1, <3>2, RegisterHears
  <2>2. CASE u = NoToken
    <3>1. UNCHANGED <<rec, told>> /\ CallServed(b)
      BY <1>4, <2>2 DEF Peek
    <3>2. client'[c] = "alive" => client[c] = "alive"
      BY <1>1, <3>1 DEF CallServed
    <3> QED BY <3>1, <3>2 DEF Hears
  <2> QED BY <2>1, <2>2
<1>5. ASSUME NEW b \in Clients, NEW k \in Keys, NEW remove \in BOOLEAN, Unbind(b, k, remove)
      PROVE  Goal
  <2>1. current[k] \in Tokens /\ UNCHANGED <<client, told>>
    BY <1>5, MappedRecord DEF Unbind
  <2>2. CASE remove
    BY <1>5, <2>1, <2>2, RemoveHears DEF Unbind
  <2>3. CASE ~remove
    BY <1>1, <1>5, <2>1, <2>3 DEF Unbind, Hears, Record
  <2> QED BY <2>2, <2>3
<1>6. CASE Process
  <2>1. ASSUME NEW spawned \in BOOLEAN, StartUserService(spawned)
        PROVE  Goal
    BY <1>1, <2>1 DEF StartUserService, Hears, Record
  <2>2. ASSUME NEW u \in Tokens, SendBinder(u) \/ ServiceProcessDies(u)
        PROVE  Goal
    BY <1>1, <2>2 DEF SendBinder, ServiceProcessDies, Hears, Record
  <2> QED BY <1>6, <2>1, <2>2, AttachHears DEF Process
<1>7. CASE Retire
  <2>1. PICK u \in Tokens :
          \/ ServiceBinderDied(u)
          \/ StartTimeout(u)
          \/ \E b \in Clients : CallbackDied(u, b)
          \/ RemoveSelf(u)
          \/ ApkRemoved(u)
          \/ ApkUpgradedStop(u)
          \/ ApkUpgradedStart(u)
    BY <1>7 DEF Retire
  <2>2. ASSUME ServiceBinderDied(u)
        PROVE  Goal
    <3>1. CASE Registered(u)
      BY <2>2, <3>1, RemoveHears DEF ServiceBinderDied
    <3>2. CASE ~Registered(u)
      BY <1>1, <2>2, <3>2 DEF ServiceBinderDied, Hears, Record
    <3> QED BY <3>1, <3>2
  <2>3. ASSUME StartTimeout(u)
        PROVE  Goal
    BY <1>1, <2>3 DEF StartTimeout, Hears, Record
  <2>4. ASSUME NEW b \in Clients, CallbackDied(u, b)
        PROVE  Goal
    BY <1>1, <2>4 DEF CallbackDied, Hears, Record
  <2>5. RemoveSelf(u) \/ ApkRemoved(u) => Goal
    BY RemoveHears DEF RemoveSelf, ApkRemoved
  <2>6. ApkUpgradedStop(u) \/ ApkUpgradedStart(u) => Goal
    BY DEF ApkUpgradedStop, ApkUpgradedStart, Hears
  <2> QED BY <2>1, <2>2, <2>3, <2>4, <2>5, <2>6
<1>8. CASE Revoke
  <2>1. RevokeRecord => Goal
    BY RemoveHears, IteratedToken DEF RevokeRecord
  <2>2. ~RevokeRecord => Goal
    BY <1>8 DEF Revoke, RevokeStart, RevokeFails, RevokeLoopDone, RevokeDrop, Hears
  <2> QED BY <2>1, <2>2
<1>9. ASSUME NEW b \in Clients, NEW calling \in BOOLEAN, ClientDies(b, calling)
      PROVE  Goal
  BY <1>1, <1>9 DEF ClientDies, Hears
<1>10. CASE UNCHANGED vars
  BY <1>10 DEF vars, Hears
<1>11. CASE ClientCall
  BY <1>2, <1>3, <1>4, <1>5, <1>11 DEF ClientCall, Bind
<1> QED BY <1>6, <1>7, <1>8, <1>9, <1>10, <1>11 DEF Next

\* Registering and attaching meet, whichever comes first.
LEMMA HeardStep == IInv /\ [Next]_vars /\ NoMissedBinder => NoMissedBinder'
<1> SUFFICES ASSUME IInv, [Next]_vars, NoMissedBinder, NEW t \in Tokens, (Created(t))',
                    rec'[t].proc = "attached",
                    NEW c \in Clients, c \in rec'[t].callbacks, client'[c] = "alive"
             PROVE  <<c, t>> \in told'
  BY DEF NoMissedBinder, CreatedTokens, AliveClients
<1>1. Created(t)
  BY BornPosted
<1>2. told \subseteq told' /\ Hears(t, c)
  BY <1>1, HearsSteps
<1> QED BY <1>1, <1>2 DEF NoMissedBinder, CreatedTokens, AliveClients, Hears

\* No live connection of an attached service misses its binder.
THEOREM BinderHeard == Spec => []NoMissedBinder
<1>1. Init => NoMissedBinder
  <2>1. Init => CreatedTokens = {}
    BY DEF Init, CreatedTokens, Created, NoRecord
  <2> QED BY <2>1 DEF NoMissedBinder
<1> QED BY <1>1, Invariance, HeardStep, PTL DEF Spec

-----------------------------------------------------------------------------
(* What an iterator has passed is gone                                      *)

\* A package's list holds created records only.
TrackedCreated ==
  \A p \in Packages : \A i \in 1 .. Len(tracked[p]) : Created(tracked[p][i])

\* The iterator's position lies within the list it knew, which the list extends.
IteratorWithin ==
  revoke.pc = "iterate" =>
    revoke.index <= revoke.size + 1 /\ revoke.size <= Len(tracked[revoke.package])

RInv == TrackedCreated /\ IteratorWithin /\ RevokedStayRemoved

\* A step appends at most one record to a package's list, a created one, unless
\* it drops the list.
LEMMA TrackedSteps ==
  ASSUME IInv, [Next]_vars
  PROVE  \/ tracked' = tracked
         \/ /\ UNCHANGED revoke
            /\ \E p \in Packages, t \in Tokens :
                 (Created(t))' /\ tracked' = [tracked EXCEPT ![p] = Append(@, t)]
         \/ RevokeDrop
<1>1. ASSUME NEW c \in Clients, NEW k \in Keys, NEW v \in Versions, NEW d \in BOOLEAN,
             BindNew(c, k, v, d)
      PROVE  /\ UNCHANGED revoke
             /\ \E p \in Packages, t \in Tokens :
                  (Created(t))' /\ tracked' = [tracked EXCEPT ![p] = Append(@, t)]
  <2>1. PICK t \in Tokens : t = FreshToken
    BY <1>1, FreshTokenIsFree DEF BindNew
  <2>2. rec'[t] = WithCallback(NewRecord(k, v, d), c)
    BY <1>1, <2>1 DEF BindNew
  <2>3. (Created(t))'
    BY <2>2 DEF WithCallback, NewRecord, Created
  <2>4. tracked' = [tracked EXCEPT ![PackageOf[k]] = Append(@, t)] /\ UNCHANGED revoke
    BY <1>1, <2>1 DEF BindNew
  <2>5. PackageOf[k] \in Packages
    BY KeysAssumption
  <2> QED BY <2>3, <2>4, <2>5
<1>2. CASE ClientCall
  BY <1>1, <1>2 DEF ClientCall, Bind, BindExisting, Peek, Unbind
<1>3. CASE Process
  BY <1>3 DEF Process, StartUserService, SendBinder, AttachUserService, ServiceProcessDies
<1>4. CASE Retire
  BY <1>4 DEF Retire, ServiceBinderDied, StartTimeout, CallbackDied, RemoveSelf, ApkRemoved,
     ApkUpgradedStop, ApkUpgradedStart
<1>5. CASE Revoke
  BY <1>5 DEF Revoke, RevokeStart, RevokeRecord, RevokeFails, RevokeLoopDone
<1>6. CASE \E c \in Clients, calling \in BOOLEAN : ClientDies(c, calling)
  BY <1>6 DEF ClientDies
<1>7. CASE UNCHANGED vars
  BY <1>7 DEF vars
<1> QED BY <1>2, <1>3, <1>4, <1>5, <1>6, <1>7 DEF Next
\* The thread of a revocation goes on by itself: other steps leave it alone.
LEMMA RevokeSteps ==
  ASSUME [Next]_vars
  PROVE  \/ UNCHANGED revoke
         \/ \E p \in Packages : RevokeStart(p)
         \/ RevokeRecord
         \/ revoke'.pc # "iterate"
<1>1. CASE ClientCall
  BY <1>1 DEF ClientCall, Bind, BindExisting, BindNew, Peek, Unbind
<1>2. CASE Process
  BY <1>2 DEF Process, StartUserService, SendBinder, AttachUserService, ServiceProcessDies
<1>3. CASE Retire
  BY <1>3 DEF Retire, ServiceBinderDied, StartTimeout, CallbackDied, RemoveSelf, ApkRemoved,
     ApkUpgradedStop, ApkUpgradedStart
<1>4. RevokeFails \/ RevokeDrop => revoke'.pc # "iterate"
  BY DEF RevokeFails, RevokeDrop, RevokeIdle
<1>5. RevokeLoopDone => UNCHANGED revoke \/ revoke'.pc # "iterate"
  BY DEF RevokeLoopDone
<1>6. CASE \E c \in Clients, calling \in BOOLEAN : ClientDies(c, calling)
  BY <1>6 DEF ClientDies
<1>7. CASE UNCHANGED vars
  BY <1>7 DEF vars
<1> QED BY <1>1, <1>2, <1>3, <1>4, <1>5, <1>6, <1>7 DEF Next, Revoke

\* The records the iterator has passed stay behind it, whatever the list becomes.
LEMMA RevokedStep == IInv /\ [Next]_vars /\ RInv => RInv'
<1> SUFFICES ASSUME IInv, [Next]_vars, RInv PROVE RInv'
  OBVIOUS
<1>1. \A t \in Tokens : Created(t) => (Created(t))' /\ (~Registered(t) => ~(Registered(t))')
  BY CoverSteps, NoRevival
<1>2. /\ tracked \in [Packages -> Seq(Tokens)]
      /\ revoke \in [pc : {"idle"}, calls : Nat] \cup
                    [pc : {"iterate", "drop"}, calls : Nat, package : Packages,
                     index : Nat \ {0}, size : Nat]
  BY OtherTypes
<1>3. \A p \in Packages : \A i \in 1 .. Len(tracked[p]) :
        tracked[p][i] \in Tokens /\ Created(tracked[p][i])
  BY <1>2 DEF RInv, TrackedCreated
<1>4. \A p \in Packages : \A i \in 1 .. Len(tracked'[p]) :
        \/ i \in 1 .. Len(tracked[p]) /\ tracked'[p][i] = tracked[p][i]
        \/ \E t \in Tokens : tracked'[p][i] = t /\ (Created(t))'
  <2>1. CASE tracked' = tracked
    BY <2>1
  <2>2. ASSUME NEW q \in Packages, NEW t \in Tokens, (Created(t))',
               tracked' = [tracked EXCEPT ![q] = Append(@, t)]
        PROVE  \A p \in Packages : \A i \in 1 .. Len(tracked'[p]) :
                 \/ i \in 1 .. Len(tracked[p]) /\ tracked'[p][i] = tracked[p][i]
                 \/ tracked'[p][i] = t
    BY <1>2, <2>2
  <2>3. CASE RevokeDrop
    BY <1>2, <2>3 DEF RevokeDrop
  <2> QED BY <2>1, <2>2, <2>3, TrackedSteps
<1>5. TrackedCreated'
  <2> SUFFICES ASSUME NEW p \in Packages, NEW i \in 1 .. Len(tracked'[p])
               PROVE  rec'[tracked'[p][i]].proc # "absent"
    BY DEF TrackedCreated, Created
  <2> QED BY <1>1, <1>3, <1>4 DEF Created
<1>6. ASSUME NEW p \in Packages, RevokeStart(p)
      PROVE  (IteratorWithin /\ RevokedStayRemoved)'
  <2>1. /\ revoke'.index = 1 /\ revoke'.size = Len(tracked[p]) /\ revoke'.package = p
        /\ tracked' = tracked
    BY <1>6 DEF RevokeStart
  <2>2. Len(tracked[p]) \in Nat
    BY <1>2
  <2>3. IteratorWithin'
    BY <2>1, <2>2 DEF IteratorWithin
  <2>4. RevokedStayRemoved'
    BY <2>1 DEF RevokedStayRemoved
  <2> QED BY <2>3, <2>4
<1>7. CASE RevokeRecord
  <2> DEFINE p == revoke.package
             n == revoke.index
  <2>1. /\ p \in Packages /\ n \in 1 .. Len(tracked[p]) /\ n <= revoke.size
        /\ revoke.size = Len(tracked[p]) /\ tracked' = tracked /\ revoke.pc = "iterate"
        /\ revoke' = [revoke EXCEPT !.index = n + 1]
        /\ RemoveLocked(tracked[p][n]) /\ tracked[p][n] \in Tokens
    BY <1>7, IteratedToken DEF RevokeRecord
  <2>2. revoke'.index = n + 1 /\ revoke'.size = revoke.size /\ revoke'.package = p
    BY <1>2, <2>1
  <2>3. IteratorWithin'
    BY <2>1, <2>2 DEF IteratorWithin
  <2>4. RevokedStayRemoved'
    <3> SUFFICES ASSUME NEW i \in 1 .. Len(tracked[p]), i < n + 1, NEW t, t = tracked[p][i]
                 PROVE  ~(Registered(t))'
      BY <2>1, <2>2 DEF RevokedStayRemoved, Registered, Created
    <3>1. t \in Tokens /\ Created(t)
      BY <1>3, <2>1
    <3>2. CASE i = n
      BY <2>1, <3>1, <3>2, RemoveLockedEffect
    <3>3. CASE i # n
      <4>1. ~Registered(t)
        BY <2>1, <3>3 DEF RInv, RevokedStayRemoved
      <4> QED BY <1>1, <3>1, <4>1
    <3> QED BY <3>2, <3>3
  <2> QED BY <1>5, <2>3, <2>4 DEF RInv
<1>8. ASSUME revoke' = revoke, revoke.pc = "iterate"
      PROVE  (IteratorWithin /\ RevokedStayRemoved)'
  <2> DEFINE p == revoke.package
  <2>1. p \in Packages /\ revoke.size \in Nat /\ revoke.index \in Nat
    BY <1>2, <1>8
  <2>2. ~RevokeDrop
    BY <1>8 DEF RevokeDrop
  <2>3. /\ Len(tracked'[p]) >= Len(tracked[p])
        /\ \A i \in 1 .. Len(tracked[p]) : tracked'[p][i] = tracked[p][i]
    <3>1. CASE tracked' = tracked
      BY <1>2, <2>1, <3>1
    <3>2. ASSUME NEW q \in Packages, NEW t \in Tokens,
                 tracked' = [tracked EXCEPT ![q] = Append(@, t)]
          PROVE  /\ Len(tracked'[p]) >= Len(tracked[p])
                 /\ \A i \in 1 .. Len(tracked[p]) : tracked'[p][i] = tracked[p][i]
      BY <1>2, <2>1, <3>2
    <3> QED BY <2>2, <3>1, <3>2, TrackedSteps
  <2>4. Len(tracked[p]) \in Nat /\ Len(tracked'[p]) \in Nat
    <3>1. IInv'
      BY NextIInv
    <3>2. tracked' \in [Packages -> Seq(Tokens)]
      BY <3>1 DEF IInv, TypeOK
    <3> QED BY <1>2, <2>1, <3>2
  <2>5. revoke.index <= revoke.size + 1 /\ revoke.size <= Len(tracked[p])
    BY <1>8 DEF RInv, IteratorWithin
  <2>6. IteratorWithin'
    BY <1>8, <2>1, <2>3, <2>4, <2>5 DEF IteratorWithin
  <2>7. RevokedStayRemoved'
    <3> SUFFICES ASSUME NEW i \in 1 .. Len(tracked'[p]), i < revoke.index,
                        NEW t, t = tracked'[p][i]
                 PROVE  ~(Registered(t))'
      BY <1>8 DEF RevokedStayRemoved, Registered, Created
    <3>1. i \in 1 .. Len(tracked[p])
      BY <2>1, <2>4, <2>5
    <3>2. t = tracked[p][i]
      BY <2>3, <3>1
    <3>3. t \in Tokens /\ Created(t)
      BY <1>3, <2>1, <3>1, <3>2
    <3>4. ~Registered(t)
      BY <1>8, <3>1, <3>2 DEF RInv, RevokedStayRemoved
    <3> QED BY <1>1, <3>3, <3>4
  <2> QED BY <2>6, <2>7
<1>9. revoke'.pc # "iterate" => (IteratorWithin /\ RevokedStayRemoved)'
  BY DEF IteratorWithin, RevokedStayRemoved
<1> QED BY <1>5, <1>6, <1>7, <1>8, <1>9, RevokeSteps DEF RInv

\* No record that a revocation has passed comes back while it runs, although the
\* list it walks is filled without its lock.
THEOREM RevokedGone == Spec => []RevokedStayRemoved
<1>1. Init => RInv
  <2> SUFFICES ASSUME Init PROVE RInv
    OBVIOUS
  <2>1. \A p \in Packages : Len(tracked[p]) = 0
    BY DEF Init
  <2>2. revoke.pc # "iterate"
    BY DEF Init
  <2> QED BY <2>1, <2>2 DEF RInv, TrackedCreated, IteratorWithin, RevokedStayRemoved
<1>2. RInv => RevokedStayRemoved
  BY DEF RInv
<1> QED BY <1>1, <1>2, Invariance, RevokedStep, PTL DEF Spec
=============================================================================
