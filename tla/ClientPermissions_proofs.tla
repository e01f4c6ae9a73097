---------------------- MODULE ClientPermissions_proofs ----------------------
(* Theorems about ClientPermissions, for every set of uids, processes, attach *)
(* calls and calls of the manager, whatever their steps interleave with.      *)
EXTENDS ClientPermissions, TLAPS

\* A running writer holds the configuration unless an update asked for another run.
WriterCurrent == write = "running" => writing = cfg

\* A call in progress that is to last, and what it decides.
ForGood(c) == call[c].pc \in Steps /\ call[c].kind # "onetime"
Allows(c)  == call[c].to = "allowed"

\* What each step of a call relies on of the one before: that it holds still, unless a
\* call of the other direction came between.
CallStep(c) ==
  /\ call[c].pc = "config" =>
       /\ call[c].kind = "flags" /\ call[c].todo = {}
       /\ call[c].opposed \/ (runtime[call[c].uid] <=> (call[c].uid \in declaring /\ Allows(c)))
  /\ call[c].pc = "runtime" =>
       /\ call[c].kind = "confirm" /\ call[c].todo = {} /\ Allows(c)
       /\ call[c].opposed \/ cfg[call[c].uid].flags = "allowed"
CallSteps == \A c \in Calls : CallStep(c)

\* The calls beside one that is not opposed decide as it does.
OneDirection ==
  \A c, d \in Calls :
    (ForGood(c) /\ ForGood(d) /\ call[c].uid = call[d].uid /\ ~call[c].opposed)
      => (Allows(c) <=> Allows(d))

\* The configuration, the runtime permission and the calls in progress agree with
\* what stands.
RefusalStands(u) ==
  /\ cfg[u].flags # "allowed"
  /\ ~runtime[u]
  /\ \A c \in Calls : ForGood(c) /\ call[c].uid = u => ~Allows(c)
GrantStands(u) ==
  /\ cfg[u].flags = "allowed"
  /\ u \in declaring => runtime[u]
  /\ \A c \in Calls : ForGood(c) /\ call[c].uid = u => Allows(c)
Standing == (\A u \in barred : RefusalStands(u)) /\ (\A u \in granted : GrantStands(u))

IInv == /\ TypeOK /\ UnsavedIsScheduled /\ WriterCurrent
        /\ CallSteps /\ OneDirection /\ Standing

Made1 == [state : AttachStates, pid : Pids, allowed : BOOLEAN, notified : BOOLEAN, apart : BOOLEAN]
AttachRecord == [state : {"none", "gone"}] \cup Made1
Making == [pc : Steps, kind : {"confirm", "onetime", "flags"}, uid : Uids, to : Flags,
           todo : SUBSET Attaches, names : BOOLEAN, opposed : BOOLEAN]
CallRecord == {Idle, Done} \cup Making

-----------------------------------------------------------------------------
\* What the constructor builds is a configuration.
LEMMA LoadedType ==
  ASSUME NEW f \in Configs, NEW rt \in [Uids -> BOOLEAN]
  PROVE  Loaded(f, rt) \in Configs
  BY DEF Loaded, Configs, Entries, Entry, NoEntry, Flags

\* The constructor gives a declaring uid what its runtime permission says.
LEMMA LoadedDeclaring ==
  ASSUME NEW f \in Configs, NEW rt \in [Uids -> BOOLEAN], NEW u \in Uids, u \in declaring
  PROVE  Loaded(f, rt)[u].flags = "allowed" <=> rt[u]
  BY DEF Loaded

\* The constructor gives any other uid no more than the file does, and keeps its entry
\* when it lists a package.
LEMMA LoadedOther ==
  ASSUME NEW f \in Configs, NEW rt \in [Uids -> BOOLEAN], NEW u \in Uids, u \notin declaring
  PROVE  /\ f[u].flags # "allowed" => Loaded(f, rt)[u].flags # "allowed"
         /\ f[u] # NoEntry /\ f[u].named => Loaded(f, rt)[u] = f[u]
  BY DEF Loaded, NoEntry

\* A constructor that schedules no write has built what the file holds.
LEMMA LoadedSaved ==
  ASSUME NEW f \in Configs, NEW rt \in [Uids -> BOOLEAN], ~LoadSchedules(f)
  PROVE  Loaded(f, rt) = f
  BY DEF Loaded, LoadSchedules, Configs

\* An update leaves a configuration, with the flags asked for.
LEMMA UpdatedEntry ==
  ASSUME NEW e \in Entries, NEW flags \in Flags, NEW names \in BOOLEAN
  PROVE  /\ Updated(e, flags, names) \in Entries
         /\ Updated(e, flags, names).flags = flags
  BY DEF Updated, Entries, Entry, NoEntry

\* An update writes one uid's entry and never leaves a change unscheduled.
LEMMA UpdateStep ==
  ASSUME TypeOK, UnsavedIsScheduled, WriterCurrent,
         NEW u \in Uids, NEW flags \in Flags, NEW names \in BOOLEAN,
         Update(u, flags, names), UNCHANGED <<file, writing>>
  PROVE  /\ cfg' \in Configs
         /\ cfg'[u].flags = flags
         /\ \A v \in Uids \ {u} : cfg'[v] = cfg[v]
         /\ write' \in {"none", "failed", "posted", "running", "rerun"}
         /\ UnsavedIsScheduled'
         /\ WriterCurrent'
<1>0. cfg \in [Uids -> Entries] /\ cfg[u] \in Entries
  BY DEF TypeOK, Configs
<1>1. /\ Updated(cfg[u], flags, names) \in Entries
      /\ Updated(cfg[u], flags, names).flags = flags
  BY <1>0, UpdatedEntry
<1>2. cfg' = [cfg EXCEPT ![u] = Updated(cfg[u], flags, names)]
  BY DEF Update
<1>3. /\ cfg' \in Configs
      /\ cfg'[u].flags = flags
      /\ \A v \in Uids \ {u} : cfg'[v] = cfg[v]
  BY <1>0, <1>1, <1>2 DEF Configs
<1>4. write' \in {"none", "failed", "posted", "running", "rerun"}
  BY DEF Update, Scheduled, TypeOK
<1>5. CASE cfg[u] # NoEntry /\ cfg[u].flags = flags
  <2>1. cfg' = cfg
    BY <1>0, <1>2, <1>5 DEF Updated
  <2>2. write' = write
    BY <1>5 DEF Update
  <2> QED BY <2>1, <2>2, <1>3, <1>4 DEF UnsavedIsScheduled, WriterCurrent
<1>6. CASE ~(cfg[u] # NoEntry /\ cfg[u].flags = flags)
  <2>1. write' \in {"posted", "rerun"}
    BY <1>6 DEF Update, Scheduled
  <2> QED BY <2>1, <1>3, <1>4 DEF UnsavedIsScheduled, WriterCurrent
<1> QED BY <1>5, <1>6

-----------------------------------------------------------------------------
\* A call in progress has all its fields.
LEMMA MakingCall ==
  ASSUME TypeOK, NEW c \in Calls, call[c].pc \in Steps
  PROVE  call[c] \in Making /\ call[c] # Idle /\ call[c] # Done
  BY DEF TypeOK, Steps, Idle, Done, Making

\* Initial states satisfy the invariant.
LEMMA InitIInv == Init => IInv
<1> SUFFICES ASSUME Init PROVE IInv
  OBVIOUS
<1>1. Empty \in Configs
  BY DEF Empty, Configs, Entries
<1>2. file \in Configs /\ runtime \in [Uids -> BOOLEAN] /\ declaring \subseteq Uids
      /\ cfg = Loaded(file, runtime) /\ \A u \in Uids : runtime[u] => u \in declaring
  BY <1>1 DEF Init
<1>3. cfg \in Configs
  BY <1>2, LoadedType
<1>4. TypeOK
  <2>1. attach \in [Attaches -> AttachRecord]
    BY DEF Init, AttachRecord
  <2>2. write \in {"none", "failed", "posted", "running", "rerun"} /\ proc \in [Pids -> BOOLEAN]
        /\ prompts \in SUBSET Pids /\ granted \subseteq Uids /\ barred \subseteq Uids
    BY DEF Init
  <2>3. call \in [Calls -> CallRecord] /\ writing \in Configs
    BY <1>1 DEF Init, CallRecord
  <2> QED BY <1>2, <1>3, <2>1, <2>2, <2>3 DEF TypeOK, AttachRecord, Made1, CallRecord, Making
<1>5. UnsavedIsScheduled
  BY <1>2, LoadedSaved DEF Init, UnsavedIsScheduled
<1>6. WriterCurrent
  BY DEF Init, WriterCurrent
<1>7. \A c \in Calls : call[c].pc = "idle"
  BY DEF Init, Idle
<1>8. CallSteps /\ OneDirection
  BY <1>7 DEF CallSteps, CallStep, OneDirection, ForGood, Steps
<1>9. Standing
  <2>1. ASSUME NEW u \in Uids PROVE cfg[u].flags = "allowed" <=> runtime[u]
    <3>1. CASE u \in declaring
      BY <1>2, <3>1, LoadedDeclaring
    <3>2. CASE u \notin declaring
      <4>1. file[u].flags # "allowed"
        BY DEF Init, Empty, NoEntry
      <4> QED BY <1>2, <3>2, <4>1, LoadedOther
    <3> QED BY <3>1, <3>2
  <2>2. barred = {u \in Uids : ~runtime[u]} /\ granted = {u \in Uids : runtime[u]}
    BY DEF Init
  <2> QED BY <1>7, <2>1, <2>2 DEF Standing, RefusalStands, GrantStands, ForGood, Steps
<1> QED BY <1>4, <1>5, <1>6, <1>8, <1>9 DEF IInv

-----------------------------------------------------------------------------
\* Client records, processes and dialogs can change without touching a decision.
LEMMA ClientsOnly ==
  ASSUME IInv, UNCHANGED <<configVars, systemVars, call, historyVars>>,
         attach' \in [Attaches -> AttachRecord], proc' \in [Pids -> BOOLEAN], prompts' \in SUBSET Pids
  PROVE  IInv'
<1> USE DEF configVars, systemVars, historyVars
<1>1. TypeOK'
  BY DEF IInv, TypeOK, AttachRecord, Made1
<1>2. UnsavedIsScheduled' /\ WriterCurrent'
  BY DEF IInv, UnsavedIsScheduled, WriterCurrent
<1>3. CallSteps' /\ OneDirection'
  BY DEF IInv, CallSteps, CallStep, OneDirection, ForGood, Allows
<1>4. Standing'
  BY DEF IInv, Standing, RefusalStands, GrantStands, ForGood, Allows
<1> QED BY <1>1, <1>2, <1>3, <1>4 DEF IInv

\* A record past its first state has all its fields.
LEMMA MadeRecord ==
  ASSUME TypeOK, NEW a \in Attaches, attach[a].state \notin {"none", "gone"}
  PROVE  attach[a] \in Made1 /\ UidOf[attach[a].pid] \in Uids
<1>1. attach[a] \in AttachRecord
  BY DEF TypeOK, AttachRecord, Made1
<1>2. attach[a] \in Made1
  BY <1>1 DEF AttachRecord
<1> QED BY <1>2, UidOfAssumption DEF Made1

\* The actions that touch client records and dialogs alone.
LEMMA ClientStep ==
  ASSUME IInv, NEW a \in Attaches,
         \/ \E p \in Pids : AttachFind(a, p)
         \/ AddClientRead(a) \/ AddClientLink(a) \/ AddClientList(a)
         \/ ClientDied(a) \/ RequestPermission(a)
  PROVE  IInv'
<1>0. attach[a] \in AttachRecord /\ attach \in [Attaches -> AttachRecord]
      /\ proc \in [Pids -> BOOLEAN] /\ prompts \in SUBSET Pids /\ TypeOK
  BY DEF IInv, TypeOK, AttachRecord, Made1
<1>1. CASE \E p \in Pids : AttachFind(a, p)
  <2>1. attach' \in [Attaches -> AttachRecord]
    BY <1>0, <1>1 DEF AttachFind, AttachRecord, AttachStates, Made1
  <2> QED BY <1>0, <1>1, <2>1, ClientsOnly DEF AttachFind, appVars
<1>2. CASE AddClientRead(a)
  <2>1. attach[a] \in Made1
    BY <1>0, <1>2, MadeRecord DEF AddClientRead
  <2>2. attach' \in [Attaches -> AttachRecord]
    BY <1>0, <1>2, <2>1 DEF AddClientRead, AttachRecord, AttachStates, Made1
  <2> QED BY <1>0, <1>2, <2>2, ClientsOnly DEF AddClientRead, appVars
<1>3. CASE AddClientLink(a)
  <2>1. attach[a] \in Made1
    BY <1>0, <1>3, MadeRecord DEF AddClientLink
  <2>2. attach' \in [Attaches -> AttachRecord]
    BY <1>0, <1>3, <2>1 DEF AddClientLink, AttachRecord, AttachStates, Made1, Gone
  <2> QED BY <1>0, <1>3, <2>2, ClientsOnly DEF AddClientLink, appVars
<1>4. CASE AddClientList(a)
  <2>1. attach[a] \in Made1
    BY <1>0, <1>4, MadeRecord DEF AddClientList
  <2>2. attach' \in [Attaches -> AttachRecord]
    BY <1>0, <1>4, <2>1 DEF AddClientList, AttachRecord, AttachStates, Made1
  <2> QED BY <1>0, <1>4, <2>2, ClientsOnly DEF AddClientList, appVars
<1>5. CASE ClientDied(a)
  <2>1. attach[a] \in Made1
    BY <1>0, <1>5, MadeRecord DEF ClientDied
  <2>2. attach' \in [Attaches -> AttachRecord]
    BY <1>0, <1>5, <2>1 DEF ClientDied, AttachRecord, AttachStates, Made1, Gone
  <2> QED BY <1>0, <1>5, <2>2, ClientsOnly DEF ClientDied, appVars
<1>6. CASE RequestPermission(a)
  <2>1. attach[a] \in Made1
    BY <1>0, <1>6, MadeRecord DEF RequestPermission
  <2>2. prompts' \in SUBSET Pids
    BY <1>0, <1>6, <2>1 DEF RequestPermission, Made1
  <2> QED BY <1>0, <1>6, <2>2, ClientsOnly DEF RequestPermission
<1> QED BY <1>1, <1>2, <1>3, <1>4, <1>5, <1>6

\* The writer moves the configuration to the file and changes no decision.
LEMMA WriteStep ==
  ASSUME IInv, NEW ok \in BOOLEAN, WriteBegin \/ WriteEnd(ok)
  PROVE  IInv'
<1>1. Empty \in Configs
  BY DEF Empty, Configs, Entries
<1>2. TypeOK /\ UNCHANGED <<cfg, systemVars, attach, appVars, call, historyVars>>
  BY DEF IInv, WriteBegin, WriteEnd
<1>3. TypeOK'
  <2>1. write' \in {"none", "failed", "posted", "running", "rerun"} /\ writing' \in Configs /\ file' \in Configs
    BY <1>1, <1>2 DEF WriteBegin, WriteEnd, TypeOK
  <2> QED BY <1>2, <2>1 DEF TypeOK, systemVars, appVars, historyVars
<1>4. UnsavedIsScheduled' /\ WriterCurrent'
  BY DEF IInv, WriteBegin, WriteEnd, UnsavedIsScheduled, WriterCurrent, TypeOK
<1>5. CallSteps' /\ OneDirection'
  BY <1>2 DEF IInv, CallSteps, CallStep, OneDirection, ForGood, Allows, systemVars
<1>6. Standing'
  BY <1>2 DEF IInv, Standing, RefusalStands, GrantStands, ForGood, Allows, systemVars, historyVars
<1> QED BY <1>3, <1>4, <1>5, <1>6 DEF IInv

-----------------------------------------------------------------------------
\* A call takes the next step towards its end: its records, or its last place.
LEMMA CallType ==
  ASSUME TypeOK, NEW c \in Calls, call[c].pc \in Steps,
         \/ call' = [call EXCEPT ![c] = Done]
         \/ \E a \in Attaches : call' = [call EXCEPT ![c].todo = @ \ {a}]
         \/ \E pc \in Steps : call' = [call EXCEPT ![c].pc = pc]
  PROVE  call' \in [Calls -> CallRecord]
<1>1. call \in [Calls -> CallRecord] /\ call[c] \in Making
  BY MakingCall DEF TypeOK, CallRecord, Making
<1> QED BY <1>1 DEF CallRecord, Making

\* The write of a record keeps it a record, and every other one as it is.
LEMMA WrittenType ==
  ASSUME TypeOK, NEW c \in Calls, call[c].pc \in Steps, NEW a \in Attaches
  PROVE  Written(c, a) \in [Attaches -> AttachRecord]
<1>1. attach \in [Attaches -> AttachRecord]
  BY DEF TypeOK, AttachRecord, Made1
<1>2. CASE attach[a].state # "listed"
  BY <1>1, <1>2 DEF Written
<1>3. CASE attach[a].state = "listed"
  <2>1. attach[a] \in Made1
    BY <1>3, MadeRecord
  <2>2. call[c] \in Making
    BY MakingCall
  <2> QED BY <1>1, <1>3, <2>1, <2>2 DEF Written, AttachRecord, Made1, Making
<1> QED BY <1>2, <1>3

\* A step of a call that writes a record, or that ends it before it wrote another
\* place, changes nothing that stands.
LEMMA RecordStep ==
  ASSUME IInv, NEW c \in Calls, call[c].pc = "records",
         UNCHANGED <<configVars, systemVars, historyVars>>,
         attach' \in [Attaches -> AttachRecord], proc' \in [Pids -> BOOLEAN], prompts' \in SUBSET Pids,
         \/ call' = [call EXCEPT ![c] = Done]
         \/ \E a \in Attaches : call' = [call EXCEPT ![c].todo = @ \ {a}]
  PROVE  IInv'
<1> USE DEF configVars, systemVars, historyVars
<1>0. call \in [Calls -> CallRecord] /\ call[c] \in Making
  BY MakingCall DEF IInv, TypeOK, CallRecord, Making, Steps
<1>1. TypeOK'
  <2>1. call' \in [Calls -> CallRecord]
    BY CallType DEF IInv, Steps
  <2> QED BY <2>1 DEF IInv, TypeOK, AttachRecord, Made1, CallRecord, Making
<1>2. UnsavedIsScheduled' /\ WriterCurrent'
  BY DEF IInv, UnsavedIsScheduled, WriterCurrent
<1>3. \A d \in Calls \ {c} : call'[d] = call[d]
  BY <1>0
<1>4. \/ call'[c].pc = "done"
      \/ /\ call'[c].pc = "records" /\ call'[c].kind = call[c].kind /\ call'[c].uid = call[c].uid
         /\ call'[c].to = call[c].to /\ call'[c].opposed = call[c].opposed
  BY <1>0 DEF Done, Making
<1>5. CallSteps'
  BY <1>3, <1>4 DEF IInv, CallSteps, CallStep, Allows
<1>6. \A d \in Calls : (ForGood(d))' =>
        /\ ForGood(d) /\ call'[d].uid = call[d].uid /\ call'[d].opposed = call[d].opposed
        /\ (Allows(d))' = Allows(d)
  BY <1>3, <1>4 DEF ForGood, Allows, Steps
<1>7. OneDirection'
  BY <1>6 DEF IInv, OneDirection
<1>8. Standing'
  BY <1>6 DEF IInv, Standing, RefusalStands, GrantStands
<1> QED BY <1>1, <1>2, <1>5, <1>7, <1>8 DEF IInv

\* The steps of the calls that write records.
LEMMA RecordsStep ==
  ASSUME IInv, NEW c \in Calls,
         \/ \E a \in Attaches : ConfirmRecord(c, a) \/ SetFlagsRecord(c, a) \/ SetFlagsThrows(c, a)
         \/ ConfirmOnetime(c)
  PROVE  IInv'
<1>0. TypeOK /\ call[c].pc = "records" /\ call[c].pc \in Steps
  BY DEF IInv, ConfirmRecord, SetFlagsRecord, SetFlagsThrows, ConfirmOnetime, Steps
<1>1. proc \in [Pids -> BOOLEAN] /\ prompts \in SUBSET Pids /\ attach \in [Attaches -> AttachRecord]
      /\ \A u : ForceStopped(u) \in [Pids -> BOOLEAN]
  BY <1>0 DEF TypeOK, AttachRecord, Made1, ForceStopped
<1>2. ASSUME NEW a \in Attaches, ConfirmRecord(c, a) PROVE IInv'
  <2>1. attach' \in [Attaches -> AttachRecord]
    BY <1>0, <1>2, WrittenType DEF ConfirmRecord
  <2> QED BY <1>0, <1>1, <1>2, <2>1, RecordStep DEF ConfirmRecord, appVars
<1>3. ASSUME NEW a \in Attaches, SetFlagsRecord(c, a) PROVE IInv'
  <2>1. attach' \in [Attaches -> AttachRecord]
    BY <1>0, <1>3, WrittenType DEF SetFlagsRecord
  <2> QED BY <1>0, <1>1, <1>3, <2>1, RecordStep DEF SetFlagsRecord
<1>4. ASSUME NEW a \in Attaches, SetFlagsThrows(c, a) PROVE IInv'
  <2>1. Written(c, a) \in [Attaches -> AttachRecord]
    BY <1>0, WrittenType
  <2>2. ASSUME NEW b \in Listed(call[c].uid)
        PROVE  Written(c, a)[b] \in Made1
    <3>1. attach[b] \in Made1 /\ attach[b].state = "listed" /\ b \in Attaches
      BY <1>0, <2>2, MadeRecord DEF Listed, InState
    <3>2. call[c] \in Making
      BY <1>0, MakingCall
    <3> QED BY <1>1, <3>1, <3>2 DEF Written, Made1, Making
  <2>3. attach' \in [Attaches -> AttachRecord]
    <3>1. SUFFICES ASSUME NEW b \in Attaches PROVE attach'[b] \in AttachRecord
      BY <1>4 DEF SetFlagsThrows
    <3>2. CASE b \in Listed(call[c].uid) /\ (b = a \/ b \notin call[c].todo)
      <4>1. attach'[b] = [Written(c, a)[b] EXCEPT !.apart = TRUE]
        BY <1>4, <3>2 DEF SetFlagsThrows
      <4> QED BY <2>2, <3>2, <4>1 DEF AttachRecord, Made1
    <3>3. CASE ~(b \in Listed(call[c].uid) /\ (b = a \/ b \notin call[c].todo))
      <4>1. attach'[b] = Written(c, a)[b]
        BY <1>4, <3>3 DEF SetFlagsThrows
      <4> QED BY <2>1, <4>1
    <3> QED BY <3>2, <3>3
  <2> QED BY <1>0, <1>1, <1>4, <2>3, RecordStep DEF SetFlagsThrows
<1>5. CASE ConfirmOnetime(c)
  BY <1>0, <1>1, <1>5, RecordStep DEF ConfirmOnetime, appVars
<1> QED BY <1>2, <1>3, <1>4, <1>5

\* What a beginning call does to the calls: it joins them, and those it opposes know.
LEMMA BeginCalls ==
  ASSUME TypeOK, NEW c \in Calls, NEW kind \in {"confirm", "onetime", "flags"}, NEW u \in Uids,
         NEW to \in Flags, NEW names \in BOOLEAN, Begin(c, kind, u, to, names)
  PROVE  /\ call' \in [Calls -> CallRecord]
         /\ call'[c] = [pc |-> "records", kind |-> kind, uid |-> u, to |-> to, todo |-> Listed(u),
                        names |-> names, opposed |-> kind # "onetime" /\ Opposing(u, to) # {}]
         /\ \A d \in Calls \ {c} : kind = "onetime" \/ d \notin Opposing(u, to) => call'[d] = call[d]
         /\ \A d \in Calls \ {c} : d \in Opposing(u, to) /\ kind # "onetime"
              => ForGood(d) /\ call'[d] = [call[d] EXCEPT !.opposed = TRUE]
         /\ \A d \in Calls \ {c} :
              /\ call'[d].pc = call[d].pc
              /\ call[d].pc \in Steps =>
                   /\ call'[d].kind = call[d].kind /\ call'[d].uid = call[d].uid
                   /\ call'[d].to = call[d].to /\ call'[d].todo = call[d].todo
                   /\ ~call'[d].opposed => ~call[d].opposed
<1> DEFINE opposing == IF kind = "onetime" THEN {} ELSE Opposing(u, to)
           Joined(d) == IF d = c
                        THEN [pc |-> "records", kind |-> kind, uid |-> u, to |-> to, todo |-> Listed(u),
                              names |-> names, opposed |-> opposing # {}]
                        ELSE IF d \in opposing THEN [call[d] EXCEPT !.opposed = TRUE]
                        ELSE call[d]
<1>1. call' = [d \in Calls |-> Joined(d)]
  BY DEF Begin
<1>2. \A d \in Calls : d \in opposing => ForGood(d) /\ call[d] \in Making
  BY MakingCall DEF Opposing, Lasting, ForGood
<1>3. Listed(u) \in SUBSET Attaches
  BY DEF Listed, InState
<1>4. Joined(c) \in Making
  BY <1>3 DEF Making, Steps
<1>5. \A d \in Calls : call[d] \in CallRecord
  BY DEF TypeOK, CallRecord, Making
<1>6. \A d \in Calls \ {c} : Joined(d) \in CallRecord
  BY <1>2, <1>5 DEF CallRecord, Making
<1>7. \A d \in Calls \ {c} :
              /\ call'[d].pc = call[d].pc
              /\ call[d].pc \in Steps =>
                   /\ call'[d].kind = call[d].kind /\ call'[d].uid = call[d].uid
                   /\ call'[d].to = call[d].to /\ call'[d].todo = call[d].todo
                   /\ ~call'[d].opposed => ~call[d].opposed
  BY <1>1, <1>2 DEF Making
<1> QED BY <1>1, <1>2, <1>4, <1>6, <1>7 DEF CallRecord

\* A call that begins withdraws what goes against it before it writes anything.
LEMMA BeginStep ==
  ASSUME IInv, NEW c \in Calls, NEW kind \in {"confirm", "onetime", "flags"}, NEW u \in Uids,
         NEW to \in Flags, NEW names \in BOOLEAN, Begin(c, kind, u, to, names),
         UNCHANGED <<configVars, systemVars, proc>>, prompts' \in SUBSET Pids
  PROVE  IInv'
<1> USE DEF configVars, systemVars
<1>0. TypeOK /\ call[c].pc = "idle"
  BY DEF IInv, Begin, Idle
<1>1. /\ call' \in [Calls -> CallRecord]
      /\ call'[c] = [pc |-> "records", kind |-> kind, uid |-> u, to |-> to, todo |-> Listed(u),
                     names |-> names, opposed |-> kind # "onetime" /\ Opposing(u, to) # {}]
      /\ \A d \in Calls \ {c} : d \notin Opposing(u, to) => call'[d] = call[d]
      /\ \A d \in Calls \ {c} : d \in Opposing(u, to) /\ kind # "onetime"
           => ForGood(d) /\ call'[d] = [call[d] EXCEPT !.opposed = TRUE]
      /\ \A d \in Calls \ {c} :
           /\ call'[d].pc = call[d].pc
           /\ call[d].pc \in Steps =>
                /\ call'[d].kind = call[d].kind /\ call'[d].uid = call[d].uid
                /\ call'[d].to = call[d].to /\ call'[d].todo = call[d].todo
                /\ ~call'[d].opposed => ~call[d].opposed
  BY <1>0, BeginCalls
<1>2. attach' \in [Attaches -> AttachRecord]
  <2>1. ASSUME NEW a \in Attaches PROVE attach'[a] \in AttachRecord
    <3>1. attach[a] \in AttachRecord /\ (a \in Made(u) => attach[a] \in Made1)
      BY <1>0, MadeRecord DEF TypeOK, AttachRecord, Made1, Made, InState
    <3>2. attach'[a] = attach[a] \/ (a \in Made(u) /\ attach'[a] = [attach[a] EXCEPT !.apart = TRUE])
      BY DEF Begin, SetApart
    <3> QED BY <3>1, <3>2 DEF AttachRecord, Made1
  <2> QED BY <2>1 DEF Begin, SetApart
<1>3. granted' \subseteq granted /\ barred' \subseteq barred
      /\ (kind # "onetime" /\ to # "allowed" => u \notin granted')
      /\ (kind # "onetime" /\ to = "allowed" => u \notin barred')
  BY DEF Begin
<1>4. TypeOK'
  BY <1>0, <1>1, <1>2, <1>3 DEF TypeOK, AttachRecord, Made1, CallRecord, Making
<1>5. UnsavedIsScheduled' /\ WriterCurrent'
  BY DEF IInv, UnsavedIsScheduled, WriterCurrent
<1>6. CallSteps'
  <2>1. ASSUME NEW d \in Calls \ {c}, call'[d].pc \in {"config", "runtime"}
        PROVE  /\ call[d].pc = call'[d].pc /\ call'[d].kind = call[d].kind
               /\ call'[d].uid = call[d].uid /\ call'[d].to = call[d].to
               /\ call'[d].todo = call[d].todo /\ (~call'[d].opposed => ~call[d].opposed)
    BY <1>1, <2>1 DEF Steps
  <2>2. call'[c].pc = "records"
    BY <1>1
  <2> QED BY <2>1, <2>2 DEF IInv, CallSteps, CallStep, Allows
<1>7. ASSUME NEW d \in Calls \ {c}, (ForGood(d))'
      PROVE  /\ ForGood(d) /\ call'[d].uid = call[d].uid /\ (Allows(d))' = Allows(d)
             /\ ~call'[d].opposed => ~call[d].opposed
  BY <1>1, <1>7 DEF ForGood, Allows
<1>8. (ForGood(c))' => kind # "onetime" /\ call'[c].uid = u /\ ((Allows(c))' <=> to = "allowed")
                       /\ (~call'[c].opposed => Opposing(u, to) = {})
  <2> DEFINE met == kind # "onetime" /\ Opposing(u, to) # {}
  <2>1. met \in BOOLEAN
    OBVIOUS
  <2>2. call'[c] = [pc |-> "records", kind |-> kind, uid |-> u, to |-> to, todo |-> Listed(u),
                    names |-> names, opposed |-> met]
    BY <1>1
  <2>3. ~met /\ kind # "onetime" => Opposing(u, to) = {}
    OBVIOUS
  <2> HIDE DEF met
  <2>4. call'[c].kind = kind /\ call'[c].uid = u /\ call'[c].to = to /\ call'[c].opposed = met
    BY <2>2
  <2> QED BY <2>1, <2>3, <2>4 DEF ForGood, Allows
<1>9. ASSUME NEW d \in Calls \ {c}, (ForGood(d))', (ForGood(c))', call[d].uid = u,
             ~call'[c].opposed \/ ~call'[d].opposed
      PROVE  Allows(d) <=> to = "allowed"
  <2>1. SUFFICES ASSUME ~(Allows(d) <=> to = "allowed") PROVE FALSE
    OBVIOUS
  <2>2. d \in Opposing(u, to) /\ kind # "onetime"
    BY <1>7, <1>8, <1>9, <2>1 DEF Opposing, Lasting, ForGood, Allows
  <2>3. call[d] \in Making
    BY <1>0, <1>7, <1>9, MakingCall DEF ForGood
  <2>4. call'[d].opposed
    BY <1>1, <2>2, <2>3 DEF Making
  <2> QED BY <1>8, <1>9, <2>2, <2>4
<1>10. OneDirection'
  <2>1. SUFFICES ASSUME NEW d \in Calls, NEW e \in Calls, (ForGood(d))', (ForGood(e))',
                        call'[d].uid = call'[e].uid, ~call'[d].opposed
                 PROVE  (Allows(d))' <=> (Allows(e))'
    BY DEF OneDirection
  <2>2. CASE d = c /\ e = c
    BY <2>2
  <2>3. CASE d = c /\ e # c
    <3>1. call[e].uid = u
      BY <1>7, <1>8, <2>1, <2>3
    <3> QED BY <1>7, <1>8, <1>9, <2>1, <2>3, <3>1
  <2>4. CASE d # c /\ e = c
    <3>1. call[d].uid = u
      BY <1>7, <1>8, <2>1, <2>4
    <3> QED BY <1>7, <1>8, <1>9, <2>1, <2>4, <3>1
  <2>5. CASE d # c /\ e # c
    BY <1>7, <2>1, <2>5 DEF IInv, OneDirection
  <2> QED BY <2>2, <2>3, <2>4, <2>5
<1>11. Standing'
  <2>1. ASSUME NEW v \in barred' PROVE RefusalStands(v)'
    <3>1. v \in barred /\ (to = "allowed" => kind = "onetime" \/ v # u)
      BY <1>3, <2>1
    <3>2. RefusalStands(v)
      BY <3>1 DEF IInv, Standing
    <3>3. ASSUME NEW d \in Calls, (ForGood(d))', call'[d].uid = v
          PROVE  ~(Allows(d))'
      BY <1>7, <1>8, <3>1, <3>2, <3>3 DEF RefusalStands
    <3> QED BY <3>2, <3>3 DEF RefusalStands
  <2>2. ASSUME NEW v \in granted' PROVE GrantStands(v)'
    <3>1. v \in granted /\ (to # "allowed" => kind = "onetime" \/ v # u)
      BY <1>3, <2>2
    <3>2. GrantStands(v)
      BY <3>1 DEF IInv, Standing
    <3>3. ASSUME NEW d \in Calls, (ForGood(d))', call'[d].uid = v
          PROVE  (Allows(d))'
      BY <1>7, <1>8, <3>1, <3>2, <3>3 DEF GrantStands
    <3> QED BY <3>2, <3>3 DEF GrantStands
  <2> QED BY <2>1, <2>2 DEF Standing
<1> QED BY <1>4, <1>5, <1>6, <1>10, <1>11 DEF IInv

-----------------------------------------------------------------------------
\* A call writes one of its uid's places the way it decides: that suits the calls beside
\* it if none opposes them, and what stands.
LEMMA PlaceStep ==
  ASSUME IInv, NEW c \in Calls, NEW u \in Uids, ForGood(c), call[c].uid = u, declaring' = declaring,
         \A v \in Uids \ {u} : cfg'[v] = cfg[v] /\ runtime'[v] = runtime[v],
         cfg'[u] = cfg[u] \/ (cfg'[u].flags = "allowed" <=> Allows(c)),
         runtime'[u] = runtime[u] \/ (runtime'[u] <=> (u \in declaring /\ Allows(c))),
         \A d \in Calls \ {c} : call'[d] = call[d],
         \/ call'[c].pc = "done"
         \/ /\ call'[c].kind = call[c].kind /\ call'[c].uid = call[c].uid
            /\ call'[c].to = call[c].to /\ call'[c].opposed = call[c].opposed
  PROVE  /\ \A d \in Calls \ {c} : CallStep(d)'
         /\ OneDirection'
         /\ \A v \in barred : RefusalStands(v)'
         /\ \A v \in granted : GrantStands(v)'
<1>0. TypeOK /\ barred \subseteq Uids /\ granted \subseteq Uids
  BY DEF IInv, TypeOK
<1>1. ASSUME NEW d \in Calls \ {c} PROVE CallStep(d)'
  <2>1. CallStep(d) /\ call'[d] = call[d]
    BY DEF IInv, CallSteps
  <2>2. CASE call[d].pc \notin {"config", "runtime"}
    BY <2>1, <2>2 DEF CallStep
  <2>3. CASE call[d].pc \in {"config", "runtime"}
    <3>1. ForGood(d) /\ call[d].uid \in Uids
      <4>1. call[d] \in Making
        BY <1>0, <2>3, MakingCall DEF Steps
      <4> QED BY <2>1, <2>3, <4>1 DEF ForGood, CallStep, Steps, Making
    <3>2. call[d].uid = u /\ ~call[d].opposed => (Allows(d) <=> Allows(c))
      BY <3>1 DEF IInv, OneDirection
    <3> QED BY <2>1, <2>3, <3>1, <3>2 DEF CallStep, Allows
  <2> QED BY <2>2, <2>3
<1>2. ASSUME NEW d \in Calls, (ForGood(d))'
      PROVE  /\ ForGood(d) /\ call'[d].uid = call[d].uid /\ call'[d].opposed = call[d].opposed
             /\ (Allows(d))' = Allows(d)
  BY <1>2 DEF ForGood, Allows, Steps
<1>3. OneDirection'
  BY <1>2 DEF IInv, OneDirection
<1>4. ASSUME NEW v \in barred PROVE RefusalStands(v)'
  <2>1. RefusalStands(v) /\ v \in Uids
    BY <1>0 DEF IInv, Standing
  <2>2. v = u => ~Allows(c)
    BY <2>1 DEF RefusalStands
  <2> QED BY <1>2, <2>1, <2>2 DEF RefusalStands
<1>5. ASSUME NEW v \in granted PROVE GrantStands(v)'
  <2>1. GrantStands(v) /\ v \in Uids
    BY <1>0 DEF IInv, Standing
  <2>2. v = u => Allows(c)
    BY <2>1 DEF GrantStands
  <2> QED BY <1>2, <2>1, <2>2 DEF GrantStands
<1> QED BY <1>1, <1>3, <1>4, <1>5

\* A call that ends has written the places its decision rests on, if it met no opposition.
LEMMA SettledStep ==
  ASSUME IInv, NEW c \in Calls, NEW u \in Uids, ForGood(c), call[c].uid = u, declaring' = declaring,
         \A v \in Uids \ {u} : cfg'[v] = cfg[v] /\ runtime'[v] = runtime[v],
         cfg'[u] = cfg[u] \/ (cfg'[u].flags = "allowed" <=> Allows(c)),
         runtime'[u] = runtime[u] \/ (runtime'[u] <=> (u \in declaring /\ Allows(c))),
         Settled(c),
         ~call[c].opposed /\ Allows(c) => cfg'[u].flags = "allowed" /\ (u \in declaring => runtime'[u]),
         ~call[c].opposed /\ ~Allows(c) /\ (call[c].kind = "flags" \/ ~runtime[u])
           => cfg'[u].flags # "allowed" /\ ~runtime'[u]
  PROVE  /\ call' \in [Calls -> CallRecord] /\ granted' \subseteq Uids /\ barred' \subseteq Uids
         /\ CallSteps' /\ OneDirection' /\ Standing'
<1>0. TypeOK /\ call[c].pc \in Steps
  BY DEF IInv, ForGood
<1>1. call' = [call EXCEPT ![c] = Done]
  BY DEF Settled
<1>2. call' \in [Calls -> CallRecord]
  BY <1>0, <1>1, CallType
<1>3. granted' \subseteq Uids /\ barred' \subseteq Uids
  BY <1>0 DEF Settled, TypeOK
<1>4. call'[c].pc = "done" /\ \A d \in Calls \ {c} : call'[d] = call[d]
  BY <1>0, <1>1 DEF TypeOK, Done
<1>5. /\ \A d \in Calls \ {c} : CallStep(d)'
      /\ OneDirection'
      /\ \A v \in barred : RefusalStands(v)'
      /\ \A v \in granted : GrantStands(v)'
  BY <1>4, PlaceStep
<1>6. CallSteps'
  BY <1>4, <1>5 DEF CallSteps, CallStep
<1>7. ASSUME NEW d \in Calls, (ForGood(d))', call'[d].uid = u, ~call[c].opposed
      PROVE  (Allows(d))' <=> Allows(c)
  <2>1. d # c
    BY <1>4, <1>7 DEF ForGood, Steps
  <2>2. ForGood(d) /\ call[d].uid = u /\ (Allows(d))' = Allows(d)
    BY <1>4, <1>7, <2>1 DEF ForGood, Allows
  <2> QED BY <1>7, <2>2 DEF IInv, OneDirection
<1>8. ASSUME NEW v \in barred' PROVE RefusalStands(v)'
  <2>1. CASE v \in barred
    BY <1>5, <2>1
  <2>2. CASE v \notin barred
    <3>1. v = u /\ ~call[c].opposed /\ ~Allows(c) /\ (call[c].kind = "flags" \/ ~runtime[u])
      BY <1>8, <2>2 DEF Settled, Allows
    <3> QED BY <1>7, <3>1 DEF RefusalStands
  <2> QED BY <2>1, <2>2
<1>9. ASSUME NEW v \in granted' PROVE GrantStands(v)'
  <2>1. CASE v \in granted
    BY <1>5, <2>1
  <2>2. CASE v \notin granted
    <3>1. v = u /\ ~call[c].opposed /\ Allows(c)
      BY <1>9, <2>2 DEF Settled, Allows
    <3> QED BY <1>7, <3>1 DEF GrantStands
  <2> QED BY <2>1, <2>2
<1> QED BY <1>2, <1>3, <1>5, <1>6, <1>8, <1>9 DEF Standing

\* An answer's second place, the configuration: a denial ends there.
LEMMA ConfirmUpdateStep ==
  ASSUME IInv, NEW c \in Calls, ConfirmUpdate(c)
  PROVE  IInv'
<1> DEFINE u == call[c].uid
<1>0. TypeOK /\ call[c].pc = "records" /\ call[c].kind = "confirm" /\ call[c].todo = {} /\ ForGood(c)
  BY DEF IInv, ConfirmUpdate, ForGood, Steps
<1>1. call[c] \in Making
  BY <1>0, MakingCall DEF Steps
<1>2. u \in Uids /\ call[c].to \in Flags /\ call[c].names \in BOOLEAN
  BY <1>1 DEF Making
<1>3. Update(u, call[c].to, call[c].names)
      /\ UNCHANGED <<file, writing, systemVars, attach, appVars>>
  BY DEF ConfirmUpdate
<1>4. /\ cfg' \in Configs /\ cfg'[u].flags = call[c].to
      /\ \A v \in Uids \ {u} : cfg'[v] = cfg[v]
      /\ write' \in {"none", "failed", "posted", "running", "rerun"}
      /\ UnsavedIsScheduled' /\ WriterCurrent'
  <2> HIDE DEF u
  <2> QED BY <1>2, <1>3, UpdateStep DEF IInv
<1>5. declaring' = declaring /\ runtime' = runtime /\ (cfg'[u].flags = "allowed" <=> Allows(c))
  BY <1>3, <1>4 DEF systemVars, Allows
<1>6. CASE call[c].to = "allowed"
  <2>1. call' = [call EXCEPT ![c].pc = "runtime"] /\ granted' = granted /\ barred' = barred
    BY <1>6 DEF ConfirmUpdate, historyVars
  <2>2. call' \in [Calls -> CallRecord]
    BY <1>0, <2>1, CallType DEF Steps
  <2>3. /\ \A d \in Calls \ {c} : call'[d] = call[d]
        /\ call'[c].pc = "runtime" /\ call'[c].kind = call[c].kind /\ call'[c].uid = u
        /\ call'[c].to = call[c].to /\ call'[c].opposed = call[c].opposed /\ call'[c].todo = {}
    BY <1>0, <1>1, <2>1 DEF TypeOK, Making
  <2>4. /\ \A d \in Calls \ {c} : CallStep(d)'
        /\ OneDirection'
        /\ \A v \in barred : RefusalStands(v)'
        /\ \A v \in granted : GrantStands(v)'
    <3> HIDE DEF u
    <3> QED BY <1>0, <1>2, <1>4, <1>5, <2>3, PlaceStep DEF u
  <2>5. CallStep(c)'
    BY <1>0, <1>4, <1>6, <2>3 DEF CallStep, Allows
  <2>6. TypeOK'
    BY <1>0, <1>3, <1>4, <2>1, <2>2 DEF TypeOK, CallRecord, Making, systemVars, appVars
  <2> QED BY <1>4, <2>1, <2>4, <2>5, <2>6 DEF IInv, CallSteps, Standing
<1>7. CASE call[c].to # "allowed"
  <2>1. Settled(c)
    BY <1>7 DEF ConfirmUpdate
  <2>2. ~Allows(c)
    BY <1>7 DEF Allows
  <2>3. /\ call' \in [Calls -> CallRecord] /\ granted' \subseteq Uids /\ barred' \subseteq Uids
        /\ CallSteps' /\ OneDirection' /\ Standing'
    BY <1>0, <1>2, <1>4, <1>5, <2>1, <2>2, SettledStep
  <2>4. TypeOK'
    BY <1>0, <1>3, <1>4, <2>3 DEF TypeOK, CallRecord, Making, systemVars, appVars
  <2> QED BY <1>4, <2>3, <2>4 DEF IInv
<1> QED BY <1>6, <1>7

\* An answer's third place, the runtime permission.
LEMMA ConfirmGrantStep ==
  ASSUME IInv, NEW c \in Calls, ConfirmGrant(c)
  PROVE  IInv'
<1> DEFINE u == call[c].uid
<1>0. TypeOK /\ call[c].pc = "runtime" /\ CallStep(c) /\ UNCHANGED <<configVars, declaring, attach, appVars>>
  BY DEF IInv, ConfirmGrant, CallSteps
<1>1. call[c] \in Making
  BY <1>0, MakingCall DEF Steps
<1>2. u \in Uids /\ ForGood(c) /\ Allows(c) /\ (call[c].opposed \/ cfg[u].flags = "allowed")
  BY <1>0, <1>1 DEF Making, ForGood, Steps, CallStep
<1>3. /\ runtime' = [runtime EXCEPT ![u] = @ \/ u \in declaring]
      /\ Settled(c)
  BY DEF ConfirmGrant
<1>4. /\ runtime' \in [Uids -> BOOLEAN] /\ cfg' = cfg /\ declaring' = declaring
      /\ \A v \in Uids \ {u} : runtime'[v] = runtime[v]
      /\ runtime'[u] = runtime[u] \/ (runtime'[u] <=> (u \in declaring /\ Allows(c)))
      /\ u \in declaring => runtime'[u]
  BY <1>0, <1>2, <1>3 DEF TypeOK, configVars
<1>5. /\ call' \in [Calls -> CallRecord] /\ granted' \subseteq Uids /\ barred' \subseteq Uids
      /\ CallSteps' /\ OneDirection' /\ Standing'
  BY <1>2, <1>3, <1>4, SettledStep
<1>6. TypeOK'
  BY <1>0, <1>4, <1>5 DEF TypeOK, CallRecord, Making, configVars, appVars
<1>7. UnsavedIsScheduled' /\ WriterCurrent'
  BY <1>0 DEF IInv, UnsavedIsScheduled, WriterCurrent, configVars
<1> QED BY <1>5, <1>6, <1>7 DEF IInv

\* updateFlagsForUid's second place, the runtime permission.
LEMMA SetFlagsRuntimeStep ==
  ASSUME IInv, NEW c \in Calls, SetFlagsRuntime(c)
  PROVE  IInv'
<1> DEFINE u == call[c].uid
<1>0. /\ TypeOK /\ call[c].pc = "records" /\ call[c].kind = "flags" /\ call[c].todo = {} /\ ForGood(c)
      /\ UNCHANGED <<configVars, declaring, attach, appVars, historyVars>>
      /\ call' = [call EXCEPT ![c].pc = "config"]
  BY DEF IInv, SetFlagsRuntime, ForGood, Steps
<1>1. call[c] \in Making
  BY <1>0, MakingCall DEF Steps
<1>2. u \in Uids
  BY <1>1 DEF Making
<1>3. runtime' = [runtime EXCEPT ![u] = u \in declaring /\ Allows(c)]
  BY DEF SetFlagsRuntime, Allows
<1>4. /\ runtime' \in [Uids -> BOOLEAN] /\ cfg' = cfg /\ declaring' = declaring
      /\ \A v \in Uids \ {u} : runtime'[v] = runtime[v]
      /\ runtime'[u] <=> (u \in declaring /\ Allows(c))
  BY <1>0, <1>2, <1>3 DEF TypeOK, configVars
<1>5. call' \in [Calls -> CallRecord]
  BY <1>0, CallType DEF Steps
<1>6. /\ \A d \in Calls \ {c} : call'[d] = call[d]
      /\ call'[c].pc = "config" /\ call'[c].kind = call[c].kind /\ call'[c].uid = u
      /\ call'[c].to = call[c].to /\ call'[c].opposed = call[c].opposed /\ call'[c].todo = {}
  BY <1>0, <1>1 DEF TypeOK, Making
<1>7. /\ \A d \in Calls \ {c} : CallStep(d)'
      /\ OneDirection'
      /\ \A v \in barred : RefusalStands(v)'
      /\ \A v \in granted : GrantStands(v)'
  BY <1>0, <1>2, <1>4, <1>6, PlaceStep
<1>8. CallStep(c)'
  BY <1>0, <1>4, <1>6 DEF CallStep, Allows
<1>9. TypeOK'
  BY <1>0, <1>4, <1>5 DEF TypeOK, CallRecord, Making, configVars, appVars, historyVars
<1>10. UnsavedIsScheduled' /\ WriterCurrent' /\ Standing'
  BY <1>0, <1>7 DEF IInv, UnsavedIsScheduled, WriterCurrent, configVars, Standing, historyVars
<1> QED BY <1>7, <1>8, <1>9, <1>10 DEF IInv, CallSteps

\* updateFlagsForUid's third place, the configuration.
LEMMA SetFlagsUpdateStep ==
  ASSUME IInv, NEW c \in Calls, SetFlagsUpdate(c)
  PROVE  IInv'
<1> DEFINE u == call[c].uid
<1>0. TypeOK /\ call[c].pc = "config" /\ CallStep(c)
      /\ UNCHANGED <<file, writing, systemVars, attach, appVars>>
      /\ Update(u, call[c].to, call[c].names) /\ Settled(c)
  BY DEF IInv, SetFlagsUpdate, CallSteps
<1>1. call[c] \in Making
  BY <1>0, MakingCall DEF Steps
<1>2. u \in Uids /\ call[c].to \in Flags /\ call[c].names \in BOOLEAN /\ ForGood(c)
      /\ (call[c].opposed \/ (runtime[u] <=> (u \in declaring /\ Allows(c))))
  BY <1>0, <1>1 DEF Making, ForGood, Steps, CallStep
<1>3. /\ cfg' \in Configs /\ cfg'[u].flags = call[c].to
      /\ \A v \in Uids \ {u} : cfg'[v] = cfg[v]
      /\ write' \in {"none", "failed", "posted", "running", "rerun"}
      /\ UnsavedIsScheduled' /\ WriterCurrent'
  <2> HIDE DEF u
  <2> QED BY <1>0, <1>2, UpdateStep DEF IInv
<1>4. declaring' = declaring /\ runtime' = runtime /\ (cfg'[u].flags = "allowed" <=> Allows(c))
  BY <1>0, <1>3 DEF systemVars, Allows
<1>5. /\ call' \in [Calls -> CallRecord] /\ granted' \subseteq Uids /\ barred' \subseteq Uids
      /\ CallSteps' /\ OneDirection' /\ Standing'
  BY <1>0, <1>2, <1>3, <1>4, SettledStep
<1>6. TypeOK'
  BY <1>0, <1>3, <1>5 DEF TypeOK, CallRecord, Making, systemVars, appVars
<1> QED BY <1>3, <1>5, <1>6 DEF IInv

-----------------------------------------------------------------------------
\* A restart rebuilds the configuration from what is durable, and what stands with it.
LEMMA RestartStep == ASSUME IInv, Restart PROVE IInv'
<1>0. TypeOK /\ Empty \in Configs
  BY DEF IInv, Empty, Configs, Entries
<1>1. /\ file \in Configs /\ runtime \in [Uids -> BOOLEAN] /\ cfg' = Loaded(file, runtime)
      /\ UNCHANGED <<file, systemVars, appVars>>
      /\ write' = IF LoadSchedules(file) THEN "posted" ELSE "none"
      /\ writing' = Empty
  BY <1>0 DEF Restart, TypeOK
<1>2. cfg' \in Configs
  BY <1>1, LoadedType
<1>3. attach' \in [Attaches -> AttachRecord]
  BY <1>0 DEF Restart, TypeOK, AttachRecord, Made1, Gone
<1>4. call' \in [Calls -> CallRecord] /\ \A c \in Calls : call'[c].pc \in {"idle", "done"}
  BY DEF Restart, CallRecord, Idle, Done
<1>5. granted' \subseteq granted /\ barred' \subseteq barred
  BY DEF Restart
<1>6. TypeOK'
  BY <1>0, <1>1, <1>2, <1>3, <1>4, <1>5
     DEF TypeOK, AttachRecord, Made1, CallRecord, Making, systemVars, appVars
<1>7. UnsavedIsScheduled'
  BY <1>1, LoadedSaved DEF UnsavedIsScheduled
<1>8. WriterCurrent'
  BY <1>1 DEF WriterCurrent
<1>9. CallSteps' /\ OneDirection'
  BY <1>4 DEF CallSteps, CallStep, OneDirection, ForGood, Steps
<1>10. UNCHANGED <<declaring, runtime>>
  BY <1>1 DEF systemVars
<1>11. ASSUME NEW u \in barred' PROVE RefusalStands(u)'
  <2>1. u \in barred /\ u \in Uids /\ RefusalStands(u)
    BY <1>0, <1>5 DEF IInv, Standing, TypeOK
  <2>2. cfg'[u].flags # "allowed"
    <3>1. CASE u \in declaring
      BY <1>1, <2>1, <3>1, LoadedDeclaring DEF RefusalStands
    <3>2. CASE u \notin declaring
      <4>1. write = "none" \/ file[u].flags # "allowed"
        BY <1>11, <3>2 DEF Restart
      <4>2. file[u].flags # "allowed"
        BY <2>1, <4>1 DEF IInv, UnsavedIsScheduled, RefusalStands
      <4> QED BY <1>1, <2>1, <3>2, <4>2, LoadedOther
    <3> QED BY <3>1, <3>2
  <2> QED BY <1>4, <1>10, <2>1, <2>2 DEF RefusalStands, ForGood, Steps
<1>12. ASSUME NEW u \in granted' PROVE GrantStands(u)'
  <2>1. u \in granted /\ u \in Uids /\ GrantStands(u)
    BY <1>0, <1>5 DEF IInv, Standing, TypeOK
  <2>2. cfg'[u].flags = "allowed"
    <3>1. CASE u \in declaring
      BY <1>1, <2>1, <3>1, LoadedDeclaring DEF GrantStands
    <3>2. CASE u \notin declaring
      <4>1. write = "none" /\ cfg[u].named
        BY <1>12, <3>2 DEF Restart
      <4>2. file[u] = cfg[u] /\ cfg[u].flags = "allowed"
        BY <2>1, <4>1 DEF IInv, UnsavedIsScheduled, GrantStands
      <4>3. cfg[u] # NoEntry
        BY <4>2 DEF NoEntry
      <4> QED BY <1>1, <2>1, <3>2, <4>1, <4>2, <4>3, LoadedOther
    <3> QED BY <3>1, <3>2
  <2> QED BY <1>4, <1>10, <2>1, <2>2 DEF GrantStands, ForGood, Steps
<1> QED BY <1>6, <1>7, <1>8, <1>9, <1>11, <1>12 DEF IInv, Standing

\* Every step keeps the invariant.
LEMMA NextIInv == IInv /\ [Next]_vars => IInv'
<1> SUFFICES ASSUME IInv, [Next]_vars PROVE IInv'
  OBVIOUS
<1>1. CASE UNCHANGED vars
  <2>1. attach \in [Attaches -> AttachRecord] /\ proc \in [Pids -> BOOLEAN] /\ prompts \in SUBSET Pids
    BY DEF IInv, TypeOK, AttachRecord, Made1
  <2> QED BY <1>1, <2>1, ClientsOnly DEF vars, appVars
<1>2. CASE WriteBegin
  BY <1>2, WriteStep
<1>3. ASSUME NEW ok \in BOOLEAN, WriteEnd(ok) PROVE IInv'
  BY <1>3, WriteStep
<1>4. ASSUME NEW a \in Attaches,
             \/ \E p \in Pids : AttachFind(a, p)
             \/ AddClientRead(a) \/ AddClientLink(a) \/ AddClientList(a)
             \/ ClientDied(a) \/ RequestPermission(a)
      PROVE  IInv'
  BY <1>4, ClientStep
<1>5. ASSUME NEW p \in Pids, ProcessDies(p) \/ ProcessStarts(p) PROVE IInv'
  <2>1. /\ proc' \in [Pids -> BOOLEAN] /\ attach \in [Attaches -> AttachRecord]
        /\ prompts \in SUBSET Pids
    BY <1>5 DEF ProcessDies, ProcessStarts, IInv, TypeOK, AttachRecord, Made1
  <2> QED BY <1>5, <2>1, ClientsOnly DEF ProcessDies, ProcessStarts
<1>6. ASSUME NEW c \in Calls, NEW p \in Pids, NEW allowed \in BOOLEAN, NEW onetime \in BOOLEAN,
             Confirm(c, p, allowed, onetime)
      PROVE  IInv'
  <2> DEFINE kind == IF onetime THEN "onetime" ELSE "confirm"
             to == IF allowed THEN "allowed" ELSE "denied"
             names == Listed(UidOf[p]) # {}
  <2>1. UidOf[p] \in Uids /\ kind \in {"confirm", "onetime", "flags"} /\ to \in Flags /\ names \in BOOLEAN
    BY UidOfAssumption DEF Flags
  <2>2. Begin(c, kind, UidOf[p], to, names) /\ UNCHANGED <<configVars, systemVars, proc>>
        /\ prompts' \in SUBSET Pids
    BY <1>6 DEF Confirm, IInv, TypeOK
  <2> HIDE DEF kind, to, names
  <2> QED BY <2>1, <2>2, BeginStep
<1>7. ASSUME NEW c \in Calls, NEW u \in Uids, NEW flags \in Flags, SetFlags(c, u, flags) PROVE IInv'
  BY <1>7, BeginStep DEF SetFlags, appVars, IInv, TypeOK
<1>8. ASSUME NEW c \in Calls,
             \/ \E a \in Attaches : ConfirmRecord(c, a) \/ SetFlagsRecord(c, a) \/ SetFlagsThrows(c, a)
             \/ ConfirmOnetime(c)
      PROVE  IInv'
  BY <1>8, RecordsStep
<1>9. ASSUME NEW c \in Calls, ConfirmUpdate(c) \/ ConfirmGrant(c) PROVE IInv'
  BY <1>9, ConfirmUpdateStep, ConfirmGrantStep
<1>10. ASSUME NEW c \in Calls, SetFlagsRuntime(c) \/ SetFlagsUpdate(c) PROVE IInv'
  BY <1>10, SetFlagsRuntimeStep, SetFlagsUpdateStep
<1>11. CASE Restart
  BY <1>11, RestartStep
<1> QED
  BY <1>1, <1>2, <1>3, <1>4, <1>5, <1>6, <1>7, <1>8, <1>9, <1>10, <1>11 DEF Next

\* The invariant holds in every reachable state, however the manager's calls overlap.
THEOREM Invariance == Spec => []IInv
<1> QED BY InitIInv, NextIInv, PTL DEF Spec

\* Every variable keeps its type, for any number of uids, processes, attaches and calls.
THEOREM TypeCorrect == Spec => []TypeOK
<1>1. IInv => TypeOK
  BY DEF IInv
<1> QED BY <1>1, Invariance, PTL

\* A refusal that stands is not undone by a step of a call, a crash or a restart.
THEOREM RevocationDurable == Spec => []RevokeDurable
<1>1. IInv => RevokeDurable
  BY DEF IInv, Standing, RefusalStands, RevokeDurable
<1> QED BY <1>1, Invariance, PTL

\* Nor is a lasting grant.
THEOREM GrantingDurable == Spec => []GrantDurable
<1>1. IInv => GrantDurable
  BY DEF IInv, Standing, GrantStands, GrantDurable
<1> QED BY <1>1, Invariance, PTL

\* No update of the configuration is lost while the server runs, unless a write fails.
THEOREM NothingUnscheduled == Spec => []UnsavedIsScheduled
<1>1. IInv => UnsavedIsScheduled
  BY DEF IInv
<1> QED BY <1>1, Invariance, PTL

-----------------------------------------------------------------------------
(* The records follow the configuration                                     *)

\* What a record that need not be excused says.  It is one that each lasting call on its
\* uid has yet to write, or says what the call decides; it says what the configuration
\* does, unless a call that nothing opposes has written it and not the configuration; and
\* while it is not in the list, no call is in progress.
Shown(a) == attach[a].state \in {"read", "linked", "listed"} /\ ~attach[a].apart
On(c, a) == ForGood(c) /\ call[c].uid = UidOf[attach[a].pid]
Ahead(c, a) == On(c, a) /\ ~call[c].opposed /\ call[c].pc # "runtime" /\ a \notin call[c].todo
Says(a) ==
  /\ \A c \in Calls : On(c, a) =>
       (~call[c].opposed /\ a \in call[c].todo) \/ (attach[a].allowed <=> Allows(c))
  /\ \/ attach[a].allowed <=> cfg[UidOf[attach[a].pid]].flags = "allowed"
     \/ \E c \in Calls : Ahead(c, a)
  /\ attach[a].state # "listed" => \A c \in Calls : ~On(c, a)

\* A record that a call has yet to write is in the list, or was.
TodoListed ==
  \A c \in Calls : call[c].pc \in Steps => \A a \in call[c].todo :
    \/ attach[a].state = "gone"
    \/ attach[a].state = "listed" /\ UidOf[attach[a].pid] = call[c].uid

RecordsFollow == TodoListed /\ \A a \in Attaches : Shown(a) => Says(a)

\* A record that no step touches goes on saying what it did.
LEMMA KeepsSaying ==
  ASSUME RecordsFollow, UNCHANGED <<cfg, call>>, NEW a \in Attaches, attach'[a] = attach[a], Shown(a)'
  PROVE  Says(a)'
<1>1. Shown(a) /\ Says(a)
  BY DEF RecordsFollow, Shown
<1> QED BY <1>1 DEF Says, On, Ahead, ForGood, Allows

\* So do all of them when client records, calls and the configuration stay.
LEMMA NothingToFollow ==
  ASSUME RecordsFollow, UNCHANGED <<cfg, call, attach>>
  PROVE  RecordsFollow'
<1>1. TodoListed'
  BY DEF RecordsFollow, TodoListed
<1> QED BY <1>1, KeepsSaying DEF RecordsFollow

\* attachApplication reads the configuration, and its record is excused during a call.
LEMMA AttachFollows ==
  ASSUME IInv, RecordsFollow, NEW a \in Attaches,
         \/ \E p \in Pids : AttachFind(a, p)
         \/ AddClientRead(a) \/ AddClientLink(a) \/ AddClientList(a)
         \/ ClientDied(a) \/ RequestPermission(a)
  PROVE  RecordsFollow'
<1>0. attach \in [Attaches -> AttachRecord] /\ TypeOK
  BY DEF IInv, TypeOK, AttachRecord, Made1
<1>1. CASE RequestPermission(a)
  BY <1>1, NothingToFollow DEF RequestPermission, configVars
<1>2. CASE ~RequestPermission(a)
  <2>1. UNCHANGED <<cfg, call>> /\ \A b \in Attaches \ {a} : attach'[b] = attach[b]
    BY <1>0, <1>2 DEF AttachFind, AddClientRead, AddClientLink, AddClientList, ClientDied, configVars
  <2>2. /\ attach[a].state \in {"none", "checked", "read", "linked", "listed"}
        /\ attach[a].state = "listed" => attach'[a].state = "gone"
    BY <1>0, <1>2 DEF AttachFind, AddClientRead, AddClientLink, AddClientList, ClientDied, Gone
  <2>3. TodoListed'
    <3>1. SUFFICES ASSUME NEW c \in Calls, call[c].pc \in Steps, NEW b \in call[c].todo
                   PROVE  \/ attach'[b].state = "gone"
                          \/ attach'[b].state = "listed" /\ UidOf[attach'[b].pid] = call[c].uid
      BY <2>1 DEF TodoListed
    <3>2. b \in Attaches
      BY <1>0, <3>1, MakingCall DEF Making
    <3>3. \/ attach[b].state = "gone"
          \/ attach[b].state = "listed" /\ UidOf[attach[b].pid] = call[c].uid
      BY <3>1 DEF RecordsFollow, TodoListed
    <3> QED BY <2>1, <2>2, <3>2, <3>3
  <2>4. \A b \in Attaches \ {a} : Shown(b)' => Says(b)'
    BY <2>1, KeepsSaying
  <2>5. CASE \E p \in Pids : AttachFind(a, p)
    <3>1. attach'[a].state = "checked"
      BY <1>0, <2>5 DEF AttachFind
    <3> QED BY <2>3, <2>4, <3>1 DEF RecordsFollow, Shown
  <2>6. CASE AddClientRead(a)
    <3>1. attach[a] \in Made1
      BY <1>0, <2>6, MadeRecord DEF AddClientRead
    <3> DEFINE u == UidOf[attach[a].pid]
               busy == Lasting(u) # {}
    <3>2. attach' = [attach EXCEPT ![a].state = "read", ![a].allowed = cfg[u].flags = "allowed",
                                   ![a].apart = busy]
      BY <2>6 DEF AddClientRead
    <3>3. busy \in BOOLEAN /\ (~busy => Lasting(u) = {})
      OBVIOUS
    <3> HIDE DEF busy
    <3>4. /\ attach'[a].pid = attach[a].pid /\ attach'[a].state = "read"
          /\ (attach'[a].allowed <=> cfg[u].flags = "allowed")
          /\ attach'[a].apart = busy
      BY <1>0, <3>1, <3>2 DEF Made1
    <3>5. Shown(a)' => \A c \in Calls : ~(ForGood(c) /\ call[c].uid = u)
      BY <3>3, <3>4 DEF Shown, Lasting, ForGood
    <3>6. Shown(a)' => Says(a)'
      BY <2>1, <3>4, <3>5 DEF Says, On, ForGood
    <3> QED BY <2>3, <2>4, <3>6 DEF RecordsFollow
  <2>7. CASE AddClientLink(a) \/ AddClientList(a) \/ ClientDied(a)
    <3>1. attach[a] \in Made1
      BY <1>0, <2>7, MadeRecord DEF AddClientLink, AddClientList, ClientDied
    <3>2. \/ attach'[a].state = "gone"
          \/ /\ attach[a].state \in {"read", "linked"}
             /\ attach'[a].pid = attach[a].pid /\ attach'[a].allowed = attach[a].allowed
             /\ attach'[a].apart = attach[a].apart
      BY <1>0, <2>7, <3>1 DEF AddClientLink, AddClientList, ClientDied, Made1, Gone
    <3>3. Shown(a)' => Says(a)'
      <4>1. SUFFICES ASSUME Shown(a)' PROVE Says(a)'
        OBVIOUS
      <4>2. Shown(a) /\ Says(a) /\ attach[a].state # "listed"
        BY <3>2, <4>1 DEF Shown, RecordsFollow
      <4> QED BY <2>1, <3>2, <4>1, <4>2 DEF Says, Shown, On, Ahead, ForGood, Allows
    <3> QED BY <2>3, <2>4, <3>3 DEF RecordsFollow
  <2> QED BY <1>2, <2>5, <2>6, <2>7
<1> QED BY <1>1, <1>2

\* A call that begins lists the records it will write, excuses those not in the list yet
\* and, when it meets opposition, all of the uid.
LEMMA BeginFollows ==
  ASSUME IInv, RecordsFollow, NEW c \in Calls, NEW kind \in {"confirm", "onetime", "flags"},
         NEW u \in Uids, NEW to \in Flags, NEW names \in BOOLEAN, Begin(c, kind, u, to, names), cfg' = cfg
  PROVE  RecordsFollow'
<1>0. TypeOK /\ call[c].pc = "idle"
  BY DEF IInv, Begin, Idle
<1> DEFINE met == kind # "onetime" /\ Opposing(u, to) # {}
<1>1. /\ call'[c] = [pc |-> "records", kind |-> kind, uid |-> u, to |-> to, todo |-> Listed(u),
                     names |-> names, opposed |-> met]
      /\ \A d \in Calls \ {c} : kind = "onetime" \/ d \notin Opposing(u, to) => call'[d] = call[d]
      /\ \A d \in Calls \ {c} :
           /\ call'[d].pc = call[d].pc
           /\ call[d].pc \in Steps =>
                /\ call'[d].kind = call[d].kind /\ call'[d].uid = call[d].uid
                /\ call'[d].to = call[d].to /\ call'[d].todo = call[d].todo
  BY <1>0, BeginCalls
<1>2. met \in BOOLEAN /\ (met => kind # "onetime") /\ (~met /\ kind # "onetime" => Opposing(u, to) = {})
  OBVIOUS
<1> DEFINE excused == IF kind = "onetime" THEN {} ELSE IF met THEN Made(u) ELSE Made(u) \ Listed(u)
<1>3. attach' = [a \in Attaches |-> IF a \in excused THEN [attach[a] EXCEPT !.apart = TRUE] ELSE attach[a]]
  BY DEF Begin, SetApart
<1> HIDE DEF met
<1>4. call'[c].pc = "records" /\ call'[c].kind = kind /\ call'[c].uid = u /\ call'[c].to = to
      /\ call'[c].todo = Listed(u) /\ call'[c].opposed = met
  BY <1>1
<1>5. \A a \in Attaches : a \in excused => attach[a] \in Made1 /\ UidOf[attach[a].pid] = u
  BY <1>0, MadeRecord DEF Made, InState
<1>6. ASSUME NEW a \in Attaches
      PROVE  /\ attach'[a].state = attach[a].state
             /\ a \in excused => attach'[a].pid = attach[a].pid /\ attach'[a].apart
             /\ a \notin excused => attach'[a] = attach[a]
  BY <1>3, <1>5 DEF Made1
<1>7. TodoListed'
  <2>1. SUFFICES ASSUME NEW d \in Calls, call'[d].pc \in Steps, NEW a \in call'[d].todo
                 PROVE  \/ attach'[a].state = "gone"
                        \/ attach'[a].state = "listed" /\ UidOf[attach'[a].pid] = call'[d].uid
    BY DEF TodoListed
  <2>2. CASE d = c
    <3>1. a \in Attaches /\ attach[a].state = "listed" /\ UidOf[attach[a].pid] = u
      BY <1>4, <2>1, <2>2 DEF Listed, InState
    <3> QED BY <1>4, <1>6, <2>2, <3>1
  <2>3. CASE d # c
    <3>1. call[d].pc \in Steps /\ a \in call[d].todo /\ call'[d].uid = call[d].uid /\ a \in Attaches
      <4>1. call[d].pc \in Steps
        BY <1>1, <2>1, <2>3
      <4>2. call[d] \in Making
        BY <1>0, <4>1, MakingCall
      <4> QED BY <1>1, <2>1, <2>3, <4>1, <4>2 DEF Making
    <3>2. \/ attach[a].state = "gone"
          \/ attach[a].state = "listed" /\ UidOf[attach[a].pid] = call[d].uid
      BY <3>1 DEF RecordsFollow, TodoListed
    <3> QED BY <1>6, <3>1, <3>2
  <2> QED BY <2>2, <2>3
<1>8. ASSUME NEW a \in Attaches, Shown(a)' PROVE Says(a)'
  <2>1. a \notin excused /\ attach'[a] = attach[a]
    BY <1>6, <1>8 DEF Shown
  <2>2. Shown(a) /\ Says(a)
    BY <1>8, <2>1 DEF Shown, RecordsFollow
  <2> HIDE DEF excused
  <2>3. CASE UidOf[attach[a].pid] = u /\ kind # "onetime"
    <3>1. a \in Made(u)
      BY <2>2, <2>3 DEF Made, InState, Shown
    <3>2. ~met /\ a \in Listed(u)
      BY <2>1, <2>3, <3>1 DEF excused
    <3>3. \A d \in Calls \ {c} : call'[d] = call[d]
      BY <1>1, <1>2, <2>3, <3>2
    <3>4. attach[a].state = "listed" /\ a \in call'[c].todo /\ ~call'[c].opposed
      BY <1>2, <1>4, <3>2 DEF Listed, InState
    <3>5. ASSUME NEW d \in Calls, On(d, a)'
          PROVE  (~call'[d].opposed /\ a \in call'[d].todo) \/ (attach'[a].allowed <=> Allows(d)')
      <4>1. CASE d = c
        BY <3>4, <4>1
      <4>2. CASE d # c
        <5>1. call'[d] = call[d] /\ On(d, a) /\ (Allows(d)' <=> Allows(d))
          BY <2>1, <3>3, <3>5, <4>2 DEF On, ForGood, Allows
        <5> QED BY <2>1, <2>2, <5>1 DEF Says
      <4> QED BY <4>1, <4>2
    <3>6. ASSUME NEW d \in Calls, Ahead(d, a) PROVE Ahead(d, a)'
      <4>1. d # c
        BY <1>0, <3>6 DEF Ahead, On, ForGood, Steps
      <4> QED BY <2>1, <3>3, <3>6, <4>1 DEF Ahead, On, ForGood
    <3> QED BY <2>1, <2>2, <3>4, <3>5, <3>6 DEF Says
  <2>4. CASE ~(UidOf[attach[a].pid] = u /\ kind # "onetime")
    <3>1. \A d \in Calls : On(d, a)' => d # c /\ call'[d] = call[d] /\ On(d, a) /\ (Allows(d)' <=> Allows(d))
      <4>1. ~On(c, a)'
        BY <1>4, <2>1, <2>4 DEF On, ForGood
      <4>2. ASSUME NEW d \in Calls \ {c}, On(d, a)'
            PROVE  call'[d] = call[d] /\ On(d, a) /\ (Allows(d)' <=> Allows(d))
        <5>1. call[d].pc \in Steps /\ call[d].uid = UidOf[attach[a].pid]
          BY <1>1, <2>1, <4>2 DEF On, ForGood
        <5>2. kind = "onetime" \/ d \notin Opposing(u, to)
          BY <2>4, <5>1 DEF Opposing, Lasting
        <5>3. call'[d] = call[d]
          BY <1>1, <5>2
        <5> QED BY <2>1, <4>2, <5>3 DEF On, ForGood, Allows
      <4> QED BY <4>1, <4>2
    <3>2. ASSUME NEW d \in Calls, Ahead(d, a) PROVE Ahead(d, a)'
      <4>1. d # c /\ call[d].uid = UidOf[attach[a].pid]
        BY <1>0, <3>2 DEF Ahead, On, ForGood, Steps
      <4>2. kind = "onetime" \/ d \notin Opposing(u, to)
        BY <2>4, <4>1 DEF Opposing, Lasting
      <4>3. call'[d] = call[d]
        BY <1>1, <4>1, <4>2
      <4> QED BY <2>1, <3>2, <4>3 DEF Ahead, On, ForGood
    <3> QED BY <2>1, <2>2, <3>1, <3>2 DEF Says
  <2> QED BY <2>3, <2>4
<1> QED BY <1>7, <1>8 DEF RecordsFollow

\* The record a call writes says what the call decides, unless it is excused; the other
\* ones say what they did.
LEMMA WrittenFollows ==
  ASSUME IInv, RecordsFollow, NEW c \in Calls, NEW a \in Attaches,
         ConfirmRecord(c, a) \/ SetFlagsRecord(c, a)
  PROVE  RecordsFollow'
<1>0. /\ TypeOK /\ call[c].pc = "records" /\ a \in call[c].todo
      /\ attach' = Written(c, a) /\ cfg' = cfg
      /\ call' = [call EXCEPT ![c].todo = @ \ {a}]
  BY DEF IInv, ConfirmRecord, SetFlagsRecord, configVars
<1>1. call[c] \in Making /\ attach \in [Attaches -> AttachRecord] /\ call \in [Calls -> CallRecord]
  BY <1>0, MakingCall DEF Steps, TypeOK, AttachRecord, Made1, CallRecord, Making
<1>2. /\ \A d \in Calls \ {c} : call'[d] = call[d]
      /\ call'[c].pc = "records" /\ call'[c].kind = call[c].kind /\ call'[c].uid = call[c].uid
      /\ call'[c].to = call[c].to /\ call'[c].opposed = call[c].opposed
      /\ call'[c].todo = call[c].todo \ {a}
  BY <1>0, <1>1 DEF Making
<1>3. \/ attach[a].state = "gone"
      \/ attach[a].state = "listed" /\ UidOf[attach[a].pid] = call[c].uid
  BY <1>0 DEF RecordsFollow, TodoListed, Steps
<1>4. /\ \A b \in Attaches \ {a} : attach'[b] = attach[b]
      /\ attach'[a].state = attach[a].state
      /\ attach[a].state = "gone" => attach'[a] = attach[a]
      /\ attach[a].state = "listed" =>
           /\ attach'[a].pid = attach[a].pid /\ (attach'[a].allowed <=> Allows(c))
           /\ ~attach'[a].apart => call[c].kind # "onetime" /\ ~call[c].opposed
  <2>1. CASE attach[a].state = "gone"
    BY <1>0, <2>1 DEF Written
  <2>2. CASE attach[a].state = "listed"
    <3> DEFINE excused == call[c].kind = "onetime" \/ call[c].opposed
    <3>1. attach[a] \in Made1
      BY <1>0, <2>2, MadeRecord
    <3>2. attach' = [attach EXCEPT ![a].allowed = call[c].to = "allowed", ![a].apart = excused]
      BY <1>0, <2>2 DEF Written
    <3>3. ~excused => call[c].kind # "onetime" /\ ~call[c].opposed
      OBVIOUS
    <3> HIDE DEF excused
    <3> QED BY <1>1, <2>2, <3>1, <3>2, <3>3 DEF Made1, Allows
  <2> QED BY <1>3, <2>1, <2>2
<1>5. TodoListed'
  <2>1. SUFFICES ASSUME NEW d \in Calls, call'[d].pc \in Steps, NEW b \in call'[d].todo
                 PROVE  \/ attach'[b].state = "gone"
                        \/ attach'[b].state = "listed" /\ UidOf[attach'[b].pid] = call'[d].uid
    BY DEF TodoListed
  <2>2. call[d].pc \in Steps /\ b \in call[d].todo /\ call'[d].uid = call[d].uid
    BY <1>0, <1>2, <2>1 DEF Steps
  <2>3. b \in Attaches
    BY <1>0, <2>2, MakingCall DEF Making
  <2> QED BY <1>4, <2>2, <2>3 DEF RecordsFollow, TodoListed
<1>6. \A d \in Calls, b \in Attaches : On(d, b)' => (ForGood(d) /\ call[d].uid = UidOf[attach'[b].pid])
  BY <1>2, <1>0 DEF On, ForGood, Steps
<1>7. ASSUME NEW b \in Attaches \ {a}, Shown(b)' PROVE Says(b)'
  <2>1. attach'[b] = attach[b] /\ Says(b)
    BY <1>4, <1>7 DEF Shown, RecordsFollow
  <2>2. ASSUME NEW d \in Calls
        PROVE  /\ On(d, b)' <=> On(d, b)
               /\ call'[d].opposed = call[d].opposed /\ (Allows(d)' <=> Allows(d))
               /\ b \in call'[d].todo <=> b \in call[d].todo
               /\ call'[d].pc = call[d].pc
    BY <1>0, <1>2, <2>1 DEF On, ForGood, Allows, Steps
  <2> QED BY <1>0, <2>1, <2>2 DEF Says, Ahead
<1>8. ASSUME Shown(a)' PROVE Says(a)'
  <2>1. attach[a].state = "listed" /\ UidOf[attach'[a].pid] = call[c].uid
        /\ call[c].kind # "onetime" /\ ~call[c].opposed /\ (attach'[a].allowed <=> Allows(c))
    BY <1>3, <1>4, <1>8 DEF Shown
  <2>2. ForGood(c)
    BY <1>0, <2>1 DEF ForGood, Steps
  <2>3. \A d \in Calls : On(d, a)' => (attach'[a].allowed <=> Allows(d)')
    <3>1. \A d \in Calls : Allows(d)' <=> Allows(d)
      BY <1>2 DEF Allows
    <3> QED BY <1>6, <2>1, <2>2, <3>1 DEF IInv, OneDirection
  <2>4. Ahead(c, a)'
    BY <1>2, <2>1, <2>2 DEF Ahead, On, ForGood, Steps
  <2> QED BY <1>4, <2>1, <2>3, <2>4 DEF Says
<1> QED BY <1>5, <1>7, <1>8 DEF RecordsFollow

\* A revocation that breaks off excuses the records it has written.
LEMMA ThrowsFollows ==
  ASSUME IInv, RecordsFollow, NEW c \in Calls, NEW a \in Attaches, SetFlagsThrows(c, a)
  PROVE  RecordsFollow'
<1> DEFINE u == call[c].uid
<1>0. /\ TypeOK /\ call[c].pc = "records" /\ call[c].kind = "flags" /\ ForGood(c) /\ a \in call[c].todo
      /\ cfg' = cfg /\ call' = [call EXCEPT ![c] = Done]
      /\ attach \in [Attaches -> AttachRecord]
  BY DEF IInv, SetFlagsThrows, ForGood, Steps, configVars, TypeOK, AttachRecord, Made1
<1>1. call'[c].pc = "done" /\ \A d \in Calls \ {c} : call'[d] = call[d]
  BY <1>0 DEF TypeOK, Done
<1>2. ASSUME NEW b \in Attaches
      PROVE  /\ attach'[b].state = attach[b].state
             /\ attach[b].state = "listed" => attach'[b].pid = attach[b].pid
             /\ b \in Listed(u) /\ (b = a \/ b \notin call[c].todo) => attach'[b].apart
             /\ ~(b \in Listed(u) /\ (b = a \/ b \notin call[c].todo)) /\ (b # a \/ attach[b].state # "listed")
                  => attach'[b] = attach[b]
  <2> DEFINE hit == b \in Listed(u) /\ (b = a \/ b \notin call[c].todo)
             w == Written(c, a)
  <2>1. attach'[b] = IF hit THEN [w[b] EXCEPT !.apart = TRUE] ELSE w[b]
    BY DEF SetFlagsThrows
  <2>2. CASE attach[b].state = "listed"
    <3>1. attach[b] \in Made1
      BY <1>0, <2>2, MadeRecord
    <3>2. w[b] \in Made1 /\ w[b].state = "listed" /\ w[b].pid = attach[b].pid /\ (b # a => w[b] = attach[b])
      <4>1. call[c] \in Making
        BY <1>0, MakingCall DEF Steps
      <4> QED BY <1>0, <2>2, <3>1, <4>1 DEF Written, Made1, Making
    <3> HIDE DEF w
    <3>3. CASE hit
      BY <2>1, <2>2, <3>2, <3>3 DEF Made1
    <3>4. CASE ~hit
      BY <2>1, <2>2, <3>2, <3>4
    <3> QED BY <3>3, <3>4
  <2>3. CASE attach[b].state # "listed"
    <3>1. w[b] = attach[b]
      BY <1>0, <2>3 DEF Written
    <3>2. ~hit
      BY <2>3 DEF Listed, InState
    <3> HIDE DEF w
    <3> QED BY <2>1, <2>3, <3>1, <3>2
  <2> QED BY <2>2, <2>3
<1>3. TodoListed'
  <2>1. SUFFICES ASSUME NEW d \in Calls, call'[d].pc \in Steps, NEW b \in call'[d].todo
                 PROVE  \/ attach'[b].state = "gone"
                        \/ attach'[b].state = "listed" /\ UidOf[attach'[b].pid] = call'[d].uid
    BY DEF TodoListed
  <2>2. d # c /\ call'[d] = call[d]
    BY <1>1, <2>1 DEF Steps
  <2>3. b \in Attaches
    BY <1>0, <2>1, <2>2, MakingCall DEF Making
  <2>4. \/ attach[b].state = "gone"
        \/ attach[b].state = "listed" /\ UidOf[attach[b].pid] = call[d].uid
    BY <2>1, <2>2 DEF RecordsFollow, TodoListed
  <2> QED BY <1>2, <2>2, <2>3, <2>4
<1>4. \/ attach[a].state = "gone"
      \/ attach[a].state = "listed" /\ UidOf[attach[a].pid] = u
  BY <1>0 DEF RecordsFollow, TodoListed, Steps
<1>5. ASSUME NEW b \in Attaches, Shown(b)' PROVE Says(b)'
  <2>1. ~(b \in Listed(u) /\ (b = a \/ b \notin call[c].todo))
    BY <1>2, <1>5 DEF Shown
  <2>2. b # a
    BY <1>2, <1>4, <1>5, <2>1 DEF Shown, Listed, InState
  <2>3. attach'[b] = attach[b] /\ Shown(b) /\ Says(b)
    BY <1>2, <1>5, <2>1, <2>2 DEF Shown, RecordsFollow
  <2>4. ~Ahead(c, b)
    <3>1. SUFFICES ASSUME Ahead(c, b) PROVE FALSE
      OBVIOUS
    <3>2. b \notin Listed(u) /\ UidOf[attach[b].pid] = u /\ On(c, b)
      BY <2>1, <3>1 DEF Ahead, On
    <3>3. attach[b].state # "listed"
      BY <3>2 DEF Listed, InState
    <3> QED BY <2>3, <3>2, <3>3 DEF Says
  <2>5. ASSUME NEW d \in Calls, On(d, b)'
        PROVE  d # c /\ On(d, b) /\ call'[d] = call[d] /\ (Allows(d)' <=> Allows(d))
    BY <1>1, <2>3, <2>5 DEF On, ForGood, Allows, Steps
  <2>6. ASSUME NEW d \in Calls, Ahead(d, b) PROVE Ahead(d, b)'
    BY <1>1, <2>3, <2>4, <2>6 DEF Ahead, On, ForGood
  <2> QED BY <1>0, <2>3, <2>5, <2>6 DEF Says
<1> QED BY <1>3, <1>5 DEF RecordsFollow

\* A call that has written its records goes on to its other places.  The configuration
\* then says what they do.
LEMMA PlacesFollow ==
  ASSUME IInv, RecordsFollow, NEW c \in Calls,
         ConfirmOnetime(c) \/ ConfirmUpdate(c) \/ ConfirmGrant(c) \/ SetFlagsRuntime(c) \/ SetFlagsUpdate(c)
  PROVE  RecordsFollow'
<1> DEFINE u == call[c].uid
<1>0. TypeOK /\ attach' = attach /\ call[c].pc \in Steps /\ CallStep(c)
  BY DEF IInv, ConfirmOnetime, ConfirmUpdate, ConfirmGrant, SetFlagsRuntime, SetFlagsUpdate, Steps, CallSteps
<1>1. call[c] \in Making /\ u \in Uids /\ call[c].to \in Flags /\ call[c].names \in BOOLEAN
  BY <1>0, MakingCall DEF Making
<1>2. call[c].todo = {}
  BY <1>0 DEF ConfirmOnetime, ConfirmUpdate, ConfirmGrant, SetFlagsRuntime, SetFlagsUpdate, CallStep
<1>3. \/ call' = [call EXCEPT ![c] = Done]
      \/ call' = [call EXCEPT ![c].pc = "runtime"] /\ ConfirmUpdate(c)
      \/ call' = [call EXCEPT ![c].pc = "config"] /\ SetFlagsRuntime(c)
  BY DEF ConfirmOnetime, ConfirmUpdate, ConfirmGrant, SetFlagsRuntime, SetFlagsUpdate, Settled
<1>4. /\ \A d \in Calls \ {c} : call'[d] = call[d]
      /\ \/ call'[c].pc = "done"
         \/ /\ call'[c].kind = call[c].kind /\ call'[c].uid = u /\ call'[c].to = call[c].to
            /\ call'[c].opposed = call[c].opposed /\ call'[c].todo = {}
            /\ call'[c].pc \in Steps
            /\ call'[c].pc = "config" \/ ConfirmUpdate(c)
  BY <1>0, <1>1, <1>2, <1>3 DEF TypeOK, Making, Done, Steps
<1>5. CASE ConfirmUpdate(c) \/ SetFlagsUpdate(c)
  <2>1. /\ ForGood(c) /\ Update(u, call[c].to, call[c].names) /\ UNCHANGED <<file, writing>>
    BY <1>0, <1>5 DEF ForGood, ConfirmUpdate, SetFlagsUpdate, CallStep
  <2>2. cfg'[u].flags = call[c].to /\ \A v \in Uids \ {u} : cfg'[v] = cfg[v]
    <3> HIDE DEF u
    <3> QED BY <1>1, <2>1, UpdateStep DEF IInv
  <2>3. ASSUME NEW a \in Attaches, Shown(a)' PROVE Says(a)'
    <3>1. attach'[a] = attach[a] /\ Shown(a) /\ Says(a) /\ UidOf[attach[a].pid] \in Uids
      BY <1>0, <2>3, MadeRecord DEF Shown, RecordsFollow
    <3>2. ASSUME NEW d \in Calls, On(d, a)'
          PROVE  /\ On(d, a) /\ (Allows(d)' <=> Allows(d))
                 /\ call'[d].opposed = call[d].opposed /\ call'[d].todo = call[d].todo
      BY <1>0, <1>2, <1>4, <3>1, <3>2 DEF On, ForGood, Allows, Steps
    <3>3. CASE UidOf[attach[a].pid] = u
      <4>1. attach[a].allowed <=> Allows(c)
        BY <1>2, <2>1, <3>1, <3>3 DEF Says, On
      <4>2. attach'[a].allowed <=> cfg'[u].flags = "allowed"
        BY <2>2, <3>1, <4>1 DEF Allows
      <4> QED BY <3>1, <3>2, <3>3, <4>2 DEF Says
    <3>4. CASE UidOf[attach[a].pid] # u
      <4>1. ASSUME NEW d \in Calls, Ahead(d, a) PROVE Ahead(d, a)'
        BY <1>4, <3>1, <3>4, <4>1 DEF Ahead, On, ForGood
      <4> QED BY <2>2, <3>1, <3>2, <3>4, <4>1 DEF Says
    <3> QED BY <3>3, <3>4
  <2>4. TodoListed'
    BY <1>0, <1>2, <1>4 DEF RecordsFollow, TodoListed, Steps
  <2> QED BY <2>3, <2>4 DEF RecordsFollow
<1>6. CASE ConfirmOnetime(c) \/ ConfirmGrant(c) \/ SetFlagsRuntime(c)
  <2>1. cfg' = cfg
    BY <1>6 DEF ConfirmOnetime, ConfirmGrant, SetFlagsRuntime, configVars
  <2>2. call[c].kind = "onetime" \/ call[c].pc = "runtime" \/ SetFlagsRuntime(c)
    BY <1>6 DEF ConfirmOnetime, ConfirmGrant
  <2>3. ASSUME NEW a \in Attaches, Shown(a)' PROVE Says(a)'
    <3>1. attach'[a] = attach[a] /\ Shown(a) /\ Says(a)
      BY <1>0, <2>3 DEF Shown, RecordsFollow
    <3>2. ASSUME NEW d \in Calls, On(d, a)'
          PROVE  /\ On(d, a) /\ (Allows(d)' <=> Allows(d))
                 /\ call'[d].opposed = call[d].opposed /\ call'[d].todo = call[d].todo
      BY <1>0, <1>2, <1>4, <3>1, <3>2 DEF On, ForGood, Allows, Steps
    <3>3. ASSUME NEW d \in Calls, Ahead(d, a) PROVE Ahead(d, a)'
      <4>1. CASE d # c
        BY <1>4, <3>1, <3>3, <4>1 DEF Ahead, On, ForGood
      <4>2. CASE d = c
        <5>1. SetFlagsRuntime(c)
          BY <2>2, <3>3, <4>2 DEF Ahead, On, ForGood
        <5>2. call' = [call EXCEPT ![c].pc = "config"]
          BY <5>1 DEF SetFlagsRuntime
        <5>3. /\ call'[c].pc = "config" /\ call'[c].kind = call[c].kind /\ call'[c].uid = u
              /\ call'[c].opposed = call[c].opposed /\ call'[c].todo = call[c].todo
          BY <1>0, <1>1, <5>2 DEF TypeOK, Making
        <5> QED BY <3>1, <3>3, <4>2, <5>3 DEF Ahead, On, ForGood, Steps
      <4> QED BY <4>1, <4>2
    <3> QED BY <2>1, <3>1, <3>2, <3>3 DEF Says
  <2>4. TodoListed'
    BY <1>0, <1>2, <1>4 DEF RecordsFollow, TodoListed, Steps
  <2> QED BY <2>3, <2>4 DEF RecordsFollow
<1> QED BY <1>5, <1>6

\* Every step keeps the records in step with the calls and the configuration.
LEMMA FollowStep == IInv /\ [Next]_vars /\ RecordsFollow => RecordsFollow'
<1> SUFFICES ASSUME IInv, [Next]_vars, RecordsFollow PROVE RecordsFollow'
  OBVIOUS
<1>1. CASE UNCHANGED vars
  BY <1>1, NothingToFollow DEF vars, configVars
<1>2. ASSUME NEW ok \in BOOLEAN, WriteBegin \/ WriteEnd(ok) PROVE RecordsFollow'
  BY <1>2, NothingToFollow DEF WriteBegin, WriteEnd
<1>3. ASSUME NEW a \in Attaches,
             \/ \E p \in Pids : AttachFind(a, p)
             \/ AddClientRead(a) \/ AddClientLink(a) \/ AddClientList(a)
             \/ ClientDied(a) \/ RequestPermission(a)
      PROVE  RecordsFollow'
  BY <1>3, AttachFollows
<1>4. ASSUME NEW p \in Pids, ProcessDies(p) \/ ProcessStarts(p) PROVE RecordsFollow'
  BY <1>4, NothingToFollow DEF ProcessDies, ProcessStarts, configVars
<1>5. ASSUME NEW c \in Calls, NEW p \in Pids, NEW allowed \in BOOLEAN, NEW onetime \in BOOLEAN,
             Confirm(c, p, allowed, onetime)
      PROVE  RecordsFollow'
  <2> DEFINE kind == IF onetime THEN "onetime" ELSE "confirm"
             to == IF allowed THEN "allowed" ELSE "denied"
             names == Listed(UidOf[p]) # {}
  <2>1. UidOf[p] \in Uids /\ kind \in {"confirm", "onetime", "flags"} /\ to \in Flags /\ names \in BOOLEAN
    BY UidOfAssumption DEF Flags
  <2>2. Begin(c, kind, UidOf[p], to, names) /\ cfg' = cfg
    BY <1>5 DEF Confirm, configVars
  <2> HIDE DEF kind, to, names
  <2> QED BY <2>1, <2>2, BeginFollows
<1>6. ASSUME NEW c \in Calls, NEW u \in Uids, NEW flags \in Flags, SetFlags(c, u, flags)
      PROVE  RecordsFollow'
  BY <1>6, BeginFollows DEF SetFlags, configVars
<1>7. ASSUME NEW c \in Calls, NEW a \in Attaches,
             ConfirmRecord(c, a) \/ SetFlagsRecord(c, a) \/ SetFlagsThrows(c, a)
      PROVE  RecordsFollow'
  BY <1>7, WrittenFollows, ThrowsFollows
<1>8. ASSUME NEW c \in Calls,
             ConfirmOnetime(c) \/ ConfirmUpdate(c) \/ ConfirmGrant(c) \/ SetFlagsRuntime(c) \/ SetFlagsUpdate(c)
      PROVE  RecordsFollow'
  BY <1>8, PlacesFollow
<1>9. CASE Restart
  <2>1. \A a \in Attaches : ~Shown(a)'
    BY <1>9 DEF Restart, Shown, Gone
  <2>2. TodoListed'
    BY <1>9 DEF Restart, TodoListed, Idle, Done, Steps
  <2> QED BY <2>1, <2>2 DEF RecordsFollow
<1> QED BY <1>1, <1>2, <1>3, <1>4, <1>5, <1>6, <1>7, <1>8, <1>9 DEF Next

\* The records follow the calls and the configuration in every reachable state.
THEOREM Following == Spec => []RecordsFollow
<1>1. Init => RecordsFollow
  BY DEF Init, RecordsFollow, TodoListed, Shown, Idle, Steps
<1> QED BY <1>1, Invariance, FollowStep, PTL DEF Spec

\* With no lasting call on its uid in progress, a record that is not apart allows what the
\* configuration allows, whatever calls overlapped before.
THEOREM RecordsAgree == Spec => []RecordsFollowConfig
<1>1. RecordsFollow => RecordsFollowConfig
  <2> SUFFICES ASSUME RecordsFollow, NEW u \in Uids, Lasting(u) = {}, NEW a \in Listed(u), ~attach[a].apart
               PROVE  attach[a].allowed <=> cfg[u].flags = "allowed"
    BY DEF RecordsFollowConfig
  <2>1. a \in Attaches /\ UidOf[attach[a].pid] = u /\ Says(a)
    BY DEF Listed, InState, RecordsFollow, Shown
  <2>2. \A c \in Calls : ~On(c, a)
    BY <2>1 DEF Lasting, On, ForGood
  <2> QED BY <2>1, <2>2 DEF Says, Ahead
<1> QED BY <1>1, Following, PTL

-----------------------------------------------------------------------------
(* Who is served                                                            *)

\* A record that is not apart says no while a refusal stands, and yes while a grant does,
\* also between the steps of calls that agree with it.
LEMMA RecordsStand ==
  ASSUME IInv, RecordsFollow, NEW u \in Uids, NEW a \in Listed(u), ~attach[a].apart
  PROVE  /\ u \in barred => ~attach[a].allowed
         /\ u \in granted => attach[a].allowed
<1>1. a \in Attaches /\ UidOf[attach[a].pid] = u /\ Says(a)
  BY DEF Listed, InState, RecordsFollow, Shown
<1>2. CASE attach[a].allowed <=> cfg[u].flags = "allowed"
  BY <1>2 DEF IInv, Standing, RefusalStands, GrantStands
<1>3. ASSUME NEW c \in Calls, Ahead(c, a)
      PROVE  /\ u \in barred => ~attach[a].allowed
             /\ u \in granted => attach[a].allowed
  <2>1. ForGood(c) /\ call[c].uid = u /\ (attach[a].allowed <=> Allows(c))
    BY <1>1, <1>3 DEF Says, Ahead, On
  <2> QED BY <2>1 DEF IInv, Standing, RefusalStands, GrantStands
<1> QED BY <1>1, <1>2, <1>3 DEF Says

\* No process of a uid whose refusal stands is served but through a record of its own that
\* is apart: neither its records nor, without one, the runtime permission allow it.
THEOREM BarredRefused == Spec => []RefusedUnlessAllowed
<1>1. IInv /\ RecordsFollow => RefusedUnlessAllowed
  <2> SUFFICES ASSUME IInv, RecordsFollow, NEW p \in Pids, UidOf[p] \in barred,
                      \A a \in RecordsOf(p) : ~attach[a].apart
               PROVE  ~MayCall(p)
    BY DEF RefusedUnlessAllowed
  <2>1. UidOf[p] \in Uids
    BY UidOfAssumption
  <2>2. ~runtime[UidOf[p]]
    BY DEF IInv, Standing, RefusalStands
  <2>3. \A a \in RecordsOf(p) : ~attach[a].allowed
    BY <2>1, RecordsStand DEF RecordsOf
  <2> QED BY <2>2, <2>3 DEF MayCall
<1> QED BY <1>1, Invariance, Following, PTL

\* Every process of a uid whose grant stands is served, unless a record of its own is apart.
THEOREM GrantedServed == Spec => []GrantedIsServed
<1>1. IInv /\ RecordsFollow => GrantedIsServed
  <2> SUFFICES ASSUME IInv, RecordsFollow, NEW p \in Pids, UidOf[p] \in granted,
                      UidOf[p] \in declaring \/ RecordsOf(p) # {},
                      \A a \in RecordsOf(p) : ~attach[a].apart
               PROVE  MayCall(p)
    BY DEF GrantedIsServed
  <2>1. UidOf[p] \in Uids
    BY UidOfAssumption
  <2>2. UidOf[p] \in declaring => runtime[UidOf[p]]
    BY DEF IInv, Standing, GrantStands
  <2>3. \A a \in RecordsOf(p) : attach[a].allowed
    BY <2>1, RecordsStand DEF RecordsOf
  <2> QED BY <2>2, <2>3 DEF MayCall
<1> QED BY <1>1, Invariance, Following, PTL
=============================================================================
