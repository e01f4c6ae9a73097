-------------------------- MODULE ClientPermissions --------------------------
(***************************************************************************)
(* Who may use the privileged server (ShizukuService, Service, ClientManager *)
(* and ShizukuConfigManager).  A process attaches and gets a client record   *)
(* whose allowed field comes from the configuration; the manager app answers *)
(* permission prompts and sets flags; a decision lives in three places: the  *)
(* records of attached processes, the configuration (in memory, written to a *)
(* file ten seconds later) and Android's runtime permission.  The server may *)
(* be killed and restarted between any two steps.                            *)
(*                                                                          *)
(* attachApplication runs under the service's monitor only while it adds the *)
(* record.  The manager's calls take no monitor but the configuration's, in  *)
(* update: an answer to a prompt and updateFlagsForUid run on binder threads *)
(* of their own, so several calls are in progress at once and every record   *)
(* and every place is written by a step of its own.                          *)
(***************************************************************************)
EXTENDS Naturals

CONSTANTS
  Uids,       \* uids of client apps (the manager's own uid is not one)
  Pids,       \* processes
  UidOf,      \* the uid of a process
  Attaches,   \* attachApplication calls of one behaviour (bound)
  Calls       \* calls the manager makes in one behaviour (bound)

ASSUME UidOfAssumption == UidOf \in [Pids -> Uids]

VARIABLES
  declaring, \* uids with a package that requests PERMISSION in its manifest
  cfg,       \* config.packages: the entry of a uid
  file,      \* shizuku.json as AtomicFile would read it back
  write,     \* mWriteRunner: not posted ("failed": after a failed write), posted,
             \* running, or running and posted again
  writing,   \* the configuration the running mWriteRunner turned into JSON
             \* (empty while none runs)
  runtime,   \* Android's runtime permission of a uid
  attach,    \* attach calls and the client records they made; apart (history) marks
             \* a record that need not follow the configuration
  proc,      \* which processes are alive
  prompts,   \* processes with a confirmation dialog on screen
  call,      \* the manager's calls; opposed (history) marks a lasting
             \* call that overlapped one of the other direction on its uid
  granted,   \* history: uids with a lasting grant that nothing went against
  barred     \* history: uids that nobody allowed, or that a completed call refused

configVars  == <<cfg, file, write, writing>>
systemVars  == <<declaring, runtime>>
appVars     == <<proc, prompts>>
historyVars == <<granted, barred>>
vars == <<configVars, systemVars, attach, appVars, call, historyVars>>

Flags   == {"unset", "allowed", "denied"}
\* named: entry.packages lists a package, so the entry survives a load.
Entry   == [flags : Flags, named : BOOLEAN]
NoEntry == [flags |-> "none"]
Entries == Entry \cup {NoEntry}
Configs == [Uids -> Entries]

AttachStates == {"none", "checked", "read", "linked", "listed", "gone"}
InState(u, ss) == {a \in Attaches : attach[a].state \in ss /\ UidOf[attach[a].pid] = u}
Empty == [u \in Uids |-> NoEntry]
Gone  == [state |-> "gone"]
Idle  == [pc |-> "idle"]   \* a call that was not made yet
Done  == [pc |-> "done"]
Steps == {"records", "config", "runtime"}

\* findClients: every process of the uid has a record of its own.
Listed(u) == InState(u, {"listed"})

\* Records that have read the configuration.
Made(u) == InState(u, {"read", "linked", "listed"})

\* The calls in progress that change the lasting decision on a uid, and those of them that
\* decide the other way.
Lasting(u) == {c \in Calls : call[c].pc \in Steps /\ call[c].kind # "onetime" /\ call[c].uid = u}
Opposing(u, to) == {c \in Lasting(u) : (call[c].to = "allowed") # (to = "allowed")}

-----------------------------------------------------------------------------
(* ShizukuConfigManager                                                     *)

\* updateLocked: nothing at all changes when the flags do not.
Updated(e, flags, names) ==
  IF e = NoEntry THEN [flags |-> flags, named |-> names]
  ELSE IF e.flags = flags THEN e
  ELSE [flags |-> flags, named |-> e.named \/ names]

\* Mutant: a write that is running counts as one that is pending.
Scheduled_Running(w) == IF w = "running" THEN w ELSE "posted"

\* scheduleWriteLocked; a runner that already left the queue is posted again.
Scheduled(w) == IF w \in {"running", "rerun"} THEN "rerun" ELSE "posted"

Update(u, flags, names) ==
  /\ cfg' = [cfg EXCEPT ![u] = Updated(@, flags, names)]
  /\ write' = IF cfg[u] # NoEntry /\ cfg[u].flags = flags THEN write ELSE Scheduled(write)

\* Mutant: entries read from the file are kept as they are.
Loaded_File(f, rt) ==
  [u \in Uids |-> IF f[u] # NoEntry /\ f[u].named THEN f[u]
                  ELSE IF u \in declaring
                       THEN [flags |-> IF rt[u] THEN "allowed" ELSE "unset", named |-> TRUE]
                  ELSE NoEntry]

\* The constructor: entries without packages are dropped, and the flags of every
\* uid that requests the permission are set from the runtime permission.
Loaded(f, rt) ==
  [u \in Uids |->
     IF u \in declaring THEN [flags |-> IF rt[u] THEN "allowed" ELSE "unset", named |-> TRUE]
     ELSE IF f[u] # NoEntry /\ f[u].named THEN f[u]
     ELSE NoEntry]

\* The constructor schedules a write when it dropped or set an entry.
LoadSchedules(f) == declaring # {} \/ \E u \in Uids : f[u] # NoEntry /\ ~f[u].named

Init ==
  /\ declaring \in SUBSET Uids
  /\ runtime \in {r \in [Uids -> BOOLEAN] : \A u \in Uids : r[u] => u \in declaring}
  /\ file = Empty
  /\ cfg = Loaded(file, runtime)
  /\ write = IF LoadSchedules(file) THEN "posted" ELSE "none"
  /\ writing = Empty
  /\ attach = [a \in Attaches |-> [state |-> "none"]]
  /\ proc = [p \in Pids |-> TRUE]
  /\ prompts = {}
  /\ call = [c \in Calls |-> Idle]
  /\ granted = {u \in Uids : runtime[u]}
  /\ barred = {u \in Uids : ~runtime[u]}

\* mWriteRunner leaves the queue and serialises the configuration as it is.
WriteBegin ==
  /\ write = "posted"
  /\ write' = "running"
  /\ writing' = cfg
  /\ UNCHANGED <<cfg, file, systemVars, attach, appVars, call, historyVars>>

\* finishWrite, or failWrite: an update made while toJson iterates throws, and
\* so may the stream; the file keeps its old content then, and nothing retries.
WriteEnd(ok) ==
  /\ write \in {"running", "rerun"}
  /\ file' = IF ok THEN writing ELSE file
  /\ write' = IF write = "rerun" THEN "posted" ELSE IF ok THEN "none" ELSE "failed"
  /\ writing' = Empty
  /\ UNCHANGED <<cfg, systemVars, attach, appVars, call, historyVars>>

-----------------------------------------------------------------------------
(* attachApplication                                                        *)

\* clientManager.findClient returned null, outside the monitor.
AttachFind(a, p) ==
  /\ attach[a].state = "none"
  /\ proc[p]
  /\ \A b \in Listed(UidOf[p]) : attach[b].pid # p
  /\ attach' = [attach EXCEPT ![a] = [state |-> "checked", pid |-> p, allowed |-> FALSE,
                                        notified |-> FALSE, apart |-> FALSE]]
  /\ UNCHANGED <<configVars, systemVars, appVars, call, historyVars>>

\* Mutant: a new record starts without the permission.
AddClientRead_Unset(a) ==
  /\ attach[a].state = "checked"
  /\ \A b \in Attaches : attach[b].state \notin {"read", "linked"}
  /\ attach' = [attach EXCEPT ![a].state = "read",
                              ![a].apart = Lasting(UidOf[attach[a].pid]) # {}]
  /\ UNCHANGED <<configVars, systemVars, appVars, call, historyVars>>

\* Mutant: only a uid that was denied is refused.
AddClientRead_NotDenied(a) ==
  /\ attach[a].state = "checked"
  /\ \A b \in Attaches : attach[b].state \notin {"read", "linked"}
  /\ attach' = [attach EXCEPT ![a].state = "read",
                              ![a].allowed = cfg[UidOf[attach[a].pid]].flags # "denied",
                              ![a].apart = Lasting(UidOf[attach[a].pid]) # {}]
  /\ UNCHANGED <<configVars, systemVars, appVars, call, historyVars>>

\* addClient reads the configuration; the service's monitor admits one attach.
\* A call in progress has already listed the records it will write.
AddClientRead(a) ==
  /\ attach[a].state = "checked"
  /\ \A b \in Attaches : attach[b].state \notin {"read", "linked"}
  /\ attach' = [attach EXCEPT ![a].state = "read",
                              ![a].allowed = cfg[UidOf[attach[a].pid]].flags = "allowed",
                              ![a].apart = Lasting(UidOf[attach[a].pid]) # {}]
  /\ UNCHANGED <<configVars, systemVars, appVars, call, historyVars>>

\* linkToDeath fails when the process is already dead.
AddClientLink(a) ==
  /\ attach[a].state = "read"
  /\ attach' = [attach EXCEPT ![a] = IF proc[@.pid] THEN [@ EXCEPT !.state = "linked"] ELSE Gone]
  /\ UNCHANGED <<configVars, systemVars, appVars, call, historyVars>>

\* clientRecords.add
AddClientList(a) ==
  /\ attach[a].state = "linked"
  /\ attach' = [attach EXCEPT ![a].state = "listed"]
  /\ UNCHANGED <<configVars, systemVars, appVars, call, historyVars>>

\* deathRecipient: clientRecords.remove, which finds nothing before the add.
ClientDied(a) ==
  /\ attach[a].state \in {"linked", "listed"}
  /\ ~proc[attach[a].pid]
  /\ ~attach[a].notified
  /\ attach' = [attach EXCEPT ![a] = IF @.state = "listed" THEN Gone ELSE [@ EXCEPT !.notified = TRUE]]
  /\ UNCHANGED <<configVars, systemVars, appVars, call, historyVars>>

ProcessDies(p) ==
  /\ proc[p]
  /\ proc' = [proc EXCEPT ![p] = FALSE]
  /\ UNCHANGED <<configVars, systemVars, attach, prompts, call, historyVars>>

\* The app starts again, under a pid that no client record holds.
ProcessStarts(p) ==
  /\ ~proc[p]
  /\ {a \in Attaches : attach[a].state \notin {"none", "gone"} /\ attach[a].pid = p} = {}
  /\ proc' = [proc EXCEPT ![p] = TRUE]
  /\ UNCHANGED <<configVars, systemVars, attach, prompts, call, historyVars>>

\* requestPermission, neither allowed nor denied for good: the manager shows a dialog.
RequestPermission(a) ==
  /\ attach[a].state = "listed"
  /\ proc[attach[a].pid]
  /\ ~attach[a].allowed
  /\ cfg[UidOf[attach[a].pid]].flags # "denied"
  /\ attach[a].pid \notin prompts
  /\ prompts' = prompts \cup {attach[a].pid}
  /\ UNCHANGED <<configVars, systemVars, attach, proc, call, historyVars>>

-----------------------------------------------------------------------------
(* The manager's calls.  Binder hands the oneway answers to one thread after *)
(* another, updateFlagsForUid to any; nothing below relies on the former.    *)

SetApart(as) == [a \in Attaches |-> IF a \in as THEN [attach[a] EXCEPT !.apart = TRUE] ELSE attach[a]]

\* findClients.  (History: a record that is not in the list yet will be missed, and
\* opposing calls leave the records of the uid in whatever order they write.)
Begin(c, kind, u, to, names) ==
  LET opposing == IF kind = "onetime" THEN {} ELSE Opposing(u, to)
  IN /\ call[c] = Idle
     /\ call' = [d \in Calls |->
          IF d = c THEN [pc |-> "records", kind |-> kind, uid |-> u, to |-> to, todo |-> Listed(u),
                         names |-> names, opposed |-> opposing # {}]
          ELSE IF d \in opposing THEN [call[d] EXCEPT !.opposed = TRUE]
          ELSE call[d]]
     /\ attach' = SetApart(IF kind = "onetime" THEN {}
                           ELSE IF opposing # {} THEN Made(u)
                           ELSE Made(u) \ Listed(u))
     /\ granted' = IF kind = "onetime" \/ to = "allowed" THEN granted ELSE granted \ {u}
     /\ barred' = IF kind # "onetime" /\ to = "allowed" THEN barred \ {u} ELSE barred

\* The next record of the call's list; one that has left clientRecords meanwhile
\* is written to no effect.
Written(c, a) ==
  IF attach[a].state # "listed" THEN attach
  ELSE [attach EXCEPT ![a].allowed = call[c].to = "allowed",
                      ![a].apart = call[c].kind = "onetime" \/ call[c].opposed]

\* The call is over; its decision stands if nothing went against it.
Settled(c) ==
  LET u == call[c].uid
      stands == ~call[c].opposed
  IN /\ call' = [call EXCEPT ![c] = Done]
     /\ granted' = IF stands /\ call[c].to = "allowed" THEN granted \cup {u} ELSE granted
     /\ barred' = IF stands /\ call[c].to # "allowed" /\ (call[c].kind = "flags" \/ ~runtime[u])
                  THEN barred \cup {u} ELSE barred

\* dispatchPermissionConfirmationResult
Confirm(c, p, allowed, onetime) ==
  /\ p \in prompts
  /\ prompts' = prompts \ {p}
  /\ Begin(c, IF onetime THEN "onetime" ELSE "confirm", UidOf[p],
           IF allowed THEN "allowed" ELSE "denied", Listed(UidOf[p]) # {})
  /\ UNCHANGED <<configVars, systemVars, proc>>

ConfirmRecord(c, a) ==
  /\ call[c].pc = "records"
  /\ call[c].kind # "flags"
  /\ a \in call[c].todo
  /\ attach' = Written(c, a)
  /\ call' = [call EXCEPT ![c].todo = @ \ {a}]
  /\ UNCHANGED <<configVars, systemVars, appVars, historyVars>>

\* ... an answer for one time changes nothing else.
ConfirmOnetime(c) ==
  /\ call[c].pc = "records"
  /\ call[c].kind = "onetime"
  /\ call[c].todo = {}
  /\ call' = [call EXCEPT ![c] = Done]
  /\ UNCHANGED <<configVars, systemVars, attach, appVars, historyVars>>

\* Mutant: a lasting denial is not stored.
ConfirmUpdate_GrantOnly(c) ==
  /\ call[c].pc = "records"
  /\ call[c].kind = "confirm"
  /\ call[c].todo = {}
  /\ IF call[c].to = "allowed"
     THEN /\ Update(call[c].uid, call[c].to, call[c].names)
          /\ call' = [call EXCEPT ![c].pc = "runtime"]
          /\ UNCHANGED historyVars
     ELSE UNCHANGED <<cfg, write>> /\ Settled(c)
  /\ UNCHANGED <<file, writing, systemVars, attach, appVars>>

\* ... another one the configuration; a denial ends here.
ConfirmUpdate(c) ==
  /\ call[c].pc = "records"
  /\ call[c].kind = "confirm"
  /\ call[c].todo = {}
  /\ Update(call[c].uid, call[c].to, call[c].names)
  /\ IF call[c].to = "allowed"
     THEN call' = [call EXCEPT ![c].pc = "runtime"] /\ UNCHANGED historyVars
     ELSE Settled(c)
  /\ UNCHANGED <<file, writing, systemVars, attach, appVars>>

\* ... then, for a lasting grant, the runtime permission.
ConfirmGrant(c) ==
  /\ call[c].pc = "runtime"
  /\ runtime' = [runtime EXCEPT ![call[c].uid] = @ \/ call[c].uid \in declaring]
  /\ Settled(c)
  /\ UNCHANGED <<configVars, declaring, attach, appVars>>

\* updateFlagsForUid
SetFlags(c, u, flags) ==
  /\ Begin(c, "flags", u, flags, FALSE)
  /\ UNCHANGED <<configVars, systemVars, appVars>>

ForceStopped(u) == [p \in Pids |-> proc[p] /\ UidOf[p] # u]

\* A record that loses the permission has its package force-stopped and its user
\* services removed.
SetFlagsRecord(c, a) ==
  /\ call[c].pc = "records"
  /\ call[c].kind = "flags"
  /\ a \in call[c].todo
  /\ attach' = Written(c, a)
  /\ proc' = IF call[c].to = "allowed" THEN proc ELSE ForceStopped(call[c].uid)
  /\ call' = [call EXCEPT ![c].todo = @ \ {a}]
  /\ UNCHANGED <<configVars, systemVars, prompts, historyVars>>

\* removeUserServicesForPackage throws: the call ends at this record, and those
\* it has written no longer follow the configuration.
SetFlagsThrows(c, a) ==
  LET w == Written(c, a)
      u == call[c].uid
  IN /\ call[c].pc = "records"
     /\ call[c].kind = "flags"
     /\ call[c].to # "allowed"
     /\ a \in call[c].todo
     /\ attach' = [b \in Attaches |->
          IF b \in Listed(u) /\ (b = a \/ b \notin call[c].todo)
          THEN [w[b] EXCEPT !.apart = TRUE] ELSE w[b]]
     /\ proc' = ForceStopped(u)
     /\ call' = [call EXCEPT ![c] = Done]
     /\ UNCHANGED <<configVars, systemVars, prompts, historyVars>>

\* Mutant: a package that lost the permission keeps Android's.
SetFlagsRuntime_GrantOnly(c) ==
  /\ call[c].pc = "records"
  /\ call[c].kind = "flags"
  /\ call[c].todo = {}
  /\ runtime' = [runtime EXCEPT ![call[c].uid] = @ \/ (call[c].uid \in declaring /\ call[c].to = "allowed")]
  /\ call' = [call EXCEPT ![c].pc = "config"]
  /\ UNCHANGED <<configVars, declaring, attach, appVars, historyVars>>

\* ... then the runtime permission of the packages that request it.
SetFlagsRuntime(c) ==
  /\ call[c].pc = "records"
  /\ call[c].kind = "flags"
  /\ call[c].todo = {}
  /\ runtime' = [runtime EXCEPT ![call[c].uid] = call[c].uid \in declaring /\ call[c].to = "allowed"]
  /\ call' = [call EXCEPT ![c].pc = "config"]
  /\ UNCHANGED <<configVars, declaring, attach, appVars, historyVars>>

\* ... then the configuration, without package names.
SetFlagsUpdate(c) ==
  /\ call[c].pc = "config"
  /\ Update(call[c].uid, call[c].to, call[c].names)
  /\ Settled(c)
  /\ UNCHANGED <<file, writing, systemVars, attach, appVars>>

-----------------------------------------------------------------------------
\* The server is killed and started again: memory is lost, calls with it.  (History:
\* for a uid that does not request the permission only the file counts.  It may still
\* hold the opposite, a write being outstanding, and an entry without names is
\* dropped.)
Restart ==
  /\ cfg' = Loaded(file, runtime)
  /\ write' = IF LoadSchedules(file) THEN "posted" ELSE "none"
  /\ writing' = Empty
  /\ attach' = [a \in Attaches |-> IF attach[a].state = "none" THEN attach[a] ELSE Gone]
  /\ call' = [c \in Calls |-> IF call[c] = Idle THEN Idle ELSE Done]
  /\ granted' = {u \in granted : u \in declaring \/ (write = "none" /\ cfg[u].named)}
  /\ barred' = {u \in barred : u \in declaring \/ write = "none" \/ file[u].flags # "allowed"}
  /\ UNCHANGED <<file, systemVars, appVars>>

Next ==
  \/ WriteBegin
  \/ \E ok \in BOOLEAN : WriteEnd(ok)
  \/ \E a \in Attaches :
       \/ \E p \in Pids : AttachFind(a, p)
       \/ AddClientRead(a) \/ AddClientLink(a) \/ AddClientList(a)
       \/ ClientDied(a) \/ RequestPermission(a)
  \/ \E p \in Pids : ProcessDies(p) \/ ProcessStarts(p)
  \/ \E c \in Calls :
       \/ \E p \in Pids, allowed, onetime \in BOOLEAN : Confirm(c, p, allowed, onetime)
       \/ \E u \in Uids, flags \in Flags : SetFlags(c, u, flags)
       \/ \E a \in Attaches : ConfirmRecord(c, a) \/ SetFlagsRecord(c, a) \/ SetFlagsThrows(c, a)
       \/ ConfirmOnetime(c) \/ ConfirmUpdate(c) \/ ConfirmGrant(c)
       \/ SetFlagsRuntime(c) \/ SetFlagsUpdate(c)
  \/ Restart

Spec == Init /\ [][Next]_vars

-----------------------------------------------------------------------------
(* Properties                                                               *)

\* Every variable keeps its type.
TypeOK ==
  /\ declaring \subseteq Uids
  /\ cfg \in Configs
  /\ file \in Configs
  /\ write \in {"none", "failed", "posted", "running", "rerun"}
  /\ writing \in Configs
  /\ runtime \in [Uids -> BOOLEAN]
  /\ attach \in [Attaches -> [state : {"none", "gone"}] \cup
                 [state : AttachStates, pid : Pids, allowed : BOOLEAN, notified : BOOLEAN, apart : BOOLEAN]]
  /\ proc \in [Pids -> BOOLEAN]
  /\ prompts \in SUBSET Pids
  /\ call \in [Calls -> {Idle, Done} \cup [pc : Steps,
                                          kind : {"confirm", "onetime", "flags"}, uid : Uids, to : Flags,
                                          todo : SUBSET Attaches, names : BOOLEAN, opposed : BOOLEAN]]
  /\ granted \subseteq Uids
  /\ barred \subseteq Uids

\* A refusal lasts: a uid that nobody allowed, or whose revocation was carried out with
\* no opposite call beside it, is not allowed by any later step of the calls still in
\* progress, crash or restart until the manager allows it anew, although the file is
\* written ten seconds late: the constructor believes the runtime permission of a uid
\* that declares it, and another uid loses the refusal only in a crash that finds the
\* write outstanding.  (A denial alone leaves Android's permission, if the uid has it.)
RevokeDurable ==
  \A u \in barred : cfg[u].flags # "allowed"

\* And so does a lasting grant, until a call that refuses the uid begins.
GrantDurable ==
  \A u \in granted : cfg[u].flags = "allowed"

\* A configuration the file does not hold is about to be written, whatever
\* updates meet the running writer; only a failed write is not retried.
UnsavedIsScheduled ==
  write = "none" => file = cfg

\* The copies of a decision agree again when no lasting call on the uid is in progress,
\* however the calls overlapped: a listed record allows what the configuration allows.
\* Excepted (apart) are records with a one-time answer, those read or listed while a
\* call ran, those of opposing calls that overlapped and those a call that broke off
\* had written; the next call that meets no opposition brings them back.
RecordsFollowConfig ==
  \A u \in Uids : Lasting(u) = {} =>
    \A a \in Listed(u) : ~attach[a].apart => (attach[a].allowed <=> cfg[u].flags = "allowed")

\* enforceCallingPermission: a record decides; without one, the runtime permission.
RecordsOf(p) == {a \in Listed(UidOf[p]) : attach[a].pid = p}
MayCall(p) ==
  IF RecordsOf(p) = {} THEN runtime[UidOf[p]] ELSE \E a \in RecordsOf(p) : attach[a].allowed

\* Nobody is served whom nobody allowed or whose permission was taken back: whatever the
\* attaches, late writes, restarts and calls in progress, a process of a barred uid is
\* refused, attached or not, except through a record of its own that is apart
\* (ShizukuService 191-217, ShizukuConfigManager 151-176).
RefusedUnlessAllowed ==
  \A p \in Pids :
    (proc[p] /\ UidOf[p] \in barred /\ \A a \in RecordsOf(p) : ~attach[a].apart) => ~MayCall(p)

\* And whoever was allowed for good is served, whether the process attached before the
\* decision, after it or, if its uid declares the permission, not at all.
GrantedIsServed ==
  \A p \in Pids :
    (/\ UidOf[p] \in granted
     /\ UidOf[p] \in declaring \/ RecordsOf(p) # {}
     /\ \A a \in RecordsOf(p) : ~attach[a].apart)
      => MayCall(p)

=============================================================================
