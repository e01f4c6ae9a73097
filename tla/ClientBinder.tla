----------------------------- MODULE ClientBinder -----------------------------
(***************************************************************************)
(* The app's side of the binder: Shizuku (the client library), its provider   *)
(* ShizukuProvider and what MainActivity does with them.  Two kinds of server *)
(* may send their binder, the embedded one of Internal Shizuku and the one of *)
(* the installed Shizuku app; the provider caches both and makes the one of   *)
(* the selected mode current.                                                *)
(*                                                                          *)
(* None of it is synchronized: sendBinder, getBinder, bindApplication and     *)
(* death notices arrive on binder threads, mode switches and refreshes run on *)
(* the main thread, and all of them write the same static fields.  Every      *)
(* statement that reads or writes one of these fields is a step; writes that  *)
(* directly follow one another are one.  Listeners are called under the       *)
(* monitor of their list: posted to the main thread from a binder thread, and *)
(* called at once on the main thread, where the app's listener refreshes its  *)
(* status in the middle of onBinderReceived.                                  *)
(***************************************************************************)
EXTENDS Naturals, Sequences

CONSTANTS
  Servers,   \* server processes, each of them started at most once
  Embedded,  \* the ones of Internal Shizuku
  Binders,   \* binder threads of the app's process
  None,      \* null
  MaxSends,  \* bound: sendBinder calls of one server
  MaxActs,   \* bound: what the user does (mode switches, start and stop buttons)
  MaxGets,   \* bound: getBinder calls of other processes
  MaxDeaths, \* bound: servers that die
  Sticky     \* whether somebody adds a sticky listener

ASSUME EmbeddedAssumption == Embedded \subseteq Servers
ASSUME NoneAssumption == None \notin Servers
ASSUME BoundsAssumption == MaxSends \in Nat /\ MaxActs \in Nat /\ MaxGets \in Nat /\ MaxDeaths \in Nat
ASSUME StickyAssumption == Sticky \in BOOLEAN

VARIABLES
  server,   \* life of each server
  binder, ready,  \* static fields of Shizuku (ready: binderReady; service goes with binder)
  flag,     \* currentBinderEmbedded
  cached,   \* cachedEmbeddedBinder (TRUE) and cachedExternalBinder (FALSE)
  config,   \* ShizukuConfig.embedded
  pref,     \* the selected ExecMode
  links,    \* how often DEATH_RECIPIENT is linked to a server's binder
  attached, \* servers that hold a client record of this process
  replies,  \* bindApplication calls on their way from a server
  thread,   \* what each thread is doing
  todo,     \* what the main thread does next
  posted,   \* messages to the main thread: a refresh, a late restore
  sticky,   \* a sticky listener of the app
  done      \* bounds: calls so far

vars == <<server, binder, ready, flag, cached, config, pref, links, attached,
          replies, thread, todo, posted, sticky, done>>

statics == <<binder, ready, flag, cached, config>>
world   == <<server, links, attached, replies>>

Main    == "main"
Threads == Binders \cup {Main}
Modes   == {"shizuku", "internal", "other"}

Up(s) == s \in Servers /\ server[s] = "up"

\* isEmbeddedModeSelected
EmbeddedMode == config \/ pref = "internal"

\* hasEmbeddedBinder (TRUE), hasExternalBinder (FALSE)
Accepted(kind) == flag = kind /\ Up(binder)

Pcs == {"idle", "mode", "cache", "ping", "flag",   \* handleSendBinder
        "same", "forget", "notify",                       \* onBinderReceived(null)
        "replace", "unlink", "set", "link", "attach",        \* onBinderReceived
        "unready", "post", "ready",                                  \* DEATH_RECIPIENT, bindApplication
        "compare", "replied"}                                        \* handleGetBinder
Idle == [pc |-> "idle", from |-> None, new |-> None, mode |-> FALSE, ret |-> "idle"]

Init ==
  /\ server = [s \in Servers |-> "down"]
  /\ binder = None /\ ready = FALSE
  /\ flag = FALSE
  /\ cached = [kind \in BOOLEAN |-> None]
  /\ pref \in Modes
  /\ config = (pref = "internal")
  /\ links = [s \in Servers |-> 0]
  /\ attached = {}
  /\ replies = [s \in Servers |-> 0]
  /\ thread = [t \in Threads |-> Idle]
  /\ todo = <<>>
  /\ posted = {}
  /\ sticky = [state |-> "none", told |-> FALSE]
  /\ done = [sends |-> [s \in Servers |-> 0], acts |-> 0, gets |-> 0, deaths |-> 0]

-----------------------------------------------------------------------------
(* Threads                                                                  *)

At(t, pc) == thread[t].pc = pc
Goto(t, pc) == thread' = [thread EXCEPT ![t].pc = pc]

\* onBinderReceived(new) on thread t, which goes on at ret.
Receive(t, new, ret) ==
  thread' = [thread EXCEPT ![t].pc = "same", ![t].new = new, ![t].ret = ret]

\* The end of onBinderReceived.
Return(t) ==
  thread' = [thread EXCEPT ![t] = IF @.ret = "idle" THEN Idle
                                    ELSE [@ EXCEPT !.pc = thread[t].ret]]

\* An exception leaves the provider's call or the main thread's try block.
Throw(t) == thread' = [thread EXCEPT ![t] = Idle]

\* The main thread holds the monitor of RECEIVED_LISTENERS while the app's
\* listener refreshes inside it.
Locked == \E i \in DOMAIN todo : todo[i].op = "unlock"

\* What the main thread can have to do.
Ops == {"config", "clear", "forget", "unflag", "restore", "activate", "refresh", "unlock"}
Do(op)       == [op |-> op, kind |-> FALSE, from |-> None]
RestoreOf(k) == [op |-> "restore", kind |-> k, from |-> None]

-----------------------------------------------------------------------------
(* Shizuku.onBinderReceived                                                 *)

Same(t) ==
  /\ At(t, "same")
  /\ IF binder = thread[t].new THEN Return(t)
     ELSE Goto(t, IF thread[t].new = None THEN "forget" ELSE "replace")
  /\ UNCHANGED <<statics, world, pref, todo, posted, sticky, done>>

Forget(t) ==
  /\ At(t, "forget")
  /\ binder' = None
  /\ Goto(t, "notify")
  /\ UNCHANGED <<ready, flag, cached, config, world, pref, todo, posted, sticky, done>>

\* scheduleBinderDeadListeners
NotifyDead(t) ==
  /\ At(t, "notify")
  /\ t # Main => ~Locked
  /\ IF t = Main
     THEN todo' = <<Do("refresh"), Do("unlock")>> \o todo /\ UNCHANGED posted
     ELSE posted' = posted \cup {"refresh"} /\ UNCHANGED todo
  /\ Return(t)
  /\ UNCHANGED <<statics, world, pref, sticky, done>>

Replace(t) ==
  /\ At(t, "replace")
  /\ Goto(t, IF binder = None THEN "set" ELSE "unlink")
  /\ UNCHANGED <<statics, world, pref, todo, posted, sticky, done>>

\* links without one link to s, if there is one.
Unlinked(s) == [links EXCEPT ![s] = IF @ = 0 THEN 0 ELSE @ - 1]

\* binder.unlinkToDeath: throws if binder has become null, or if it is alive and
\* has no link; the notice of a server that is dead may come nevertheless.
Unlink(t) ==
  /\ At(t, "unlink")
  /\ IF binder = None \/ (Up(binder) /\ links[binder] = 0)
     THEN Throw(t) /\ UNCHANGED links
     ELSE /\ Goto(t, "set")
          /\ links' \in {Unlinked(binder)} \cup IF Up(binder) THEN {} ELSE {links}
  /\ UNCHANGED <<statics, server, attached, replies, pref, todo, posted, sticky, done>>

Set(t) ==
  /\ At(t, "set")
  /\ binder' = thread[t].new
  /\ Goto(t, "link")
  /\ UNCHANGED <<ready, flag, cached, config, world, pref, todo, posted, sticky, done>>

\* Mutant: one link at a time is enough.
Linked_Once(s) == IF \E r \in Servers : links[r] > 0 THEN links ELSE [links EXCEPT ![s] = @ + 1]
Linked(s) == [links EXCEPT ![s] = @ + 1]

\* binder.linkToDeath, on the field as it is now; whatever it throws is caught.
Link(t) ==
  /\ At(t, "link")
  /\ links' = IF Up(binder) THEN Linked(binder) ELSE links
  /\ Goto(t, "attach")
  /\ UNCHANGED <<statics, server, attached, replies, pref, todo, posted, sticky, done>>

\* Mutant: a process that is ready does not attach again.
CanAttach_NotReady == Up(binder) /\ ~ready
CanAttach == Up(binder)

\* attachApplication: the server answers with bindApplication, except an installed
\* one that already has a record of this process (it throws then).
AttachApplication(t) ==
  /\ At(t, "attach")
  /\ IF CanAttach
     THEN /\ attached' = attached \cup {binder}
          /\ replies' = [replies EXCEPT ![binder] =
                           IF binder \in attached \ Embedded THEN @ ELSE @ + 1]
     ELSE UNCHANGED <<attached, replies>>
  /\ Return(t)
  /\ UNCHANGED <<statics, server, links, pref, todo, posted, sticky, done>>

OnBinderReceived(t) ==
  \/ Same(t) \/ Forget(t) \/ NotifyDead(t)
  \/ Replace(t) \/ Unlink(t) \/ Set(t) \/ Link(t) \/ AttachApplication(t)

-----------------------------------------------------------------------------
(* Calls and notices that arrive on binder threads                          *)

\* A server that is up sends its binder through the provider.
SendBinder(b, s) ==
  /\ At(b, "idle")
  /\ Up(s)
  /\ done.sends[s] < MaxSends
  /\ done' = [done EXCEPT !.sends[s] = @ + 1]
  /\ thread' = [thread EXCEPT ![b].pc = "mode", ![b].from = s]
  /\ UNCHANGED <<statics, world, pref, todo, posted, sticky>>

\* handleSendBinder reads the mode first.
ReadMode(b) ==
  /\ At(b, "mode")
  /\ thread' = [thread EXCEPT ![b].pc = "cache", ![b].mode = EmbeddedMode]
  /\ UNCHANGED <<statics, world, pref, todo, posted, sticky, done>>

Kind(b) == thread[b].from \in Embedded

\* The binder is kept for a later switch, and goes no further in the wrong mode.
Cache(b) ==
  /\ At(b, "cache")
  /\ cached' = [cached EXCEPT ![Kind(b)] = thread[b].from]
  /\ IF thread[b].mode = Kind(b)
     THEN Goto(b, "ping") /\ config' = (config \/ Kind(b))
     ELSE Throw(b) /\ UNCHANGED config
  /\ UNCHANGED <<binder, ready, flag, world, pref, todo, posted, sticky, done>>

\* A live binder of the same kind stays; one of the other kind is given up.
Ping(b) ==
  /\ At(b, "ping")
  /\ IF ~Up(binder) THEN Goto(b, "flag")
     ELSE IF flag = Kind(b) THEN Throw(b)
     ELSE Receive(b, None, "flag")
  /\ UNCHANGED <<statics, world, pref, todo, posted, sticky, done>>

SetFlag(b) ==
  /\ At(b, "flag")
  /\ flag' = Kind(b)
  /\ Receive(b, thread[b].from, "idle")
  /\ UNCHANGED <<binder, ready, cached, config, world, pref, todo, posted, sticky, done>>

\* DEATH_RECIPIENT: binderReady = false, then onBinderReceived(null).
DeathNotice(b) ==
  /\ At(b, "idle")
  /\ \E s \in Servers :
       /\ server[s] = "dead"
       /\ links[s] > 0
       /\ links' = [links EXCEPT ![s] = @ - 1]
  /\ Goto(b, "unready")
  /\ UNCHANGED <<statics, server, attached, replies, pref, todo, posted, sticky, done>>

\* Mutant: a notice counts only while the binder is ready.
Dead_IfReady(b) == IF ready THEN Receive(b, None, "idle") ELSE Throw(b)
Dead(b) == Receive(b, None, "idle")

Unready(b) ==
  /\ At(b, "unready")
  /\ ready' = FALSE
  /\ Dead(b)
  /\ UNCHANGED <<binder, flag, cached, config, world, pref, todo, posted, sticky, done>>

\* bindApplication, a one-way call: the server may be dead by now.
BindApplication(b) ==
  /\ At(b, "idle")
  /\ \E s \in Servers : replies[s] > 0 /\ replies' = [replies EXCEPT ![s] = @ - 1]
  /\ Goto(b, "post")
  /\ UNCHANGED <<statics, server, links, attached, pref, todo, posted, sticky, done>>

\* scheduleBinderReceivedListeners: the listeners, then binderReady.
NotifyReceived(b) ==
  /\ At(b, "post")
  /\ ~Locked
  /\ posted' = posted \cup {"refresh"}
  /\ sticky' = IF sticky.state = "listed" THEN [sticky EXCEPT !.told = TRUE] ELSE sticky
  /\ Goto(b, "ready")
  /\ UNCHANGED <<statics, world, pref, todo, done>>

SetReady(b) ==
  /\ At(b, "ready")
  /\ ready' = TRUE
  /\ Throw(b)
  /\ UNCHANGED <<binder, flag, cached, config, world, pref, todo, posted, sticky, done>>

\* handleGetBinder: the binder first, then the mode it is for.
GetBinder(b) ==
  /\ At(b, "idle")
  /\ done.gets < MaxGets
  /\ Up(binder)
  /\ done' = [done EXCEPT !.gets = @ + 1]
  /\ thread' = [thread EXCEPT ![b].pc = "compare", ![b].from = binder]
  /\ UNCHANGED <<statics, world, pref, todo, posted, sticky>>

Compare(b) ==
  /\ At(b, "compare")
  /\ IF EmbeddedMode = flag
     THEN thread' = [thread EXCEPT ![b].pc = "replied", ![b].mode = flag]
     ELSE Throw(b)
  /\ UNCHANGED <<statics, world, pref, todo, posted, sticky, done>>

Reply(b) ==
  /\ At(b, "replied")
  /\ Throw(b)
  /\ UNCHANGED <<statics, world, pref, todo, posted, sticky, done>>

BinderThread(b) ==
  \/ ReadMode(b) \/ Cache(b) \/ Ping(b) \/ SetFlag(b)
  \/ Unready(b) \/ NotifyReceived(b) \/ SetReady(b) \/ Compare(b) \/ Reply(b)
  \/ OnBinderReceived(b)

-----------------------------------------------------------------------------
(* The main thread                                                          *)

\* Its next statement is op.
Doing(op) == At(Main, "idle") /\ todo # <<>> /\ Head(todo).op = op
Continue(ops) == todo' = ops \o Tail(todo)

\* PermsTestApp.applyShizukuRuntimeConfig
ApplyConfig ==
  /\ Doing("config")
  /\ config' = (pref = "internal")
  /\ Continue(<<>>)
  /\ UNCHANGED <<binder, ready, flag, cached, world, pref, thread, posted, sticky, done>>

\* clearActiveEmbeddedBinder, and clearClientBinder
Clear ==
  /\ Doing("clear")
  /\ Continue(IF flag THEN <<Do("forget"), Do("unflag")>> ELSE <<>>)
  /\ UNCHANGED <<statics, world, pref, thread, posted, sticky, done>>

ClearForget ==
  /\ Doing("forget")
  /\ Receive(Main, None, "idle")
  /\ Continue(<<>>)
  /\ UNCHANGED <<statics, world, pref, posted, sticky, done>>

ClearUnflag ==
  /\ Doing("unflag")
  /\ flag' = FALSE
  /\ Continue(<<>>)
  /\ UNCHANGED <<binder, ready, cached, config, world, pref, thread, posted, sticky, done>>

\* restoreCachedBinder: a cached binder that answers becomes current.
Restore ==
  /\ Doing("restore")
  /\ LET s == cached[Head(todo).kind]
     IN Continue(IF Up(s) THEN <<[op |-> "activate", kind |-> Head(todo).kind, from |-> s]>>
                 ELSE <<>>)
  /\ UNCHANGED <<statics, world, pref, thread, posted, sticky, done>>

\* Mutant: the flag is left as it is.
RestoredFlag_Kept == flag
RestoredFlag == Head(todo).kind

Activate ==
  /\ Doing("activate")
  /\ flag' = RestoredFlag
  /\ Receive(Main, Head(todo).from, "idle")
  /\ Continue(<<>>)
  /\ UNCHANGED <<binder, ready, cached, config, world, pref, posted, sticky, done>>

\* Mutant: the binder is not asked whether it lives.
Satisfied_NotNull == pref = "other" \/ (flag = (pref = "internal") /\ binder # None)

\* hasAcceptedShizukuBinder, which every refresh of the status asks.
Satisfied == pref = "other" \/ Accepted(pref = "internal")

Refresh ==
  /\ Doing("refresh")
  /\ Continue(IF Satisfied THEN <<>> ELSE <<RestoreOf(pref = "internal")>>)
  /\ UNCHANGED <<statics, world, pref, thread, posted, sticky, done>>

Unlock ==
  /\ Doing("unlock")
  /\ Continue(<<>>)
  /\ UNCHANGED <<statics, world, pref, thread, posted, sticky, done>>

MainThread ==
  \/ ApplyConfig \/ Clear \/ ClearForget \/ ClearUnflag \/ Restore \/ Activate
  \/ Refresh \/ Unlock \/ OnBinderReceived(Main)

Resting == At(Main, "idle") /\ todo = <<>>

Act == done.acts < MaxActs /\ done' = [done EXCEPT !.acts = @ + 1]

\* selectExecMode: the preference, the configuration, the binder, the status; a
\* switch to internal goes through resetServerStateAndStartDiscovery.
SelectMode(m) ==
  /\ Resting
  /\ Act
  /\ pref' = m
  /\ todo' = <<Do("config")>> \o
       (IF m = "shizuku" THEN <<Do("clear"), RestoreOf(FALSE), Do("refresh")>>
        ELSE IF m = "internal" /\ pref # "internal"
             THEN <<RestoreOf(TRUE), Do("clear"), Do("refresh")>>
        ELSE <<>>) \o <<Do("refresh")>>
  /\ UNCHANGED <<statics, world, thread, posted, sticky>>

\* switchExecModeToInstalledShizuku, which restores once more after 700 ms.
SwitchToInstalled ==
  /\ Resting
  /\ Act
  /\ pref' = "shizuku"
  /\ todo' = <<Do("config"), Do("clear"), RestoreOf(FALSE), Do("refresh")>>
  /\ posted' = posted \cup {"restore"}
  /\ UNCHANGED <<statics, world, thread, sticky>>

\* requestStartServer and requestStopServer forget the binder, and refresh later.
PressServerButton ==
  /\ Resting
  /\ Act
  /\ todo' = <<Do("clear")>>
  /\ posted' = posted \cup {"refresh"}
  /\ UNCHANGED <<statics, world, pref, thread, sticky>>

\* Refresh, and the actions that refresh the status when they cannot run.
PressRefresh ==
  /\ Resting
  /\ todo' = <<Do("refresh")>>
  /\ UNCHANGED <<statics, world, pref, thread, posted, sticky, done>>

\* The main thread gets to a posted message.
TakePosted(message) ==
  /\ Resting
  /\ message \in posted
  /\ posted' = posted \ {message}
  /\ todo' = (IF message = "restore" THEN <<Do("clear"), RestoreOf(FALSE)>> ELSE <<>>)
               \o <<Do("refresh")>>
  /\ UNCHANGED <<statics, world, pref, thread, sticky, done>>

\* addBinderReceivedListenerSticky: called at once if binderReady, then listed.
StickyAsk ==
  /\ Sticky
  /\ sticky.state = "none"
  /\ sticky' = [state |-> "asked", told |-> ready]
  /\ UNCHANGED <<statics, world, pref, thread, todo, posted, done>>

StickyList ==
  /\ sticky.state = "asked"
  /\ ~Locked
  /\ sticky' = [sticky EXCEPT !.state = "listed"]
  /\ UNCHANGED <<statics, world, pref, thread, todo, posted, done>>

-----------------------------------------------------------------------------
(* Servers                                                                  *)

\* A server is started once none of its kind is left.
ServerStarts(s) ==
  /\ server[s] = "down"
  /\ \A r \in Servers : (r \in Embedded <=> s \in Embedded) => server[r] # "up"
  /\ server' = [server EXCEPT ![s] = "up"]
  /\ UNCHANGED <<statics, links, attached, replies, pref, thread, todo, posted, sticky, done>>

ServerDies(s) ==
  /\ server[s] = "up"
  /\ done.deaths < MaxDeaths
  /\ done' = [done EXCEPT !.deaths = @ + 1]
  /\ server' = [server EXCEPT ![s] = "dead"]
  /\ UNCHANGED <<statics, links, attached, replies, pref, thread, todo, posted, sticky>>

Next ==
  \/ \E b \in Binders :
       \/ \E s \in Servers : SendBinder(b, s)
       \/ DeathNotice(b) \/ BindApplication(b) \/ GetBinder(b)
       \/ BinderThread(b)
  \/ MainThread
  \/ \E m \in Modes : SelectMode(m)
  \/ SwitchToInstalled \/ PressServerButton \/ PressRefresh
  \/ \E message \in {"refresh", "restore"} : TakePosted(message)
  \/ StickyAsk \/ StickyList
  \/ \E s \in Servers : ServerStarts(s) \/ ServerDies(s)

Spec == Init /\ [][Next]_vars

\* Threads run what they have begun, the looper takes its messages, and Binder
\* delivers death notices and one-way calls.  Nothing makes a server start, live or
\* die, a user act, or a binder be sent.
Fairness ==
  /\ \A b \in Binders : WF_vars(BinderThread(b))
  /\ WF_vars(MainThread)
  /\ \A message \in {"refresh", "restore"} : SF_vars(TakePosted(message))
  /\ WF_vars(\E b \in Binders : DeathNotice(b))
  /\ WF_vars(\E b \in Binders : BindApplication(b))

FairSpec == Spec /\ Fairness

-----------------------------------------------------------------------------
(* Properties                                                               *)

TypeOK ==
  /\ server \in [Servers -> {"down", "up", "dead"}]
  /\ binder \in Servers \cup {None}
  /\ ready \in BOOLEAN
  /\ flag \in BOOLEAN
  /\ cached \in [BOOLEAN -> Servers \cup {None}]
  /\ config \in BOOLEAN
  /\ pref \in Modes
  /\ links \in [Servers -> Nat]
  /\ attached \subseteq Servers
  /\ replies \in [Servers -> Nat]
  /\ thread \in [Threads -> [pc : Pcs, from : Servers \cup {None}, new : Servers \cup {None},
                            mode : BOOLEAN, ret : Pcs]]
  /\ todo \in Seq([op : Ops, kind : BOOLEAN, from : Servers \cup {None}])
  /\ posted \subseteq {"refresh", "restore"}
  /\ sticky \in [state : {"none", "asked", "listed"}, told : BOOLEAN]
  /\ done \in [sends : [Servers -> 0..MaxSends], acts : 0..MaxActs, gets : 0..MaxGets,
             deaths : 0..MaxDeaths]

Quiet == todo = <<>> /\ \A t \in Threads : At(t, "idle")

\* However the calls interleave, a current binder whose server lives is one
\* DEATH_RECIPIENT is linked to: the app will hear of its end.
LiveBinderIsWatched == Quiet /\ Up(binder) => links[binder] > 0

\* Nor does the process hold a live binder of a server that has not been told of it: the
\* last one to set the binder attaches to whatever is current then.
CurrentIsAttached == Quiet /\ Up(binder) => binder \in attached

\* When a death comes with nothing else going on, the watched binder does not stay
\* current, whatever is selected, sent or refreshed before the notice arrives.
DeadIsDropped ==
  \A s \in Servers :
    (Quiet /\ binder = s /\ server[s] = "dead" /\ links[s] > 0) ~> (binder # s)

\* Whatever races have left in the provider's fields, an app that keeps asking for its
\* status ends with a live binder that counts for the selected mode, if a server of that
\* mode has sent its binder and lives.
Recovers ==
  \A kind \in BOOLEAN :
    LET mode == IF kind THEN "internal" ELSE "shizuku"
    IN <>[](pref = mode /\ Up(cached[kind])) /\ []<>(todo = <<Do("refresh")>>)
         => <>[]Accepted(kind)

\* A sticky listener is called at once "if the binder is already received", and else when
\* it is: none is left waiting beside a binder that is ready.
StickyIsTold == Quiet /\ sticky.state = "listed" /\ ready => sticky.told
=============================================================================
