------------------------- MODULE ClientBinder_proofs -------------------------
(* Theorems about ClientBinder, for any servers, binder threads and bounds.  *)
EXTENDS ClientBinder, SequenceTheorems, TLAPS

\* null and the servers that have been started: all that a field can hold.
Started == {None} \cup {s \in Servers : server[s] # "down"}

Thread == [pc : Pcs, from : Started, new : Started, mode : BOOLEAN, ret : Pcs]
Item   == [op : Ops, kind : BOOLEAN, from : Started]

\* The variables that hold binders, and what the threads are about to do with them.
Holders ==
  /\ binder \in Started
  /\ cached \in [BOOLEAN -> Started]
  /\ thread \in [Threads -> Thread]
  /\ todo \in Seq(Item)

Others ==
  /\ server \in [Servers -> {"down", "up", "dead"}]
  /\ ready \in BOOLEAN /\ flag \in BOOLEAN /\ config \in BOOLEAN
  /\ pref \in Modes
  /\ links \in [Servers -> Nat]
  /\ attached \in SUBSET Servers
  /\ replies \in [Servers -> Nat]
  /\ posted \in SUBSET {"refresh", "restore"}
  /\ sticky \in [state : {"none", "asked", "listed"}, told : BOOLEAN]
  /\ done \in [sends : [Servers -> 0..MaxSends], acts : 0..MaxActs, gets : 0..MaxGets,
               deaths : 0..MaxDeaths]

\* A current binder that lives is linked to, or some thread has still to link.
Watching == Up(binder) => links[binder] > 0 \/ \E t \in Threads : thread[t].pc \in {"set", "link"}

\* Its server has a record of this process, or some thread has still to attach.
Attaching ==
  Up(binder) => binder \in attached \/ \E t \in Threads : thread[t].pc \in {"set", "link", "attach"}

IInv == Others /\ Holders /\ Watching /\ Attaching

-----------------------------------------------------------------------------
\* The invariant contains the type invariant.
LEMMA Types == Others /\ Holders => TypeOK
<1> SUFFICES ASSUME Others, Holders PROVE TypeOK
  OBVIOUS
<1>1. Started \subseteq Servers \cup {None}
  BY DEF Started
<1>2. binder \in Servers \cup {None} /\ cached \in [BOOLEAN -> Servers \cup {None}]
  BY <1>1 DEF Holders
<1>3. thread \in [Threads -> [pc : Pcs, from : Servers \cup {None}, new : Servers \cup {None},
                             mode : BOOLEAN, ret : Pcs]]
  BY <1>1 DEF Holders, Thread
<1>4. todo \in Seq([op : Ops, kind : BOOLEAN, from : Servers \cup {None}])
  <2>1. Item \subseteq [op : Ops, kind : BOOLEAN, from : Servers \cup {None}]
    BY <1>1 DEF Item
  <2>2. todo \in Seq(Item)
    BY DEF Holders
  <2> QED BY <2>1, <2>2, SeqMonotonic
<1> QED BY <1>2, <1>3, <1>4 DEF TypeOK, Others

\* The pure steps of a thread.
LEMMA ThreadSteps ==
  ASSUME Holders, NEW t \in Threads
  PROVE  /\ \A pc \in Pcs : Goto(t, pc) => thread' \in [Threads -> Thread]
         /\ \A s \in Started, ret \in Pcs : Receive(t, s, ret) => thread' \in [Threads -> Thread]
         /\ Return(t) => thread' \in [Threads -> Thread]
         /\ Throw(t) => thread' \in [Threads -> Thread]
<1>1. ASSUME NEW pc \in Pcs, Goto(t, pc) PROVE thread' \in [Threads -> Thread]
  BY <1>1 DEF Goto, Holders, Thread
<1>2. ASSUME NEW s \in Started, NEW ret \in Pcs, Receive(t, s, ret) PROVE thread' \in [Threads -> Thread]
  <2>1. "same" \in Pcs
    BY DEF Pcs
  <2>2. [thread[t] EXCEPT !.pc = "same", !.new = s, !.ret = ret] \in Thread
    BY <1>2, <2>1 DEF Holders, Thread
  <2> QED BY <1>2, <2>2 DEF Receive, Holders
<1>3. Idle \in Thread
  BY DEF Idle, Thread, Started, Pcs
<1>4. ASSUME Return(t) PROVE thread' \in [Threads -> Thread]
  <2>1. [thread[t] EXCEPT !.pc = thread[t].ret] \in Thread
    BY DEF Holders, Thread
  <2> QED BY <1>3, <1>4, <2>1 DEF Return, Holders
<1>5. ASSUME Throw(t) PROVE thread' \in [Threads -> Thread]
  BY <1>3, <1>5 DEF Throw, Holders
<1> QED BY <1>1, <1>2, <1>4, <1>5

\* The main thread goes on with what its statement leaves to do.
LEMMA MainSteps ==
  ASSUME Holders, todo # <<>>
  PROVE  /\ Head(todo) \in Item
         /\ \A ops \in Seq(Item) : Continue(ops) => todo' \in Seq(Item)
<1>1. todo \in Seq(Item)
  BY DEF Holders
<1>2. Head(todo) \in Item /\ Tail(todo) \in Seq(Item)
  BY <1>1, HeadTailProperties
<1>3. ASSUME NEW ops \in Seq(Item), Continue(ops) PROVE todo' \in Seq(Item)
  BY <1>2, <1>3, ConcatProperties DEF Continue
<1> QED BY <1>2, <1>3

LEMMA Items ==
  ASSUME Holders
  PROVE  /\ \A op \in Ops : Do(op) \in Item
         /\ \A kind \in BOOLEAN : RestoreOf(kind) \in Item
  BY DEF Do, RestoreOf, Item, Started, Ops

\* Holders is about the same sets as long as no server starts or dies.
LEMMA SameStarted ==
  ASSUME server' = server
  PROVE  Holders' <=> /\ binder' \in Started /\ cached' \in [BOOLEAN -> Started]
                      /\ thread' \in [Threads -> Thread] /\ todo' \in Seq(Item)
<1>1. Started' = Started
  BY DEF Started
<1>2. Thread' = Thread /\ Item' = Item
  BY <1>1 DEF Thread, Item
<1> QED BY <1>1, <1>2 DEF Holders

\* onBinderReceived keeps null and started servers in the fields.
LEMMA ReceivedHolders ==
  ASSUME Others, Holders, NEW t \in Threads, OnBinderReceived(t)
  PROVE  Holders'
<1>a. /\ thread[t].new \in Started /\ None \in Started
      /\ {"forget", "replace", "notify", "set", "unlink", "link", "attach"} \subseteq Pcs
  BY DEF Holders, Thread, Started, Pcs
<1>1. CASE Same(t)
  BY <1>a, <1>1, SameStarted, ThreadSteps DEF Same, Holders, statics, world
<1>2. CASE Forget(t)
  BY <1>a, <1>2, SameStarted, ThreadSteps DEF Forget, Holders, world
<1>3. CASE NotifyDead(t)
  <2>1. /\ thread' \in [Threads -> Thread] /\ server' = server
        /\ binder' = binder /\ cached' = cached
    BY <1>3, ThreadSteps DEF NotifyDead, statics, world
  <2>2. <<Do("refresh"), Do("unlock")>> \in Seq(Item)
    BY Items DEF Ops
  <2>3. todo' \in Seq(Item)
    <3>1. todo \in Seq(Item)
      BY DEF Holders
    <3>2. todo' = todo \/ todo' = <<Do("refresh"), Do("unlock")>> \o todo
      BY <1>3 DEF NotifyDead
    <3> QED BY <2>2, <3>1, <3>2, ConcatProperties
  <2> QED BY <2>1, <2>3, SameStarted DEF Holders
<1>4. CASE Replace(t)
  BY <1>a, <1>4, SameStarted, ThreadSteps DEF Replace, Holders, statics, world
<1>5. CASE Unlink(t)
  BY <1>a, <1>5, SameStarted, ThreadSteps DEF Unlink, Holders, statics
<1>6. CASE Set(t)
  BY <1>a, <1>6, SameStarted, ThreadSteps DEF Set, Holders, world
<1>7. CASE Link(t)
  BY <1>a, <1>7, SameStarted, ThreadSteps DEF Link, Holders, statics
<1>8. CASE AttachApplication(t)
  BY <1>a, <1>8, SameStarted, ThreadSteps DEF AttachApplication, Holders, statics
<1> QED BY <1>1, <1>2, <1>3, <1>4, <1>5, <1>6, <1>7, <1>8 DEF OnBinderReceived

\* So do the other steps of a binder thread.
LEMMA BinderHolders ==
  ASSUME Others, Holders, NEW b \in Binders,
         \/ \E s \in Servers : SendBinder(b, s)
         \/ DeathNotice(b) \/ BindApplication(b) \/ GetBinder(b) \/ BinderThread(b)
  PROVE  Holders'
<1>a. b \in Threads /\ thread[b] \in Thread
  BY DEF Threads, Holders
<1>b. /\ {"idle", "mode", "cache", "ping", "flag", "unready", "post", "ready", "compare",
          "replied"} \subseteq Pcs
      /\ None \in Started /\ thread[b].from \in Started
  BY <1>a DEF Pcs, Started, Thread
<1>1. CASE \E s \in Servers : SendBinder(b, s)
  <2> PICK s \in Servers : SendBinder(b, s)
    BY <1>1
  <2>1. s \in Started
    BY DEF SendBinder, Up, Started
  <2>2. [thread[b] EXCEPT !.pc = "mode", !.from = s] \in Thread
    BY <1>a, <1>b, <2>1 DEF Thread
  <2> QED BY <2>2, SameStarted DEF SendBinder, Holders, statics, world
<1>2. CASE DeathNotice(b)
  BY <1>a, <1>b, <1>2, SameStarted, ThreadSteps DEF DeathNotice, Holders, statics
<1>3. CASE BindApplication(b)
  BY <1>a, <1>b, <1>3, SameStarted, ThreadSteps DEF BindApplication, Holders, statics
<1>4. CASE GetBinder(b)
  <2>1. [thread[b] EXCEPT !.pc = "compare", !.from = binder] \in Thread
    BY <1>a, <1>b DEF Thread, Holders
  <2> QED BY <1>4, <2>1, SameStarted DEF GetBinder, Holders, statics, world
<1>5. CASE ReadMode(b)
  <2>1. EmbeddedMode \in BOOLEAN
    BY DEF EmbeddedMode, Others
  <2>2. [thread[b] EXCEPT !.pc = "cache", !.mode = EmbeddedMode] \in Thread
    BY <1>a, <1>b, <2>1 DEF Thread
  <2> QED BY <1>5, <2>2, SameStarted DEF ReadMode, Holders, statics, world
<1>6. CASE Cache(b)
  <2>1. cached' \in [BOOLEAN -> Started]
    BY <1>b, <1>6 DEF Cache, Holders
  <2> QED BY <1>a, <1>b, <1>6, <2>1, SameStarted, ThreadSteps DEF Cache, Holders, world
<1>7. CASE Ping(b)
  BY <1>a, <1>b, <1>7, SameStarted, ThreadSteps DEF Ping, Holders, statics, world
<1>8. CASE SetFlag(b)
  BY <1>a, <1>b, <1>8, SameStarted, ThreadSteps DEF SetFlag, Holders, world
<1>9. CASE Unready(b)
  BY <1>a, <1>b, <1>9, SameStarted, ThreadSteps DEF Unready, Dead, Holders, world
<1>10. CASE NotifyReceived(b)
  BY <1>a, <1>b, <1>10, SameStarted, ThreadSteps DEF NotifyReceived, Holders, statics, world
<1>11. CASE SetReady(b)
  BY <1>a, <1>b, <1>11, SameStarted, ThreadSteps DEF SetReady, Holders, world
<1>12. CASE Compare(b)
  <2>1. [thread[b] EXCEPT !.pc = "replied", !.mode = flag] \in Thread
    BY <1>a, <1>b DEF Thread, Others
  <2> QED BY <1>a, <1>12, <2>1, SameStarted, ThreadSteps DEF Compare, Holders, statics, world
<1>13. CASE Reply(b)
  BY <1>a, <1>13, SameStarted, ThreadSteps DEF Reply, Holders, statics, world
<1>14. CASE OnBinderReceived(b)
  BY <1>a, <1>14, ReceivedHolders
<1> QED BY <1>1, <1>2, <1>3, <1>4, <1>5, <1>6, <1>7, <1>8, <1>9, <1>10, <1>11, <1>12, <1>13, <1>14
     DEF BinderThread

\* Short sequences.
LEMMA Short ==
  ASSUME NEW S, NEW a \in S, NEW b \in S, NEW c \in S, NEW d \in S
  PROVE  <<a>> \in Seq(S) /\ <<a, b>> \in Seq(S) /\ <<a, b, c>> \in Seq(S) /\ <<a, b, c, d>> \in Seq(S)
  OBVIOUS

\* So do the main thread's statements and what starts them.
LEMMA MainHolders ==
  ASSUME Others, Holders,
         \/ MainThread \/ \E m \in Modes : SelectMode(m)
         \/ SwitchToInstalled \/ PressServerButton \/ PressRefresh
         \/ \E message \in {"refresh", "restore"} : TakePosted(message)
  PROVE  Holders'
<1>a. Main \in Threads /\ None \in Started /\ "idle" \in Pcs /\ <<>> \in Seq(Item)
  BY DEF Threads, Started, Pcs
<1>b. /\ Do("config") \in Item /\ Do("clear") \in Item /\ Do("forget") \in Item
      /\ Do("unflag") \in Item /\ Do("refresh") \in Item
      /\ RestoreOf(TRUE) \in Item /\ RestoreOf(FALSE) \in Item
  BY Items DEF Ops
<1>c. /\ <<Do("clear"), RestoreOf(FALSE)>> \in Seq(Item)
      /\ <<Do("clear"), RestoreOf(FALSE), Do("refresh")>> \in Seq(Item)
      /\ <<RestoreOf(TRUE), Do("clear"), Do("refresh")>> \in Seq(Item)
      /\ <<Do("config")>> \in Seq(Item) /\ <<Do("clear")>> \in Seq(Item) /\ <<Do("refresh")>> \in Seq(Item)
      /\ <<Do("forget"), Do("unflag")>> \in Seq(Item)
  BY <1>b, Short
<1>1. CASE ApplyConfig
  BY <1>a, <1>1, SameStarted, MainSteps DEF ApplyConfig, Doing, Holders, world
<1>2. CASE Clear
  <2>1. PICK ops \in Seq(Item) : Continue(ops)
    BY <1>a, <1>c, <1>2 DEF Clear
  <2> QED BY <1>2, <2>1, SameStarted, MainSteps DEF Clear, Doing, Holders, statics, world
<1>3. CASE ClearForget
  BY <1>a, <1>3, SameStarted, MainSteps, ThreadSteps DEF ClearForget, Doing, Holders, statics, world
<1>4. CASE ClearUnflag
  BY <1>a, <1>4, SameStarted, MainSteps DEF ClearUnflag, Doing, Holders, world
<1>5. CASE Restore
  <2>1. Head(todo).kind \in BOOLEAN /\ cached[Head(todo).kind] \in Started
    BY <1>5, MainSteps DEF Restore, Doing, Item, Holders
  <2>2. [op |-> "activate", kind |-> Head(todo).kind, from |-> cached[Head(todo).kind]] \in Item
    BY <2>1 DEF Item, Ops
  <2>3. <<[op |-> "activate", kind |-> Head(todo).kind, from |-> cached[Head(todo).kind]]>> \in Seq(Item)
    BY <2>2
  <2>4. PICK ops \in Seq(Item) : Continue(ops)
    BY <1>a, <1>5, <2>3, Zenon DEF Restore
  <2> QED BY <1>5, <2>4, SameStarted, MainSteps DEF Restore, Doing, Holders, statics, world
<1>6. CASE Activate
  <2>1. Head(todo).from \in Started
    BY <1>6, MainSteps DEF Activate, Doing, Item
  <2> QED BY <1>a, <1>6, <2>1, SameStarted, MainSteps, ThreadSteps DEF Activate, Doing, Holders, world
<1>7. CASE Refresh
  <2>1. RestoreOf(pref = "internal") \in Item
    BY <1>b, Items
  <2>2. <<RestoreOf(pref = "internal")>> \in Seq(Item)
    BY <2>1
  <2>3. PICK ops \in Seq(Item) : Continue(ops)
    BY <1>a, <1>7, <2>2, Zenon DEF Refresh
  <2> QED BY <1>7, <2>3, SameStarted, MainSteps DEF Refresh, Doing, Holders, statics, world
<1>8. CASE Unlock
  BY <1>a, <1>8, SameStarted, MainSteps DEF Unlock, Doing, Holders, statics, world
<1>9. CASE OnBinderReceived(Main)
  BY <1>a, <1>9, ReceivedHolders
<1>10. CASE \E m \in Modes : SelectMode(m)
  <2>1. todo' \in Seq(Item)
    <3>1. PICK ops \in Seq(Item) : todo' = <<Do("config")>> \o ops \o <<Do("refresh")>>
      BY <1>a, <1>c, <1>10, Zenon DEF SelectMode
    <3>2. <<Do("config")>> \o ops \in Seq(Item)
      BY <1>c, ConcatProperties
    <3> QED BY <1>c, <3>1, <3>2, ConcatProperties
  <2> QED BY <1>10, <2>1, SameStarted DEF SelectMode, Holders, statics, world
<1>11. CASE SwitchToInstalled
  <2>1. <<Do("config"), Do("clear"), RestoreOf(FALSE), Do("refresh")>> \in Seq(Item)
    BY <1>b, Short
  <2> QED BY <1>11, <2>1, SameStarted DEF SwitchToInstalled, Holders, statics, world
<1>12. CASE PressServerButton
  BY <1>c, <1>12, SameStarted DEF PressServerButton, Holders, statics, world
<1>13. CASE PressRefresh
  BY <1>c, <1>13, SameStarted DEF PressRefresh, Holders, statics, world
<1>14. CASE \E message \in {"refresh", "restore"} : TakePosted(message)
  <2>1. todo' \in Seq(Item)
    <3>1. PICK ops \in Seq(Item) : todo' = ops \o <<Do("refresh")>>
      BY <1>a, <1>c, <1>14, Zenon DEF TakePosted
    <3> QED BY <1>c, <3>1, ConcatProperties
  <2> QED BY <1>14, <2>1, SameStarted DEF TakePosted, Holders, statics, world
<1> QED BY <1>1, <1>2, <1>3, <1>4, <1>5, <1>6, <1>7, <1>8, <1>9, <1>10, <1>11, <1>12, <1>13, <1>14
     DEF MainThread

\* And a server's start or death takes none away from Started.
LEMMA ServerHolders ==
  ASSUME Others, Holders, \E s \in Servers : ServerStarts(s) \/ ServerDies(s)
  PROVE  Holders'
<1>1. Started \subseteq Started'
  BY DEF Started, ServerStarts, ServerDies, Others
<1>2. Thread \subseteq Thread' /\ Item \subseteq Item'
  BY <1>1 DEF Thread, Item
<1>3. UNCHANGED <<binder, cached, thread, todo>>
  BY DEF ServerStarts, ServerDies, statics
<1>4. todo' \in Seq(Item')
  <2>1. todo \in Seq(Item)
    BY DEF Holders
  <2> QED BY <1>2, <1>3, <2>1, SeqMonotonic
<1>5. thread' \in [Threads -> Thread'] /\ binder' \in Started' /\ cached' \in [BOOLEAN -> Started']
  BY <1>1, <1>2, <1>3 DEF Holders
<1> QED BY <1>4, <1>5 DEF Holders

\* onBinderReceived keeps the types of the other variables.
LEMMA ReceivedOthers ==
  ASSUME Others, Holders, NEW t \in Threads, OnBinderReceived(t)
  PROVE  Others'
<1>a. binder \in Servers \cup {None}
  BY DEF Holders, Started
<1> USE DEF Others
<1>1. CASE Same(t)
  BY <1>a, <1>1 DEF Same, statics, world
<1>2. CASE Forget(t)
  BY <1>a, <1>2 DEF Forget, statics, world
<1>3. CASE NotifyDead(t)
  BY <1>a, <1>3 DEF NotifyDead, statics, world
<1>4. CASE Replace(t)
  BY <1>a, <1>4 DEF Replace, statics, world
<1>5. CASE Unlink(t)
  BY <1>a, <1>5 DEF Unlink, Unlinked, statics, world
<1>6. CASE Set(t)
  BY <1>a, <1>6 DEF Set, statics, world
<1>7. CASE Link(t)
  BY <1>a, <1>7 DEF Link, Linked, Up, statics, world
<1>8. CASE AttachApplication(t)
  BY <1>a, <1>8 DEF AttachApplication, CanAttach, Up, statics, world
<1> QED BY <1>1, <1>2, <1>3, <1>4, <1>5, <1>6, <1>7, <1>8 DEF OnBinderReceived

\* So do the other steps of a binder thread.
LEMMA BinderOthers ==
  ASSUME Others, Holders, NEW b \in Binders,
         \/ \E s \in Servers : SendBinder(b, s)
         \/ DeathNotice(b) \/ BindApplication(b) \/ GetBinder(b) \/ BinderThread(b)
  PROVE  Others'
<1>a. b \in Threads
  BY DEF Threads
<1> USE BoundsAssumption DEF Others
<1>1. CASE \E s \in Servers : SendBinder(b, s)
  BY <1>1 DEF SendBinder, statics, world
<1>2. CASE DeathNotice(b)
  BY <1>2 DEF DeathNotice, statics, world
<1>3. CASE BindApplication(b)
  BY <1>3 DEF BindApplication, statics, world
<1>4. CASE GetBinder(b)
  BY <1>4 DEF GetBinder, statics, world
<1>5. CASE ReadMode(b)
  BY <1>5 DEF ReadMode, statics, world
<1>6. CASE Cache(b)
  BY <1>6 DEF Cache, Kind, statics, world
<1>7. CASE Ping(b)
  BY <1>7 DEF Ping, statics, world
<1>8. CASE SetFlag(b)
  BY <1>8 DEF SetFlag, Kind, statics, world
<1>9. CASE Unready(b)
  BY <1>9 DEF Unready, statics, world
<1>10. CASE NotifyReceived(b)
  BY <1>10 DEF NotifyReceived, statics, world
<1>11. CASE SetReady(b)
  BY <1>11 DEF SetReady, statics, world
<1>12. CASE Compare(b)
  BY <1>12 DEF Compare, statics, world
<1>13. CASE Reply(b)
  BY <1>13 DEF Reply, statics, world
<1>14. CASE OnBinderReceived(b)
  BY <1>a, <1>14, ReceivedOthers
<1> QED BY <1>1, <1>2, <1>3, <1>4, <1>5, <1>6, <1>7, <1>8, <1>9, <1>10, <1>11, <1>12, <1>13, <1>14 DEF BinderThread

\* So do the main thread, the user, a sticky listener and the servers.
LEMMA MainOthers ==
  ASSUME Others, Holders,
         \/ MainThread \/ \E m \in Modes : SelectMode(m)
         \/ SwitchToInstalled \/ PressServerButton \/ PressRefresh
         \/ \E message \in {"refresh", "restore"} : TakePosted(message)
         \/ StickyAsk \/ StickyList
         \/ \E s \in Servers : ServerStarts(s) \/ ServerDies(s)
  PROVE  Others'
<1>a. Main \in Threads
  BY DEF Threads
<1> USE BoundsAssumption DEF Others
<1>1. CASE ApplyConfig
  BY <1>1 DEF ApplyConfig, statics, world
<1>2. CASE Clear
  BY <1>2 DEF Clear, statics, world
<1>3. CASE ClearForget
  BY <1>3 DEF ClearForget, statics, world
<1>4. CASE ClearUnflag
  BY <1>4 DEF ClearUnflag, statics, world
<1>5. CASE Restore
  BY <1>5 DEF Restore, statics, world
<1>6. CASE Activate
  BY <1>6, MainSteps DEF Activate, RestoredFlag, Doing, Item, statics, world
<1>7. CASE Refresh
  BY <1>7 DEF Refresh, statics, world
<1>8. CASE Unlock
  BY <1>8 DEF Unlock, statics, world
<1>9. CASE \E m \in Modes : SelectMode(m)
  <2> PICK m \in Modes : SelectMode(m)
    BY <1>9
  <2>1. Act /\ pref' = m /\ UNCHANGED <<statics, world, posted, sticky>>
    BY DEF SelectMode
  <2> QED BY <2>1 DEF Act, statics, world
<1>10. CASE SwitchToInstalled
  BY <1>10 DEF SwitchToInstalled, Act, Modes, statics, world
<1>11. CASE PressServerButton
  BY <1>11 DEF PressServerButton, Act, statics, world
<1>12. CASE PressRefresh
  BY <1>12 DEF PressRefresh, statics, world
<1>13. CASE \E message \in {"refresh", "restore"} : TakePosted(message)
  BY <1>13 DEF TakePosted, statics, world
<1>14. CASE StickyAsk
  BY <1>14 DEF StickyAsk, statics, world
<1>15. CASE StickyList
  BY <1>15 DEF StickyList, statics, world
<1>16. CASE \E s \in Servers : ServerStarts(s)
  BY <1>16 DEF ServerStarts, statics, world
<1>17. CASE \E s \in Servers : ServerDies(s)
  BY <1>17 DEF ServerDies, statics, world
<1>18. CASE OnBinderReceived(Main)
  BY <1>a, <1>18, ReceivedOthers
<1> QED BY <1>1, <1>2, <1>3, <1>4, <1>5, <1>6, <1>7, <1>8, <1>9, <1>10, <1>11, <1>12, <1>13, <1>14, <1>15, <1>16, <1>17, <1>18 DEF MainThread

-----------------------------------------------------------------------------
\* What most steps leave alone: binder is kept or forgotten, no server comes back to life,
\* no live one loses a link or a record, and nobody leaves the end of onBinderReceived.
Kept ==
  /\ binder' = binder \/ binder' = None
  /\ \A s \in Servers : server'[s] = "up" => server[s] # "dead"
  /\ \A s \in Servers : server[s] # "dead" => links'[s] >= links[s]
  /\ attached \subseteq attached'
  /\ \A t \in Threads :
       thread[t].pc \in {"set", "link", "attach"} => thread'[t].pc = thread[t].pc

\* The only steps that touch a live binder's links or that end onBinderReceived.
Critical(t) == Unlink(t) \/ Set(t) \/ Link(t) \/ AttachApplication(t)

\* A thread's steps are its own.
LEMMA OwnSteps ==
  ASSUME Holders, NEW t \in Threads,
         \/ \E pc \in Pcs : Goto(t, pc)
         \/ \E s \in Started, ret \in Pcs : Receive(t, s, ret)
         \/ Return(t) \/ Throw(t)
  PROVE  \A u \in Threads : u # t => thread'[u] = thread[u]
<1>1. CASE \E pc \in Pcs : Goto(t, pc)
  BY <1>1 DEF Holders, Goto
<1>2. CASE \E s \in Started, ret \in Pcs : Receive(t, s, ret)
  BY <1>2 DEF Holders, Receive
<1>3. CASE Return(t)
  BY <1>3 DEF Holders, Return
<1>4. CASE Throw(t)
  BY <1>4 DEF Holders, Throw
<1> QED BY <1>1, <1>2, <1>3, <1>4

\* A step of its own, outside the end of onBinderReceived, keeps everything.
LEMMA OwnStepKept ==
  ASSUME Others, NEW t \in Threads, thread[t].pc \notin {"set", "link", "attach"},
         \A u \in Threads : u # t => thread'[u] = thread[u],
         UNCHANGED <<binder, world>>
  PROVE  Kept
  BY DEF Kept, Others, world

\* The other steps of onBinderReceived keep all of it.
LEMMA ReceivedKept ==
  ASSUME Others, Holders, NEW t \in Threads, OnBinderReceived(t), ~Critical(t)
  PROVE  Kept
<1> USE DEF Others, Holders, Kept, At, statics, world
<1>1. CASE Same(t)
  <2>1. Return(t) \/ \E pc \in Pcs : Goto(t, pc)
    BY <1>1 DEF Same, Pcs
  <2>2. thread[t].pc = "same" /\ UNCHANGED <<binder, world>>
    BY <1>1 DEF Same
  <2>3. \A u \in Threads : u # t => thread'[u] = thread[u]
    BY <2>1, OwnSteps
  <2> QED BY <2>2, <2>3, OwnStepKept
<1>2. CASE Forget(t)
  BY <1>2 DEF Forget, Goto
<1>3. CASE NotifyDead(t)
  BY <1>3 DEF NotifyDead, Return
<1>4. CASE Replace(t)
  BY <1>4 DEF Replace, Goto
<1> QED BY <1>1, <1>2, <1>3, <1>4 DEF OnBinderReceived, Critical

\* So do the other steps of a binder thread.
LEMMA BinderKept ==
  ASSUME Others, Holders, NEW b \in Binders,
         \/ \E s \in Servers : SendBinder(b, s)
         \/ DeathNotice(b) \/ BindApplication(b) \/ GetBinder(b) \/ BinderThread(b),
         ~Critical(b)
  PROVE  Kept
<1>a. b \in Threads
  BY DEF Threads
<1> USE <1>a DEF Others, Holders, Kept, At, statics, world
<1>1. CASE \E s \in Servers : SendBinder(b, s)
  <2>1. \A u \in Threads : u # b => thread'[u] = thread[u]
    BY <1>1 DEF SendBinder
  <2>2. thread[b].pc = "idle" /\ UNCHANGED <<binder, world>>
    BY <1>1 DEF SendBinder
  <2>3. \A u \in Threads : u # b => thread'[u] = thread[u]
    BY <2>1
  <2> QED BY <1>a, <2>2, <2>3, OwnStepKept
<1>2. CASE DeathNotice(b)
  BY <1>2 DEF DeathNotice, Goto
<1>3. CASE BindApplication(b)
  BY <1>3 DEF BindApplication, Goto
<1>4. CASE GetBinder(b)
  BY <1>4 DEF GetBinder
<1>5. CASE ReadMode(b)
  BY <1>5 DEF ReadMode
<1>6. CASE Cache(b)
  <2>1. Throw(b) \/ \E pc \in Pcs : Goto(b, pc)
    BY <1>6 DEF Cache, Pcs
  <2>2. thread[b].pc = "cache" /\ UNCHANGED <<binder, world>>
    BY <1>6 DEF Cache
  <2>3. \A u \in Threads : u # b => thread'[u] = thread[u]
    BY <2>1, OwnSteps
  <2> QED BY <1>a, <2>2, <2>3, OwnStepKept
<1>7. CASE Ping(b)
  <2>1. \/ Throw(b) \/ \E pc \in Pcs : Goto(b, pc)
        \/ \E s \in Started, ret \in Pcs : Receive(b, s, ret)
    BY <1>7 DEF Ping, Pcs, Started
  <2>2. thread[b].pc = "ping" /\ UNCHANGED <<binder, world>>
    BY <1>7 DEF Ping
  <2>3. \A u \in Threads : u # b => thread'[u] = thread[u]
    BY <2>1, OwnSteps
  <2> QED BY <1>a, <2>2, <2>3, OwnStepKept
<1>8. CASE SetFlag(b)
  BY <1>8 DEF SetFlag, Receive
<1>9. CASE Unready(b)
  BY <1>9 DEF Unready, Dead, Receive
<1>10. CASE NotifyReceived(b)
  BY <1>10 DEF NotifyReceived, Goto
<1>11. CASE SetReady(b)
  BY <1>11 DEF SetReady, Throw
<1>12. CASE Compare(b)
  <2>1. \A u \in Threads : u # b => thread'[u] = thread[u]
    BY <1>12 DEF Compare, Throw
  <2>2. thread[b].pc = "compare" /\ UNCHANGED <<binder, world>>
    BY <1>12 DEF Compare
  <2>3. \A u \in Threads : u # b => thread'[u] = thread[u]
    BY <2>1
  <2> QED BY <1>a, <2>2, <2>3, OwnStepKept
<1>13. CASE Reply(b)
  BY <1>13 DEF Reply, Throw
<1>14. CASE OnBinderReceived(b)
  BY <1>14, ReceivedKept
<1> QED BY <1>1, <1>2, <1>3, <1>4, <1>5, <1>6, <1>7, <1>8, <1>9, <1>10, <1>11, <1>12, <1>13, <1>14 DEF BinderThread

\* So do the main thread, the user, a sticky listener and the servers.
LEMMA MainKept ==
  ASSUME Others, Holders, ~Critical(Main),
         \/ MainThread \/ \E m \in Modes : SelectMode(m)
         \/ SwitchToInstalled \/ PressServerButton \/ PressRefresh
         \/ \E message \in {"refresh", "restore"} : TakePosted(message)
         \/ StickyAsk \/ StickyList
         \/ \E s \in Servers : ServerStarts(s) \/ ServerDies(s)
  PROVE  Kept
<1>a. Main \in Threads
  BY DEF Threads
<1> USE <1>a DEF Others, Holders, Kept, At, statics, world
<1>1. CASE ApplyConfig
  BY <1>1 DEF ApplyConfig
<1>2. CASE Clear
  BY <1>2 DEF Clear
<1>3. CASE ClearForget
  BY <1>3 DEF ClearForget, Doing, Receive
<1>4. CASE ClearUnflag
  BY <1>4 DEF ClearUnflag
<1>5. CASE Restore
  BY <1>5 DEF Restore
<1>6. CASE Activate
  BY <1>6 DEF Activate, Doing, Receive
<1>7. CASE Refresh
  BY <1>7 DEF Refresh
<1>8. CASE Unlock
  BY <1>8 DEF Unlock
<1>9. CASE \E m \in Modes : SelectMode(m)
  BY <1>9 DEF SelectMode
<1>10. CASE SwitchToInstalled
  BY <1>10 DEF SwitchToInstalled
<1>11. CASE PressServerButton
  BY <1>11 DEF PressServerButton
<1>12. CASE PressRefresh
  BY <1>12 DEF PressRefresh
<1>13. CASE \E message \in {"refresh", "restore"} : TakePosted(message)
  BY <1>13 DEF TakePosted
<1>14. CASE StickyAsk
  BY <1>14 DEF StickyAsk
<1>15. CASE StickyList
  BY <1>15 DEF StickyList
<1>16. CASE \E s \in Servers : ServerStarts(s)
  BY <1>16 DEF ServerStarts
<1>17. CASE \E s \in Servers : ServerDies(s)
  BY <1>17 DEF ServerDies
<1>18. CASE OnBinderReceived(Main)
  BY <1>18, ReceivedKept
<1> QED BY <1>1, <1>2, <1>3, <1>4, <1>5, <1>6, <1>7, <1>8, <1>9, <1>10, <1>11, <1>12, <1>13, <1>14, <1>15, <1>16, <1>17, <1>18 DEF MainThread

\* Whatever is not critical keeps the two invariants.
LEMMA KeptInvariants ==
  ASSUME Others, Others', Holders, Watching, Attaching, Kept
  PROVE  Watching' /\ Attaching'
<1> SUFFICES ASSUME Up(binder)'
             PROVE  /\ links'[binder'] > 0 \/ \E t \in Threads : thread'[t].pc \in {"set", "link"}
                    /\ \/ binder' \in attached'
                       \/ \E t \in Threads : thread'[t].pc \in {"set", "link", "attach"}
  BY DEF Watching, Attaching
<1>1. binder' = binder /\ binder \in Servers
  BY NoneAssumption DEF Kept, Up
<1>2. Up(binder) /\ server[binder] # "dead"
  BY <1>1, NoneAssumption DEF Kept, Up, Others, Holders, Started
<1>3. links'[binder] >= links[binder] /\ links[binder] \in Nat
  BY <1>1, <1>2 DEF Kept, Others
<1>4. links'[binder'] > 0 \/ \E t \in Threads : thread'[t].pc \in {"set", "link"}
  <2>1. CASE links[binder] > 0
    <3> links'[binder] \in Nat
      BY <1>1 DEF Others
    <3> QED BY <1>1, <1>3, <2>1
  <2>2. CASE \E t \in Threads : thread[t].pc \in {"set", "link"}
    BY <2>2 DEF Kept
  <2> QED BY <1>2, <2>1, <2>2 DEF Watching
<1>5. binder' \in attached' \/ \E t \in Threads : thread'[t].pc \in {"set", "link", "attach"}
  BY <1>1, <1>2 DEF Kept, Attaching
<1> QED BY <1>4, <1>5

\* The critical steps: who unlinks goes on to set, who sets to link, and who links and
\* attaches does so to the binder that is current then.
LEMMA CriticalInvariants ==
  ASSUME Others, Others', Holders, Watching, Attaching, NEW t \in Threads, Critical(t)
  PROVE  Watching' /\ Attaching'
<1> USE DEF Others, Holders, At, statics, world
<1>1. CASE Unlink(t)
  <2>1. CASE binder = None \/ (Up(binder) /\ links[binder] = 0)
    <3>1. thread' = [thread EXCEPT ![t] = Idle] /\ UNCHANGED <<statics, server, attached, links>>
      BY <1>1, <2>1 DEF Unlink, Throw
    <3>2. \A u \in Threads : thread[u].pc \in {"set", "link", "attach"} => thread'[u].pc = thread[u].pc
      BY <1>1, <3>1 DEF Unlink
    <3>3. Kept
      BY <3>1, <3>2 DEF Kept
    <3> QED BY <3>3, KeptInvariants
  <2>2. CASE ~(binder = None \/ (Up(binder) /\ links[binder] = 0))
    <3>1. thread'[t].pc = "set"
      BY <1>1, <2>2 DEF Unlink, Goto, Thread
    <3> QED BY <3>1 DEF Watching, Attaching
  <2> QED BY <2>1, <2>2
<1>2. CASE Set(t)
  <2>1. thread'[t].pc = "link"
    BY <1>2 DEF Set, Goto, Thread
  <2> QED BY <2>1 DEF Watching, Attaching
<1>3. CASE Link(t)
  <2>1. thread'[t].pc = "attach"
    BY <1>3 DEF Link, Goto, Thread
  <2>2. ASSUME Up(binder)' PROVE links'[binder'] > 0
    BY <1>3, <2>2 DEF Link, Linked, Up
  <2> QED BY <2>1, <2>2 DEF Watching, Attaching
<1>4. CASE AttachApplication(t)
  <2>1. UNCHANGED <<statics, server, links>> /\ Return(t) /\ thread[t].pc = "attach"
    BY <1>4 DEF AttachApplication
  <2>2. \A u \in Threads : thread[u].pc \in {"set", "link"} => thread'[u].pc = thread[u].pc
    BY <2>1 DEF Return
  <2>3. Up(binder)' <=> Up(binder)
    BY <2>1 DEF Up
  <2>4. Watching'
    BY <2>1, <2>2, <2>3 DEF Watching
  <2>5. Up(binder) => binder' \in attached'
    BY <1>4 DEF AttachApplication, CanAttach
  <2> QED BY <2>3, <2>4, <2>5 DEF Attaching
<1> QED BY <1>1, <1>2, <1>3, <1>4 DEF Critical

-----------------------------------------------------------------------------
\* Initial states satisfy the invariant.
LEMMA InitIInv == Init => IInv
<1> SUFFICES ASSUME Init PROVE IInv
  OBVIOUS
<1>1. Idle \in Thread /\ None \in Started /\ <<>> \in Seq(Item)
  BY DEF Idle, Thread, Started, Pcs
<1>2. Others
  <2>1. /\ done \in [sends : [Servers -> 0..MaxSends], acts : 0..MaxActs, gets : 0..MaxGets,
                   deaths : 0..MaxDeaths]
    BY BoundsAssumption DEF Init
  <2> QED BY <2>1 DEF Init, Others
<1>3. Holders
  BY <1>1 DEF Init, Holders
<1>4. Watching /\ Attaching
  BY NoneAssumption DEF Init, Watching, Attaching, Up
<1> QED BY <1>2, <1>3, <1>4 DEF IInv

\* Every step keeps the invariant.
LEMMA NextIInv == IInv /\ [Next]_vars => IInv'
<1> SUFFICES ASSUME IInv, [Next]_vars PROVE IInv'
  OBVIOUS
<1>a. Others /\ Holders /\ Watching /\ Attaching
  BY DEF IInv
<1>1. ASSUME NEW b \in Binders,
             \/ \E s \in Servers : SendBinder(b, s)
             \/ DeathNotice(b) \/ BindApplication(b) \/ GetBinder(b) \/ BinderThread(b)
      PROVE  IInv'
  <2>1. b \in Threads
    BY DEF Threads
  <2>2. Others' /\ Holders'
    BY <1>a, <1>1, BinderOthers, BinderHolders
  <2>3. Watching' /\ Attaching'
    BY <1>a, <1>1, <2>1, <2>2, BinderKept, KeptInvariants, CriticalInvariants
  <2> QED BY <2>2, <2>3 DEF IInv
<1>2. ASSUME \/ MainThread \/ \E m \in Modes : SelectMode(m)
             \/ SwitchToInstalled \/ PressServerButton \/ PressRefresh
             \/ \E message \in {"refresh", "restore"} : TakePosted(message)
      PROVE  IInv'
  <2>1. Main \in Threads
    BY DEF Threads
  <2>2. Others' /\ Holders'
    BY <1>a, <1>2, MainOthers, MainHolders
  <2>3. Watching' /\ Attaching'
    BY <1>a, <1>2, <2>1, <2>2, MainKept, KeptInvariants, CriticalInvariants
  <2> QED BY <2>2, <2>3 DEF IInv
<1>3. ASSUME StickyAsk \/ StickyList PROVE IInv'
  <2>1. UNCHANGED <<binder, server, links, attached, thread, cached, todo>>
    BY <1>3 DEF StickyAsk, StickyList, statics, world
  <2>2. Others' /\ Holders'
    BY <1>a, <1>3, <2>1, MainOthers, SameStarted DEF Holders
  <2>3. Watching' /\ Attaching'
    BY <1>a, <2>1 DEF Watching, Attaching, Up
  <2> QED BY <2>2, <2>3 DEF IInv
<1>4. ASSUME \E s \in Servers : ServerStarts(s) \/ ServerDies(s) PROVE IInv'
  <2>1. Others' /\ Holders'
    BY <1>a, <1>4, MainOthers, ServerHolders
  <2>2. Kept
    <3>1. UNCHANGED <<binder, links, attached, thread>>
      BY <1>4 DEF ServerStarts, ServerDies, statics
    <3>2. \A s \in Servers : server'[s] = "up" => server[s] # "dead"
      BY <1>a, <1>4 DEF ServerStarts, ServerDies, Others
    <3> QED BY <1>a, <3>1, <3>2 DEF Kept, Others
  <2> QED BY <1>a, <2>1, <2>2, KeptInvariants DEF IInv
<1>5. CASE UNCHANGED vars
  BY <1>a, <1>5 DEF vars, statics, world, IInv, Others, Holders, Started, Thread, Item, Watching, Attaching, Up
<1> QED BY <1>1, <1>2, <1>3, <1>4, <1>5 DEF Next

\* The invariant holds in every reachable state.
THEOREM Invariant == Spec => []IInv
  BY InitIInv, NextIInv, PTL DEF Spec

\* The fields of the client, the provider and the main thread hold null or servers, and
\* the counters and bounds keep their ranges.
THEOREM TypeCorrect == Spec => []TypeOK
<1>1. IInv => TypeOK
  BY Types DEF IInv
<1> QED BY <1>1, Invariant, PTL

\* Once the calls are over, a current binder whose server lives is linked to, for any
\* number of servers, binder threads, mode switches and refreshes (onBinderReceived,
\* Shizuku.java 125-170).
THEOREM BinderWatched == Spec => []LiveBinderIsWatched
<1>1. IInv => LiveBinderIsWatched
  BY DEF IInv, Watching, LiveBinderIsWatched, Quiet, At
<1> QED BY <1>1, Invariant, PTL

\* And that server has a record of this process (attachApplication).
THEOREM BinderAttached == Spec => []CurrentIsAttached
<1>1. IInv => CurrentIsAttached
  BY DEF IInv, Attaching, CurrentIsAttached, Quiet, At
<1> QED BY <1>1, Invariant, PTL

=============================================================================
