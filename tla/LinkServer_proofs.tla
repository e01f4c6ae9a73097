-------------------------- MODULE LinkServer_proofs --------------------------
(* Theorems about LinkServer, for any number of starts and connections.      *)
EXTENDS LinkServer, TLAPS

\* What the call in progress has already taken apart or put together.
CallProgress ==
  /\ call.pc \in {"forget", "shutdown", "drop", "bind"} => listening = {}
  /\ call.pc \in {"shutdown", "drop", "bind"} => serverSocket = 0
  /\ call.pc \in {"drop", "bind"} => up = {}
  /\ call.pc = "bind" => clientExecutor = 0
  /\ call.pc \in {"bind", "pool", "run", "thread"} => call.start
  /\ call.start => starts \in Starts
  /\ call.pc \in {"pool", "run", "thread"} => serverSocket = starts /\ starts \in listening
  /\ call.pc = "pool" => up = {}
  /\ call.pc \in {"run", "thread"} => clientExecutor = starts /\ starts \in up

\* running is true only of the latest start, complete or short of its thread.
RunningIsLatest ==
  running =>
    /\ call.pc \in {"idle", "stop", "thread"}
    /\ starts \in Starts
    /\ serverSocket = starts /\ starts \in listening
    /\ clientExecutor = starts /\ starts \in up
    /\ call.pc # "thread" => thread[starts].pc \in Loop \ {"exit"}

IInv == TypeOK /\ ListenerIsReachable /\ ExecutorIsReachable /\ CallProgress /\ RunningIsLatest

Pcs == {"idle", "stop", "close", "forget", "shutdown", "drop", "bind", "pool", "run", "thread"}
ConnRecord == [state : {"none", "waiting", "accepted", "handling", "leaked", "closed"}, ss : Fields]
ThreadRecord == [pc : Loop \cup {"new", "dead"}, ss : Fields, ex : Fields,
                 conn : Conns \cup {"none"}]

-----------------------------------------------------------------------------
\* Every start's number is the value of a field, and so is null.
LEMMA Ranges == 0 \in Fields /\ Starts \subseteq Fields /\ 0 \notin Starts
  BY MaxStartsAssumption DEF Fields, Starts

\* Initial states satisfy the invariant.
LEMMA InitIInv == Init => IInv
<1> SUFFICES ASSUME Init PROVE IInv
  OBVIOUS
<1>1. TypeOK
  <2>1. thread \in [Starts -> ThreadRecord] /\ \A g \in Starts : thread[g].pc = "new"
    BY Ranges DEF Init, NotStarted, ThreadRecord
  <2>2. conn \in [Conns -> ConnRecord]
    BY Ranges DEF Init, ConnRecord
  <2>3. /\ call \in [pc : Pcs, start : BOOLEAN] /\ running \in BOOLEAN
        /\ serverSocket \in Fields /\ clientExecutor \in Fields /\ starts \in Fields
        /\ listening \in SUBSET Starts /\ up \in SUBSET Starts
    BY Ranges DEF Init, Idle, Pcs
  <2> QED BY <2>1, <2>2, <2>3 DEF TypeOK, ThreadRecord, ConnRecord, Pcs
<1>2. ListenerIsReachable /\ ExecutorIsReachable /\ CallProgress /\ RunningIsLatest
  BY DEF Init, Idle, ListenerIsReachable, ExecutorIsReachable, CallProgress, RunningIsLatest
<1> QED BY <1>1, <1>2 DEF IInv

\* A call begins.
LEMMA BeginStep ==
  ASSUME IInv, Start \/ Stop
  PROVE  IInv'
<1> USE DEF IInv
<1>0. TypeOK
  OBVIOUS
<1>1. CASE Start
  <2>1. TypeOK'
    BY <1>0, <1>1, MaxStartsAssumption DEF Start, Idle, TypeOK, CallProgress, Starts, Fields, To, Goto, Loop, ThreadRecord, ConnRecord, Pcs
  <2>2. (ListenerIsReachable /\ ExecutorIsReachable /\ CallProgress /\ RunningIsLatest)'
    BY <1>0, <1>1, MaxStartsAssumption DEF Start, Idle, TypeOK, ListenerIsReachable, ExecutorIsReachable, CallProgress, RunningIsLatest, Starts, Fields, To
  <2> QED BY <2>1, <2>2
<1>2. CASE Stop
  <2>1. TypeOK'
    BY <1>0, <1>2, Ranges DEF Stop, Idle, TypeOK, CallProgress, To, Goto, Loop, ThreadRecord, ConnRecord, Pcs
  <2>2. (ListenerIsReachable /\ ExecutorIsReachable /\ CallProgress /\ RunningIsLatest)'
    BY <1>0, <1>2, MaxStartsAssumption DEF Stop, Idle, TypeOK, ListenerIsReachable, ExecutorIsReachable, CallProgress, RunningIsLatest, Starts, To, Goto, Loop, ThreadRecord
  <2> QED BY <2>1, <2>2
<1> QED BY <1>1, <1>2

\* stopLocked takes the server apart, from the socket to the executor.
LEMMA StopStep ==
  ASSUME IInv, StopRunning \/ CloseSocket \/ ForgetSocket \/ ShutdownExecutor \/ DropExecutor
  PROVE  IInv'
<1> USE DEF IInv
<1>0. TypeOK
  OBVIOUS
<1>1. CASE StopRunning
  <2>1. TypeOK'
    BY <1>0, <1>1, Ranges DEF StopRunning, Idle, TypeOK, CallProgress, To, Goto, Loop, ThreadRecord, ConnRecord, Pcs
  <2>2. (ListenerIsReachable /\ ExecutorIsReachable /\ CallProgress /\ RunningIsLatest)'
    BY <1>0, <1>1, MaxStartsAssumption DEF StopRunning, Idle, TypeOK, ListenerIsReachable, ExecutorIsReachable, CallProgress, RunningIsLatest, Starts, To, Goto, Loop, ThreadRecord
  <2> QED BY <2>1, <2>2
<1>2. CASE CloseSocket
  <2>1. TypeOK'
    BY <1>0, <1>2, Ranges DEF CloseSocket, Idle, TypeOK, CallProgress, To, Goto, Loop, ThreadRecord, ConnRecord, Pcs
  <2>2. (ListenerIsReachable /\ ExecutorIsReachable /\ CallProgress /\ RunningIsLatest)'
    BY <1>0, <1>2, MaxStartsAssumption DEF CloseSocket, Idle, TypeOK, ListenerIsReachable, ExecutorIsReachable, CallProgress, RunningIsLatest, Starts, To, Goto, Loop, ThreadRecord
  <2> QED BY <2>1, <2>2
<1>3. CASE ForgetSocket
  <2>1. TypeOK'
    BY <1>0, <1>3, Ranges DEF ForgetSocket, Idle, TypeOK, CallProgress, To, Goto, Loop, ThreadRecord, ConnRecord, Pcs
  <2>2. (ListenerIsReachable /\ ExecutorIsReachable /\ CallProgress /\ RunningIsLatest)'
    BY <1>0, <1>3, MaxStartsAssumption DEF ForgetSocket, Idle, TypeOK, ListenerIsReachable, ExecutorIsReachable, CallProgress, RunningIsLatest, Starts, To, Goto, Loop, ThreadRecord
  <2> QED BY <2>1, <2>2
<1>4. CASE ShutdownExecutor
  <2>1. TypeOK'
    BY <1>0, <1>4, Ranges DEF ShutdownExecutor, Idle, TypeOK, CallProgress, To, Goto, Loop, ThreadRecord, ConnRecord, Pcs
  <2>2. (ListenerIsReachable /\ ExecutorIsReachable /\ CallProgress /\ RunningIsLatest)'
    BY <1>0, <1>4, MaxStartsAssumption DEF ShutdownExecutor, Idle, TypeOK, ListenerIsReachable, ExecutorIsReachable, CallProgress, RunningIsLatest, Starts, To, Goto, Loop, ThreadRecord
  <2> QED BY <2>1, <2>2
<1>5. CASE DropExecutor
  <2>1. TypeOK'
    <3>1. call' \in [pc : Pcs, start : BOOLEAN]
      <4>1. call \in [pc : Pcs, start : BOOLEAN]
        BY <1>0 DEF TypeOK, Pcs
      <4>2. call' = [call EXCEPT !.pc = "bind"] \/ call' = Idle
        BY <1>5 DEF DropExecutor, To
      <4>3. [call EXCEPT !.pc = "bind"] \in [pc : Pcs, start : BOOLEAN]
        BY <4>1 DEF Pcs
      <4>4. Idle \in [pc : Pcs, start : BOOLEAN]
        BY DEF Idle, Pcs
      <4> QED BY <4>2, <4>3, <4>4
    <3>0. clientExecutor' \in Fields
      BY <1>5, Ranges DEF DropExecutor
    <3>2. UNCHANGED <<running, serverSocket, starts, listening, up, thread, conn>>
      BY <1>5 DEF DropExecutor
    <3> QED BY <1>0, <3>0, <3>1, <3>2 DEF TypeOK, Pcs
  <2>2. (ListenerIsReachable /\ ExecutorIsReachable /\ CallProgress /\ RunningIsLatest)'
    BY <1>0, <1>5, MaxStartsAssumption DEF DropExecutor, Idle, TypeOK, ListenerIsReachable, ExecutorIsReachable, CallProgress, RunningIsLatest, Starts, To, Goto, Loop, ThreadRecord
  <2> QED BY <2>1, <2>2
<1> QED BY <1>1, <1>2, <1>3, <1>4, <1>5

\* start puts the server together, and its thread comes last.
LEMMA StartStep ==
  ASSUME IInv, NEW ok \in BOOLEAN, Bind(ok) \/ NewExecutor \/ SetRunning \/ StartThread
  PROVE  IInv'
<1> USE DEF IInv
<1>0. TypeOK
  OBVIOUS
<1>1. CASE Bind(ok)
  <2>1. TypeOK'
    <3>1. call' \in [pc : Pcs, start : BOOLEAN]
      <4>1. call \in [pc : Pcs, start : BOOLEAN]
        BY <1>0 DEF TypeOK, Pcs
      <4>2. call' = [call EXCEPT !.pc = "pool"] \/ call' = Idle
        BY <1>1 DEF Bind, To
      <4>3. [call EXCEPT !.pc = "pool"] \in [pc : Pcs, start : BOOLEAN]
        BY <4>1 DEF Pcs
      <4>4. Idle \in [pc : Pcs, start : BOOLEAN]
        BY DEF Idle, Pcs
      <4> QED BY <4>2, <4>3, <4>4
    <3>2. starts \in Starts
      BY <1>1 DEF Bind, CallProgress
    <3>3. serverSocket' \in Fields /\ listening' \in SUBSET Starts
      BY <1>0, <1>1, <3>2, Ranges DEF Bind, TypeOK
    <3>4. UNCHANGED <<running, clientExecutor, starts, up, thread, conn>>
      BY <1>1 DEF Bind
    <3> QED BY <1>0, <3>1, <3>3, <3>4 DEF TypeOK, Pcs
  <2>2. (ListenerIsReachable /\ ExecutorIsReachable /\ CallProgress /\ RunningIsLatest)'
    BY <1>0, <1>1, MaxStartsAssumption DEF Bind, Idle, TypeOK, ListenerIsReachable, ExecutorIsReachable, CallProgress, RunningIsLatest, Starts, To, Goto, Loop, ThreadRecord
  <2> QED BY <2>1, <2>2
<1>2. CASE NewExecutor
  <2>1. TypeOK'
    BY <1>0, <1>2, Ranges DEF NewExecutor, Idle, TypeOK, CallProgress, To, Goto, Loop, ThreadRecord, ConnRecord, Pcs
  <2>2. (ListenerIsReachable /\ ExecutorIsReachable /\ CallProgress /\ RunningIsLatest)'
    BY <1>0, <1>2, MaxStartsAssumption DEF NewExecutor, Idle, TypeOK, ListenerIsReachable, ExecutorIsReachable, CallProgress, RunningIsLatest, Starts, To, Goto, Loop, ThreadRecord
  <2> QED BY <2>1, <2>2
<1>3. CASE SetRunning
  <2>1. TypeOK'
    BY <1>0, <1>3, Ranges DEF SetRunning, Idle, TypeOK, CallProgress, To, Goto, Loop, ThreadRecord, ConnRecord, Pcs
  <2>2. (ListenerIsReachable /\ ExecutorIsReachable /\ CallProgress /\ RunningIsLatest)'
    BY <1>0, <1>3, MaxStartsAssumption DEF SetRunning, Idle, TypeOK, ListenerIsReachable, ExecutorIsReachable, CallProgress, RunningIsLatest, Starts, To, Goto, Loop, ThreadRecord
  <2> QED BY <2>1, <2>2
<1>4. CASE StartThread
  <2>1. TypeOK'
    BY <1>0, <1>4, Ranges DEF StartThread, Idle, TypeOK, CallProgress, To, Goto, Loop, ThreadRecord, ConnRecord, Pcs
  <2>2. (ListenerIsReachable /\ ExecutorIsReachable /\ CallProgress /\ RunningIsLatest)'
    BY <1>0, <1>4, MaxStartsAssumption DEF StartThread, Idle, TypeOK, ListenerIsReachable, ExecutorIsReachable, CallProgress, RunningIsLatest, Starts, To, Goto, Loop, ThreadRecord
  <2> QED BY <2>1, <2>2
<1> QED BY <1>1, <1>2, <1>3, <1>4

\* The accept threads change neither the socket nor the executor, and clear
\* running at most.
LEMMA AcceptLoopStep ==
  ASSUME IInv, NEW g \in Starts, ThreadStep(g)
  PROVE  IInv'
<1> USE DEF IInv
<1>0. thread[g] \in ThreadRecord
  BY DEF TypeOK, ThreadRecord
<1>1. CASE CheckRunning(g)
  <2>1. TypeOK'
    BY <1>0, <1>1, Ranges DEF CheckRunning, TypeOK, CallProgress, To, Goto, Loop, ThreadRecord, ConnRecord, Pcs
  <2>2. (ListenerIsReachable /\ ExecutorIsReachable /\ CallProgress /\ RunningIsLatest)'
    BY <1>0, <1>1, MaxStartsAssumption DEF CheckRunning, TypeOK, ListenerIsReachable, ExecutorIsReachable, CallProgress, RunningIsLatest, Starts, To, Goto, Loop, ThreadRecord
  <2> QED BY <2>1, <2>2
<1>2. CASE ReadSocket(g)
  <2>1. TypeOK'
    BY <1>0, <1>2, Ranges DEF ReadSocket, TypeOK, CallProgress, To, Goto, Loop, ThreadRecord, ConnRecord, Pcs
  <2>2. (ListenerIsReachable /\ ExecutorIsReachable /\ CallProgress /\ RunningIsLatest)'
    BY <1>0, <1>2, MaxStartsAssumption DEF ReadSocket, TypeOK, ListenerIsReachable, ExecutorIsReachable, CallProgress, RunningIsLatest, Starts, To, Goto, Loop, ThreadRecord
  <2> QED BY <2>1, <2>2
<1>3. CASE \E c \in Conns : Accept(g, c)
  <2>1. TypeOK'
    BY <1>0, <1>3, Ranges DEF Accept, TypeOK, CallProgress, To, Goto, Loop, ThreadRecord, ConnRecord, Pcs
  <2>2. (ListenerIsReachable /\ ExecutorIsReachable /\ CallProgress /\ RunningIsLatest)'
    BY <1>0, <1>3, MaxStartsAssumption DEF Accept, TypeOK, ListenerIsReachable, ExecutorIsReachable, CallProgress, RunningIsLatest, Starts, To, Goto, Loop, ThreadRecord
  <2> QED BY <2>1, <2>2
<1>4. CASE AcceptThrows(g)
  <2>1. TypeOK'
    BY <1>0, <1>4, Ranges DEF AcceptThrows, Leave, NotStarted, TypeOK, CallProgress, To, Goto, Loop, ThreadRecord, ConnRecord, Pcs
  <2>2. (ListenerIsReachable /\ ExecutorIsReachable /\ CallProgress /\ RunningIsLatest)'
    BY <1>0, <1>4, MaxStartsAssumption DEF AcceptThrows, Leave, NotStarted, TypeOK, ListenerIsReachable, ExecutorIsReachable, CallProgress, RunningIsLatest, Starts, To, Goto, Loop, ThreadRecord
  <2> QED BY <2>1, <2>2
<1>5. CASE ReadExecutor(g)
  <2>1. TypeOK'
    <3>1. thread[g] \in ThreadRecord /\ Leave("check") \in ThreadRecord
      BY <1>0, Ranges DEF TypeOK, Leave, NotStarted, ThreadRecord, Loop
    <3>2. thread[g].conn \in Conns
      BY <1>0, <1>5 DEF TypeOK, ReadExecutor
    <3>3. conn' \in [Conns -> ConnRecord]
      BY <1>0, <1>5, <3>2 DEF TypeOK, ReadExecutor, ConnRecord
    <3>4. thread' \in [Starts -> ThreadRecord] /\ \A h \in Starts : h # g => thread'[h] = thread[h]
      BY <1>0, <1>5, <3>1 DEF TypeOK, ReadExecutor, ThreadRecord, Loop
    <3>5. thread'[g].pc = "execute" => thread'[g].ex # 0 /\ thread'[g].conn \in Conns
      BY <1>0, <1>5, <3>1, <3>2 DEF TypeOK, ReadExecutor, Leave, NotStarted, ThreadRecord
    <3>6. thread'[g].pc \in {"check", "execute"}
      BY <1>0, <1>5, <3>1 DEF TypeOK, ReadExecutor, Leave, NotStarted, ThreadRecord
    <3> QED BY <1>0, <1>5, <3>3, <3>4, <3>5, <3>6 DEF TypeOK, ReadExecutor, ThreadRecord, ConnRecord
  <2>2. (ListenerIsReachable /\ ExecutorIsReachable /\ CallProgress /\ RunningIsLatest)'
    BY <1>0, <1>5, MaxStartsAssumption DEF ReadExecutor, Leave, NotStarted, TypeOK, ListenerIsReachable, ExecutorIsReachable, CallProgress, RunningIsLatest, Starts, To, Goto, Loop, ThreadRecord
  <2> QED BY <2>1, <2>2
<1>6. CASE Execute(g)
  <2>1. TypeOK'
    <3>1. thread[g] \in ThreadRecord /\ Leave("check") \in ThreadRecord
      BY <1>0, Ranges DEF TypeOK, Leave, NotStarted, ThreadRecord, Loop
    <3>2. thread[g].conn \in Conns
      BY <1>0, <1>6 DEF TypeOK, Execute
    <3>3. conn' \in [Conns -> ConnRecord]
      BY <1>0, <1>6, <3>2 DEF TypeOK, Execute, ConnRecord
    <3>4. thread' \in [Starts -> ThreadRecord] /\ \A h \in Starts : h # g => thread'[h] = thread[h]
      BY <1>0, <1>6, <3>1 DEF TypeOK, Execute, ThreadRecord, Loop
    <3>5. thread'[g].pc = "execute" => thread'[g].ex # 0 /\ thread'[g].conn \in Conns
      BY <1>0, <1>6, <3>1, <3>2 DEF TypeOK, Execute, Leave, NotStarted, ThreadRecord
    <3>6. thread'[g].pc \in {"check", "execute"}
      BY <1>0, <1>6, <3>1 DEF TypeOK, Execute, Leave, NotStarted, ThreadRecord
    <3> QED BY <1>0, <1>6, <3>3, <3>4, <3>5, <3>6 DEF TypeOK, Execute, ThreadRecord, ConnRecord
  <2>2. (ListenerIsReachable /\ ExecutorIsReachable /\ CallProgress /\ RunningIsLatest)'
    BY <1>0, <1>6, MaxStartsAssumption DEF Execute, Leave, NotStarted, TypeOK, ListenerIsReachable, ExecutorIsReachable, CallProgress, RunningIsLatest, Starts, To, Goto, Loop, ThreadRecord
  <2> QED BY <2>1, <2>2
<1>7. CASE Exit(g)
  <2>1. TypeOK'
    BY <1>0, <1>7, Ranges DEF Exit, TypeOK, CallProgress, To, Goto, Loop, ThreadRecord, ConnRecord, Pcs
  <2>2. (ListenerIsReachable /\ ExecutorIsReachable /\ CallProgress /\ RunningIsLatest)'
    BY <1>0, <1>7, MaxStartsAssumption DEF Exit, TypeOK, ListenerIsReachable, ExecutorIsReachable, CallProgress, RunningIsLatest, Starts, To, Goto, Loop, ThreadRecord
  <2> QED BY <2>1, <2>2
<1> QED BY <1>1, <1>2, <1>3, <1>4, <1>5, <1>6, <1>7 DEF ThreadStep

\* Clients and handlers change connections alone.
LEMMA ConnStep ==
  ASSUME IInv, NEW c \in Conns, Connect(c) \/ HandleSocket(c)
  PROVE  IInv'
<1> USE DEF IInv
<1>0. TypeOK
  OBVIOUS
<1>1. CASE Connect(c)
  <2>1. TypeOK'
    BY <1>0, <1>1, Ranges DEF Connect, TypeOK, CallProgress, To, Goto, Loop, ThreadRecord, ConnRecord, Pcs
  <2>2. (ListenerIsReachable /\ ExecutorIsReachable /\ CallProgress /\ RunningIsLatest)'
    BY <1>0, <1>1, MaxStartsAssumption DEF Connect, TypeOK, ListenerIsReachable, ExecutorIsReachable, CallProgress, RunningIsLatest, Starts, To, Goto, Loop, ThreadRecord
  <2> QED BY <2>1, <2>2
<1>2. CASE HandleSocket(c)
  <2>1. TypeOK'
    BY <1>0, <1>2, Ranges DEF HandleSocket, TypeOK, CallProgress, To, Goto, Loop, ThreadRecord, ConnRecord, Pcs
  <2>2. (ListenerIsReachable /\ ExecutorIsReachable /\ CallProgress /\ RunningIsLatest)'
    BY <1>0, <1>2, MaxStartsAssumption DEF HandleSocket, TypeOK, ListenerIsReachable, ExecutorIsReachable, CallProgress, RunningIsLatest, Starts, To, Goto, Loop, ThreadRecord
  <2> QED BY <2>1, <2>2
<1> QED BY <1>1, <1>2

\* Every step keeps the invariant.
LEMMA NextIInv == IInv /\ [Next]_vars => IInv'
<1> SUFFICES ASSUME IInv, [Next]_vars PROVE IInv'
  OBVIOUS
<1>1. CASE UNCHANGED vars
  BY <1>1 DEF vars, IInv, TypeOK, ListenerIsReachable, ExecutorIsReachable, CallProgress, RunningIsLatest
<1>2. CASE Start \/ Stop
  BY <1>2, BeginStep
<1>3. CASE CallStep
  BY <1>3, StopStep, StartStep DEF CallStep
<1>4. ASSUME NEW g \in Starts, ThreadStep(g) PROVE IInv'
  BY <1>4, AcceptLoopStep
<1>5. ASSUME NEW c \in Conns, Connect(c) \/ HandleSocket(c) PROVE IInv'
  BY <1>5, ConnStep
<1> QED BY <1>1, <1>2, <1>3, <1>4, <1>5 DEF Next

\* The invariant holds in every reachable state.
THEOREM Invariance == Spec => []IInv
<1> QED BY InitIInv, NextIInv, PTL DEF Spec

\* Every variable keeps its type, and no accept thread uses a null field.
THEOREM TypeCorrect == Spec => []TypeOK
<1>1. IInv => TypeOK
  BY DEF IInv
<1> QED BY <1>1, Invariance, PTL

\* A server that says it runs does serve, however many earlier accept threads
\* are still alive.
THEOREM RunningServes == Spec => []RunningIsServed
<1>1. IInv => RunningIsServed
  BY DEF IInv, RunningIsLatest, RunningIsServed, Idle
<1> QED BY <1>1, Invariance, PTL

\* stopLocked can always reach the socket that is bound.
THEOREM ListenerReachable == Spec => []ListenerIsReachable
<1>1. IInv => ListenerIsReachable
  BY DEF IInv
<1> QED BY <1>1, Invariance, PTL

\* And the executor whose threads live.
THEOREM ExecutorReachable == Spec => []ExecutorIsReachable
<1>1. IInv => ExecutorIsReachable
  BY DEF IInv
<1> QED BY <1>1, Invariance, PTL
-----------------------------------------------------------------------------
(* No accepted connection is lost or answered twice                         *)

\* A thread's connection is its own; the thread of a start in progress has not begun.
HInv ==
  /\ \A g \in Starts, c \in Conns : Holds(g, c) => conn[c].state = "accepted"
  /\ \A g, h \in Starts, c \in Conns : Holds(g, c) /\ Holds(h, c) => g = h
  /\ \A c \in Conns : conn[c].state = "accepted" => \E g \in Starts : Holds(g, c)
  /\ \A g \in Starts : thread[g].pc # "new" => g <= starts /\ (call.start => g # starts)

\* A step that moves no connection to or from a thread keeps all but the order of starts.
LEMMA HeldSame ==
  ASSUME HInv,
         \A g \in Starts, c \in Conns : Holds(g, c)' <=> Holds(g, c),
         \A c \in Conns : conn'[c].state = "accepted" <=> conn[c].state = "accepted",
         \A g \in Starts : thread'[g].pc # "new" => g <= starts' /\ (call'.start => g # starts')
  PROVE  HInv'
BY DEF HInv

\* start and stop leave the accepted connections to the threads.
LEMMA CallHeld ==
  ASSUME IInv, HInv, Start \/ Stop \/ CallStep
  PROVE  HInv'
<1> USE DEF IInv
<1>1. CASE Start \/ Stop
  <2>1. UNCHANGED <<thread, conn>> /\ call.start = FALSE
    BY <1>1 DEF Start, Stop, Idle
  <2>2. (starts' = starts /\ call'.start = FALSE) \/ starts' = starts + 1
    BY <1>1 DEF Start, Stop
  <2>3. \A g \in Starts : thread'[g].pc # "new" => g <= starts' /\ (call'.start => g # starts')
    BY <2>1, <2>2 DEF HInv, TypeOK, Starts, Fields
  <2> QED BY <2>1, <2>3, HeldSame DEF Holds
<1>2. CASE StartThread
  <2>1. call.start /\ starts \in Starts /\ ~call'.start
    BY <1>2 DEF StartThread, CallProgress, Idle
  <2>2. thread[starts].pc = "new"
    BY <2>1 DEF HInv
  <2>3. /\ thread' = [thread EXCEPT ![starts] = [@ EXCEPT !.pc = "check"]]
        /\ UNCHANGED <<conn, starts>>
    BY <1>2 DEF StartThread
  <2>4. thread[starts] \in ThreadRecord
    BY <2>1 DEF TypeOK, ThreadRecord
  <2>5. thread'[starts].pc = "check" /\ \A g \in Starts : g # starts => thread'[g] = thread[g]
    BY <2>1, <2>3, <2>4 DEF TypeOK, ThreadRecord
  <2>6. \A g \in Starts, c \in Conns : Holds(g, c)' <=> Holds(g, c)
    BY <2>2, <2>5 DEF Holds
  <2>7. \A g \in Starts : thread'[g].pc # "new" => g <= starts'
    BY <2>1, <2>3, <2>5 DEF HInv, Starts
  <2> QED BY <2>1, <2>3, <2>6, <2>7, HeldSame
<1>3. CASE StopRunning \/ ForgetSocket \/ ShutdownExecutor \/ DropExecutor
           \/ (\E ok \in BOOLEAN : Bind(ok)) \/ NewExecutor \/ SetRunning
  <2>1. UNCHANGED <<thread, conn, starts>> /\ (call'.start => call.start)
    BY <1>3 DEF StopRunning, ForgetSocket, ShutdownExecutor, DropExecutor, Bind, NewExecutor,
       SetRunning, To, Idle, TypeOK
  <2> QED BY <2>1, HeldSame DEF Holds, HInv
<1>4. CASE CloseSocket
  <2>1. UNCHANGED <<thread, starts>> /\ (call'.start => call.start)
    BY <1>4 DEF CloseSocket, To, TypeOK
  <2>2. \A c \in Conns : conn'[c].state = "accepted" <=> conn[c].state = "accepted"
    BY <1>4 DEF CloseSocket, TypeOK
  <2> QED BY <2>1, <2>2, HeldSame DEF Holds, HInv
<1> QED BY <1>1, <1>2, <1>3, <1>4 DEF CallStep

\* A thread that lets go of its connection has closed it or passed it on.
LEMMA LetGo ==
  ASSUME IInv, HInv, NEW g \in Starts, NEW c \in Conns, Holds(g, c),
         conn'[c].state # "accepted", thread'[g].pc = "check",
         \A d \in Conns : d # c => conn'[d] = conn[d],
         \A h \in Starts : h # g => thread'[h] = thread[h],
         UNCHANGED <<call, starts>>
  PROVE  HInv'
<1>1. \A d \in Conns : ~Holds(g, d)'
  BY DEF Holds
<1>2. \A h \in Starts, d \in Conns : h # g => (Holds(h, d)' <=> Holds(h, d))
  BY DEF Holds
<1>3. \A h \in Starts : Holds(h, c) => h = g
  BY DEF HInv
<1>4. \A d \in Conns : Holds(g, d) => d = c
  BY DEF Holds
<1>5. \A h \in Starts, d \in Conns : Holds(h, d)' => d # c /\ h # g /\ Holds(h, d)
  BY <1>1, <1>2, <1>3
<1>6. \A d \in Conns : conn'[d].state = "accepted" => \E h \in Starts : Holds(h, d)'
  BY <1>2, <1>4 DEF HInv
<1>7. thread[g].pc # "new"
  BY DEF Holds
<1>8. \A h \in Starts : thread'[h].pc # "new" => h <= starts' /\ (call'.start => h # starts')
  BY <1>7 DEF HInv
<1> QED BY <1>5, <1>6, <1>8 DEF HInv

\* Each statement of acceptLoop keeps the connections in hand.
LEMMA LoopHeld ==
  ASSUME IInv, HInv, NEW g \in Starts, ThreadStep(g)
  PROVE  HInv'
<1> USE DEF IInv
<1>0. thread[g] \in ThreadRecord /\ thread[g].pc # "new"
  BY DEF TypeOK, ThreadRecord, ThreadStep, CheckRunning, ReadSocket, Accept, AcceptThrows,
     ReadExecutor, Execute, Exit
<1>1. CASE CheckRunning(g) \/ ReadSocket(g) \/ AcceptThrows(g) \/ Exit(g)
  <2>1. /\ UNCHANGED <<conn, call, starts>>
        /\ thread'[g].pc \in {"read", "exit", "accept", "check", "dead"}
        /\ thread[g].pc \notin {"executor", "execute"}
        /\ \A h \in Starts : h # g => thread'[h] = thread[h]
    BY <1>0, <1>1 DEF TypeOK, CheckRunning, ReadSocket, AcceptThrows, Exit, Goto, Leave,
       NotStarted, ThreadRecord
  <2>2. \A h \in Starts, c \in Conns : Holds(h, c)' <=> Holds(h, c)
    BY <2>1 DEF Holds
  <2>3. \A h \in Starts : thread'[h].pc # "new" => h <= starts' /\ (call'.start => h # starts')
    BY <1>0, <2>1 DEF HInv
  <2> QED BY <2>1, <2>2, <2>3, HeldSame
<1>2. ASSUME NEW c \in Conns, Accept(g, c) PROVE HInv'
  <2>1. /\ UNCHANGED <<call, starts>>
        /\ thread[g].pc = "accept" /\ conn[c].state = "waiting"
        /\ thread'[g].pc = "executor" /\ thread'[g].conn = c
        /\ \A h \in Starts : h # g => thread'[h] = thread[h]
        /\ conn'[c].state = "accepted"
        /\ \A d \in Conns : d # c => conn'[d] = conn[d]
    BY <1>0, <1>2 DEF TypeOK, Accept, ThreadRecord
  <2>2. Holds(g, c)' /\ \A d \in Conns : d # c => ~Holds(g, d)'
    BY <2>1 DEF Holds
  <2>3. \A h \in Starts : ~Holds(h, c)
    BY <2>1 DEF HInv
  <2>4. \A h \in Starts, d \in Conns : h # g => (Holds(h, d)' <=> Holds(h, d))
    BY <2>1 DEF Holds
  <2>5. \A d \in Conns : ~Holds(g, d)
    BY <2>1 DEF Holds
  <2>6. \A h \in Starts : thread'[h].pc # "new" => h <= starts' /\ (call'.start => h # starts')
    BY <1>0, <2>1 DEF HInv
  <2>7. \A h \in Starts, d \in Conns : Holds(h, d)' => conn'[d].state = "accepted"
    BY <2>1, <2>2, <2>4 DEF HInv
  <2>8. \A h, i \in Starts, d \in Conns : Holds(h, d)' /\ Holds(i, d)' => h = i
    BY <2>2, <2>3, <2>4 DEF HInv
  <2>9. \A d \in Conns : conn'[d].state = "accepted" => \E h \in Starts : Holds(h, d)'
    BY <2>1, <2>2, <2>4, <2>5 DEF HInv
  <2> QED BY <2>6, <2>7, <2>8, <2>9 DEF HInv
<1>3. CASE ReadExecutor(g)
  <2> DEFINE c == thread[g].conn
  <2>1. c \in Conns /\ Holds(g, c) /\ UNCHANGED <<call, starts>>
    BY <1>3 DEF TypeOK, ReadExecutor, Holds
  <2>2. \A h \in Starts : h # g => thread'[h] = thread[h]
    BY <1>3 DEF TypeOK, ReadExecutor
  <2>3. CASE clientExecutor = 0
    <3>1. thread'[g].pc = "check" /\ conn' = [conn EXCEPT ![c].state = "closed"]
      BY <1>3, <2>3 DEF TypeOK, ReadExecutor, Leave, NotStarted
    <3>2. conn'[c].state # "accepted" /\ \A d \in Conns : d # c => conn'[d] = conn[d]
      BY <2>1, <3>1 DEF TypeOK
    <3> QED BY <2>1, <2>2, <3>1, <3>2, LetGo
  <2>4. CASE clientExecutor # 0
    <3>1. thread' = [thread EXCEPT ![g] = [@ EXCEPT !.ex = clientExecutor, !.pc = "execute"]]
      BY <1>3, <2>4 DEF ReadExecutor
    <3>2. thread'[g].pc = "execute" /\ thread'[g].conn = c
      BY <1>0, <3>1 DEF TypeOK, ThreadRecord
    <3>3. conn' = [conn EXCEPT ![c].state = @]
      BY <1>3, <2>4 DEF ReadExecutor
    <3>4. \A d \in Conns : conn'[d].state = conn[d].state
      BY <2>1, <3>3 DEF TypeOK
    <3>5. \A h \in Starts, d \in Conns : Holds(h, d)' <=> Holds(h, d)
      BY <1>3, <2>2, <3>2 DEF Holds, ReadExecutor
    <3>6. \A h \in Starts : thread'[h].pc # "new" => h <= starts' /\ (call'.start => h # starts')
      BY <1>0, <2>1, <2>2, <3>2 DEF HInv
    <3> QED BY <3>4, <3>5, <3>6, HeldSame
  <2> QED BY <2>3, <2>4
<1>4. CASE Execute(g)
  <2> DEFINE c == thread[g].conn
  <2>1. c \in Conns /\ Holds(g, c) /\ UNCHANGED <<call, starts>>
    BY <1>4 DEF TypeOK, Execute, Holds
  <2>2. thread'[g].pc = "check" /\ \A h \in Starts : h # g => thread'[h] = thread[h]
    BY <1>4 DEF TypeOK, Execute, Leave, NotStarted
  <2>3. conn'[c].state # "accepted" /\ \A d \in Conns : d # c => conn'[d] = conn[d]
    BY <1>4, <2>1 DEF TypeOK, Execute
  <2> QED BY <2>1, <2>2, <2>3, LetGo
<1> QED BY <1>1, <1>2, <1>3, <1>4 DEF ThreadStep

\* Clients and handlers do not touch a connection that a thread has in hand.
LEMMA ConnHeld ==
  ASSUME IInv, HInv, NEW c \in Conns, Connect(c) \/ HandleSocket(c)
  PROVE  HInv'
<1>1. UNCHANGED <<thread, call, starts>>
  BY DEF Connect, HandleSocket
<1>2. \A d \in Conns : conn'[d].state = "accepted" <=> conn[d].state = "accepted"
  BY DEF Connect, HandleSocket, IInv, TypeOK
<1> QED BY <1>1, <1>2, HeldSame DEF Holds, HInv

\* Every accepted connection has one thread that will close it or hand it over: what is
\* left of ConnectionsEnd is that threads and handlers run.
THEOREM AcceptedHeld == Spec => []AcceptedIsHeld
<1>1. Init => HInv
  BY DEF Init, HInv, Holds, NotStarted
<1>2. ASSUME IInv, HInv, [Next]_vars PROVE HInv'
  <2>1. CASE UNCHANGED vars
    BY <1>2, <2>1 DEF vars, HInv, Holds
  <2> QED BY <1>2, <2>1, CallHeld, LoopHeld, ConnHeld DEF Next
<1>3. HInv => AcceptedIsHeld
  BY DEF HInv, AcceptedIsHeld
<1> QED BY <1>1, <1>2, <1>3, Invariance, PTL DEF Spec
=============================================================================
