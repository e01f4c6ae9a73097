----------------------------- MODULE LinkServer -----------------------------
(***************************************************************************)
(* MultiplayerLinkServer: a host's small HTTP server.  start and stop hold    *)
(* its lock, but the accept threads and the request handlers never take it:   *)
(* an accept thread reads running, serverSocket and clientExecutor one after  *)
(* the other and writes running when it ends.  Every statement of start and   *)
(* stopLocked that such a thread can observe is a step of its own.            *)
(*                                                                          *)
(* The n-th call of start makes the n-th server socket, executor and accept  *)
(* thread; 0 stands for a null field.                                        *)
(***************************************************************************)
EXTENDS Naturals

CONSTANTS
  MaxStarts,  \* calls of start in one behaviour (bound)
  Conns       \* connections clients may open (bound)

ASSUME MaxStartsAssumption == MaxStarts \in Nat

VARIABLES
  running, serverSocket, clientExecutor,  \* the fields
  call,       \* the start or stop in progress: its next statement, if any
  starts,     \* calls of start so far
  listening,  \* server sockets that are bound and not closed
  up,         \* executors that accept tasks
  thread,     \* accept threads
  conn        \* connections

vars == <<running, serverSocket, clientExecutor, call, starts, listening, up, thread, conn>>

Starts == 1 .. MaxStarts
Fields == 0 .. MaxStarts
Idle   == [pc |-> "idle", start |-> FALSE]

Loop == {"check", "read", "accept", "executor", "execute", "exit"}
NotStarted == [pc |-> "new", ss |-> 0, ex |-> 0, conn |-> "none"]

Init ==
  /\ running = FALSE
  /\ serverSocket = 0
  /\ clientExecutor = 0
  /\ call = Idle
  /\ starts = 0
  /\ listening = {}
  /\ up = {}
  /\ thread = [g \in Starts |-> NotStarted]
  /\ conn = [c \in Conns |-> [state |-> "none", ss |-> 0]]

-----------------------------------------------------------------------------
(* start and stop: stopLocked first, in both                                *)

\* startHost leaves a server that says it is running alone.
Start ==
  /\ call = Idle
  /\ ~running
  /\ starts < MaxStarts
  /\ starts' = starts + 1
  /\ call' = [pc |-> "stop", start |-> TRUE]
  /\ UNCHANGED <<running, serverSocket, clientExecutor, listening, up, thread, conn>>

Stop ==
  /\ call = Idle
  /\ call' = [pc |-> "stop", start |-> FALSE]
  /\ UNCHANGED <<running, serverSocket, clientExecutor, starts, listening, up, thread, conn>>

\* The call's next statement.
To(pc) == call' = [call EXCEPT !.pc = pc]

\* Mutant: nothing to do for a server that is not running.
StopRunning_Only ==
  /\ call.pc = "stop"
  /\ running' = FALSE
  /\ IF running THEN To("close")
     ELSE IF call.start THEN To("bind")
     ELSE call' = Idle
  /\ UNCHANGED <<serverSocket, clientExecutor, starts, listening, up, thread, conn>>

\* Mutant: the flag is left to the accept thread.
StopRunning_Keeps ==
  /\ call.pc = "stop"
  /\ To("close")
  /\ UNCHANGED <<running, serverSocket, clientExecutor, starts, listening, up, thread, conn>>

StopRunning ==
  /\ call.pc = "stop"
  /\ running' = FALSE
  /\ To("close")
  /\ UNCHANGED <<serverSocket, clientExecutor, starts, listening, up, thread, conn>>

\* Mutant: the field is cleared first, so there is nothing left to close.
CloseSocket_Null ==
  /\ call.pc = "close"
  /\ To("forget")
  /\ UNCHANGED <<running, serverSocket, clientExecutor, starts, listening, up, thread, conn>>

\* Closing a server socket resets the connections that nobody accepted.
CloseSocket ==
  /\ call.pc = "close"
  /\ listening' = listening \ {serverSocket}
  /\ conn' = [c \in Conns |-> IF conn[c].state = "waiting" /\ conn[c].ss = serverSocket
                              THEN [state |-> "closed", ss |-> 0] ELSE conn[c]]
  /\ To("forget")
  /\ UNCHANGED <<running, serverSocket, clientExecutor, starts, up, thread>>

ForgetSocket ==
  /\ call.pc = "forget"
  /\ serverSocket' = 0
  /\ To("shutdown")
  /\ UNCHANGED <<running, clientExecutor, starts, listening, up, thread, conn>>

\* shutdownNow interrupts handlers; a handler blocked on its socket goes on.
ShutdownExecutor ==
  /\ call.pc = "shutdown"
  /\ up' = up \ {clientExecutor}
  /\ To("drop")
  /\ UNCHANGED <<running, serverSocket, clientExecutor, starts, listening, thread, conn>>

DropExecutor ==
  /\ call.pc = "drop"
  /\ clientExecutor' = 0
  /\ IF call.start THEN To("bind") ELSE call' = Idle
  /\ UNCHANGED <<running, serverSocket, starts, listening, up, thread, conn>>

\* new ServerSocket(port), which may find the port taken: start throws then.
Bind(ok) ==
  /\ call.pc = "bind"
  /\ IF ok
     THEN /\ serverSocket' = starts
          /\ listening' = listening \cup {starts}
          /\ To("pool")
     ELSE call' = Idle /\ UNCHANGED <<serverSocket, listening>>
  /\ UNCHANGED <<running, clientExecutor, starts, up, thread, conn>>

NewExecutor ==
  /\ call.pc = "pool"
  /\ clientExecutor' = starts
  /\ up' = up \cup {starts}
  /\ To("run")
  /\ UNCHANGED <<running, serverSocket, starts, listening, thread, conn>>

SetRunning ==
  /\ call.pc = "run"
  /\ running' = TRUE
  /\ To("thread")
  /\ UNCHANGED <<serverSocket, clientExecutor, starts, listening, up, thread, conn>>

StartThread ==
  /\ call.pc = "thread"
  /\ thread' = [thread EXCEPT ![starts].pc = "check"]
  /\ call' = Idle
  /\ UNCHANGED <<running, serverSocket, clientExecutor, starts, listening, up, conn>>

CallStep ==
  \/ StopRunning \/ CloseSocket \/ ForgetSocket \/ ShutdownExecutor \/ DropExecutor
  \/ \E ok \in BOOLEAN : Bind(ok)
  \/ NewExecutor \/ SetRunning \/ StartThread

-----------------------------------------------------------------------------
(* acceptLoop, in the thread of the g-th start                              *)

Goto(g, pc) == thread' = [thread EXCEPT ![g].pc = pc]

\* The body of the loop ends, and with it the variables it declares.
Leave(pc) == [NotStarted EXCEPT !.pc = pc]

CheckRunning(g) ==
  /\ thread[g].pc = "check"
  /\ Goto(g, IF running THEN "read" ELSE "exit")
  /\ UNCHANGED <<running, serverSocket, clientExecutor, call, starts, listening, up, conn>>

\* Mutant: the field is used without a look at it.
ReadSocket_NoCheck(g) ==
  /\ thread[g].pc = "read"
  /\ thread' = [thread EXCEPT ![g].ss = serverSocket, ![g].pc = "accept"]
  /\ UNCHANGED <<running, serverSocket, clientExecutor, call, starts, listening, up, conn>>

ReadSocket(g) ==
  /\ thread[g].pc = "read"
  /\ thread' = [thread EXCEPT ![g].ss = serverSocket,
                              ![g].pc = IF serverSocket = 0 THEN "exit" ELSE "accept"]
  /\ UNCHANGED <<running, serverSocket, clientExecutor, call, starts, listening, up, conn>>

Accept(g, c) ==
  /\ thread[g].pc = "accept"
  /\ thread[g].ss \in listening
  /\ conn[c] = [state |-> "waiting", ss |-> thread[g].ss]
  /\ conn' = [conn EXCEPT ![c] = [state |-> "accepted", ss |-> 0]]
  /\ thread' = [thread EXCEPT ![g].conn = c, ![g].pc = "executor"]
  /\ UNCHANGED <<running, serverSocket, clientExecutor, call, starts, listening, up>>

\* accept throws once its socket is closed, and may fail before that.
AcceptThrows(g) ==
  /\ thread[g].pc = "accept"
  /\ thread' = [thread EXCEPT ![g] = Leave("check")]
  /\ UNCHANGED <<running, serverSocket, clientExecutor, call, starts, listening, up, conn>>

\* Mutant: a connection that arrives during a stop is left as it is.
ReadExecutor_Leak(g) ==
  /\ thread[g].pc = "executor"
  /\ thread' = [thread EXCEPT ![g] = IF clientExecutor = 0 THEN Leave("check")
                                     ELSE [@ EXCEPT !.ex = clientExecutor, !.pc = "execute"]]
  /\ UNCHANGED <<running, serverSocket, clientExecutor, call, starts, listening, up, conn>>

\* Without an executor the connection is closed at once.
ReadExecutor(g) ==
  /\ thread[g].pc = "executor"
  /\ thread' = [thread EXCEPT ![g] = IF clientExecutor = 0 THEN Leave("check")
                                     ELSE [@ EXCEPT !.ex = clientExecutor, !.pc = "execute"]]
  /\ conn' = [conn EXCEPT ![thread[g].conn].state = IF clientExecutor = 0 THEN "closed" ELSE @]
  /\ UNCHANGED <<running, serverSocket, clientExecutor, call, starts, listening, up>>

\* An executor that was shut down since rejects the task; nobody closes the
\* connection then.
Execute(g) ==
  /\ thread[g].pc = "execute"
  /\ conn' = [conn EXCEPT ![thread[g].conn].state =
                IF thread[g].ex \in up THEN "handling" ELSE "leaked"]
  /\ thread' = [thread EXCEPT ![g] = Leave("check")]
  /\ UNCHANGED <<running, serverSocket, clientExecutor, call, starts, listening, up>>

\* The last statement of acceptLoop, whoever has called start since.
Exit(g) ==
  /\ thread[g].pc = "exit"
  /\ running' = FALSE
  /\ Goto(g, "dead")
  /\ UNCHANGED <<serverSocket, clientExecutor, call, starts, listening, up, conn>>

ThreadStep(g) ==
  \/ CheckRunning(g) \/ ReadSocket(g)
  \/ \E c \in Conns : Accept(g, c)
  \/ AcceptThrows(g) \/ ReadExecutor(g) \/ Execute(g) \/ Exit(g)

-----------------------------------------------------------------------------
\* A client connects to the listening socket.
Connect(c) ==
  /\ conn[c].state = "none"
  /\ \E s \in listening : conn' = [conn EXCEPT ![c] = [state |-> "waiting", ss |-> s]]
  /\ UNCHANGED <<running, serverSocket, clientExecutor, call, starts, listening, up, thread>>

\* handleSocket answers or gives up (every read has a timeout and the request a
\* size limit), and closes the socket in any case.
HandleSocket(c) ==
  /\ conn[c].state = "handling"
  /\ conn' = [conn EXCEPT ![c].state = "closed"]
  /\ UNCHANGED <<running, serverSocket, clientExecutor, call, starts, listening, up, thread>>

Next ==
  \/ Start \/ Stop \/ CallStep
  \/ \E g \in Starts : ThreadStep(g)
  \/ \E c \in Conns : Connect(c) \/ HandleSocket(c)

Spec == Init /\ [][Next]_vars

\* accept blocks: the socket is open and nobody connects.
Blocked(g) ==
  /\ thread[g].pc = "accept"
  /\ thread[g].ss \in listening
  /\ \A c \in Conns : conn[c] # [state |-> "waiting", ss |-> thread[g].ss]

\* Threads run; nobody has to call start or stop, or to connect, and an accept
\* on an open socket need not fail.
Fairness ==
  /\ WF_vars(CallStep)
  /\ \A g \in Starts : WF_vars(~Blocked(g) /\ ThreadStep(g))
  /\ \A c \in Conns : WF_vars(HandleSocket(c))

FairSpec == Spec /\ Fairness

-----------------------------------------------------------------------------
(* Properties                                                               *)

\* Every variable keeps its type, and no thread uses a field it read as null.
TypeOK ==
  /\ running \in BOOLEAN
  /\ serverSocket \in Fields
  /\ clientExecutor \in Fields
  /\ call \in [pc : {"idle", "stop", "close", "forget", "shutdown", "drop", "bind", "pool", "run", "thread"},
               start : BOOLEAN]
  /\ starts \in Fields
  /\ listening \in SUBSET Starts
  /\ up \in SUBSET Starts
  /\ thread \in [Starts -> [pc : Loop \cup {"new", "dead"}, ss : Fields, ex : Fields,
                            conn : Conns \cup {"none"}]]
  /\ \A g \in Starts : /\ thread[g].pc = "accept" => thread[g].ss # 0
                       /\ thread[g].pc = "execute" => thread[g].ex # 0
                       /\ thread[g].pc \in {"executor", "execute"} => thread[g].conn \in Conns
  /\ conn \in [Conns -> [state : {"none", "waiting", "accepted", "handling", "leaked", "closed"},
                         ss : Fields]]

\* Thread g has connection c in its local variable.
Holds(g, c) == thread[g].pc \in {"executor", "execute"} /\ thread[g].conn = c

\* isRunning is what the panel shows and what startHost relies on: between two
\* calls a server that says it runs has a bound socket, an executor that takes
\* tasks and a live accept thread that is not about to end, although the threads
\* of earlier starts may still be running.
RunningIsServed ==
  (running /\ call = Idle) =>
    /\ serverSocket \in listening
    /\ clientExecutor \in up
    /\ thread[starts].pc \in Loop \ {"exit"}

\* The port is bound at most once, by the socket stopLocked can still reach,
\* even when a late thread has cleared running behind start's back.
ListenerIsReachable == listening \subseteq {serverSocket}

\* So are the executors: none is left behind with its threads.
ExecutorIsReachable == up \subseteq {clientExecutor}

\* An accepted connection is in the hands of exactly one accept thread until it is
\* closed or handed over (MultiplayerLinkServer 92-94): a stop, a restart or another
\* thread's end between accept and execute neither forgets it nor answers it twice.
AcceptedIsHeld ==
  \A c \in Conns :
    conn[c].state = "accepted" <=>
      \E g \in Starts : /\ Holds(g, c)
                        /\ \A h \in Starts : Holds(h, c) => h = g

\* Once the server is stopped for good every accept thread ends, the ones that
\* a later start brought back to life included.
ThreadsEnd == <>[](call = Idle /\ serverSocket = 0) => <>[](\A g \in Starts : thread[g].pc \in {"new", "dead"})

\* A connection that was accepted is answered and closed, or (leaked) met an
\* executor that had been shut down.
ConnectionsEnd == \A c \in Conns : conn[c].state = "accepted" ~> conn[c].state \in {"closed", "leaked"}
=============================================================================
