--------------------------- MODULE ServiceRegistry ---------------------------
(***************************************************************************)
(* What the registry of user services promises, as if it were one atomic     *)
(* table: a key is served by at most one instance, an instance comes up at   *)
(* most once and only while it serves a key, a connection is handed the      *)
(* binder in the very step that makes it connected and the instance up, and  *)
(* whatever retires an instance takes it down, for good, in the same step.   *)
(* UserServices, with its start queue, its timeouts, its late attach calls   *)
(* and its unlocked handlers, refines it.                                    *)
(***************************************************************************)
CONSTANTS Clients, Keys, Instances, NoInstance

VARIABLES
  serving,    \* the instance that serves a key (NoInstance: none)
  phase,      \* how far an instance has come: new, starting, running, ended
  up,         \* instances whose process can be used
  connected,  \* <<c, i>>: client c has a connection to instance i
  told,       \* <<c, i>>: client c has been given the binder of instance i
  alive       \* clients whose process is there

vars == <<serving, phase, up, connected, told, alive>>

Init ==
  /\ serving = [k \in Keys |-> NoInstance]
  /\ phase = [i \in Instances |-> "new"]
  /\ up = {}
  /\ connected = {}
  /\ told = {}
  /\ alive = Clients

\* Instance i is out of service: down and without connections.
Without(i) ==
  /\ up' = up \ {i}
  /\ connected' = connected \ (Clients \X {i})

\* A new instance takes over key k from whichever served it, for those who asked.
Start(k, i, askers) ==
  /\ phase[i] = "new"
  /\ serving' = [serving EXCEPT ![k] = i]
  /\ phase' = [j \in Instances |-> IF j = i THEN "starting"
                                   ELSE IF j = serving[k] THEN "ended"
                                   ELSE phase[j]]
  /\ up' = up \ {serving[k]}
  /\ connected' = (connected \ (Clients \X {serving[k]})) \cup (askers \X {i})
  /\ UNCHANGED <<told, alive>>

\* The process of a starting instance answers, perhaps with its last breath.
Attach(k, i, lives) ==
  /\ serving[k] = i
  /\ phase[i] = "starting"
  /\ phase' = [phase EXCEPT ![i] = "running"]
  /\ up' = IF lives THEN up \cup {i} ELSE up
  /\ told' = told \cup {a \in connected : a[1] \in alive /\ a[2] = i}
  /\ UNCHANGED <<serving, connected, alive>>

\* A live client connects to the instance that serves k, and hears of it if it is up.
Connect(c, k, i) ==
  /\ c \in alive
  /\ serving[k] = i
  /\ connected' = connected \cup {<<c, i>>}
  /\ told' = IF i \in up THEN told \cup {<<c, i>>} ELSE told
  /\ UNCHANGED <<serving, phase, up, alive>>

Disconnect(a) ==
  /\ connected' = connected \ {a}
  /\ UNCHANGED <<serving, phase, up, told, alive>>

\* The process of an instance that still serves its key is gone.
Crash(i) ==
  /\ up' = up \ {i}
  /\ UNCHANGED <<serving, phase, connected, told, alive>>

\* The instance that serves k is retired, up or not.
End(k, i) ==
  /\ serving[k] = i
  /\ serving' = [serving EXCEPT ![k] = NoInstance]
  /\ phase' = [phase EXCEPT ![i] = "ended"]
  /\ Without(i)
  /\ UNCHANGED <<told, alive>>

ClientDies(c) ==
  /\ alive' = alive \ {c}
  /\ UNCHANGED <<serving, phase, up, connected, told>>

Next ==
  \/ \E k \in Keys, i \in Instances :
       \/ \E askers \in SUBSET alive : Start(k, i, askers)
       \/ \E lives \in BOOLEAN : Attach(k, i, lives)
       \/ \E c \in Clients : Connect(c, k, i)
       \/ End(k, i)
  \/ \E a \in connected : Disconnect(a)
  \/ \E i \in up : Crash(i)
  \/ \E c \in alive : ClientDies(c)

Spec == Init /\ [][Next]_vars
=============================================================================
