# Verification of PermsTest and its privileged server

PermsTest is an Android app that runs commands, file operations and tools with more rights than an
app has. It gets them from a Shizuku server: a process started over ADB or as root, which apps reach
over Binder. The repository holds the app (`permstest`), its own copy of that server (`server`,
`server-shared`, `starter`), the client library (`api`, `provider`, `common`, `aidl`, `shared`), the
remote shell `rish` and a number of tools beside them. This directory models the parts whose correctness depends on the order
in which processes and threads act, checks the models with TLC on small instances, and proves their
main safety properties with TLAPS for all instances.

Paths below are short: `UserServiceManager` is
`src/server-shared/src/main/java/rikka/shizuku/server/UserServiceManager.java`, and so on.
`PROJECT.json` maps each definition to its file and lines.

## 1. The system

### 1.1 Components with state of their own

| Component | State | Operations | Shared with |
|---|---|---|---|
| **User service registry** (`UserServiceManager`, `UserServiceRecord`, `ShizukuUserServiceManager`, `ServiceStarter`) | records by key, list of records per package, one executor, start timeouts, observers of APK paths | bind, peek, unbind, attach, start timeout, death of a process or a connection, APK removal and upgrade, revocation of a package | client processes (Binder calls and death notices), service processes, the main handler, permission revocation |
| **Client permissions** (`ShizukuService`, `Service`, `ClientManager`, `ClientRecord`, `ShizukuConfigManager`) | client records, the configuration, the file it is written to ten seconds later, Android's runtime permission | attachApplication, requestPermission, the manager's answer to a prompt, the manager's flags, the constructor, the writer | client processes, the manager app, the registry (a revocation retires a package's services) |
| **Client library and provider** (`Shizuku`, `ShizukuProvider`, `ShizukuConfig`) | the current binder, its death link, ready, whether it is the embedded server's, one cached binder per kind of server | sendBinder, getBinder, restoreCachedBinder, clearActiveEmbeddedBinder, death notice, bindApplication, listeners | servers (Binder threads), the main thread |
| **Shizuku backend** (`MainActivity`, `BackendStatusController`, `InternalShizukuController`, `ShizukuStatusRefreshController`, `PermsTestApp`, `ExecMode`) | the selected mode | switch modes, start and stop the internal server, refresh the status | the provider, on the main thread |
| **Rish, server side** (`RishService`, `RishHost`, `rikka_rish_RishHost.cpp`, `pts.cpp`) | a pseudo-terminal, pipes, a forked shell and up to three transfer threads per session | createHost, transfer, kill, waitFor, setWindowSize, getExitCode | the client's pipes (descriptors sent over Binder), the shell, other sessions in the same process |
| **Rish, client side** (`Rish`, `RishTerminal`, `rikka_rish_RishTerminal.cpp`, `pts.cpp`) | the user's terminal and its mode, two mutexes, transfer threads, the exit code | prepare, createHost, start, waitFor, SIGWINCH, setWindowSize | the server, the user's terminal, whoever reads its output |
| **Multiplayer Link server** (`MultiplayerLinkServer`) | running, a server socket, an executor, accept threads | start, stop, accept, handle | its own threads, the Link panel |
| **Multiplayer Link sessions** (`MultiplayerLinkController`) | feature gate, the guest's grants, connects and actions in flight | start and stop hosting, connect, disconnect, send an action | the Link server, a remote host, preferences |
| **Binder delivery** (`BinderSender`, `ApkChangedObservers`) | the processes and uids that have had a binder; observers by path | process and uid observers, send, start and stop observing | the provider of each client app, the registry |
| **User service connections** (`ShizukuServiceConnection(s)`) | connections by tag, the binder of each | connected, died, add and remove | the registry, the main thread |
| **Internal ADB** (`InternalAdbService`, pairing and discovery services) | pairing and start jobs, the discovered endpoint, preferences | pair, discover, start and stop the server | the backend, system discovery |
| **LADB**, **shell jobs**, **FTP, HTTP and SSH servers** | a process or a server with its threads | start, stop, commands, sessions | their panels |
| **Alarms and timers**, **payload queue**, **save data**, **updates**, **kiosk**, **plugins** | preferences or files, written in several steps | see the plan | system services |

The rest of the repository is user interface, pure transformations (disassembly, hex views, APK and
DEX editing, converters), thin wrappers around one command, data, and the Go tools `apktool-go`,
`jadx-go` and `medit`, which are sequential command-line programs. `PROJECT.json` lists all of it
with the reason it is not modelled.

### 1.2 What is hard

- **Privileged processes.** A process with shell or root rights is started asynchronously and attaches
  when it likes. In between its record may be replaced, time out or be revoked. It must not stay behind
  unknown to the server (`UserServiceManager:98`).
- **Three copies of a permission.** The manager's decision is written to client records, to the
  configuration and to Android's runtime permission, by separate statements under no common lock,
  while processes attach, another of the manager's calls does the same and the server may be killed
  (`ShizukuService:358`, `429`, `ShizukuConfigManager:190`).
- **Unsynchronized statics.** The app's binder, its death link and the flag that says which server it
  belongs to are plain static fields which Binder threads and the main thread write at the same time,
  one of them in the middle of a call of the other (`Shizuku:125-170`, `ShizukuProvider:127-148`).
- **Lock-free threads beside a locked object.** The Link server's accept threads outlive `stop` and
  read and write the fields of a later `start` (`MultiplayerLinkServer:87-101`).
- **File descriptors as numbers, shared by threads.** A rish session is made of threads that block in
  `read`, close numbers that other threads use, and end each other's streams by doing so; pipe ends leak
  into whatever the process forks meanwhile (`RishHost.cpp:80-159`, `pts.cpp:62-76`). The client's main
  thread waits on a mutex that another thread unlocks, and a signal handler unlocks another one
  (`RishTerminal.cpp:70-126`).
- **Listeners registered while something happens**, and death notices that arrive late or never.

`PROJECT.json` lists each hazard at its line with the properties that watch it.

### 1.3 What makes each part correct

- *Registry*: no attached service process is unknown to the server; one process per key; a connection
  gets the binder whichever of bind and attach is first; a start is resolved; a retired or revoked
  service does not come back; a non-daemon service ends with its app.
- *Permissions*: a decision that nothing crossed lasts, across crashes and the late steps of other calls; the copies
  agree again; a refused uid is not served and a granted one is.
- *Client*: a live current binder is one whose end we will hear of, from a server that knows us; a dead
  one goes; the two kinds of server are kept apart; whatever races leave behind is repaired.
- *Rish*: output comes out complete before the end is reported; the shell is killed only for a reason;
  a client is told when the shell can write no more; a session leaves no descriptor behind; the terminal
  is put back; the remote window follows the local one; the program exits.
- *Link server*: what says it runs is served; nothing bound or running is out of `stop`'s reach;
  threads end, and so does every connection an executor accepted.

## 2. The modules

| Module | Models | Instances | Proofs |
|---|---|---|---|
| `UserServices` | the registry; implements `ServiceRegistry` | `MCUserServices` | `UserServices_proofs`, `ServiceTable_proofs` |
| `ServiceRegistry` | what the registry promises, as one atomic table (abstract) | | |
| `ClientPermissions` | permissions and configuration | `MCClientPermissions` | `ClientPermissions_proofs` |
| `ClientBinder` | client library, provider, backend | `MCClientBinder` | `ClientBinder_proofs` |
| `LinkServer` | Link server | `MCLinkServer` | `LinkServer_proofs` |
| `Relay` | what one direction of a rish session promises (abstract) | | |
| `Mirror` | what the window size promises (abstract) | | |
| `RishHost` | a rish session in the server; implements `Relay` | `MCRishHost` | `RishHost_proofs` |
| `RishTerminal` | the rish program; implements `Relay` and `Mirror` | `MCRishTerminal` | `RishTerminal_proofs` |
| `RishSession` | both sides of rish, joined at the client's pipe; implements `Relay` | | in the module |

### 2.1 UserServices

`rec[t]` is the `UserServiceRecord` with token `t` together with the process started for it;
`current` is `userServiceRecords`, `tracked` is `packageUserServiceRecords`, `queue` the single-thread
executor. What the code does under `synchronized (manager)` is one action. Outside the monitor are: the
start-timeout and callback-died handlers, which test a field and take the monitor later (`removing`
holds the tokens in between); `removeUserServicesForPackage`, which walks the package's list without a
lock (`revoke` is its iterator: a list that has changed makes the next step fail, as Java's iterator
does); and an APK upgrade, which unregisters its listener and registers it again (`upgrading`). A
service process may never start, start and die, answer too late, or be killed while a call of its is
being delivered (`proc`). A client process may be killed before its bind is delivered, so that
`RemoteCallbackList.register` refuses its connection.

`ServiceRegistry` is what a client may rely on when it forgets all of this: a table of keys. An instance is
new, starting, running or ended; it comes up at most once, in the step in which its connections are told; and
whatever retires it takes its process and its connections with it in the same step, for good. There is no
queue, timer, iterator or late message in it. `UserServices` implements it under the mapping `Table`: `current`
is the table, `PhaseOf` reads the phase from whether a record exists, is mapped and has a service, `Up` is the
set of attached processes, and `Connections` are the registered callbacks. Two things the table allows are
there because the code has them: an instance may come up with its last breath (`Attach` with `lives` false,
an attach whose process dies during the call), and the instance that serves a key may crash before anybody
has noticed (`Crash`).

### 2.2 ClientPermissions

`cfg` is the configuration in memory and `file` what `AtomicFile` would read; `write` is the state of
the delayed writer, which may fail, and which an update posts again while it runs. `runtime` is
Android's permission. `attach` are calls of `attachApplication` and the records they leave: a call
looks for a record, reads the flags, links to the process's death and lists the record in four steps,
as `ShizukuService` and `ClientManager` do.

The manager's calls exclude nobody. `dispatchPermissionConfirmationResult` is oneway (`IShizukuService.aidl:43`),
`updateFlagsForUid` is not, each runs on a binder thread, and the only monitors are `findClients`'s and the
configuration's, for one statement each. So `call[c]` is one call of many, each with its own place: a list of
records made at the start (`Begin`), one step per record (`ConfirmRecord`, `SetFlagsRecord`), then an answer writes
the configuration (`ConfirmUpdate`) and, for a grant, Android's permission (`ConfirmGrant`), while the flags go to
the permission first (`SetFlagsRuntime`) and to the configuration last (`SetFlagsUpdate`). `SetFlagsThrows` leaves in the
middle with the exception `removeUserServicesForPackage` may throw. Any step of one call may come between two of
another, or of an attach. `Restart` kills the server at any point and runs the constructor, `Loaded`. Which uids
request the permission in their manifest (`declaring`) is chosen initially.

With so little exclusion the code cannot promise much about decisions that cross, and it does not. History
variables say which decisions something can be promised of:

- `call[c].opposed`: a lasting call overlapped another that decides the opposite on the same uid. Whichever
  came last in each place is what that place holds afterwards; nothing is promised of such a decision.
- `granted` and `barred`: uids with a lasting grant, or a refusal, that stands. A uid enters the set when a call that
  was not opposed ends (or initially), and leaves it when a call of the other direction *begins*. An undeclared uid also
  leaves it in a crash that loses a write, or, if granted, an entry without package names. A lasting denial of a uid
  that has Android's permission does not enter `barred`, as the code leaves that permission alone.
- `attach[a].apart`: a record that need not follow the configuration: its last answer was for one time; it was read or
  listed while a lasting call ran, which had already listed the records it would write; opposed calls wrote to it; or
  the exception cut short the call that wrote it. The next lasting call that is not opposed takes the mark away.

### 2.3 ClientBinder

`binder`, `ready`, `flag`, `cached` and `config` are the static fields of `Shizuku`, `ShizukuProvider`
and `ShizukuConfig`; `pref` is the stored mode; `links` counts, per server, how often the one
`DEATH_RECIPIENT` is linked. Each Binder thread has a program counter in `handleSendBinder`,
`onBinderReceived`, the death recipient, `bindApplication` or `handleGetBinder`. The main thread has a
list of statements to run (`todo`), because a listener called on the main thread runs a whole refresh
inside `onBinderReceived`, which may restore a binder and so call `onBinderReceived` again. While it
does, it holds the monitor of the listeners (`Locked`), and other threads' notifications wait.
`unlinkToDeath` throws if another thread has replaced the binder in between, and leaves the flag
changed. A server is a process that starts once, sends its binder through the provider, answers
`attachApplication` and dies. An installed server is taken to run the code in `server`, which refuses a
second `attachApplication` of a process it already has a record of.

Assumption: threads see each other's writes in program order (the flag and the caches are `volatile`;
`binder` is not). Weaker orders would only add to what the violation runs show.

### 2.4 LinkServer

The n-th `start` makes the n-th socket, executor and accept thread; 0 is null. Each statement of
`start` and `stopLocked` that an accept thread can observe is a step of the call in progress, and each
read of `running`, `serverSocket` and `clientExecutor` by an accept thread is a step of the thread.
`execute` on an executor that was shut down throws; nobody closes that connection (`leaked`).

### 2.5 Relay and Mirror

`Relay` is a direction of a session reduced to two counters: what was written comes out, in number, and
the end is reported only after the writers are gone and all of it is out, or after the relay has broken.
`Mirror` is the window size: sizes are numbered as they occur, the remote size only moves on to a newer
one, and while there is a session it catches up. Chunks have no content; their order is that of the pipe
they go through.

### 2.6 RishHost

One session of the server. `call` is the progress of `RishHost_startHost` and of `RishHost.start`;
`thread[s]` is the place of the transfer thread of stream `s` in `transfer`, with the entry into `read`
and `write` apart from their return, because a blocked call keeps its file when its number is closed.
`slot[e]` is what the number of end `e` names: `own`, `free`, or `other` when the process has opened
another file under it. `child.holds` are the ends (and the slave terminal, `pts`) that the forked process
or its descendants have open; `heir` are those another session's shell inherited at its fork. `HungUp` and
`Writers` say when a read ends: a pipe when nobody has its other end, a terminal when the slave, once
opened, is open nowhere. The shell writes, reads, closes its output, exits and leaves descendants as it
likes. `OutRelay` maps the session to `Relay`: writers are open until the call has failed or no process
can write; the relay breaks with the client's death, or when a thread has closed the number that standard
input and output share.

What the shared number may do is part of the model and of the properties: with a terminal on both sides
the threads of standard input and of standard output both close the pseudo-terminal (`pts.cpp:73-74`), the
second of them whatever has the number by then. `ThreadsKeepTheirFiles` therefore excepts exactly the
number's other user, `KillSparesTheLive` names it as a reason of the kill, and `ReadsAstray` names the one
case in which a thread may wait on another session's file. Taken to succeed: `pipe2` and
`pthread_create`, whose results the code ignores. A file that another thread read or wrote by a reused
number is not followed.

### 2.7 RishTerminal

`main` is the main thread from `prepare` to `System.exit`, `mutex` the one it waits on, `raw` the state of
the user's terminal and `ttyInRaw` the code's variable for it. The threads of standard output and standard
error are as in `RishHost`; that of standard input only ends, at any time. With redirected errors both
output threads read the pipe of standard output (`RishTerminal.java:90`); `stray` records that the wrong
one has taken a chunk. `winch` is `winch_mutex`, the pending signal and the thread that locks, reads the
size and sends it. The handler runs in some thread of the runtime, which is why it may run between any
two steps. `remote` is what the server has of the session; it may close its ends or die at any time.

`OutRelay` maps the program to `Relay` (pipe to standard output), where the end is that `waitFor` returns.
It composes with `RishHost`'s: there the end is that the client's pipe closes, which is `remote.out` here.
`WindowMirror` maps it to `Mirror`.

### 2.8 RishSession

Both sides at once, each with its own module's unchanged specification, over shared variables: the modes the
client found and sent (`tty`), and the chunks in the client's pipe (`piped`), which are what the host's
transfer thread has written and what the program reads. `Joint` says where the two must move together, because one
descriptor is at both ends: a chunk that the host's thread writes is a chunk that arrives, and the end of the
pipe is that thread's closing of the write end, unless the server dies. Everything else interleaves freely,
the fate of the client as the server sees it included: whether the client is gone and when its pipe was
opened is left open by `Joint`, so that the theorems hold of more behaviours than a session has. The history
variable `cut` records that a side broke while it still had something to say. Without it the statement would be
empty for an interactive shell, whose transfer thread itself closes the shared number once it has seen
the end, which `RishHost` counts as a break from then on. Standard
input and standard error are not joined.

## 3. The runs

Every property of a passing run is accompanied by a mutant: a plausible bug in a mapped definition
under which TLC finds the property violated in the same run.

| Run | Properties | Instance | Shows |
|---|---|---|---|
| `services_bind` | `TypeOK NoOrphanService OneServicePerKey NoMissedBinder StartIsBounded RetiredForGood KeepsRegistry` | 2 clients, 1 key, 2 versions, 2 records | binds, peeks and unbinds of two processes against late attaches, timeouts and deaths |
| `services_revoke` | `RevokedStayRemoved KeepsRegistry` | 1 client, 2 records, 1 revocation, 1 upgrade | revocation walking a list that grows |
| `services_live` | `StartResolves LastConnectionStops` | 2 clients, 1 record, 1 revocation, 1 upgrade, fair | every start ends, and a service goes with its last connection |
| `services_nondaemon` | `NonDaemonStops` (violated) | 1 client, 1 record, fair | finding 1 |
| `permissions` | `RevokeDurable GrantDurable UnsavedIsScheduled RecordsFollowConfig RefusedUnlessAllowed GrantedIsServed` | 1 uid, declaring or not, 2 processes, 2 attaches, 2 calls of the manager | calls that overlap, duplicate attaches, late and failed writes, restarts |
| `link_server` | `TypeOK RunningIsServed ListenerIsReachable ExecutorIsReachable AcceptedIsHeld ThreadsEnd ConnectionsEnd` | 3 starts, 2 connections, fair | late threads of earlier starts: one clears `running`, and the next start must still take down the one before it |
| `binder` | `LiveBinderIsWatched CurrentIsAttached DeadIsDropped Recovers` | 2 installed servers, one dies, a sticky listener, fair | a server and its successor |
| `binder_modes` | `Recovers` | 1 server of each kind, 1 act of the user, 1 getBinder, fair | mode switches, buttons and late restores |
| `binder_sticky` | `StickyIsTold` (violated) | 2 Binder threads, a sticky listener | finding 2 |
| `rish_host` | `ThreadsKeepTheirFiles KillSparesTheLive RelaysOutput NothingIsLeft ClientIsReleased SessionIsReleased` | 4 terminal modes, 1 chunk each way, fair threads | a session against closing, exiting and forking shells, reused numbers and a client that leaves |
| `rish_terminal` | `TerminalRestored RelaysOutput NoChangeIsLost FollowsWindow ExitFollowsRemote` | 3 terminal modes, 2 chunks, 2 sizes, fair | the program against servers that close or die, readers that leave and a window that changes |
| `rish_output` | `ReplacesSh` (violated) | errors redirected, 2 chunks | finding 3 |

Each module has one type invariant, `TypeOK`. Where it says something that could go wrong (no thread of the
Link server uses a field it read as null; a callback is a client) a run checks it; in every concrete module it is part
of the inductive invariant and proved.

**Bounds.** They limit how often something unbounded happens (records made, revocations, starts, sends,
deaths, acts of the user), never what may happen in between; each is a constant in a guard. Two records
of a key are what a replacement needs; two clients, what an order of deaths needs; three starts, a late
thread that clears `running` behind a second server and a third that has to clean up; two servers of a kind, a successor; one of each kind, a mode switch. For rish, one
chunk in flight in each place is what a lost or misdirected chunk needs, and the four modes are the ways
in which threads can share a descriptor or have one of their own. Two
Binder threads beside the main thread were also run for the safety properties of `ClientBinder` while
its proofs were written. The proofs need none of these bounds: the constants are arbitrary there. Actions
without a counter (refreshes, restarts, writes, deaths of clients) are unbounded in the runs too. Two calls of the
manager are what an overlap needs; a third after it, with one attach, was also run.

**Deadlock** is checked except in the `services_*` runs, where a behaviour may end with everything
retired and every bound spent, and in the rish program's, which exits.

**Fairness.** *Registry*: the executor runs its jobs, the main handler its timeouts, Binder delivers
death notices, and a revocation that has begun goes on; nothing makes a service process start, answer
or live, or a client call. An attach that has been sent arrives (weak fairness of `AttachUserService`).
*Link server*: a call that has begun goes on, a thread that is not blocked in `accept` or on a closed
connection runs, a handler answers. No client has to connect and no user to stop. *Client*: threads run
what they have begun; the looper takes each posted message, strongly fair because the user may press
refresh in between for ever; Binder delivers death notices and one-way calls. *Rish*: the kernel schedules the transfer
threads, and in the program also the main thread, the window's thread and the signal's handler; nothing
is assumed of the shell, the client's input, the server or the reader of an output. `Recovers` has its own
premise: a status that keeps being refreshed, as each listener and panel does.

## 4. Findings

1. **A non-daemon service outlives its app** (`services_nondaemon`). `Shizuku:602` says it "will be
   stopped when the app process is dead". `UserServiceRecord` retires it only when the last *registered*
   connection dies; an unbind without remove has unregistered it, or `register` refused it because its
   process was already dead.
2. **A sticky listener may be told by nobody** (`binder_sticky`). The add reads `binderReady` before it
   lists the listener; the notification walks the list before it sets `binderReady`.
3. **Output of a command may come out of standard error** (`rish_output`). `RishTerminal.java:90` passes the
   pipe of standard output for standard error as well. With errors redirected, two threads read it, and
   a chunk goes to whichever reads first; what the command writes to standard error nobody reads, so
   that a command that fills that pipe blocks. `src/rish/README.md:15` says that "you only need to
   replace `sh` with `rish`".

Met while modelling, without a run of their own:

- the notice of an old server drops a live binder, because `DEATH_RECIPIENT` does not know whose notice it
  gets (`Shizuku:78`); `Recovers` bounds the harm;
- in internal mode an installed server can be current under the embedded flag, because the mode is read
  first and the flag and the binder are two writes (`ShizukuProvider:284`, `132`);
- a bind between a service's death and its notice returns the dead record (`UserServiceManager:175`);
- a process that dies before its binder is linked leaves a record nobody retires (`UserServiceRecord:83`);
- an answer and `updateFlagsForUid` that overlap may leave the opposite of either: a grant that reaches
  `grantRuntimePermission` (`ShizukuService:373`) between the revocation's `revokeRuntimePermission` (450) and its update
  of the configuration (457) leaves a configuration that refuses the uid and, after a restart, one that allows it; a denial
  overtaken by an allow between lines 349 and 359 leaves attached processes allowed under a stored denial;
- an answer for one time that has listed its records before a revocation may write them after it
  (`ShizukuService:351`);
- flags set by the manager make an entry without package names, which an equal answer does not add
  (`ShizukuConfigManager:216`), so that the decision on a uid that does not declare the permission is gone after a restart;
- a stored denial of a declaring uid does not survive a restart of the server (`ShizukuConfigManager:172`);
- a server that dies before `linkToDeath` is never reported (`Shizuku:151`);
- `getBinder` reads the binder before the mode it compares (`ShizukuProvider:395`);
- rish always exits with 0 when the server lives: `requestExitCode` passes no reply parcel to `transact` and
  reads an empty one (`RishTerminal.java:133`);
- ending the input of an interactive rish session kills the shell, because the thread of standard input
  closes the pseudo-terminal that standard output reads (`pts.cpp:73`);
- a failed fork leaves the pseudo-terminal, the pipes and the client's ends open (`RishHost.cpp:118`), and
  a pseudo-terminal opened for standard error alone is never closed (`RishHost.cpp:72`, `156`);
- the server's map of sessions by process id is unsynchronized and never cleared (`RishService.java:55`), and
  a window size may be set on a number whose file is closed (`RishHost.java:113`).

## 5. The proofs

Each component's `_proofs` module has the same shape: an inductive invariant `IInv`, lemmas about helpers, one lemma
per action or group of actions, `InitIInv`, `NextIInv`, and `Invariance` (`Invariant` in
`ClientBinder_proofs`), `Spec => []IInv`. A second invariant that rests on
it comes with its own step lemmas. The only assumptions are the named ones on the constants
(bounds are naturals, `PackageOf` and `UidOf` are functions, `None` is no server, and the like), which
TLC evaluates in the runs.

- **UserServices.** `IInv` = `TypeOK`, `KeysMapped` (the map points to a created record of its key),
  `QueueCreated`, `RecordsConsistent` (an attached process is known to its record; `starting` is never
  cleared) and `NoOrphanService`. The last is not inductive alone: that retiring a record destroys its
  process needs the process's binder to be in the record, and that an attach is refused needs the map
  to name only records of the right key. Proved: `TypeCorrect`, `NoOrphan`, `OnePerKey` (two attached
  processes of a key would both be the one the map names), `Retirement` (`RetiredForGood`, an action
  property: the map changes only to a fresh token or to none), `StartBounded` (each place that clears a timer, the
  timeout's own step included, leaves something else that covers the start), `BinderHeard` (`HeardStep`:
  registering after the attach broadcasts, and the attach broadcasts to who registered before), and
  `RevokedGone`, which needs two more invariants: tracked tokens are created, and the iterator's
  position is within the list it walks, so that what it passed cannot be appended again.
  `ServiceTable_proofs` proves the refinement `RegistryIsTable`. `IInv` says what is mapped and attached *now*;
  that one step of the registry is one step of the table also needs what a process can no longer do, which is
  `TInv` (theorem `ServesOnce`): a record with a service has a process that has answered and cannot answer again
  (else an instance would come up twice); the process of a mapped record has not been asked to stop (else
  retiring it would take down nothing); and a record is in the executor's queue at most once, before it has a
  process (else the queue would start it again). `Lives` sums up what a step does to one process; a table step
  is then shown per action.
- **ClientPermissions.** Any number of calls of the manager are in progress. `IInv` = `TypeOK`, `UnsavedIsScheduled`,
  `WriterCurrent` (a running writer holds the configuration unless asked for another run), `CallSteps` (what each step
  of a call relies on of the one before still holds, unless the call is opposed), `OneDirection` (the lasting calls beside
  one that is not opposed decide as it does) and `Standing` (of a uid in `barred` or `granted`, the configuration, the
  runtime permission *and every lasting call in progress* say so). The last clause is what makes it inductive: a call
  that is still to write may only write what stands already. `OneDirection` is why a call that was not opposed
  may enter the uid in the set when it ends, and `CallSteps` why the place it wrote first is still as it left it.
  A restart recomputes the configuration from the runtime permission, and for an undeclared uid from the file, hence
  `UnsavedIsScheduled`. Proved: `TypeCorrect`, `RevocationDurable`, `GrantingDurable`, `NothingUnscheduled`. `Following`
  carries a second invariant, `RecordsFollow`, for the records that are not apart: each says what the configuration
  says, or what a call that has already written it and is still to write the configuration decides (`Ahead`). From it
  `RecordsAgree`, and with `IInv` the two halves of who is served: `BarredRefused` and `GrantedServed`.
- **LinkServer.** `IInv` = `TypeOK`, `ListenerIsReachable`, `ExecutorIsReachable`, `CallProgress` (what has
  been taken apart or put together at each statement of a call) and `RunningIsLatest` (running is true
  only of the latest start). Late threads can only clear `running`; all that follows is that `start`
  must take down whatever it finds, which `CallProgress` carries through `stopLocked`. Proved:
  `TypeCorrect` (with it, that no thread uses a field it read as null), `RunningServes`,
  `ListenerReachable`, `ExecutorReachable`. `AcceptedHeld` has an invariant of its own, `HInv`: what a thread
  holds is accepted, two threads never hold one connection, and the thread a `start` is about to start is a new one,
  so that starting it cannot make another thread's connection forgotten.
- **ClientBinder.** `IInv` = `Others` and `Holders` (types; fields and threads hold only servers that have
  been started, so no link to a future server can be missing), `Watching` (a live current binder is
  linked, or some thread is still to link *whatever is current then*) and `Attaching` (the same of
  attaching). The argument does not follow a thread: `link` and `attach` read the field again, so the
  last thread to have set it serves it. Proved for any number of Binder threads: `TypeCorrect`,
  `BinderWatched`, `BinderAttached`.

- **RishHost.** `IInv` = `TypeOK`, `Phases` (how far call, threads and child can be), `EndsAreKept` (an end is
  open from `OpenEnds` until its own thread closes it, the shared number excepted), `KillIsDue` (a thread of
  standard output that has stopped, or a shared number that is closed, has a reason that does not go away)
  and `Account` (the chunks sent are those received, the one in the channel and the one in the thread's
  hands, until the relay breaks). Proved: `TypeCorrect`, `FilesAreKept`, `LiveAreSpared`, and the refinement
  `OutputIsRelayed`: each step maps to a step of `Relay` or to a stutter. `NothingStaysOpen` rests on `EndsAreClosed`:
  what the caller closes in `createHost` is closed when it has returned, and each thread leaves its two ends closed
  behind it at each place of `transfer`; with a shared number, it is closed once either thread has gone so far.
- **RishTerminal.** `IInv` = `TypeOK`, `Phases` (the mutex is locked from `start` to `unlock`), `RawIsUndone`,
  `Account`, `EndIsReached` (the pipe is closed here only when it is drained or in vain) and `SizesGrow` (a size
  on its way to the server is one the window has had, and no older than the one set). Proved: `TypeCorrect`,
  `TerminalIsRestored`, the refinement `OutputIsRelayed`, and `WindowIsMirrored`, the safety part of
  `FollowsWindow`. `NoChangeLost` is why the window catches up at all: `WindowWatched` says that the thread may sleep
  only on a size that has arrived, and it needs `SizesGrow` for the size the thread has in hand.
- **RishSession.** `SessionIsRelayed` composes the two refinements: given that each side is a relay, and `Joint`,
  the session is one relay from the shell to the user's standard output, whose end is the return of `waitFor`.
  The invariant `SInv` speaks of the two relays only (the counts are ordered; the host's thread has ended only when all is
  in the pipe and no shell can write; the pipe has ended only if that thread has; all of this unless the session
  was cut, and what broke early is on record), and
  the proof looks inside the modules only to see what `Joint` holds still. `SessionComplete` draws the
  conclusion a user cares about: when rish has its exit code, nothing the shell wrote is missing. Both have the
  hypothesis `Bounds`, the two modules' assumptions on the constants taken together. There is no run of the
  module: its state space is the product of `rish_host`'s and `rish_terminal`'s, which is why it was proved. That a
  session can end uncut with its output out, redirected or interactive, was checked with TLC on a product of one chunk.

Several theorems are the safety half of a liveness property that TLC checks: `NoChangeLost` of `FollowsWindow`,
`NothingStaysOpen` of `SessionIsReleased`, `AcceptedHeld` of `ConnectionsEnd`, `StartBounded` of `StartResolves`.
They say for all instances that what the liveness property waits for is still on its way; that it arrives is
fairness, and stays with TLC.

Every safety property of a passing run is proved for all values of the constants.

**Model-checked only.** Liveness (`StartResolves`, `LastConnectionStops`, `ThreadsEnd`, `ConnectionsEnd`,
`DeadIsDropped`, `Recovers`, `ClientIsReleased`, `SessionIsReleased`, `ExitFollowsRemote`, and that the
window's size catches up, in `FollowsWindow`), because the proof system does not reason about `ENABLED`
and therefore not about fairness. Facts
by induction over data, and `RECURSIVE` operators, are out of the provers' reach; no module here uses
either.

## 6. Not modelled, and the plan

**Left out of the modelled parts.** *Permissions*: remote calls that change no state of the server's
own; an iteration of `clientRecords` that fails because a record is added meanwhile (`ClientManager:31`), which ends the
call before it has changed anything.
*Client*: servers before version 11, the permission cache, remote calls. *Backend*: dialogs, chips and the
start of the internal server over ADB. *Rish*: the map of sessions by process id, the argument and
environment blocks (`initVectorFromBlock`, `RishHost.java`'s byte blocks: pure copies), the permission check
in `onTransact` (it is `enforceCallingPermission`, in `ClientPermissions`), and the native
`setWindowSize` of the server, which is one `ioctl`.

**Native code.** The repository's C and C++ files are `rish`'s (about 540 lines, modelled here but for
registration and logging), a wrapper of about 100 lines over a vendored disassembler
(`capstone_bridge.cpp`), and that library's headers, some 12,500 lines of declarations. A model can stand for
the first only: the wrapper is a single call per request and the headers have no behaviour, so the share
of all lines of C that any model could cover is small. The logic of the system is in Java and
Kotlin, which `PROJECT.json` maps line by line.

**Not modelled because there is nothing to check.** User interface, pure transformations and decoders,
thin wrappers around one command, constants and interface declarations, data, and the sequential Go
tools; each is in `PROJECT.json` with its reason.

**Planned**, in this order, where the code has state and order:

1. `BinderDelivery` (`BinderSender`, `ApkChangedObservers`): observers, the two sets that deduplicate
   sends, failed sends. It composes with `ClientBinder` (`SendBinder`) and `UserServices` (`observed`).
2. `LinkSession` (`MultiplayerLinkController`): connects and actions answered out of order, disconnects
   and the feature gate in between; an action goes only to the host that granted it.
3. `Privileges`: `UserServices` and `ClientPermissions` composed at `removeUserServicesForPackage`: after a
   completed revocation that was not opposed no service of the uid's packages runs. It needs the walk of the package's
   list inside `SetFlagsRecord`, which is one step now.
4. Standard input and standard error joined in `RishSession` as standard output is.
5. `ServiceConnections`: `connected` and `died` against the connection cache.
6. `InternalAdb`, `LadbShell`, `NetworkServers`, `ShellJobs`: jobs, stop against start, timeouts.
7. `AlarmsTimers`, `PayloadQueue`, `SaveData`, `Updates`, `Kiosk`: several writes of which one may fail, and
   a restart between them.

## 7. Running it

    tlc -workers 2 -config ClientBinder.cfg MCClientBinder
    tlapm ClientBinder_proofs.tla
    tlapm RishSession.tla

`PROJECT.json` lists for each run its module and configuration. Each passing run and each module of
proofs takes from seconds to a little over two minutes on two cores.
