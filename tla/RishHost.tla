------------------------------ MODULE RishHost ------------------------------
(***************************************************************************)
(* The server's side of a rish session (rikka_rish_RishHost.cpp, pts.cpp,    *)
(* RishHost.java, RishService.java): createHost opens a pseudo-terminal      *)
(* and pipes, forks the shell, and leaves a transfer thread per stream       *)
(* between the shell and the pipes of the client.                           *)
(*                                                                          *)
(* Descriptors are numbers: close(n) closes whatever n is by then.  slot[e]   *)
(* is the number that end e was given when it was opened: "own" while it     *)
(* still names e, "free" once closed, "other" when the server has given the  *)
(* number to another file.  A call that is blocked in the kernel keeps its   *)
(* file, whatever becomes of the number.  Pipes hold one chunk.             *)
(*                                                                          *)
(* Taken to succeed: pipe2 and pthread_create, whose results the code does   *)
(* not look at.                                                             *)
(***************************************************************************)
EXTENDS Naturals

CONSTANTS
  Modes,      \* sets of the client's streams that are terminals (ATTY_*)
  MaxOutput,  \* bound: chunks the shell writes
  MaxInput    \* bound: chunks the client types

Streams == {"in", "out", "err"}

ASSUME ModesAssumption == Modes \subseteq SUBSET Streams
ASSUME BoundsAssumption == MaxOutput \in Nat /\ MaxInput \in Nat

VARIABLES
  tty,        \* the streams that are terminals at the client
  call,       \* the progress of createHost
  slot,       \* what each end's descriptor number names
  thread,     \* the program counter of each transfer thread
  buf,        \* chunks in the shell's pipes and in the pseudo-terminal
  child,      \* the forked process and its descendants
  exitCode,   \* RishHost.exitCode
  heir,       \* ends that another session's shell has inherited
  client,     \* the client process: its life, its stdin, what it has typed
  written,    \* chunks the shell has written
  sent,       \* those of them on the way to the client's stdout
  received    \* chunks written into the client's stdout pipe

vars == <<tty, call, slot, thread, buf, child, exitCode, heir, client, written, sent, received>>

ReadEnd   == [in |-> "inR", out |-> "outR", err |-> "errR"]
WriteEnd  == [in |-> "inW", out |-> "outW", err |-> "errW"]
ClientEnd == [in |-> "cIn", out |-> "cOut", err |-> "cErr"]
PipeEnds   == {"inR", "inW", "outR", "outW", "errR", "errW"}
ServerEnds == {"ptmx"} \cup PipeEnds
ClientEnds == {"cIn", "cOut", "cErr"}
Ends       == ServerEnds \cup ClientEnds

CallStates   == {"opening", "opened", "forked", "inStarted", "outStarted", "returned", "failed"}
SlotStates   == {"none", "own", "free", "other"}
ThreadStates == {"off", "read", "reading", "write", "writing", "closeIn", "closeOut",
                 "func", "done"}
ChildStates  == {"none", "forked", "running", "zombie", "reaped"}
Channels     == {"in", "out", "err", "ptyIn", "ptyOut"}

\* Standard input and output use the one descriptor of the pseudo-terminal.
Shared == {"in", "out"} \subseteq tty

\* Where transfer_async of a stream reads and writes.
Source(s) == IF s = "in" THEN "cIn" ELSE IF s \in tty THEN "ptmx" ELSE ReadEnd[s]
Target(s) == IF s # "in" THEN ClientEnd[s] ELSE IF "in" \in tty THEN "ptmx" ELSE "inW"

\* The shell's side of a stream: a pipe of its own or the pseudo-terminal.
InChannel     == IF "in" \in tty THEN "ptyIn" ELSE "in"
OutChannel(s) == IF s \in tty THEN "ptyOut" ELSE s
ShellEnd(s)   == IF s \in tty THEN "pts" ELSE IF s = "in" THEN "inR" ELSE WriteEnd[s]

\* The file behind end e is open somewhere.
Held(e) ==
  \/ slot[e] = "own"
  \/ \E s \in Streams : \/ thread[s] = "reading" /\ Source(s) = e
                        \/ thread[s] = "writing" /\ Target(s) = e
  \/ e \in child.holds
  \/ e \in heir

\* The slave side has been opened and nobody has it open any more: calls on the
\* master end with EIO.
HungUp == child.opened /\ "pts" \notin child.holds

\* Somebody can still write what the thread of an output stream reads.
Writers(s) == IF s \in tty THEN ~HungUp ELSE Held(WriteEnd[s])

Init ==
  /\ tty \in Modes
  /\ call = "opening"
  /\ slot = [e \in Ends |-> IF e \in {"cIn", "cOut"} \/ (e = "cErr" /\ "err" \notin tty)
                            THEN "own" ELSE "none"]
  /\ thread = [s \in Streams |-> "off"]
  /\ buf = [c \in Channels |-> 0]
  /\ child = [state |-> "none", killed |-> FALSE, holds |-> {}, opened |-> FALSE]
  /\ exitCode = "unset"
  /\ heir = {}
  /\ client = [alive |-> TRUE, stdin |-> TRUE, typed |-> 0, input |-> 0]
  /\ written = 0
  /\ sent = 0
  /\ received = 0

-----------------------------------------------------------------------------
(* RishHost_startHost in the server                                         *)

\* The ends createHost opens: the pseudo-terminal if any stream is a terminal, a
\* pipe for each stream that is not.
Opened == (IF tty = {} THEN {} ELSE {"ptmx"}) \cup
          UNION {{ReadEnd[s], WriteEnd[s]} : s \in Streams \ tty}

OpenEnds ==
  /\ call = "opening"
  /\ slot' = [e \in Ends |-> IF e \in Opened THEN "own" ELSE slot[e]]
  /\ call' = "opened"
  /\ UNCHANGED <<tty, thread, buf, child, exitCode, heir, client, written, sent, received>>

\* open_ptmx fails: an exception to the client, whose ends stay open here.
OpenPtmxFails ==
  /\ call = "opening"
  /\ tty # {}
  /\ call' = "failed"
  /\ UNCHANGED <<tty, slot, thread, buf, child, exitCode, heir, client, written, sent, received>>

\* fork: the child has a copy of every descriptor.
Fork ==
  /\ call = "opened"
  /\ call' = "forked"
  /\ child' = [child EXCEPT !.state = "forked", !.holds = {e \in Ends : slot[e] = "own"}]
  /\ UNCHANGED <<tty, slot, thread, buf, exitCode, heir, client, written, sent, received>>

\* fork fails: an exception, and everything stays open.
ForkFails ==
  /\ call = "opened"
  /\ call' = "failed"
  /\ UNCHANGED <<tty, slot, thread, buf, child, exitCode, heir, client, written, sent, received>>

\* close(n) for the number n of end e: it closes whatever n names.
Closed(e) == [slot EXCEPT ![e] = IF @ \in {"own", "other"} THEN "free" ELSE @]

\* Mutant: the parent closes the end its thread uses.
ChildsEnd_Swapped(s) == IF s = "in" THEN "inW" ELSE ReadEnd[s]

\* The end of stream s's pipe that is the child's.
ChildsEnd(s) == IF s = "in" THEN "inR" ELSE WriteEnd[s]

\* Mutant: standard error is not closed in the parent, nor standard output.
StartTransfer_KeepsEnds(s) ==
  /\ thread' = [thread EXCEPT ![s] = "read"]
  /\ slot' = IF s = "in" /\ s \notin tty THEN Closed(ChildsEnd(s)) ELSE slot

\* transfer_async for stream s and the close of the child's end.
StartTransfer(s) ==
  /\ thread' = [thread EXCEPT ![s] = "read"]
  /\ slot' = IF s \in tty THEN slot ELSE Closed(ChildsEnd(s))

StartIn ==
  /\ call = "forked"
  /\ StartTransfer("in")
  /\ call' = "inStarted"
  /\ UNCHANGED <<tty, buf, child, exitCode, heir, client, written, sent, received>>

StartOut ==
  /\ call = "inStarted"
  /\ StartTransfer("out")
  /\ call' = "outStarted"
  /\ UNCHANGED <<tty, buf, child, exitCode, heir, client, written, sent, received>>

\* A terminal's standard error comes with its standard output.  The call returns,
\* and RishHost.start runs waitFor on a thread of its own.
StartErr ==
  /\ call = "outStarted"
  /\ IF "err" \in tty THEN UNCHANGED <<thread, slot>> ELSE StartTransfer("err")
  /\ call' = "returned"
  /\ UNCHANGED <<tty, buf, child, exitCode, heir, client, written, sent, received>>

-----------------------------------------------------------------------------
(* transfer                                                                 *)

Goes(s, from, to) ==
  /\ thread[s] = from
  /\ thread' = [thread EXCEPT ![s] = to]

\* read(in) enters the kernel, fails on a closed number, or reads from another
\* file (what it passes on then is not followed).
Read(s) ==
  /\ \/ slot[Source(s)] = "own" /\ Goes(s, "read", "reading")
     \/ slot[Source(s)] \in {"free", "other"} /\ Goes(s, "read", "closeIn")
  /\ UNCHANGED <<tty, call, slot, buf, child, exitCode, heir, client, written, sent, received>>

\* read returns a chunk.
ReadChunk(s) ==
  /\ Goes(s, "reading", "write")
  /\ IF s = "in"
     THEN /\ client.input > 0
          /\ client' = [client EXCEPT !.input = @ - 1]
          /\ UNCHANGED buf
     ELSE /\ buf[OutChannel(s)] > 0
          /\ buf' = [buf EXCEPT ![OutChannel(s)] = @ - 1]
          /\ UNCHANGED client
  /\ UNCHANGED <<tty, call, slot, child, exitCode, heir, written, sent, received>>

\* read returns 0, or EIO from a pseudo-terminal that has hung up.
ReadEnds(s) ==
  /\ Goes(s, "reading", "closeIn")
  /\ IF s = "in" THEN client.input = 0 /\ ~client.stdin
                 ELSE buf[OutChannel(s)] = 0 /\ ~Writers(s)
  /\ UNCHANGED <<tty, call, slot, buf, child, exitCode, heir, client, written, sent, received>>

\* write_full(out) enters the kernel, fails, or writes into another file.
Write(s) ==
  /\ \/ slot[Target(s)] = "own" /\ Goes(s, "write", "writing")
     \/ slot[Target(s)] = "free" /\ Goes(s, "write", "closeIn")
     \/ slot[Target(s)] = "other" /\ Goes(s, "write", "read")
  /\ UNCHANGED <<tty, call, slot, buf, child, exitCode, heir, client, written, sent, received>>

\* Nobody can read what stream s's thread writes.
NoReader(s) ==
  IF s # "in" THEN ~client.alive
  ELSE IF "in" \in tty THEN HungUp ELSE ~Held("inR")

\* Mutant: what is left of a chunk after a short write is dropped.
WriteDone_Short(s) ==
  /\ Goes(s, "writing", "read")
  /\ ~NoReader(s)
  /\ UNCHANGED <<buf, received>>

\* write_full has written all of the chunk.  The client is taken to drain its pipes (the
\* one of standard error, which no thread of the client reads, to hold the chunks there are).
WriteDone(s) ==
  /\ Goes(s, "writing", "read")
  /\ ~NoReader(s)
  /\ IF s = "in"
     THEN buf[InChannel] = 0 /\ buf' = [buf EXCEPT ![InChannel] = 1]
     ELSE UNCHANGED buf
  /\ received' = IF s = "out" THEN received + 1 ELSE received

WriteChunk(s) ==
  /\ WriteDone(s)
  /\ UNCHANGED <<tty, call, slot, child, exitCode, heir, client, written, sent>>

\* EPIPE or EIO.
WriteFails(s) ==
  /\ Goes(s, "writing", "closeIn")
  /\ NoReader(s)
  /\ UNCHANGED <<tty, call, slot, buf, child, exitCode, heir, client, written, sent, received>>

\* Mutant: close_in is false.
CloseSource_Keeps(s) ==
  /\ Goes(s, "closeIn", "closeOut")
  /\ slot' = slot

CloseSource(s) ==
  /\ Goes(s, "closeIn", "closeOut")
  /\ slot' = Closed(Source(s))

CloseIn(s) ==
  /\ CloseSource(s)
  /\ UNCHANGED <<tty, call, buf, child, exitCode, heir, client, written, sent, received>>

\* Mutant: the thread of standard input gets the function too.
HasFunction_Every(s) == s \in {"in", "out"}

\* Only the thread of standard output is given the function that kills.
HasFunction(s) == s = "out"

CloseOut(s) ==
  /\ Goes(s, "closeOut", IF HasFunction(s) THEN "func" ELSE "done")
  /\ slot' = Closed(Target(s))
  /\ UNCHANGED <<tty, call, buf, child, exitCode, heir, client, written, sent, received>>

\* func: kill(pid, SIGKILL).  The shell's descendants live on; a process that has
\* been reaped is not ours to kill any more.
Kill(s, keeps) ==
  /\ Goes(s, "func", "done")
  /\ child' = IF child.state \in {"forked", "running"}
              THEN [child EXCEPT !.state = "zombie", !.killed = TRUE,
                                 !.holds = IF keeps THEN @ ELSE {}]
              ELSE child
  /\ UNCHANGED <<tty, call, slot, buf, exitCode, heir, client, written, sent, received>>

-----------------------------------------------------------------------------
(* The child                                                                *)

\* Descriptors that are closed before or by exec: the parent's ends, and what came
\* over Binder (close-on-exec).
ClosedByExec == {"inW", "outR", "errR"} \cup ClientEnds

\* setsid, chdir, open of the slave (which may fail: only logged), dup2, exec.
Exec(slave) ==
  /\ child.state = "forked"
  /\ slave => tty # {}
  /\ child' = [child EXCEPT !.state = "running",
                            !.opened = slave,
                            !.holds = (@ \ ClosedByExec) \cup (IF slave THEN {"pts"} ELSE {})]
  /\ UNCHANGED <<tty, call, slot, thread, buf, exitCode, heir, client, written, sent, received>>

\* setsid, ptsname_r or exec fails: exit(1).
SetupFails(slave) ==
  /\ child.state = "forked"
  /\ slave => tty # {}
  /\ child' = [child EXCEPT !.state = "zombie", !.opened = slave, !.holds = {}]
  /\ UNCHANGED <<tty, call, slot, thread, buf, exitCode, heir, client, written, sent, received>>

\* The shell or a descendant writes a chunk to standard output or error.
ShellWrites(s) ==
  /\ child.state \in {"running", "zombie", "reaped"}
  /\ ShellEnd(s) \in child.holds
  /\ buf[OutChannel(s)] = 0
  /\ s \in tty \/ Held(ReadEnd[s])
  /\ buf' = [buf EXCEPT ![OutChannel(s)] = 1]
  /\ written < MaxOutput
  /\ written' = written + 1
  /\ sent' = IF OutChannel(s) = OutChannel("out") THEN sent + 1 ELSE sent
  /\ UNCHANGED <<tty, call, slot, thread, child, exitCode, heir, client, received>>

ShellReads ==
  /\ child.state \in {"running", "zombie", "reaped"}
  /\ ShellEnd("in") \in child.holds
  /\ buf[InChannel] > 0
  /\ buf' = [buf EXCEPT ![InChannel] = @ - 1]
  /\ UNCHANGED <<tty, call, slot, thread, child, exitCode, heir, client, written, sent, received>>

\* The shell closes its standard output and goes on.
ShellClosesOut ==
  /\ child.state = "running"
  /\ "outW" \in child.holds
  /\ child' = [child EXCEPT !.holds = @ \ {"outW"}]
  /\ UNCHANGED <<tty, call, slot, thread, buf, exitCode, heir, client, written, sent, received>>

\* The shell exits; descendants in the background keep what it had.
ShellExits(keeps) ==
  /\ child.state = "running"
  /\ child' = [child EXCEPT !.state = "zombie", !.holds = IF keeps THEN @ ELSE {}]
  /\ UNCHANGED <<tty, call, slot, thread, buf, exitCode, heir, client, written, sent, received>>

DescendantsExit ==
  /\ child.state \in {"zombie", "reaped"}
  /\ child.holds # {}
  /\ child' = [child EXCEPT !.holds = {}]
  /\ UNCHANGED <<tty, call, slot, thread, buf, exitCode, heir, client, written, sent, received>>

\* RishHost_waitFor on its thread: the status of an exit, 0 for a signal.
WaitFor ==
  /\ call = "returned"
  /\ child.state = "zombie"
  /\ child' = [child EXCEPT !.state = "reaped"]
  /\ exitCode' = IF child.killed THEN "zero" ELSE "status"
  /\ UNCHANGED <<tty, call, slot, thread, buf, heir, client, written, sent, received>>

-----------------------------------------------------------------------------
(* The rest of the server, and the client                                   *)

\* Another session forks, one at a time: its shell inherits the ends that are open
\* now, none of which is close-on-exec.
OtherForks ==
  /\ heir = {}
  /\ heir' = {e \in ServerEnds : slot[e] = "own"}
  /\ UNCHANGED <<tty, call, slot, thread, buf, child, exitCode, client, written, sent, received>>

OtherShellExits ==
  /\ heir # {}
  /\ heir' = {}
  /\ UNCHANGED <<tty, call, slot, thread, buf, child, exitCode, client, written, sent, received>>

\* A closed number that a thread is still going to use names another file.
OtherOpens(e) ==
  /\ slot[e] = "free"
  /\ \E s \in Streams : \/ e = Source(s) /\ thread[s] \in {"read", "reading", "write",
                                                           "writing", "closeIn"}
                        \/ e = Target(s) /\ thread[s] \notin {"off", "func", "done"}
  /\ slot' = [slot EXCEPT ![e] = "other"]
  /\ UNCHANGED <<tty, call, thread, buf, child, exitCode, heir, client, written, sent, received>>

ClientTypes ==
  /\ client.stdin
  /\ client.typed < MaxInput
  /\ client' = [client EXCEPT !.typed = @ + 1, !.input = @ + 1]
  /\ UNCHANGED <<tty, call, slot, thread, buf, child, exitCode, heir, written, sent, received>>

\* The client's standard input ends.
ClientEndsInput ==
  /\ client.stdin
  /\ client' = [client EXCEPT !.stdin = FALSE]
  /\ UNCHANGED <<tty, call, slot, thread, buf, child, exitCode, heir, written, sent, received>>

ClientDies ==
  /\ client.alive
  /\ client' = [client EXCEPT !.alive = FALSE, !.stdin = FALSE]
  /\ UNCHANGED <<tty, call, slot, thread, buf, child, exitCode, heir, written, sent, received>>

-----------------------------------------------------------------------------
CreateHost == OpenEnds \/ OpenPtmxFails \/ Fork \/ ForkFails \/ StartIn \/ StartOut \/ StartErr

Transfer(s) ==
  \/ Read(s) \/ ReadChunk(s) \/ ReadEnds(s)
  \/ Write(s) \/ WriteChunk(s) \/ WriteFails(s)
  \/ CloseIn(s) \/ CloseOut(s)
  \/ \E keeps \in BOOLEAN : Kill(s, keeps)

Child ==
  \/ \E slave \in BOOLEAN : Exec(slave) \/ SetupFails(slave)
  \/ \E s \in {"out", "err"} : ShellWrites(s)
  \/ ShellReads \/ ShellClosesOut
  \/ \E keeps \in BOOLEAN : ShellExits(keeps)
  \/ DescendantsExit

Rest ==
  \/ OtherForks \/ OtherShellExits
  \/ \E e \in ServerEnds : OtherOpens(e)
  \/ ClientTypes \/ ClientEndsInput \/ ClientDies

Next ==
  \/ CreateHost
  \/ \E s \in Streams : Transfer(s)
  \/ Child
  \/ WaitFor
  \/ Rest

Spec == Init /\ [][Next]_vars

\* The kernel schedules the transfer threads; nothing is assumed of the shell, the
\* client or the caller.
FairSpec == Spec /\ \A s \in Streams : WF_vars(Transfer(s))

-----------------------------------------------------------------------------
(* Properties                                                               *)

\* Every variable keeps its type (the locals of startHost, the fields of RishHost
\* and the data of the threads).
TypeOK ==
  /\ tty \in Modes
  /\ call \in CallStates
  /\ slot \in [Ends -> SlotStates]
  /\ thread \in [Streams -> ThreadStates]
  /\ buf \in [Channels -> 0 .. 1]
  /\ child \in [state : ChildStates, killed : BOOLEAN, opened : BOOLEAN,
                holds : SUBSET (Ends \cup {"pts"})]
  /\ exitCode \in {"unset", "status", "zero"}
  /\ heir \in SUBSET ServerEnds
  /\ client \in [alive : BOOLEAN, stdin : BOOLEAN, typed : Nat, input : Nat]
  /\ written \in Nat
  /\ sent \in Nat
  /\ received \in Nat

\* Threads that will still use the number of their source, or of their target.
UsesSource(s) == thread[s] \in {"read", "reading", "write", "writing", "closeIn"}
UsesTarget(s) == thread[s] \in {"read", "reading", "write", "writing", "closeIn", "closeOut"}

\* No thread reads, writes or closes a number that is no longer its own file's,
\* except where standard input and output share the pseudo-terminal's number, which
\* both of their threads close (pts.cpp 73-74).
ThreadsKeepTheirFiles ==
  \A s \in Streams :
    /\ UsesSource(s) => slot[Source(s)] = "own" \/ (Shared /\ s = "out")
    /\ UsesTarget(s) => slot[Target(s)] = "own" \/ (Shared /\ s = "in")

\* The shell is killed (RishHost.cpp 133-140) only if the client is gone, the shell
\* has given up its standard output, or the client's standard input has ended on a
\* pseudo-terminal that both directions share; not because it is quiet, or because
\* its standard input pipe ends.
KillSparesTheLive ==
  [][child.killed' /\ ~child.killed =>
       \/ ~client.alive
       \/ ShellEnd("out") \notin child.holds
       \/ Shared /\ ~client.stdin]_vars

\* The way from the shell's standard output to the client's pipe is a relay.  It
\* breaks when the client dies and when a thread closes the shared number.
OutRelay == INSTANCE Relay WITH
  open   <- call \in {"opening", "failed"} \/ Writers("out"),
  broken <- ~client.alive \/ (Shared /\ slot["ptmx"] \in {"free", "other"}),
  ended  <- thread["out"] \in {"closeIn", "closeOut", "func", "done"}

RelaysOutput == OutRelay!Spec

\* When the transfer threads of a session have ended, whatever ended them and in
\* whatever order, no descriptor that createHost opened or was sent is open under its
\* number (RishHost.cpp 133-158, pts.cpp 73-74), except a pseudo-terminal for standard
\* error alone, which no thread was given.
NothingIsLeft ==
  (call = "returned" /\ \A s \in Streams : thread[s] \in {"off", "func", "done"}) =>
    \A e \in Ends : slot[e] = "own" => e = "ptmx" /\ tty = {"err"}

\* Reading another session's file, from which nothing need ever come.
ReadsAstray == Shared /\ slot["ptmx"] = "other" /\ thread["out"] = "read"

\* No process but the server can write what goes to standard output.
ShellIsSilent == IF "out" \in tty THEN HungUp ELSE "outW" \notin child.holds \cup heir

\* Once no shell can write standard output any more, the client is told: its pipe is
\* closed (pts.cpp 62-75), so that it does not wait for ever.
ClientIsReleased ==
  (call = "returned" /\ ShellIsSilent) ~> (thread["out"] = "done" \/ ReadsAstray)

\* A session whose client and processes are gone leaves no descriptor behind, except
\* a pseudo-terminal for standard error alone, which no thread was given.  (A
\* pseudo-terminal that the child has never opened does not hang up.)
SessionIsReleased ==
  (/\ call = "returned"
   /\ tty # {} => child.opened
   /\ ~client.alive
   /\ child.state = "reaped"
   /\ child.holds = {}
   /\ heir = {})
  ~> \/ \A e \in Ends : slot[e] # "own" \/ (e = "ptmx" /\ tty = {"err"})
     \/ ReadsAstray
=============================================================================
