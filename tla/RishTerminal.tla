---------------------------- MODULE RishTerminal ----------------------------
(***************************************************************************)
(* The client's side of a rish session (rikka_rish_RishTerminal.cpp, pts.cpp, *)
(* RishTerminal.java, Rish.java): prepare, createHost, start, and a main      *)
(* thread that waits on a mutex until the transfer thread of standard output  *)
(* has put the terminal back and unlocked it; beside it a thread that sends   *)
(* the window size whenever the handler of SIGWINCH unlocks its mutex.        *)
(*                                                                          *)
(* Descriptors are numbers, as in RishHost.  The thread of standard error is  *)
(* given the pipe of standard output (RishTerminal.java:90); the pipe of      *)
(* standard error has no reader.                                             *)
(***************************************************************************)
EXTENDS Naturals

CONSTANTS
  Modes,      \* sets of the standard streams that are terminals (ATTY_*)
  MaxOutput,  \* bound: chunks that come through the pipe of standard output
  MaxSizes    \* bound: sizes the window takes

Streams == {"in", "out", "err"}

ASSUME ModesAssumption == Modes \subseteq SUBSET Streams
ASSUME BoundsAssumption == MaxOutput \in Nat /\ MaxSizes \in Nat

VARIABLES
  tty,        \* what prepare found
  main,       \* the main thread
  exitCode,   \* the status given to System.exit
  raw,        \* the terminal is in raw mode
  ttyInRaw,   \* tty_in_raw
  mutex,      \* mutex is locked
  thread,     \* the program counter of each transfer thread
  slot,       \* what each descriptor number names
  pipe,       \* chunks in the pipe of standard output
  remote,     \* what the server has of the session
  readers,    \* the outputs that somebody reads
  sent,       \* chunks the server has written for standard output
  received,   \* chunks written to STDOUT_FILENO
  stray,      \* the thread of standard error has taken a chunk of standard output
  size,       \* the window size
  hostSize,   \* the size of the server's pseudo-terminal
  winch       \* winch_mutex, the pending signal, the thread and what it has read

vars == <<tty, main, exitCode, raw, ttyInRaw, mutex, thread, slot, pipe, remote, readers,
          sent, received, stray, size, hostSize, winch>>
terminal == <<raw, ttyInRaw>>
output   == <<pipe, sent, received, stray>>
window   == <<size, hostSize, winch>>

MainStates   == {"prepared", "created", "set", "started", "waiting", "asking", "exited"}
ThreadStates == {"off", "copy", "read", "reading", "write", "closeIn", "closeOut",
                 "restore", "unlock", "done"}
Numbers      == {"STDIN", "STDOUT", "STDERR", "inW", "outR"}
SlotStates   == {"own", "free", "other"}

\* The descriptors that transfer_async is given.
Source(s) == IF s = "in" THEN "STDIN" ELSE "outR"
Target(s) == CASE s = "in" -> "inW" [] s = "out" -> "STDOUT" [] s = "err" -> "STDERR"

\* Mutant: tty_fd is standard output, which is closed before func runs.
TtyFd_Out == "STDOUT"

\* tty_fd, if there is one.
TtyFd == IF "in" \in tty THEN "STDIN" ELSE IF "out" \in tty THEN "STDOUT" ELSE "STDERR"

Running == main # "exited"

Init ==
  /\ tty \in Modes
  /\ main = "prepared"
  /\ exitCode = "none"
  /\ raw = FALSE
  /\ ttyInRaw = FALSE
  /\ mutex = FALSE
  /\ thread = [s \in Streams |-> "off"]
  /\ slot = [n \in Numbers |-> "own"]
  /\ pipe = 0
  /\ remote = [alive |-> TRUE, out |-> TRUE, pty |-> tty # {}]
  /\ readers = {"STDOUT", "STDERR"}
  /\ sent = 0
  /\ received = 0
  /\ stray = FALSE
  /\ size = 1
  /\ hostSize = 0
  /\ winch = [locked |-> FALSE, pending |-> FALSE, pc |-> "off", sample |-> 0]

-----------------------------------------------------------------------------
(* The main thread: the constructor, start, waitFor                         *)

CreateHost ==
  /\ main = "prepared"
  /\ remote.alive
  /\ main' = "created"
  /\ UNCHANGED <<tty, exitCode, terminal, mutex, thread, slot, remote, readers, output, window>>

\* createHost throws, in the server or because the server is dead: System.exit(1).
CreateHostFails ==
  /\ main = "prepared"
  /\ main' = "exited"
  /\ exitCode' = "one"
  /\ UNCHANGED <<tty, terminal, mutex, thread, slot, remote, readers, output, window>>

\* make_tty_raw if all three are terminals; tty_in_raw if it succeeds.
MakeRaw ==
  /\ main = "created"
  /\ main' = "set"
  /\ \E succeeds \in BOOLEAN : /\ succeeds => tty = Streams
                               /\ raw' = succeeds
                               /\ ttyInRaw' = succeeds
  /\ UNCHANGED <<tty, exitCode, mutex, thread, slot, remote, readers, output, window>>

\* The transfer threads: none for the standard error of a terminal.
Started == [s \in Streams |-> IF s = "in" THEN "copy"
                              ELSE IF s \in {"out"} \cup (Streams \ tty) THEN "read" ELSE "off"]

\* Mutant: the mutex is left unlocked when the threads start.
StartThreads_Unlocked ==
  /\ mutex' = FALSE
  /\ thread' = Started

\* The mutex is locked, for the thread of standard output to unlock.
StartThreads ==
  /\ mutex' = TRUE
  /\ thread' = Started

Start ==
  /\ main = "set"
  /\ StartThreads
  /\ main' = "started"
  /\ UNCHANGED <<tty, exitCode, terminal, slot, remote, readers, output, window>>

\* The handler, and the thread of the window size if there is a terminal.
WatchWindow ==
  /\ main = "started"
  /\ main' = "waiting"
  /\ winch' = [winch EXCEPT !.pc = IF tty = {} THEN "off" ELSE "lock"]
  /\ UNCHANGED <<tty, exitCode, terminal, mutex, thread, slot, remote, readers, output,
                 size, hostSize>>

\* waitForProcessExit: lock, unlock.
WaitForProcessExit ==
  /\ main = "waiting"
  /\ ~mutex
  /\ main' = "asking"
  /\ UNCHANGED <<tty, exitCode, terminal, mutex, thread, slot, remote, readers, output, window>>

\* requestExitCode reads the parcel it did not pass to transact, which is empty: 0,
\* unless transact throws.
RequestExitCode ==
  /\ main = "asking"
  /\ main' = "exited"
  /\ exitCode' = IF remote.alive THEN "zero" ELSE "minusOne"
  /\ UNCHANGED <<tty, terminal, mutex, thread, slot, remote, readers, output, window>>

-----------------------------------------------------------------------------
(* transfer                                                                 *)

Goes(s, from, to) ==
  /\ Running
  /\ thread[s] = from
  /\ thread' = [thread EXCEPT ![s] = to]

\* Standard input is copied until it ends or the server has closed the pipe, which
\* may be at any time.
InputEnds ==
  /\ Goes("in", "copy", "closeIn")
  /\ UNCHANGED <<tty, main, exitCode, terminal, mutex, slot, remote, readers, output, window>>

\* read enters the kernel, fails on a closed number, or reads from another file.
Read(s) ==
  /\ \/ slot["outR"] = "own" /\ Goes(s, "read", "reading")
     \/ slot["outR"] # "own" /\ Goes(s, "read", "closeIn")
  /\ UNCHANGED <<tty, main, exitCode, terminal, mutex, slot, remote, readers, output, window>>

ReadChunk(s) ==
  /\ Goes(s, "reading", "write")
  /\ pipe > 0
  /\ pipe' = pipe - 1
  /\ stray' = (stray \/ s = "err")
  /\ UNCHANGED <<tty, main, exitCode, terminal, mutex, slot, remote, readers, sent, received, window>>

ReadEnds(s) ==
  /\ Goes(s, "reading", "closeIn")
  /\ pipe = 0
  /\ ~remote.out
  /\ UNCHANGED <<tty, main, exitCode, terminal, mutex, slot, remote, readers, output, window>>

\* write_full, to a stream whose reader reads on.
WriteChunk(s) ==
  /\ Goes(s, "write", "read")
  /\ Target(s) \in readers
  /\ received' = IF s = "out" THEN received + 1 ELSE received
  /\ UNCHANGED <<tty, main, exitCode, terminal, mutex, slot, pipe, remote, readers, sent, stray, window>>

WriteFails(s) ==
  /\ Goes(s, "write", "closeIn")
  /\ Target(s) \notin readers
  /\ UNCHANGED <<tty, main, exitCode, terminal, mutex, slot, remote, readers, output, window>>

\* close(n) closes whatever n names.
Closed(n) == [slot EXCEPT ![n] = "free"]

CloseIn(s) ==
  /\ Goes(s, "closeIn", "closeOut")
  /\ slot' = Closed(Source(s))
  /\ UNCHANGED <<tty, main, exitCode, terminal, mutex, remote, readers, output, window>>

\* Only the thread of standard output has a function.
CloseOut(s) ==
  /\ Goes(s, "closeOut", IF s = "out" THEN "restore" ELSE "done")
  /\ slot' = Closed(Target(s))
  /\ UNCHANGED <<tty, main, exitCode, terminal, mutex, remote, readers, output, window>>

\* func, first half: restore_fd fails once the number of the terminal is closed.
Restore ==
  /\ Goes("out", "restore", "unlock")
  /\ IF ttyInRaw /\ slot[TtyFd] = "own"
     THEN raw' = FALSE /\ ttyInRaw' = FALSE
     ELSE UNCHANGED terminal
  /\ UNCHANGED <<tty, main, exitCode, mutex, slot, remote, readers, output, window>>

\* Mutant: the mutex is unlocked only if the terminal was put back.
Unlocks_Restored == ttyInRaw = FALSE /\ mutex' = FALSE

Unlocks == mutex' = FALSE

\* func, second half.
Unlock ==
  /\ Goes("out", "unlock", "done")
  /\ Unlocks
  /\ UNCHANGED <<tty, main, exitCode, terminal, slot, remote, readers, output, window>>

-----------------------------------------------------------------------------
(* SIGWINCH and the thread of the window size                               *)

\* Mutant: the handler is there only once waitFor has returned.
Handled_Late == main = "asking"

\* The signal is ignored until there is a handler.
Handled == main \in {"waiting", "asking"}

WindowChanges ==
  /\ Running
  /\ tty # {}
  /\ size < MaxSizes
  /\ size' = size + 1
  /\ winch' = [winch EXCEPT !.pending = Handled]
  /\ UNCHANGED <<tty, main, exitCode, terminal, mutex, thread, slot, remote, readers, output,
                 hostSize>>

\* sigwinch_handler, in a thread of the runtime that has not blocked the signal.
Handle ==
  /\ Running
  /\ winch.pending
  /\ winch' = [winch EXCEPT !.pending = FALSE, !.locked = FALSE]
  /\ UNCHANGED <<tty, main, exitCode, terminal, mutex, thread, slot, remote, readers, output,
                 size, hostSize>>

\* waitForWindowSizeChange takes the mutex and never gives it back.
LockWinch ==
  /\ Running
  /\ winch.pc = "lock"
  /\ ~winch.locked
  /\ winch' = [winch EXCEPT !.locked = TRUE, !.pc = "sample"]
  /\ UNCHANGED <<tty, main, exitCode, terminal, mutex, thread, slot, remote, readers, output,
                 size, hostSize>>

\* getWindowSize: 0 if the number is closed or is another file's.
GetWindowSize ==
  /\ Running
  /\ winch.pc = "sample"
  /\ winch' = [winch EXCEPT !.pc = "send", !.sample = IF slot[TtyFd] = "own" THEN size ELSE 0]
  /\ UNCHANGED <<tty, main, exitCode, terminal, mutex, thread, slot, remote, readers, output,
                 size, hostSize>>

\* Mutant: the mutex is locked once more after the call.
Sent_Locks == [winch EXCEPT !.pc = "lock", !.sample = 0, !.locked = TRUE]

\* The thread goes back to its mutex.
Sent == [winch EXCEPT !.pc = "lock", !.sample = 0]

\* setWindowSize: a call to the server; its failure is logged, as is the failure of
\* the ioctl there on a closed pseudo-terminal.
SetWindowSize ==
  /\ Running
  /\ winch.pc = "send"
  /\ winch' = Sent
  /\ hostSize' = IF remote.pty THEN winch.sample ELSE hostSize
  /\ UNCHANGED <<tty, main, exitCode, terminal, mutex, thread, slot, remote, readers, output, size>>

-----------------------------------------------------------------------------
(* The server (RishHost), and who reads the outputs                         *)

\* createHost has returned and the program has not exited: what happens elsewhere at
\* other times is of no consequence.
InSession == main \notin {"prepared", "exited"}

RemoteWrites ==
  /\ InSession
  /\ remote.out
  /\ sent < MaxOutput
  /\ sent' = sent + 1
  /\ pipe' = pipe + 1
  /\ UNCHANGED <<tty, main, exitCode, terminal, mutex, thread, slot, remote, readers,
                 received, stray, window>>

\* A transfer thread of the server closes its ends, or the pseudo-terminal goes.
RemoteCloses(end) ==
  /\ InSession
  /\ remote[end]
  /\ remote' = [remote EXCEPT ![end] = FALSE]
  /\ UNCHANGED <<tty, main, exitCode, terminal, mutex, thread, slot, readers, output, window>>

RemoteDies ==
  /\ InSession
  /\ remote.alive
  /\ remote' = [alive |-> FALSE, out |-> FALSE, pty |-> FALSE]
  /\ UNCHANGED <<tty, main, exitCode, terminal, mutex, thread, slot, readers, output, window>>

\* Nobody reads an output any more.
ReaderLeaves(n) ==
  /\ InSession
  /\ n = "STDERR" => "err" \notin tty
  /\ n \in readers
  /\ readers' = readers \ {n}
  /\ UNCHANGED <<tty, main, exitCode, terminal, mutex, thread, slot, remote, output, window>>

\* The number of the pipe, closed by one thread, names another file before the other
\* thread uses it.
OtherOpens ==
  /\ Running
  /\ slot["outR"] = "free"
  /\ slot' = [slot EXCEPT !["outR"] = "other"]
  /\ UNCHANGED <<tty, main, exitCode, terminal, mutex, thread, remote, readers, output, window>>

-----------------------------------------------------------------------------
Main ==
  \/ CreateHost \/ CreateHostFails \/ MakeRaw \/ Start \/ WatchWindow
  \/ WaitForProcessExit \/ RequestExitCode

Transfer(s) ==
  \/ Read(s) \/ ReadChunk(s) \/ ReadEnds(s)
  \/ WriteChunk(s) \/ WriteFails(s)
  \/ CloseIn(s) \/ CloseOut(s)

Func  == Restore \/ Unlock
Winch == LockWinch \/ GetWindowSize \/ SetWindowSize

Rest ==
  \/ WindowChanges \/ RemoteWrites \/ RemoteDies \/ OtherOpens
  \/ \E end \in {"out", "pty"} : RemoteCloses(end)
  \/ \E n \in {"STDOUT", "STDERR"} : ReaderLeaves(n)

Next ==
  \/ Main
  \/ InputEnds \/ \E s \in Streams : Transfer(s)
  \/ Func
  \/ Handle \/ Winch
  \/ Rest

Spec == Init /\ [][Next]_vars

\* Threads and signal handlers are scheduled; nothing is assumed of the server, the
\* other ends of the standard streams or standard input's thread.
FairSpec ==
  /\ Spec
  /\ WF_vars(Main) /\ WF_vars(Handle) /\ WF_vars(Winch)
  /\ WF_vars(Transfer("out")) /\ WF_vars(Func)

-----------------------------------------------------------------------------
(* Properties                                                               *)

\* Every variable keeps its type (the statics of RishTerminal.cpp, the fields of
\* RishTerminal and the data of the threads).
TypeOK ==
  /\ tty \in Modes
  /\ main \in MainStates
  /\ exitCode \in {"none", "zero", "one", "minusOne"}
  /\ raw \in BOOLEAN
  /\ ttyInRaw \in BOOLEAN
  /\ mutex \in BOOLEAN
  /\ thread \in [Streams -> ThreadStates]
  /\ slot \in [Numbers -> SlotStates]
  /\ pipe \in Nat
  /\ remote \in [alive : BOOLEAN, out : BOOLEAN, pty : BOOLEAN]
  /\ readers \in SUBSET {"STDOUT", "STDERR"}
  /\ sent \in Nat
  /\ received \in Nat
  /\ stray \in BOOLEAN
  /\ size \in Nat
  /\ hostSize \in Nat
  /\ winch \in [locked : BOOLEAN, pending : BOOLEAN,
                pc : {"off", "lock", "sample", "send"}, sample : Nat]

\* The main thread has got past waitForProcessExit.
Released == main = "asking" \/ (main = "exited" /\ exitCode # "one")

\* The program does not leave the user a terminal in raw mode, unless the thread of
\* standard input had closed it before it could be put back (RishTerminal.cpp 82-86).
TerminalRestored ==
  (Released \/ main = "exited") => (~raw \/ slot["STDIN"] # "own")

\* The way from the pipe to standard output is a relay that ends when waitFor
\* returns (RishTerminal.cpp 70-97, 118-126).  It breaks when nobody reads standard
\* output, and when the thread of standard error takes a chunk.
OutRelay == INSTANCE Relay WITH
  open   <- remote.out,
  broken <- "STDOUT" \notin readers \/ stray,
  ended  <- Released

RelaysOutput == OutRelay!Spec

\* The size of the server's pseudo-terminal follows the window: no SIGWINCH is lost
\* between lock and ioctl (RishTerminal.cpp 99-116), as long as the terminal's
\* number is open and the session is there.
WindowMirror == INSTANCE Mirror WITH
  source <- size,
  mirror <- hostSize,
  active <- tty # {} /\ Running /\ slot[TtyFd] = "own" /\ remote.pty

FollowsWindow == WindowMirror!FairSpec

\* No change of the window is lost (RishTerminal.cpp 99-126): while the size of the
\* server's pseudo-terminal is not the window's, a signal is pending, the mutex of the
\* window's thread is open, or the thread is between its lock and the call, with the
\* present size if it has read one.  It sleeps only on a size that has arrived.
NoChangeIsLost ==
  (tty # {} /\ Running /\ slot[TtyFd] = "own" /\ remote.pty /\ hostSize # size) =>
    \/ winch.pending
    \/ ~winch.locked
    \/ winch.pc = "sample"
    \/ winch.pc = "send" /\ winch.sample = size

\* When the server has closed its end the program exits, whoever holds the terminal
\* (unless the thread reads another file by the number of the pipe).
ExitFollowsRemote ==
  (main = "waiting" /\ ~remote.out)
  ~> (main = "exited" \/ slot["outR"] = "other")

\* Run like sh, the program leaves all of its output on its standard output, if that
\* is read (rish/README.md 15).
ReplacesSh ==
  Released /\ "STDOUT" \in readers => received = sent
=============================================================================
