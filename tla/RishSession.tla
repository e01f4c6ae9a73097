----------------------------- MODULE RishSession -----------------------------
(***************************************************************************)
(* A rish session: the server's side (RishHost) and the client's side        *)
(* (RishTerminal), joined by the pipe that carries standard output.  The      *)
(* client opens the pipe and sends its write end with createHost              *)
(* (RishTerminal.java, RishHost.java); a chunk is in the pipe once the host's *)
(* transfer thread has written it, and the pipe ends when that thread closes  *)
(* the write end or the server dies.  Each side is its own module's           *)
(* specification, unchanged; nothing else of the two sides is synchronised.   *)
(***************************************************************************)
EXTENDS Naturals, TLAPS

CONSTANTS
  Modes,      \* sets of the client's streams that are terminals
  MaxOutput,  \* bound: chunks the shell writes
  MaxInput,   \* bound: chunks the client types
  MaxSizes    \* bound: sizes the window takes

VARIABLES
  tty,        \* the streams that are terminals, found by the client, sent to the server
  call, hostSlot, hostThread, buf, child, hostExitCode, heir, client, written,
  sent,       \* chunks the shell has sent to its standard output
  piped,      \* chunks that have gone into the client's pipe
  main, exitCode, raw, ttyInRaw, mutex, thread, slot, pipe, remote, readers,
  received,   \* chunks the client has written to its standard output
  stray, size, hostSize, winch,
  cut         \* history: a side broke while it still had something to say

host == <<tty, call, hostSlot, hostThread, buf, child, hostExitCode, heir, client,
          written, sent>>
terminal == <<main, exitCode, raw, ttyInRaw, mutex, thread, slot, pipe, remote, readers,
              received, stray, size, hostSize, winch>>

Host == INSTANCE RishHost_proofs WITH
  slot <- hostSlot, thread <- hostThread, exitCode <- hostExitCode, received <- piped

Terminal == INSTANCE RishTerminal_proofs WITH sent <- piped

\* One side moves at a time, except where they meet: in a chunk that is written into
\* the pipe, and when the host's thread closes the pipe.  The client sees the pipe
\* end by itself only if the server dies.
Joint ==
  \/ UNCHANGED terminal
  \/ UNCHANGED host /\ (remote'.out = remote.out \/ ~remote'.alive)
  \/ Host!WriteChunk("out") /\ Terminal!RemoteWrites
  \/ Host!CloseOut("out") /\ Terminal!RemoteCloses("out")

HostOpen   == call \in {"opening", "failed"} \/ Host!Writers("out")
HostBroken == ~client.alive \/ (Host!Shared /\ hostSlot["ptmx"] \in {"free", "other"})
HostEnded  == hostThread["out"] \in {"closeIn", "closeOut", "func", "done"}
TerminalBroken == "STDOUT" \notin readers \/ stray
Lost == ~remote.alive

\* The host's way breaks only before its thread has seen the end (afterwards the thread
\* itself closes the shared number), and a server's death only while the pipe is open.
Cut == cut' = (cut \/ (~HostEnded /\ HostBroken') \/ (remote.out /\ Lost'))

Spec == /\ Host!Spec
        /\ Terminal!Spec
        /\ cut = FALSE
        /\ [][Joint /\ Cut]_<<host, terminal, piped, cut>>

\* What the code fixes or a bound stands for.
Bounds == /\ Modes \subseteq SUBSET {"in", "out", "err"}
          /\ MaxOutput \in Nat
          /\ MaxInput \in Nat
          /\ MaxSizes \in Nat

\* From the shell to the user's screen.
Broken == cut \/ TerminalBroken

Session == INSTANCE Relay WITH
  open   <- HostOpen,
  broken <- Broken,
  ended  <- Terminal!Released

\* From the shell to the user's standard output a session is one relay: chunks come
\* out in number and order, and waitFor returns at the client only when no shell can
\* write any more and everything has come out, or a side is broken (rish/README.md 15).
RelaysSession == Session!Spec

\* When waitFor has returned at the client, nothing that the shell wrote is missing
\* and nobody can write more, unless a side is broken.
NothingMissing == Terminal!Released => Broken \/ (~HostOpen /\ received = sent)

-----------------------------------------------------------------------------
(* What the relays of the two sides say of a state                          *)

Counts == /\ sent \in Nat /\ piped \in Nat /\ received \in Nat
          /\ received <= piped /\ piped <= sent

\* The host's thread ends only when no shell can write and all is in the pipe.
HostDone == HostEnded => cut \/ (~HostOpen /\ piped = sent)

\* The client sees the end of the pipe only after the host's thread has ended.
PipeDone == ~remote.out => HostEnded \/ cut

\* What has broken early is on record, and a dead server's pipe has ended.
Recorded == /\ cut \in BOOLEAN
            /\ HostBroken => HostEnded \/ cut
            /\ Lost => ~remote.out

SInv == Counts /\ HostDone /\ PipeDone /\ Recorded

HostStep == [Host!OutRelay!Next]_(Host!OutRelay!vars)
TerminalStep == [Terminal!OutRelay!Next]_(Terminal!OutRelay!vars)

\* The relays' actions in terms of this module's names.
LEMMA HostActions ==
  ASSUME HostStep
  PROVE  \/ /\ HostOpen /\ sent' = sent + 1
            /\ UNCHANGED <<piped, HostOpen, HostBroken, HostEnded>>
         \/ /\ ~HostEnded /\ piped < sent /\ piped' = piped + 1
            /\ UNCHANGED <<sent, HostOpen, HostBroken, HostEnded>>
         \/ /\ HostOpen /\ ~HostOpen'
            /\ UNCHANGED <<sent, piped, HostBroken, HostEnded>>
         \/ /\ ~HostBroken /\ HostBroken'
            /\ UNCHANGED <<sent, piped, HostOpen, HostEnded>>
         \/ /\ ~HostEnded /\ HostEnded'
            /\ HostBroken \/ (~HostOpen /\ piped = sent)
            /\ UNCHANGED <<sent, piped, HostOpen, HostBroken>>
         \/ UNCHANGED <<sent, piped, HostOpen, HostBroken, HostEnded>>
BY DEF HostStep, HostOpen, HostBroken, HostEnded, Host!OutRelay!Next, Host!OutRelay!vars,
   Host!OutRelay!Send, Host!OutRelay!Receive, Host!OutRelay!CloseWriters,
   Host!OutRelay!Break, Host!OutRelay!End

LEMMA TerminalActions ==
  ASSUME TerminalStep
  PROVE  \/ /\ remote.out /\ piped' = piped + 1
            /\ UNCHANGED <<received, remote.out, TerminalBroken, Terminal!Released>>
         \/ /\ ~Terminal!Released /\ received < piped /\ received' = received + 1
            /\ UNCHANGED <<piped, remote.out, TerminalBroken, Terminal!Released>>
         \/ /\ remote.out /\ ~remote'.out
            /\ UNCHANGED <<piped, received, TerminalBroken, Terminal!Released>>
         \/ /\ ~TerminalBroken /\ TerminalBroken'
            /\ UNCHANGED <<piped, received, remote.out, Terminal!Released>>
         \/ /\ ~Terminal!Released /\ (Terminal!Released)'
            /\ TerminalBroken \/ (~remote.out /\ received = piped)
            /\ UNCHANGED <<piped, received, remote.out, TerminalBroken>>
         \/ UNCHANGED <<piped, received, remote.out, TerminalBroken, Terminal!Released>>
BY DEF TerminalStep, TerminalBroken, Terminal!OutRelay!Next, Terminal!OutRelay!vars,
   Terminal!OutRelay!Send, Terminal!OutRelay!Receive, Terminal!OutRelay!CloseWriters,
   Terminal!OutRelay!Break, Terminal!OutRelay!End

-----------------------------------------------------------------------------
(* What the junction of the two sides says of a step                        *)

\* The server's life at the client ends once, in a step of its own.
LEMMA ServerLife ==
  ASSUME Terminal!TypeOK, [Terminal!Next]_(Terminal!vars), Lost' # Lost
  PROVE  ~Lost /\ Lost' /\ ~remote'.out
         /\ UNCHANGED <<received, readers, stray, main, exitCode>>
<1>1. remote \in [alive : BOOLEAN, out : BOOLEAN, pty : BOOLEAN] /\ remote'.alive # remote.alive
  BY DEF Terminal!TypeOK, Lost
<1>2. Terminal!RemoteDies
  BY <1>1 DEF Terminal!Next, Terminal!vars, Terminal!Main, Terminal!Transfer, Terminal!Func,
     Terminal!Winch, Terminal!Rest, Terminal!CreateHost, Terminal!CreateHostFails,
     Terminal!MakeRaw, Terminal!Start, Terminal!WatchWindow, Terminal!WaitForProcessExit,
     Terminal!RequestExitCode, Terminal!InputEnds, Terminal!Read, Terminal!ReadChunk,
     Terminal!ReadEnds, Terminal!WriteChunk, Terminal!WriteFails, Terminal!CloseIn,
     Terminal!CloseOut, Terminal!Restore, Terminal!Unlock, Terminal!Handle,
     Terminal!LockWinch, Terminal!GetWindowSize, Terminal!SetWindowSize,
     Terminal!WindowChanges, Terminal!RemoteWrites, Terminal!RemoteCloses,
     Terminal!OtherOpens, Terminal!ReaderLeaves
<1> QED BY <1>1, <1>2 DEF Terminal!RemoteDies, Terminal!output, Lost

\* In a step the client keeps its relay, or the host does, or the server dies alone;
\* and the pipe ends only after the host's thread has, or for want of a server.
LEMMA JointFacts ==
  ASSUME Recorded, TerminalStep, Terminal!TypeOK, [Terminal!Next]_(Terminal!vars), Joint, Cut
  PROVE  \/ /\ UNCHANGED <<received, TerminalBroken, Terminal!Released, Lost>>
            /\ cut' = (cut \/ (~HostEnded /\ HostBroken'))
            /\ HostEnded \/ (remote'.out <=> remote.out)
         \/ /\ UNCHANGED <<sent, HostOpen, HostBroken, HostEnded, Lost>>
            /\ cut' = cut
            /\ remote'.out <=> remote.out
         \/ /\ UNCHANGED <<sent, HostOpen, HostBroken, HostEnded,
                          received, TerminalBroken, Terminal!Released>>
            /\ Lost' /\ ~remote'.out
            /\ cut' = (cut \/ remote.out)
<1>0. /\ cut' = (cut \/ (~HostEnded /\ HostBroken') \/ (remote.out /\ Lost'))
      /\ HostBroken => HostEnded \/ cut
      /\ Lost => ~remote.out
      /\ cut \in BOOLEAN
  BY DEF Cut, Recorded, Terminal!TypeOK
<1>1. CASE UNCHANGED terminal
  BY <1>0, <1>1 DEF terminal, TerminalBroken, Terminal!Released, Lost
<1>2. CASE UNCHANGED host /\ (remote'.out = remote.out \/ ~remote'.alive)
  <2>1. UNCHANGED <<sent, HostOpen, HostBroken, HostEnded>>
    BY <1>2 DEF host, HostOpen, HostBroken, HostEnded, Host!Writers, Host!HungUp, Host!Held,
       Host!Source, Host!Target, Host!Shared
  <2>2. CASE Lost' = Lost
    <3>1. remote'.out <=> remote.out
      <4>1. ~remote.out => ~remote'.out
        BY TerminalActions
      <4> QED BY <1>0, <1>2, <2>2, <4>1 DEF Lost
    <3>2. cut' = (cut \/ (~HostEnded /\ HostBroken) \/ (remote.out /\ Lost))
      BY <1>0, <2>1, <2>2
    <3>3. cut' = cut
      BY <1>0, <3>2
    <3> QED BY <2>1, <2>2, <3>1, <3>3
  <2>3. CASE Lost' # Lost
    <3>1. /\ ~Lost /\ Lost' /\ ~remote'.out
          /\ UNCHANGED <<received, readers, stray, main, exitCode>>
      BY <2>3, ServerLife
    <3>2. cut' = (cut \/ remote.out)
      BY <1>0, <2>1, <3>1
    <3> QED BY <2>1, <3>1, <3>2 DEF TerminalBroken, Terminal!Released
  <2> QED BY <2>2, <2>3
<1>3. CASE Host!WriteChunk("out") /\ Terminal!RemoteWrites
  BY <1>0, <1>3 DEF Terminal!RemoteWrites, TerminalBroken, Terminal!Released, Lost
<1>4. CASE Host!CloseOut("out") /\ Terminal!RemoteCloses("out")
  <2>1. HostEnded
    BY <1>4 DEF Host!CloseOut, Host!Goes, HostEnded
  <2>2. remote'.alive = remote.alive /\ ~remote'.out
    BY <1>4 DEF Terminal!RemoteCloses, Terminal!TypeOK
  <2> QED
    BY <1>0, <1>4, <2>1, <2>2 DEF Terminal!RemoteCloses, Terminal!output, TerminalBroken,
       Terminal!Released, Lost
<1> QED BY <1>1, <1>2, <1>3, <1>4 DEF Joint

-----------------------------------------------------------------------------
(* The composition                                                          *)

LEMMA SInvStep ==
  ASSUME SInv, Terminal!TypeOK, HostStep, TerminalStep,
         [Terminal!Next]_(Terminal!vars), Joint, Cut
  PROVE  SInv'
<1>1. Counts'
  BY HostActions, TerminalActions, JointFacts DEF SInv, Counts
<1>2. HostDone'
  BY HostActions, JointFacts DEF SInv, Counts, HostDone, Recorded
<1>3. HostEnded => HostEnded'
  BY HostActions DEF HostEnded
<1>4. PipeDone'
  BY <1>3, JointFacts DEF SInv, PipeDone
<1>5. Recorded'
  <2>1. cut \in BOOLEAN /\ (Lost => ~remote.out)
    BY DEF SInv, Recorded
  <2>2. cut' \in BOOLEAN
    BY <2>1, JointFacts DEF SInv
  <2>3. HostBroken' => HostEnded' \/ cut'
    BY <1>3, JointFacts DEF SInv, Recorded
  <2>4. ~remote.out => ~remote'.out
    BY TerminalActions
  <2>5. Lost' => ~remote'.out
    BY <2>1, <2>4, JointFacts DEF SInv
  <2> QED BY <2>2, <2>3, <2>5 DEF Recorded
<1> QED BY <1>1, <1>2, <1>4, <1>5 DEF SInv

LEMMA SessionStep ==
  ASSUME SInv, Terminal!TypeOK, HostStep, TerminalStep,
         [Terminal!Next]_(Terminal!vars), Joint, Cut
  PROVE  [Session!Next]_(Session!vars)
<1> USE DEF Broken, Session!Next, Session!vars, Session!Send, Session!Receive,
            Session!CloseWriters, Session!Break, Session!End
<1>1. ASSUME UNCHANGED <<received, TerminalBroken, Terminal!Released>>,
             cut' = (cut \/ (~HostEnded /\ HostBroken'))
      PROVE  [Session!Next]_(Session!vars)
  <2>1. /\ cut \in BOOLEAN
        /\ HostBroken => HostEnded \/ cut
    BY DEF SInv, Recorded
  <2>2. HostBroken' = HostBroken => cut' = cut
    BY <1>1, <2>1
  <2>3. CASE HostBroken' = HostBroken
    <3>1. UNCHANGED <<received, TerminalBroken, Terminal!Released, cut>>
      BY <1>1, <2>2, <2>3
    <3> QED BY <2>3, <3>1, HostActions
  <2>4. CASE HostBroken' # HostBroken
    <3>1. UNCHANGED <<sent, HostOpen>>
      BY <2>4, HostActions
    <3>2. CASE cut' = cut
      BY <1>1, <3>1, <3>2
    <3>3. CASE cut' # cut
      BY <1>1, <2>1, <3>1, <3>3
    <3> QED BY <3>2, <3>3
  <2> QED BY <2>3, <2>4
<1>2. ASSUME UNCHANGED <<sent, HostOpen, HostBroken, HostEnded, cut>>
      PROVE  [Session!Next]_(Session!vars)
  <2>1. Terminal!Released' /\ ~Terminal!Released => Broken \/ (~HostOpen /\ received = sent)
    BY <1>2, TerminalActions DEF SInv, Counts, HostDone, PipeDone
  <2>2. received' # received => received < sent
    BY <1>2, TerminalActions DEF SInv, Counts
  <2> QED BY <1>2, <2>1, <2>2, TerminalActions
<1>3. ASSUME UNCHANGED <<sent, HostOpen, HostBroken, HostEnded,
                         received, TerminalBroken, Terminal!Released>>,
             cut' = (cut \/ remote.out)
      PROVE  [Session!Next]_(Session!vars)
  BY <1>3
<1> QED BY <1>1, <1>2, <1>3, JointFacts DEF SInv

\* The two sides, each of them a relay, make one relay from the shell to the user.
THEOREM SessionIsRelayed == Bounds /\ Spec => RelaysSession
<1>1. Bounds /\ Host!Spec => Host!RelaysOutput
  BY Host!OutputIsRelayed DEF Bounds, Host!Streams
<1>2. Bounds /\ Terminal!Spec => Terminal!RelaysOutput
  BY Terminal!OutputIsRelayed DEF Bounds, Terminal!Streams
<1>3. Bounds /\ Terminal!Spec => []Terminal!TypeOK
  BY Terminal!TypeCorrect DEF Bounds, Terminal!Streams
<1>4. Host!OutRelay!Init /\ Terminal!OutRelay!Init /\ Terminal!Init /\ cut = FALSE
        => SInv /\ Session!Init
  <2> SUFFICES ASSUME Host!OutRelay!Init, Terminal!OutRelay!Init, Terminal!Init, cut = FALSE
               PROVE  SInv /\ Session!Init
    OBVIOUS
  <2>1. /\ sent = 0 /\ piped = 0 /\ received = 0
        /\ HostOpen /\ ~HostBroken /\ ~HostEnded
        /\ ~TerminalBroken /\ ~Terminal!Released
    BY DEF Host!OutRelay!Init, Terminal!OutRelay!Init, HostOpen, HostBroken, HostEnded,
       TerminalBroken
  <2>2. remote.out /\ ~Lost
    BY DEF Terminal!Init, Lost
  <2>3. SInv
    <3>1. Counts
      BY <2>1 DEF Counts
    <3>2. cut \in BOOLEAN
      OBVIOUS
    <3> QED BY <3>1, <3>2, <2>1, <2>2 DEF SInv, HostDone, PipeDone, Recorded
  <2> QED BY <2>1, <2>3 DEF Session!Init, Broken
<1>5. /\ SInv
      /\ Terminal!TypeOK
      /\ HostStep
      /\ TerminalStep
      /\ [Terminal!Next]_(Terminal!vars)
      /\ [Joint /\ Cut]_<<host, terminal, piped, cut>>
      => SInv' /\ [Session!Next]_(Session!vars)
  <2>1. SInv /\ UNCHANGED <<host, terminal, piped, cut>> => Joint /\ Cut
    <3> SUFFICES ASSUME SInv, UNCHANGED <<host, terminal, piped, cut>> PROVE Cut
      BY DEF Joint, terminal
    <3>1. UNCHANGED <<HostBroken, Lost>>
      BY DEF host, terminal, HostBroken, Lost, Host!Shared
    <3>2. /\ cut \in BOOLEAN /\ cut' = cut
          /\ HostBroken => HostEnded \/ cut
          /\ Lost => ~remote.out
      BY DEF SInv, Recorded
    <3> QED BY <3>1, <3>2 DEF Cut
  <2> QED BY <2>1, SInvStep, SessionStep
<1> QED
  BY <1>1, <1>2, <1>3, <1>4, <1>5, PTL
  DEF Spec, Terminal!Spec, Host!RelaysOutput, Terminal!RelaysOutput, Host!OutRelay!Spec,
      Terminal!OutRelay!Spec, HostStep, TerminalStep, RelaysSession, Session!Spec

\* The client's waitFor returns over a whole session only after everything has
\* come out.
THEOREM SessionComplete == Bounds /\ Spec => []NothingMissing
<1>1. Session!Init => NothingMissing
  BY DEF Session!Init, NothingMissing
<1>2. NothingMissing /\ [Session!Next]_(Session!vars) => NothingMissing'
  BY DEF NothingMissing, Session!Next, Session!vars, Session!Send, Session!Receive,
     Session!CloseWriters, Session!Break, Session!End, HostOpen, Broken, Terminal!Released
<1> QED BY <1>1, <1>2, SessionIsRelayed, PTL DEF RelaysSession, Session!Spec
=============================================================================
