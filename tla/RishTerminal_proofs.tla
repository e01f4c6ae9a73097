------------------------ MODULE RishTerminal_proofs ------------------------
(* Theorems about RishTerminal, for all modes, sizes and numbers of chunks.  *)
EXTENDS RishTerminal, TLAPS

\* How far the main thread is, beside the mutex and the thread that unlocks it.
Phases ==
  /\ main \in {"prepared", "created", "set"} => thread["out"] = "off" /\ thread["err"] = "off"
  /\ main \in {"started", "waiting"} => mutex \/ thread["out"] = "done"
  /\ Released => thread["out"] = "done"
  /\ Running => exitCode = "none"
  /\ thread["in"] \in {"off", "copy", "closeIn", "closeOut", "done"}

\* The terminal is raw only with tty_in_raw, and only the thread of standard output
\* puts it back: after that it stays raw only if its number was closed.
RawIsUndone ==
  /\ raw = ttyInRaw
  /\ raw => tty = Streams
  /\ main = "prepared" \/ exitCode = "one" => ~raw
  /\ thread["out"] \in {"unlock", "done"} => ~raw \/ slot["STDIN"] # "own"

\* Standard output cannot have all of the output any more.
Broken == "STDOUT" \notin readers \/ stray

\* The server has closed the pipe and it is empty.
Drained == ~remote.out /\ pipe = 0

\* The chunk in the buffer of standard output's thread.
InHand == IF thread["out"] = "write" THEN 1 ELSE 0

\* A chunk is in one place, and in none only if the relay is broken.
Account ==
  /\ received + pipe + InHand <= sent
  /\ Broken \/ received + pipe + InHand = sent

\* A thread stops reading, and the pipe is closed here, only at its end or in vain.
EndIsReached ==
  /\ thread["err"] = "write" => stray
  /\ \A s \in {"out", "err"} :
       thread[s] \in {"closeIn", "closeOut", "restore", "unlock", "done"} => Broken \/ Drained
  /\ slot["outR"] # "own" => Broken \/ Drained

\* The type of winch.
WinchRecord == [locked : BOOLEAN, pending : BOOLEAN, pc : {"off", "lock", "sample", "send"},
                sample : Nat]

\* Somebody can see the size and somebody can set it.
Active == tty # {} /\ Running /\ slot[TtyFd] = "own" /\ remote.pty

\* What has been set and what is about to be set are sizes the window has had.
SizesGrow ==
  Active => /\ hostSize <= size
            /\ winch.pc = "send" => hostSize <= winch.sample /\ winch.sample <= size

IInv == TypeOK /\ Phases /\ RawIsUndone /\ Account /\ EndIsReached /\ SizesGrow

-----------------------------------------------------------------------------
\* Initial states satisfy the invariant.
LEMMA InitIInv == Init => IInv
<1>1. Init => TypeOK
  <2>1. ASSUME NEW b \in BOOLEAN PROVE [alive |-> TRUE, out |-> TRUE, pty |-> b]
                                        \in [alive : BOOLEAN, out : BOOLEAN, pty : BOOLEAN]
    OBVIOUS
  <2>2. (tty # {}) \in BOOLEAN
    OBVIOUS
  <2>3. Init => remote \in [alive : BOOLEAN, out : BOOLEAN, pty : BOOLEAN]
    BY <2>1, <2>2, Zenon DEF Init
  <2>4. Init => winch \in WinchRecord
    BY DEF Init, WinchRecord
  <2>5. Init => thread \in [Streams -> ThreadStates] /\ slot \in [Numbers -> SlotStates]
    BY DEF Init, ThreadStates, SlotStates
  <2>6. ASSUME Init PROVE TypeOK
    <3>1. /\ tty \in Modes /\ main \in MainStates /\ exitCode = "none" /\ raw \in BOOLEAN
          /\ ttyInRaw \in BOOLEAN /\ mutex \in BOOLEAN /\ pipe \in Nat /\ sent \in Nat
          /\ readers \in SUBSET {"STDOUT", "STDERR"} /\ received \in Nat /\ stray \in BOOLEAN
          /\ size \in Nat /\ hostSize \in Nat
      BY <2>6 DEF Init, MainStates
    <3> QED BY <3>1, <2>3, <2>4, <2>5, <2>6 DEF TypeOK, WinchRecord
  <2> QED BY <2>6
<1>2. Init => Phases /\ RawIsUndone
  BY DEF Init, Phases, RawIsUndone, Released, Running, Streams, Numbers
<1>3. Init => Account /\ EndIsReached /\ SizesGrow
  BY DEF Init, Account, EndIsReached, SizesGrow, Active, Broken, Drained, InHand, Streams, Numbers
<1> QED BY <1>1, <1>2, <1>3 DEF IInv

\* Every action keeps the types.
LEMMA TypeStep ==
  ASSUME TypeOK, Next
  PROVE  TypeOK'
<1> USE DEF TypeOK, MainStates, ThreadStates, SlotStates, Numbers, Streams, window, output,
      terminal, Source, Target, WinchRecord
<1>1. CASE CreateHost
  BY <1>1 DEF CreateHost
<1>2. CASE CreateHostFails
  BY <1>2 DEF CreateHostFails
<1>3. CASE MakeRaw
  BY <1>3 DEF MakeRaw
<1>4. CASE Start
  BY <1>4 DEF Start, StartThreads, Started
<1>5. CASE WatchWindow
  BY <1>5 DEF WatchWindow
<1>6. CASE WaitForProcessExit
  BY <1>6 DEF WaitForProcessExit
<1>7. CASE RequestExitCode
  BY <1>7 DEF RequestExitCode
<1>8. CASE InputEnds
  BY <1>8 DEF InputEnds, Goes
<1>9. ASSUME NEW s \in Streams, Read(s)
      PROVE  TypeOK'
  BY <1>9 DEF Read, Goes
<1>10. ASSUME NEW s \in Streams, ReadChunk(s)
      PROVE  TypeOK'
  BY <1>10 DEF ReadChunk, Goes
<1>11. ASSUME NEW s \in Streams, ReadEnds(s)
      PROVE  TypeOK'
  BY <1>11 DEF ReadEnds, Goes
<1>12. ASSUME NEW s \in Streams, WriteChunk(s)
      PROVE  TypeOK'
  BY <1>12 DEF WriteChunk, Goes
<1>13. ASSUME NEW s \in Streams, WriteFails(s)
      PROVE  TypeOK'
  BY <1>13 DEF WriteFails, Goes
<1>14. ASSUME NEW s \in Streams, CloseIn(s)
      PROVE  TypeOK'
  BY <1>14 DEF CloseIn, Closed, Goes
<1>15. ASSUME NEW s \in Streams, CloseOut(s)
      PROVE  TypeOK'
  BY <1>15 DEF CloseOut, Closed, Goes
<1>16. CASE Restore
  <2>1. thread' \in [Streams -> ThreadStates]
    BY <1>16 DEF Restore, Goes
  <2>2. raw' \in BOOLEAN /\ ttyInRaw' \in BOOLEAN /\ mutex' \in BOOLEAN
    BY <1>16 DEF Restore, Goes
  <2> QED BY <1>16, <2>1, <2>2 DEF Restore, Goes
<1>17. CASE Unlock
  <2>1. thread' \in [Streams -> ThreadStates]
    BY <1>17 DEF Unlock, Unlocks, Goes
  <2>2. raw' \in BOOLEAN /\ ttyInRaw' \in BOOLEAN /\ mutex' \in BOOLEAN
    BY <1>17 DEF Unlock, Unlocks, Goes
  <2> QED BY <1>17, <2>1, <2>2 DEF Unlock, Unlocks, Goes
<1>18. CASE Handle
  <2>1. winch' \in WinchRecord
    BY <1>18 DEF Handle
  <2> QED BY <1>18, <2>1 DEF Handle
<1>19. CASE LockWinch
  <2>1. winch' \in WinchRecord
    BY <1>19 DEF LockWinch
  <2> QED BY <1>19, <2>1 DEF LockWinch
<1>20. CASE GetWindowSize
  <2>1. winch' \in WinchRecord
    BY <1>20 DEF GetWindowSize
  <2> QED BY <1>20, <2>1 DEF GetWindowSize
<1>21. CASE SetWindowSize
  <2>1. winch' \in WinchRecord
    BY <1>21 DEF SetWindowSize, Sent
  <2> QED BY <1>21, <2>1 DEF SetWindowSize, Sent
<1>22. CASE WindowChanges
  <2>1. Handled \in BOOLEAN
    BY DEF Handled
  <2>2. winch' \in WinchRecord
    BY <1>22, <2>1 DEF WindowChanges
  <2> QED BY <1>22, <2>2 DEF WindowChanges
<1>23. CASE RemoteWrites
  BY <1>23 DEF RemoteWrites, InSession
<1>24. CASE RemoteDies
  BY <1>24 DEF RemoteDies, InSession
<1>25. CASE OtherOpens
  BY <1>25 DEF OtherOpens
<1>26. ASSUME NEW end \in {"out", "pty"}, RemoteCloses(end)
      PROVE  TypeOK'
  <2>1. remote' \in [alive : BOOLEAN, out : BOOLEAN, pty : BOOLEAN]
    BY <1>26 DEF RemoteCloses, InSession
  <2> QED BY <1>26, <2>1 DEF RemoteCloses, InSession
<1>27. ASSUME NEW n \in {"STDOUT", "STDERR"}, ReaderLeaves(n)
      PROVE  TypeOK'
  BY <1>27 DEF ReaderLeaves, InSession
<1> HIDE DEF TypeOK, MainStates, ThreadStates, SlotStates, Numbers, Streams, window, output,
      terminal, Source, Target, WinchRecord
<1> QED BY <1>1, <1>2, <1>3, <1>4, <1>5, <1>6, <1>7, <1>8, <1>9, <1>10, <1>11, <1>12, <1>13,
      <1>14, <1>15, <1>16, <1>17, <1>18, <1>19, <1>20, <1>21, <1>22, <1>23, <1>24, <1>25, <1>26,
      <1>27
    DEF Next, Main, Transfer, Func, Winch, Rest

\* Every action keeps the main thread and the mutex in step.
LEMMA PhasesStep ==
  ASSUME TypeOK, Phases, Next
  PROVE  Phases'
<1> USE DEF TypeOK, Phases, Released, Running, window, output, terminal, Streams
<1>1. CASE CreateHost
  BY <1>1 DEF CreateHost
<1>2. CASE CreateHostFails
  BY <1>2 DEF CreateHostFails
<1>3. CASE MakeRaw
  BY <1>3 DEF MakeRaw
<1>4. CASE Start
  BY <1>4 DEF Start, StartThreads, Started
<1>5. CASE WatchWindow
  BY <1>5 DEF WatchWindow
<1>6. CASE WaitForProcessExit
  BY <1>6 DEF WaitForProcessExit
<1>7. CASE RequestExitCode
  BY <1>7 DEF RequestExitCode
<1>8. CASE InputEnds
  BY <1>8 DEF InputEnds, Goes
<1>9. ASSUME NEW s \in Streams, Read(s)
      PROVE  Phases'
  BY <1>9 DEF Read, Goes
<1>10. ASSUME NEW s \in Streams, ReadChunk(s)
      PROVE  Phases'
  BY <1>10 DEF ReadChunk, Goes
<1>11. ASSUME NEW s \in Streams, ReadEnds(s)
      PROVE  Phases'
  BY <1>11 DEF ReadEnds, Goes
<1>12. ASSUME NEW s \in Streams, WriteChunk(s)
      PROVE  Phases'
  BY <1>12 DEF WriteChunk, Target, Goes
<1>13. ASSUME NEW s \in Streams, WriteFails(s)
      PROVE  Phases'
  BY <1>13 DEF WriteFails, Target, Goes
<1>14. ASSUME NEW s \in Streams, CloseIn(s)
      PROVE  Phases'
  BY <1>14 DEF CloseIn, Closed, Source, Goes
<1>15. ASSUME NEW s \in Streams, CloseOut(s)
      PROVE  Phases'
  BY <1>15 DEF CloseOut, Closed, Target, Goes
<1>16. CASE Restore
  BY <1>16 DEF Restore, Goes
<1>17. CASE Unlock
  BY <1>17 DEF Unlock, Unlocks, Goes
<1>18. CASE Handle
  BY <1>18 DEF Handle
<1>19. CASE LockWinch
  BY <1>19 DEF LockWinch
<1>20. CASE GetWindowSize
  BY <1>20 DEF GetWindowSize
<1>21. CASE SetWindowSize
  BY <1>21 DEF SetWindowSize, Sent
<1>22. CASE WindowChanges
  BY <1>22 DEF WindowChanges, Handled
<1>23. CASE RemoteWrites
  BY <1>23 DEF RemoteWrites, InSession
<1>24. CASE RemoteDies
  BY <1>24 DEF RemoteDies, InSession
<1>25. CASE OtherOpens
  BY <1>25 DEF OtherOpens
<1>26. ASSUME NEW end \in {"out", "pty"}, RemoteCloses(end)
      PROVE  Phases'
  BY <1>26 DEF RemoteCloses, InSession
<1>27. ASSUME NEW n \in {"STDOUT", "STDERR"}, ReaderLeaves(n)
      PROVE  Phases'
  BY <1>27 DEF ReaderLeaves, InSession
<1> HIDE DEF TypeOK, Phases, Released, Running, window, output, terminal, Streams
<1> QED BY <1>1, <1>2, <1>3, <1>4, <1>5, <1>6, <1>7, <1>8, <1>9, <1>10, <1>11, <1>12, <1>13,
      <1>14, <1>15, <1>16, <1>17, <1>18, <1>19, <1>20, <1>21, <1>22, <1>23, <1>24, <1>25, <1>26,
      <1>27
    DEF Next, Main, Transfer, Func, Winch, Rest

\* Every action keeps account of the terminal.
LEMMA RawStep ==
  ASSUME TypeOK, Phases, RawIsUndone, Next
  PROVE  RawIsUndone'
<1> USE DEF TypeOK, Phases, RawIsUndone, Running, Released, window, output, terminal, TtyFd,
      Numbers, Streams, Closed, Source, Target
<1>1. CASE CreateHost
  BY <1>1 DEF CreateHost
<1>2. CASE CreateHostFails
  BY <1>2 DEF CreateHostFails
<1>3. CASE MakeRaw
  BY <1>3 DEF MakeRaw
<1>4. CASE Start
  BY <1>4 DEF Start, StartThreads, Started
<1>5. CASE WatchWindow
  BY <1>5 DEF WatchWindow
<1>6. CASE WaitForProcessExit
  BY <1>6 DEF WaitForProcessExit
<1>7. CASE RequestExitCode
  BY <1>7 DEF RequestExitCode
<1>8. CASE InputEnds
  BY <1>8 DEF InputEnds, Goes
<1>9. ASSUME NEW s \in Streams, Read(s)
      PROVE  RawIsUndone'
  BY <1>9 DEF Read, Goes
<1>10. ASSUME NEW s \in Streams, ReadChunk(s)
      PROVE  RawIsUndone'
  BY <1>10 DEF ReadChunk, Goes
<1>11. ASSUME NEW s \in Streams, ReadEnds(s)
      PROVE  RawIsUndone'
  BY <1>11 DEF ReadEnds, Goes
<1>12. ASSUME NEW s \in Streams, WriteChunk(s)
      PROVE  RawIsUndone'
  BY <1>12 DEF WriteChunk, Goes
<1>13. ASSUME NEW s \in Streams, WriteFails(s)
      PROVE  RawIsUndone'
  BY <1>13 DEF WriteFails, Goes
<1>14. ASSUME NEW s \in Streams, CloseIn(s)
      PROVE  RawIsUndone'
  BY <1>14 DEF CloseIn, Goes
<1>15. ASSUME NEW s \in Streams, CloseOut(s)
      PROVE  RawIsUndone'
  BY <1>15 DEF CloseOut, Goes
<1>16. CASE Restore
  BY <1>16 DEF Restore, Goes
<1>17. CASE Unlock
  BY <1>17 DEF Unlock, Unlocks, Goes
<1>18. CASE Handle
  BY <1>18 DEF Handle
<1>19. CASE LockWinch
  BY <1>19 DEF LockWinch
<1>20. CASE GetWindowSize
  BY <1>20 DEF GetWindowSize
<1>21. CASE SetWindowSize
  BY <1>21 DEF SetWindowSize, Sent
<1>22. CASE WindowChanges
  BY <1>22 DEF WindowChanges, Handled
<1>23. CASE RemoteWrites
  BY <1>23 DEF RemoteWrites, InSession
<1>24. CASE RemoteDies
  BY <1>24 DEF RemoteDies, InSession
<1>25. CASE OtherOpens
  BY <1>25 DEF OtherOpens
<1>26. ASSUME NEW end \in {"out", "pty"}, RemoteCloses(end)
      PROVE  RawIsUndone'
  BY <1>26 DEF RemoteCloses, InSession
<1>27. ASSUME NEW n \in {"STDOUT", "STDERR"}, ReaderLeaves(n)
      PROVE  RawIsUndone'
  BY <1>27 DEF ReaderLeaves, InSession
<1> HIDE DEF TypeOK, Phases, RawIsUndone, Running, Released, window, output, terminal, TtyFd,
      Numbers, Streams, Closed, Source, Target
<1> QED BY <1>1, <1>2, <1>3, <1>4, <1>5, <1>6, <1>7, <1>8, <1>9, <1>10, <1>11, <1>12, <1>13,
      <1>14, <1>15, <1>16, <1>17, <1>18, <1>19, <1>20, <1>21, <1>22, <1>23, <1>24, <1>25, <1>26,
      <1>27
    DEF Next, Main, Transfer, Func, Winch, Rest

\* Every action keeps account of the chunks.
LEMMA AccountStep ==
  ASSUME TypeOK, Phases, Account, Next
  PROVE  Account'
<1> USE DEF TypeOK, Phases, Account, InHand, Broken, Running, window, output, terminal, Streams,
      Source, Target
<1>1. CASE CreateHost
  BY <1>1 DEF CreateHost
<1>2. CASE CreateHostFails
  BY <1>2 DEF CreateHostFails
<1>3. CASE MakeRaw
  BY <1>3 DEF MakeRaw
<1>4. CASE Start
  BY <1>4 DEF Start, StartThreads, Started
<1>5. CASE WatchWindow
  BY <1>5 DEF WatchWindow
<1>6. CASE WaitForProcessExit
  BY <1>6 DEF WaitForProcessExit
<1>7. CASE RequestExitCode
  BY <1>7 DEF RequestExitCode
<1>8. CASE InputEnds
  BY <1>8 DEF InputEnds, Goes
<1>9. ASSUME NEW s \in Streams, Read(s)
      PROVE  Account'
  BY <1>9 DEF Read, Goes
<1>10. ASSUME NEW s \in Streams, ReadChunk(s)
      PROVE  Account'
  <2>1. (s = "err" => stray') /\ (s # "err" => stray' = stray)
    BY <1>10 DEF ReadChunk, Goes
  <2> QED BY <1>10, <2>1 DEF ReadChunk, Goes
<1>11. ASSUME NEW s \in Streams, ReadEnds(s)
      PROVE  Account'
  BY <1>11 DEF ReadEnds, Goes
<1>12. ASSUME NEW s \in Streams, WriteChunk(s)
      PROVE  Account'
  BY <1>12 DEF WriteChunk, Goes
<1>13. ASSUME NEW s \in Streams, WriteFails(s)
      PROVE  Account'
  BY <1>13 DEF WriteFails, Goes
<1>14. ASSUME NEW s \in Streams, CloseIn(s)
      PROVE  Account'
  BY <1>14 DEF CloseIn, Closed, Goes
<1>15. ASSUME NEW s \in Streams, CloseOut(s)
      PROVE  Account'
  BY <1>15 DEF CloseOut, Closed, Goes
<1>16. CASE Restore
  BY <1>16 DEF Restore, Goes
<1>17. CASE Unlock
  BY <1>17 DEF Unlock, Unlocks, Goes
<1>18. CASE Handle
  BY <1>18 DEF Handle
<1>19. CASE LockWinch
  BY <1>19 DEF LockWinch
<1>20. CASE GetWindowSize
  BY <1>20 DEF GetWindowSize
<1>21. CASE SetWindowSize
  BY <1>21 DEF SetWindowSize, Sent
<1>22. CASE WindowChanges
  BY <1>22 DEF WindowChanges, Handled
<1>23. CASE RemoteWrites
  BY <1>23 DEF RemoteWrites, InSession
<1>24. CASE RemoteDies
  BY <1>24 DEF RemoteDies, InSession
<1>25. CASE OtherOpens
  BY <1>25 DEF OtherOpens
<1>26. ASSUME NEW end \in {"out", "pty"}, RemoteCloses(end)
      PROVE  Account'
  BY <1>26 DEF RemoteCloses, InSession
<1>27. ASSUME NEW n \in {"STDOUT", "STDERR"}, ReaderLeaves(n)
      PROVE  Account'
  BY <1>27 DEF ReaderLeaves, InSession
<1> HIDE DEF TypeOK, Phases, Account, InHand, Broken, Running, window, output, terminal, Streams,
      Source, Target
<1> QED BY <1>1, <1>2, <1>3, <1>4, <1>5, <1>6, <1>7, <1>8, <1>9, <1>10, <1>11, <1>12, <1>13,
      <1>14, <1>15, <1>16, <1>17, <1>18, <1>19, <1>20, <1>21, <1>22, <1>23, <1>24, <1>25, <1>26,
      <1>27
    DEF Next, Main, Transfer, Func, Winch, Rest

\* Every action keeps the reasons for an end.
LEMMA EndStep ==
  ASSUME TypeOK, Phases, EndIsReached, Next
  PROVE  EndIsReached'
<1> USE DEF TypeOK, Phases, EndIsReached, Broken, Drained, Running, window, output, terminal,
      Streams, Numbers, Source, Target
<1>1. CASE CreateHost
  BY <1>1 DEF CreateHost
<1>2. CASE CreateHostFails
  BY <1>2 DEF CreateHostFails
<1>3. CASE MakeRaw
  BY <1>3 DEF MakeRaw
<1>4. CASE Start
  BY <1>4 DEF Start, StartThreads, Started
<1>5. CASE WatchWindow
  BY <1>5 DEF WatchWindow
<1>6. CASE WaitForProcessExit
  BY <1>6 DEF WaitForProcessExit
<1>7. CASE RequestExitCode
  BY <1>7 DEF RequestExitCode
<1>8. CASE InputEnds
  BY <1>8 DEF InputEnds, Goes
<1>9. ASSUME NEW s \in Streams, Read(s)
      PROVE  EndIsReached'
  BY <1>9 DEF Read, Goes
<1>10. ASSUME NEW s \in Streams, ReadChunk(s)
      PROVE  EndIsReached'
  <2>1. (s = "err" => stray') /\ (s # "err" => stray' = stray)
    BY <1>10 DEF ReadChunk, Goes
  <2> QED BY <1>10, <2>1 DEF ReadChunk, Goes
<1>11. ASSUME NEW s \in Streams, ReadEnds(s)
      PROVE  EndIsReached'
  BY <1>11 DEF ReadEnds, Goes
<1>12. ASSUME NEW s \in Streams, WriteChunk(s)
      PROVE  EndIsReached'
  BY <1>12 DEF WriteChunk, Goes
<1>13. ASSUME NEW s \in Streams, WriteFails(s)
      PROVE  EndIsReached'
  BY <1>13 DEF WriteFails, Goes
<1>14. ASSUME NEW s \in Streams, CloseIn(s)
      PROVE  EndIsReached'
  BY <1>14 DEF CloseIn, Closed, Goes
<1>15. ASSUME NEW s \in Streams, CloseOut(s)
      PROVE  EndIsReached'
  BY <1>15 DEF CloseOut, Closed, Goes
<1>16. CASE Restore
  BY <1>16 DEF Restore, Goes
<1>17. CASE Unlock
  BY <1>17 DEF Unlock, Unlocks, Goes
<1>18. CASE Handle
  BY <1>18 DEF Handle
<1>19. CASE LockWinch
  BY <1>19 DEF LockWinch
<1>20. CASE GetWindowSize
  BY <1>20 DEF GetWindowSize
<1>21. CASE SetWindowSize
  BY <1>21 DEF SetWindowSize, Sent
<1>22. CASE WindowChanges
  BY <1>22 DEF WindowChanges, Handled
<1>23. CASE RemoteWrites
  BY <1>23 DEF RemoteWrites, InSession
<1>24. CASE RemoteDies
  BY <1>24 DEF RemoteDies, InSession
<1>25. CASE OtherOpens
  BY <1>25 DEF OtherOpens
<1>26. ASSUME NEW end \in {"out", "pty"}, RemoteCloses(end)
      PROVE  EndIsReached'
  BY <1>26 DEF RemoteCloses, InSession
<1>27. ASSUME NEW n \in {"STDOUT", "STDERR"}, ReaderLeaves(n)
      PROVE  EndIsReached'
  BY <1>27 DEF ReaderLeaves, InSession
<1> HIDE DEF TypeOK, Phases, EndIsReached, Broken, Drained, Running, window, output, terminal,
      Streams, Numbers, Source, Target
<1> QED BY <1>1, <1>2, <1>3, <1>4, <1>5, <1>6, <1>7, <1>8, <1>9, <1>10, <1>11, <1>12, <1>13,
      <1>14, <1>15, <1>16, <1>17, <1>18, <1>19, <1>20, <1>21, <1>22, <1>23, <1>24, <1>25, <1>26,
      <1>27
    DEF Next, Main, Transfer, Func, Winch, Rest

\* Every action keeps the sizes in order.
LEMMA SizesStep ==
  ASSUME TypeOK, SizesGrow, Next
  PROVE  SizesGrow'
<1> USE DEF TypeOK, SizesGrow, Active, Running, window, output, terminal, TtyFd, Numbers, Streams,
      Source, Target
<1>1. CASE CreateHost
  BY <1>1 DEF CreateHost
<1>2. CASE CreateHostFails
  BY <1>2 DEF CreateHostFails
<1>3. CASE MakeRaw
  BY <1>3 DEF MakeRaw
<1>4. CASE Start
  BY <1>4 DEF Start, StartThreads, Started
<1>5. CASE WatchWindow
  BY <1>5 DEF WatchWindow
<1>6. CASE WaitForProcessExit
  BY <1>6 DEF WaitForProcessExit
<1>7. CASE RequestExitCode
  BY <1>7 DEF RequestExitCode
<1>8. CASE InputEnds
  BY <1>8 DEF InputEnds, Goes
<1>9. ASSUME NEW s \in Streams, Read(s)
      PROVE  SizesGrow'
  BY <1>9 DEF Read, Goes
<1>10. ASSUME NEW s \in Streams, ReadChunk(s)
      PROVE  SizesGrow'
  BY <1>10 DEF ReadChunk, Goes
<1>11. ASSUME NEW s \in Streams, ReadEnds(s)
      PROVE  SizesGrow'
  BY <1>11 DEF ReadEnds, Goes
<1>12. ASSUME NEW s \in Streams, WriteChunk(s)
      PROVE  SizesGrow'
  BY <1>12 DEF WriteChunk, Goes
<1>13. ASSUME NEW s \in Streams, WriteFails(s)
      PROVE  SizesGrow'
  BY <1>13 DEF WriteFails, Goes
<1>14. ASSUME NEW s \in Streams, CloseIn(s)
      PROVE  SizesGrow'
  BY <1>14 DEF CloseIn, Closed, Goes
<1>15. ASSUME NEW s \in Streams, CloseOut(s)
      PROVE  SizesGrow'
  BY <1>15 DEF CloseOut, Closed, Goes
<1>16. CASE Restore
  BY <1>16 DEF Restore, Goes
<1>17. CASE Unlock
  BY <1>17 DEF Unlock, Unlocks, Goes
<1>18. CASE Handle
  BY <1>18 DEF Handle
<1>19. CASE LockWinch
  BY <1>19 DEF LockWinch
<1>20. CASE GetWindowSize
  BY <1>20 DEF GetWindowSize
<1>21. CASE SetWindowSize
  BY <1>21 DEF SetWindowSize, Sent
<1>22. CASE WindowChanges
  BY <1>22 DEF WindowChanges, Handled
<1>23. CASE RemoteWrites
  BY <1>23 DEF RemoteWrites, InSession
<1>24. CASE RemoteDies
  BY <1>24 DEF RemoteDies, InSession
<1>25. CASE OtherOpens
  BY <1>25 DEF OtherOpens
<1>26. ASSUME NEW end \in {"out", "pty"}, RemoteCloses(end)
      PROVE  SizesGrow'
  BY <1>26 DEF RemoteCloses, InSession
<1>27. ASSUME NEW n \in {"STDOUT", "STDERR"}, ReaderLeaves(n)
      PROVE  SizesGrow'
  BY <1>27 DEF ReaderLeaves, InSession
<1> HIDE DEF TypeOK, SizesGrow, Active, Running, window, output, terminal, TtyFd, Numbers,
      Streams, Source, Target
<1> QED BY <1>1, <1>2, <1>3, <1>4, <1>5, <1>6, <1>7, <1>8, <1>9, <1>10, <1>11, <1>12, <1>13,
      <1>14, <1>15, <1>16, <1>17, <1>18, <1>19, <1>20, <1>21, <1>22, <1>23, <1>24, <1>25, <1>26,
      <1>27
    DEF Next, Main, Transfer, Func, Winch, Rest

\* Steps that change nothing keep the invariant.
LEMMA StutterIInv == ASSUME IInv, UNCHANGED vars PROVE IInv'
  BY DEF vars, terminal, output, window, IInv, TypeOK, Phases, RawIsUndone, Account, EndIsReached,
         SizesGrow, Active, Broken, Drained, InHand, Released, Running, TtyFd

\* The invariant holds always.
THEOREM Invariance == Spec => []IInv
<1>1. IInv /\ [Next]_vars => IInv'
  BY StutterIInv, TypeStep, PhasesStep, RawStep, AccountStep, EndStep, SizesStep DEF IInv
<1> QED BY <1>1, InitIInv, PTL DEF Spec

\* Every variable keeps its type.
THEOREM TypeCorrect == Spec => []TypeOK
  BY Invariance, PTL DEF IInv

\* The program leaves no terminal in raw mode that it could still have put back.
THEOREM TerminalIsRestored == Spec => []TerminalRestored
<1>1. IInv => TerminalRestored
  BY DEF IInv, TypeOK, Phases, RawIsUndone, TerminalRestored, Released
<1> QED BY <1>1, Invariance, PTL

-----------------------------------------------------------------------------
(* Standard output is a relay                                               *)

\* Every action is a step of the relay or none.
LEMMA RelayStep ==
  ASSUME TypeOK, Phases, Account, EndIsReached, Next
  PROVE  [OutRelay!Next]_(OutRelay!vars)
<1> USE DEF TypeOK, Phases, Account, EndIsReached, InHand, Broken, Drained, Released, Running,
      window, output, terminal, Streams, Target, OutRelay!Next, OutRelay!vars, OutRelay!Send,
      OutRelay!Receive, OutRelay!CloseWriters, OutRelay!Break, OutRelay!End
<1>1. CASE CreateHost
  BY <1>1 DEF CreateHost
<1>2. CASE CreateHostFails
  BY <1>2 DEF CreateHostFails
<1>3. CASE MakeRaw
  BY <1>3 DEF MakeRaw
<1>4. CASE Start
  BY <1>4 DEF Start, StartThreads, Started
<1>5. CASE WatchWindow
  BY <1>5 DEF WatchWindow
<1>6. CASE WaitForProcessExit
  BY <1>6 DEF WaitForProcessExit
<1>7. CASE RequestExitCode
  BY <1>7 DEF RequestExitCode
<1>8. CASE InputEnds
  BY <1>8 DEF InputEnds, Goes
<1>9. ASSUME NEW s \in Streams, Read(s)
      PROVE  [OutRelay!Next]_(OutRelay!vars)
  BY <1>9 DEF Read, Goes
<1>10. ASSUME NEW s \in Streams, ReadChunk(s)
      PROVE  [OutRelay!Next]_(OutRelay!vars)
  BY <1>10 DEF ReadChunk, Goes
<1>11. ASSUME NEW s \in Streams, ReadEnds(s)
      PROVE  [OutRelay!Next]_(OutRelay!vars)
  BY <1>11 DEF ReadEnds, Goes
<1>12. ASSUME NEW s \in Streams, WriteChunk(s)
      PROVE  [OutRelay!Next]_(OutRelay!vars)
  BY <1>12 DEF WriteChunk, Goes
<1>13. ASSUME NEW s \in Streams, WriteFails(s)
      PROVE  [OutRelay!Next]_(OutRelay!vars)
  BY <1>13 DEF WriteFails, Goes
<1>14. ASSUME NEW s \in Streams, CloseIn(s)
      PROVE  [OutRelay!Next]_(OutRelay!vars)
  BY <1>14 DEF CloseIn, Closed, Source, Goes
<1>15. ASSUME NEW s \in Streams, CloseOut(s)
      PROVE  [OutRelay!Next]_(OutRelay!vars)
  BY <1>15 DEF CloseOut, Closed, Goes
<1>16. CASE Restore
  BY <1>16 DEF Restore, Goes
<1>17. CASE Unlock
  BY <1>17 DEF Unlock, Unlocks, Goes
<1>18. CASE Handle
  BY <1>18 DEF Handle
<1>19. CASE LockWinch
  BY <1>19 DEF LockWinch
<1>20. CASE GetWindowSize
  BY <1>20 DEF GetWindowSize
<1>21. CASE SetWindowSize
  BY <1>21 DEF SetWindowSize, Sent
<1>22. CASE WindowChanges
  BY <1>22 DEF WindowChanges, Handled
<1>23. CASE RemoteWrites
  BY <1>23 DEF RemoteWrites, InSession
<1>24. CASE RemoteDies
  BY <1>24 DEF RemoteDies, InSession
<1>25. CASE OtherOpens
  BY <1>25 DEF OtherOpens
<1>26. ASSUME NEW end \in {"out", "pty"}, RemoteCloses(end)
      PROVE  [OutRelay!Next]_(OutRelay!vars)
  BY <1>26 DEF RemoteCloses, InSession
<1>27. ASSUME NEW n \in {"STDOUT", "STDERR"}, ReaderLeaves(n)
      PROVE  [OutRelay!Next]_(OutRelay!vars)
  BY <1>27 DEF ReaderLeaves, InSession
<1> HIDE DEF TypeOK, Phases, Account, EndIsReached, InHand, Broken, Drained, Released, Running,
      window, output, terminal, Streams, Target, OutRelay!Next, OutRelay!vars, OutRelay!Send,
      OutRelay!Receive, OutRelay!CloseWriters, OutRelay!Break, OutRelay!End
<1> QED BY <1>1, <1>2, <1>3, <1>4, <1>5, <1>6, <1>7, <1>8, <1>9, <1>10, <1>11, <1>12, <1>13,
      <1>14, <1>15, <1>16, <1>17, <1>18, <1>19, <1>20, <1>21, <1>22, <1>23, <1>24, <1>25, <1>26,
      <1>27
    DEF Next, Main, Transfer, Func, Winch, Rest

\* A step that changes nothing is no step of the relay.
LEMMA RelayStutter == ASSUME UNCHANGED vars PROVE UNCHANGED OutRelay!vars
  BY DEF vars, output, terminal, window, OutRelay!vars, Released

\* What the server writes comes out of the program's standard output, and waitFor
\* returns when all of it has, or the relay is broken.
THEOREM OutputIsRelayed == Spec => RelaysOutput
<1>1. Init => OutRelay!Init
  BY DEF Init, OutRelay!Init, Released
<1>2. IInv /\ [Next]_vars => [OutRelay!Next]_(OutRelay!vars)
  BY RelayStep, RelayStutter DEF IInv
<1> QED BY <1>1, <1>2, Invariance, PTL DEF Spec, RelaysOutput, OutRelay!Spec

-----------------------------------------------------------------------------
(* The size is mirrored                                                     *)

\* Every action is a step of the mirror or none.
LEMMA MirrorStep ==
  ASSUME TypeOK, SizesGrow, Next
  PROVE  [WindowMirror!Next]_(WindowMirror!vars)
<1> USE DEF TypeOK, SizesGrow, Active, Running, window, output, terminal, Streams, Numbers, TtyFd,
      Source, Target, Closed, WindowMirror!Next, WindowMirror!vars, WindowMirror!Change,
      WindowMirror!Copy, WindowMirror!Stop, WindowMirror!Drift
<1>1. CASE CreateHost
  BY <1>1 DEF CreateHost
<1>2. CASE CreateHostFails
  BY <1>2 DEF CreateHostFails
<1>3. CASE MakeRaw
  BY <1>3 DEF MakeRaw
<1>4. CASE Start
  BY <1>4 DEF Start, StartThreads, Started
<1>5. CASE WatchWindow
  BY <1>5 DEF WatchWindow
<1>6. CASE WaitForProcessExit
  BY <1>6 DEF WaitForProcessExit
<1>7. CASE RequestExitCode
  BY <1>7 DEF RequestExitCode
<1>8. CASE InputEnds
  BY <1>8 DEF InputEnds, Goes
<1>9. ASSUME NEW s \in Streams, Read(s)
      PROVE  [WindowMirror!Next]_(WindowMirror!vars)
  BY <1>9 DEF Read, Goes
<1>10. ASSUME NEW s \in Streams, ReadChunk(s)
      PROVE  [WindowMirror!Next]_(WindowMirror!vars)
  BY <1>10 DEF ReadChunk, Goes
<1>11. ASSUME NEW s \in Streams, ReadEnds(s)
      PROVE  [WindowMirror!Next]_(WindowMirror!vars)
  BY <1>11 DEF ReadEnds, Goes
<1>12. ASSUME NEW s \in Streams, WriteChunk(s)
      PROVE  [WindowMirror!Next]_(WindowMirror!vars)
  BY <1>12 DEF WriteChunk, Goes
<1>13. ASSUME NEW s \in Streams, WriteFails(s)
      PROVE  [WindowMirror!Next]_(WindowMirror!vars)
  BY <1>13 DEF WriteFails, Goes
<1>14. ASSUME NEW s \in Streams, CloseIn(s)
      PROVE  [WindowMirror!Next]_(WindowMirror!vars)
  BY <1>14 DEF CloseIn, Goes
<1>15. ASSUME NEW s \in Streams, CloseOut(s)
      PROVE  [WindowMirror!Next]_(WindowMirror!vars)
  BY <1>15 DEF CloseOut, Goes
<1>16. CASE Restore
  BY <1>16 DEF Restore, Goes
<1>17. CASE Unlock
  BY <1>17 DEF Unlock, Unlocks, Goes
<1>18. CASE Handle
  BY <1>18 DEF Handle
<1>19. CASE LockWinch
  BY <1>19 DEF LockWinch
<1>20. CASE GetWindowSize
  BY <1>20 DEF GetWindowSize
<1>21. CASE SetWindowSize
  BY <1>21 DEF SetWindowSize, Sent
<1>22. CASE WindowChanges
  BY <1>22 DEF WindowChanges, Handled
<1>23. CASE RemoteWrites
  BY <1>23 DEF RemoteWrites, InSession
<1>24. CASE RemoteDies
  BY <1>24 DEF RemoteDies, InSession
<1>25. CASE OtherOpens
  BY <1>25 DEF OtherOpens
<1>26. ASSUME NEW end \in {"out", "pty"}, RemoteCloses(end)
      PROVE  [WindowMirror!Next]_(WindowMirror!vars)
  BY <1>26 DEF RemoteCloses, InSession
<1>27. ASSUME NEW n \in {"STDOUT", "STDERR"}, ReaderLeaves(n)
      PROVE  [WindowMirror!Next]_(WindowMirror!vars)
  BY <1>27 DEF ReaderLeaves, InSession
<1> HIDE DEF TypeOK, SizesGrow, Active, Running, window, output, terminal, Streams, Numbers,
      TtyFd, Source, Target, Closed, WindowMirror!Next, WindowMirror!vars, WindowMirror!Change,
      WindowMirror!Copy, WindowMirror!Stop, WindowMirror!Drift
<1> QED BY <1>1, <1>2, <1>3, <1>4, <1>5, <1>6, <1>7, <1>8, <1>9, <1>10, <1>11, <1>12, <1>13,
      <1>14, <1>15, <1>16, <1>17, <1>18, <1>19, <1>20, <1>21, <1>22, <1>23, <1>24, <1>25, <1>26,
      <1>27
    DEF Next, Main, Transfer, Func, Winch, Rest

\* A step that changes nothing is no step of the mirror.
LEMMA MirrorStutter == ASSUME UNCHANGED vars PROVE UNCHANGED WindowMirror!vars
  BY DEF vars, output, terminal, window, WindowMirror!vars, Running, TtyFd

\* The size at the server only moves on to newer sizes of the window.
THEOREM WindowIsMirrored == Spec => WindowMirror!Spec
<1>1. Init => WindowMirror!Init
  BY DEF Init, WindowMirror!Init
<1>2. IInv /\ [Next]_vars => [WindowMirror!Next]_(WindowMirror!vars)
  BY MirrorStep, MirrorStutter DEF IInv
<1> QED BY <1>1, <1>2, Invariance, PTL DEF Spec, WindowMirror!Spec
-----------------------------------------------------------------------------
(* No change of the window is lost                                          *)

\* Until the handler is there the thread of the window has not run, and so has still
\* to take its mutex.
WindowWatched ==
  /\ NoChangeIsLost
  /\ winch.pc = "off" => ~winch.locked
  /\ main \in {"prepared", "created", "set", "started"} => winch.pc = "off"

\* Every action leaves the thread of the window awake or its size at the server.
LEMMA WatchStep ==
  ASSUME TypeOK, SizesGrow, WindowWatched, Next
  PROVE  WindowWatched'
<1> USE DEF TypeOK, WindowWatched, NoChangeIsLost, Running, window, output, terminal, TtyFd, Numbers, Streams,
      Source, Target
<1>1. CASE CreateHost
  BY <1>1 DEF CreateHost
<1>2. CASE CreateHostFails
  BY <1>2 DEF CreateHostFails
<1>3. CASE MakeRaw
  BY <1>3 DEF MakeRaw
<1>4. CASE Start
  BY <1>4 DEF Start, StartThreads, Started
<1>5. CASE WatchWindow
  BY <1>5 DEF WatchWindow
<1>6. CASE WaitForProcessExit
  BY <1>6 DEF WaitForProcessExit
<1>7. CASE RequestExitCode
  BY <1>7 DEF RequestExitCode
<1>8. CASE InputEnds
  BY <1>8 DEF InputEnds, Goes
<1>9. ASSUME NEW s \in Streams, Read(s)
      PROVE  WindowWatched'
  BY <1>9 DEF Read, Goes
<1>10. ASSUME NEW s \in Streams, ReadChunk(s)
      PROVE  WindowWatched'
  BY <1>10 DEF ReadChunk, Goes
<1>11. ASSUME NEW s \in Streams, ReadEnds(s)
      PROVE  WindowWatched'
  BY <1>11 DEF ReadEnds, Goes
<1>12. ASSUME NEW s \in Streams, WriteChunk(s)
      PROVE  WindowWatched'
  BY <1>12 DEF WriteChunk, Goes
<1>13. ASSUME NEW s \in Streams, WriteFails(s)
      PROVE  WindowWatched'
  BY <1>13 DEF WriteFails, Goes
<1>14. ASSUME NEW s \in Streams, CloseIn(s)
      PROVE  WindowWatched'
  BY <1>14 DEF CloseIn, Closed, Goes
<1>15. ASSUME NEW s \in Streams, CloseOut(s)
      PROVE  WindowWatched'
  BY <1>15 DEF CloseOut, Closed, Goes
<1>16. CASE Restore
  BY <1>16 DEF Restore, Goes
<1>17. CASE Unlock
  BY <1>17 DEF Unlock, Unlocks, Goes
<1>18. CASE Handle
  BY <1>18 DEF Handle
<1>19. CASE LockWinch
  BY <1>19 DEF LockWinch
<1>20. CASE GetWindowSize
  BY <1>20 DEF GetWindowSize
<1>21. CASE SetWindowSize
  BY <1>21 DEF SetWindowSize, Sent, SizesGrow, Active
<1>22. CASE WindowChanges
  BY <1>22 DEF WindowChanges, Handled, MainStates
<1>23. CASE RemoteWrites
  BY <1>23 DEF RemoteWrites, InSession
<1>24. CASE RemoteDies
  BY <1>24 DEF RemoteDies, InSession
<1>25. CASE OtherOpens
  BY <1>25 DEF OtherOpens
<1>26. ASSUME NEW end \in {"out", "pty"}, RemoteCloses(end)
      PROVE  WindowWatched'
  BY <1>26 DEF RemoteCloses, InSession
<1>27. ASSUME NEW n \in {"STDOUT", "STDERR"}, ReaderLeaves(n)
      PROVE  WindowWatched'
  BY <1>27 DEF ReaderLeaves, InSession
<1> HIDE DEF TypeOK, WindowWatched, NoChangeIsLost, Running, window, output, terminal, TtyFd, Numbers,
      Streams, Source, Target
<1> QED BY <1>1, <1>2, <1>3, <1>4, <1>5, <1>6, <1>7, <1>8, <1>9, <1>10, <1>11, <1>12, <1>13,
      <1>14, <1>15, <1>16, <1>17, <1>18, <1>19, <1>20, <1>21, <1>22, <1>23, <1>24, <1>25, <1>26,
      <1>27
    DEF Next, Main, Transfer, Func, Winch, Rest

LEMMA WatchStutter == ASSUME WindowWatched, UNCHANGED vars PROVE WindowWatched'
  BY DEF vars, output, terminal, window, WindowWatched, NoChangeIsLost, Running, TtyFd

\* The window's thread sleeps only on a size that has arrived at the server: what is left
\* of FollowsWindow is that threads and handlers run.
THEOREM NoChangeLost == Spec => []NoChangeIsLost
<1>1. Init => WindowWatched
  BY DEF Init, WindowWatched, NoChangeIsLost
<1>2. IInv /\ WindowWatched /\ [Next]_vars => WindowWatched'
  BY WatchStep, WatchStutter DEF IInv
<1>3. WindowWatched => NoChangeIsLost
  BY DEF WindowWatched
<1> QED BY <1>1, <1>2, <1>3, Invariance, PTL DEF Spec
=============================================================================
