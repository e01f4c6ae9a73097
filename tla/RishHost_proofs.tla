-------------------------- MODULE RishHost_proofs --------------------------
(* Theorems about RishHost, for all modes and numbers of chunks.             *)
EXTENDS RishHost, TLAPS

ChildRecord == [state : ChildStates, killed : BOOLEAN, opened : BOOLEAN,
                holds : SUBSET (Ends \cup {"pts"})]
ClientRecord == [alive : BOOLEAN, stdin : BOOLEAN, typed : Nat, input : Nat]

\* What has been started by the time createHost is at call.
Phases ==
  /\ call \in {"opening", "opened", "forked", "failed"} => \A s \in Streams : thread[s] = "off"
  /\ call = "inStarted" => thread["out"] = "off" /\ thread["err"] = "off"
  /\ call = "outStarted" \/ "err" \in tty => thread["err"] = "off"
  /\ \A s \in {"in", "err"} : thread[s] # "func"
  /\ call \in {"opening", "opened", "failed"} => child.state = "none"
  /\ child.state \in {"none", "forked"} => ~child.opened /\ "pts" \notin child.holds
  /\ ~client.alive => ~client.stdin

\* createHost has yet to start the thread of stream s.
Pending(s) ==
  /\ thread[s] = "off"
  /\ call \in {"opened", "forked", "inStarted", "outStarted"}
  /\ s = "err" => "err" \notin tty

\* The ends of a thread are open from OpenEnds on until the thread closes them, but
\* for the number that two threads share.
EndsAreKept ==
  /\ call = "opening" => /\ slot["ptmx"] = "none"
                         /\ slot["cIn"] = "own" /\ slot["cOut"] = "own"
                         /\ "err" \notin tty => slot["cErr"] = "own"
  /\ tty # {} /\ call \in {"opened", "forked"} => slot["ptmx"] = "own"
  /\ "out" \notin tty /\ call = "opened" => slot["outW"] = "own"
  /\ Shared /\ call \notin {"opening", "failed"} => slot["ptmx"] # "none"
  /\ \A s \in Streams :
       /\ Pending(s) \/ UsesSource(s) => slot[Source(s)] = "own" \/ (Shared /\ s = "out")
       /\ Pending(s) \/ UsesTarget(s) => slot[Target(s)] = "own" \/ (Shared /\ s = "in")

\* A reason to kill the shell, which does not go away.
OutputIsGivenUp ==
  \/ ~client.alive
  \/ IF "out" \in tty THEN HungUp ELSE "outW" \notin child.holds
  \/ Shared /\ ~client.stdin

\* A thread of the pseudo-terminal, or of standard output, stops for a reason.
KillIsDue ==
  /\ thread["out"] \in {"closeIn", "closeOut", "func"} => OutputIsGivenUp
  /\ Shared /\ thread["in"] \in {"closeIn", "closeOut", "done"} => OutputIsGivenUp
  /\ Shared /\ slot["ptmx"] \in {"free", "other"} => OutputIsGivenUp

\* The client cannot have all of the output any more.
Broken == ~client.alive \/ (Shared /\ slot["ptmx"] \in {"free", "other"})

\* The chunk in the buffer of standard output's thread.
InHand == IF thread["out"] \in {"write", "writing"} THEN 1 ELSE 0

\* A chunk is in one place, and in none only if the relay is broken.
Account ==
  /\ received + buf[OutChannel("out")] + InHand <= sent
  /\ Broken \/ received + buf[OutChannel("out")] + InHand = sent

IInv == TypeOK /\ Phases /\ EndsAreKept /\ KillIsDue /\ Account

-----------------------------------------------------------------------------
\* Initial states satisfy the invariant.
LEMMA InitIInv == Init => IInv
<1> USE DEF Init, ReadEnd, WriteEnd, ClientEnd, PipeEnds, ServerEnds, ClientEnds, Ends, Streams
<1>1. Init => TypeOK
  <2>1. Init => client \in ClientRecord /\ child \in ChildRecord
    BY DEF ClientRecord, ChildRecord, ChildStates
  <2>2. Init => /\ slot \in [Ends -> SlotStates] /\ thread \in [Streams -> ThreadStates]
                /\ buf \in [Channels -> 0 .. 1]
    BY DEF SlotStates, ThreadStates, Channels
  <2> QED BY <2>1, <2>2 DEF TypeOK, CallStates, ClientRecord, ChildRecord
<1>2. Init => Phases
  BY DEF Phases
<1>3. Init => EndsAreKept
  BY DEF EndsAreKept, Pending, UsesSource, UsesTarget
<1>4. Init => KillIsDue
  BY DEF KillIsDue
<1>5. Init => Account
  BY DEF Account, Broken, InHand, OutChannel, Channels
<1> QED BY <1>1, <1>2, <1>3, <1>4, <1>5 DEF IInv

\* What the client types keeps its record's type.
LEMMA ClientTypesStep == ASSUME TypeOK, ClientTypes PROVE client' \in ClientRecord
<1>1. client \in ClientRecord /\ client.typed + 1 \in Nat /\ client.input + 1 \in Nat
  BY DEF TypeOK, ClientRecord
<1>2. client' = [alive |-> client.alive, stdin |-> client.stdin,
                 typed |-> client.typed + 1, input |-> client.input + 1]
  BY <1>1 DEF ClientTypes, ClientRecord
<1> QED BY <1>1, <1>2 DEF ClientRecord

\* Every action keeps the types.
LEMMA TypeStep ==
  ASSUME TypeOK, Next
  PROVE  TypeOK'
<1> USE DEF TypeOK, CallStates, SlotStates, ThreadStates, Channels, ChildStates, ChildRecord,
      ClientRecord, InChannel, OutChannel, ReadEnd, WriteEnd, ClientEnd, PipeEnds, ServerEnds,
      ClientEnds, Ends, Streams
<1>1. CASE OpenEnds
  BY <1>1 DEF OpenEnds, Opened
<1>2. CASE OpenPtmxFails
  BY <1>2 DEF OpenPtmxFails
<1>3. CASE Fork
  BY <1>3 DEF Fork
<1>4. CASE ForkFails
  BY <1>4 DEF ForkFails
<1>5. CASE StartIn
  BY <1>5 DEF StartIn, StartTransfer, Closed, ChildsEnd
<1>6. CASE StartOut
  BY <1>6 DEF StartOut, StartTransfer, Closed, ChildsEnd
<1>7. CASE StartErr
  BY <1>7 DEF StartErr, StartTransfer, Closed, ChildsEnd
<1>8. ASSUME NEW s \in Streams, Read(s)
      PROVE  TypeOK'
  BY <1>8 DEF Read, Goes
<1>9. ASSUME NEW s \in Streams, ReadChunk(s)
      PROVE  TypeOK'
  BY <1>9 DEF ReadChunk, Goes
<1>10. ASSUME NEW s \in Streams, ReadEnds(s)
      PROVE  TypeOK'
  BY <1>10 DEF ReadEnds, Goes
<1>11. ASSUME NEW s \in Streams, Write(s)
      PROVE  TypeOK'
  BY <1>11 DEF Write, Goes
<1>12. ASSUME NEW s \in Streams, WriteChunk(s)
      PROVE  TypeOK'
  BY <1>12 DEF WriteChunk, WriteDone, NoReader, Goes
<1>13. ASSUME NEW s \in Streams, WriteFails(s)
      PROVE  TypeOK'
  BY <1>13 DEF WriteFails, NoReader, Goes
<1>14. ASSUME NEW s \in Streams, CloseIn(s)
      PROVE  TypeOK'
  BY <1>14 DEF CloseIn, CloseSource, Closed, Goes
<1>15. ASSUME NEW s \in Streams, CloseOut(s)
      PROVE  TypeOK'
  <2>1. thread' \in [Streams -> ThreadStates]
    BY <1>15 DEF CloseOut, HasFunction, Goes
  <2>2. slot' \in [Ends -> SlotStates]
    BY <1>15 DEF CloseOut, Closed
  <2> QED BY <1>15, <2>1, <2>2 DEF CloseOut
<1>16. ASSUME NEW s \in Streams, NEW keeps \in BOOLEAN, Kill(s, keeps)
      PROVE  TypeOK'
  BY <1>16 DEF Kill, Goes
<1>17. ASSUME NEW slave \in BOOLEAN, Exec(slave)
      PROVE  TypeOK'
  BY <1>17 DEF Exec, ClosedByExec
<1>18. ASSUME NEW slave \in BOOLEAN, SetupFails(slave)
      PROVE  TypeOK'
  BY <1>18 DEF SetupFails
<1>19. ASSUME NEW s \in {"out", "err"}, ShellWrites(s)
      PROVE  TypeOK'
  BY <1>19 DEF ShellWrites
<1>20. CASE ShellReads
  BY <1>20 DEF ShellReads
<1>21. CASE ShellClosesOut
  BY <1>21 DEF ShellClosesOut
<1>22. ASSUME NEW keeps \in BOOLEAN, ShellExits(keeps)
      PROVE  TypeOK'
  BY <1>22 DEF ShellExits
<1>23. CASE DescendantsExit
  BY <1>23 DEF DescendantsExit
<1>24. CASE WaitFor
  BY <1>24 DEF WaitFor
<1>25. CASE OtherForks
  BY <1>25 DEF OtherForks
<1>26. CASE OtherShellExits
  BY <1>26 DEF OtherShellExits
<1>27. ASSUME NEW e \in ServerEnds, OtherOpens(e)
      PROVE  TypeOK'
  BY <1>27 DEF OtherOpens
<1>28. CASE ClientTypes
  <2>1. client' \in ClientRecord
    BY <1>28, ClientTypesStep
  <2> QED BY <1>28, <2>1 DEF ClientTypes
<1>29. CASE ClientEndsInput
  BY <1>29 DEF ClientEndsInput
<1>30. CASE ClientDies
  BY <1>30 DEF ClientDies
<1> HIDE DEF TypeOK, CallStates, SlotStates, ThreadStates, Channels, ChildStates, ChildRecord,
      ClientRecord, InChannel, OutChannel, ReadEnd, WriteEnd, ClientEnd, PipeEnds, ServerEnds,
      ClientEnds, Ends, Streams
<1> QED BY <1>1, <1>2, <1>3, <1>4, <1>5, <1>6, <1>7, <1>8, <1>9, <1>10, <1>11, <1>12, <1>13,
      <1>14, <1>15, <1>16, <1>17, <1>18, <1>19, <1>20, <1>21, <1>22, <1>23, <1>24, <1>25, <1>26,
      <1>27, <1>28, <1>29, <1>30
    DEF Next, CreateHost, Transfer, Child, Rest

\* Every action keeps the progress of createHost and the threads in step.
LEMMA PhasesStep ==
  ASSUME TypeOK, Phases, Next
  PROVE  Phases'
<1> USE DEF TypeOK, Phases, ChildStates, ChildRecord, ClientRecord, ReadEnd, WriteEnd, ClientEnd,
      PipeEnds, ServerEnds, ClientEnds, Ends, Streams
<1>1. CASE OpenEnds
  BY <1>1 DEF OpenEnds, Opened
<1>2. CASE OpenPtmxFails
  BY <1>2 DEF OpenPtmxFails
<1>3. CASE Fork
  BY <1>3 DEF Fork
<1>4. CASE ForkFails
  BY <1>4 DEF ForkFails
<1>5. CASE StartIn
  BY <1>5 DEF StartIn, StartTransfer, Closed, ChildsEnd
<1>6. CASE StartOut
  BY <1>6 DEF StartOut, StartTransfer, Closed, ChildsEnd
<1>7. CASE StartErr
  BY <1>7 DEF StartErr, StartTransfer, Closed, ChildsEnd
<1>8. ASSUME NEW s \in Streams, Read(s)
      PROVE  Phases'
  BY <1>8 DEF Read, Goes
<1>9. ASSUME NEW s \in Streams, ReadChunk(s)
      PROVE  Phases'
  BY <1>9 DEF ReadChunk, Goes
<1>10. ASSUME NEW s \in Streams, ReadEnds(s)
      PROVE  Phases'
  BY <1>10 DEF ReadEnds, Goes
<1>11. ASSUME NEW s \in Streams, Write(s)
      PROVE  Phases'
  BY <1>11 DEF Write, Goes
<1>12. ASSUME NEW s \in Streams, WriteChunk(s)
      PROVE  Phases'
  BY <1>12 DEF WriteChunk, WriteDone, NoReader, Goes
<1>13. ASSUME NEW s \in Streams, WriteFails(s)
      PROVE  Phases'
  BY <1>13 DEF WriteFails, NoReader, Goes
<1>14. ASSUME NEW s \in Streams, CloseIn(s)
      PROVE  Phases'
  BY <1>14 DEF CloseIn, CloseSource, Closed, Goes
<1>15. ASSUME NEW s \in Streams, CloseOut(s)
      PROVE  Phases'
  BY <1>15 DEF CloseOut, HasFunction, Closed, Goes
<1>16. ASSUME NEW s \in Streams, NEW keeps \in BOOLEAN, Kill(s, keeps)
      PROVE  Phases'
  BY <1>16 DEF Kill, Goes
<1>17. ASSUME NEW slave \in BOOLEAN, Exec(slave)
      PROVE  Phases'
  BY <1>17 DEF Exec, ClosedByExec
<1>18. ASSUME NEW slave \in BOOLEAN, SetupFails(slave)
      PROVE  Phases'
  BY <1>18 DEF SetupFails
<1>19. ASSUME NEW s \in {"out", "err"}, ShellWrites(s)
      PROVE  Phases'
  BY <1>19 DEF ShellWrites
<1>20. CASE ShellReads
  BY <1>20 DEF ShellReads
<1>21. CASE ShellClosesOut
  BY <1>21 DEF ShellClosesOut
<1>22. ASSUME NEW keeps \in BOOLEAN, ShellExits(keeps)
      PROVE  Phases'
  BY <1>22 DEF ShellExits
<1>23. CASE DescendantsExit
  BY <1>23 DEF DescendantsExit
<1>24. CASE WaitFor
  BY <1>24 DEF WaitFor
<1>25. CASE OtherForks
  BY <1>25 DEF OtherForks
<1>26. CASE OtherShellExits
  BY <1>26 DEF OtherShellExits
<1>27. ASSUME NEW e \in ServerEnds, OtherOpens(e)
      PROVE  Phases'
  BY <1>27 DEF OtherOpens
<1>28. CASE ClientTypes
  BY <1>28 DEF ClientTypes
<1>29. CASE ClientEndsInput
  BY <1>29 DEF ClientEndsInput
<1>30. CASE ClientDies
  BY <1>30 DEF ClientDies
<1> HIDE DEF TypeOK, Phases, ChildStates, ChildRecord, ClientRecord, ReadEnd, WriteEnd, ClientEnd,
      PipeEnds, ServerEnds, ClientEnds, Ends, Streams
<1> QED BY <1>1, <1>2, <1>3, <1>4, <1>5, <1>6, <1>7, <1>8, <1>9, <1>10, <1>11, <1>12, <1>13,
      <1>14, <1>15, <1>16, <1>17, <1>18, <1>19, <1>20, <1>21, <1>22, <1>23, <1>24, <1>25, <1>26,
      <1>27, <1>28, <1>29, <1>30
    DEF Next, CreateHost, Transfer, Child, Rest

\* Every action keeps the ends.
LEMMA EndsStep ==
  ASSUME TypeOK, Phases, EndsAreKept, Next
  PROVE  EndsAreKept'
<1> USE DEF TypeOK, Phases, EndsAreKept, Pending, UsesSource, UsesTarget, Shared, Source, Target,
      ReadEnd, WriteEnd, ClientEnd, PipeEnds, ServerEnds, ClientEnds, Ends, Streams
<1>1. CASE OpenEnds
  BY <1>1 DEF OpenEnds, Opened
<1>2. CASE OpenPtmxFails
  BY <1>2 DEF OpenPtmxFails
<1>3. CASE Fork
  BY <1>3 DEF Fork
<1>4. CASE ForkFails
  BY <1>4 DEF ForkFails
<1>5. CASE StartIn
  BY <1>5 DEF StartIn, StartTransfer, Closed, ChildsEnd
<1>6. CASE StartOut
  BY <1>6 DEF StartOut, StartTransfer, Closed, ChildsEnd
<1>7. CASE StartErr
  BY <1>7 DEF StartErr, StartTransfer, Closed, ChildsEnd
<1>8. ASSUME NEW s \in Streams, Read(s)
      PROVE  EndsAreKept'
  BY <1>8 DEF Read, Goes
<1>9. ASSUME NEW s \in Streams, ReadChunk(s)
      PROVE  EndsAreKept'
  BY <1>9 DEF ReadChunk, Goes
<1>10. ASSUME NEW s \in Streams, ReadEnds(s)
      PROVE  EndsAreKept'
  BY <1>10 DEF ReadEnds, Goes
<1>11. ASSUME NEW s \in Streams, Write(s)
      PROVE  EndsAreKept'
  BY <1>11 DEF Write, Goes
<1>12. ASSUME NEW s \in Streams, WriteChunk(s)
      PROVE  EndsAreKept'
  BY <1>12 DEF WriteChunk, WriteDone, NoReader, Goes
<1>13. ASSUME NEW s \in Streams, WriteFails(s)
      PROVE  EndsAreKept'
  BY <1>13 DEF WriteFails, NoReader, Goes
<1>14. ASSUME NEW s \in Streams, CloseIn(s)
      PROVE  EndsAreKept'
  BY <1>14 DEF CloseIn, CloseSource, Closed, Goes
<1>15. ASSUME NEW s \in Streams, CloseOut(s)
      PROVE  EndsAreKept'
  BY <1>15 DEF CloseOut, HasFunction, Closed, Goes
<1>16. ASSUME NEW s \in Streams, NEW keeps \in BOOLEAN, Kill(s, keeps)
      PROVE  EndsAreKept'
  BY <1>16 DEF Kill, Goes
<1>17. ASSUME NEW slave \in BOOLEAN, Exec(slave)
      PROVE  EndsAreKept'
  BY <1>17 DEF Exec, ClosedByExec
<1>18. ASSUME NEW slave \in BOOLEAN, SetupFails(slave)
      PROVE  EndsAreKept'
  BY <1>18 DEF SetupFails
<1>19. ASSUME NEW s \in {"out", "err"}, ShellWrites(s)
      PROVE  EndsAreKept'
  BY <1>19 DEF ShellWrites
<1>20. CASE ShellReads
  BY <1>20 DEF ShellReads
<1>21. CASE ShellClosesOut
  BY <1>21 DEF ShellClosesOut
<1>22. ASSUME NEW keeps \in BOOLEAN, ShellExits(keeps)
      PROVE  EndsAreKept'
  BY <1>22 DEF ShellExits
<1>23. CASE DescendantsExit
  BY <1>23 DEF DescendantsExit
<1>24. CASE WaitFor
  BY <1>24 DEF WaitFor
<1>25. CASE OtherForks
  BY <1>25 DEF OtherForks
<1>26. CASE OtherShellExits
  BY <1>26 DEF OtherShellExits
<1>27. ASSUME NEW e \in ServerEnds, OtherOpens(e)
      PROVE  EndsAreKept'
  BY <1>27 DEF OtherOpens
<1>28. CASE ClientTypes
  BY <1>28 DEF ClientTypes
<1>29. CASE ClientEndsInput
  BY <1>29 DEF ClientEndsInput
<1>30. CASE ClientDies
  BY <1>30 DEF ClientDies
<1> HIDE DEF TypeOK, Phases, EndsAreKept, Pending, UsesSource, UsesTarget, Shared, Source, Target,
      ReadEnd, WriteEnd, ClientEnd, PipeEnds, ServerEnds, ClientEnds, Ends, Streams
<1> QED BY <1>1, <1>2, <1>3, <1>4, <1>5, <1>6, <1>7, <1>8, <1>9, <1>10, <1>11, <1>12, <1>13,
      <1>14, <1>15, <1>16, <1>17, <1>18, <1>19, <1>20, <1>21, <1>22, <1>23, <1>24, <1>25, <1>26,
      <1>27, <1>28, <1>29, <1>30
    DEF Next, CreateHost, Transfer, Child, Rest

\* Every action keeps the reasons to kill.
LEMMA KillStep ==
  ASSUME TypeOK, Phases, EndsAreKept, KillIsDue, Next
  PROVE  KillIsDue'
<1> USE DEF TypeOK, Phases, EndsAreKept, KillIsDue, OutputIsGivenUp, HungUp, Shared, Source,
      Target, UsesSource, UsesTarget, Writers, Held, ChildRecord, ClientRecord, ReadEnd, WriteEnd,
      ClientEnd, PipeEnds, ServerEnds, ClientEnds, Ends, Streams
<1>1. CASE OpenEnds
  BY <1>1 DEF OpenEnds, Opened
<1>2. CASE OpenPtmxFails
  BY <1>2 DEF OpenPtmxFails
<1>3. CASE Fork
  BY <1>3 DEF Fork
<1>4. CASE ForkFails
  BY <1>4 DEF ForkFails
<1>5. CASE StartIn
  BY <1>5 DEF StartIn, StartTransfer, Closed, ChildsEnd
<1>6. CASE StartOut
  BY <1>6 DEF StartOut, StartTransfer, Closed, ChildsEnd
<1>7. CASE StartErr
  BY <1>7 DEF StartErr, StartTransfer, Closed, ChildsEnd
<1>8. ASSUME NEW s \in Streams, Read(s)
      PROVE  KillIsDue'
  BY <1>8 DEF Read, Goes
<1>9. ASSUME NEW s \in Streams, ReadChunk(s)
      PROVE  KillIsDue'
  BY <1>9 DEF ReadChunk, Goes
<1>10. ASSUME NEW s \in Streams, ReadEnds(s)
      PROVE  KillIsDue'
  BY <1>10 DEF ReadEnds, Goes
<1>11. ASSUME NEW s \in Streams, Write(s)
      PROVE  KillIsDue'
  BY <1>11 DEF Write, Goes
<1>12. ASSUME NEW s \in Streams, WriteChunk(s)
      PROVE  KillIsDue'
  BY <1>12 DEF WriteChunk, WriteDone, NoReader, Goes
<1>13. ASSUME NEW s \in Streams, WriteFails(s)
      PROVE  KillIsDue'
  BY <1>13 DEF WriteFails, NoReader, Goes
<1>14. ASSUME NEW s \in Streams, CloseIn(s)
      PROVE  KillIsDue'
  BY <1>14 DEF CloseIn, CloseSource, Closed, Goes
<1>15. ASSUME NEW s \in Streams, CloseOut(s)
      PROVE  KillIsDue'
  BY <1>15 DEF CloseOut, HasFunction, Closed, Goes
<1>16. ASSUME NEW s \in Streams, NEW keeps \in BOOLEAN, Kill(s, keeps)
      PROVE  KillIsDue'
  BY <1>16 DEF Kill, Goes
<1>17. ASSUME NEW slave \in BOOLEAN, Exec(slave)
      PROVE  KillIsDue'
  BY <1>17 DEF Exec, ClosedByExec
<1>18. ASSUME NEW slave \in BOOLEAN, SetupFails(slave)
      PROVE  KillIsDue'
  BY <1>18 DEF SetupFails
<1>19. ASSUME NEW s \in {"out", "err"}, ShellWrites(s)
      PROVE  KillIsDue'
  BY <1>19 DEF ShellWrites
<1>20. CASE ShellReads
  BY <1>20 DEF ShellReads
<1>21. CASE ShellClosesOut
  BY <1>21 DEF ShellClosesOut
<1>22. ASSUME NEW keeps \in BOOLEAN, ShellExits(keeps)
      PROVE  KillIsDue'
  BY <1>22 DEF ShellExits
<1>23. CASE DescendantsExit
  BY <1>23 DEF DescendantsExit
<1>24. CASE WaitFor
  BY <1>24 DEF WaitFor
<1>25. CASE OtherForks
  BY <1>25 DEF OtherForks
<1>26. CASE OtherShellExits
  BY <1>26 DEF OtherShellExits
<1>27. ASSUME NEW e \in ServerEnds, OtherOpens(e)
      PROVE  KillIsDue'
  BY <1>27 DEF OtherOpens
<1>28. CASE ClientTypes
  BY <1>28 DEF ClientTypes
<1>29. CASE ClientEndsInput
  BY <1>29 DEF ClientEndsInput
<1>30. CASE ClientDies
  BY <1>30 DEF ClientDies
<1> HIDE DEF TypeOK, Phases, EndsAreKept, KillIsDue, OutputIsGivenUp, HungUp, Shared, Source,
      Target, UsesSource, UsesTarget, Writers, Held, ChildRecord, ClientRecord, ReadEnd, WriteEnd,
      ClientEnd, PipeEnds, ServerEnds, ClientEnds, Ends, Streams
<1> QED BY <1>1, <1>2, <1>3, <1>4, <1>5, <1>6, <1>7, <1>8, <1>9, <1>10, <1>11, <1>12, <1>13,
      <1>14, <1>15, <1>16, <1>17, <1>18, <1>19, <1>20, <1>21, <1>22, <1>23, <1>24, <1>25, <1>26,
      <1>27, <1>28, <1>29, <1>30
    DEF Next, CreateHost, Transfer, Child, Rest

\* Every action keeps account of the chunks.
LEMMA AccountStep ==
  ASSUME TypeOK, Phases, EndsAreKept, Account, Next
  PROVE  Account'
<1> USE DEF TypeOK, Phases, EndsAreKept, Account, Broken, InHand, Shared, OutChannel, InChannel,
      Channels, Source, Target, UsesSource, UsesTarget, ClientRecord, ReadEnd, WriteEnd,
      ClientEnd, PipeEnds, ServerEnds, ClientEnds, Ends, Streams
<1>1. CASE OpenEnds
  BY <1>1 DEF OpenEnds, Opened
<1>2. CASE OpenPtmxFails
  BY <1>2 DEF OpenPtmxFails
<1>3. CASE Fork
  BY <1>3 DEF Fork
<1>4. CASE ForkFails
  BY <1>4 DEF ForkFails
<1>5. CASE StartIn
  BY <1>5 DEF StartIn, StartTransfer, Closed, ChildsEnd
<1>6. CASE StartOut
  BY <1>6 DEF StartOut, StartTransfer, Closed, ChildsEnd
<1>7. CASE StartErr
  BY <1>7 DEF StartErr, StartTransfer, Closed, ChildsEnd
<1>8. ASSUME NEW s \in Streams, Read(s)
      PROVE  Account'
  BY <1>8 DEF Read, Goes
<1>9. ASSUME NEW s \in Streams, ReadChunk(s)
      PROVE  Account'
  BY <1>9 DEF ReadChunk, Goes
<1>10. ASSUME NEW s \in Streams, ReadEnds(s)
      PROVE  Account'
  BY <1>10 DEF ReadEnds, Goes
<1>11. ASSUME NEW s \in Streams, Write(s)
      PROVE  Account'
  BY <1>11 DEF Write, Goes
<1>12. ASSUME NEW s \in Streams, WriteChunk(s)
      PROVE  Account'
  BY <1>12 DEF WriteChunk, WriteDone, NoReader, Goes
<1>13. ASSUME NEW s \in Streams, WriteFails(s)
      PROVE  Account'
  BY <1>13 DEF WriteFails, NoReader, Goes
<1>14. ASSUME NEW s \in Streams, CloseIn(s)
      PROVE  Account'
  BY <1>14 DEF CloseIn, CloseSource, Closed, Goes
<1>15. ASSUME NEW s \in Streams, CloseOut(s)
      PROVE  Account'
  BY <1>15 DEF CloseOut, HasFunction, Closed, Goes
<1>16. ASSUME NEW s \in Streams, NEW keeps \in BOOLEAN, Kill(s, keeps)
      PROVE  Account'
  BY <1>16 DEF Kill, Goes
<1>17. ASSUME NEW slave \in BOOLEAN, Exec(slave)
      PROVE  Account'
  BY <1>17 DEF Exec, ClosedByExec
<1>18. ASSUME NEW slave \in BOOLEAN, SetupFails(slave)
      PROVE  Account'
  BY <1>18 DEF SetupFails
<1>19. ASSUME NEW s \in {"out", "err"}, ShellWrites(s)
      PROVE  Account'
  BY <1>19 DEF ShellWrites
<1>20. CASE ShellReads
  BY <1>20 DEF ShellReads
<1>21. CASE ShellClosesOut
  BY <1>21 DEF ShellClosesOut
<1>22. ASSUME NEW keeps \in BOOLEAN, ShellExits(keeps)
      PROVE  Account'
  BY <1>22 DEF ShellExits
<1>23. CASE DescendantsExit
  BY <1>23 DEF DescendantsExit
<1>24. CASE WaitFor
  BY <1>24 DEF WaitFor
<1>25. CASE OtherForks
  BY <1>25 DEF OtherForks
<1>26. CASE OtherShellExits
  BY <1>26 DEF OtherShellExits
<1>27. ASSUME NEW e \in ServerEnds, OtherOpens(e)
      PROVE  Account'
  BY <1>27 DEF OtherOpens
<1>28. CASE ClientTypes
  BY <1>28 DEF ClientTypes
<1>29. CASE ClientEndsInput
  BY <1>29 DEF ClientEndsInput
<1>30. CASE ClientDies
  BY <1>30 DEF ClientDies
<1> HIDE DEF TypeOK, Phases, EndsAreKept, Account, Broken, InHand, Shared, OutChannel, InChannel,
      Channels, Source, Target, UsesSource, UsesTarget, ClientRecord, ReadEnd, WriteEnd,
      ClientEnd, PipeEnds, ServerEnds, ClientEnds, Ends, Streams
<1> QED BY <1>1, <1>2, <1>3, <1>4, <1>5, <1>6, <1>7, <1>8, <1>9, <1>10, <1>11, <1>12, <1>13,
      <1>14, <1>15, <1>16, <1>17, <1>18, <1>19, <1>20, <1>21, <1>22, <1>23, <1>24, <1>25, <1>26,
      <1>27, <1>28, <1>29, <1>30
    DEF Next, CreateHost, Transfer, Child, Rest

\* Steps that change nothing keep the invariant.
LEMMA StutterIInv == ASSUME IInv, UNCHANGED vars PROVE IInv'
  BY DEF vars, IInv, TypeOK, Phases, EndsAreKept, KillIsDue, Account, Pending, UsesSource, UsesTarget,
         OutputIsGivenUp, HungUp, Shared, Source, Target, Broken, InHand, OutChannel

\* The invariant holds always.
THEOREM Invariance == Spec => []IInv
<1>1. IInv /\ [Next]_vars => IInv'
  BY StutterIInv, TypeStep, PhasesStep, EndsStep, KillStep, AccountStep DEF IInv
<1> QED BY <1>1, InitIInv, PTL DEF Spec

\* Every variable keeps its type.
THEOREM TypeCorrect == Spec => []TypeOK
  BY Invariance, PTL DEF IInv

\* No thread uses a number that is no longer its own file's, but for the shared one.
THEOREM FilesAreKept == Spec => []ThreadsKeepTheirFiles
<1>1. IInv => ThreadsKeepTheirFiles
  BY DEF IInv, EndsAreKept, ThreadsKeepTheirFiles
<1> QED BY <1>1, Invariance, PTL

-----------------------------------------------------------------------------
(* The shell is not killed while it is of use                               *)

\* The shell is killed by the thread of standard output, which has a reason.
LEMMA KillIsJust ==
  ASSUME TypeOK, Phases, KillIsDue, Next
  PROVE  child.killed' /\ ~child.killed => OutputIsGivenUp
<1> USE DEF TypeOK, Phases, KillIsDue, ChildStates, ChildRecord, ReadEnd, WriteEnd, ClientEnd,
      PipeEnds, ServerEnds, ClientEnds, Ends, Streams
<1>1. CASE OpenEnds
  BY <1>1 DEF OpenEnds, Opened
<1>2. CASE OpenPtmxFails
  BY <1>2 DEF OpenPtmxFails
<1>3. CASE Fork
  BY <1>3 DEF Fork
<1>4. CASE ForkFails
  BY <1>4 DEF ForkFails
<1>5. CASE StartIn
  BY <1>5 DEF StartIn, StartTransfer, Closed, ChildsEnd
<1>6. CASE StartOut
  BY <1>6 DEF StartOut, StartTransfer, Closed, ChildsEnd
<1>7. CASE StartErr
  BY <1>7 DEF StartErr, StartTransfer, Closed, ChildsEnd
<1>8. ASSUME NEW s \in Streams, Read(s)
      PROVE  child.killed' /\ ~child.killed => OutputIsGivenUp
  BY <1>8 DEF Read, Goes
<1>9. ASSUME NEW s \in Streams, ReadChunk(s)
      PROVE  child.killed' /\ ~child.killed => OutputIsGivenUp
  BY <1>9 DEF ReadChunk, Goes
<1>10. ASSUME NEW s \in Streams, ReadEnds(s)
      PROVE  child.killed' /\ ~child.killed => OutputIsGivenUp
  BY <1>10 DEF ReadEnds, Goes
<1>11. ASSUME NEW s \in Streams, Write(s)
      PROVE  child.killed' /\ ~child.killed => OutputIsGivenUp
  BY <1>11 DEF Write, Goes
<1>12. ASSUME NEW s \in Streams, WriteChunk(s)
      PROVE  child.killed' /\ ~child.killed => OutputIsGivenUp
  BY <1>12 DEF WriteChunk, WriteDone, NoReader, Goes
<1>13. ASSUME NEW s \in Streams, WriteFails(s)
      PROVE  child.killed' /\ ~child.killed => OutputIsGivenUp
  BY <1>13 DEF WriteFails, NoReader, Goes
<1>14. ASSUME NEW s \in Streams, CloseIn(s)
      PROVE  child.killed' /\ ~child.killed => OutputIsGivenUp
  BY <1>14 DEF CloseIn, CloseSource, Closed, Goes
<1>15. ASSUME NEW s \in Streams, CloseOut(s)
      PROVE  child.killed' /\ ~child.killed => OutputIsGivenUp
  BY <1>15 DEF CloseOut, HasFunction, Closed, Goes
<1>16. ASSUME NEW s \in Streams, NEW keeps \in BOOLEAN, Kill(s, keeps)
      PROVE  child.killed' /\ ~child.killed => OutputIsGivenUp
  BY <1>16 DEF Kill, Goes
<1>17. ASSUME NEW slave \in BOOLEAN, Exec(slave)
      PROVE  child.killed' /\ ~child.killed => OutputIsGivenUp
  BY <1>17 DEF Exec, ClosedByExec
<1>18. ASSUME NEW slave \in BOOLEAN, SetupFails(slave)
      PROVE  child.killed' /\ ~child.killed => OutputIsGivenUp
  BY <1>18 DEF SetupFails
<1>19. ASSUME NEW s \in {"out", "err"}, ShellWrites(s)
      PROVE  child.killed' /\ ~child.killed => OutputIsGivenUp
  BY <1>19 DEF ShellWrites
<1>20. CASE ShellReads
  BY <1>20 DEF ShellReads
<1>21. CASE ShellClosesOut
  BY <1>21 DEF ShellClosesOut
<1>22. ASSUME NEW keeps \in BOOLEAN, ShellExits(keeps)
      PROVE  child.killed' /\ ~child.killed => OutputIsGivenUp
  BY <1>22 DEF ShellExits
<1>23. CASE DescendantsExit
  BY <1>23 DEF DescendantsExit
<1>24. CASE WaitFor
  BY <1>24 DEF WaitFor
<1>25. CASE OtherForks
  BY <1>25 DEF OtherForks
<1>26. CASE OtherShellExits
  BY <1>26 DEF OtherShellExits
<1>27. ASSUME NEW e \in ServerEnds, OtherOpens(e)
      PROVE  child.killed' /\ ~child.killed => OutputIsGivenUp
  BY <1>27 DEF OtherOpens
<1>28. CASE ClientTypes
  BY <1>28 DEF ClientTypes
<1>29. CASE ClientEndsInput
  BY <1>29 DEF ClientEndsInput
<1>30. CASE ClientDies
  BY <1>30 DEF ClientDies
<1> HIDE DEF TypeOK, Phases, KillIsDue, ChildStates, ChildRecord, ReadEnd, WriteEnd, ClientEnd,
      PipeEnds, ServerEnds, ClientEnds, Ends, Streams
<1> QED BY <1>1, <1>2, <1>3, <1>4, <1>5, <1>6, <1>7, <1>8, <1>9, <1>10, <1>11, <1>12, <1>13,
      <1>14, <1>15, <1>16, <1>17, <1>18, <1>19, <1>20, <1>21, <1>22, <1>23, <1>24, <1>25, <1>26,
      <1>27, <1>28, <1>29, <1>30
    DEF Next, CreateHost, Transfer, Child, Rest

\* No shell is killed whose client lives, unless it has given up its standard output or
\* the shared pseudo-terminal has lost its input.
THEOREM LiveAreSpared == Spec => KillSparesTheLive
<1> DEFINE Reason == \/ ~client.alive
                     \/ ShellEnd("out") \notin child.holds
                     \/ Shared /\ ~client.stdin
<1>1. OutputIsGivenUp => Reason
  <2>1. ShellEnd("out") = IF "out" \in tty THEN "pts" ELSE "outW"
    BY DEF ShellEnd, WriteEnd
  <2> QED BY <2>1 DEF OutputIsGivenUp, HungUp
<1>2. IInv /\ Next => (child.killed' /\ ~child.killed => Reason)
  BY <1>1, KillIsJust DEF IInv
<1>3. IInv /\ [Next]_vars => [child.killed' /\ ~child.killed => Reason]_vars
  BY <1>2
<1> QED BY <1>3, Invariance, PTL DEF Spec, KillSparesTheLive

-----------------------------------------------------------------------------
(* Standard output is a relay                                               *)

\* Every action is a step of the relay or none.
LEMMA RelayStep ==
  ASSUME TypeOK, Phases, EndsAreKept, Account, Next
  PROVE  [OutRelay!Next]_(OutRelay!vars)
<1> USE DEF TypeOK, Phases, EndsAreKept, Account, Broken, InHand, Shared, OutChannel, InChannel,
      ShellEnd, Source, Target, Channels, UsesSource, UsesTarget, Writers, HungUp, Held, Pending,
      ChildRecord, ClientRecord, ChildStates, CallStates, SlotStates, OutRelay!Next,
      OutRelay!vars, OutRelay!Send, OutRelay!Receive, OutRelay!CloseWriters, OutRelay!Break,
      OutRelay!End, ReadEnd, WriteEnd, ClientEnd, PipeEnds, ServerEnds, ClientEnds, Ends, Streams
<1>1. CASE OpenEnds
  BY <1>1 DEF OpenEnds, Opened
<1>2. CASE OpenPtmxFails
  BY <1>2 DEF OpenPtmxFails
<1>3. CASE Fork
  BY <1>3 DEF Fork
<1>4. CASE ForkFails
  BY <1>4 DEF ForkFails
<1>5. CASE StartIn
  BY <1>5 DEF StartIn, StartTransfer, Closed, ChildsEnd
<1>6. CASE StartOut
  BY <1>6 DEF StartOut, StartTransfer, Closed, ChildsEnd
<1>7. CASE StartErr
  BY <1>7 DEF StartErr, StartTransfer, Closed, ChildsEnd
<1>8. ASSUME NEW s \in Streams, Read(s)
      PROVE  [OutRelay!Next]_(OutRelay!vars)
  BY <1>8 DEF Read, Goes
<1>9. ASSUME NEW s \in Streams, ReadChunk(s)
      PROVE  [OutRelay!Next]_(OutRelay!vars)
  BY <1>9 DEF ReadChunk, Goes
<1>10. ASSUME NEW s \in Streams, ReadEnds(s)
      PROVE  [OutRelay!Next]_(OutRelay!vars)
  BY <1>10 DEF ReadEnds, Goes
<1>11. ASSUME NEW s \in Streams, Write(s)
      PROVE  [OutRelay!Next]_(OutRelay!vars)
  BY <1>11 DEF Write, Goes
<1>12. ASSUME NEW s \in Streams, WriteChunk(s)
      PROVE  [OutRelay!Next]_(OutRelay!vars)
  BY <1>12 DEF WriteChunk, WriteDone, NoReader, Goes
<1>13. ASSUME NEW s \in Streams, WriteFails(s)
      PROVE  [OutRelay!Next]_(OutRelay!vars)
  BY <1>13 DEF WriteFails, NoReader, Goes
<1>14. ASSUME NEW s \in Streams, CloseIn(s)
      PROVE  [OutRelay!Next]_(OutRelay!vars)
  BY <1>14 DEF CloseIn, CloseSource, Closed, Goes
<1>15. ASSUME NEW s \in Streams, CloseOut(s)
      PROVE  [OutRelay!Next]_(OutRelay!vars)
  BY <1>15 DEF CloseOut, HasFunction, Closed, Goes
<1>16. ASSUME NEW s \in Streams, NEW keeps \in BOOLEAN, Kill(s, keeps)
      PROVE  [OutRelay!Next]_(OutRelay!vars)
  BY <1>16 DEF Kill, Goes
<1>17. ASSUME NEW slave \in BOOLEAN, Exec(slave)
      PROVE  [OutRelay!Next]_(OutRelay!vars)
  BY <1>17 DEF Exec, ClosedByExec
<1>18. ASSUME NEW slave \in BOOLEAN, SetupFails(slave)
      PROVE  [OutRelay!Next]_(OutRelay!vars)
  BY <1>18 DEF SetupFails
<1>19. ASSUME NEW s \in {"out", "err"}, ShellWrites(s)
      PROVE  [OutRelay!Next]_(OutRelay!vars)
  BY <1>19 DEF ShellWrites
<1>20. CASE ShellReads
  BY <1>20 DEF ShellReads
<1>21. CASE ShellClosesOut
  BY <1>21 DEF ShellClosesOut
<1>22. ASSUME NEW keeps \in BOOLEAN, ShellExits(keeps)
      PROVE  [OutRelay!Next]_(OutRelay!vars)
  BY <1>22 DEF ShellExits
<1>23. CASE DescendantsExit
  BY <1>23 DEF DescendantsExit
<1>24. CASE WaitFor
  BY <1>24 DEF WaitFor
<1>25. CASE OtherForks
  BY <1>25 DEF OtherForks
<1>26. CASE OtherShellExits
  BY <1>26 DEF OtherShellExits
<1>27. ASSUME NEW e \in ServerEnds, OtherOpens(e)
      PROVE  [OutRelay!Next]_(OutRelay!vars)
  BY <1>27 DEF OtherOpens
<1>28. CASE ClientTypes
  BY <1>28 DEF ClientTypes
<1>29. CASE ClientEndsInput
  BY <1>29 DEF ClientEndsInput
<1>30. CASE ClientDies
  BY <1>30 DEF ClientDies
<1> HIDE DEF TypeOK, Phases, EndsAreKept, Account, Broken, InHand, Shared, OutChannel, InChannel,
      ShellEnd, Source, Target, Channels, UsesSource, UsesTarget, Writers, HungUp, Held, Pending,
      ChildRecord, ClientRecord, ChildStates, CallStates, SlotStates, OutRelay!Next,
      OutRelay!vars, OutRelay!Send, OutRelay!Receive, OutRelay!CloseWriters, OutRelay!Break,
      OutRelay!End, ReadEnd, WriteEnd, ClientEnd, PipeEnds, ServerEnds, ClientEnds, Ends, Streams
<1> QED BY <1>1, <1>2, <1>3, <1>4, <1>5, <1>6, <1>7, <1>8, <1>9, <1>10, <1>11, <1>12, <1>13,
      <1>14, <1>15, <1>16, <1>17, <1>18, <1>19, <1>20, <1>21, <1>22, <1>23, <1>24, <1>25, <1>26,
      <1>27, <1>28, <1>29, <1>30
    DEF Next, CreateHost, Transfer, Child, Rest

\* A step that changes nothing is no step of the relay.
LEMMA RelayStutter == ASSUME UNCHANGED vars PROVE UNCHANGED OutRelay!vars
  BY DEF vars, OutRelay!vars, Writers, Held, HungUp, Shared, Source, Target

\* What the shell writes to standard output reaches the client's pipe, which is closed
\* when all of it has, or the relay is broken.
THEOREM OutputIsRelayed == Spec => RelaysOutput
<1>1. Init => OutRelay!Init
  BY DEF Init, OutRelay!Init, Streams, Ends, ServerEnds
<1>2. IInv /\ [Next]_vars => [OutRelay!Next]_(OutRelay!vars)
  BY RelayStep, RelayStutter DEF IInv
<1> QED BY <1>1, <1>2, Invariance, PTL DEF Spec, RelaysOutput, OutRelay!Spec
-----------------------------------------------------------------------------
(* No descriptor is left                                                    *)

\* Only what OpenEnds opened or the client sent is ever open; a thread that is past a
\* close has closed that end, and where it was started the child's end is closed.
EndsAreClosed ==
  /\ \A e \in Ends : slot[e] = "own" =>
       e \in Opened \cup {"cIn", "cOut"} \cup (IF "err" \in tty THEN {} ELSE {"cErr"})
  /\ \A s \in Streams :
       /\ thread[s] \in {"closeOut", "func", "done"} => slot[Source(s)] # "own"
       /\ thread[s] \in {"func", "done"} => slot[Target(s)] # "own"
       /\ thread[s] # "off" /\ s \notin tty => slot[ChildsEnd(s)] # "own"
  /\ call \in {"inStarted", "outStarted", "returned"} => thread["in"] # "off"
  /\ call \in {"outStarted", "returned"} => thread["out"] # "off"
  /\ call = "returned" /\ "err" \notin tty => thread["err"] # "off"

\* Every action keeps the closed ends closed.
LEMMA ClosedStep ==
  ASSUME TypeOK, Phases, EndsAreClosed, Next
  PROVE  EndsAreClosed'
<1> USE DEF TypeOK, Phases, EndsAreClosed, Opened, ChildsEnd, Source, Target,
      ReadEnd, WriteEnd, ClientEnd, PipeEnds, ServerEnds, ClientEnds, Ends, Streams
<1>1. CASE OpenEnds
  BY <1>1 DEF OpenEnds
<1>2. CASE OpenPtmxFails
  BY <1>2 DEF OpenPtmxFails
<1>3. CASE Fork
  BY <1>3 DEF Fork
<1>4. CASE ForkFails
  BY <1>4 DEF ForkFails
<1>5. CASE StartIn
  BY <1>5 DEF StartIn, StartTransfer, Closed
<1>6. CASE StartOut
  BY <1>6 DEF StartOut, StartTransfer, Closed
<1>7. CASE StartErr
  BY <1>7 DEF StartErr, StartTransfer, Closed
<1>8. ASSUME NEW s \in Streams, Read(s)
      PROVE  EndsAreClosed'
  BY <1>8 DEF Read, Goes
<1>9. ASSUME NEW s \in Streams, ReadChunk(s)
      PROVE  EndsAreClosed'
  BY <1>9 DEF ReadChunk, Goes
<1>10. ASSUME NEW s \in Streams, ReadEnds(s)
      PROVE  EndsAreClosed'
  BY <1>10 DEF ReadEnds, Goes
<1>11. ASSUME NEW s \in Streams, Write(s)
      PROVE  EndsAreClosed'
  BY <1>11 DEF Write, Goes
<1>12. ASSUME NEW s \in Streams, WriteChunk(s)
      PROVE  EndsAreClosed'
  BY <1>12 DEF WriteChunk, WriteDone, NoReader, Goes
<1>13. ASSUME NEW s \in Streams, WriteFails(s)
      PROVE  EndsAreClosed'
  BY <1>13 DEF WriteFails, NoReader, Goes
<1>14. ASSUME NEW s \in Streams, CloseIn(s)
      PROVE  EndsAreClosed'
  BY <1>14 DEF CloseIn, CloseSource, Closed, Goes
<1>15. ASSUME NEW s \in Streams, CloseOut(s)
      PROVE  EndsAreClosed'
  BY <1>15 DEF CloseOut, HasFunction, Closed, Goes
<1>16. ASSUME NEW s \in Streams, NEW keeps \in BOOLEAN, Kill(s, keeps)
      PROVE  EndsAreClosed'
  BY <1>16 DEF Kill, Goes
<1>17. ASSUME NEW slave \in BOOLEAN, Exec(slave)
      PROVE  EndsAreClosed'
  BY <1>17 DEF Exec, ClosedByExec
<1>18. ASSUME NEW slave \in BOOLEAN, SetupFails(slave)
      PROVE  EndsAreClosed'
  BY <1>18 DEF SetupFails
<1>19. ASSUME NEW s \in {"out", "err"}, ShellWrites(s)
      PROVE  EndsAreClosed'
  BY <1>19 DEF ShellWrites
<1>20. CASE ShellReads
  BY <1>20 DEF ShellReads
<1>21. CASE ShellClosesOut
  BY <1>21 DEF ShellClosesOut
<1>22. ASSUME NEW keeps \in BOOLEAN, ShellExits(keeps)
      PROVE  EndsAreClosed'
  BY <1>22 DEF ShellExits
<1>23. CASE DescendantsExit
  BY <1>23 DEF DescendantsExit
<1>24. CASE WaitFor
  BY <1>24 DEF WaitFor
<1>25. CASE OtherForks
  BY <1>25 DEF OtherForks
<1>26. CASE OtherShellExits
  BY <1>26 DEF OtherShellExits
<1>27. ASSUME NEW e \in ServerEnds, OtherOpens(e)
      PROVE  EndsAreClosed'
  BY <1>27 DEF OtherOpens
<1>28. CASE ClientTypes
  BY <1>28 DEF ClientTypes
<1>29. CASE ClientEndsInput
  BY <1>29 DEF ClientEndsInput
<1>30. CASE ClientDies
  BY <1>30 DEF ClientDies
<1> HIDE DEF TypeOK, Phases, EndsAreClosed, Opened, ChildsEnd, Source, Target,
      ReadEnd, WriteEnd, ClientEnd, PipeEnds, ServerEnds, ClientEnds, Ends, Streams
<1> QED BY <1>1, <1>2, <1>3, <1>4, <1>5, <1>6, <1>7, <1>8, <1>9, <1>10, <1>11, <1>12, <1>13,
      <1>14, <1>15, <1>16, <1>17, <1>18, <1>19, <1>20, <1>21, <1>22, <1>23, <1>24, <1>25, <1>26,
      <1>27, <1>28, <1>29, <1>30
    DEF Next, CreateHost, Transfer, Child, Rest

LEMMA ClosedStutter == ASSUME EndsAreClosed, UNCHANGED vars PROVE EndsAreClosed'
  BY DEF vars, EndsAreClosed, Opened, Source, Target

\* A session whose threads have ended has no descriptor open: what is left of
\* SessionIsReleased is that the threads end.
THEOREM NothingStaysOpen == Spec => []NothingIsLeft
<1>1. Init => EndsAreClosed
  BY DEF Init, EndsAreClosed, Ends, ServerEnds, PipeEnds, ClientEnds, Streams
<1>2. IInv /\ EndsAreClosed /\ [Next]_vars => EndsAreClosed'
  BY ClosedStep, ClosedStutter DEF IInv
<1>3. IInv /\ EndsAreClosed => NothingIsLeft
  <2> SUFFICES ASSUME IInv, EndsAreClosed, call = "returned",
                      \A s \in Streams : thread[s] \in {"off", "func", "done"},
                      NEW e \in Ends, slot[e] = "own"
               PROVE  e = "ptmx" /\ tty = {"err"}
    BY DEF NothingIsLeft
  <2>1. tty \subseteq Streams
    BY ModesAssumption DEF IInv, TypeOK
  <2>2. \A s \in Streams : (s = "err" /\ "err" \in tty)
          \/ /\ slot[Source(s)] # "own" /\ slot[Target(s)] # "own"
             /\ s \notin tty => slot[ChildsEnd(s)] # "own"
    BY DEF EndsAreClosed, Streams
  <2>3. slot["cIn"] # "own" /\ slot["cOut"] # "own"
    BY <2>2 DEF Source, Target, ClientEnd, Streams
  <2>4. "err" \notin tty => slot["cErr"] # "own"
    BY <2>2 DEF Target, ClientEnd, Streams
  <2>5. "in" \in tty \/ "out" \in tty => slot["ptmx"] # "own"
    BY <2>2 DEF Source, Target, Streams
  <2>6. ASSUME NEW s \in Streams \ tty PROVE slot[ReadEnd[s]] # "own" /\ slot[WriteEnd[s]] # "own"
    BY <2>2, <2>6 DEF Source, Target, ChildsEnd, ReadEnd, WriteEnd, Streams
  <2>7. e = "ptmx"
    BY <2>3, <2>4, <2>6 DEF EndsAreClosed, Opened
  <2>8. tty # {}
    BY <2>7, <2>6 DEF EndsAreClosed, Opened, ReadEnd, WriteEnd, Streams
  <2> QED BY <2>1, <2>5, <2>7, <2>8 DEF Streams
<1> QED BY <1>1, <1>2, <1>3, Invariance, PTL DEF Spec
=============================================================================
