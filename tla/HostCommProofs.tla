--------------------------- MODULE HostCommProofs ---------------------------
(***************************************************************************)
(* Proofs about HostComm for every bound, quota of the pipe and set of     *)
(* faulty handlers.                                                        *)
(* The inductive invariant comes in layers: each part is proved from the   *)
(* ones before it.                                                         *)
(***************************************************************************)
EXTENDS HostComm, SequenceTheorems, TLAPS

\* A message is in the hands of the read loop exactly while it handles one.
LoopInv ==
  /\ srv \in {"replying", "notifying"} => Len(cur) = 1
  /\ srv \in {"waiting", "reading", "stopped", "faulted", "garbled"} => cur = <<>>
  /\ srv = "replying" => cur[1] = "INIT"
  /\ srv = "waiting" => ~busy
  /\ srv = "dead" => ~hostOpen

\* The engine's phase fixes what it has opened and written: INIT first, and
\* an error at once or never.
EngineInv ==
  /\ phase \in {"suspended", "starting"} =>
       conn = "none" /\ ~mPipe /\ sent = <<>>
  /\ mPipe => conn = "open" /\ Len(sent) >= 1
  /\ conn = "none" => srv \in {"waiting", "faulted", "dead"} /\ toEngine = <<>>
  /\ \A i \in 1..Len(sent) : (sent[i] = "INIT") <=> (i = 1)
  /\ phase = "handshake" => mPipe /\ Len(sent) = 1
  /\ phase = "loading" => Len(sent) <= 1
  /\ \A i \in 1..Len(sent) : sent[i] = "TRACER_ERROR" =>
       /\ i = 2 /\ i = Len(sent)
       /\ phase \in {"reporting", "exited", "crashed", "killed"}
  /\ phase = "reporting" => mPipe
  /\ phase \in {"reporting", "exited"} => Len(sent) = 2 /\ sent[2] = "TRACER_ERROR"
  /\ SuspendedLaunch /\ (phase = "starting" \/ Len(sent) >= 1) => subscribed = Events

\* The loop is through with the first n messages of sent, and cur and toHost are
\* adjacent pieces of it from there on.  Nothing of sent is missing behind them
\* while both ends are open, and neither after an exit with an error.  A loop that
\* has met a part of a message does not look at toHost any more.
Handled(n) ==
  /\ n + Len(cur) + Len(toHost) <= Len(sent)
  /\ \A i \in 1..Len(cur) : cur[i] = sent[n + i]
  /\ srv # "garbled" => \A i \in 1..Len(toHost) : toHost[i] = sent[n + Len(cur) + i]
  /\ (mPipe \/ phase = "exited") /\ hostOpen /\ srv # "garbled" =>
       n + Len(cur) + Len(toHost) = Len(sent)
  /\ busy => n + Len(cur) >= 1

\* Of the n messages the loop is through with, the application has heard the last
\* ones, INIT apart: what it has heard once it goes on hearing.  With handlers
\* attached before the resume it has heard all of them.
Heard(n) ==
  /\ Len(raised) <= n /\ (SuspendedLaunch => Len(raised) = n)
  /\ \A i \in 1..Len(raised) :
       /\ Hears(raised[i])
       /\ raised[i] = sent[n - Len(raised) + i] \/ (i = 1 /\ raised[i] = "INIT")

\* The one INIT of the session is the first message the loop takes.
DeliveryInv ==
  /\ \E n \in Nat : Handled(n) /\ Heard(n)
  /\ srv = "replying" => ~busy

\* After the disconnection there is nothing left to raise.
DisconnectInv ==
  /\ disc => /\ srv \in {"stopped", "dead"} /\ cur = <<>> /\ toHost = <<>>
             /\ conn = "closed" \/ ~hostOpen
  /\ ~hostOpen => toHost = <<>>

\* A reply is only written in the one handshake of the session.
HandshakeInv ==
  /\ mInitialized => busy /\ toEngine = <<>>
  /\ Len(toEngine) <= 1
  /\ toEngine # <<>> => busy /\ ~mInitialized /\ conn = "open"
  /\ postedFault => /\ ~mInitialized /\ toEngine = <<>>
                    /\ ~hostOpen \/ conn = "closed"

\* The inductive invariant.
IInv ==
  TypeOK /\ LoopInv /\ EngineInv /\ DisconnectInv /\ DeliveryInv /\ HandshakeInv

-----------------------------------------------------------------------------
(* Closing an end of the pipe.                                             *)

\* What is left of a queue when the writer goes is a beginning of it, and all
\* of it if every write had completed.
LEMMA AcceptedPrefix ==
  ASSUME NEW S, NEW q \in Seq(S)
  PROVE  /\ Accepted(q) \in Seq(S)
         /\ Len(Accepted(q)) <= Len(q) /\ Len(Accepted(q)) <= PipeQuota
         /\ Len(q) <= PipeQuota => Len(Accepted(q)) = Len(q)
         /\ \A i \in 1..Len(Accepted(q)) : Accepted(q)[i] = q[i]
         /\ q = <<>> => Accepted(q) = <<>>
<1> DEFINE n == IF Len(q) < PipeQuota THEN Len(q) ELSE PipeQuota
<1>1. n \in 0..Len(q) /\ n <= PipeQuota /\ (Len(q) <= PipeQuota => n = Len(q))
  BY QuotaAssumption
<1>2. Accepted(q) = SubSeq(q, 1, n)
  BY DEF Accepted
<1>3. /\ SubSeq(q, 1, n) \in Seq(S) /\ Len(SubSeq(q, 1, n)) = n
      /\ \A i \in 1..n : SubSeq(q, 1, n)[i] = q[i]
  <2> HIDE DEF n
  <2> QED BY <1>1
<1> QED BY <1>1, <1>2, <1>3

-----------------------------------------------------------------------------
(* The steps of the session, sorted by what they do to the pipe: every     *)
(* proof below goes through these cases.                                   *)

allVars == <<phase, mPipe, mInitialized, conn, hostOpen, toHost, cut, toEngine, srv, busy,
             cur, subscribed, postedFault, sent, raised, disc>>

\* The client end closes: how the engine may go on from there.
Departs ==
  /\ ClientCloses
  /\ \/ phase = "handshake" /\ phase' = "loading"
     \/ phase \in Alive /\ phase' \in {"crashed", "killed"}
     \/ phase = "reporting" /\ phase' = "exited" /\ Len(toHost) <= PipeQuota
     \/ phase = "tracing" /\ phase' = "shutdown"
  /\ UNCHANGED <<mInitialized, hostOpen, srv, busy, cur, subscribed, sent, raised, disc>>

\* initialize() returns true.
Succeeds ==
  /\ phase = "handshake" /\ phase' = "loading"
  /\ mInitialized' = TRUE
  /\ toEngine # <<>> /\ toEngine' = Tail(toEngine)
  /\ UNCHANGED <<mPipe, conn, hostOpen, toHost, cut, srv, busy, cur, subscribed,
                 postedFault, sent, raised, disc>>

\* A message is written after the handshake.
Queues(m) ==
  /\ mPipe /\ hostOpen
  /\ \/ phase = "loading" /\ phase' = "reporting" /\ m = "TRACER_ERROR"
     \/ phase \in {"tracing", "shutdown"} /\ phase' = phase /\ m \in JitMessages
  /\ sent' = Append(sent, m) /\ toHost' = Append(toHost, m) /\ cut' \in CutByWrite
  /\ UNCHANGED <<mPipe, mInitialized, conn, hostOpen, toEngine, srv, busy, cur, subscribed,
                 postedFault, raised, disc>>

\* The read loop answers an INIT, c being the code.
Answers(c) ==
  /\ srv = "replying" /\ hostOpen /\ conn = "open"
  /\ toEngine' = Append(toEngine, c)
  /\ busy' = TRUE
  /\ \/ ~busy /\ srv' = "notifying" /\ cur' = cur
     \/ busy /\ srv' = "reading" /\ cur' = <<>>
  /\ UNCHANGED <<phase, mPipe, mInitialized, conn, hostOpen, toHost, cut, subscribed,
                 postedFault, sent, raised, disc>>

AnswerFails ==
  /\ srv = "replying" /\ (~hostOpen \/ conn # "open")
  /\ busy' = TRUE /\ postedFault' = TRUE
  /\ \/ ~busy /\ srv' = "notifying" /\ cur' = cur
     \/ busy /\ srv' = "reading" /\ cur' = <<>>
  /\ UNCHANGED <<phase, mPipe, mInitialized, conn, hostOpen, toHost, cut, toEngine,
                 subscribed, sent, raised, disc>>

\* Every step of the specification is one of these.
StepCases ==
  \/ (\E e \in Events : Subscribe(e)) \/ ResumeTracer \/ Dispose \/ HostDies
  \/ OpenPipe \/ OpenFails \/ Succeeds \/ SettingsLoaded \/ Departs
  \/ (\E m \in MessageType : Queues(m))
  \/ WaitForConnection \/ ReadMessage \/ ReadPart \/ ReadNothing
  \/ (\E c \in PipeErrorCode : Answers(c)) \/ AnswerFails \/ NotifyAndKeepReading
  \/ UNCHANGED allVars

\* The case distinction is complete.
LEMMA StepSorted == [Next]_vars => StepCases
<1> SUFFICES ASSUME [Next]_vars PROVE StepCases
  OBVIOUS
<1> USE DEF engineVars, pipeVars, hostVars, histVars
<1>1. CASE \/ ReadReplyThrows \/ SettingsThrow \/ ErrorWritten \/ ErrorWriteThrows
           \/ Shutdown \/ Kill
  <2> USE DEF EngineLeaves, Departs, Alive
  <2>1. CASE ReadReplyThrows BY <2>1 DEF ReadReplyThrows, StepCases
  <2>2. CASE SettingsThrow BY <2>2 DEF SettingsThrow, StepCases
  <2>3. CASE ErrorWritten BY <2>3 DEF ErrorWritten, StepCases
  <2>4. CASE ErrorWriteThrows BY <2>4 DEF ErrorWriteThrows, StepCases
  <2>5. CASE Shutdown BY <2>5 DEF Shutdown, StepCases
  <2>6. CASE Kill BY <2>6 DEF Kill, StepCases
  <2> QED BY <1>1, <2>1, <2>2, <2>3, <2>4, <2>5, <2>6
<1>2. CASE ReadReply
  <2>1. CASE Head(toEngine) = "SUCCESS" BY <1>2, <2>1 DEF ReadReply, Succeeds, StepCases
  <2>2. CASE Head(toEngine) # "SUCCESS" BY <1>2, <2>2 DEF ReadReply, Departs, StepCases
  <2> QED BY <2>1, <2>2
<1>3. CASE SettingsInvalid
  <2>1. CASE mPipe /\ hostOpen
    <3>1. Queues("TRACER_ERROR") BY <1>3, <2>1 DEF SettingsInvalid, Write, Queues
    <3>2. "TRACER_ERROR" \in MessageType BY DEF MessageType
    <3> QED BY <3>1, <3>2 DEF StepCases
  <2>2. CASE ~(mPipe /\ hostOpen)
    BY <1>3, <2>2 DEF SettingsInvalid, EngineLeaves, Departs, Alive, StepCases
  <2> QED BY <2>1, <2>2
<1>4. CASE \E m \in JitMessages : SendMessage(m)
  <2>1. PICK m \in JitMessages : SendMessage(m) BY <1>4
  <2>2. CASE mPipe /\ hostOpen
    <3>1. Queues(m) BY <2>1, <2>2 DEF SendMessage, Write, Queues
    <3>2. m \in MessageType BY DEF MessageType
    <3> QED BY <3>1, <3>2 DEF StepCases
  <2>3. CASE ~(mPipe /\ hostOpen)
    BY <2>1, <2>3 DEF SendMessage, Write, allVars, StepCases
  <2> QED BY <2>2, <2>3
<1>5. CASE Reply
  <2>1. ReplyCode \in PipeErrorCode BY DEF ReplyCode, PipeErrorCode
  <2>2. CASE hostOpen /\ conn = "open"
    <3>1. Answers(ReplyCode) BY <1>5, <2>2 DEF Reply, Answers
    <3> QED BY <2>1, <3>1 DEF StepCases
  <2>3. CASE ~(hostOpen /\ conn = "open")
    <3>1. AnswerFails BY <1>5, <2>3 DEF Reply, AnswerFails
    <3> QED BY <3>1 DEF StepCases
  <2> QED BY <2>2, <2>3
<1>6. CASE UNCHANGED vars BY <1>6 DEF vars, allVars, StepCases
<1> QED
  BY <1>1, <1>2, <1>3, <1>4, <1>5, <1>6
     DEF StepCases, Next, Application, Constructor, Callbacks, ReadLoop

-----------------------------------------------------------------------------
(* Types.                                                                  *)

\* No step makes a flag anything but a Boolean.
LEMMA FlagsStep == FlagsOK /\ [Next]_vars => FlagsOK'
<1> SUFFICES ASSUME FlagsOK, [Next]_vars PROVE FlagsOK'
  OBVIOUS
<1> USE DEF FlagsOK
<1>1. CASE \E e \in Events : Subscribe(e)
  BY <1>1 DEF Subscribe, engineVars, pipeVars, histVars
<1>2. CASE ResumeTracer
  BY <1>2 DEF ResumeTracer, pipeVars, hostVars, histVars
<1>3. CASE Dispose
  BY <1>3 DEF Dispose, ServerCloses, engineVars, histVars
<1>4. CASE HostDies
  BY <1>4 DEF HostDies, ServerCloses, engineVars, histVars
<1>5. CASE OpenPipe
  BY <1>5 DEF OpenPipe, hostVars
<1>6. CASE OpenFails
  BY <1>6 DEF OpenFails, hostVars, histVars
<1>7. CASE Succeeds
  BY <1>7 DEF Succeeds
<1>8. CASE SettingsLoaded
  BY <1>8 DEF SettingsLoaded, pipeVars, hostVars, histVars
<1>9. CASE Departs
  BY <1>9 DEF Departs, ClientCloses
<1>10. CASE \E m \in MessageType : Queues(m)
  BY <1>10 DEF Queues
<1>11. CASE WaitForConnection
  BY <1>11 DEF WaitForConnection, engineVars, pipeVars, histVars
<1>12. CASE ReadMessage
  BY <1>12 DEF ReadMessage, engineVars, histVars
<1>13. CASE ReadNothing
  <2>1. disc' \in BOOLEAN
    <3>1. ("OnClientDisconnected" \in subscribed) \in BOOLEAN OBVIOUS
    <3>2. disc' = ("OnClientDisconnected" \in subscribed) \/ disc' = disc
      BY <1>13 DEF ReadNothing
    <3> QED BY <3>1, <3>2
  <2> QED BY <1>13, <2>1 DEF ReadNothing, engineVars, pipeVars, histVars
<1>14. CASE \E c \in PipeErrorCode : Answers(c)
  BY <1>14 DEF Answers
<1>15. CASE AnswerFails
  BY <1>15 DEF AnswerFails
<1>16. CASE NotifyAndKeepReading
  BY <1>16 DEF NotifyAndKeepReading, engineVars, pipeVars
<1>17. CASE UNCHANGED allVars
  BY <1>17 DEF allVars
<1>18. CASE ReadPart
  BY <1>18 DEF ReadPart, engineVars, histVars
<1> QED
  BY <1>1, <1>2, <1>3, <1>4, <1>5, <1>6, <1>7, <1>8, <1>9, <1>10, <1>11, <1>12, <1>13, <1>14,
     <1>15, <1>16, <1>17, <1>18, StepSorted DEF StepCases

\* No step leaves the sets the other variables range over.
LEMMA DataStep == DataOK /\ [Next]_vars => DataOK'
<1> SUFFICES ASSUME DataOK, [Next]_vars PROVE DataOK'
  OBVIOUS
<1> USE DEF DataOK, Phases, Alive
<1>0. Accepted(toHost) \in Seq(MessageType) /\ Accepted(toEngine) \in Seq(PipeErrorCode)
  BY AcceptedPrefix
<1>00. CutByWrite \subseteq Nat
  <2>1. Len(toHost) + 1 \in Nat OBVIOUS
  <2> QED BY <2>1 DEF CutByWrite
<1>1. CASE \E e \in Events : Subscribe(e)
  BY <1>1 DEF Subscribe, engineVars, pipeVars, histVars
<1>2. CASE ResumeTracer
  BY <1>2 DEF ResumeTracer, pipeVars, hostVars, histVars
<1>3. CASE Dispose
  BY <1>0, <1>3 DEF Dispose, ServerCloses, engineVars, histVars
<1>4. CASE HostDies
  BY <1>0, <1>4 DEF HostDies, ServerCloses, engineVars, histVars
<1>5. CASE OpenPipe
  BY <1>00, <1>5 DEF OpenPipe, hostVars, MessageType
<1>6. CASE OpenFails
  BY <1>6 DEF OpenFails, hostVars, histVars
<1>7. CASE Succeeds
  BY <1>7 DEF Succeeds
<1>8. CASE SettingsLoaded
  BY <1>8 DEF SettingsLoaded, pipeVars, hostVars, histVars
<1>9. CASE Departs
  BY <1>0, <1>9 DEF Departs, ClientCloses
<1>10. CASE \E m \in MessageType : Queues(m)
  BY <1>00, <1>10 DEF Queues
<1>11. CASE WaitForConnection
  BY <1>11 DEF WaitForConnection, engineVars, pipeVars, histVars
<1>12. CASE ReadMessage
  BY <1>12 DEF ReadMessage, engineVars, histVars
<1>13. CASE ReadNothing
  BY <1>13 DEF ReadNothing, engineVars, pipeVars, histVars
<1>14. CASE \E c \in PipeErrorCode : Answers(c)
  <2>1. PICK c \in PipeErrorCode : Answers(c) BY <1>14
  <2>2. CASE busy BY <2>1, <2>2 DEF Answers
  <2>3. CASE ~busy BY <2>1, <2>3 DEF Answers
  <2> QED BY <2>2, <2>3
<1>15. CASE AnswerFails
  <2>1. CASE busy BY <1>15, <2>1 DEF AnswerFails
  <2>2. CASE ~busy BY <1>15, <2>2 DEF AnswerFails
  <2> QED BY <2>1, <2>2
<1>16. CASE NotifyAndKeepReading
  BY <1>16 DEF NotifyAndKeepReading, engineVars, pipeVars
<1>17. CASE UNCHANGED allVars
  BY <1>17 DEF allVars
<1>18. CASE ReadPart
  BY <1>18 DEF ReadPart, engineVars, histVars
<1> QED
  BY <1>1, <1>2, <1>3, <1>4, <1>5, <1>6, <1>7, <1>8, <1>9, <1>10, <1>11, <1>12, <1>13, <1>14,
     <1>15, <1>16, <1>17, <1>18, StepSorted DEF StepCases

\* Every variable keeps its type: the type invariant of the session.
THEOREM TypeInvariance == Spec => []TypeOK
<1>1. Init => FlagsOK BY DEF Init, FlagsOK
<1>2. Init => DataOK BY DEF Init, DataOK, Phases, Alive
<1> QED BY <1>1, <1>2, FlagsStep, DataStep, PTL DEF Spec, TypeOK

-----------------------------------------------------------------------------
(* The read loop and its message; the engine and what it has written.      *)

\* No step parts the read loop from the message it handles.
LEMMA LoopStep == TypeOK /\ LoopInv /\ [Next]_vars => LoopInv'
<1> SUFFICES ASSUME TypeOK, LoopInv, [Next]_vars PROVE LoopInv'
  OBVIOUS
<1> USE DEF TypeOK, DataOK, LoopInv
<1>1. CASE \E e \in Events : Subscribe(e)
  BY <1>1 DEF Subscribe, engineVars, pipeVars, histVars
<1>2. CASE ResumeTracer
  BY <1>2 DEF ResumeTracer, pipeVars, hostVars, histVars
<1>3. CASE Dispose
  BY <1>3 DEF Dispose, ServerCloses, engineVars, histVars
<1>4. CASE HostDies
  BY <1>4 DEF HostDies, ServerCloses, engineVars, histVars
<1>5. CASE OpenPipe
  BY <1>5 DEF OpenPipe, hostVars
<1>6. CASE OpenFails
  BY <1>6 DEF OpenFails, hostVars, histVars
<1>7. CASE Succeeds
  BY <1>7 DEF Succeeds
<1>8. CASE SettingsLoaded
  BY <1>8 DEF SettingsLoaded, pipeVars, hostVars, histVars
<1>9. CASE Departs
  BY <1>9 DEF Departs, ClientCloses
<1>10. CASE \E m \in MessageType : Queues(m)
  BY <1>10 DEF Queues
<1>11. CASE WaitForConnection
  BY <1>11 DEF WaitForConnection, engineVars, pipeVars, histVars
<1>12. CASE ReadMessage
  BY <1>12 DEF ReadMessage, engineVars, histVars
<1>13. CASE ReadNothing
  BY <1>13 DEF ReadNothing, engineVars, pipeVars, histVars
<1>14. CASE \E c \in PipeErrorCode : Answers(c)
  <2>1. PICK c \in PipeErrorCode : Answers(c) BY <1>14
  <2>2. CASE busy BY <2>1, <2>2 DEF Answers
  <2>3. CASE ~busy BY <2>1, <2>3 DEF Answers
  <2> QED BY <2>2, <2>3
<1>15. CASE AnswerFails
  <2>1. CASE busy BY <1>15, <2>1 DEF AnswerFails
  <2>2. CASE ~busy BY <1>15, <2>2 DEF AnswerFails
  <2> QED BY <2>1, <2>2
<1>16. CASE NotifyAndKeepReading
  BY <1>16 DEF NotifyAndKeepReading, engineVars, pipeVars
<1>17. CASE UNCHANGED allVars
  BY <1>17 DEF allVars
<1>18. CASE ReadPart
  BY <1>18 DEF ReadPart, engineVars, histVars
<1> QED
  BY <1>1, <1>2, <1>3, <1>4, <1>5, <1>6, <1>7, <1>8, <1>9, <1>10, <1>11, <1>12, <1>13, <1>14,
     <1>15, <1>16, <1>17, <1>18, StepSorted DEF StepCases

\* No step lets the engine open or write anything out of its order.
LEMMA EngineStep == TypeOK /\ LoopInv /\ EngineInv /\ [Next]_vars => EngineInv'
<1> SUFFICES ASSUME TypeOK, LoopInv, EngineInv, [Next]_vars PROVE EngineInv'
  OBVIOUS
<1> USE DEF TypeOK, DataOK, LoopInv, EngineInv, Phases, Alive
<1>1. CASE \E e \in Events : Subscribe(e)
  BY <1>1 DEF Subscribe, engineVars, pipeVars, histVars
<1>2. CASE ResumeTracer
  BY <1>2 DEF ResumeTracer, pipeVars, hostVars, histVars
<1>3. CASE Dispose
  <2>1. toEngine = <<>> => Accepted(toEngine) = <<>> BY AcceptedPrefix
  <2> QED BY <1>3, <2>1 DEF Dispose, ServerCloses, engineVars, histVars
<1>4. CASE HostDies
  <2>1. toEngine = <<>> => Accepted(toEngine) = <<>> BY AcceptedPrefix
  <2> QED BY <1>4, <2>1 DEF HostDies, ServerCloses, engineVars, histVars
<1>5. CASE OpenPipe
  BY <1>5 DEF OpenPipe, hostVars
<1>6. CASE OpenFails
  BY <1>6 DEF OpenFails, hostVars, histVars
<1>7. CASE Succeeds
  <2>1. phase = "handshake" /\ phase' = "loading" /\ conn = "open"
    BY <1>7 DEF Succeeds
  <2>2. (mPipe' <=> mPipe) /\ subscribed' = subscribed /\ UNCHANGED <<conn, srv, sent>>
    BY <1>7 DEF Succeeds
  <2>3. Len(sent) = 1 /\ \A i \in 1..Len(sent) : sent[i] # "TRACER_ERROR"
    BY <2>1
  <2> QED BY <2>1, <2>2, <2>3
<1>8. CASE SettingsLoaded
  BY <1>8 DEF SettingsLoaded, pipeVars, hostVars, histVars
<1>9. CASE Departs
  BY <1>9 DEF Departs, ClientCloses
<1>10. CASE \E m \in MessageType : Queues(m)
  <2>1. PICK m \in MessageType : Queues(m) BY <1>10
  <2>2. CASE phase = "loading"
    <3>1. m = "TRACER_ERROR" /\ phase' = "reporting" BY <2>1, <2>2 DEF Queues
    <3>2. mPipe /\ mPipe' /\ conn' = "open" /\ srv' = srv /\ Len(sent) >= 1
          /\ sent' = Append(sent, m) /\ subscribed' = subscribed
      BY <2>1 DEF Queues
    <3>3. Len(sent) \in Nat /\ Len(sent) <= 1 BY <2>2
    <3>4. Len(sent') = 2 /\ sent' \in Seq(MessageType) /\ sent'[1] = sent[1] /\ sent'[2] = m
      <4>1. sent \in Seq(MessageType) OBVIOUS
      <4> HIDE DEF TypeOK, DataOK, LoopInv, EngineInv
      <4> QED BY <3>2, <3>3, <4>1
    <3>5. sent[1] = "INIT" BY <3>2, <3>3
    <3> QED BY <3>1, <3>2, <3>4, <3>5
  <2>3. CASE phase # "loading"
    <3>1. m \notin {"INIT", "TRACER_ERROR"} /\ phase' = phase
      BY <2>1, <2>3 DEF Queues, JitMessages
    <3>2. mPipe /\ mPipe' /\ conn' = "open" /\ srv' = srv /\ Len(sent) >= 1
          /\ sent' = Append(sent, m) /\ subscribed' = subscribed
          /\ phase \in {"tracing", "shutdown"}
      BY <2>1, <2>3 DEF Queues
    <3>3. \A i \in 1..Len(sent) : sent[i] # "TRACER_ERROR" BY <3>2
    <3> QED BY <3>1, <3>2, <3>3
  <2> QED BY <2>2, <2>3
<1>11. CASE WaitForConnection
  BY <1>11 DEF WaitForConnection, engineVars, pipeVars, histVars
<1>12. CASE ReadMessage
  BY <1>12 DEF ReadMessage, engineVars, histVars
<1>13. CASE ReadNothing
  BY <1>13 DEF ReadNothing, engineVars, pipeVars, histVars
<1>14. CASE \E c \in PipeErrorCode : Answers(c)
  BY <1>14 DEF Answers
<1>15. CASE AnswerFails
  BY <1>15 DEF AnswerFails
<1>16. CASE NotifyAndKeepReading
  BY <1>16 DEF NotifyAndKeepReading, engineVars, pipeVars
<1>17. CASE UNCHANGED allVars
  BY <1>17 DEF allVars
<1>18. CASE ReadPart
  BY <1>18 DEF ReadPart, engineVars, histVars
<1> QED
  BY <1>1, <1>2, <1>3, <1>4, <1>5, <1>6, <1>7, <1>8, <1>9, <1>10, <1>11, <1>12, <1>13, <1>14,
     <1>15, <1>16, <1>17, <1>18, StepSorted DEF StepCases

-----------------------------------------------------------------------------
(* Delivery.                                                               *)

\* What has been heard stays heard while the loop raises nothing, though the
\* engine writes on and handlers are attached.
LEMMA HeardStays ==
  ASSUME TypeOK, NEW n \in Nat, Heard(n), n <= Len(sent), raised' = raised,
         subscribed \subseteq subscribed', \A i \in 1..Len(sent) : sent'[i] = sent[i]
  PROVE  Heard(n)'
<1>1. Len(raised) \in Nat /\ Len(sent) \in Nat /\ Len(raised) <= n
  BY DEF TypeOK, DataOK, Heard
<1>2. \A i \in 1..Len(raised) : n - Len(raised) + i \in 1..Len(sent)
  BY <1>1
<1>3. \A i \in 1..Len(raised) : Hears(raised[i])'
  BY DEF Heard, Hears, EventOf
<1> QED BY <1>1, <1>2, <1>3 DEF Heard

\* What the loop raises next belongs to what has been heard last: the messages
\* after INIT are all of one event.
LEMMA HeardOn ==
  ASSUME TypeOK, EngineInv, NEW n \in Nat, n < Len(sent), Heard(n),
         raised # <<>>, raised # <<"INIT">>
  PROVE  Hears(sent[n + 1])
<1> DEFINE l == Len(raised)
<1>1. /\ raised \in Seq(MessageType) /\ l \in Nat \ {0} /\ l <= n
      /\ sent \in Seq(MessageType) /\ Len(sent) \in Nat
  BY EmptySeq DEF TypeOK, DataOK, Heard
<1>2. raised[l] # "INIT"
  <2> SUFFICES ASSUME raised[l] = "INIT" PROVE FALSE
    OBVIOUS
  <2>1. CASE l = 1
    <3>1. "INIT" \in MessageType BY DEF MessageType
    <3>2. <<"INIT">> \in Seq(MessageType) /\ Len(<<"INIT">>) = 1 /\ <<"INIT">>[1] = "INIT"
      BY <3>1
    <3>3. \A i \in 1..Len(raised) : raised[i] = <<"INIT">>[i] BY <2>1, <3>2
    <3> QED BY <1>1, <2>1, <3>2, <3>3, SeqEqual
  <2>2. CASE l # 1
    <3>1. l \in 1..Len(raised) /\ n - l + l = n BY <1>1
    <3>2. raised[l] = sent[n - l + l] BY <2>2, <3>1 DEF Heard
    <3>3. n \in 1..Len(sent) /\ n # 1
      <4> HIDE DEF l
      <4>1. l \in Nat /\ l # 0 /\ l # 1 /\ l <= n BY <1>1, <2>2
      <4>2. n >= 2 BY <4>1
      <4> QED BY <1>1, <4>2
    <3>4. sent[n] = "INIT" BY <3>1, <3>2
    <3> QED BY <3>3, <3>4 DEF EngineInv
  <2> QED BY <2>1, <2>2
<1>3. sent[n] = raised[l] /\ Hears(raised[l])
  <2>1. l \in 1..Len(raised) /\ n - l + l = n BY <1>1
  <2> QED BY <1>2, <2>1 DEF Heard
<1>4. n \in 1..Len(sent) /\ n + 1 \in 1..Len(sent) /\ n # Len(sent) /\ n + 1 # 1 /\ n # 0
  BY <1>1
<1>5. sent[n] # "INIT" /\ n # 1
  BY <1>2, <1>3, <1>4 DEF EngineInv
<1>6. sent[n] # "TRACER_ERROR"
  BY <1>4 DEF EngineInv
<1>7. sent[n + 1] # "INIT" /\ sent[n + 1] # "TRACER_ERROR"
  <2>1. n + 1 # 2 BY <1>4, <1>5
  <2> QED BY <1>4, <2>1 DEF EngineInv
<1>8. EventOf(sent[n]) = EventOf(sent[n + 1])
  BY <1>5, <1>6, <1>7 DEF EventOf
<1> QED BY <1>3, <1>8 DEF Hears

\* No step drops, repeats or reorders a message between the engine and the
\* subscriber; only the messages raised while there is none are missed.
LEMMA DeliveryStep ==
  TypeOK /\ LoopInv /\ EngineInv /\ DeliveryInv /\ [Next]_vars => DeliveryInv'
<1> SUFFICES ASSUME TypeOK, LoopInv, EngineInv, DeliveryInv, [Next]_vars
             PROVE  DeliveryInv'
  OBVIOUS
<1> PICK n \in Nat : Handled(n) /\ Heard(n)
  BY DEF DeliveryInv
<1> DEFINE Answer == srv = "replying" => ~busy
<1> DEFINE Kept == Answer' /\ Handled(n)' /\ Heard(n)'
<1> DEFINE Silent == raised' = raised /\ sent' = sent /\ subscribed \subseteq subscribed'
<1> Answer
  BY DEF DeliveryInv
<1> SUFFICES Answer' /\ \/ Handled(n)' /\ Heard(n)'
                        \/ Handled(n + 1)' /\ Heard(n + 1)'
  BY DEF DeliveryInv
<1>0. /\ toHost \in Seq(MessageType) /\ sent \in Seq(MessageType)
      /\ raised \in Seq(MessageType) /\ cur \in Seq(MessageType)
  BY DEF TypeOK, DataOK
<1>00. Len(toHost) \in Nat /\ Len(sent) \in Nat /\ Len(raised) \in Nat /\ Len(cur) \in Nat
  BY <1>0
<1>000. n <= Len(sent)
  BY <1>00 DEF Handled
<1>0000. ASSUME Silent PROVE Heard(n)'
  BY <1>000, <1>0000, HeardStays
<1>1. ASSUME \E e \in Events : Subscribe(e) PROVE Kept
  <2>1. Silent BY <1>1 DEF Subscribe, histVars
  <2>2. Handled(n)' /\ Answer'
    BY <1>1 DEF Subscribe, engineVars, pipeVars, histVars, Handled
  <2> QED BY <1>0000, <2>1, <2>2
<1>2. ASSUME ResumeTracer PROVE Kept
  <2>1. Silent BY <1>2 DEF ResumeTracer, hostVars, histVars
  <2>2. Handled(n)' /\ Answer'
    BY <1>2 DEF ResumeTracer, pipeVars, hostVars, histVars, Handled
  <2> QED BY <1>0000, <2>1, <2>2
<1>3. ASSUME Dispose PROVE Kept
  <2>1. Silent BY <1>3 DEF Dispose, histVars
  <2>2. Handled(n)' /\ Answer'
    BY <1>00, <1>3 DEF Dispose, ServerCloses, engineVars, histVars, Handled
  <2> QED BY <1>0000, <2>1, <2>2
<1>4. ASSUME HostDies PROVE Kept
  <2>1. Silent BY <1>4 DEF HostDies, histVars
  <2>2. Handled(n)' /\ Answer'
    BY <1>00, <1>4 DEF HostDies, ServerCloses, engineVars, histVars, Handled
  <2> QED BY <1>0000, <2>1, <2>2
<1>5. ASSUME OpenPipe PROVE Kept
  <2>1. /\ sent = <<>> /\ sent' = Append(sent, "INIT") /\ toHost' = Append(toHost, "INIT")
        /\ (hostOpen' <=> hostOpen) /\ (busy' <=> busy)
        /\ UNCHANGED <<srv, cur, raised, subscribed>> /\ phase' = "handshake" /\ hostOpen
    BY <1>5 DEF OpenPipe, hostVars, EngineInv
  <2>2. n = 0 /\ Len(sent) = 0 /\ Len(cur) = 0 /\ Len(toHost) = 0 /\ ~busy
    BY <1>00, <2>1 DEF Handled
  <2>3. Len(sent') = 1 /\ sent'[1] = "INIT" /\ Len(toHost') = 1 /\ toHost'[1] = "INIT"
    BY <1>0, <2>1, <2>2
  <2>4. Handled(n)'
    BY <2>1, <2>2, <2>3 DEF Handled
  <2>5. Heard(n)'
    BY <1>000, <2>1, <2>2, HeardStays
  <2> QED BY <2>1, <2>2, <2>4, <2>5
<1>6. ASSUME OpenFails PROVE Kept
  <2>1. Silent BY <1>6 DEF OpenFails, hostVars, histVars
  <2>2. Handled(n)' /\ Answer'
    BY <1>6 DEF OpenFails, hostVars, histVars, Handled
  <2> QED BY <1>0000, <2>1, <2>2
<1>7. ASSUME Succeeds PROVE Kept
  <2>1. Silent BY <1>7 DEF Succeeds
  <2>2. Handled(n)' /\ Answer'
    BY <1>7 DEF Succeeds, Handled
  <2> QED BY <1>0000, <2>1, <2>2
<1>8. ASSUME SettingsLoaded PROVE Kept
  <2>1. Silent BY <1>8 DEF SettingsLoaded, hostVars, histVars
  <2>2. Handled(n)' /\ Answer'
    BY <1>8 DEF SettingsLoaded, pipeVars, hostVars, histVars, Handled
  <2> QED BY <1>0000, <2>1, <2>2
<1>9. ASSUME Departs PROVE Kept
  <2>1. /\ ~mPipe' /\ toHost' = Accepted(toHost) /\ UNCHANGED <<srv, cur, sent, raised>>
        /\ (busy' <=> busy) /\ (hostOpen' <=> hostOpen) /\ subscribed' = subscribed
        /\ phase' = "exited" => phase = "reporting" /\ Len(toHost) <= PipeQuota
    BY <1>9 DEF Departs, ClientCloses
  <2>2. /\ toHost' \in Seq(MessageType) /\ Len(toHost') <= Len(toHost)
        /\ \A i \in 1..Len(toHost') : toHost'[i] = toHost[i]
        /\ Len(toHost) <= PipeQuota => Len(toHost') = Len(toHost)
    BY <1>0, <2>1, AcceptedPrefix
  <2>3. Len(toHost') \in Nat
    BY <2>2
  <2>4. \A i \in 1..Len(toHost') : i \in 1..Len(toHost)
    BY <1>00, <2>2, <2>3
  <2>5. srv # "garbled" =>
          \A i \in 1..Len(toHost') : toHost'[i] = sent[n + Len(cur) + i]
    BY <2>2, <2>4 DEF Handled
  <2>6. n + Len(cur) + Len(toHost') <= Len(sent)
    BY <1>00, <2>2, <2>3 DEF Handled
  <2>7. phase' = "exited" /\ hostOpen' /\ srv' # "garbled" =>
          n + Len(cur) + Len(toHost') = Len(sent)
    BY <2>1, <2>2 DEF Handled, EngineInv
  <2>8. Handled(n)'
    BY <2>1, <2>5, <2>6, <2>7 DEF Handled
  <2> QED BY <1>0000, <2>1, <2>8
<1>10. ASSUME \E m \in MessageType : Queues(m) PROVE Kept
  <2>1. PICK m \in MessageType : Queues(m) BY <1>10
  <2>2. /\ mPipe /\ hostOpen /\ sent' = Append(sent, m) /\ toHost' = Append(toHost, m)
        /\ UNCHANGED <<srv, cur, raised, subscribed>>
        /\ (busy' <=> busy)
    BY <2>1 DEF Queues
  <2>3. /\ Len(sent') = Len(sent) + 1 /\ Len(toHost') = Len(toHost) + 1
        /\ \A i \in 1..Len(sent) : sent'[i] = sent[i]
        /\ \A i \in 1..Len(toHost) : toHost'[i] = toHost[i]
        /\ sent'[Len(sent) + 1] = m /\ toHost'[Len(toHost) + 1] = m
    BY <1>0, <2>1, <2>2
  <2>4. srv # "garbled" => n + Len(cur) + Len(toHost) = Len(sent)
    BY <2>2 DEF Handled
  <2>5. \A i \in 1..Len(cur) : cur[i] = sent'[n + i]
    <3>1. \A i \in 1..Len(cur) : cur[i] = sent[n + i] /\ n + i \in 1..Len(sent)
      BY <1>00 DEF Handled
    <3> QED BY <2>3, <3>1
  <2>6. ASSUME srv # "garbled", NEW i \in 1..Len(toHost')
        PROVE  toHost'[i] = sent'[n + Len(cur) + i]
    <3>1. CASE i = Len(toHost) + 1
      <4>1. n + Len(cur) + i = Len(sent) + 1
        BY <1>00, <2>4, <2>6, <3>1
      <4> QED BY <2>3, <3>1, <4>1
    <3>2. CASE i \in 1..Len(toHost)
      <4>1. toHost[i] = sent[n + Len(cur) + i] BY <2>6, <3>2 DEF Handled
      <4>2. n + Len(cur) + i \in 1..Len(sent) BY <1>00, <2>4, <2>6, <3>2
      <4> QED BY <2>3, <3>2, <4>1, <4>2
    <3>3. i = Len(toHost) + 1 \/ i \in 1..Len(toHost)
      BY <1>00, <2>3
    <3> QED BY <3>1, <3>2, <3>3
  <2>7. /\ n + Len(cur) + Len(toHost') <= Len(sent')
        /\ srv # "garbled" => n + Len(cur) + Len(toHost') = Len(sent')
    <3>1. n + Len(cur) + Len(toHost) <= Len(sent)
      BY DEF Handled
    <3> DEFINE c == Len(cur)
               t == Len(toHost)
               s == Len(sent)
    <3>2. c \in Nat /\ t \in Nat /\ s \in Nat /\ Len(toHost') = t + 1 /\ Len(sent') = s + 1
      BY <1>00, <2>3
    <3>3. n + c + t <= s /\ (srv # "garbled" => n + c + t = s)
      BY <2>4, <3>1
    <3> HIDE DEF c, t, s
    <3>4. n + c + (t + 1) <= s + 1 /\ (srv # "garbled" => n + c + (t + 1) = s + 1)
      BY <3>2, <3>3
    <3> QED BY <3>2, <3>4 DEF c
  <2>8. busy => n + Len(cur) >= 1
    BY DEF Handled
  <2>9. Handled(n)'
    BY <2>2, <2>5, <2>6, <2>7, <2>8 DEF Handled
  <2>10. Heard(n)'
    BY <1>000, <2>2, <2>3, HeardStays
  <2> QED BY <2>2, <2>9, <2>10
<1>11. ASSUME WaitForConnection PROVE Kept
  <2>1. Silent BY <1>11 DEF WaitForConnection, histVars
  <2>2. Handled(n)' /\ Answer'
    BY <1>11 DEF WaitForConnection, engineVars, pipeVars, histVars, Handled
  <2> QED BY <1>0000, <2>1, <2>2
<1>12. ASSUME ReadMessage PROVE Kept
  <2>1. /\ srv = "reading" /\ toHost # <<>>
        /\ cur' = <<Head(toHost)>> /\ toHost' = Tail(toHost)
        /\ srv' = IF Head(toHost) = "INIT" THEN "replying" ELSE "notifying"
        /\ UNCHANGED <<sent, raised, subscribed>>
        /\ (mPipe' <=> mPipe) /\ (hostOpen' <=> hostOpen) /\ phase' = phase /\ (busy' <=> busy)
    BY <1>12 DEF ReadMessage, engineVars, histVars
  <2>2. cur = <<>> /\ Len(cur) = 0 BY <2>1 DEF LoopInv
  <2>3. /\ Len(toHost) >= 1 /\ Head(toHost) = toHost[1]
        /\ toHost' \in Seq(MessageType) /\ Len(toHost') = Len(toHost) - 1
        /\ \A i \in 1..Len(toHost') : toHost'[i] = toHost[i + 1]
    BY <1>0, <2>1, EmptySeq
  <2>4. Len(cur') = 1 /\ cur'[1] = toHost[1] BY <2>1, <2>3
  <2>5. /\ \A i \in 1..Len(toHost) : toHost[i] = sent[n + i]
        /\ n + Len(toHost) <= Len(sent)
        /\ (mPipe \/ phase = "exited") /\ hostOpen => n + Len(toHost) = Len(sent)
    BY <1>00, <2>1, <2>2 DEF Handled
  <2>6. srv' = "replying" => ~busy
    <3> SUFFICES ASSUME toHost[1] = "INIT" PROVE n = 0
      BY <2>1, <2>2, <2>3 DEF Handled
    <3>1. sent[n + 1] = "INIT" /\ n + 1 \in 1..Len(sent)
      BY <1>00, <2>3, <2>5
    <3> QED BY <3>1 DEF EngineInv
  <2>7. /\ sent' = sent /\ srv' # "garbled"
        /\ (busy' <=> busy) /\ (mPipe' <=> mPipe) /\ (hostOpen' <=> hostOpen) /\ phase' = phase
    BY <2>1
  <2>8. \A i \in 1..Len(cur') : cur'[i] = sent[n + i]
    BY <2>3, <2>4, <2>5
  <2>9. \A i \in 1..Len(toHost') : toHost'[i] = sent[n + 1 + i]
    <3> SUFFICES ASSUME NEW i \in 1..Len(toHost')
                 PROVE  toHost'[i] = sent[n + 1 + i]
      OBVIOUS
    <3>1. i + 1 \in 1..Len(toHost) /\ n + (i + 1) = n + 1 + i
      BY <1>00, <2>3
    <3>2. toHost'[i] = toHost[i + 1]
      BY <2>3
    <3> QED BY <2>5, <3>1, <3>2
  <2>10. n + 1 + Len(toHost') = n + Len(toHost) /\ n + 1 >= 1
    BY <1>00, <2>3
  <2>11. Handled(n)'
    BY <2>4, <2>5, <2>7, <2>8, <2>9, <2>10 DEF Handled
  <2> QED BY <1>0000, <2>1, <2>6, <2>11
<1>13. ASSUME ReadNothing PROVE Kept
  <2>1. Silent BY <1>13 DEF ReadNothing
  <2>2. Handled(n)' /\ Answer'
    BY <1>13 DEF ReadNothing, engineVars, pipeVars, Handled
  <2> QED BY <1>0000, <2>1, <2>2
<1>14. ASSUME \E c \in PipeErrorCode : Answers(c) PROVE Kept
  <2>1. PICK c \in PipeErrorCode : Answers(c) BY <1>14
  <2>2. srv = "replying" /\ ~busy /\ Len(cur) = 1
    BY <2>1 DEF Answers, LoopInv
  <2>3. /\ srv' = "notifying" /\ UNCHANGED <<cur, toHost, sent, raised, subscribed>>
        /\ (mPipe' <=> mPipe) /\ (hostOpen' <=> hostOpen) /\ phase' = phase
    BY <2>1, <2>2 DEF Answers
  <2>4. n + Len(cur) >= 1 BY <1>00, <2>2
  <2>5. Handled(n)' BY <2>2, <2>3, <2>4 DEF Handled
  <2> QED BY <1>0000, <2>3, <2>5
<1>15. ASSUME AnswerFails PROVE Kept
  <2>1. srv = "replying" /\ ~busy /\ Len(cur) = 1
    BY <1>15 DEF AnswerFails, LoopInv
  <2>2. /\ srv' = "notifying" /\ UNCHANGED <<cur, toHost, sent, raised, subscribed>>
        /\ (mPipe' <=> mPipe) /\ (hostOpen' <=> hostOpen) /\ phase' = phase
    BY <1>15, <2>1 DEF AnswerFails
  <2>3. n + Len(cur) >= 1 BY <1>00, <2>1
  <2>4. Handled(n)' BY <2>1, <2>2, <2>3 DEF Handled
  <2> QED BY <1>0000, <2>2, <2>4
<1>16. ASSUME NotifyAndKeepReading PROVE Answer' /\ Handled(n + 1)' /\ Heard(n + 1)'
  <2>1. /\ srv = "notifying" /\ cur' = <<>> /\ srv' \in {"faulted", "reading"}
        /\ raised' = IF Hears(cur[1]) THEN raised \o cur ELSE raised
        /\ UNCHANGED <<toHost, sent, subscribed>>
        /\ (mPipe' <=> mPipe) /\ (hostOpen' <=> hostOpen) /\ phase' = phase /\ (busy' <=> busy)
    BY <1>16 DEF NotifyAndKeepReading, engineVars, pipeVars
  <2>2. Len(cur) = 1 BY <2>1 DEF LoopInv
  <2>3. cur[1] = sent[n + 1] /\ n + 1 \in 1..Len(sent) /\ n < Len(sent)
    <3>1. n + 1 + Len(toHost) <= Len(sent) /\ \A i \in 1..1 : cur[i] = sent[n + i]
      BY <2>2 DEF Handled
    <3>2. n + 1 <= Len(sent) BY <1>00, <3>1
    <3> QED BY <1>00, <3>1, <3>2
  <2>4. Handled(n + 1)'
    <3>1. Len(cur') = 0 /\ n + 1 + Len(cur') = n + Len(cur)
      BY <2>1, <2>2
    <3>2. srv # "garbled"
      BY <2>1
    <3>3. /\ n + 1 + Len(cur') + Len(toHost) <= Len(sent)
          /\ \A i \in 1..Len(toHost) : toHost[i] = sent[n + 1 + Len(cur') + i]
          /\ (mPipe \/ phase = "exited") /\ hostOpen =>
               n + 1 + Len(cur') + Len(toHost) = Len(sent)
      BY <3>1, <3>2 DEF Handled
    <3>4. n + 1 + Len(cur') >= 1 BY <3>1
    <3> QED BY <2>1, <3>1, <3>3, <3>4 DEF Handled
  <2>5. CASE Hears(cur[1])
    <3>1. /\ raised' \in Seq(MessageType) /\ Len(raised') = Len(raised) + 1
          /\ \A i \in 1..Len(raised) : raised'[i] = raised[i]
          /\ raised'[Len(raised) + 1] = cur[1]
      <4>1. /\ raised \o cur \in Seq(MessageType)
            /\ Len(raised \o cur) = Len(raised) + Len(cur)
            /\ \A i \in 1..Len(raised) + Len(cur) :
                 (raised \o cur)[i] = IF i <= Len(raised) THEN raised[i] ELSE cur[i - Len(raised)]
        BY <1>0, ConcatProperties
      <4> QED BY <1>00, <2>1, <2>2, <2>5, <4>1
    <3>2. Len(raised) <= n /\ (SuspendedLaunch => Len(raised) = n) BY DEF Heard
    <3>3. n + 1 - Len(raised') = n - Len(raised) BY <1>00, <3>1
    <3>4. ASSUME NEW i \in 1..Len(raised')
          PROVE  /\ Hears(raised'[i])
                 /\ \/ raised'[i] = sent[n + 1 - Len(raised') + i]
                    \/ i = 1 /\ raised'[i] = "INIT"
      <4>1. CASE i = Len(raised) + 1
        <5>1. n - Len(raised) + i = n + 1 BY <1>00, <4>1
        <5> QED BY <2>3, <2>5, <3>1, <3>3, <4>1, <5>1
      <4>2. CASE i \in 1..Len(raised)
        <5>1. raised'[i] = raised[i] BY <3>1, <4>2
        <5> QED BY <3>3, <4>2, <5>1 DEF Heard
      <4>3. i = Len(raised) + 1 \/ i \in 1..Len(raised) BY <1>00, <3>1
      <4> QED BY <4>1, <4>2, <4>3
    <3>6. Len(raised') <= n + 1 /\ (SuspendedLaunch => Len(raised') = n + 1)
      BY <1>00, <3>1, <3>2
    <3>7. Heard(n + 1)'
      <4>1. \A i \in 1..Len(raised') : Hears(raised[i])'
        BY <2>1, <3>4 DEF Hears, EventOf
      <4>2. sent' = sent BY <2>1
      <4> QED BY <3>4, <3>6, <4>1, <4>2 DEF Heard
    <3> QED BY <2>1, <2>4, <3>7
  <2>6. CASE ~Hears(cur[1])
    <3>1. raised = <<>> \/ raised = <<"INIT">>
      BY <2>3, <2>6, HeardOn
    <3>2. raised' = raised BY <2>1, <2>6
    <3>3. ~SuspendedLaunch
      <4> SUFFICES ASSUME SuspendedLaunch PROVE Hears(cur[1])
        BY <2>6
      <4>1. subscribed = Events BY <1>00, <2>3 DEF EngineInv
      <4>2. EventOf(cur[1]) \in Events BY DEF EventOf, Events
      <4> QED BY <4>1, <4>2 DEF Hears
    <3>4. Len(raised) <= n + 1 BY <1>00 DEF Heard
    <3>5. \A i \in 1..Len(raised) : /\ Hears(raised[i])
                                    /\ i = 1 /\ raised[i] = "INIT"
      BY <3>1 DEF Heard
    <3>6. \A i \in 1..Len(raised) : Hears(raised[i])'
      BY <2>1, <3>2, <3>5 DEF Hears, EventOf
    <3>7. Heard(n + 1)'
      BY <2>1, <3>2, <3>3, <3>4, <3>5, <3>6 DEF Heard
    <3> QED BY <2>1, <2>4, <3>7
  <2> QED BY <2>5, <2>6
<1>17. ASSUME UNCHANGED allVars PROVE Kept
  <2>1. Silent BY <1>17 DEF allVars
  <2>2. Handled(n)' /\ Answer'
    BY <1>17 DEF allVars, Handled
  <2> QED BY <1>0000, <2>1, <2>2
<1>18. ASSUME ReadPart PROVE Kept
  <2>1. /\ srv = "reading" /\ srv' = "garbled" /\ toHost # <<>> /\ toHost' = Tail(toHost)
        /\ (busy' <=> busy) /\ UNCHANGED <<cur, subscribed, sent, raised>>
    BY <1>18 DEF ReadPart, histVars
  <2>2. Len(toHost') \in Nat /\ Len(toHost') <= Len(toHost)
    BY <1>0, <2>1, EmptySeq
  <2>3. n + Len(cur) + Len(toHost') <= Len(sent)
    BY <1>00, <2>2 DEF Handled
  <2>4. Handled(n)'
    BY <2>1, <2>3 DEF Handled
  <2> QED BY <1>0000, <2>1, <2>4
<1> QED
  BY <1>1, <1>2, <1>3, <1>4, <1>5, <1>6, <1>7, <1>8, <1>9, <1>10, <1>11, <1>12, <1>13, <1>14,
     <1>15, <1>16, <1>17, <1>18, StepSorted DEF StepCases

-----------------------------------------------------------------------------
(* The end of the session, and its handshake.                              *)

\* Nothing reaches the read loop after it has announced the disconnection.
LEMMA DisconnectStep ==
  TypeOK /\ LoopInv /\ EngineInv /\ DisconnectInv /\ [Next]_vars => DisconnectInv'
<1> SUFFICES ASSUME TypeOK, LoopInv, EngineInv, DisconnectInv, [Next]_vars
             PROVE  DisconnectInv'
  OBVIOUS
<1>0. Accepted(<<>>) = <<>> BY AcceptedPrefix, EmptySeq
<1>1. CASE \E e \in Events : Subscribe(e)
  BY <1>1 DEF Subscribe, engineVars, pipeVars, histVars, DisconnectInv, LoopInv, EngineInv
<1>2. CASE ResumeTracer
  BY <1>2 DEF ResumeTracer, pipeVars, hostVars, histVars, DisconnectInv, LoopInv, EngineInv
<1>3. CASE Dispose
  BY <1>3 DEF Dispose, ServerCloses, engineVars, histVars, DisconnectInv, LoopInv, EngineInv
<1>4. CASE HostDies
  BY <1>4 DEF HostDies, ServerCloses, engineVars, histVars, DisconnectInv, LoopInv, EngineInv
<1>5. CASE OpenPipe
  BY <1>5 DEF OpenPipe, hostVars, DisconnectInv, LoopInv, EngineInv
<1>6. CASE OpenFails
  BY <1>6 DEF OpenFails, hostVars, histVars, DisconnectInv, LoopInv, EngineInv
<1>7. CASE Succeeds
  BY <1>7 DEF Succeeds, DisconnectInv, LoopInv, EngineInv
<1>8. CASE SettingsLoaded
  BY <1>8 DEF SettingsLoaded, pipeVars, hostVars, histVars, DisconnectInv, LoopInv, EngineInv
<1>9. CASE Departs
  BY <1>0, <1>9 DEF Departs, ClientCloses, DisconnectInv, LoopInv, EngineInv
<1>10. CASE \E m \in MessageType : Queues(m)
  BY <1>10 DEF Queues, DisconnectInv, LoopInv, EngineInv
<1>11. CASE WaitForConnection
  BY <1>11 DEF WaitForConnection, engineVars, pipeVars, histVars, DisconnectInv, LoopInv, EngineInv
<1>12. CASE ReadMessage
  BY <1>12 DEF ReadMessage, engineVars, histVars, DisconnectInv, LoopInv, EngineInv
<1>13. CASE ReadNothing
  BY <1>13 DEF ReadNothing, engineVars, pipeVars, histVars, DisconnectInv, LoopInv, EngineInv
<1>14. CASE \E c \in PipeErrorCode : Answers(c)
  BY <1>14 DEF Answers, DisconnectInv, LoopInv, EngineInv
<1>15. CASE AnswerFails
  BY <1>15 DEF AnswerFails, DisconnectInv, LoopInv, EngineInv
<1>16. CASE NotifyAndKeepReading
  BY <1>16 DEF NotifyAndKeepReading, engineVars, pipeVars, DisconnectInv, LoopInv, EngineInv
<1>17. CASE UNCHANGED allVars
  BY <1>17 DEF allVars, DisconnectInv, LoopInv, EngineInv
<1>18. CASE ReadPart
  BY <1>18 DEF ReadPart, engineVars, histVars, DisconnectInv, LoopInv, EngineInv
<1> QED
  BY <1>1, <1>2, <1>3, <1>4, <1>5, <1>6, <1>7, <1>8, <1>9, <1>10, <1>11, <1>12, <1>13, <1>14,
     <1>15, <1>16, <1>17, <1>18, StepSorted DEF StepCases

\* No step writes a second reply, or faults once the handshake has succeeded.
LEMMA HandshakeStep ==
  TypeOK /\ LoopInv /\ EngineInv /\ DeliveryInv /\ HandshakeInv /\ [Next]_vars
  => HandshakeInv'
<1> SUFFICES ASSUME TypeOK, LoopInv, EngineInv, DeliveryInv, HandshakeInv, [Next]_vars
             PROVE  HandshakeInv'
  OBVIOUS
<1>0. /\ toEngine \in Seq(PipeErrorCode) /\ Len(toEngine) \in Nat
      /\ toEngine # <<>> => Len(toEngine) >= 1
  BY EmptySeq DEF TypeOK, DataOK
<1>00. /\ Accepted(toEngine) \in Seq(PipeErrorCode)
       /\ Len(Accepted(toEngine)) \in Nat /\ Len(Accepted(toEngine)) <= Len(toEngine)
       /\ toEngine = <<>> => Accepted(toEngine) = <<>>
  BY <1>0, AcceptedPrefix
<1>000. Len(toEngine) > PipeQuota => toEngine # <<>> /\ Accepted(toEngine) = <<>>
  <2> SUFFICES ASSUME Len(toEngine) > PipeQuota
               PROVE  toEngine # <<>> /\ Accepted(toEngine) = <<>>
    OBVIOUS
  <2>1. Len(toEngine) >= 1 /\ PipeQuota = 0
    BY <1>0, QuotaAssumption DEF HandshakeInv
  <2>2. Len(Accepted(toEngine)) = 0
    BY <1>0, <1>00, <2>1, AcceptedPrefix
  <2>3. toEngine # <<>> BY <2>1, EmptySeq
  <2> QED BY <1>00, <2>2, <2>3, EmptySeq
<1>1. CASE \E e \in Events : Subscribe(e)
  BY <1>1 DEF Subscribe, engineVars, pipeVars, histVars, HandshakeInv, LoopInv, EngineInv
<1>2. CASE ResumeTracer
  BY <1>2 DEF ResumeTracer, pipeVars, hostVars, histVars, HandshakeInv, LoopInv, EngineInv
<1>3. CASE Dispose
  <2>1. /\ ~hostOpen' /\ toEngine' = Accepted(toEngine) /\ conn' = conn
        /\ (busy' <=> busy) /\ (mInitialized' <=> mInitialized)
        /\ postedFault' => postedFault \/ srv = "waiting" \/ Len(toEngine) > PipeQuota
    BY <1>3 DEF Dispose, ServerCloses, engineVars, histVars
  <2>2. Len(toEngine') <= 1 /\ (toEngine' # <<>> => toEngine # <<>>)
    BY <1>00, <2>1, <1>0 DEF HandshakeInv
  <2>3. mInitialized' => busy' /\ toEngine' = <<>>
    BY <1>00, <2>1 DEF HandshakeInv
  <2>4. postedFault' => ~mInitialized' /\ toEngine' = <<>>
    BY <1>00, <1>000, <2>1 DEF HandshakeInv, LoopInv
  <2> QED BY <2>1, <2>2, <2>3, <2>4 DEF HandshakeInv
<1>4. CASE HostDies
  BY <1>0, <1>00, <1>4 DEF HostDies, ServerCloses, engineVars, histVars, HandshakeInv, LoopInv, EngineInv
<1>5. CASE OpenPipe
  BY <1>5 DEF OpenPipe, hostVars, HandshakeInv, LoopInv, EngineInv
<1>6. CASE OpenFails
  BY <1>6 DEF OpenFails, hostVars, histVars, HandshakeInv, LoopInv, EngineInv
<1>7. CASE Succeeds
  BY <1>0, <1>00, <1>7 DEF Succeeds, HandshakeInv, LoopInv, EngineInv
<1>8. CASE SettingsLoaded
  BY <1>8 DEF SettingsLoaded, pipeVars, hostVars, histVars, HandshakeInv, LoopInv, EngineInv
<1>9. CASE Departs
  <2>1. /\ toEngine' = <<>> /\ (conn = "open" => conn' = "closed")
        /\ (conn # "open" => conn' = conn) /\ (hostOpen' <=> hostOpen)
        /\ (busy' <=> busy) /\ (mInitialized' <=> mInitialized)
        /\ postedFault' => postedFault \/ Len(toEngine) > PipeQuota
    BY <1>9 DEF Departs, ClientCloses
  <2>2. Len(toEngine') <= 1 BY <2>1
  <2>3. postedFault' => ~mInitialized' /\ (~hostOpen' \/ conn' = "closed")
    BY <1>000, <2>1 DEF HandshakeInv
  <2> QED BY <2>1, <2>2, <2>3 DEF HandshakeInv
<1>10. CASE \E m \in MessageType : Queues(m)
  BY <1>10 DEF Queues, HandshakeInv, LoopInv, EngineInv
<1>11. CASE WaitForConnection
  BY <1>11 DEF WaitForConnection, engineVars, pipeVars, histVars, HandshakeInv, LoopInv, EngineInv
<1>12. CASE ReadMessage
  BY <1>12 DEF ReadMessage, engineVars, histVars, HandshakeInv, LoopInv, EngineInv
<1>13. CASE ReadNothing
  BY <1>13 DEF ReadNothing, engineVars, pipeVars, histVars, HandshakeInv, LoopInv, EngineInv
<1>14. CASE \E c \in PipeErrorCode : Answers(c)
  BY <1>0, <1>00, <1>14 DEF Answers, HandshakeInv, DeliveryInv, LoopInv, EngineInv
<1>15. CASE AnswerFails
  <2>1. /\ srv = "replying" /\ (~hostOpen \/ conn # "open") /\ busy'
        /\ (hostOpen' <=> hostOpen) /\ (mInitialized' <=> mInitialized)
        /\ UNCHANGED <<conn, toEngine>>
    BY <1>15 DEF AnswerFails
  <2>2. ~busy /\ ~mInitialized /\ toEngine = <<>>
    BY <2>1 DEF DeliveryInv, HandshakeInv
  <2>3. ~hostOpen \/ conn = "closed"
    BY <2>1 DEF EngineInv, TypeOK, DataOK
  <2>4. Len(toEngine') <= 1 BY <2>1 DEF HandshakeInv
  <2> QED BY <2>1, <2>2, <2>3, <2>4 DEF HandshakeInv
<1>16. CASE NotifyAndKeepReading
  BY <1>16 DEF NotifyAndKeepReading, engineVars, pipeVars, HandshakeInv, LoopInv, EngineInv
<1>17. CASE UNCHANGED allVars
  BY <1>17 DEF allVars, HandshakeInv, LoopInv, EngineInv
<1>18. CASE ReadPart
  BY <1>18 DEF ReadPart, engineVars, histVars, HandshakeInv, LoopInv, EngineInv
<1> QED
  BY <1>1, <1>2, <1>3, <1>4, <1>5, <1>6, <1>7, <1>8, <1>9, <1>10, <1>11, <1>12, <1>13, <1>14,
     <1>15, <1>16, <1>17, <1>18, StepSorted DEF StepCases

-----------------------------------------------------------------------------
(* The theorems.                                                           *)

\* The parts together are inductive.
THEOREM Inductive == Spec => []IInv
<1>1. Init => IInv
  <2>1. Init => FlagsOK BY DEF Init, FlagsOK
  <2>2. Init => DataOK BY DEF Init, DataOK, Phases, Alive
  <2>3. Init => LoopInv BY DEF Init, LoopInv
  <2>4. Init => EngineInv BY DEF Init, EngineInv
  <2>5. Init => DeliveryInv
    <3>1. Init => Handled(0) /\ Heard(0) BY DEF Init, Handled, Heard
    <3> QED BY <3>1 DEF Init, DeliveryInv
  <2>6. Init => DisconnectInv BY DEF Init, DisconnectInv
  <2>7. Init => HandshakeInv BY DEF Init, HandshakeInv
  <2> QED BY <2>1, <2>2, <2>3, <2>4, <2>5, <2>6, <2>7 DEF IInv, TypeOK
<1>2. IInv /\ [Next]_vars => IInv'
  BY FlagsStep, DataStep, LoopStep, EngineStep, DisconnectStep, DeliveryStep, HandshakeStep
     DEF IInv, TypeOK
<1> QED BY <1>1, <1>2, PTL DEF Spec

\* Handlers attached before the resume miss nothing: the pieces start with the
\* first message.
LEMMA NoneMissed ==
  ASSUME TypeOK, EngineInv, DeliveryInv, SuspendedLaunch
  PROVE  /\ Handled(Len(raised))
         /\ Len(raised) + Len(cur) + Len(toHost) <= Len(sent)
         /\ \A i \in 1..Len(raised) : raised[i] = sent[i]
<1>1. PICK n \in Nat : Handled(n) /\ Heard(n)
  BY DEF DeliveryInv
<1>2. n = Len(raised) /\ Handled(Len(raised))
  BY <1>1 DEF Heard
<1>3. Len(raised) \in Nat /\ Len(cur) \in Nat /\ Len(toHost) \in Nat /\ Len(sent) \in Nat
  BY DEF TypeOK, DataOK
<1>4. Len(raised) + Len(cur) + Len(toHost) <= Len(sent)
  BY <1>2 DEF Handled
<1>5. ASSUME NEW i \in 1..Len(raised) PROVE raised[i] = sent[i]
  <2>1. n - Len(raised) + i = i /\ 1 \in 1..Len(sent)
    BY <1>2, <1>3, <1>4
  <2>2. CASE raised[i] = sent[n - Len(raised) + i] BY <2>1, <2>2
  <2>3. CASE i = 1 /\ raised[i] = "INIT" BY <2>1, <2>3 DEF EngineInv
  <2> QED BY <1>1, <2>2, <2>3 DEF Heard
<1> QED BY <1>2, <1>4, <1>5

\* With the handlers attached before the resume, the subscriber is called with
\* a beginning of what the engine wrote, in order (HostCommServer's read loop).
THEOREM PrefixSeen == Spec => []SubscriberSeesPrefix
<1>1. IInv => SubscriberSeesPrefix
  BY NoneMissed DEF IInv, TypeOK, DataOK, SubscriberSeesPrefix
<1> QED BY <1>1, Inductive, PTL

\* However late the application attaches its handlers, and in whatever order, it
\* misses a beginning of the messages of an event and is then called with the
\* ones that follow, without a gap (HostCommServer's read loop, MainForm's
\* handlers).
THEOREM Contiguous == Spec => []ContiguousDelivery
<1>1. IInv => ContiguousDelivery
  <2> SUFFICES ASSUME IInv PROVE ContiguousDelivery
    OBVIOUS
  <2> DEFINE f == IF raised # <<>> /\ raised[1] = "INIT" THEN 1 ELSE 0
             l == Len(raised)
  <2>1. PICK n \in Nat : Handled(n) /\ Heard(n) BY DEF IInv, DeliveryInv
  <2>2. /\ raised \in Seq(MessageType) /\ l \in Nat /\ Len(cur) \in Nat
        /\ Len(toHost) \in Nat /\ Len(sent) \in Nat
    BY DEF IInv, TypeOK, DataOK
  <2>3. l <= n /\ n <= Len(sent)
    BY <2>1, <2>2 DEF Handled, Heard
  <2>4. f \in {0, 1} /\ f <= l
    BY <2>2, EmptySeq
  <2>5. ASSUME NEW i \in (f + 1)..l PROVE raised[i] = sent[n - l + i]
    <3>1. i \in 1..Len(raised) /\ (i = 1 => f = 0) /\ raised # <<>> BY <2>2, <2>4, EmptySeq
    <3>2. ~(i = 1 /\ raised[i] = "INIT") BY <3>1
    <3> QED BY <2>1, <3>1, <3>2 DEF Heard
  <2> HIDE DEF f, l
  <2> DEFINE k == n - l + f
  <2>6. /\ k \in f..Len(sent) /\ k + (l - f) <= Len(sent)
        /\ \A i \in (f + 1)..l : k + (i - f) = n - l + i
    BY <2>2, <2>3, <2>4
  <2>7. \A i \in (f + 1)..l : raised[i] = sent[k + (i - f)]
    BY <2>5, <2>6
  <2> HIDE DEF k
  <2> QED BY <2>6, <2>7 DEF f, l, ContiguousDelivery
<1> QED BY <1>1, Inductive, PTL

\* The pieces make up what was sent when they are as long.
LEMMA Pieces ==
  ASSUME TypeOK, EngineInv, DeliveryInv, SuspendedLaunch, srv # "garbled",
         Len(raised) + Len(cur) + Len(toHost) = Len(sent)
  PROVE  raised \o cur \o toHost = sent
<1> DEFINE S == MessageType
           s == sent
           a == raised
           b == cur
           c == toHost
<1>0. /\ s \in Seq(S) /\ a \in Seq(S) /\ b \in Seq(S) /\ c \in Seq(S)
      /\ Len(a) + Len(b) + Len(c) = Len(s)
      /\ \A i \in 1..Len(a) : a[i] = s[i]
      /\ \A i \in 1..Len(b) : b[i] = s[Len(a) + i]
      /\ \A i \in 1..Len(c) : c[i] = s[Len(a) + Len(b) + i]
  BY NoneMissed DEF TypeOK, DataOK, Handled
<1> HIDE DEF S, s, a, b, c
<1>1. /\ a \o b \in Seq(S) /\ Len(a \o b) = Len(a) + Len(b)
      /\ \A i \in 1..Len(a) + Len(b) : (a \o b)[i] = s[i]
  <2>1. /\ a \o b \in Seq(S) /\ Len(a \o b) = Len(a) + Len(b)
        /\ \A i \in 1..Len(a) + Len(b) :
             (a \o b)[i] = IF i <= Len(a) THEN a[i] ELSE b[i - Len(a)]
    BY <1>0, ConcatProperties
  <2>2. Len(a) \in Nat /\ Len(b) \in Nat BY <1>0
  <2> SUFFICES ASSUME NEW i \in 1..Len(a) + Len(b) PROVE (a \o b)[i] = s[i]
    BY <2>1
  <2>3. CASE i <= Len(a) BY <1>0, <2>1, <2>2, <2>3
  <2>4. CASE ~(i <= Len(a))
    <3>1. i - Len(a) \in 1..Len(b) /\ Len(a) + (i - Len(a)) = i BY <2>2, <2>4
    <3> QED BY <1>0, <2>1, <2>4, <3>1
  <2> QED BY <2>3, <2>4
<1>2. /\ a \o b \o c \in Seq(S) /\ Len(a \o b \o c) = Len(s)
      /\ \A i \in 1..Len(s) : (a \o b \o c)[i] = s[i]
  <2> DEFINE d == a \o b
  <2> HIDE DEF d
  <2>0. Len(d) = Len(a) + Len(b) /\ \A i \in 1..Len(d) : d[i] = s[i]
    BY <1>1 DEF d
  <2>00. d \in Seq(S) BY <1>1 DEF d
  <2>1. /\ d \o c \in Seq(S) /\ Len(d \o c) = Len(d) + Len(c)
        /\ \A i \in 1..Len(d) + Len(c) :
             (d \o c)[i] = IF i <= Len(d) THEN d[i] ELSE c[i - Len(d)]
    BY <1>0, <2>00, ConcatProperties
  <2>2. Len(d) \in Nat /\ Len(c) \in Nat /\ Len(d) + Len(c) = Len(s)
    BY <1>0, <2>0, <2>00
  <2>3. \A i \in 1..Len(s) : (d \o c)[i] = s[i]
    <3> SUFFICES ASSUME NEW i \in 1..Len(s) PROVE (d \o c)[i] = s[i]
      OBVIOUS
    <3>1. CASE i <= Len(d) BY <2>0, <2>1, <2>2, <3>1
    <3>2. CASE ~(i <= Len(d))
      <4>1. i - Len(d) \in 1..Len(c) /\ Len(d) + (i - Len(d)) = i BY <2>2, <3>2
      <4>2. (d \o c)[i] = c[i - Len(d)] /\ c[i - Len(d)] = s[Len(d) + (i - Len(d))]
        BY <1>0, <2>0, <2>1, <2>2, <3>2, <4>1
      <4> QED BY <4>1, <4>2
    <3> QED BY <3>1, <3>2
  <2> QED BY <2>1, <2>2, <2>3 DEF d
<1>3. a \o b \o c = s
  BY <1>0, <1>2, SeqEqual
<1> QED BY <1>3 DEF a, b, c, s

\* While both ends are open no message is lost on the way to the subscriber.
THEOREM NothingLost == Spec => []NothingLostWhileConnected
<1>1. IInv => NothingLostWhileConnected
  <2> SUFFICES ASSUME IInv, SuspendedLaunch, mPipe, hostOpen, srv # "garbled"
               PROVE  raised \o cur \o toHost = sent
    BY DEF NothingLostWhileConnected
  <2>1. Len(raised) + Len(cur) + Len(toHost) = Len(sent)
    BY NoneMissed DEF IInv, Handled
  <2> QED BY <2>1, Pieces DEF IInv
<1> QED BY <1>1, Inductive, PTL

\* The error of invalid settings survives exit(-1): the synchronous write of the
\* constructor returns only when the pipe has taken the message.
THEOREM ErrorKept == Spec => []ErrorSurvivesExit
<1>1. IInv => ErrorSurvivesExit
  <2> SUFFICES ASSUME IInv, phase = "exited", hostOpen
               PROVE  /\ sent # <<>> /\ sent[Len(sent)] = "TRACER_ERROR"
                      /\ SuspendedLaunch /\ srv # "garbled" =>
                           raised \o cur \o toHost = sent
    BY DEF ErrorSurvivesExit
  <2>1. Len(sent) = 2 /\ sent[2] = "TRACER_ERROR" BY DEF IInv, EngineInv
  <2>2. sent # <<>> BY <2>1
  <2>3. ASSUME SuspendedLaunch, srv # "garbled" PROVE raised \o cur \o toHost = sent
    <3>1. Len(raised) + Len(cur) + Len(toHost) = Len(sent)
      BY <2>3, NoneMissed DEF IInv, Handled
    <3> QED BY <2>3, <3>1, Pieces DEF IInv
  <2> QED BY <2>1, <2>2, <2>3
<1> QED BY <1>1, Inductive, PTL

\* The application's handlers see the events in the order of a session's life.
THEOREM Grammar == Spec => []HostEventGrammar
<1>1. IInv => HostEventGrammar
  <2> SUFFICES ASSUME IInv PROVE HostEventGrammar
    OBVIOUS
  <2>1. PICK n \in Nat : Handled(n) /\ Heard(n)
    BY DEF IInv, DeliveryInv
  <2> DEFINE l == Len(raised)
  <2>2. /\ l \in Nat /\ Len(sent) \in Nat /\ l <= n /\ n <= Len(sent)
        /\ SuspendedLaunch => l = n
    <3>1. /\ Len(raised) \in Nat /\ Len(sent) \in Nat
          /\ Len(cur) \in Nat /\ Len(toHost) \in Nat
      BY DEF IInv, TypeOK, DataOK
    <3> QED BY <2>1, <3>1 DEF Handled, Heard
  <2>3. \A i \in 1..Len(sent) : /\ (sent[i] = "INIT") <=> (i = 1)
                                /\ sent[i] = "TRACER_ERROR" => i = 2 /\ i = Len(sent)
    BY DEF IInv, EngineInv
  <2>4. disc => cur = <<>> /\ toHost = <<>> /\ (conn = "closed" \/ ~hostOpen)
    BY DEF IInv, DisconnectInv
  <2>5. ASSUME NEW i \in 1..l
        PROVE  /\ raised[i] = "INIT" => i = 1
               /\ SuspendedLaunch /\ i = 1 => raised[i] = "INIT"
               /\ raised[i] = "TRACER_ERROR" => i <= 2 /\ i = l
    <3>1. n - l + i \in 1..Len(sent) /\ (SuspendedLaunch => n - l + i = i) BY <2>2
    <3>2. CASE raised[i] = sent[n - l + i]
      <4>1. raised[i] = "INIT" => n - l + i = 1 BY <2>3, <3>1, <3>2
      <4>2. SuspendedLaunch /\ i = 1 => raised[i] = "INIT" BY <2>3, <3>1, <3>2
      <4>3. raised[i] = "TRACER_ERROR" => n - l + i = 2 /\ n - l + i = Len(sent)
        BY <2>3, <3>1, <3>2
      <4> QED BY <2>2, <4>1, <4>2, <4>3
    <3>3. CASE i = 1 /\ raised[i] = "INIT" BY <3>3
    <3> QED BY <2>1, <3>2, <3>3 DEF Heard
  <2> QED BY <2>4, <2>5 DEF HostEventGrammar
<1> QED BY <1>1, Inductive, PTL

\* The engine counts the handshake as done only when the host does.
THEOREM Agreement == Spec => []HandshakeAgreement
<1>1. IInv => HandshakeAgreement
  <2>0. raised = <<>> => Len(raised) = 0 OBVIOUS
  <2> SUFFICES ASSUME IInv, mInitialized, SuspendedLaunch, Len(raised) = 0
               PROVE  cur = <<"INIT">> /\ srv \in {"notifying", "dead"}
    BY <2>0 DEF HandshakeAgreement, IInv, HandshakeInv
  <2>00. Handled(0) /\ Len(sent) \in Nat /\ Len(toHost) \in Nat
    BY NoneMissed DEF IInv, TypeOK, DataOK
  <2>1. busy BY DEF IInv, HandshakeInv
  <2>2. cur \in Seq(MessageType) /\ Len(cur) <= 1 /\ Len(cur) \in Nat
    BY DEF IInv, TypeOK, DataOK
  <2>3. Len(cur) = 1
    <3>1. 0 + Len(cur) >= 1 BY <2>1, <2>00 DEF Handled
    <3> DEFINE n == Len(cur)
    <3>2. n \in Nat /\ n <= 1 /\ n >= 1 BY <2>2, <3>1
    <3> HIDE DEF n
    <3>3. n = 1 BY <3>2
    <3> QED BY <3>3 DEF n
  <2>4. cur[1] = "INIT"
    <3>1. cur[1] = sent[1] /\ Len(sent) >= 1
      BY <2>00, <2>3 DEF Handled
    <3>2. Len(sent) \in Nat BY DEF IInv, TypeOK, DataOK
    <3> QED BY <3>1, <3>2 DEF IInv, EngineInv
  <2>5. cur = <<"INIT">>
    <3>1. "INIT" \in MessageType BY DEF MessageType
    <3>2. <<"INIT">> \in Seq(MessageType) /\ Len(<<"INIT">>) = 1 /\ <<"INIT">>[1] = "INIT"
      BY <3>1
    <3>3. \A i \in 1..Len(cur) : cur[i] = <<"INIT">>[i] BY <2>3, <2>4, <3>2
    <3> QED BY <2>2, <2>3, <3>2, <3>3, SeqEqual
  <2>6. srv \notin {"replying", "waiting", "reading", "stopped", "faulted", "garbled"}
    <3>1. srv # "replying" BY <2>1 DEF IInv, DeliveryInv
    <3>2. cur # <<>> BY <2>3
    <3> QED BY <3>1, <3>2 DEF IInv, LoopInv
  <2> QED BY <2>5, <2>6 DEF IInv, TypeOK, DataOK
<1> QED BY <1>1, Inductive, PTL

\* An exception escapes the server's async void methods only when the handshake
\* has not succeeded, and then it never does.
THEOREM FaultsConfined == Spec => []FaultsOnlyBeforeHandshake
<1>1. IInv => FaultsOnlyBeforeHandshake
  BY DEF IInv, HandshakeInv, FaultsOnlyBeforeHandshake
<1> QED BY <1>1, Inductive, PTL

\* Every step of the session is a step of the event stream or a stutter.
LEMMA StreamStep ==
  ASSUME SuspendedLaunch, IInv, [Next]_vars
  PROVE  [ES!Next]_(ES!vars)
<1> DEFINE open == conn # "closed" /\ hostOpen
<1>1. CASE UNCHANGED <<sent, raised>> /\ (open' <=> open)
  BY <1>1 DEF ES!vars
<1>2. CASE UNCHANGED <<sent, raised>> /\ open /\ ~open'
  BY <1>2 DEF ES!GoDown, ES!Next
<1>3. EngineInv /\ LoopInv BY DEF IInv
<1>4. CASE \E e \in Events : Subscribe(e) BY <1>1, <1>4 DEF Subscribe, pipeVars, histVars
<1>5. CASE ResumeTracer BY <1>1, <1>5 DEF ResumeTracer, pipeVars, histVars
<1>6. CASE Dispose BY <1>1, <1>2, <1>6 DEF Dispose, ServerCloses, histVars
<1>7. CASE HostDies BY <1>1, <1>2, <1>7 DEF HostDies, ServerCloses, histVars
<1>8. CASE OpenPipe
  <2>1. open /\ open' /\ sent' = Append(sent, "INIT") /\ raised' = raised
    BY <1>3, <1>8 DEF OpenPipe, EngineInv
  <2>2. "INIT" \in MessageType BY DEF MessageType
  <2> QED BY <2>1, <2>2 DEF ES!Write, ES!Next
<1>9. CASE OpenFails BY <1>1, <1>3, <1>9 DEF OpenFails, histVars, EngineInv
<1>10. CASE Succeeds BY <1>1, <1>10 DEF Succeeds
<1>11. CASE SettingsLoaded BY <1>1, <1>11 DEF SettingsLoaded, pipeVars, histVars
<1>12. CASE Departs BY <1>1, <1>2, <1>12 DEF Departs, ClientCloses
<1>13. CASE \E m \in MessageType : Queues(m)
  <2>1. PICK m \in MessageType : Queues(m) BY <1>13
  <2>2. open /\ open' /\ sent' = Append(sent, m) /\ raised' = raised
    BY <1>3, <2>1 DEF Queues, EngineInv
  <2> QED BY <2>2 DEF ES!Write, ES!Next
<1>14. CASE WaitForConnection BY <1>1, <1>14 DEF WaitForConnection, pipeVars, histVars
<1>15. CASE ReadMessage BY <1>1, <1>15 DEF ReadMessage, histVars
<1>16. CASE ReadNothing BY <1>1, <1>16 DEF ReadNothing, pipeVars
<1>17. CASE \E c \in PipeErrorCode : Answers(c) BY <1>1, <1>17 DEF Answers
<1>18. CASE AnswerFails BY <1>1, <1>18 DEF AnswerFails
<1>19. CASE NotifyAndKeepReading
  <2>1. Len(cur) = 1 BY <1>3, <1>19 DEF NotifyAndKeepReading, LoopInv
  <2>2. /\ cur \in Seq(MessageType) /\ raised \in Seq(MessageType)
        /\ Len(raised) \in Nat /\ Len(toHost) \in Nat /\ Len(sent) \in Nat
    BY DEF IInv, TypeOK, DataOK
  <2>3. /\ Len(raised) < Len(sent) /\ cur[1] = sent[Len(raised) + 1]
        /\ Len(sent) >= 1
    BY <2>1, <2>2, NoneMissed DEF IInv, Handled
  <2>4. Hears(cur[1])
    <3>1. subscribed = Events BY <1>3, <2>3 DEF EngineInv
    <3> QED BY <3>1 DEF Hears, EventOf, Events
  <2>5. cur = <<cur[1]>> BY <2>1, <2>2
  <2>6. raised' = Append(raised, cur[1])
    <3>1. raised' = raised \o cur BY <1>19, <2>4 DEF NotifyAndKeepReading
    <3>2. Append(raised, cur[1]) = raised \o <<cur[1]>> BY <2>1, <2>2, AppendIsConcat
    <3> QED BY <2>5, <3>1, <3>2
  <2>7. sent' = sent /\ (open' <=> open) BY <1>19 DEF NotifyAndKeepReading, pipeVars
  <2> QED BY <2>3, <2>6, <2>7 DEF ES!See, ES!Next
<1>20. CASE UNCHANGED allVars BY <1>1, <1>20 DEF allVars
<1>21. CASE ReadPart BY <1>1, <1>21 DEF ReadPart, histVars
<1> QED
  BY <1>4, <1>5, <1>6, <1>7, <1>8, <1>9, <1>10, <1>11, <1>12, <1>13, <1>14, <1>15, <1>16,
     <1>17, <1>18, <1>19, <1>20, <1>21, StepSorted DEF StepCases

\* An end of the pipe that has closed does not open again.
LEMMA EndsStayClosed ==
  ASSUME SuspendedLaunch, IInv, [Next]_vars, conn' # "closed", hostOpen'
  PROVE  conn # "closed" /\ hostOpen
BY StreamStep DEF ES!Next, ES!Write, ES!See, ES!GoDown, ES!vars

\* The subscriber sees the stream of events that the session promises.
THEOREM Stream == ASSUME SuspendedLaunch PROVE Spec => StreamSafety
<1>1. Init => ES!Init
  BY DEF Init, ES!Init
<1>2. IInv /\ [Next]_vars => [ES!Next]_(ES!vars)
  BY StreamStep
<1> QED BY <1>1, <1>2, Inductive, PTL DEF Spec, StreamSafety, ES!Safety
=============================================================================
