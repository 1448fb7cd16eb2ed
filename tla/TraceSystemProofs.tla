-------------------------- MODULE TraceSystemProofs --------------------------
(***************************************************************************)
(* Proofs about a whole trace, for every number of threads, functions and  *)
(* messages.  The theorems about the two components hold in it: its steps  *)
(* are steps of them, except that a process that ends takes its threads    *)
(* and its cache with it, which JitTrace knows nothing of.                 *)
(***************************************************************************)
EXTENDS TraceSystem, CodecProofs, FiniteSetTheorems

HP == INSTANCE HostCommProofs WITH PartialWrites <- FALSE, cut <- 0
JP == INSTANCE JitTraceProofs WITH MaxUses <- 0

-----------------------------------------------------------------------------
(* The components.                                                         *)

LEMMA SessionAssumed ==
  HP!QuotaAssumption /\ HP!WritesAssumption /\ HP!BoundAssumption /\ HP!LaunchAssumption
BY SessionAssumption
   DEF H!QuotaAssumption, HP!QuotaAssumption, HP!WritesAssumption, H!BoundAssumption,
       HP!BoundAssumption, H!LaunchAssumption, HP!LaunchAssumption

LEMMA CallbacksAssumed ==
  JP!IdsAssumption /\ JP!BoundsAssumption /\ JP!MethodsAssumption /\ JP!NoMethodAssumption
BY JitAssumption
   DEF J!IdsAssumption, JP!IdsAssumption, J!BoundsAssumption, JP!BoundsAssumption,
       J!MethodsAssumption, JP!MethodsAssumption, J!NoMethodAssumption, JP!NoMethodAssumption,
       J!Methods, JP!Methods

\* The session of the system is the one the theorems of HostCommProofs are about.
LEMMA SameSession ==
  /\ H!Init <=> HP!Init
  /\ H!Next <=> HP!Next
  /\ H!vars = HP!vars
  /\ H!TypeOK <=> HP!TypeOK
<1> USE DEF H!engineVars, H!pipeVars, H!hostVars, H!histVars, H!vars,
            HP!engineVars, HP!pipeVars, HP!hostVars, HP!histVars, HP!vars,
            H!ClientCloses, HP!ClientCloses, H!ServerCloses, HP!ServerCloses,
            H!Accepted, HP!Accepted, H!EngineLeaves, HP!EngineLeaves, H!Write, HP!Write,
            H!JitMessages, HP!JitMessages, H!ReplyCode, HP!ReplyCode, H!Alive, HP!Alive,
            H!CutByWrite, HP!CutByWrite, H!Events, HP!Events
<1>1. H!Init <=> HP!Init
  BY DEF H!Init, HP!Init
<1>2. H!Application <=> HP!Application
  BY DEF H!Application, HP!Application, H!Subscribe, HP!Subscribe,
         H!ResumeTracer, HP!ResumeTracer, H!Dispose, HP!Dispose, H!HostDies, HP!HostDies
<1>3. H!Constructor <=> HP!Constructor
  BY DEF H!Constructor, HP!Constructor, H!OpenPipe, HP!OpenPipe, H!OpenFails, HP!OpenFails,
         H!ReadReply, HP!ReadReply, H!ReadReplyThrows, HP!ReadReplyThrows,
         H!SettingsLoaded, HP!SettingsLoaded, H!SettingsInvalid, HP!SettingsInvalid,
         H!SettingsThrow, HP!SettingsThrow, H!ErrorWritten, HP!ErrorWritten,
         H!ErrorWriteThrows, HP!ErrorWriteThrows
<1>4. H!Callbacks <=> HP!Callbacks
  BY DEF H!Callbacks, HP!Callbacks, H!SendMessage, HP!SendMessage, H!Shutdown, HP!Shutdown,
         H!Kill, HP!Kill
<1>5. H!ReadLoop <=> HP!ReadLoop
  <2> USE DEF H!Hears, HP!Hears, H!EventOf, HP!EventOf
  <2> QED
    BY DEF H!ReadLoop, HP!ReadLoop, H!WaitForConnection, HP!WaitForConnection,
         H!ReadMessage, HP!ReadMessage, H!ReadPart, HP!ReadPart, H!ReadNothing,
         HP!ReadNothing, H!Reply, HP!Reply, H!NotifyAndKeepReading, HP!NotifyAndKeepReading
<1>6. H!TypeOK <=> HP!TypeOK
  BY DEF H!TypeOK, HP!TypeOK, H!FlagsOK, HP!FlagsOK, H!DataOK, HP!DataOK, H!Phases, HP!Phases,
         H!MessageType, HP!MessageType, H!PipeErrorCode, HP!PipeErrorCode
<1> QED
  BY <1>1, <1>2, <1>3, <1>4, <1>5, <1>6 DEF H!Next, HP!Next

\* So are the callbacks the ones of JitTraceProofs.
LEMMA SameCallbacks ==
  /\ J!Init <=> JP!Init
  /\ \A t \in Threads, f \in FunctionIds :
       J!JITCompilationStarted(t, f) <=> JP!JITCompilationStarted(t, f)
  /\ \A t \in Threads :
       /\ J!EndLookup(t) <=> JP!EndLookup(t)
       /\ J!Fetch(t) <=> JP!Fetch(t)
       /\ J!EndInsert(t) <=> JP!EndInsert(t)
       /\ J!SendStarted(t) <=> JP!SendStarted(t)
       /\ J!JITCompilationFinished(t) <=> JP!JITCompilationFinished(t)
       /\ J!EndGet(t) <=> JP!EndGet(t)
       /\ J!SendFinished(t) <=> JP!SendFinished(t)
  /\ J!AccessFaults <=> JP!AccessFaults
  /\ J!TypeOK <=> JP!TypeOK
<1> USE DEF J!Keys, JP!Keys, J!Key, JP!Key, J!Methods, JP!Methods, J!MethodOf, JP!MethodOf,
            J!Current, JP!Current, J!Pop, JP!Pop, J!Accesses, JP!Accesses,
            J!BeginAccess, JP!BeginAccess, J!Found, JP!Found, J!Searched, JP!Searched,
            J!Message, JP!Message, J!InStarted, JP!InStarted
<1>1. J!Init <=> JP!Init
  BY DEF J!Init, JP!Init
<1>2. \A t \in Threads, f \in FunctionIds :
        J!JITCompilationStarted(t, f) <=> JP!JITCompilationStarted(t, f)
  <2>1. J!Room <=> JP!Room
    BY DEF J!Room, JP!Room, J!Cardinality, JP!Cardinality
  <2>2. \A m : J!Reportable(m) <=> JP!Reportable(m)
    BY DEF J!Reportable, JP!Reportable
  <2> QED
    BY <2>1, <2>2 DEF J!JITCompilationStarted, JP!JITCompilationStarted
<1>3. \A t \in Threads : J!EndLookup(t) <=> JP!EndLookup(t)
  BY DEF J!EndLookup, JP!EndLookup
<1>4. \A t \in Threads : J!Fetch(t) <=> JP!Fetch(t)
  BY DEF J!Fetch, JP!Fetch
<1>5. \A t \in Threads : J!EndInsert(t) <=> JP!EndInsert(t)
  BY DEF J!EndInsert, JP!EndInsert, J!cacheFunction, JP!cacheFunction, J!Damaged, JP!Damaged
<1>6. \A t \in Threads : J!SendStarted(t) <=> JP!SendStarted(t)
  BY DEF J!SendStarted, JP!SendStarted
<1>7. \A t \in Threads : J!JITCompilationFinished(t) <=> JP!JITCompilationFinished(t)
  BY DEF J!JITCompilationFinished, JP!JITCompilationFinished
<1>8. \A t \in Threads : J!EndGet(t) <=> JP!EndGet(t)
  BY DEF J!EndGet, JP!EndGet
<1>9. \A t \in Threads : J!SendFinished(t) <=> JP!SendFinished(t)
  BY DEF J!SendFinished, JP!SendFinished
<1>10. J!AccessFaults <=> JP!AccessFaults
  BY DEF J!AccessFaults, JP!AccessFaults
<1>11. J!TypeOK <=> JP!TypeOK
  BY DEF J!TypeOK, JP!TypeOK, J!Steps, JP!Steps, J!Entries, JP!Entries, J!Messages, JP!Messages
<1> QED
  BY <1>1, <1>2, <1>3, <1>4, <1>5, <1>6, <1>7, <1>8, <1>9, <1>10, <1>11

-----------------------------------------------------------------------------
(* The steps of the system, as steps of its components.                    *)

\* The callbacks do nothing, or the process ends.
CallbacksMove == [JP!Next]_(JP!vars) \/ MemoryIsGone

LEMMA StepsOfComponents ==
  [Next]_vars => [HP!Next]_(HP!vars) /\ CallbacksMove
<1> SUFFICES ASSUME [Next]_vars PROVE [H!Next]_(HP!vars) /\ CallbacksMove
  BY SameSession
<1> USE DEF sessionVars, jitVars
<1>1. UNCHANGED sessionVars => [H!Next]_(HP!vars)
  BY DEF HP!vars, HP!engineVars, HP!pipeVars, HP!hostVars, HP!histVars
<1>2. UNCHANGED jitVars => CallbacksMove
  BY DEF CallbacksMove, JP!vars
<1>3. ASSUME NEW t \in Threads, CallbackStep(t)
      PROVE  [H!Next]_(HP!vars) /\ CallbacksMove
  <2>1. [H!Next]_(HP!vars)
    BY <1>1, <1>3 DEF CallbackStep, Survives, H!Next, H!Callbacks
  <2>2. \/ \E f \in FunctionIds : JP!JITCompilationStarted(t, f)
        \/ JP!JITCompilationFinished(t) \/ JP!EndLookup(t) \/ JP!Fetch(t)
        \/ JP!EndInsert(t) \/ JP!EndGet(t)
    BY <1>3, SameCallbacks DEF CallbackStep
  <2> QED
    BY <2>1, <2>2 DEF CallbacksMove, JP!Next, JP!Callback
<1>4. ASSUME NEW t \in Threads, CallbackSends(t)
      PROVE  [H!Next]_(HP!vars) /\ CallbacksMove
  <2>1. [H!Next]_(HP!vars)
    BY <1>4 DEF CallbackSends, H!Next, H!Callbacks, H!JitMessages
  <2>2. JP!SendStarted(t) \/ JP!SendFinished(t)
    BY <1>4, SameCallbacks DEF CallbackSends
  <2> QED
    BY <2>1, <2>2 DEF CallbacksMove, JP!Next, JP!Callback
<1>5. CASE AccessFaults
  <2>1. [H!Next]_(HP!vars)
    BY <1>1, <1>5 DEF AccessFaults, Survives, H!Next, H!Callbacks
  <2>2. JP!AccessFaults
    BY <1>5, SameCallbacks DEF AccessFaults
  <2> QED
    BY <2>1, <2>2 DEF CallbacksMove, JP!Next
<1>6. CASE Constructor
  BY <1>2, <1>6 DEF Constructor, OpenPipe, ReadReply, SettingsInvalid, ConstructorStep,
                    H!Next, H!Constructor
<1>7. CASE ProcessEnds
  BY <1>2, <1>7 DEF ProcessEnds, H!Next, H!Callbacks, CallbacksMove
<1>8. CASE Application
  BY <1>2, <1>8 DEF Application, H!Next
<1>9. CASE ReadLoop
  BY <1>2, <1>9 DEF ReadLoop, ReadMessage, Reply, Notify, LoopStep, H!Next, H!ReadLoop
<1>10. CASE UNCHANGED vars
  BY <1>1, <1>2, <1>10 DEF vars
<1> QED
  BY <1>3, <1>4, <1>5, <1>6, <1>7, <1>8, <1>9, <1>10 DEF Next, Callbacks

\* The invariant of the session holds in the system.
LEMMA SessionInductive == Spec => []HP!IInv
<1>1. Init => HP!Init
  BY SameSession DEF Init
<1>2. HP!Spec => []HP!IInv
  BY HP!Inductive, SessionAssumed
<1> QED
  BY <1>1, <1>2, StepsOfComponents, PTL DEF Spec, HP!Spec

\* Each message is in the pipe as a whole: the loop never meets a part of one.
Whole == srv # "garbled"

LEMMA NeverGarbled == Spec => []Whole
<1>1. Init => Whole
  BY SameSession DEF Init, HP!Init, Whole
<1>2. Whole /\ [HP!Next]_(HP!vars) => Whole'
  <2> SUFFICES ASSUME Whole, [HP!Next]_(HP!vars) PROVE Whole'
    OBVIOUS
  <2> USE DEF HP!hostVars, Whole
  <2>1. CASE HP!Application
    BY <2>1 DEF HP!Application, HP!Subscribe, HP!ResumeTracer, HP!Dispose, HP!HostDies
  <2>2. CASE HP!Constructor
    BY <2>2 DEF HP!Constructor, HP!OpenPipe, HP!OpenFails, HP!ReadReply, HP!ReadReplyThrows,
                HP!SettingsLoaded, HP!SettingsInvalid, HP!SettingsThrow, HP!ErrorWritten,
                HP!ErrorWriteThrows, HP!EngineLeaves
  <2>3. CASE HP!Callbacks
    BY <2>3 DEF HP!Callbacks, HP!SendMessage, HP!Shutdown, HP!Kill, HP!EngineLeaves
  <2>4. CASE HP!ReadLoop
    BY <2>4 DEF HP!ReadLoop, HP!WaitForConnection, HP!ReadMessage, HP!ReadPart, HP!ReadNothing,
                HP!Reply, HP!NotifyAndKeepReading
  <2>5. CASE UNCHANGED HP!vars
    BY <2>5 DEF HP!vars
  <2> QED
    BY <2>1, <2>2, <2>3, <2>4, <2>5 DEF HP!Next
<1> QED
  BY <1>1, <1>2, StepsOfComponents, PTL DEF Spec

\* A process that ends leaves the log, and nothing else.
LEMMA ProcessGone ==
  ASSUME JP!IInv, MemoryIsGone
  PROVE  JP!IInv'
<1>1. /\ jitting' = [t \in Threads |-> <<>>] /\ pc' = [t \in Threads |-> "managed"]
      /\ func' = [t \in Threads |-> Null] /\ mFuncMap' = [k \in JP!Keys |-> Unmapped]
      /\ UNCHANGED <<uses, raced, crashed, log>>
  BY DEF MemoryIsGone, J!Keys, JP!Keys, J!Key, JP!Key
<1>2. JP!TypeOK'
  <2>1. uses' \in [FunctionIds -> 0..0] /\ crashed' \in BOOLEAN /\ raced' \in BOOLEAN
    BY <1>1 DEF JP!IInv, JP!TypeOK
  <2>2. log' \in Seq(JP!Messages)
    BY <1>1 DEF JP!IInv, JP!TypeOK
  <2>3. jitting' \in [Threads -> Seq(FunctionIds)]
    BY <1>1
  <2>4. pc' \in [Threads -> JP!Steps]
    BY <1>1 DEF JP!Steps
  <2>5. func' \in [Threads -> JP!Entries] /\ mFuncMap' \in [JP!Keys -> JP!Entries \cup {Unmapped}]
    BY <1>1 DEF JP!Entries
  <2> QED
    BY <2>1, <2>2, <2>3, <2>4, <2>5 DEF JP!TypeOK
<1>3. JP!Stacks'
  BY <1>1 DEF JP!Stacks
<1>4. JP!CompilationsAnnounced'
  <2>1. \A t \in Threads : JP!Open(t)' = {}
    BY <1>1 DEF JP!Open, JP!InStarted
  <2> QED
    BY <2>1 DEF JP!CompilationsAnnounced
<1>5. JP!WellNested'
  BY <1>1 DEF JP!IInv, JP!WellNested, JP!Closes, JP!Opens, JP!Is, JP!Reportable
<1> QED
  BY <1>2, <1>3, <1>4, <1>5 DEF JP!IInv

\* The invariant of the callbacks holds in the system.
LEMMA CallbacksInductive == Spec => []JP!IInv
<1>1. Init => JP!IInv
  BY SameCallbacks, JP!Starts, CallbacksAssumed DEF Init
<1>2. JP!IInv /\ [Next]_vars => JP!IInv'
  <2>1. JP!IInv /\ [JP!Next]_(JP!vars) => JP!IInv'
    BY JP!TypeStep, JP!LogStep, CallbacksAssumed DEF JP!IInv
  <2> QED
    BY <2>1, StepsOfComponents, ProcessGone DEF CallbacksMove
<1> QED
  BY <1>1, <1>2, PTL DEF Spec

-----------------------------------------------------------------------------
(* What a step does to the documents.                                      *)

\* The messages a callback can log.
Logged == JP!Messages

\* Nothing is written, and nothing but a rest of the pipe is dropped.
Shrinks ==
  /\ Len(toHost') <= Len(toHost) /\ \A i \in 1..Len(toHost') : toHost'[i] = toHost[i]
  /\ docs' = SubSeq(docs, 1, Len(toHost'))
  /\ UNCHANGED <<sent, raised, cur, buff, tree>>
  /\ mPipe' => mPipe /\ (phase = "reporting" => phase' = "reporting")
  /\ hostOpen' => hostOpen
  /\ srv' \in {"waiting", "reading", "replying", "notifying"} =>
       srv \in {"waiting", "reading", "replying", "notifying"}

\* The phases in which no callback has come yet.
Early == {"suspended", "starting", "handshake", "loading", "reporting"}

\* A callback sends to nobody, or the log stays as it is.
Silent ==
  \/ log' = log /\ (phase' \in Early => phase \in Early)
  \/ /\ phase \in {"tracing", "shutdown"} /\ UNCHANGED phase /\ ~(mPipe /\ hostOpen)
     /\ \E msg \in Logged : log' = Append(log, msg)

\* Document doc is written for message m.
Writes(doc, m) ==
  /\ sent' = Append(sent, m) /\ toHost' = Append(toHost, m) /\ docs' = Append(docs, doc)
  /\ UNCHANGED <<raised, cur, buff, tree, hostOpen, srv>>

WritesInit ==
  /\ phase = "starting" /\ phase' = "handshake" /\ hostOpen
  /\ Writes(InitDoc, "INIT") /\ UNCHANGED log

WritesError ==
  /\ phase = "loading" /\ phase' = "reporting" /\ mPipe /\ hostOpen
  /\ Writes(ErrorDoc, "TRACER_ERROR") /\ UNCHANGED <<log, mPipe>>

WritesEvent(msg) ==
  /\ phase \in {"tracing", "shutdown"} /\ mPipe /\ hostOpen
  /\ Writes(EventDoc[<<msg.type, msg.data>>], EventType(msg.type))
  /\ log' = Append(log, msg)
  /\ UNCHANGED <<phase, mPipe>>

LEMMA LongerDiffers ==
  ASSUME NEW S, NEW s \in Seq(S), NEW m \in S PROVE Append(s, m) # s
<1>1. Len(Append(s, m)) = Len(s) + 1 /\ Len(s) \in Nat
  BY AppendProperties, LenProperties
<1> QED
  BY <1>1

\* An end of the pipe closes, or what is in it stays.
LEMMA AcceptedShorter ==
  ASSUME HP!TypeOK, toHost' \in {toHost, H!Accepted(toHost), <<>>}
  PROVE  Len(toHost') <= Len(toHost) /\ \A i \in 1..Len(toHost') : toHost'[i] = toHost[i]
<1>1. toHost \in Seq(HP!MessageType) /\ Len(toHost) \in Nat
  BY DEF HP!TypeOK, HP!DataOK
<1>2. /\ Len(HP!Accepted(toHost)) <= Len(toHost)
      /\ \A i \in 1..Len(HP!Accepted(toHost)) : HP!Accepted(toHost)[i] = toHost[i]
  BY <1>1, HP!AcceptedPrefix, SessionAssumed
<1>3. H!Accepted(toHost) = HP!Accepted(toHost)
  BY DEF H!Accepted, HP!Accepted
<1>4. CASE toHost' = toHost
  BY <1>1, <1>4
<1>5. CASE toHost' = H!Accepted(toHost)
  BY <1>2, <1>3, <1>5
<1>6. CASE toHost' = <<>>
  <2>1. Len(toHost') = 0
    BY <1>6
  <2> QED
    BY <1>1, <2>1
<1> QED
  BY <1>4, <1>5, <1>6

\* What a step of the session that KeepDocs goes with does.
LEMMA SessionShrinks ==
  ASSUME HP!TypeOK, docs' = SubSeq(docs, 1, Len(toHost')), UNCHANGED <<buff, tree>>,
         \/ UNCHANGED sessionVars
         \/ H!Application \/ H!Shutdown \/ H!Kill \/ H!OpenFails \/ H!ReadReplyThrows
         \/ H!SettingsLoaded \/ H!SettingsThrow \/ H!ErrorWritten \/ H!ErrorWriteThrows
         \/ H!ReadReply \/ (H!SettingsInvalid /\ ~(mPipe /\ hostOpen))
         \/ H!WaitForConnection \/ H!ReadNothing
  PROVE  Shrinks /\ (phase' \in Early => phase \in Early)
<1> USE DEF H!engineVars, H!pipeVars, H!hostVars, H!histVars, H!ClientCloses, H!ServerCloses,
            H!EngineLeaves, Early
<1>1. SUFFICES /\ toHost' \in {toHost, H!Accepted(toHost), <<>>}
               /\ UNCHANGED <<sent, raised, cur>>
               /\ mPipe' => mPipe /\ (phase = "reporting" => phase' = "reporting")
               /\ hostOpen' => hostOpen
               /\ srv' \in {"waiting", "reading", "replying", "notifying"} =>
                    srv \in {"waiting", "reading", "replying", "notifying"}
               /\ phase' \in Early => phase \in Early
  BY AcceptedShorter DEF Shrinks
<1>2. CASE UNCHANGED sessionVars
  BY <1>2 DEF sessionVars
<1>3. CASE H!Application
  BY <1>3 DEF H!Application, H!Subscribe, H!ResumeTracer, H!Dispose, H!HostDies
<1>4. CASE H!Shutdown \/ H!Kill
  BY <1>4 DEF H!Shutdown, H!Kill
<1>5. CASE H!OpenFails \/ H!SettingsLoaded \/ H!WaitForConnection \/ H!ReadNothing
  BY <1>5 DEF H!OpenFails, H!SettingsLoaded, H!WaitForConnection, H!ReadNothing
<1>6. CASE H!ReadReplyThrows \/ H!SettingsThrow \/ H!ErrorWritten \/ H!ErrorWriteThrows
  BY <1>6 DEF H!ReadReplyThrows, H!SettingsThrow, H!ErrorWritten, H!ErrorWriteThrows
<1>7. CASE H!ReadReply
  BY <1>7 DEF H!ReadReply
<1>8. CASE H!SettingsInvalid /\ ~(mPipe /\ hostOpen)
  BY <1>8 DEF H!SettingsInvalid
<1> QED
  BY <1>2, <1>3, <1>4, <1>5, <1>6, <1>7, <1>8

\* Every step is one of these.
LEMMA StepSorted ==
  ASSUME HP!TypeOK, JP!TypeOK, JP!Stacks, Len(docs) = Len(toHost), [Next]_vars
  PROVE  \/ Shrinks /\ Silent
         \/ WritesInit \/ WritesError \/ \E msg \in Logged : WritesEvent(msg)
         \/ ReadMessage \/ Reply \/ Notify
         \/ UNCHANGED vars
<1>1. /\ sent \in Seq(HP!MessageType) /\ toHost \in Seq(HP!MessageType)
      /\ "INIT" \in HP!MessageType /\ "TRACER_ERROR" \in HP!MessageType
      /\ "JIT_COMPILATION_STARTED" \in HP!MessageType
      /\ "JIT_COMPILATION_FINISHED" \in HP!MessageType
  BY DEF HP!TypeOK, HP!DataOK, HP!MessageType, HP!JitMessages
<1>2. UNCHANGED jitVars \/ MemoryIsGone => log' = log
  BY DEF jitVars, MemoryIsGone
<1>3. ASSUME KeepDocs, UNCHANGED <<buff, tree>>, log' = log,
             \/ UNCHANGED sessionVars
             \/ H!Application \/ H!Shutdown \/ H!Kill \/ H!OpenFails \/ H!ReadReplyThrows
             \/ H!SettingsLoaded \/ H!SettingsThrow \/ H!ErrorWritten \/ H!ErrorWriteThrows
             \/ H!WaitForConnection \/ H!ReadNothing
      PROVE  Shrinks /\ Silent
  BY <1>3, SessionShrinks DEF KeepDocs, Silent
<1>4. ASSUME NEW t \in Threads, CallbackStep(t)
      PROVE  Shrinks /\ Silent
  <2>1. log' = log
    BY <1>4 DEF CallbackStep, J!JITCompilationStarted, J!JITCompilationFinished, J!EndLookup,
                J!Fetch, J!EndInsert, J!EndGet
  <2>2. KeepDocs /\ UNCHANGED <<buff, tree>> /\ (H!Kill \/ UNCHANGED sessionVars)
    BY <1>4 DEF CallbackStep, Survives
  <2> QED
    BY <1>3, <2>1, <2>2
<1>5. ASSUME NEW t \in Threads, CallbackSends(t)
      PROVE  (Shrinks /\ Silent) \/ \E msg \in Logged : WritesEvent(msg)
  <2>1. PICK msg \in Logged : /\ log' = Append(log, msg) /\ msg.data = func[t]
                              /\ H!SendMessage(EventType(msg.type))
    <3>1. jitting[t] # <<>> /\ func[t] \in JP!Entries
      BY <1>5, SameCallbacks DEF CallbackSends, JP!SendStarted, JP!SendFinished, JP!Stacks, JP!TypeOK
    <3>2. CASE J!SendStarted(t) /\ H!SendMessage("JIT_COMPILATION_STARTED")
      <4> DEFINE msg == JP!Message("STARTED", t, func[t])
      <4>1. log' = Append(log, msg)
        BY <3>2, SameCallbacks DEF JP!SendStarted
      <4>2. msg \in Logged
        BY <3>1, JP!Typed, CallbacksAssumed DEF Logged
      <4>3. msg.type = "STARTED" /\ msg.data = func[t]
        BY DEF JP!Message
      <4>4. EventType("STARTED") = "JIT_COMPILATION_STARTED"
        BY DEF EventType
      <4> HIDE DEF msg
      <4> QED
        BY <3>2, <4>1, <4>2, <4>3, <4>4
    <3>3. CASE J!SendFinished(t) /\ H!SendMessage("JIT_COMPILATION_FINISHED")
      <4> DEFINE msg == JP!Message("FINISHED", t, func[t])
      <4>1. log' = Append(log, msg)
        BY <3>3, SameCallbacks DEF JP!SendFinished
      <4>2. msg \in Logged
        BY <3>1, JP!Typed, CallbacksAssumed DEF Logged
      <4>3. msg.type = "FINISHED" /\ msg.data = func[t]
        BY DEF JP!Message
      <4>4. EventType("FINISHED") = "JIT_COMPILATION_FINISHED"
        BY DEF EventType
      <4> HIDE DEF msg
      <4> QED
        BY <3>3, <4>1, <4>2, <4>3, <4>4
    <3> QED
      BY <1>5, <3>2, <3>3 DEF CallbackSends
  <2>2. log'[Len(log')] = msg
    <3>1. log \in Seq(Logged)
      BY DEF JP!TypeOK, Logged
    <3>2. Len(log') = Len(log) + 1 /\ log'[Len(log) + 1] = msg
      BY <2>1, <3>1, AppendProperties
    <3> QED
      BY <3>2
  <2>3. WriteDoc(EventDoc[<<msg.type, msg.data>>])
    BY <1>5, <2>1, <2>2 DEF CallbackSends
  <2>4. phase \in {"tracing", "shutdown"} /\ UNCHANGED <<phase, buff, tree>>
    BY <1>5, <2>1 DEF CallbackSends, Running, H!SendMessage, H!engineVars
  <2>5. CASE mPipe /\ hostOpen
    <3> DEFINE m == EventType(msg.type)
    <3>1. m \in HP!MessageType
      BY <1>1 DEF EventType
    <3>2. sent' = Append(sent, m) /\ toHost' = Append(toHost, m)
      BY <2>1, <2>5 DEF H!SendMessage, H!Write
    <3>3. sent' # sent
      BY <1>1, <3>1, <3>2, LongerDiffers
    <3>4. docs' = Append(docs, EventDoc[<<msg.type, msg.data>>])
      BY <2>3, <3>3 DEF WriteDoc
    <3>5. UNCHANGED <<raised, cur, hostOpen, srv, mPipe>>
      BY <2>1 DEF H!SendMessage, H!engineVars, H!hostVars
    <3> QED
      BY <2>1, <2>4, <2>5, <3>2, <3>4, <3>5 DEF WritesEvent, Writes
  <2>6. CASE ~(mPipe /\ hostOpen)
    <3>1. UNCHANGED sessionVars
      BY <2>1, <2>6 DEF H!SendMessage, H!Write, H!engineVars, H!hostVars, sessionVars
    <3>2. docs' = SubSeq(docs, 1, Len(toHost'))
      BY <2>3, <3>1 DEF WriteDoc, sessionVars
    <3>3. Shrinks
      BY <2>4, <3>1, <3>2, SessionShrinks
    <3> QED
      BY <2>1, <2>4, <2>6, <3>3 DEF Silent
  <2> QED
    BY <2>5, <2>6
<1>6. CASE AccessFaults
  <2>1. log' = log /\ KeepDocs /\ UNCHANGED <<buff, tree>> /\ (H!Kill \/ UNCHANGED sessionVars)
    BY <1>6 DEF AccessFaults, J!AccessFaults, Survives
  <2> QED
    BY <1>3, <2>1
<1>7. CASE OpenPipe
  <2>1. sent' = Append(sent, "INIT") /\ toHost' = Append(toHost, "INIT")
    BY <1>7 DEF OpenPipe, H!OpenPipe
  <2>2. sent' # sent
    BY <1>1, <2>1, LongerDiffers
  <2> QED
    BY <1>2, <1>7, <2>1, <2>2 DEF OpenPipe, H!OpenPipe, WriteDoc, WritesInit, Writes, H!hostVars
<1>8. CASE SettingsInvalid /\ mPipe /\ hostOpen
  <2>1. sent' = Append(sent, "TRACER_ERROR") /\ toHost' = Append(toHost, "TRACER_ERROR")
    BY <1>8 DEF SettingsInvalid, H!SettingsInvalid, H!Write
  <2>2. sent' # sent
    BY <1>1, <2>1, LongerDiffers
  <2> QED
    BY <1>2, <1>8, <2>1, <2>2
    DEF SettingsInvalid, H!SettingsInvalid, WriteDoc, WritesError, Writes, H!hostVars
<1>9. CASE SettingsInvalid /\ ~(mPipe /\ hostOpen)
  <2>1. sent' = sent
    BY <1>9 DEF SettingsInvalid, H!SettingsInvalid, H!EngineLeaves, H!histVars
  <2>2. /\ docs' = SubSeq(docs, 1, Len(toHost')) /\ H!SettingsInvalid
        /\ UNCHANGED <<buff, tree>> /\ log' = log
    BY <1>2, <1>9, <2>1 DEF SettingsInvalid, WriteDoc
  <2> QED
    BY <1>9, <2>2, SessionShrinks DEF Silent
<1>10. CASE ReadReply
  BY <1>2, <1>10, SessionShrinks DEF ReadReply, Silent
<1>11. CASE ConstructorStep
  <2>1. KeepDocs /\ UNCHANGED <<buff, tree>> /\ log' = log
    BY <1>2, <1>11 DEF ConstructorStep
  <2> QED
    BY <1>3, <1>11, <2>1 DEF ConstructorStep
<1>12. CASE ProcessEnds
  <2>1. KeepDocs /\ UNCHANGED <<buff, tree>> /\ log' = log
    BY <1>2, <1>12 DEF ProcessEnds
  <2> QED
    BY <1>3, <1>12, <2>1 DEF ProcessEnds
<1>13. CASE Application
  BY <1>2, <1>3, <1>13 DEF Application
<1>14. CASE LoopStep
  BY <1>2, <1>3, <1>14 DEF LoopStep
<1> QED
  BY <1>4, <1>5, <1>6, <1>7, <1>8, <1>9, <1>10, <1>11, <1>12, <1>13, <1>14
  DEF Next, Callbacks, Constructor, ReadLoop

-----------------------------------------------------------------------------
(* What the host reads.                                                    *)

Events == {"STARTED", "FINISHED"} \X J!Entries

\* Names of one thing in the two components and the codec.
LEMMA SameSets ==
  /\ J!Entries = JP!Entries /\ J!Methods = JP!Methods /\ J!Keys = JP!Keys
  /\ H!JitMessages = HP!JitMessages /\ H!MessageType = HP!MessageType
  /\ H!PipeErrorCode = HP!PipeErrorCode
BY DEF J!Entries, JP!Entries, J!Methods, JP!Methods, J!Keys, JP!Keys, J!Key, JP!Key,
       H!JitMessages, HP!JitMessages, H!MessageType, HP!MessageType,
       H!PipeErrorCode, HP!PipeErrorCode

\* The host reads the event of a callback, and data if the function was cached.
LEMMA EventRead ==
  ASSUME NEW type \in {"STARTED", "FINISHED"}, NEW data \in J!Entries
  PROVE  LET doc == EventDoc[<<type, data>>]
             msg == ReadByHost[doc] IN
         /\ doc \in DOMAIN ReadByHost
         /\ msg.type = EventType(type)
         /\ (DOMAIN msg.data = {}) = (data = Null)
         /\ data # Null =>
              /\ Lookup(msg.data, "MetadataToken") = <<Metadata[data].token>>
              /\ Lookup(msg.data, "TypeName") = FetchedName(Metadata[data].type)
              /\ Lookup(msg.data, "MethodName") = FetchedName(Metadata[data].name)
              /\ Lookup(msg.data, "ModuleName") = FetchedPath(Metadata[data].module)
<1> DEFINE x == <<type, data>>
           doc == EventDoc[x]
           msg == ReadByHost[doc]
<1>1. x \in Events /\ DOMAIN EventDoc = Events /\ x[1] = type /\ x[2] = data
  BY DEF Events, EventDoc
<1>2. doc = serialize(EventType(type), DataOf(data))
  BY <1>1 DEF EventDoc, Events
<1>3. doc \in DOMAIN ReadByHost
  BY <1>1 DEF ReadByHost
<1>4. msg = Deserialize(doc)
  BY <1>3 DEF ReadByHost
<1>5. EventType(type) \in MessageTypes
  BY DEF EventType, MessageTypes
<1>6. CASE data = Null
  <2>1. msg = [type |-> EventType(type), data |-> EmptyDictionary]
    BY <1>2, <1>4, <1>5, <1>6, HostReadsNoData DEF DataOf
  <2>2. msg.type = EventType(type) /\ DOMAIN msg.data = {}
    BY <2>1 DEF EmptyDictionary
  <2> QED
    BY <1>3, <1>6, <2>2
<1>7. CASE data # Null
  <2> DEFINE f == Metadata[data]
             read == Deserialize(serialize(EventType(type), dataMap(f)))
  <2>1. msg = read
    BY <1>2, <1>4, <1>7 DEF DataOf
  <2>2. /\ read.type = EventType(type) /\ DOMAIN read.data # {}
        /\ Lookup(read.data, "MetadataToken") = <<f.token>>
        /\ Lookup(read.data, "TypeName") = FetchedName(f.type)
        /\ Lookup(read.data, "MethodName") = FetchedName(f.name)
        /\ Lookup(read.data, "ModuleName") = FetchedPath(f.module)
    <3> HIDE DEF f
    <3> QED
      BY <1>5, FunctionRead
  <2> HIDE DEF msg, read, doc
  <2>3. (DOMAIN msg.data = {}) = (data = Null)
    BY <1>7, <2>1, <2>2
  <2> QED
    BY <1>3, <2>1, <2>2, <2>3 DEF doc, msg
<1> QED
  BY <1>6, <1>7

\* The engine writes document doc for message m.
Meant(doc, m) ==
  \/ m = "INIT" /\ doc = InitDoc
  \/ m = "TRACER_ERROR" /\ doc = ErrorDoc
  \/ \E x \in Events : m = EventType(x[1]) /\ doc = EventDoc[x]

\* The host reads every document as the message it was written for.
LEMMA MeantRead ==
  ASSUME NEW doc, NEW m, Meant(doc, m)
  PROVE  doc \in DOMAIN ReadByHost /\ ReadAs(doc, m)
<1>1. CASE m = "INIT" /\ doc = InitDoc
  <2>1. doc \in DOMAIN ReadByHost /\ ReadByHost[doc] = Deserialize(doc)
    BY <1>1 DEF ReadByHost
  <2>2. ReadByHost[doc] = [type |-> "INIT", data |-> EmptyDictionary]
    BY <1>1, <2>1, HostReadsNoData DEF InitDoc, MessageTypes
  <2> QED
    BY <1>1, <2>1, <2>2 DEF ReadAs
<1>2. CASE m = "TRACER_ERROR" /\ doc = ErrorDoc
  <2>1. doc \in DOMAIN ReadByHost /\ ReadByHost[doc] = Deserialize(doc)
    BY <1>2 DEF ReadByHost
  <2> QED
    BY <1>2, <2>1, SettingsErrorRead DEF ErrorDoc, ReadAs
<1>3. ASSUME NEW x \in Events, m = EventType(x[1]), doc = EventDoc[x]
      PROVE  doc \in DOMAIN ReadByHost /\ ReadAs(doc, m)
  <2>1. x = <<x[1], x[2]>> /\ x[1] \in {"STARTED", "FINISHED"} /\ x[2] \in J!Entries
    BY DEF Events
  <2>2. doc \in DOMAIN ReadByHost /\ ReadByHost[doc].type = m
    BY <1>3, <2>1, EventRead
  <2>3. m # "TRACER_ERROR"
    BY <1>3 DEF EventType
  <2> QED
    BY <2>2, <2>3 DEF ReadAs
<1> QED
  BY <1>1, <1>2, <1>3 DEF Meant

\* Only documents about JIT events are read as such.
LEMMA NodeShown ==
  ASSUME NEW doc, NEW m, Meant(doc, m)
  PROVE  /\ ReadByHost[doc].type = m
         /\ m \in H!JitMessages => Node(ReadByHost[doc]) \in ShownNodes
<1>1. ReadByHost[doc].type = m
  BY MeantRead DEF ReadAs
<1>2. ASSUME m \in H!JitMessages PROVE Node(ReadByHost[doc]) \in ShownNodes
  <2>1. PICK x \in Events : doc = EventDoc[x]
    BY <1>2 DEF Meant, H!JitMessages
  <2>2. DOMAIN Shown = Events /\ Shown[x] = Node(ReadByHost[EventDoc[x]])
    BY DEF Shown, EventDoc, Events
  <2> QED
    BY <2>1, <2>2 DEF ShownNodes
<1> QED
  BY <1>1, <1>2

-----------------------------------------------------------------------------
(* The documents in the pipe and in the buffer.                            *)

\* The first n elements of a sequence.
LEMMA Front ==
  ASSUME NEW S, NEW s \in Seq(S), NEW n \in 0..Len(s)
  PROVE  /\ SubSeq(s, 1, n) \in Seq(S) /\ Len(SubSeq(s, 1, n)) = n
         /\ \A i \in 1..n : SubSeq(s, 1, n)[i] = s[i]
OBVIOUS

\* Each document stands for the message beside it.
StandFor(ds, ms) ==
  /\ ds \in Seq(DOMAIN ReadByHost) /\ Len(ds) = Len(ms)
  /\ \A i \in 1..Len(ms) : Meant(ds[i], ms[i])

DocsInv == StandFor(docs, toHost) /\ StandFor(buff, cur) /\ tree \in Seq(ShownNodes)

\* What the engine writes is meant.
LEMMA WrittenMeant ==
  ASSUME NEW msg \in Logged
  PROVE  Meant(EventDoc[<<msg.type, msg.data>>], EventType(msg.type))
<1> DEFINE x == <<msg.type, msg.data>>
<1>1. x \in Events /\ x[1] = msg.type
  BY SameSets DEF Logged, JP!Messages, Events
<1> QED
  BY <1>1 DEF Meant

\* A document and its message come at the end.
LEMMA StandsAppended ==
  ASSUME NEW S, NEW ds, NEW ms \in Seq(S), NEW doc, NEW m \in S,
         StandFor(ds, ms), Meant(doc, m)
  PROVE  StandFor(Append(ds, doc), Append(ms, m))
<1>1. doc \in DOMAIN ReadByHost
  BY MeantRead
<1>2. ds \in Seq(DOMAIN ReadByHost)
  BY DEF StandFor
<1>3. /\ Append(ds, doc) \in Seq(DOMAIN ReadByHost) /\ Len(Append(ds, doc)) = Len(ds) + 1
      /\ \A i \in 1..Len(ds) : Append(ds, doc)[i] = ds[i]
      /\ Append(ds, doc)[Len(ds) + 1] = doc
  BY <1>1, <1>2, AppendProperties
<1>4. /\ Len(Append(ms, m)) = Len(ms) + 1 /\ Len(ms) \in Nat
      /\ \A i \in 1..Len(ms) : Append(ms, m)[i] = ms[i]
      /\ Append(ms, m)[Len(ms) + 1] = m
  BY AppendProperties, LenProperties
<1> QED
  BY <1>3, <1>4 DEF StandFor

\* No step parts a document from its message.
LEMMA DocsStep ==
  ASSUME HP!TypeOK, HP!LoopInv, JP!TypeOK, JP!Stacks, DocsInv, [Next]_vars
  PROVE  DocsInv'
<1>1. /\ toHost \in Seq(HP!MessageType) /\ cur \in Seq(HP!MessageType)
      /\ Len(toHost) \in Nat /\ Len(docs) = Len(toHost) /\ Len(buff) = Len(cur)
      /\ docs \in Seq(DOMAIN ReadByHost) /\ buff \in Seq(DOMAIN ReadByHost)
  BY DEF HP!TypeOK, HP!DataOK, DocsInv, StandFor
<1>2. ASSUME UNCHANGED <<cur, buff, tree>>, StandFor(docs', toHost') PROVE DocsInv'
  BY <1>2 DEF DocsInv, StandFor
<1>3. CASE Shrinks
  <2> DEFINE n == Len(toHost')
  <2>1. /\ n <= Len(toHost) /\ \A i \in 1..n : toHost'[i] = toHost[i]
        /\ docs' = SubSeq(docs, 1, n) /\ UNCHANGED <<cur, buff, tree>>
    BY <1>3 DEF Shrinks
  <2>2. n \in Nat
    BY HP!DataStep, StepsOfComponents, SessionAssumed, LenProperties DEF HP!TypeOK, HP!DataOK
  <2> HIDE DEF n
  <2>3. /\ docs' \in Seq(DOMAIN ReadByHost) /\ Len(docs') = n
        /\ \A i \in 1..n : docs'[i] = docs[i]
    <3>1. n \in 0..Len(docs)
      BY <1>1, <2>1, <2>2
    <3> QED
      BY <1>1, <2>1, <3>1, Front
  <2>4. \A i \in 1..n : Meant(docs[i], toHost[i])
    BY <1>1, <2>1, <2>2 DEF DocsInv, StandFor
  <2>5. StandFor(docs', toHost')
    BY <2>1, <2>3, <2>4 DEF n, StandFor
  <2> QED
    BY <1>2, <2>1, <2>5
<1>4. ASSUME NEW doc, NEW m \in HP!MessageType, Writes(doc, m), Meant(doc, m)
      PROVE  DocsInv'
  <2>1. StandFor(Append(docs, doc), Append(toHost, m))
    BY <1>1, <1>4, StandsAppended DEF DocsInv
  <2> QED
    BY <1>2, <1>4, <2>1 DEF Writes
<1>5. CASE WritesInit
  BY <1>4, <1>5 DEF WritesInit, Meant, HP!MessageType
<1>6. CASE WritesError
  BY <1>4, <1>6 DEF WritesError, Meant, HP!MessageType
<1>7. ASSUME NEW msg \in Logged, WritesEvent(msg) PROVE DocsInv'
  <2>1. EventType(msg.type) \in HP!MessageType
    BY DEF EventType, HP!MessageType, HP!JitMessages
  <2> QED
    BY <1>4, <1>7, <2>1, WrittenMeant DEF WritesEvent
<1>8. CASE ReadMessage
  <2>1. /\ toHost # <<>> /\ cur' = <<Head(toHost)>> /\ toHost' = Tail(toHost)
        /\ buff' = <<Head(docs)>> /\ docs' = Tail(docs) /\ tree' = tree
    BY <1>8 DEF ReadMessage, H!ReadMessage
  <2>2. docs # <<>> /\ Len(toHost) >= 1
    BY <1>1, <2>1
  <2>3. /\ Head(docs) = docs[1] /\ Head(toHost) = toHost[1]
        /\ docs[1] \in DOMAIN ReadByHost /\ Meant(docs[1], toHost[1])
    BY <1>1, <2>2 DEF DocsInv, StandFor
  <2>4. /\ docs' \in Seq(DOMAIN ReadByHost) /\ Len(docs') = Len(docs) - 1
        /\ \A i \in 1..(Len(docs) - 1) : docs'[i] = docs[i + 1]
    BY <1>1, <2>1, <2>2
  <2>5. /\ Len(toHost') = Len(toHost) - 1
        /\ \A i \in 1..(Len(toHost) - 1) : toHost'[i] = toHost[i + 1]
    BY <1>1, <2>1
  <2>6. \A i \in 1..(Len(toHost) - 1) : Meant(docs[i + 1], toHost[i + 1])
    BY <1>1 DEF DocsInv, StandFor
  <2>7. StandFor(docs', toHost')
    BY <1>1, <2>4, <2>5, <2>6 DEF StandFor
  <2>8. StandFor(buff', cur')
    BY <2>1, <2>3 DEF StandFor
  <2> QED
    BY <2>1, <2>7, <2>8 DEF DocsInv, StandFor
<1>9. CASE Reply
  <2>1. /\ UNCHANGED <<docs, toHost, tree>>
        /\ cur' \in {<<>>, cur}
        /\ buff' = IF cur' = <<>> THEN <<>> ELSE buff
    BY <1>9 DEF Reply, H!Reply
  <2>2. CASE cur' = <<>>
    <3>1. StandFor(buff', cur')
      BY <2>1, <2>2 DEF StandFor
    <3> QED
      BY <2>1, <3>1 DEF DocsInv, StandFor
  <2>3. CASE cur' # <<>>
    BY <2>1, <2>3 DEF DocsInv, StandFor
  <2> QED
    BY <2>2, <2>3
<1>10. CASE Notify
  <2>1. /\ UNCHANGED <<docs, toHost>> /\ cur' = <<>> /\ buff' = <<>> /\ srv = "notifying"
        /\ tree' = IF H!Hears(cur[1]) /\ cur[1] \notin FaultyHandlers
                   THEN OnPipeMessageReceived(ReadByHost[buff[1]]) ELSE tree
    BY <1>10 DEF Notify, H!NotifyAndKeepReading, H!pipeVars
  <2>2. Meant(buff[1], cur[1])
    BY <1>1, <2>1 DEF HP!LoopInv, DocsInv, StandFor
  <2>3. tree' \in Seq(ShownNodes)
    <3>1. ReadByHost[buff[1]].type \in H!JitMessages => Node(ReadByHost[buff[1]]) \in ShownNodes
      BY <2>2, NodeShown
    <3> QED
      BY <2>1, <3>1 DEF OnPipeMessageReceived, DocsInv
  <2>4. StandFor(buff', cur')
    BY <2>1 DEF StandFor
  <2> QED
    BY <2>1, <2>3, <2>4 DEF DocsInv, StandFor
<1>11. CASE UNCHANGED vars
  BY <1>11 DEF vars, sessionVars, DocsInv, StandFor
<1> QED
  BY <1>1, <1>3, <1>5, <1>6, <1>7, <1>8, <1>9, <1>10, <1>11, StepSorted

-----------------------------------------------------------------------------
(* The replies.                                                            *)

RepliesInv ==
  /\ Len(replies) = Len(toEngine)
  /\ replies \in Seq({Serialize("INIT", code) : code \in HP!PipeErrorCode})
  /\ \A i \in 1..Len(toEngine) : replies[i] = Serialize("INIT", toEngine[i])

\* How a step changes the replies: it may close an end of the pipe, read the
\* only reply, or write one.
LEMMA RepliesSorted ==
  ASSUME [Next]_vars
  PROVE  \/ /\ toEngine' \in {toEngine, H!Accepted(toEngine), <<>>}
            /\ replies' = SubSeq(replies, 1, Len(toEngine'))
         \/ UNCHANGED <<toEngine, replies>>
         \/ ReadReply
         \/ /\ H!ReplyCode \in HP!PipeErrorCode
            /\ toEngine' = Append(toEngine, H!ReplyCode)
            /\ replies' = Append(replies, Serialize("INIT", H!ReplyCode))
<1> DEFINE Closes == /\ toEngine' \in {toEngine, H!Accepted(toEngine), <<>>}
                     /\ replies' = SubSeq(replies, 1, Len(toEngine'))
<1> USE DEF H!engineVars, H!pipeVars, H!hostVars, H!histVars, H!ClientCloses, H!ServerCloses,
            H!EngineLeaves
<1>1. UNCHANGED sessionVars => toEngine' = toEngine
  BY DEF sessionVars
<1>2. H!Kill \/ H!Shutdown => toEngine' = <<>>
  BY DEF H!Kill, H!Shutdown
<1>3. ASSUME NEW t \in Threads, CallbackStep(t) PROVE Closes
  BY <1>1, <1>2, <1>3 DEF CallbackStep, Survives, KeepDocs
<1>4. ASSUME NEW t \in Threads, CallbackSends(t) PROVE UNCHANGED <<toEngine, replies>>
  BY <1>4 DEF CallbackSends, H!SendMessage
<1>5. CASE AccessFaults
  BY <1>1, <1>2, <1>5 DEF AccessFaults, Survives, KeepDocs
<1>6. CASE OpenPipe
  BY <1>6 DEF OpenPipe, H!OpenPipe
<1>7. CASE SettingsInvalid
  BY <1>7 DEF SettingsInvalid, H!SettingsInvalid
<1>8. CASE ConstructorStep
  BY <1>8 DEF ConstructorStep, KeepDocs, H!OpenFails, H!ReadReplyThrows, H!SettingsLoaded,
              H!SettingsThrow, H!ErrorWritten, H!ErrorWriteThrows
<1>9. CASE ProcessEnds
  BY <1>2, <1>9 DEF ProcessEnds, KeepDocs
<1>10. CASE Application
  BY <1>10 DEF Application, KeepDocs, H!Application, H!Subscribe, H!ResumeTracer, H!Dispose,
               H!HostDies
<1>11. CASE ReadMessage
  BY <1>11 DEF ReadMessage, H!ReadMessage
<1>12. CASE LoopStep
  BY <1>12 DEF LoopStep, KeepDocs, H!WaitForConnection, H!ReadNothing
<1>13. CASE Reply
  <2>1. toEngine' \in {toEngine, Append(toEngine, H!ReplyCode)}
    BY <1>13 DEF Reply, H!Reply
  <2>2. H!ReplyCode \in HP!PipeErrorCode
    BY DEF H!ReplyCode, HP!PipeErrorCode
  <2> QED
    BY <1>13, <2>1, <2>2 DEF Reply
<1>14. CASE Notify
  BY <1>14 DEF Notify, H!NotifyAndKeepReading
<1>15. CASE UNCHANGED vars
  BY <1>1, <1>15 DEF vars
<1> QED
  BY <1>3, <1>4, <1>5, <1>6, <1>7, <1>8, <1>9, <1>10, <1>11, <1>12, <1>13, <1>14, <1>15
  DEF Next, Callbacks, Constructor, ReadLoop

\* A reply carries the code of the message beside it.
LEMMA RepliesStep ==
  ASSUME HP!TypeOK, HP!HandshakeInv, RepliesInv, [Next]_vars
  PROVE  RepliesInv'
<1> DEFINE R == {Serialize("INIT", code) : code \in HP!PipeErrorCode}
<1>1. /\ toEngine \in Seq(HP!PipeErrorCode) /\ Len(toEngine) \in Nat
      /\ replies \in Seq(R) /\ Len(replies) = Len(toEngine)
      /\ \A i \in 1..Len(toEngine) : replies[i] = Serialize("INIT", toEngine[i])
  BY DEF HP!TypeOK, HP!DataOK, RepliesInv
<1> HIDE DEF R
<1>2. SUFFICES /\ Len(replies') = Len(toEngine') /\ replies' \in Seq(R)
               /\ \A i \in 1..Len(toEngine') : replies'[i] = Serialize("INIT", toEngine'[i])
  BY DEF RepliesInv, R
<1>3. CASE /\ toEngine' \in {toEngine, H!Accepted(toEngine), <<>>}
           /\ replies' = SubSeq(replies, 1, Len(toEngine'))
  <2>1. /\ Len(HP!Accepted(toEngine)) <= Len(toEngine) /\ Len(HP!Accepted(toEngine)) \in Nat
        /\ \A i \in 1..Len(HP!Accepted(toEngine)) : HP!Accepted(toEngine)[i] = toEngine[i]
    <3>1. /\ HP!Accepted(toEngine) \in Seq(HP!PipeErrorCode)
          /\ Len(HP!Accepted(toEngine)) <= Len(toEngine)
          /\ \A i \in 1..Len(HP!Accepted(toEngine)) : HP!Accepted(toEngine)[i] = toEngine[i]
      BY <1>1, HP!AcceptedPrefix, SessionAssumed
    <3> QED
      BY <3>1, LenProperties
  <2>2. H!Accepted(toEngine) = HP!Accepted(toEngine)
    BY DEF H!Accepted, HP!Accepted
  <2>3. Len(toEngine') \in 0..Len(toEngine) /\ \A i \in 1..Len(toEngine') : toEngine'[i] = toEngine[i]
    <3>1. CASE toEngine' = <<>>
      BY <1>1, <3>1
    <3>2. CASE toEngine' = toEngine
      BY <1>1, <3>2
    <3>3. CASE toEngine' = HP!Accepted(toEngine)
      BY <1>1, <2>1, <3>3
    <3> QED
      BY <1>3, <2>2, <3>1, <3>2, <3>3
  <2>4. /\ replies' \in Seq(R) /\ Len(replies') = Len(toEngine')
        /\ \A i \in 1..Len(toEngine') : replies'[i] = replies[i]
    BY <1>1, <1>3, <2>3, Front
  <2> QED
    BY <1>1, <2>3, <2>4
<1>4. CASE UNCHANGED <<toEngine, replies>>
  BY <1>1, <1>4
<1>5. CASE ReadReply
  <2>1. /\ toEngine # <<>> /\ toEngine' \in {Tail(toEngine), <<>>}
        /\ replies' = SubSeq(Tail(replies), 1, Len(toEngine'))
    BY <1>5 DEF ReadReply, H!ReadReply, H!ClientCloses
  <2>2. Len(toEngine) = 1
    BY <1>1, <2>1, EmptySeq DEF HP!HandshakeInv
  <2>3. toEngine' = <<>>
    BY <1>1, <2>1, <2>2
  <2>4. replies' = <<>>
    <3>1. Tail(replies) \in Seq(R)
      <4>1. Len(replies) = 1 /\ replies \in Seq(R)
        BY <1>1, <2>2
      <4>2. replies # <<>>
        BY <4>1
      <4> QED
        BY <4>1, <4>2, HeadTailProperties
    <3>2. 0 \in 0..Len(Tail(replies)) /\ Len(toEngine') = 0
      BY <2>3, <3>1, LenProperties
    <3>3. replies' \in Seq(R) /\ Len(replies') = 0
      BY <2>1, <3>1, <3>2, Front
    <3> QED
      BY <3>3, EmptySeq
  <2> QED
    BY <2>3, <2>4
<1>6. CASE /\ H!ReplyCode \in HP!PipeErrorCode
           /\ toEngine' = Append(toEngine, H!ReplyCode)
           /\ replies' = Append(replies, Serialize("INIT", H!ReplyCode))
  <2> DEFINE code == H!ReplyCode
             doc == Serialize("INIT", code)
  <2>1. code \in HP!PipeErrorCode /\ doc \in R
    BY <1>6 DEF R
  <2>2. toEngine' = Append(toEngine, code) /\ replies' = Append(replies, doc)
    BY <1>6
  <2> HIDE DEF code
  <2>3. /\ Len(toEngine') = Len(toEngine) + 1 /\ toEngine'[Len(toEngine) + 1] = code
        /\ \A i \in 1..Len(toEngine) : toEngine'[i] = toEngine[i]
    BY <1>1, <2>1, <2>2, AppendProperties
  <2> HIDE DEF doc
  <2>4. /\ replies' \in Seq(R) /\ Len(replies') = Len(replies) + 1
        /\ replies'[Len(replies) + 1] = doc
        /\ \A i \in 1..Len(replies) : replies'[i] = replies[i]
    BY <1>1, <2>1, <2>2, AppendProperties
  <2> QED
    BY <1>1, <2>3, <2>4 DEF doc
<1> QED
  BY <1>3, <1>4, <1>5, <1>6, RepliesSorted

-----------------------------------------------------------------------------
(* Both sides mean the same.                                               *)

\* The documents stand for the messages, in every state of the system.
LEMMA DocsInductive == Spec => [](DocsInv /\ RepliesInv)
<1>1. Init => DocsInv /\ RepliesInv
  BY SameSession DEF Init, HP!Init, DocsInv, StandFor, RepliesInv
<1>2. HP!IInv /\ JP!IInv /\ DocsInv /\ RepliesInv /\ [Next]_vars => (DocsInv /\ RepliesInv)'
  BY DocsStep, RepliesStep DEF HP!IInv, JP!IInv
<1> QED
  BY <1>1, <1>2, SessionInductive, CallbacksInductive, PTL DEF Spec

\* The variables of the system keep to their types, and a document is in the
\* pipe, a reply or the buffer for each message there.
THEOREM TypeInvariance == Spec => []TypeOK
<1>1. HP!IInv /\ JP!IInv /\ DocsInv /\ RepliesInv => TypeOK
  <2> SUFFICES ASSUME HP!IInv, JP!IInv, DocsInv, RepliesInv PROVE TypeOK
    OBVIOUS
  <2>1. J!TypeOK /\ H!TypeOK
    BY SameSession, SameCallbacks DEF HP!IInv, JP!IInv
  <2>2. \A node \in ShownNodes : node.event \in H!JitMessages
    <3> SUFFICES ASSUME NEW x \in DOMAIN Shown PROVE Shown[x].event \in H!JitMessages
      BY DEF ShownNodes
    <3>1. x = <<x[1], x[2]>> /\ x[1] \in {"STARTED", "FINISHED"} /\ x[2] \in J!Entries
      BY DEF Shown, EventDoc
    <3>2. Shown[x].event = EventType(x[1])
      BY <3>1, EventRead DEF Shown, Node
    <3> QED
      BY <3>2 DEF EventType, H!JitMessages
  <2>3. \A i \in 1..Len(tree) : tree[i].event \in H!JitMessages
    BY <2>2, ElementOfSeq DEF DocsInv
  <2> QED
    BY <2>1, <2>3 DEF DocsInv, StandFor, RepliesInv, TypeOK
<1> QED
  BY <1>1, SessionInductive, CallbacksInductive, DocsInductive, PTL

\* Whatever is written, lost and cut off on the way, what one side writes is
\* read by the other one as the message that was meant.
THEOREM SidesDoAgree == Spec => []SidesAgree
<1>1. HP!IInv /\ DocsInv /\ RepliesInv => SidesAgree
  <2> SUFFICES ASSUME HP!IInv, DocsInv, RepliesInv PROVE SidesAgree
    OBVIOUS
  <2>1. \A i \in 1..Len(docs) : ReadAs(docs[i], toHost[i])
    BY MeantRead DEF DocsInv, StandFor
  <2>2. \A i \in 1..Len(buff) : ReadAs(buff[i], cur[i])
    BY MeantRead DEF DocsInv, StandFor
  <2>3. ASSUME NEW i \in 1..Len(replies) PROVE ReplyError(replies[i]) = toEngine[i]
    <3>1. toEngine \in Seq(HP!PipeErrorCode)
      BY DEF HP!IInv, HP!TypeOK, HP!DataOK
    <3>2. toEngine[i] \in HP!PipeErrorCode /\ replies[i] = Serialize("INIT", toEngine[i])
      BY <2>3, <3>1, ElementOfSeq DEF RepliesInv
    <3>3. "INIT" \in MessageTypes /\ toEngine[i] \in ErrorCodes
      BY <3>2 DEF MessageTypes, ErrorCodes, HP!PipeErrorCode
    <3> QED
      BY <3>2, <3>3, EngineReads
  <2> QED
    BY <2>1, <2>2, <2>3 DEF SidesAgree
<1> QED
  BY <1>1, SessionInductive, DocsInductive, PTL

-----------------------------------------------------------------------------
(* The log and what is written of it.                                      *)

\* Nothing is logged before the callbacks come.  Behind the INIT, an error or
\* the log is written from its first entry on, and all of it while the pipe is
\* open.
SentInv ==
  /\ phase \in Early => log = <<>>
  /\ \A i \in 2..Len(sent) :
       sent[i] = "TRACER_ERROR" \/ (i - 1 <= Len(log) /\ sent[i] = EventType(log[i - 1].type))
  /\ mPipe /\ hostOpen /\ phase # "reporting" => Len(sent) = Len(log) + 1

\* The log only grows, at its end.
LEMMA LogGrows ==
  ASSUME JP!TypeOK, log' = log \/ \E msg \in Logged : log' = Append(log, msg)
  PROVE  /\ Len(log) \in Nat /\ Len(log') \in Nat /\ Len(log) <= Len(log')
         /\ \A i \in 1..Len(log) : log'[i] = log[i]
<1>1. log \in Seq(Logged) /\ Len(log) \in Nat
  BY DEF JP!TypeOK, Logged
<1>2. ASSUME NEW msg \in Logged, log' = Append(log, msg)
      PROVE  Len(log') = Len(log) + 1 /\ \A i \in 1..Len(log) : log'[i] = log[i]
  BY <1>1, <1>2, AppendProperties
<1> QED
  BY <1>1, <1>2

\* A message that is written comes after those that were.
LEMMA SentGrows ==
  ASSUME HP!TypeOK, NEW m \in HP!MessageType, sent' = Append(sent, m)
  PROVE  /\ Len(sent) \in Nat /\ Len(sent') = Len(sent) + 1 /\ sent'[Len(sent) + 1] = m
         /\ \A i \in 1..Len(sent) : sent'[i] = sent[i]
<1>1. sent \in Seq(HP!MessageType)
  BY DEF HP!TypeOK, HP!DataOK
<1> QED
  BY <1>1, AppendProperties, LenProperties

\* What a step does to the log.
LEMMA LogMoves ==
  ASSUME \/ Silent \/ WritesInit \/ WritesError \/ (\E msg \in Logged : WritesEvent(msg))
         \/ ReadMessage \/ Reply \/ Notify \/ UNCHANGED vars
  PROVE  log' = log \/ \E msg \in Logged : log' = Append(log, msg)
BY DEF Silent, WritesInit, WritesError, WritesEvent, ReadMessage, Reply, Notify, vars, jitVars

\* No step leaves out an entry of the log that could be written.
LEMMA SentStep ==
  ASSUME HP!TypeOK, HP!EngineInv, JP!TypeOK, JP!Stacks, DocsInv, SentInv, [Next]_vars
  PROVE  SentInv'
<1>0. /\ \/ Shrinks /\ Silent
         \/ WritesInit \/ WritesError \/ \E msg \in Logged : WritesEvent(msg)
         \/ ReadMessage \/ Reply \/ Notify
         \/ UNCHANGED vars
      /\ log' = log \/ \E msg \in Logged : log' = Append(log, msg)
  BY StepSorted, LogMoves DEF DocsInv, StandFor
<1>1. /\ Len(log) \in Nat /\ Len(log') \in Nat /\ Len(log) <= Len(log')
      /\ \A i \in 1..Len(log) : log'[i] = log[i]
  BY <1>0, LogGrows
<1>2. Len(sent) \in Nat
  BY DEF HP!TypeOK, HP!DataOK
\* What has been written stands for what it stood for.
<1>3. ASSUME NEW i \in 2..Len(sent), sent'[i] = sent[i]
      PROVE  \/ sent'[i] = "TRACER_ERROR"
             \/ i - 1 <= Len(log') /\ sent'[i] = EventType(log'[i - 1].type)
  <2>1. CASE sent[i] = "TRACER_ERROR"
    BY <1>3, <2>1
  <2>2. CASE sent[i] # "TRACER_ERROR"
    <3>1. i - 1 <= Len(log) /\ sent[i] = EventType(log[i - 1].type)
      BY <2>2 DEF SentInv
    <3>2. i - 1 \in 1..Len(log)
      BY <1>1, <1>2, <3>1
    <3> QED
      BY <1>1, <1>3, <3>1, <3>2
  <2> QED
    BY <2>1, <2>2
<1>4. CASE Shrinks /\ Silent
  <2>1. sent' = sent
    BY <1>4 DEF Shrinks
  <2>2. phase' \in Early => log' = <<>>
    BY <1>4 DEF Silent, SentInv, Early
  <2>3. mPipe' /\ hostOpen' /\ phase' # "reporting" => Len(sent') = Len(log') + 1
    BY <1>4, <2>1 DEF Shrinks, Silent, SentInv
  <2> QED
    BY <1>3, <2>1, <2>2, <2>3 DEF SentInv
<1>5. CASE WritesInit
  <2>1. /\ sent' = Append(sent, "INIT") /\ log' = log /\ phase = "starting"
        /\ sent = <<>> /\ log = <<>>
    BY <1>5 DEF WritesInit, Writes, SentInv, Early, HP!EngineInv
  <2>2. Len(sent') = 1 /\ Len(log') = 0
    BY <2>1
  <2> QED
    BY <2>1, <2>2 DEF SentInv
<1>6. CASE WritesError
  <2>1. /\ sent' = Append(sent, "TRACER_ERROR") /\ log' = log /\ log = <<>>
        /\ phase' = "reporting"
    BY <1>6 DEF WritesError, Writes, SentInv, Early
  <2>2. "TRACER_ERROR" \in HP!MessageType
    BY DEF HP!MessageType
  <2>3. /\ Len(sent') = Len(sent) + 1 /\ sent'[Len(sent) + 1] = "TRACER_ERROR"
        /\ \A i \in 1..Len(sent) : sent'[i] = sent[i]
    BY <2>1, <2>2, SentGrows
  <2>4. ASSUME NEW i \in 2..Len(sent')
        PROVE  \/ sent'[i] = "TRACER_ERROR"
               \/ i - 1 <= Len(log') /\ sent'[i] = EventType(log'[i - 1].type)
    BY <1>2, <1>3, <2>3
  <2> QED
    BY <2>1, <2>4 DEF SentInv
<1>7. ASSUME NEW msg \in Logged, WritesEvent(msg) PROVE SentInv'
  <2> DEFINE m == EventType(msg.type)
  <2>1. /\ sent' = Append(sent, m) /\ log' = Append(log, msg)
        /\ phase' \notin Early /\ phase' # "reporting" /\ Len(sent) = Len(log) + 1
    BY <1>7 DEF WritesEvent, Writes, SentInv, Early
  <2>2. m \in HP!MessageType
    BY DEF EventType, HP!MessageType, HP!JitMessages
  <2> HIDE DEF m
  <2>3. /\ Len(sent') = Len(sent) + 1 /\ sent'[Len(sent) + 1] = m
        /\ \A i \in 1..Len(sent) : sent'[i] = sent[i]
    BY <2>1, <2>2, SentGrows
  <2>4. Len(log') = Len(log) + 1 /\ log'[Len(log) + 1] = msg
    <3>1. log \in Seq(Logged)
      BY DEF JP!TypeOK, Logged
    <3> QED
      BY <2>1, <3>1, AppendProperties
  <2>5. ASSUME NEW i \in 2..Len(sent')
        PROVE  \/ sent'[i] = "TRACER_ERROR"
               \/ i - 1 <= Len(log') /\ sent'[i] = EventType(log'[i - 1].type)
    <3>1. CASE i \in 2..Len(sent)
      BY <1>3, <2>3, <3>1
    <3>2. CASE i = Len(sent) + 1
      <4>1. i - 1 = Len(log) + 1
        BY <1>1, <2>1, <3>2
      <4> QED
        BY <1>1, <2>3, <2>4, <3>2, <4>1 DEF m
    <3> QED
      BY <1>2, <2>3, <3>1, <3>2
  <2>6. Len(sent') = Len(log') + 1
    BY <1>1, <2>1, <2>3, <2>4
  <2> QED
    BY <2>1, <2>5, <2>6 DEF SentInv
<1>8. CASE ReadMessage \/ Reply \/ Notify
  <2>1. UNCHANGED <<phase, mPipe, hostOpen, sent, log>>
    BY <1>8 DEF ReadMessage, H!ReadMessage, Reply, H!Reply, Notify, H!NotifyAndKeepReading,
                jitVars, H!engineVars, H!pipeVars, H!histVars
  <2> QED
    BY <2>1 DEF SentInv
<1>9. CASE UNCHANGED vars
  BY <1>9 DEF vars, jitVars, sessionVars, SentInv
<1> QED
  BY <1>0, <1>4, <1>5, <1>6, <1>7, <1>8, <1>9

\* What is written is the log, in every state of the system.
LEMMA SentInductive == Spec => []SentInv
<1>1. Init => SentInv
  <2>1. Init => log = <<>> /\ sent = <<>> /\ mPipe = FALSE
    BY SameCallbacks, SameSession DEF Init, JP!Init, HP!Init
  <2> QED
    BY <2>1 DEF SentInv
<1>2. HP!IInv /\ JP!IInv /\ DocsInv /\ SentInv /\ [Next]_vars => SentInv'
  BY SentStep DEF HP!IInv, JP!IInv
<1> QED
  BY <1>1, <1>2, SessionInductive, CallbacksInductive, DocsInductive, PTL DEF Spec

-----------------------------------------------------------------------------
(* The tree and the log, when the handlers are attached before the process *)
(* runs.                                                                   *)

\* The document of message n of messages s, behind the INIT of which go the
\* entries of l.
DocFor(s, l, n) ==
  IF n = 1 THEN InitDoc
  ELSE IF s[n] = "TRACER_ERROR" THEN ErrorDoc
  ELSE EventDoc[<<l[n - 1].type, l[n - 1].data>>]

\* The node of entry i of l.
NodeFor(l, i) == Shown[<<l[i].type, l[i].data>>]

\* The read loop has not ended.
Reads == srv \in {"waiting", "reading", "replying", "notifying"}

\* The buffer and the pipe hold the documents behind those that have been
\* handled, in turn, and the tree has a node for each entry of the log that was.
Queued ==
  /\ \A i \in 1..Len(docs) : docs[i] = DocFor(sent, log, Len(raised) + Len(cur) + i)
  /\ \A i \in 1..Len(buff) : buff[i] = DocFor(sent, log, Len(raised) + i)

Grown ==
  /\ Len(tree) <= Len(log)
  /\ \A i \in 1..Len(tree) : tree[i] = NodeFor(log, i)

Handled ==
  Reads =>
    IF raised = <<>> THEN tree = <<>>
    ELSE raised[Len(raised)] = "TRACER_ERROR" \/ Len(tree) = Len(raised) - 1

TreeInv == Queued /\ Grown /\ Handled

\* The document of a message that has been written stays its document.
LEMMA DocumentStays ==
  ASSUME JP!TypeOK, SentInv, Len(sent) \in Nat, NEW n \in 1..Len(sent), sent'[n] = sent[n],
         log' = log \/ \E msg \in Logged : log' = Append(log, msg)
  PROVE  DocFor(sent', log', n) = DocFor(sent, log, n)
<1>1. CASE n = 1 \/ sent[n] = "TRACER_ERROR"
  BY <1>1 DEF DocFor
<1>2. CASE n # 1 /\ sent[n] # "TRACER_ERROR"
  <2>1. n \in 2..Len(sent)
    BY <1>2
  <2>2. n - 1 <= Len(log)
    BY <1>2, <2>1 DEF SentInv
  <2>3. n - 1 \in 1..Len(log) /\ \A i \in 1..Len(log) : log'[i] = log[i]
    BY <2>1, <2>2, LogGrows
  <2>4. log'[n - 1] = log[n - 1]
    BY <2>3
  <2> QED
    BY <1>2, <2>4 DEF DocFor
<1> QED
  BY <1>1, <1>2

\* So do the nodes of the log.
LEMMA NodesStay ==
  ASSUME JP!TypeOK, Grown, tree \in Seq(ShownNodes), tree' = tree,
         log' = log \/ \E msg \in Logged : log' = Append(log, msg)
  PROVE  Grown'
<1>1. /\ Len(log) \in Nat /\ Len(log') \in Nat /\ Len(log) <= Len(log')
      /\ \A i \in 1..Len(log) : log'[i] = log[i]
  BY LogGrows
<1>2. Len(tree) \in Nat /\ Len(tree) <= Len(log) /\ \A i \in 1..Len(tree) : tree[i] = NodeFor(log, i)
  BY DEF Grown
<1>3. ASSUME NEW i \in 1..Len(tree) PROVE NodeFor(log', i) = NodeFor(log, i)
  <2>1. i \in 1..Len(log)
    BY <1>1, <1>2
  <2>2. log'[i] = log[i]
    BY <1>1, <2>1
  <2> QED
    BY <2>2 DEF NodeFor
<1> QED
  BY <1>1, <1>2, <1>3 DEF Grown

\* What is written behind the session's messages is the document of its message.
LEMMA WriteAt ==
  ASSUME HP!TypeOK, HP!EngineInv, JP!TypeOK, SentInv, NEW doc, NEW m, Writes(doc, m),
         \/ doc = InitDoc /\ m = "INIT" /\ WritesInit
         \/ doc = ErrorDoc /\ m = "TRACER_ERROR" /\ WritesError
         \/ \E msg \in Logged : /\ doc = EventDoc[<<msg.type, msg.data>>]
                                /\ m = EventType(msg.type) /\ WritesEvent(msg)
  PROVE  doc = DocFor(sent', log', Len(sent) + 1)
<1>1. Len(sent) \in Nat /\ sent' = Append(sent, m)
  BY LenProperties DEF HP!TypeOK, HP!DataOK, Writes
<1>2. CASE doc = InitDoc /\ WritesInit
  <2>1. sent = <<>>
    BY <1>2 DEF WritesInit, HP!EngineInv
  <2>2. Len(sent) = 0
    BY <2>1
  <2> QED
    BY <1>2, <2>2 DEF DocFor
<1>3. CASE doc = ErrorDoc /\ m = "TRACER_ERROR" /\ WritesError
  <2>1. Len(sent) >= 1
    BY <1>3 DEF WritesError, HP!EngineInv
  <2>2. m \in HP!MessageType
    BY <1>3 DEF HP!MessageType
  <2>3. sent'[Len(sent) + 1] = m
    BY <1>1, <2>2, SentGrows
  <2>4. Len(sent) + 1 # 1
    BY <1>1, <2>1
  <2> QED
    BY <1>3, <2>3, <2>4 DEF DocFor
<1>4. ASSUME NEW msg \in Logged, doc = EventDoc[<<msg.type, msg.data>>],
             m = EventType(msg.type), WritesEvent(msg)
      PROVE  doc = DocFor(sent', log', Len(sent) + 1)
  <2>1. m \in HP!MessageType /\ m # "TRACER_ERROR"
    BY <1>4 DEF EventType, HP!MessageType, HP!JitMessages
  <2>2. sent'[Len(sent) + 1] = m
    BY <1>1, <2>1, SentGrows
  <2>3. Len(sent) = Len(log) + 1 /\ log' = Append(log, msg)
    BY <1>4 DEF WritesEvent, SentInv, Early
  <2>4. log \in Seq(Logged)
    BY DEF JP!TypeOK, Logged
  <2>5. Len(log) \in Nat /\ log'[Len(log) + 1] = msg
    BY <2>3, <2>4, AppendProperties, LenProperties
  <2>6. Len(sent) + 1 # 1 /\ (Len(sent) + 1) - 1 = Len(log) + 1
    BY <2>3, <2>5
  <2> QED
    BY <1>4, <2>1, <2>2, <2>5, <2>6 DEF DocFor
<1> QED
  BY <1>2, <1>3, <1>4

\* The handler of the next message of sent, which is number n, adds the node of
\* its entry of the log if it is about one, unless it throws.
LEMMA Notified ==
  ASSUME SuspendedLaunch, HP!IInv, JP!TypeOK, DocsInv, SentInv, TreeInv, Notify,
         NEW n, n = Len(raised) + 1
  PROVE  /\ n \in 1..Len(sent) /\ sent[n] \in HP!MessageType
         /\ raised' = Append(raised, sent[n])
         /\ cur[1] = sent[n] /\ H!Hears(cur[1])
         /\ sent[n] \notin H!JitMessages \/ sent[n] \in FaultyHandlers => tree' = tree
         /\ sent[n] \in H!JitMessages /\ sent[n] \notin FaultyHandlers =>
              /\ n \in 2..Len(sent) /\ Len(tree) = n - 2 /\ n - 1 \in 1..Len(log)
              /\ NodeFor(log, n - 1) \in ShownNodes
              /\ tree' = Append(tree, NodeFor(log, n - 1))
<1>1. /\ cur \in Seq(HP!MessageType) /\ raised \in Seq(HP!MessageType)
      /\ Len(sent) \in Nat /\ Len(raised) \in Nat /\ Len(cur) \in Nat /\ Len(toHost) \in Nat
  BY LenProperties DEF HP!IInv, HP!TypeOK, HP!DataOK
<1>2. HP!LoopInv /\ HP!EngineInv
  BY DEF HP!IInv
<1>3. /\ Len(raised) + Len(cur) + Len(toHost) <= Len(sent)
      /\ \A i \in 1..Len(raised) : raised[i] = sent[i]
      /\ \A i \in 1..Len(cur) : cur[i] = sent[Len(raised) + i]
  BY HP!NoneMissed, SessionAssumed DEF HP!IInv, HP!Handled
<1>4. /\ srv = "notifying" /\ Reads
      /\ raised' = IF H!Hears(cur[1]) THEN raised \o cur ELSE raised
      /\ tree' = IF H!Hears(cur[1]) /\ cur[1] \notin FaultyHandlers
                 THEN OnPipeMessageReceived(ReadByHost[buff[1]]) ELSE tree
  BY DEF Notify, H!NotifyAndKeepReading, Reads
<1>5. /\ n \in 1..Len(sent) /\ cur[1] = sent[n] /\ cur = <<cur[1]>>
      /\ cur[1] \in HP!MessageType /\ Len(cur) = 1
  <2>1. Len(cur) = 1
    BY <1>2, <1>4 DEF HP!LoopInv
  <2>2. cur = <<cur[1]>> /\ cur[1] \in HP!MessageType
    BY <1>1, <2>1
  <2> QED
    BY <1>1, <1>3, <2>1, <2>2
<1>6. H!Hears(cur[1])
  <2>1. subscribed = HP!Events
    BY <1>1, <1>2, <1>5 DEF HP!EngineInv
  <2> QED
    BY <2>1 DEF HP!Events, H!Hears, H!EventOf
<1>7. raised' = Append(raised, sent[n])
  <2>1. Append(raised, cur[1]) = raised \o <<cur[1]>>
    BY <1>1, <1>5, AppendIsConcat
  <2> QED
    BY <1>4, <1>5, <1>6, <2>1
<1>8. /\ Meant(buff[1], cur[1]) /\ buff[1] = DocFor(sent, log, n)
      /\ ReadByHost[buff[1]].type = cur[1]
  <2>1. Meant(buff[1], cur[1]) /\ 1 \in 1..Len(buff)
    BY <1>5 DEF DocsInv, StandFor
  <2>2. buff[1] = DocFor(sent, log, n)
    BY <2>1 DEF TreeInv, Queued
  <2> QED
    BY <2>1, <2>2, NodeShown
<1>9. ASSUME sent[n] \notin H!JitMessages \/ sent[n] \in FaultyHandlers PROVE tree' = tree
  BY <1>4, <1>5, <1>8, <1>9 DEF OnPipeMessageReceived
<1>10. ASSUME sent[n] \in H!JitMessages, sent[n] \notin FaultyHandlers
       PROVE  /\ n \in 2..Len(sent) /\ Len(tree) = n - 2 /\ n - 1 \in 1..Len(log)
              /\ NodeFor(log, n - 1) \in ShownNodes
              /\ tree' = Append(tree, NodeFor(log, n - 1))
  <2> DEFINE node == Node(ReadByHost[buff[1]])
  <2>1. tree' = Append(tree, node) /\ node \in ShownNodes
    BY <1>4, <1>5, <1>6, <1>8, <1>10, NodeShown DEF OnPipeMessageReceived
  <2>2. sent[n] # "TRACER_ERROR" /\ n # 1 /\ n \in 2..Len(sent)
    <3>1. sent[n] # "TRACER_ERROR" /\ sent[n] # "INIT"
      BY <1>10 DEF H!JitMessages
    <3>2. n # 1
      BY <1>2, <1>5, <3>1 DEF HP!EngineInv
    <3> QED
      BY <1>1, <1>5, <3>1, <3>2
  <2>3. raised # <<>> /\ raised[Len(raised)] # "TRACER_ERROR"
    <3>1. Len(raised) >= 1 /\ Len(raised) \in 1..Len(raised) /\ Len(raised) \in 1..Len(sent)
      BY <1>1, <1>5, <2>2
    <3>2. raised[Len(raised)] = sent[Len(raised)]
      BY <1>3, <3>1
    <3>3. sent[Len(raised)] = "TRACER_ERROR" => Len(raised) = Len(sent)
      BY <1>2, <3>1 DEF HP!EngineInv
    <3>4. Len(raised) # Len(sent) /\ raised # <<>>
      BY <1>1, <1>5, <3>1
    <3> QED
      BY <3>2, <3>3, <3>4
  <2>4. Len(tree) = n - 2
    BY <1>1, <1>4, <2>3 DEF TreeInv, Handled
  <2>5. n - 1 \in 1..Len(log)
    <3>1. n - 1 <= Len(log)
      BY <2>2 DEF SentInv
    <3> QED
      BY <2>2, <3>1, LogGrows
  <2>6. node = NodeFor(log, n - 1)
    <3>1. log[n - 1] \in Logged
      BY <2>5, ElementOfSeq DEF JP!TypeOK, Logged
    <3>2. <<log[n - 1].type, log[n - 1].data>> \in Events
      BY <3>1, SameSets DEF Logged, JP!Messages, Events
    <3>3. buff[1] = EventDoc[<<log[n - 1].type, log[n - 1].data>>]
      BY <1>8, <2>2 DEF DocFor
    <3>4. DOMAIN EventDoc = Events
      BY DEF EventDoc, Events
    <3> QED
      BY <3>2, <3>3, <3>4 DEF NodeFor, Shown
  <2> QED
    BY <2>1, <2>2, <2>4, <2>5, <2>6
<1> QED
  BY <1>5, <1>6, <1>7, <1>9, <1>10

\* No step leaves out, repeats or swaps a document or a node.
LEMMA TreeStep ==
  ASSUME SuspendedLaunch, HP!IInv, Whole, JP!TypeOK, JP!Stacks, DocsInv, SentInv,
         TreeInv, [Next]_vars
  PROVE  TreeInv'
<1>0. /\ \/ Shrinks /\ Silent
         \/ WritesInit \/ WritesError \/ \E msg \in Logged : WritesEvent(msg)
         \/ ReadMessage \/ Reply \/ Notify
         \/ UNCHANGED vars
      /\ log' = log \/ \E msg \in Logged : log' = Append(log, msg)
  BY StepSorted, LogMoves DEF DocsInv, StandFor, HP!IInv
<1>1. /\ sent \in Seq(HP!MessageType) /\ raised \in Seq(HP!MessageType)
      /\ cur \in Seq(HP!MessageType) /\ toHost \in Seq(HP!MessageType)
      /\ Len(sent) \in Nat /\ Len(raised) \in Nat /\ Len(cur) \in Nat /\ Len(toHost) \in Nat
  BY LenProperties DEF HP!IInv, HP!TypeOK, HP!DataOK
<1>2. /\ Len(raised) + Len(cur) + Len(toHost) <= Len(sent)
      /\ \A i \in 1..Len(cur) : cur[i] = sent[Len(raised) + i]
      /\ (mPipe \/ phase = "exited") /\ hostOpen =>
           Len(raised) + Len(cur) + Len(toHost) = Len(sent)
  BY HP!NoneMissed, SessionAssumed DEF HP!IInv, HP!Handled, Whole
<1>3. /\ docs \in Seq(DOMAIN ReadByHost) /\ buff \in Seq(DOMAIN ReadByHost)
      /\ tree \in Seq(ShownNodes)
      /\ Len(docs) = Len(toHost) /\ Len(buff) = Len(cur)
  BY DEF DocsInv, StandFor
<1>4. HP!TypeOK /\ HP!LoopInv /\ HP!EngineInv /\ HP!DeliveryInv
  BY DEF HP!IInv
<1>5. ASSUME tree' = tree PROVE Grown'
  BY <1>0, <1>3, <1>5, NodesStay DEF TreeInv
<1>6. ASSUME NEW n \in 1..Len(sent), sent'[n] = sent[n]
      PROVE  DocFor(sent', log', n) = DocFor(sent, log, n)
  BY <1>0, <1>1, <1>6, DocumentStays
\* The documents of the pipe and the buffer have a place in sent.
<1>7. /\ \A i \in 1..Len(docs) : /\ Len(raised) + Len(cur) + i \in 1..Len(sent)
                                 /\ docs[i] = DocFor(sent, log, Len(raised) + Len(cur) + i)
      /\ \A i \in 1..Len(buff) : /\ Len(raised) + i \in 1..Len(sent)
                                 /\ buff[i] = DocFor(sent, log, Len(raised) + i)
  BY <1>1, <1>2, <1>3 DEF TreeInv, Queued
<1>8. CASE Shrinks /\ Silent
  <2>1. UNCHANGED <<sent, raised, cur, buff, tree>> /\ (Reads' => Reads)
    BY <1>8 DEF Shrinks, Reads
  <2>2. Len(docs') \in 0..Len(docs) /\ \A i \in 1..Len(docs') : docs'[i] = docs[i]
    <3> DEFINE n == Len(toHost')
    <3>1. n <= Len(toHost) /\ docs' = SubSeq(docs, 1, n)
      BY <1>8 DEF Shrinks
    <3>2. n \in Nat
      BY <1>4, HP!DataStep, StepsOfComponents, SessionAssumed, LenProperties
      DEF HP!TypeOK, HP!DataOK
    <3> HIDE DEF n
    <3>3. n \in 0..Len(docs)
      BY <1>1, <1>3, <3>1, <3>2
    <3>4. Len(docs') = n /\ \A i \in 1..n : docs'[i] = docs[i]
      BY <1>3, <3>1, <3>3, Front
    <3> QED
      BY <3>3, <3>4
  <2>3. ASSUME NEW i \in 1..Len(docs')
        PROVE  docs'[i] = DocFor(sent', log', Len(raised') + Len(cur') + i)
    <3>1. i \in 1..Len(docs)
      BY <1>1, <1>3, <2>2
    <3>2. docs'[i] = docs[i] /\ Len(raised) + Len(cur) + i \in 1..Len(sent)
      BY <1>7, <2>2, <3>1
    <3> QED
      BY <1>6, <1>7, <2>1, <3>1, <3>2
  <2>4. ASSUME NEW i \in 1..Len(buff')
        PROVE  buff'[i] = DocFor(sent', log', Len(raised') + i)
    <3>1. Len(raised) + i \in 1..Len(sent) /\ buff[i] = DocFor(sent, log, Len(raised) + i)
      BY <1>7, <2>1
    <3> QED
      BY <1>6, <2>1, <3>1
  <2>5. Handled'
    BY <2>1 DEF TreeInv, Handled
  <2> QED
    BY <1>5, <2>1, <2>3, <2>4, <2>5 DEF TreeInv, Queued
\* A document is written.
<1>9. ASSUME NEW doc, NEW m \in HP!MessageType, Writes(doc, m),
             Len(raised) + Len(cur) + Len(toHost) = Len(sent),
             doc = DocFor(sent', log', Len(sent) + 1), doc \in DOMAIN ReadByHost
      PROVE  TreeInv'
  <2>1. /\ UNCHANGED <<raised, cur, buff, tree, srv>>
        /\ sent' = Append(sent, m) /\ docs' = Append(docs, doc)
    BY <1>9 DEF Writes
  <2>2. \A i \in 1..Len(sent) : sent'[i] = sent[i]
    BY <1>4, <2>1, SentGrows
  <2>3. /\ Len(docs') = Len(docs) + 1 /\ docs'[Len(docs) + 1] = doc
        /\ \A i \in 1..Len(docs) : docs'[i] = docs[i]
    <3>1. docs \in Seq(DOMAIN ReadByHost) /\ doc \in DOMAIN ReadByHost
      BY <1>3, <1>9
    <3> QED
      BY <2>1, <3>1, AppendProperties
  <2>4. ASSUME NEW i \in 1..Len(docs')
        PROVE  docs'[i] = DocFor(sent', log', Len(raised') + Len(cur') + i)
    <3>1. CASE i \in 1..Len(docs)
      <4>1. Len(raised) + Len(cur) + i \in 1..Len(sent)
        BY <1>7, <3>1
      <4>2. docs'[i] = DocFor(sent, log, Len(raised) + Len(cur) + i)
        BY <1>7, <2>3, <3>1
      <4> QED
        BY <1>6, <2>1, <2>2, <4>1, <4>2
    <3>2. CASE i = Len(docs) + 1
      <4>1. Len(raised) + Len(cur) + i = Len(sent) + 1
        BY <1>1, <1>3, <1>9, <3>2
      <4>2. Len(raised') + Len(cur') + i = Len(sent) + 1
        BY <2>1, <4>1
      <4>3. docs'[i] = doc
        BY <2>3, <3>2
      <4> QED
        BY <1>9, <4>2, <4>3
    <3> QED
      BY <1>1, <1>3, <2>3, <3>1, <3>2
  <2>5. ASSUME NEW i \in 1..Len(buff')
        PROVE  buff'[i] = DocFor(sent', log', Len(raised') + i)
    <3>1. Len(raised) + i \in 1..Len(sent) /\ buff[i] = DocFor(sent, log, Len(raised) + i)
      BY <1>7, <2>1
    <3> QED
      BY <1>6, <2>1, <2>2, <3>1
  <2>6. Handled'
    BY <2>1 DEF TreeInv, Handled, Reads
  <2> QED
    BY <1>5, <2>1, <2>4, <2>5, <2>6 DEF TreeInv, Queued
<1>10. CASE WritesInit
  <2>1. Writes(InitDoc, "INIT") /\ "INIT" \in HP!MessageType /\ sent = <<>>
    BY <1>4, <1>10 DEF WritesInit, HP!MessageType, HP!EngineInv
  <2>2. Len(raised) + Len(cur) + Len(toHost) = Len(sent)
    <3>1. Len(sent) = 0
      BY <2>1
    <3> QED
      BY <1>1, <1>2, <3>1
  <2>3. InitDoc = DocFor(sent', log', Len(sent) + 1)
    BY <1>4, <1>10, <2>1, WriteAt
  <2>4. InitDoc \in DOMAIN ReadByHost
    BY DEF ReadByHost
  <2> QED
    BY <1>9, <2>1, <2>2, <2>3, <2>4
<1>11. CASE WritesError
  <2>1. Writes(ErrorDoc, "TRACER_ERROR") /\ "TRACER_ERROR" \in HP!MessageType
    BY <1>11 DEF WritesError, HP!MessageType
  <2>2. Len(raised) + Len(cur) + Len(toHost) = Len(sent)
    BY <1>2, <1>11 DEF WritesError
  <2>3. ErrorDoc = DocFor(sent', log', Len(sent) + 1)
    BY <1>4, <1>11, <2>1, WriteAt
  <2>4. ErrorDoc \in DOMAIN ReadByHost
    BY DEF ReadByHost
  <2> QED
    BY <1>9, <2>1, <2>2, <2>3, <2>4
<1>12. ASSUME NEW msg \in Logged, WritesEvent(msg) PROVE TreeInv'
  <2> DEFINE doc == EventDoc[<<msg.type, msg.data>>]
             m == EventType(msg.type)
  <2>1. Writes(doc, m) /\ m \in HP!MessageType
    BY <1>12 DEF WritesEvent, EventType, HP!MessageType, HP!JitMessages
  <2>2. Len(raised) + Len(cur) + Len(toHost) = Len(sent)
    BY <1>2, <1>12 DEF WritesEvent
  <2>3. doc = DocFor(sent', log', Len(sent) + 1)
    BY <1>4, <1>12, <2>1, WriteAt
  <2>4. doc \in DOMAIN ReadByHost
    BY WrittenMeant, MeantRead
  <2> HIDE DEF doc, m
  <2> QED
    BY <1>9, <2>1, <2>2, <2>3, <2>4
<1>13. CASE ReadMessage
  <2>1. /\ UNCHANGED <<sent, raised, tree, log>> /\ Reads
        /\ toHost # <<>> /\ srv = "reading" /\ Len(cur') = 1
        /\ buff' = <<Head(docs)>> /\ docs' = Tail(docs)
    BY <1>13 DEF ReadMessage, H!ReadMessage, H!histVars, jitVars, Reads
  <2>2. Len(cur) = 0 /\ Len(docs) >= 1
    BY <1>1, <1>3, <1>4, <2>1, EmptySeq DEF HP!LoopInv
  <2>3. docs[1] = DocFor(sent, log, Len(raised) + 1)
    BY <1>1, <1>3, <1>7, <2>2
  <2>4. /\ Len(docs') = Len(docs) - 1 /\ Head(docs) = docs[1]
        /\ \A i \in 1..Len(docs') : docs'[i] = docs[i + 1]
    BY <1>3, <2>1, <2>2
  <2>5. ASSUME NEW i \in 1..Len(docs')
        PROVE  docs'[i] = DocFor(sent', log', Len(raised') + Len(cur') + i)
    <3>1. i + 1 \in 1..Len(docs) /\ Len(raised) + 1 + i = Len(raised) + Len(cur) + (i + 1)
      BY <1>1, <1>3, <2>2, <2>4
    <3> QED
      BY <1>7, <2>1, <2>4, <3>1
  <2>6. \A i \in 1..Len(buff') : buff'[i] = DocFor(sent', log', Len(raised') + i)
    BY <2>1, <2>3, <2>4
  <2>7. Handled'
    BY <2>1 DEF TreeInv, Handled, Reads
  <2> QED
    BY <1>5, <2>1, <2>5, <2>6, <2>7 DEF TreeInv, Queued
<1>14. CASE Reply
  <2>1. /\ UNCHANGED <<sent, raised, tree, log, docs, cur>> /\ Reads
    BY <1>4, <1>14 DEF Reply, H!Reply, H!histVars, jitVars, Reads, HP!DeliveryInv
  <2>2. Len(cur) = 1
    BY <1>4, <1>14 DEF Reply, H!Reply, HP!LoopInv
  <2>3. cur # <<>>
    BY <2>2
  <2>4. buff' = buff
    BY <1>14, <2>1, <2>3 DEF Reply
  <2>5. Queued' /\ Handled'
    BY <2>1, <2>4 DEF TreeInv, Queued, Handled
  <2> QED
    BY <1>5, <2>1, <2>5 DEF TreeInv
<1>15. CASE Notify
  <2> DEFINE n == Len(raised) + 1
  <2>1. /\ UNCHANGED <<sent, log, docs>> /\ cur' = <<>> /\ buff' = <<>>
        /\ Reads /\ (Reads' => ~(H!Hears(cur[1]) /\ cur[1] \in FaultyHandlers))
    BY <1>15 DEF Notify, H!NotifyAndKeepReading, H!pipeVars, jitVars, Reads
  <2> HIDE DEF n
  <2>2. /\ n = Len(raised) + 1 /\ n \in 1..Len(sent) /\ sent[n] \in HP!MessageType
        /\ raised' = Append(raised, sent[n]) /\ cur[1] = sent[n] /\ H!Hears(cur[1])
        /\ sent[n] \notin H!JitMessages \/ sent[n] \in FaultyHandlers => tree' = tree
        /\ sent[n] \in H!JitMessages /\ sent[n] \notin FaultyHandlers =>
             /\ n \in 2..Len(sent) /\ Len(tree) = n - 2 /\ n - 1 \in 1..Len(log)
             /\ NodeFor(log, n - 1) \in ShownNodes
             /\ tree' = Append(tree, NodeFor(log, n - 1))
    <3>1. n = Len(raised) + 1
      BY DEF n
    <3> QED
      BY <1>15, <3>1, Notified
  <2>3. Len(raised') = n /\ raised'[n] = sent[n] /\ raised' # <<>>
    BY <1>1, <2>2, AppendProperties
  <2>4. Queued'
    <3>1. ASSUME NEW i \in 1..Len(docs')
          PROVE  docs'[i] = DocFor(sent', log', Len(raised') + Len(cur') + i)
      <4>1. Len(cur') = 0 /\ Len(cur) = 1
        BY <1>4, <1>15, <2>1 DEF Notify, H!NotifyAndKeepReading, HP!LoopInv
      <4>2. Len(raised') + Len(cur') + i = Len(raised) + Len(cur) + i
        BY <1>1, <2>2, <2>3, <4>1
      <4> QED
        BY <1>7, <2>1, <4>2
    <3>2. Len(buff') = 0
      BY <2>1
    <3> QED
      BY <3>1, <3>2 DEF Queued
  \* A message that is no event of a callback, or has a handler that throws, leaves the tree.
  <2>5. CASE sent[n] \notin H!JitMessages \/ sent[n] \in FaultyHandlers
    <3>1. Handled'
      <4> SUFFICES ASSUME Reads', sent[n] # "TRACER_ERROR" PROVE Len(tree') = Len(raised') - 1
        BY <2>3 DEF Handled
      <4>1. sent[n] = "INIT"
        BY <2>1, <2>2, <2>5, SameSets DEF HP!MessageType
      <4>2. n = 1
        BY <1>4, <2>2, <4>1 DEF HP!EngineInv
      <4>3. raised = <<>>
        BY <1>1, <2>2, <4>2, EmptySeq
      <4>4. tree = <<>>
        BY <2>1, <4>3 DEF TreeInv, Handled
      <4> QED
        BY <2>2, <2>3, <2>5, <4>2, <4>4
    <3> QED
      BY <1>5, <2>2, <2>4, <2>5, <3>1 DEF TreeInv
  \* Else it adds the next node.
  <2>6. CASE sent[n] \in H!JitMessages /\ sent[n] \notin FaultyHandlers
    <3> DEFINE node == NodeFor(log, n - 1)
               k == Len(tree)
    <3>1. /\ k = n - 2 /\ n - 1 \in 1..Len(log) /\ node \in ShownNodes
          /\ tree' = Append(tree, node) /\ n \in Nat
      BY <2>2, <2>6
    <3>2. /\ k \in Nat /\ Len(tree') = k + 1 /\ tree'[k + 1] = node
          /\ \A i \in 1..k : tree'[i] = tree[i]
      <4> HIDE DEF node
      <4> QED
        BY <1>3, <3>1, AppendProperties, LenProperties
    <3> HIDE DEF k
    <3>3. Grown'
      <4>1. \A i \in 1..k : tree[i] = NodeFor(log, i)
        BY DEF TreeInv, Grown, k
      <4>2. Len(tree') = n - 1 /\ k + 1 = n - 1 /\ n - 1 <= Len(log)
        BY <3>1, <3>2
      <4>3. \A i \in 1..Len(tree') : tree'[i] = NodeFor(log', i)
        BY <2>1, <3>2, <4>1, <4>2
      <4> QED
        BY <2>1, <4>2, <4>3 DEF Grown
    <3>4. Handled'
      BY <2>3, <3>1, <3>2 DEF Handled
    <3> QED
      BY <2>4, <3>3, <3>4 DEF TreeInv
  <2> QED
    BY <2>5, <2>6
<1>16. CASE UNCHANGED vars
  BY <1>16 DEF vars, jitVars, sessionVars, TreeInv, Queued, Grown, Handled, Reads
<1> QED
  BY <1>0, <1>8, <1>10, <1>11, <1>12, <1>13, <1>14, <1>15, <1>16

LEMMA TreeInductive == ASSUME SuspendedLaunch PROVE Spec => []TreeInv
<1>1. Init => TreeInv
  <2>1. Init => /\ docs = <<>> /\ buff = <<>> /\ tree = <<>> /\ raised = <<>>
                /\ log = <<>>
    BY SameCallbacks, SameSession DEF Init, JP!Init, HP!Init
  <2>2. Init => Queued /\ Grown /\ Handled
    BY <2>1 DEF Queued, Grown, Handled
  <2> QED
    BY <2>2 DEF TreeInv
<1>2. HP!IInv /\ Whole /\ JP!IInv /\ DocsInv /\ SentInv /\ TreeInv /\ [Next]_vars
      => TreeInv'
  BY TreeStep DEF JP!IInv
<1> QED
  BY <1>1, <1>2, SessionInductive, NeverGarbled, CallbacksInductive, DocsInductive,
     SentInductive, PTL
  DEF Spec

-----------------------------------------------------------------------------
(* The names in the tree.                                                  *)

\* A message has the data of the method it is about or none, if ids fit an int.
LEMMA AboutInductive == Spec => [](IdsFit => JP!AboutInv)
<1>1. Init => JP!AboutInv
  BY SameCallbacks, JP!StartsSilent, CallbacksAssumed DEF Init
<1>2. IdsFit => JP!IdsAreMethods
  BY DEF IdsFit, JP!IdsAreMethods, J!Key, JP!Key
<1>3. JP!AboutInv /\ MemoryIsGone => JP!AboutInv'
  <2> SUFFICES ASSUME JP!AboutInv, MemoryIsGone PROVE JP!AboutInv'
    OBVIOUS
  <2>1. /\ pc' = [t \in Threads |-> "managed"] /\ log' = log
        /\ mFuncMap' = [k \in JP!Keys |-> Unmapped]
    BY DEF MemoryIsGone, J!Keys, JP!Keys, J!Key, JP!Key
  <2>2. JP!CacheOK' /\ JP!CallbackOK'
    BY <2>1 DEF JP!CacheOK, JP!CallbackOK, JP!InStarted
  <2>3. JP!LogOK'
    BY <2>1 DEF JP!AboutInv, JP!LogOK
  <2> QED
    BY <2>2, <2>3 DEF JP!AboutInv
<1>4. IdsFit /\ JP!IInv /\ JP!AboutInv /\ [Next]_vars => JP!AboutInv'
  <2>1. JP!IdsAreMethods /\ JP!IInv /\ JP!AboutInv /\ [JP!Next]_(JP!vars) => JP!AboutInv'
    BY JP!AboutStep, CallbacksAssumed
  <2> QED
    BY <1>2, <1>3, <2>1, StepsOfComponents DEF CallbacksMove
<1>5. JP!IInv /\ (IdsFit => JP!AboutInv) /\ [Next]_vars => (IdsFit => JP!AboutInv)'
  BY <1>4 DEF IdsFit
<1> QED
  BY <1>1, <1>5, CallbacksInductive, PTL DEF Spec

\* A text with one part before its first NUL is shown as that part.
LEMMA ShownUpToNul ==
  ASSUME NEW S, NEW text \in Seq(S), Len(text) >= 1, text[1] # "NUL",
         Len(text) = 1 \/ text[2] = "NUL"
  PROVE  UpToNul(text) = <<text[1]>>
<1> DEFINE P(n) == /\ \A i \in 1..n : text[i] # "NUL"
                   /\ n = Len(text) \/ text[n + 1] = "NUL"
<1>1. Len(text) \in Nat
  BY LenProperties
<1>2. 1 \in 0..Len(text) /\ P(1)
  BY <1>1
<1>3. ASSUME NEW n \in 0..Len(text), P(n) PROVE n = 1
  <2>1. n # 0
    BY <1>1, <1>3
  <2>2. n < 2
    <3> SUFFICES ASSUME n >= 2 PROVE FALSE
      BY <1>1
    <3>1. 2 \in 1..n /\ Len(text) # 1
      BY <1>1, <1>3
    <3>2. text[2] # "NUL"
      BY <1>3, <3>1
    <3> QED
      BY <3>1, <3>2
  <2> QED
    BY <1>1, <2>1, <2>2
<1>4. (CHOOSE n \in 0..Len(text) : P(n)) = 1
  <2> HIDE DEF P
  <2> QED
    BY <1>2, <1>3
<1>5. UpToNul(text) = SubSeq(text, 1, 1)
  BY <1>4 DEF UpToNul
<1>6. /\ SubSeq(text, 1, 1) \in Seq(S) /\ Len(SubSeq(text, 1, 1)) = 1
      /\ SubSeq(text, 1, 1)[1] = text[1]
  BY <1>1, Front
<1>7. SubSeq(text, 1, 1) = <<text[1]>>
  <2> DEFINE front == SubSeq(text, 1, 1)
  <2>1. front \in Seq(S)
    BY <1>6
  <2>2. Len(front) = 1 /\ front[1] = text[1]
    BY <1>6
  <2> HIDE DEF front
  <2>3. front = <<front[1]>>
    BY <2>1, <2>2
  <2> QED
    BY <2>2, <2>3 DEF front
<1> QED
  BY <1>5, <1>7

\* A name that was fetched into a longer string is shown as the name, and so
\* are a path and a token.
LEMMA FetchedShown ==
  ASSUME NEW x, x # "NUL"
  PROVE  UpToNul(FetchedName(x)) = <<x>> /\ UpToNul(FetchedPath(x)) = <<x>> /\ UpToNul(<<x>>) = <<x>>
<1> DEFINE S == {x, "NUL", "0s"}
           name == <<x, "NUL", "0s">>
           path == <<x, "NUL">>
           only == <<x>>
<1>1. name \in Seq(S) /\ Len(name) = 3 /\ name[1] = x /\ name[2] = "NUL"
  OBVIOUS
<1>2. path \in Seq(S) /\ Len(path) = 2 /\ path[1] = x /\ path[2] = "NUL"
  OBVIOUS
<1>3. only \in Seq(S) /\ Len(only) = 1 /\ only[1] = x
  OBVIOUS
<1>4. FetchedName(x) = name /\ FetchedPath(x) = path
  BY DEF FetchedName, FetchedPath
<1> HIDE DEF S, name, path, only
<1>5. UpToNul(name) = <<name[1]>>
  <2>1. name \in Seq(S) BY <1>1
  <2> QED BY <1>1, <2>1, ShownUpToNul
<1>6. UpToNul(path) = <<path[1]>>
  <2>1. path \in Seq(S) BY <1>2
  <2> QED BY <1>2, <2>1, ShownUpToNul
<1>7. UpToNul(only) = <<only[1]>>
  <2>1. only \in Seq(S) BY <1>3
  <2> QED BY <1>3, <2>1, ShownUpToNul
<1> QED
  BY <1>1, <1>2, <1>3, <1>4, <1>5, <1>6, <1>7 DEF only

\* The node of an event about method m with its data names m.
LEMMA NodeNames ==
  ASSUME NEW type \in {"STARTED", "FINISHED"}, NEW data \in J!Entries
  PROVE  LET node == Shown[<<type, data>>] IN
         /\ node.event = EventType(type)
         /\ (DOMAIN node.rows = {}) = (data = Null)
         /\ data # Null => Names(node.rows, data)
<1> DEFINE doc == EventDoc[<<type, data>>]
           msg == ReadByHost[doc]
           node == Shown[<<type, data>>]
<1>1. node = Node(msg)
  BY DEF Shown, EventDoc
<1>2. /\ msg.type = EventType(type)
      /\ (DOMAIN msg.data = {}) = (data = Null)
      /\ data # Null =>
           /\ Lookup(msg.data, "MetadataToken") = <<Metadata[data].token>>
           /\ Lookup(msg.data, "TypeName") = FetchedName(Metadata[data].type)
           /\ Lookup(msg.data, "MethodName") = FetchedName(Metadata[data].name)
           /\ Lookup(msg.data, "ModuleName") = FetchedPath(Metadata[data].module)
  BY EventRead
<1> HIDE DEF msg, node, doc
<1>3. node.event = msg.type /\ node.rows = msg.data
  BY <1>1 DEF Node
<1>4. ASSUME data # Null PROVE Names(msg.data, data)
  <2>1. data \in J!Methods
    BY <1>4 DEF J!Entries
  <2>2. /\ Metadata[data].token # "NUL" /\ Metadata[data].type # "NUL"
        /\ Metadata[data].name # "NUL" /\ Metadata[data].module # "NUL"
    <3>1. /\ DOMAIN Metadata[data] = {"token", "type", "name", "module"}
          /\ \A key \in DOMAIN Metadata[data] : Metadata[data][key] # "NUL"
      BY <2>1, MetadataAssumption
    <3> QED
      BY <3>1
  <2> QED
    BY <1>2, <1>4, <2>2, FetchedShown DEF Names
<1> QED
  BY <1>2, <1>3, <1>4 DEF node

\* The tree tells what the traced process has compiled: whatever races over the
\* cache, faults and closes the pipe, its nodes are the first events of the log
\* and name their methods.
THEOREM TreeDoesNameMethods == ASSUME SuspendedLaunch PROVE Spec => []TreeNamesMethods
<1>1. JP!IInv /\ TreeInv /\ (IdsFit => JP!AboutInv) => TreeNamesMethods
  <2> SUFFICES ASSUME JP!IInv, TreeInv, IdsFit => JP!AboutInv PROVE TreeNamesMethods
    OBVIOUS
  <2>1. Len(tree) <= Len(log)
    BY DEF TreeInv, Grown
  <2>2. log \in Seq(Logged) /\ Len(log) \in Nat
    BY DEF JP!IInv, JP!TypeOK, Logged
  <2>3. ASSUME NEW i \in 1..Len(tree)
        PROVE  /\ tree[i].event = EventType(log[i].type)
               /\ (DOMAIN tree[i].rows = {}) = (log[i].data = Null)
               /\ IdsFit /\ log[i].data # Null => Names(tree[i].rows, log[i].about)
    <3>1. i \in 1..Len(log) /\ tree[i] = Shown[<<log[i].type, log[i].data>>]
      BY <2>2 DEF TreeInv, Grown, NodeFor
    <3>2. log[i] \in Logged
      BY <2>2, <3>1, ElementOfSeq
    <3>3. log[i].type \in {"STARTED", "FINISHED"} /\ log[i].data \in J!Entries
      BY <3>2, SameSets DEF Logged, JP!Messages
    <3>4. IdsFit /\ log[i].data # Null => log[i].data = log[i].about
      BY <3>1 DEF JP!AboutInv, JP!LogOK
    <3> QED
      BY <3>1, <3>3, <3>4, NodeNames
  <2> QED
    BY <2>1, <2>3 DEF TreeNamesMethods
<1> QED
  BY <1>1, CallbacksInductive, TreeInductive, AboutInductive, PTL

-----------------------------------------------------------------------------
(* Pairs of nodes.                                                         *)

\* A Finished message has data, and but for races so has the Started one, if ids
\* fit an int.
LEMMA DataInductive == Spec => [](IdsFit => JP!DataInv)
<1>1. Init => JP!DataInv
  BY SameCallbacks, JP!StartsNamed, CallbacksAssumed DEF Init
<1>2. IdsFit => JP!IdsAreMethods
  BY DEF IdsFit, JP!IdsAreMethods, J!Key, JP!Key
<1>3. JP!DataInv /\ MemoryIsGone => JP!DataInv'
  <2> SUFFICES ASSUME JP!DataInv, MemoryIsGone PROVE JP!DataInv'
    OBVIOUS
  <2>1. /\ pc' = [t \in Threads |-> "managed"] /\ UNCHANGED <<raced, log>>
        /\ mFuncMap' = [k \in JP!Keys |-> Unmapped]
    BY DEF MemoryIsGone, J!Keys, JP!Keys, J!Key, JP!Key
  <2>2. JP!CacheNamed'
    BY <2>1, CallbacksAssumed DEF JP!CacheNamed, JP!Mapped, JP!NoMethodAssumption
  <2>3. \A t \in Threads : JP!CallNamed(t)'
    BY <2>1 DEF JP!CallNamed
  <2>4. JP!LogNamed'
    BY <2>1 DEF JP!DataInv, JP!LogNamed, JP!EntryNamed
  <2> QED
    BY <2>2, <2>3, <2>4 DEF JP!DataInv
<1>4. IdsFit /\ JP!IInv /\ JP!AboutInv /\ JP!DataInv /\ [Next]_vars => JP!DataInv'
  <2>1. /\ JP!IdsAreMethods /\ JP!IInv /\ JP!AboutInv /\ JP!DataInv
        /\ [JP!Next]_(JP!vars)
        => JP!DataInv'
    BY JP!DataStep, CallbacksAssumed
  <2> QED
    BY <1>2, <1>3, <2>1, StepsOfComponents DEF CallbacksMove
<1>5. /\ JP!IInv /\ (IdsFit => JP!AboutInv) /\ (IdsFit => JP!DataInv) /\ [Next]_vars
      => (IdsFit => JP!DataInv)'
  BY <1>4 DEF IdsFit
<1> QED
  BY <1>1, <1>5, CallbacksInductive, AboutInductive, PTL DEF Spec

\* A node has the event of its message and the rows of its document.
LEMMA NodeMade ==
  ASSUME NEW type \in {"STARTED", "FINISHED"}, NEW data \in J!Entries
  PROVE  /\ Shown[<<type, data>>] =
              [event |-> EventType(type), rows |-> Shown[<<type, data>>].rows]
         /\ Shown[<<type, data>>].rows = ReadByHost[EventDoc[<<type, data>>]].data
<1>1. Shown[<<type, data>>] = Node(ReadByHost[EventDoc[<<type, data>>]])
  BY DEF Shown, EventDoc
<1>2. ReadByHost[EventDoc[<<type, data>>]].type = EventType(type)
  BY EventRead
<1> QED
  BY <1>1, <1>2 DEF Node

\* The nodes of the two events of a function show the same rows.
LEMMA SameRows ==
  ASSUME NEW data \in J!Entries, data # Null
  PROVE  Shown[<<"STARTED", data>>].rows = Shown[<<"FINISHED", data>>].rows
<1>1. ASSUME NEW type \in {"STARTED", "FINISHED"}
      PROVE  /\ ReadByHost[EventDoc[<<type, data>>]] =
                  Deserialize(serialize(EventType(type), dataMap(Metadata[data])))
             /\ EventType(type) \in MessageTypes
  <2> DEFINE x == <<type, data>>
             doc == EventDoc[x]
  <2>1. x \in Events /\ DOMAIN EventDoc = Events /\ x[1] = type /\ x[2] = data
    BY DEF Events, EventDoc
  <2>2. doc = serialize(EventType(type), dataMap(Metadata[data]))
    BY <2>1, data # Null DEF EventDoc, Events, DataOf
  <2>3. doc \in DOMAIN ReadByHost /\ ReadByHost[doc] = Deserialize(doc)
    BY <2>1 DEF ReadByHost
  <2>4. EventType(type) \in MessageTypes
    BY DEF EventType, MessageTypes
  <2> QED
    BY <2>2, <2>3, <2>4
<1>2. ReadByHost[EventDoc[<<"STARTED", data>>]].data = ReadByHost[EventDoc[<<"FINISHED", data>>]].data
  <2> DEFINE f == Metadata[data]
             a == EventType("STARTED")
             b == EventType("FINISHED")
  <2>1. a \in MessageTypes /\ b \in MessageTypes
    BY <1>1
  <2> HIDE DEF f, a, b
  <2>2. Deserialize(serialize(a, dataMap(f))).data = Deserialize(serialize(b, dataMap(f))).data
    BY <2>1, SameFunctionRead
  <2> QED
    BY <1>1, <2>2 DEF f, a, b
<1> QED
  BY <1>2, NodeMade

\* What a Finished message closes, no other one does.
LEMMA ClosesOnce ==
  ASSUME log \in Seq(Logged), NEW i, NEW m \in 1..Len(log), NEW n \in 1..Len(log),
         i \in 1..Len(log), JP!Opens(i, m), JP!Opens(i, n)
  PROVE  m = n
<1>1. Len(log) \in Nat /\ log[m].depth \in Nat
  <2>1. Len(log) \in Nat /\ log[m] \in Logged
    BY ElementOfSeq, LenProperties
  <2> QED
    BY <2>1 DEF Logged, JP!Messages
<1>2. /\ i < m /\ i < n
      /\ log[m].thread = log[n].thread /\ log[m].depth = log[n].depth
  BY DEF JP!Opens, JP!Is
<1>3. \A k \in (i + 1)..(n - 1) : log[k].thread = log[n].thread => log[k].depth > log[n].depth
  BY DEF JP!Opens
<1>4. \A k \in (i + 1)..(m - 1) : log[k].thread = log[m].thread => log[k].depth > log[m].depth
  BY DEF JP!Opens
<1>5. ~(m < n)
  <2> SUFFICES ASSUME m < n PROVE FALSE
    OBVIOUS
  <2>1. m \in (i + 1)..(n - 1)
    BY <1>1, <1>2
  <2>2. log[m].depth > log[m].depth
    BY <1>2, <1>3, <2>1
  <2> QED
    BY <1>1, <2>2
<1>6. ~(n < m)
  <2> SUFFICES ASSUME n < m PROVE FALSE
    OBVIOUS
  <2>1. n \in (i + 1)..(m - 1)
    BY <1>1, <1>2
  <2>2. log[m].depth > log[m].depth
    BY <1>2, <1>4, <2>1
  <2> QED
    BY <1>1, <2>2
<1> QED
  BY <1>1, <1>5, <1>6

\* Behind a node that shows an end there is one, further up, that shows the
\* beginning of the compilation: with the same rows or, after a race, with none.
LEMMA NodeOpened ==
  ASSUME JP!IInv, JP!AboutInv, JP!DataInv, Grown,
         NEW j \in 1..Len(tree), tree[j].event = "JIT_COMPILATION_FINISHED"
  PROVE  \E i \in 1..(j - 1) :
           /\ i \in 1..Len(tree) /\ i \in 1..Len(log) /\ j \in 1..Len(log)
           /\ JP!Opens(i, j)
           /\ \/ tree[i] = [event |-> "JIT_COMPILATION_STARTED", rows |-> tree[j].rows]
              \/ raced /\ tree[i] = [event |-> "JIT_COMPILATION_STARTED", rows |-> Blank]
<1>1. log \in Seq(Logged) /\ Len(log) \in Nat /\ Len(tree) <= Len(log)
  BY DEF JP!IInv, JP!TypeOK, Logged, Grown
<1>2. j \in 1..Len(log) /\ tree[j] = Shown[<<log[j].type, log[j].data>>]
  BY <1>1 DEF Grown, NodeFor
<1>3. ASSUME NEW k \in 1..Len(log)
      PROVE  log[k].type \in {"STARTED", "FINISHED"} /\ log[k].data \in J!Entries
  <2>1. log[k] \in Logged
    BY <1>1, ElementOfSeq
  <2> QED
    BY <2>1, SameSets DEF Logged, JP!Messages
<1>4. log[j].type = "FINISHED"
  <2>1. tree[j].event = EventType(log[j].type)
    BY <1>2, <1>3, NodeNames
  <2> QED
    BY <1>2, <1>3, <2>1 DEF EventType
<1>5. /\ JP!Reportable(log[j].about) /\ log[j].data # Null /\ log[j].data = log[j].about
      /\ log[j].about \notin NoMetadata
  BY <1>2, <1>4 DEF JP!AboutInv, JP!LogOK, JP!DataInv, JP!LogNamed, JP!EntryNamed
<1>6. PICK i \in 1..Len(log) : JP!Opens(i, j)
  BY <1>2, <1>4, <1>5 DEF JP!IInv, JP!WellNested, JP!Closes
<1>7. i < j /\ log[i].type = "STARTED" /\ log[i].about = log[j].about
  BY <1>6 DEF JP!Opens, JP!Is
<1>8. log[i].data = log[j].data \/ (raced /\ log[i].data = Null)
  <2>1. log[i].data \in {Null, log[i].about}
    BY DEF JP!AboutInv, JP!LogOK
  <2>2. JP!EntryNamed(log[i], raced)
    BY DEF JP!DataInv, JP!LogNamed
  <2> QED
    BY <1>5, <1>7, <2>1, <2>2 DEF JP!EntryNamed
<1>9. i \in 1..(j - 1) /\ i \in 1..Len(tree)
  BY <1>1, <1>2, <1>6, <1>7
<1>10. /\ tree[i] = Shown[<<"STARTED", log[i].data>>]
       /\ tree[j] = Shown[<<"FINISHED", log[j].data>>]
  BY <1>2, <1>4, <1>7, <1>9 DEF Grown, NodeFor
<1>11. tree[i] = [event |-> "JIT_COMPILATION_STARTED", rows |-> tree[i].rows]
  <2>1. log[i].data \in J!Entries /\ EventType("STARTED") = "JIT_COMPILATION_STARTED"
    BY <1>3 DEF EventType
  <2> QED
    BY <1>10, <2>1, NodeMade
<1>12. log[i].data = log[j].data => tree[i].rows = tree[j].rows
  BY <1>2, <1>3, <1>5, <1>10, SameRows
<1>13. log[i].data = Null => tree[i].rows = Blank
  BY <1>10 DEF Blank
<1> QED
  BY <1>2, <1>6, <1>8, <1>9, <1>11, <1>12, <1>13

\* Who reads the tree can pair its nodes by what they show: read from the top,
\* it has no more ends than beginnings of what looks like one method, and after a
\* race of what names no method.
THEOREM NodesPairByName == ASSUME SuspendedLaunch PROVE Spec => []PairsByName
<1>1. ASSUME JP!IInv, TreeInv, tree \in Seq(ShownNodes),
             IdsFit => JP!AboutInv, IdsFit => JP!DataInv
      PROVE  PairsByName
  <2> SUFFICES ASSUME IdsFit, NEW n \in 1..Len(tree)
               PROVE  Count(n, "JIT_COMPILATION_FINISHED", tree[n].rows)
                        <= Count(n, "JIT_COMPILATION_STARTED", tree[n].rows)
                           + (IF raced THEN Count(n, "JIT_COMPILATION_STARTED", Blank) ELSE 0)
    BY DEF PairsByName
  <2> DEFINE rows == tree[n].rows
             At(event, r) == {i \in 1..n : tree[i] = [event |-> event, rows |-> r]}
             ends == At("JIT_COMPILATION_FINISHED", rows)
             begins == At("JIT_COMPILATION_STARTED", rows)
             blanks == IF raced THEN At("JIT_COMPILATION_STARTED", Blank) ELSE {}
             openers == begins \cup blanks
             Opener(j, i) == i \in openers /\ i \in 1..Len(log) /\ j \in 1..Len(log) /\ JP!Opens(i, j)
             f == [j \in ends |-> CHOOSE i \in openers : Opener(j, i)]
  <2>1. JP!AboutInv /\ JP!DataInv /\ Grown /\ Len(tree) \in Nat /\ log \in Seq(Logged)
    BY <1>1, LenProperties DEF TreeInv, JP!IInv, JP!TypeOK, Logged
  <2>2. ASSUME NEW j \in ends PROVE \E i \in openers : Opener(j, i)
    <3>1. /\ j \in 1..Len(tree) /\ j \in 1..n
          /\ tree[j].event = "JIT_COMPILATION_FINISHED" /\ tree[j].rows = rows
      BY <2>1
    <3>2. PICK i \in 1..(j - 1) :
            /\ i \in 1..Len(log) /\ j \in 1..Len(log) /\ JP!Opens(i, j)
            /\ \/ tree[i] = [event |-> "JIT_COMPILATION_STARTED", rows |-> tree[j].rows]
               \/ raced /\ tree[i] = [event |-> "JIT_COMPILATION_STARTED", rows |-> Blank]
      BY <1>1, <2>1, <3>1, NodeOpened
    <3>3. i \in 1..n
      BY <2>1, <3>1, <3>2
    <3>4. i \in openers
      BY <3>1, <3>2, <3>3
    <3> QED
      BY <3>2, <3>4
  <2>3. \A j \in ends : f[j] \in openers /\ Opener(j, f[j])
    <3> HIDE DEF Opener, openers
    <3> QED
      BY <2>2
  <2>4. f \in [ends -> openers]
    BY <2>3
  <2>5. ASSUME NEW j \in ends, NEW k \in ends, f[j] = f[k] PROVE j = k
    <3>1. Opener(j, f[j]) /\ Opener(k, f[j])
      BY <2>3, <2>5
    <3> HIDE DEF f
    <3> QED
      BY <2>1, <3>1, ClosesOnce
  <2>6. f \in Injection(ends, openers)
    BY <2>4, <2>5 DEF Injection, IsInjective
  <2>7. IsFiniteSet(begins) /\ IsFiniteSet(blanks)
    <3>1. begins \in SUBSET (1..n) /\ blanks \in SUBSET (1..n)
      OBVIOUS
    <3>2. IsFiniteSet(1..n)
      BY <2>1, FS_Interval
    <3> HIDE DEF begins, blanks
    <3> QED
      BY <3>1, <3>2, FS_Subset
  <2>8. /\ IsFiniteSet(openers) /\ IsFiniteSet(begins \cap blanks)
        /\ Cardinality(openers)
             = Cardinality(begins) + Cardinality(blanks) - Cardinality(begins \cap blanks)
    BY <2>7, FS_Union, FS_Intersection
  <2>9. Cardinality(ends) <= Cardinality(openers)
    BY <2>6, <2>8, FS_Injection
  <2>10. Cardinality(ends) <= Cardinality(begins) + Cardinality(blanks)
    <3>1. /\ Cardinality(ends) \in Nat /\ Cardinality(openers) \in Nat
          /\ Cardinality(begins) \in Nat /\ Cardinality(blanks) \in Nat
          /\ Cardinality(begins \cap blanks) \in Nat
      BY <2>6, <2>7, <2>8, FS_CardinalityType, FS_Injection
    <3> QED
      BY <2>8, <2>9, <3>1
  <2>11. Cardinality(blanks) = IF raced THEN Count(n, "JIT_COMPILATION_STARTED", Blank) ELSE 0
    BY FS_EmptySet DEF Count
  <2> QED
    BY <2>10, <2>11 DEF Count
<1> QED
  BY <1>1, CallbacksInductive, TreeInductive, DocsInductive, AboutInductive, DataInductive, PTL
  DEF DocsInv

-----------------------------------------------------------------------------
(* The stream of events.                                                   *)

\* How many of messages s are about events of callbacks.
Jits(s) == Cardinality({i \in 1..Len(s) : s[i] \in H!JitMessages})

\* All of them are, behind the INIT, unless the settings are reported invalid.
LEMMA JitsCounted ==
  ASSUME NEW s \in Seq(HP!MessageType),
         \A i \in 1..Len(s) : (s[i] = "INIT") <=> (i = 1),
         \A i \in 1..Len(s) : s[i] = "TRACER_ERROR" => i = 2 /\ i = Len(s)
  PROVE  Jits(s) = IF Len(s) >= 2 /\ s[2] # "TRACER_ERROR" THEN Len(s) - 1 ELSE 0
<1> DEFINE events == {i \in 1..Len(s) : s[i] \in H!JitMessages}
<1>1. Len(s) \in Nat
  OBVIOUS
<1>2. \A i \in 1..Len(s) : s[i] \in HP!MessageType
  BY ElementOfSeq
<1>3. \A i \in 1..Len(s) : i \in events <=> s[i] # "INIT" /\ s[i] # "TRACER_ERROR"
  BY <1>2, SameSets DEF HP!MessageType, H!JitMessages
<1>4. CASE Len(s) >= 2 /\ s[2] # "TRACER_ERROR"
  <2>1. \A i \in 1..Len(s) : i \in events <=> i # 1
    BY <1>1, <1>3, <1>4
  <2>2. events = 2..Len(s)
    BY <1>1, <2>1
  <2>3. Cardinality(2..Len(s)) = Len(s) - 1
    <3>1. 2 \in Int /\ Len(s) \in Int /\ ~(2 > Len(s))
      BY <1>1, <1>4
    <3>2. Cardinality(2..Len(s)) = IF 2 > Len(s) THEN 0 ELSE Len(s) - 2 + 1
      BY <3>1, FS_Interval
    <3> QED
      BY <1>1, <3>1, <3>2
  <2> QED
    BY <1>4, <2>2, <2>3 DEF Jits
<1>5. CASE ~(Len(s) >= 2 /\ s[2] # "TRACER_ERROR")
  <2>1. \A i \in 1..Len(s) : i \notin events
    BY <1>1, <1>3, <1>5
  <2>2. events = {}
    BY <2>1
  <2> QED
    BY <1>5, <2>2, FS_EmptySet DEF Jits
<1> QED
  BY <1>4, <1>5

\* What is written of the log is a beginning of it.
WrittenInv ==
  /\ Jits(sent) = IF Len(sent) >= 2 /\ sent[2] # "TRACER_ERROR" THEN Len(sent) - 1 ELSE 0
  /\ Jits(sent) \in Nat /\ Jits(sent) <= Len(log)
  /\ Written \in Seq(ShownNodes) /\ Len(Written) = Jits(sent)
  /\ \A i \in 1..Jits(sent) : Written[i] = NodeFor(log, i) /\ NodeFor(log, i) \in ShownNodes

LEMMA WrittenLog ==
  ASSUME HP!IInv, JP!TypeOK, SentInv
  PROVE  WrittenInv
<1>1. sent \in Seq(HP!MessageType) /\ Len(sent) \in Nat /\ log \in Seq(Logged) /\ Len(log) \in Nat
  BY LenProperties DEF HP!IInv, HP!TypeOK, HP!DataOK, JP!TypeOK, Logged
<1>2. /\ \A i \in 1..Len(sent) : (sent[i] = "INIT") <=> (i = 1)
      /\ \A i \in 1..Len(sent) : sent[i] = "TRACER_ERROR" => i = 2 /\ i = Len(sent)
  BY DEF HP!IInv, HP!EngineInv
<1>3. Jits(sent) = IF Len(sent) >= 2 /\ sent[2] # "TRACER_ERROR" THEN Len(sent) - 1 ELSE 0
  BY <1>1, <1>2, JitsCounted
<1>4. Jits(sent) \in Nat /\ Jits(sent) <= Len(log)
  <2>1. CASE Len(sent) >= 2 /\ sent[2] # "TRACER_ERROR"
    <3>1. sent[Len(sent)] # "TRACER_ERROR" /\ Len(sent) \in 2..Len(sent)
      BY <1>1, <1>2, <2>1
    <3>2. Len(sent) - 1 <= Len(log)
      BY <3>1 DEF SentInv
    <3> QED
      BY <1>1, <1>3, <2>1, <3>2
  <2>2. CASE ~(Len(sent) >= 2 /\ sent[2] # "TRACER_ERROR")
    BY <1>1, <1>3, <2>2
  <2> QED
    BY <2>1, <2>2
<1>5. ASSUME NEW i \in 1..Jits(sent) PROVE NodeFor(log, i) \in ShownNodes
  <2>1. i \in 1..Len(log)
    BY <1>1, <1>4
  <2>2. log[i] \in Logged
    BY <1>1, <2>1, ElementOfSeq
  <2>3. <<log[i].type, log[i].data>> \in Events
    BY <2>2, SameSets DEF Logged, JP!Messages, Events
  <2>4. DOMAIN Shown = Events
    BY DEF Shown, EventDoc, Events
  <2> QED
    BY <2>3, <2>4 DEF NodeFor, ShownNodes
<1>6. Written = [i \in 1..Jits(sent) |-> NodeFor(log, i)]
  BY DEF Written, Jits, NodeFor
<1> DEFINE n == Jits(sent)
<1> HIDE DEF n
<1>7. n \in Nat /\ Written = [i \in 1..n |-> NodeFor(log, i)] /\ \A i \in 1..n : NodeFor(log, i) \in ShownNodes
  BY <1>4, <1>5, <1>6 DEF n
<1>8. Written \in Seq(ShownNodes) /\ Len(Written) = n /\ \A i \in 1..n : Written[i] = NodeFor(log, i)
  BY <1>7
<1> QED
  BY <1>3, <1>4, <1>5, <1>8 DEF n, WrittenInv

\* Every step of the system is a step of the stream or a stutter.
LEMMA StreamStep ==
  ASSUME SuspendedLaunch, HP!IInv, HP!IInv', JP!TypeOK, JP!TypeOK', JP!Stacks,
         DocsInv, SentInv, SentInv', TreeInv, WrittenInv, WrittenInv', [Next]_vars
  PROVE  [TraceStream!Next]_(TraceStream!vars)
<1> DEFINE up == conn # "closed" /\ hostOpen
<1>1. /\ \/ Shrinks /\ Silent
         \/ WritesInit \/ WritesError \/ \E msg \in Logged : WritesEvent(msg)
         \/ ReadMessage \/ Reply \/ Notify
         \/ UNCHANGED vars
      /\ log' = log \/ \E msg \in Logged : log' = Append(log, msg)
  BY StepSorted, LogMoves DEF DocsInv, StandFor, HP!IInv
<1>2. up' => up
  BY StepsOfComponents, HP!EndsStayClosed, SessionAssumed
<1>3. \A i \in 1..Len(log) : log'[i] = log[i]
  BY <1>1, LogGrows
<1>4. /\ Jits(sent) = IF Len(sent) >= 2 /\ sent[2] # "TRACER_ERROR" THEN Len(sent) - 1 ELSE 0
      /\ Jits(sent) \in Nat /\ Jits(sent) <= Len(log)
      /\ Written \in Seq(ShownNodes) /\ Len(Written) = Jits(sent)
      /\ \A i \in 1..Jits(sent) : Written[i] = NodeFor(log, i) /\ NodeFor(log, i) \in ShownNodes
  BY DEF WrittenInv
<1>5. /\ Jits(sent') = IF Len(sent') >= 2 /\ sent'[2] # "TRACER_ERROR" THEN Len(sent') - 1 ELSE 0
      /\ Jits(sent') \in Nat /\ Jits(sent') <= Len(log')
      /\ Written' \in Seq(ShownNodes) /\ Len(Written') = Jits(sent')
      /\ \A i \in 1..Jits(sent') : Written'[i] = NodeFor(log', i) /\ NodeFor(log', i) \in ShownNodes
  BY DEF WrittenInv
<1>6. HP!EngineInv /\ HP!EngineInv' /\ sent \in Seq(HP!MessageType) /\ Len(sent) \in Nat
  BY LenProperties DEF HP!IInv, HP!TypeOK, HP!DataOK
<1> HIDE DEF up
\* What has been written stays as it is, if nothing about a callback is added.
<1>7. ASSUME Jits(sent') = Jits(sent) PROVE Written' = Written
  <2>1. \A i \in 1..Jits(sent) : NodeFor(log', i) = NodeFor(log, i)
    <3>1. Len(log) \in Nat /\ Jits(sent) \in Nat /\ Jits(sent) <= Len(log)
      BY <1>4, LenProperties DEF JP!TypeOK
    <3>2. \A i \in 1..Jits(sent) : i \in 1..Len(log)
      BY <3>1
    <3>3. \A i \in 1..Jits(sent) : log'[i] = log[i]
      BY <1>3, <3>2
    <3> QED
      BY <3>3 DEF NodeFor
  <2>2. \A i \in 1..Len(Written) : Written'[i] = Written[i]
    BY <1>4, <1>5, <1>7, <2>1
  <2> QED
    BY <1>4, <1>5, <1>7, <2>2, SeqEqual
<1>8. ASSUME Jits(sent') = Jits(sent), tree' = tree
      PROVE  [TraceStream!Next]_(TraceStream!vars)
  <2>1. Written' = Written
    BY <1>7, <1>8
  <2>2. CASE up' = up
    BY <1>8, <2>1, <2>2 DEF TraceStream!vars, up
  <2>3. CASE up /\ up' = FALSE
    BY <1>8, <2>1, <2>3 DEF TraceStream!Next, TraceStream!GoDown, up
  <2>4. up \in BOOLEAN /\ up' \in BOOLEAN
    BY <1>6 DEF up, HP!IInv, HP!TypeOK, HP!FlagsOK
  <2> QED
    BY <1>2, <2>2, <2>3, <2>4
<1>9. CASE \/ Shrinks /\ Silent
           \/ ReadMessage \/ Reply \/ UNCHANGED vars
  <2>1. sent' = sent /\ tree' = tree
    BY <1>9 DEF Shrinks, ReadMessage, H!ReadMessage, Reply, H!Reply, H!histVars, vars, sessionVars
  <2> QED
    BY <1>8, <2>1
<1>10. CASE WritesInit
  <2>1. sent = <<>> /\ sent' = Append(sent, "INIT") /\ tree' = tree
    BY <1>6, <1>10 DEF WritesInit, Writes, HP!EngineInv
  <2>2. Len(sent) = 0 /\ Len(sent') = 1
    BY <2>1
  <2> QED
    BY <1>4, <1>5, <1>8, <2>1, <2>2
<1>11. CASE WritesError
  <2>1. /\ sent' = Append(sent, "TRACER_ERROR") /\ tree' = tree
        /\ phase = "loading" /\ phase' = "reporting"
    BY <1>11 DEF WritesError, Writes
  <2>2. Len(sent) <= 1 /\ sent'[2] = "TRACER_ERROR"
    BY <1>6, <2>1 DEF HP!EngineInv
  <2> QED
    BY <1>4, <1>5, <1>6, <1>8, <2>1, <2>2
<1>12. ASSUME NEW msg \in Logged, WritesEvent(msg)
       PROVE  [TraceStream!Next]_(TraceStream!vars)
  <2> DEFINE m == EventType(msg.type)
             n == Jits(sent)
             node == NodeFor(log', n + 1)
  <2>1. /\ sent' = Append(sent, m) /\ log' = Append(log, msg) /\ tree' = tree
        /\ m \in HP!MessageType /\ m # "TRACER_ERROR"
        /\ mPipe /\ hostOpen /\ mPipe' /\ hostOpen'
        /\ phase \in {"tracing", "shutdown"}
    BY <1>12 DEF WritesEvent, Writes, EventType, HP!MessageType, HP!JitMessages
  <2> HIDE DEF m
  <2>2. /\ Len(sent') = Len(sent) + 1 /\ sent'[Len(sent) + 1] = m
        /\ \A i \in 1..Len(sent) : sent'[i] = sent[i]
    BY <1>6, <2>1, SentGrows DEF HP!IInv
  <2>3. Len(sent) >= 1 /\ \A i \in 1..Len(sent') : sent'[i] # "TRACER_ERROR"
    BY <1>6, <2>1, <2>2 DEF HP!EngineInv
  <2>4. n = Len(sent) - 1 /\ Jits(sent') = n + 1
    <3>1. Len(sent') >= 2 /\ sent'[2] # "TRACER_ERROR"
      BY <1>6, <2>2, <2>3
    <3>2. Len(sent) >= 2 => sent[2] # "TRACER_ERROR"
      BY <1>6, <2>2, <2>3
    <3> QED
      BY <1>4, <1>5, <1>6, <2>2, <2>3, <3>1, <3>2
  <2> HIDE DEF n
  <2>5. Written' = Append(Written, node) /\ node \in ShownNodes
    <3>1. n \in Nat /\ n <= Len(log) /\ Len(Written) = n /\ Len(Written') = n + 1
      BY <1>4, <1>5, <2>4 DEF n
    <3>2. node \in ShownNodes /\ Written'[n + 1] = node
      BY <1>5, <2>4, <3>1
    <3>3. \A i \in 1..n : Written'[i] = NodeFor(log', i) /\ Written[i] = NodeFor(log, i)
      BY <1>4, <1>5, <2>4, <3>1 DEF n
    <3>4. \A i \in 1..n : NodeFor(log', i) = NodeFor(log, i)
      <4>1. Len(log) \in Nat
        BY LenProperties DEF JP!TypeOK
      <4>2. \A i \in 1..n : i \in 1..Len(log)
        BY <3>1, <4>1
      <4>3. \A i \in 1..n : log'[i] = log[i]
        BY <1>3, <4>2
      <4> QED
        BY <4>3 DEF NodeFor
    <3> HIDE DEF node
    <3>5. /\ Append(Written, node) \in Seq(ShownNodes) /\ Len(Append(Written, node)) = n + 1
          /\ Append(Written, node)[n + 1] = node
          /\ \A i \in 1..n : Append(Written, node)[i] = Written[i]
      BY <1>4, <3>1, <3>2, AppendProperties
    <3>6. \A i \in 1..(n + 1) : Written'[i] = Append(Written, node)[i]
      BY <3>1, <3>2, <3>3, <3>4, <3>5
    <3>7. Written' = Append(Written, node)
      BY <1>5, <3>1, <3>5, <3>6, SeqEqual
    <3> QED
      BY <3>2, <3>7
  <2>6. conn # "closed" /\ hostOpen /\ conn' # "closed" /\ hostOpen'
    BY <1>6, <2>1 DEF HP!EngineInv
  <2> HIDE DEF node
  <2>7. TraceStream!Write(node)
    BY <2>1, <2>5, <2>6 DEF TraceStream!Write
  <2> QED
    BY <2>5, <2>7 DEF TraceStream!Next
<1>13. CASE Notify
  <2> DEFINE n == Len(raised) + 1
  <2>1. /\ UNCHANGED <<sent, log, conn, hostOpen>>
    BY <1>13 DEF Notify, H!NotifyAndKeepReading, H!pipeVars, jitVars
  <2> HIDE DEF n
  <2>2. /\ n \in 1..Len(sent)
        /\ sent[n] \notin H!JitMessages \/ sent[n] \in FaultyHandlers => tree' = tree
        /\ sent[n] \in H!JitMessages /\ sent[n] \notin FaultyHandlers =>
             /\ n \in 2..Len(sent) /\ Len(tree) = n - 2 /\ n - 1 \in 1..Len(log)
             /\ tree' = Append(tree, NodeFor(log, n - 1))
    <3>1. n = Len(raised) + 1
      BY DEF n
    <3> QED
      BY <1>13, <3>1, Notified
  <2>3. CASE tree' = tree
    BY <1>8, <2>1, <2>3
  <2>4. CASE sent[n] \in H!JitMessages /\ sent[n] \notin FaultyHandlers
    <3>1. /\ n \in 2..Len(sent) /\ Len(tree) = n - 2 /\ n \in Nat
          /\ tree' = Append(tree, NodeFor(log, n - 1))
      BY <2>2, <2>4
    <3>2. sent[2] # "TRACER_ERROR"
      BY <1>6, <2>4, <3>1 DEF HP!EngineInv, H!JitMessages
    <3>3. Jits(sent) = Len(sent) - 1 /\ n - 1 \in 1..Jits(sent)
      BY <1>4, <1>6, <3>1, <3>2
    <3>4. Written[n - 1] = NodeFor(log, n - 1) /\ Len(tree) < Len(Written) /\ Len(tree) + 1 = n - 1
      BY <1>4, <3>1, <3>3
    <3>5. Written' = Written
      BY <1>7, <2>1
    <3>6. TraceStream!See
      BY <2>1, <3>1, <3>4, <3>5 DEF TraceStream!See
    <3> QED
      BY <3>6 DEF TraceStream!Next
  <2> QED
    BY <2>2, <2>3, <2>4
<1> QED
  BY <1>1, <1>9, <1>10, <1>11, <1>12, <1>13

\* From the callbacks to the tree, a trace is the stream of events it promises,
\* and so is every step in the form that TLC checks.
THEOREM TreeShowsStream ==
  ASSUME SuspendedLaunch PROVE Spec => TreeIsStream /\ TraceStream!Safety
<1>1. Init /\ WrittenInv => TraceStream!Init
  <2> SUFFICES ASSUME Init, WrittenInv PROVE TraceStream!Init
    OBVIOUS
  <2>1. tree = <<>> /\ sent = <<>> /\ conn = "none" /\ hostOpen = TRUE
    BY SameSession DEF Init, HP!Init
  <2>2. Len(sent) = 0
    BY <2>1
  <2>3. Len(Written) = 0 /\ Written \in Seq(ShownNodes)
    BY <2>2 DEF WrittenInv
  <2>4. Written = <<>>
    BY <2>3, EmptySeq
  <2> QED
    BY <2>1, <2>4 DEF TraceStream!Init
<1>2. /\ HP!IInv /\ HP!IInv' /\ JP!IInv /\ JP!IInv' /\ DocsInv /\ SentInv /\ SentInv' /\ TreeInv
      /\ WrittenInv /\ WrittenInv' /\ [Next]_vars
      => [TraceStream!Next]_(TraceStream!vars)
  BY StreamStep DEF JP!IInv
<1>3. [TraceStream!Next]_(TraceStream!vars) =>
        [UNCHANGED <<tree, sent, log, conn, hostOpen>> \/ TraceStream!Next]_(TraceStream!vars)
  OBVIOUS
<1>4. HP!IInv /\ JP!IInv /\ SentInv => WrittenInv
  BY WrittenLog DEF JP!IInv
<1> QED
  BY <1>1, <1>2, <1>3, <1>4, SessionInductive, CallbacksInductive, DocsInductive, SentInductive,
     TreeInductive, PTL
  DEF Spec, TreeIsStream, TraceStream!Safety
=============================================================================
