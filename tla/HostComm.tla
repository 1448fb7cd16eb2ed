------------------------------ MODULE HostComm ------------------------------
(***************************************************************************)
(* One trace session: the host's pipe server (HostCommServer), the named   *)
(* pipe, and the profiler engine inside the traced process                 *)
(* (HostCommClient as ProfilerCallbackHandler drives it).                  *)
(*                                                                         *)
(* The module starts where TracerBootstrapper.LaunchTracerSuspended        *)
(* returns: the server's pipe exists, its wait for a client is pending and *)
(* the traced process has been created suspended.                          *)
(***************************************************************************)
EXTENDS Naturals, Sequences

CONSTANTS
  MaxSent,          \* bound: messages the engine writes in one session
  PipeQuota,        \* messages the pipe takes ahead of its reader
  PartialWrites,    \* a write of the engine may put only a part of a message
                    \* into the pipe: write_some promises no more
  FaultyHandlers,   \* message kinds whose subscriber throws
  SuspendedLaunch   \* the host subscribes before it resumes the process

ASSUME QuotaAssumption == PipeQuota \in Nat
ASSUME WritesAssumption == PartialWrites \in BOOLEAN
ASSUME BoundAssumption == MaxSent \in Nat
ASSUME LaunchAssumption == SuspendedLaunch \in BOOLEAN

VARIABLES
  phase,         \* where the engine is in its life
  mPipe,         \* mPipe holds an open pipe handle
  mInitialized,  \* set when the INIT reply was SUCCESS
  conn,          \* client end of the pipe: "none", "open" or "closed"
  hostOpen,      \* server end of the pipe is open
  toHost,        \* messages in the pipe towards the host, oldest first
  cut,           \* place in toHost of the first message that is there in
                 \* part, 0 if each one is whole
  toEngine,      \* replies in the pipe towards the engine
  srv,           \* where the server's read loop is
  busy,          \* _busy
  cur,           \* the message in _msgBuff the loop is handling, if any
  subscribed,    \* events the application has attached its handler to
  postedFault,   \* an exception of an async void method waits to be rethrown
  sent,          \* history: messages written to an open pipe
  raised,        \* history: messages subscribers were called with
  disc           \* history: OnClientDisconnected was raised

engineVars == <<phase, mPipe, mInitialized>>
pipeVars   == <<conn, hostOpen, toHost, cut, toEngine>>
hostVars   == <<srv, busy, cur, subscribed, postedFault>>
histVars   == <<sent, raised, disc>>
vars       == <<engineVars, pipeVars, hostVars, histVars>>

JitMessages == {"JIT_COMPILATION_STARTED", "JIT_COMPILATION_FINISHED"}
MessageType == {"INIT", "TRACER_ERROR"} \cup JitMessages
PipeErrorCode == {"SUCCESS", "PIPE_BUSY"}

\* The events of HostCommServer.  A handler the application has no use for
\* counts as one that does nothing.
Events ==
  {"OnClientConnected", "OnClientDisconnected", "OnTracerError", "OnPipeMessageReceived"}

\* The event that message m raises, and whether somebody is called with it.
EventOf(m) ==
  CASE m = "INIT" -> "OnClientConnected"
    [] m = "TRACER_ERROR" -> "OnTracerError"
    [] OTHER -> "OnPipeMessageReceived"
Hears(m) == EventOf(m) \in subscribed

\* The engine's constructor is running, or callbacks may come.
Alive == {"suspended", "starting", "handshake", "loading", "reporting", "tracing"}
Phases == Alive \cup {"shutdown", "exited", "crashed", "killed"}

Init ==
  /\ phase = "suspended" /\ mPipe = FALSE /\ mInitialized = FALSE
  /\ conn = "none" /\ hostOpen = TRUE
  /\ toHost = <<>> /\ cut = 0 /\ toEngine = <<>>
  /\ srv = "waiting" /\ busy = FALSE /\ cur = <<>>
  /\ subscribed = {} /\ postedFault = FALSE
  /\ sent = <<>> /\ raised = <<>> /\ disc = FALSE

-----------------------------------------------------------------------------
(* The pipe (Windows).  A write is queued at once, with a copy of its data,*)
(* and completes when the queue ahead of it leaves it within the quota.    *)

\* The part of a queue whose writes have completed: it stays readable when
\* the writer closes its end; the pending rest is cancelled.
Accepted(q) == SubSeq(q, 1, IF Len(q) < PipeQuota THEN Len(q) ELSE PipeQuota)

\* A message written after toHost is there as a whole, or in part.
CutByWrite ==
  IF PartialWrites /\ cut = 0 THEN {0, Len(toHost) + 1} ELSE {cut}

\* Mutant: a message is dropped while an earlier one is still queued.
Write_WhenIdle(m) ==
  IF mPipe /\ hostOpen
  THEN /\ sent' = Append(sent, m)
       /\ toHost' = IF toHost = <<>> THEN <<m>> ELSE toHost
       /\ UNCHANGED cut
  ELSE UNCHANGED <<sent, toHost, cut>>

\* One overlapped write of the engine.  On a closed or broken handle the
\* error goes to a completion handler that ignores it.
Write(m) ==
  IF mPipe /\ hostOpen
  THEN /\ sent' = Append(sent, m)
       /\ toHost' = Append(toHost, m)
       /\ cut' \in CutByWrite
  ELSE UNCHANGED <<sent, toHost, cut>>

\* The client end goes away.  A reply the server is still writing fails, and
\* the exception leaves an async void method.
ClientCloses ==
  /\ mPipe' = FALSE
  /\ conn' = IF conn = "open" THEN "closed" ELSE conn
  /\ toHost' = Accepted(toHost) /\ UNCHANGED cut
  /\ toEngine' = <<>>
  /\ postedFault' = (postedFault \/ Len(toEngine) > PipeQuota)

\* The server end goes away: unread messages are dropped, completed replies
\* stay readable.
ServerCloses ==
  /\ hostOpen' = FALSE
  /\ toHost' = <<>> /\ UNCHANGED cut
  /\ toEngine' = Accepted(toEngine)

-----------------------------------------------------------------------------
(* The application on the host.                                            *)

\* A handler is attached to event e, each by a statement of its own.
Subscribe(e) ==
  /\ e \notin subscribed /\ srv # "dead"
  /\ subscribed' = subscribed \cup {e}
  /\ UNCHANGED <<engineVars, pipeVars, srv, busy, cur, postedFault, histVars>>

\* Mutant: the process runs before the handlers are attached.
ResumeTracer_First ==
  /\ phase = "suspended" /\ srv # "dead"
  /\ phase' = "starting"
  /\ UNCHANGED <<mPipe, mInitialized, pipeVars, hostVars, histVars>>

\* ResumeThread.  LaunchTracer does so before its caller gets the process.
ResumeTracer ==
  /\ phase = "suspended" /\ srv # "dead"
  /\ SuspendedLaunch => subscribed = Events
  /\ phase' = "starting"
  /\ UNCHANGED <<mPipe, mInitialized, pipeVars, hostVars, histVars>>

\* Disposing the stream faults a pending wait, whose exception leaves the
\* async void Initialize, and a reply that is still being written.
Dispose ==
  /\ hostOpen /\ srv # "dead"
  /\ ServerCloses
  /\ srv' = IF srv = "waiting" THEN "faulted" ELSE srv
  /\ postedFault' = (postedFault \/ srv = "waiting" \/ Len(toEngine) > PipeQuota)
  /\ UNCHANGED <<engineVars, conn, busy, cur, subscribed, histVars>>

\* The host process ends: killed, closed, or brought down by a posted fault.
HostDies ==
  /\ srv # "dead"
  /\ srv' = "dead"
  /\ ServerCloses
  /\ UNCHANGED <<engineVars, conn, busy, cur, subscribed, postedFault, histVars>>

-----------------------------------------------------------------------------
(* The engine: ProfilerCallbackHandler's constructor and the callbacks.    *)

\* The process (or only its pipe handle, for "shutdown") is gone.
EngineLeaves(p) ==
  /\ phase' = p
  /\ ClientCloses
  /\ UNCHANGED <<mInitialized, hostOpen, srv, busy, cur, subscribed, histVars>>

\* Mutant: the handshake counts as done before the host has answered.
OpenPipe_Initialized ==
  /\ phase = "starting" /\ hostOpen
  /\ phase' = "handshake"
  /\ conn' = "open" /\ mPipe' = TRUE /\ mInitialized' = TRUE
  /\ sent' = Append(sent, "INIT") /\ toHost' = Append(toHost, "INIT") /\ cut' \in CutByWrite
  /\ UNCHANGED <<hostOpen, toEngine, hostVars, raised, disc>>

\* CreateFile succeeds, the handle is assigned and INIT is written.
OpenPipe ==
  /\ phase = "starting" /\ hostOpen
  /\ phase' = "handshake"
  /\ conn' = "open" /\ mPipe' = TRUE
  /\ sent' = Append(sent, "INIT") /\ toHost' = Append(toHost, "INIT") /\ cut' \in CutByWrite
  /\ UNCHANGED <<mInitialized, hostOpen, toEngine, hostVars, raised, disc>>

\* CreateFile fails, or SetNamedPipeHandleState does and the open handle is
\* neither assigned nor closed.  The constructor ignores the result.
OpenFails ==
  /\ phase = "starting"
  /\ phase' = "loading"
  /\ conn' \in IF hostOpen THEN {"none", "open"} ELSE {"none"}
  /\ UNCHANGED <<mPipe, mInitialized, hostOpen, toHost, cut, toEngine, hostVars, histVars>>

\* Mutant: the reply does not fit the read buffer, so that its write stays
\* pending.
ReadReply_Partial ==
  /\ phase = "handshake" /\ toEngine # <<>>
  /\ phase' = "loading" /\ mInitialized' = TRUE
  /\ UNCHANGED <<mPipe, pipeVars, hostVars, histVars>>

\* The blocking read_some of initialize() returns the reply.
ReadReply ==
  /\ phase = "handshake" /\ toEngine # <<>>
  /\ phase' = "loading"
  /\ IF Head(toEngine) = "SUCCESS"
     THEN /\ mInitialized' = TRUE
          /\ toEngine' = Tail(toEngine)
          /\ UNCHANGED <<mPipe, conn, toHost, cut, postedFault>>
     ELSE ClientCloses /\ UNCHANGED mInitialized
  /\ UNCHANGED <<hostOpen, srv, busy, cur, subscribed, histVars>>

\* Mutant: a failed read is tried again.
ReadReplyThrows_Retry ==
  /\ phase = "handshake" /\ toEngine = <<>> /\ ~hostOpen
  /\ UNCHANGED vars

\* read_some fails: the exception leaves the constructor.
ReadReplyThrows ==
  /\ phase = "handshake" /\ toEngine = <<>> /\ ~hostOpen
  /\ EngineLeaves("crashed")

SettingsLoaded ==
  /\ phase = "loading"
  /\ phase' = "tracing"
  /\ UNCHANGED <<mPipe, mInitialized, pipeVars, hostVars, histVars>>

\* loadSettings() returns false: the error is written synchronously, which
\* throws when there is no pipe to write to.
SettingsInvalid ==
  /\ phase = "loading"
  /\ IF mPipe /\ hostOpen
     THEN /\ phase' = "reporting"
          /\ Write("TRACER_ERROR")
          /\ UNCHANGED <<mPipe, mInitialized, conn, hostOpen, toEngine, hostVars, raised, disc>>
     ELSE EngineLeaves("crashed")

\* A settings file without "modules" throws out of the constructor.
SettingsThrow ==
  /\ phase = "loading"
  /\ EngineLeaves("crashed")

\* Mutant: the write is not waited for.
ErrorWritten_Async ==
  /\ phase = "reporting"
  /\ EngineLeaves("exited")

\* Mutant: the constructor goes on without settings.
ErrorWritten_Trace ==
  /\ phase = "reporting" /\ Len(toHost) <= PipeQuota
  /\ phase' = "tracing"
  /\ UNCHANGED <<mPipe, mInitialized, pipeVars, hostVars, histVars>>

\* The synchronous write completes and the constructor calls exit(-1).
ErrorWritten ==
  /\ phase = "reporting" /\ Len(toHost) <= PipeQuota
  /\ EngineLeaves("exited")

ErrorWriteThrows ==
  /\ phase = "reporting" /\ ~hostOpen
  /\ EngineLeaves("crashed")

\* A JIT callback on some managed thread sends its message.
SendMessage(m) ==
  /\ phase \in {"tracing", "shutdown"} /\ Len(sent) < MaxSent
  /\ Write(m)
  /\ UNCHANGED <<engineVars, conn, hostOpen, toEngine, hostVars, raised, disc>>

\* release() cancels and closes an open pipe; on a closed one cancel() throws.
Shutdown ==
  /\ phase = "tracing"
  /\ EngineLeaves(IF mPipe THEN "shutdown" ELSE "crashed")

Kill ==
  /\ phase \in Alive
  /\ EngineLeaves("killed")

-----------------------------------------------------------------------------
(* The server's read loop.  Each continuation runs on a pool thread.       *)

WaitForConnection ==
  /\ srv = "waiting" /\ conn # "none"
  /\ srv' = "reading"
  /\ UNCHANGED <<engineVars, pipeVars, busy, cur, subscribed, postedFault, histVars>>

\* Mutant: the next read is started before the event is raised, into the same
\* buffer.
ReadMessage_Overlapped ==
  /\ srv \in {"reading", "notifying"} /\ hostOpen /\ toHost # <<>> /\ cut # 1
  /\ cur' = <<Head(toHost)>>
  /\ toHost' = Tail(toHost) /\ cut' = IF cut = 0 THEN 0 ELSE cut - 1
  /\ srv' = IF Head(toHost) = "INIT" THEN "replying" ELSE "notifying"
  /\ UNCHANGED <<engineVars, conn, hostOpen, toEngine, busy, subscribed, postedFault, histVars>>

\* A read completes with a message that was written in part.  Its document
\* cannot be deserialized: the exception ends the loop silently.
ReadPart ==
  /\ srv = "reading" /\ hostOpen /\ toHost # <<>> /\ cut = 1
  /\ toHost' = Tail(toHost)
  /\ srv' = "garbled"
  /\ UNCHANGED <<engineVars, conn, hostOpen, cut, toEngine, busy, cur, subscribed,
                 postedFault, histVars>>

\* A read completes with a message.
ReadMessage ==
  /\ srv = "reading" /\ hostOpen /\ toHost # <<>> /\ cut # 1
  /\ cur' = <<Head(toHost)>>
  /\ toHost' = Tail(toHost) /\ cut' = IF cut = 0 THEN 0 ELSE cut - 1
  /\ srv' = IF Head(toHost) = "INIT" THEN "replying" ELSE "notifying"
  /\ UNCHANGED <<engineVars, conn, hostOpen, toEngine, busy, subscribed, postedFault, histVars>>

\* Mutant: the end of the stream does not end the loop.
ReadNothing_Again ==
  /\ srv = "reading"
  /\ ~hostOpen
  /\ srv' = "faulted"
  /\ UNCHANGED <<engineVars, pipeVars, busy, cur, subscribed, postedFault, histVars>>

\* A read completes with 0 bytes, or with either outcome when the
\* stream was disposed under it (0 bytes or an exception).
ReadNothing ==
  /\ srv = "reading"
  /\ \/ /\ hostOpen => (toHost = <<>> /\ conn = "closed")
        /\ srv' = "stopped" /\ disc' = ("OnClientDisconnected" \in subscribed)
     \/ /\ ~hostOpen
        /\ srv' = "faulted" /\ UNCHANGED disc
  /\ UNCHANGED <<engineVars, pipeVars, busy, cur, subscribed, postedFault, sent, raised>>

\* Mutant: the reply carries the type of the message in the place of the code.
ReplyCode_Type == "INIT"

ReplyCode == IF busy THEN "PIPE_BUSY" ELSE "SUCCESS"

\* INIT: answer it.  SendMessage is async void, so a write that fails is
\* rethrown later, on a thread of its own.
Reply ==
  /\ srv = "replying"
  /\ busy' = TRUE
  /\ IF hostOpen /\ conn = "open"
     THEN /\ toEngine' = Append(toEngine, ReplyCode)
          /\ UNCHANGED postedFault
     ELSE /\ postedFault' = TRUE
          /\ UNCHANGED toEngine
  /\ srv' = IF busy THEN "reading" ELSE "notifying"
  /\ cur' = IF busy THEN <<>> ELSE cur
  /\ UNCHANGED <<engineVars, conn, hostOpen, toHost, cut, subscribed, histVars>>

\* Mutant: no read is started after the event.
NotifyAndKeepReading_Once ==
  /\ srv = "notifying"
  /\ cur' = <<>>
  /\ raised' = IF Hears(cur[1]) THEN raised \o cur ELSE raised
  /\ srv' = "faulted"
  /\ UNCHANGED <<engineVars, pipeVars, busy, subscribed, postedFault, sent, disc>>

\* Raise the event of the message, then start the next read.  An exception of
\* the subscriber, or of a read on a disposed stream, ends the loop silently.
NotifyAndKeepReading ==
  /\ srv = "notifying"
  /\ cur' = <<>>
  /\ raised' = IF Hears(cur[1]) THEN raised \o cur ELSE raised
  /\ srv' = IF ~hostOpen \/ (Hears(cur[1]) /\ cur[1] \in FaultyHandlers)
            THEN "faulted" ELSE "reading"
  /\ UNCHANGED <<engineVars, pipeVars, busy, subscribed, postedFault, sent, disc>>

-----------------------------------------------------------------------------
Application == (\E e \in Events : Subscribe(e)) \/ ResumeTracer \/ Dispose \/ HostDies

Constructor ==
  \/ OpenPipe \/ OpenFails \/ ReadReply \/ ReadReplyThrows
  \/ SettingsLoaded \/ SettingsInvalid \/ SettingsThrow
  \/ ErrorWritten \/ ErrorWriteThrows

Callbacks == (\E m \in JitMessages : SendMessage(m)) \/ Shutdown \/ Kill

ReadLoop ==
  \/ WaitForConnection \/ ReadMessage \/ ReadPart \/ ReadNothing
  \/ Reply \/ NotifyAndKeepReading

Next == Application \/ Constructor \/ Callbacks \/ ReadLoop

Spec == Init /\ [][Next]_vars

\* The loader runs the constructor to its end, and the pool runs the
\* continuations of completed reads.  Nothing makes the application resume
\* the process, the traced program JIT a method, or either of them end.
FairSpec == Spec /\ WF_vars(Constructor) /\ WF_vars(ReadLoop)

-----------------------------------------------------------------------------
(* Properties.                                                             *)

FlagsOK ==
  /\ mPipe \in BOOLEAN /\ mInitialized \in BOOLEAN
  /\ hostOpen \in BOOLEAN /\ busy \in BOOLEAN
  /\ subscribed \subseteq Events /\ postedFault \in BOOLEAN /\ disc \in BOOLEAN

DataOK ==
  /\ phase \in Phases
  /\ conn \in {"none", "open", "closed"}
  /\ toHost \in Seq(MessageType) /\ cut \in Nat /\ toEngine \in Seq(PipeErrorCode)
  /\ srv \in {"waiting", "reading", "replying", "notifying", "stopped", "faulted",
              "garbled", "dead"}
  /\ cur \in Seq(MessageType) /\ Len(cur) <= 1
  /\ sent \in Seq(MessageType) /\ raised \in Seq(MessageType)

\* The type invariant.
TypeOK == FlagsOK /\ DataOK

\* When the process is created suspended and the handlers are attached before
\* it is resumed, the subscriber is called with the messages the engine wrote,
\* from the first one on, in order and without a gap, whatever dies meanwhile.
SubscriberSeesPrefix ==
  SuspendedLaunch =>
    /\ Len(raised) <= Len(sent)
    /\ \A i \in 1..Len(raised) : raised[i] = sent[i]

\* As long as both ends are open, every message written has been raised, is
\* being handled or is in the pipe: none is dropped on the way, until the loop
\* meets one that was written in part ("async_write_some doesn't guarantee full
\* delivery", HostCommClient.cpp:89), which ends it.
NothingLostWhileConnected ==
  SuspendedLaunch /\ mPipe /\ hostOpen /\ srv # "garbled" =>
    raised \o cur \o toHost = sent

\* What the application may rely on when it handles events: OnClientConnected
\* comes first and once; a tracer error comes right after it and nothing
\* follows it; a client that has disconnected raises nothing more.
HostEventGrammar ==
  /\ \A i \in 1..Len(raised) :
       /\ raised[i] = "INIT" => i = 1
       /\ SuspendedLaunch /\ i = 1 => raised[i] = "INIT"
       /\ raised[i] = "TRACER_ERROR" => i <= 2 /\ i = Len(raised)
  /\ disc => cur = <<>> /\ toHost = <<>> /\ (conn = "closed" \/ ~hostOpen)

\* The engine believes the handshake done only when the host does: its only
\* client is taken, and the INIT is being announced or has been.
HandshakeAgreement ==
  mInitialized =>
    /\ busy
    /\ \/ cur = <<"INIT">> /\ srv \in {"notifying", "dead"}
       \/ SuspendedLaunch => raised # <<>>

\* The exceptions that leave the server's async void methods, and bring the
\* host down, are confined to sessions whose handshake never succeeds.
FaultsOnlyBeforeHandshake == postedFault => ~mInitialized

\* The error of invalid settings is written before exit(-1) and survives it:
\* whatever the host has not read of it can still be read from the pipe, unless
\* its loop has ended at a message that was written in part.
ErrorSurvivesExit ==
  phase = "exited" /\ hostOpen =>
    /\ sent # <<>> /\ sent[Len(sent)] = "TRACER_ERROR"
    /\ SuspendedLaunch /\ srv # "garbled" => raised \o cur \o toHost = sent

\* An application that attaches its handlers after the launch, one by one,
\* misses a beginning of the messages of each event and nothing after it: it may
\* hear of the client and then miss the first messages of the callbacks, but
\* once it has heard of one of these it hears of each one that follows.
ContiguousDelivery ==
  LET first == IF raised # <<>> /\ raised[1] = "INIT" THEN 1 ELSE 0 IN
  \E k \in first..Len(sent) :
    /\ k + (Len(raised) - first) <= Len(sent)
    /\ \A i \in (first + 1)..Len(raised) : raised[i] = sent[k + (i - first)]

\* The session implements the stream of events it promises its subscriber.
ES == INSTANCE EventStream WITH
        Messages <- MessageType, written <- sent, seen <- raised,
        up <- conn # "closed" /\ hostOpen

\* No step reorders, repeats or skips a message.
StreamSafety == ES!Safety

\* While the session is up, every message written is seen in the end.
StreamSpec == ES!Spec

\* The constructor, which blocks the start of the traced program, ends unless
\* the host answers neither by a reply nor by closing its end.
StartupResolves ==
  phase \in {"starting", "handshake", "loading", "reporting"}
    ~> phase \notin {"starting", "handshake", "loading", "reporting"}

\* A client that is gone, however it ended, is noticed by a host that stays.
DepartureNoticed == conn = "closed" ~> (disc \/ ~hostOpen)

\* The subscriber of a host that stays hears of the error that made the engine
\* exit.
ErrorReported ==
  phase = "exited" ~> (~hostOpen \/ \E i \in 1..Len(raised) : raised[i] = "TRACER_ERROR")

\* "Keep reading" (HostCommServer.cs:106): the loop goes on after each message
\* and fails only with the pipe.
LoopFailsOnlyWithPipe == srv = "faulted" => ~hostOpen
=============================================================================
