---------------------------- MODULE TraceSystem ----------------------------
(***************************************************************************)
(* The whole of a trace: the JIT callbacks of the traced process           *)
(* (JitTrace) send their messages through a session (HostComm) as JSON     *)
(* documents (MessageCodec), and the GUI shows each one in its tree.       *)
(*                                                                         *)
(* The variables of the two components are joined by the documents that    *)
(* stand for the session's messages and by the nodes of the tree.  No      *)
(* function is unloaded, so an id names one method, and each write puts a  *)
(* whole message into the pipe: reuse of ids is left to JitTrace, partial  *)
(* writes to HostComm.                                                     *)
(***************************************************************************)
EXTENDS MessageCodec, FiniteSets

CONSTANTS
  Threads, FunctionIds, IntRange, MaxDepth, MaxLog,
  Traced, NoInfo, NoMetadata, Unmapped, Null,           \* of JitTrace
  MaxSent, PipeQuota, FaultyHandlers, SuspendedLaunch,  \* of HostComm
  Metadata  \* token, type, name and module of each method

VARIABLES
  uses, jitting, pc, func, mFuncMap, raced, crashed, log,  \* of JitTrace
  phase, mPipe, mInitialized, conn, hostOpen, toHost, toEngine, srv, busy, cur,
  subscribed, postedFault, sent, raised, disc,             \* of HostComm
  docs,     \* the documents of toHost
  replies,  \* the documents of toEngine
  buff,     \* the document in _msgBuff, as long as it is handled
  tree      \* the nodes of treeView1

J == INSTANCE JitTrace WITH MaxUses <- 0
H == INSTANCE HostComm WITH PartialWrites <- FALSE, cut <- 0

ASSUME MetadataAssumption ==
  \A m \in J!Methods :
    /\ DOMAIN Metadata[m] = {"token", "type", "name", "module"}
    /\ \A key \in DOMAIN Metadata[m] : Metadata[m][key] # "NUL"
ASSUME JitAssumption ==
  J!IdsAssumption /\ J!BoundsAssumption /\ J!MethodsAssumption /\ J!NoMethodAssumption
ASSUME SessionAssumption ==
  H!QuotaAssumption /\ H!WritesAssumption /\ H!BoundAssumption /\ H!LaunchAssumption
ASSUME RoomAssumption == MaxSent > MaxLog

jitVars == <<uses, jitting, pc, func, mFuncMap, raced, crashed, log>>
sessionVars ==
  <<phase, mPipe, mInitialized, conn, hostOpen, toHost, toEngine, srv, busy, cur,
    subscribed, postedFault, sent, raised, disc>>
vars == <<jitVars, sessionVars, docs, replies, buff, tree>>

Init ==
  /\ J!Init /\ H!Init
  /\ docs = <<>> /\ replies = <<>> /\ buff = <<>> /\ tree = <<>>

-----------------------------------------------------------------------------
(* Documents go with the messages they stand for.                          *)

\* The engine writes doc, unless there is no pipe to write to.
WriteDoc(doc) ==
  docs' = IF sent' # sent THEN Append(docs, doc) ELSE SubSeq(docs, 1, Len(toHost'))

\* What is left in the pipe by a step that writes and reads nothing.
KeepDocs ==
  /\ docs' = SubSeq(docs, 1, Len(toHost'))
  /\ replies' = SubSeq(replies, 1, Len(toEngine'))

\* The data of a message about v, a cached function or none.
DataOf(v) == IF v = Null THEN NoData ELSE dataMap(Metadata[v])

\* A callback's message type.
EventType(type) ==
  IF type = "STARTED" THEN "JIT_COMPILATION_STARTED" ELSE "JIT_COMPILATION_FINISHED"

\* The documents the engine can write, and what the host reads in them.
InitDoc == serialize("INIT", NoData)
ErrorDoc == serialize("TRACER_ERROR", SettingsError)
EventDoc ==
  [x \in {"STARTED", "FINISHED"} \X J!Entries |-> serialize(EventType(x[1]), DataOf(x[2]))]
ReadByHost ==
  [doc \in {EventDoc[x] : x \in DOMAIN EventDoc} \cup {InitDoc, ErrorDoc} |-> Deserialize(doc)]

-----------------------------------------------------------------------------
(* The traced process.                                                     *)

\* Callbacks come once the constructor is done, and until the process ends.
Running == phase \in {"tracing", "shutdown"}

\* A fault in a callback ends the process.
Survives == IF crashed' /\ phase \in H!Alive THEN H!Kill ELSE UNCHANGED sessionVars

\* Bound: what is compiled once nobody can hear of it is left to JitTrace.
Heard == mPipe /\ hostOpen

\* A step of thread t that sends nothing.
CallbackStep(t) ==
  /\ Running
  /\ \/ Heard /\ \E f \in FunctionIds : J!JITCompilationStarted(t, f)
     \/ Heard /\ J!JITCompilationFinished(t)
     \/ J!EndLookup(t) \/ J!Fetch(t) \/ J!EndInsert(t) \/ J!EndGet(t)
  /\ Survives /\ KeepDocs
  /\ UNCHANGED <<buff, tree>>

\* Thread t sends the message it has built.
CallbackSends(t) ==
  /\ Running
  /\ \/ J!SendStarted(t) /\ H!SendMessage("JIT_COMPILATION_STARTED")
     \/ J!SendFinished(t) /\ H!SendMessage("JIT_COMPILATION_FINISHED")
  /\ WriteDoc(EventDoc[<<log'[Len(log')].type, func[t]>>])
  /\ UNCHANGED <<replies, buff, tree>>

AccessFaults ==
  /\ Running /\ J!AccessFaults
  /\ Survives /\ KeepDocs
  /\ UNCHANGED <<buff, tree>>

\* The constructor writes INIT, or reports its settings.
OpenPipe ==
  /\ H!OpenPipe
  /\ WriteDoc(InitDoc)
  /\ UNCHANGED <<jitVars, replies, buff, tree>>

SettingsInvalid ==
  /\ H!SettingsInvalid
  /\ WriteDoc(ErrorDoc)
  /\ replies' = SubSeq(replies, 1, Len(toEngine'))
  /\ UNCHANGED <<jitVars, buff, tree>>

ReadReply ==
  /\ H!ReadReply
  /\ docs' = SubSeq(docs, 1, Len(toHost'))
  /\ replies' = SubSeq(Tail(replies), 1, Len(toEngine'))
  /\ UNCHANGED <<jitVars, buff, tree>>

ConstructorStep ==
  /\ \/ H!OpenFails \/ H!ReadReplyThrows \/ H!SettingsLoaded \/ H!SettingsThrow
     \/ H!ErrorWritten \/ H!ErrorWriteThrows
  /\ KeepDocs
  /\ UNCHANGED <<jitVars, buff, tree>>

\* The threads of a process and its cache go with it; that there was a race is
\* kept for the properties.
MemoryIsGone ==
  /\ jitting' = [t \in Threads |-> <<>>]
  /\ pc' = [t \in Threads |-> "managed"] /\ func' = [t \in Threads |-> Null]
  /\ mFuncMap' = [k \in J!Keys |-> Unmapped]
  /\ UNCHANGED <<uses, raced, crashed, log>>

\* The runtime shuts the profiler down, or the process ends.
ProcessEnds ==
  /\ H!Shutdown \/ H!Kill
  /\ IF phase' = "shutdown" THEN UNCHANGED jitVars ELSE MemoryIsGone
  /\ KeepDocs
  /\ UNCHANGED <<buff, tree>>

-----------------------------------------------------------------------------
(* The host.                                                               *)

Application ==
  /\ H!Application /\ KeepDocs
  /\ UNCHANGED <<jitVars, buff, tree>>

ReadMessage ==
  /\ H!ReadMessage
  /\ buff' = <<Head(docs)>> /\ docs' = Tail(docs)
  /\ UNCHANGED <<jitVars, replies, tree>>

LoopStep ==
  /\ H!WaitForConnection \/ H!ReadNothing
  /\ KeepDocs
  /\ UNCHANGED <<jitVars, buff, tree>>

Reply ==
  /\ H!Reply
  /\ replies' = IF toEngine' # toEngine
                THEN Append(replies, Serialize("INIT", H!ReplyCode)) ELSE replies
  /\ buff' = IF cur' = <<>> THEN <<>> ELSE buff
  /\ UNCHANGED <<jitVars, docs, tree>>

\* A node of the tree: the event, and a line for each pair of the data.
Node(msg) == [event |-> msg.type, rows |-> msg.data]

\* Mutant: a node is added for every message.
OnPipeMessageReceived_All(msg) == Append(tree, Node(msg))

\* Mutant: nodes are added at the top of the tree.
OnPipeMessageReceived_Top(msg) ==
  IF msg.type \in H!JitMessages THEN <<Node(msg)>> \o tree ELSE tree

\* The GUI's handler.  INIT raises another event, which it does not handle.
OnPipeMessageReceived(msg) ==
  IF msg.type \in H!JitMessages THEN Append(tree, Node(msg)) ELSE tree

\* A handler that throws, because its form is gone, adds no node.
Notify ==
  /\ H!NotifyAndKeepReading
  /\ buff' = <<>>
  /\ tree' = IF H!Hears(cur[1]) /\ cur[1] \notin FaultyHandlers
             THEN OnPipeMessageReceived(ReadByHost[buff[1]]) ELSE tree
  /\ UNCHANGED <<jitVars, docs, replies>>

-----------------------------------------------------------------------------
Callbacks == (\E t \in Threads : CallbackStep(t) \/ CallbackSends(t)) \/ AccessFaults

Constructor == OpenPipe \/ ReadReply \/ SettingsInvalid \/ ConstructorStep

ReadLoop == ReadMessage \/ Reply \/ Notify \/ LoopStep

Next == Callbacks \/ Constructor \/ ProcessEnds \/ Application \/ ReadLoop

Spec == Init /\ [][Next]_vars

-----------------------------------------------------------------------------
(* Properties.                                                             *)

\* The type invariant.
TypeOK ==
  /\ J!TypeOK /\ H!TypeOK
  /\ Len(docs) = Len(toHost) /\ Len(replies) = Len(toEngine) /\ Len(buff) = Len(cur)
  /\ \A i \in 1..Len(tree) : tree[i].event \in H!JitMessages

\* The document is read by the host as message m, and without an exception; one
\* about an error carries the error code the engine has put into it.
ReadAs(doc, m) ==
  LET msg == ReadByHost[doc] IN
  /\ msg.type = m
  /\ m = "TRACER_ERROR" =>
       HasKey(msg.data, "error") /\ TracerError(msg) = "SETTINGS_INVALID"

\* Each side means by a document what the other one reads in it, though types
\* are strings one way and numbers the other, and data without entries is a
\* string: HostComm's messages stand for what is in the pipe and the buffer.
SidesAgree ==
  /\ \A i \in 1..Len(docs) : ReadAs(docs[i], toHost[i])
  /\ \A i \in 1..Len(buff) : ReadAs(buff[i], cur[i])
  /\ \A i \in 1..Len(replies) : ReplyError(replies[i]) = toEngine[i]

\* A text as the tree shows it, which ends at the first NUL.
UpToNul(text) ==
  SubSeq(text, 1, CHOOSE n \in 0..Len(text) :
                    /\ \A i \in 1..n : text[i] # "NUL"
                    /\ n = Len(text) \/ text[n + 1] = "NUL")

\* The rows show the token, type, name and module of method m.
Names(rows, m) ==
  LET Text(key) == UpToNul(Lookup(rows, key)) IN
  /\ Text("MetadataToken") = <<Metadata[m].token>>
  /\ Text("TypeName") = <<Metadata[m].type>>
  /\ Text("MethodName") = <<Metadata[m].name>>
  /\ Text("ModuleName") = <<Metadata[m].module>>

IdsFit == \A f \in FunctionIds : J!Key(f) = f

\* The i-th node of the tree is about the i-th event of the traced process: it
\* has its kind, and names the method that was compiled, when it names any.
\* Races, faults and a pipe that breaks at any point do not change that, if ids
\* fit an int.
TreeNamesMethods ==
  /\ Len(tree) <= Len(log)
  /\ \A i \in 1..Len(tree) :
       /\ tree[i].event = EventType(log[i].type)
       /\ (DOMAIN tree[i].rows = {}) = (log[i].data = Null)
       /\ IdsFit /\ log[i].data # Null => Names(tree[i].rows, log[i].about)

\* Nodes among the first n with the given event and rows.
Count(n, event, rows) ==
  Cardinality({i \in 1..n : tree[i] = [event |-> event, rows |-> rows]})

\* The node that is to show an entry of the log, by its type and its data.
Shown == [x \in DOMAIN EventDoc |-> Node(ReadByHost[EventDoc[x]])]
ShownNodes == {Shown[x] : x \in DOMAIN Shown}

\* The rows of a beginning that names no method.
Blank == Shown[<<"STARTED", Null>>].rows

\* Nodes carry no thread and no id, so a reader of the tree can only pair them
\* by what they show.  That works: read from the top, the tree never shows more
\* ends than beginnings of what looks like one method, even if generic instances
\* of it, or one method, are compiled on several threads at a time.  After a race
\* over the cache, whose search may come back with an empty pointer, an end may
\* belong to a beginning that names no method.
PairsByName ==
  IdsFit =>
    \A n \in 1..Len(tree) :
      Count(n, "JIT_COMPILATION_FINISHED", tree[n].rows)
        <= Count(n, "JIT_COMPILATION_STARTED", tree[n].rows)
           + (IF raced THEN Count(n, "JIT_COMPILATION_STARTED", Blank) ELSE 0)

\* The entries of the log that were written to the pipe are its first ones.
Written ==
  [i \in 1..Cardinality({i \in 1..Len(sent) : sent[i] \in H!JitMessages}) |->
     Shown[<<log[i].type, log[i].data>>]]

\* The stream of events that a trace promises to who looks at the tree.
TraceStream == INSTANCE EventStream WITH
  Messages <- ShownNodes,
  written <- Written,
  seen <- tree,
  up <- conn # "closed" /\ hostOpen

\* No step repeats, skips or reorders a compilation on the way from the
\* callbacks to the tree, or shows one before it has been written.  This is
\* TraceStream!Safety; the first disjunct is a case of its stuttering, which TLC
\* sees through faster in this form.
TreeIsStream ==
  /\ TraceStream!Init
  /\ [][UNCHANGED <<tree, sent, log, conn, hostOpen>> \/ TraceStream!Next]_(TraceStream!vars)
=============================================================================
