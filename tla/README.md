# A TLA+ verification project for NETTrace

NETTrace traces a .NET Framework program. A host application starts the program with a
profiler DLL loaded into it, the DLL reports what the runtime compiles, and the reports
travel to the host over a named pipe. This directory models the parts of it that run
concurrently, fail independently or share state, checks them with TLC and proves the
central safety properties with TLAPS.

All source paths below are relative to the root of the repository.

## 1. Inventory

| Component | Source | State | Operations | Talks to |
|---|---|---|---|---|
| Pipe server of the host | `src/NETTrace.Core/Communication/HostCommServer.cs` | `_pipeStream`, `_pipeId`, `_busy`, `_pipeCreated`, `_msgBuff` | `Initialize`, `CreatePipe`, `WaitForConnectionAsync`, `ListenForMessages`, `SendMessage`, `Dispose` | the pipe; the application, by events |
| Pipe client of the engine | `src/NETTrace.Engine/HostCommClient.cpp` | `mPipe`, `mInitialized` | `initialize`, `createPipe`, `sendMessage`, `sendMessageSync`, `release` | the pipe; `mIoSvc` |
| Profiler object of the engine | `src/NETTrace.Engine/ProfilerCallbackHandler.cpp` | `mRefCount`, `mProfilerInfo`, `mIoSvc`, `mWorkThread`, `mMdHelper` | constructor, `Initialize`, `Shutdown`, `AddRef`, `Release`, the JIT callbacks, some 60 callbacks that only return `S_OK` | the runtime, by COM; the pipe client; the cache |
| Function cache | `src/NETTrace.Engine/MetadataHelper.cpp`, `CachedFunction.cpp` | `mFuncMap` | `mapFunction`, `getMappedFunction`, `cacheFunction` | the runtime's metadata |
| Settings | `src/NETTrace.Engine/TraceSettings.cpp` | `mSettingsRoot`, `mTracedModules` | `getSettingsFile`, `loadSettings`, `parseTracedModules`, `isModuleTraced` | the environment block, the file system |
| Launch | `src/NETTrace.Core/Auxiliary/TracerBootstrapper.cs`, `Win32.cs` | `TracedProcessInfo` | `LaunchTracer`, `LaunchTracerSuspended`, `PrepareEnvironment`, `ResumeTracer` | the pipe server (its name), the traced process (its environment) |
| Application | `src/NETTrace.GUI/Forms/MainForm.cs` | a tree view | `button1_Click`, the event handlers | launch, pipe server |
| Messages | `src/NETTrace.Engine/PipeMessage.cpp`, `src/NETTrace.Core/Communication/PipeMessage.cs` | type and data | `serialize`/`deserialize` on each side | both ends of the pipe |
| COM entry points | `src/NETTrace.Engine/dllmain.cpp`, `ProfilerClassFactory.cpp` | `mRefCount` | `DllGetClassObject`, `CreateInstance`, `AddRef`, `Release` | the runtime |
| Conversions | `src/NETTrace.Engine/ConvertUtils.cpp` | none | `toLowerCase`, `base64_encode`, `base64_decode` | settings |

### How they interact

1. The application calls `LaunchTracerSuspended`. A `HostCommServer` lists the pipes of
   the machine, takes the first unused name `NETTrace_comm<n>`, makes its pipe and waits
   for a client asynchronously. The bootstrapper creates the program suspended, with the
   pipe's name and the path of the settings in its environment block. The application
   attaches its event handlers and resumes the process. (`LaunchTracer` resumes it
   before its caller can attach anything.)
2. The runtime of the traced process loads the engine, asks `DllGetClassObject` for a
   class factory and that for a `ProfilerCallbackHandler`. The handler's constructor
   starts a worker for `io_service`, opens the pipe, writes `INIT`, blocks until it has
   read the reply, and loads the settings. Invalid settings are reported synchronously
   before `exit(-1)`.
3. The runtime calls `Initialize`, and then the JIT callbacks on whatever managed thread
   compiles a method. A callback asks the settings whether the module is traced, asks
   the function cache for the function's data and writes a message asynchronously.
4. Continuations on the host's thread pool read one message after the other and raise
   an event for each. A read of 0 bytes means that the client is gone.
5. `Shutdown` closes the pipe and kills the worker; the last `Release` deletes the
   handler.

### What is hard about it

- Two processes, either of which may end at any step, and a pipe with messages in it.
- Start-up of the traced program is blocked by a read without a timeout.
- `async void` methods and continuations whose exceptions nobody sees, or which end the
  host.
- Callbacks on several threads over a `std::map` without a lock.
- Reads of shared things that change afterwards: the list of pipes, the name in an
  environment block (which child processes inherit), the settings file, a FunctionID.
- Exceptions that leave constructors and destructors of a COM object.

`PROJECT.json` lists each of these hazards at its line with the properties that would
catch it going wrong.

### What makes each component correct

| Component | Properties |
|---|---|
| Session | the subscriber sees what the engine wrote, in order, from the first message on and without a gap, whatever dies; nothing is lost while both ends live; handshake flags agree; the order of events is the documented one; the last error survives the exit; start-up ends; a departure is noticed |
| JIT callbacks | a message carries the data of the function it is about; nothing of an untraced module is reported; a method runs only after its announcement; messages of a thread nest, also when a method is compiled again inside its own compilation; the cache never replaces an entry |
| Pipe naming | names are unique; a server hears only of its own process; a launched process finds its pipe; nobody waits forever |
| Messages and application | each side reads in a document what the other one means; the tree shows the events of the traced program, of all threads, in order, under the names of the right methods; beginnings and ends can be paired by what the tree shows |
| Settings and engine life | a module is traced if and only if the settings that were read list it; nothing is traced without settings; the object outlives its references; after Shutdown nothing is open; what is released too often is released only at the end of the process |

## 2. The modules

| Module | Models | Composed of | Runs | Proofs |
|---|---|---|---|---|
| `EventStream` | what a session promises its subscriber | | | |
| `HostComm` | one trace session: host, pipe and engine | instance of `EventStream` | `session`, `session_live`, `session_late`, `session_gui_error` | `HostCommProofs` |
| `JitTrace` | the JIT callbacks and the function cache | | `jit`, `jit_unload`, `jit_narrow_id` | `JitTraceProofs` |
| `MessageCodec` | the documents of both sides and the data of a function | | (in `trace_system`) | `CodecProofs` |
| `TraceSystem` | a whole trace, from the callbacks to the GUI's tree | instances of `JitTrace`, `HostComm` and `EventStream`; extends `MessageCodec` | `trace_system` | `TraceSystemProofs` |
| `PipeNaming` | names, environment blocks, launches, `createPipe` | | `pipe_serial`, `pipe_concurrent`, `pipe_race` | `PipeNamingProofs` |
| `TraceSettings` | path, file and list of modules | | (in `engine`) | (in `EngineProofs`) |
| `EngineLifetime` | factory, handler, their references and resources | extends `TraceSettings` | `engine` | `EngineProofs` |

Each `MC...` module gives the constants values for TLC. A definition named
`X_Something` next to an action `X` and introduced as "Mutant" is a faulty version of `X`
that no specification uses; it documents which fault the properties would notice.

### HostComm: the session

The model starts when `LaunchTracerSuspended` returns and covers everything up to the end
of the process or of the host.

- `phase` is where the engine's one thread of control is: `suspended`, `starting` (the
  constructor has begun), `handshake` (blocked in `read_some`), `loading` (the settings),
  `reporting` (in `sendMessageSync`), `tracing`, `shutdown`, or gone as `exited`
  (`exit(-1)`), `crashed` (an exception left the constructor) or `killed`.
- `mPipe`, `mInitialized` are the members; `conn` is the client end and `hostOpen` the
  server end of the pipe; `toHost` and `toEngine` are the messages in it.
- `srv` is where the read loop is between two steps of the host's threads: waiting for a
  client, reading, answering an `INIT`, raising an event, or ended in one of four
  ways (`stopped`, `faulted`, `garbled`, `dead`); `cur` is the message in `_msgBuff`.
- `subscribed` is the set of events the application has attached its handler to. It does so
  by a statement for each (`MainForm.cs:20`), so `Subscribe(e)` is a step for each, and
  the process and the read loop may go on in between unless the process is suspended.
- `sent`, `raised` and `disc` are history: what was written, what subscribers were called
  with, and whether `OnClientDisconnected` was raised.

Each branch of `initialize()`, each way out of the constructor and each branch of
`ListenForMessages` is an action. The pipe is that of Windows: a write is queued at once
and completes when no more than `PipeQuota` messages are left; the writer's end takes
pending writes with it and leaves completed ones readable; the reader's end takes
everything with it. The server creates its pipe with a quota of 0, where only what has
been read has been written; a run with a quota of 1 looks at the other side.

Whether a write is whole is a constant. `HostCommClient.cpp:89` says that
`async_write_some` does not guarantee full delivery, and nothing in the code writes the
rest. With `PartialWrites`, one write of a session may put a part of its message into the
pipe: `cut` is the place of that message in `toHost`. The read that gets the part cannot
parse it and ends the loop (`ReadPart`, `srv = "garbled"`); if the message is the `INIT`,
the constructor stays blocked until the host closes. A named pipe in the state that the
code uses takes what one write gives it as a whole, so `session_live` and `TraceSystem`
leave partial writes out; the safety properties are checked and proved with them.

`FaultyHandlers` are the message kinds whose subscriber throws: in the GUI the error
handler does always, and the others do when the form is gone.

### JitTrace: callbacks and cache

`jitting[t]` is the stack of functions a thread is compiling: compiling one method may
run a resolve handler or a class constructor that has to be compiled. It may be any
method: the one at hand, whose class constructor calls it, and a method another thread
is compiling, are reported again, and no guard keeps them out. A message keeps, for the
properties, how deep its compilation was nested; that tells two compilations of one
method on one thread apart. `pc[t]` is the step of the callback. A search and an
insertion of `mFuncMap` take two steps each, so that they may overlap on two threads;
overlapping accesses of which one writes are a data race, and from then on a search may
miss, an insertion may lose entries, and an access may fault. A method is a pair of its
FunctionID and the number of earlier uses of the id, so that a message about an unloaded
method can be told from one about its successor. `Key` is the conversion of a FunctionID
to an `int`.

### MessageCodec: the documents

A document is the sequence of its JSON tokens. The characters of a document are the
libraries' business (boost's property tree, Newtonsoft's reader and writer); what the
code of either side does with the tokens is translated: `serialize` writes every value as
a string and the data of a message without data as the empty string, `deserialize` takes
the text of a value whatever its kind, `Serialize` writes numbers, and `Deserialize`
walks over the tokens with its assertions, its cast, its early return and the `Add` that
does not take a key twice. A `JsonStringMap` is the sequence of its pairs, in the order in
which a `std::map` is walked over; the `Dictionary` it becomes is a function, and the order
in which the GUI lists its entries is left out. A text is a sequence of parts: `FetchedName`
and `FetchedPath` say what is left in the buffers behind a name. Names are ASCII and, as
`MetadataAssumption` says, contain no NUL: metadata ends a name with it.

### TraceSystem: a whole trace

`JitTrace` and `HostComm` are instances over one state. What joins them is the documents
that stand for the session's messages: `docs` beside `toHost`, `replies` beside
`toEngine`, `buff` beside `cur`. Every action is an action of one component, or of both
at once (a callback sends its message; an access that faults ends the process;
`MemoryIsGone` takes threads and cache with the process), together with what happens to
the documents. `Notify` hands what `Deserialize` makes of the buffer to
`CommServer_OnPipeMessageReceived`, which adds a node to `tree`. The documents that can be
written are tabulated (`InitDoc`, `ErrorDoc`, `EventDoc`, `ReadByHost`), so that each is
made and read once.

Callbacks run only when the constructor is done (`Running`). The bound `Heard` lets a
thread begin a callback only while somebody may hear of it; `JitTrace` alone explores the
rest. No function is unloaded, which `jit_unload` looks at, and each write is whole. That
there was a race is remembered after the process has ended, since the tree still shows it.

`TreeIsStream` is the refinement: what the tree shows, mapped to `seen`, and what of the
log was written, mapped to `written`, is an `EventStream`.

### PipeNaming: names, launches and processes

`ListPipes` and `CreatePipe` are the two steps of `HostCommServer.CreatePipe`; `Serial`
says that a server is made only when no other is between the two (the launches of one
GUI, on its one UI thread). The environment block of a process, and of those it starts,
holds the server's name. An engine is in `createPipe`: `opening` before `CreateFile`,
`waiting` in `WaitNamedPipe`. An instance stays taken when its client is gone, since the
server never disconnects it.

### TraceSettings and EngineLifetime: the engine's objects

`TraceSettings` cuts the path as `loadSettings` does, looks at the file in one step and
reads it in another, with `EditSettings` in between. `readModules` is history: the list as
the file had it when it was read. `EngineLifetime` has the reference counts of the
factory and the handler, the references the runtime holds, the profiler info, the pipe
and the worker. `Terminate` is an exception that leaves a COM method or a destructor.
Messages are left to `HostComm`, and the pipe here is only open, closed or missing.

## 3. The runs

| Run | Question | Bounds |
|---|---|---|
| `session` | Is every safety property true of a session of the GUI, in every interleaving of constructor, callbacks, read loop, `Dispose` and death, with writes that may be partial? | 4 messages: INIT, two more in the pipe and one being raised, so that each place holds one and the queue holds several |
| `session_live` | Does start-up end, does every message arrive, is a departure noticed, is an error heard of? | 3 messages, handlers that return |
| `session_late` | What does an application see that attaches its handlers, one by one, when the process already runs? | 4 messages, partial writes, quota 1: the client, a missed message and two heard ones |
| `session_gui_error` | Does the loop keep reading? It does not. | 3 messages |
| `jit` | Do messages stay correct when two threads compile, one method inside another or inside itself, and race over the cache? | 2 threads, 2 traced ids and 1 other, depth 2, 5 messages: a compilation inside another one, or one on each thread, and the Started message of an unfinished one |
| `jit_unload` | Which guarantees outlive narrowed and reused ids? | 2 threads, 3 ids that are 2 ints, one reuse of each, one of them by a method that is not reported, depth 2, 5 messages |
| `jit_narrow_id` | Does a message name its own method on x64? It does not. | 1 thread |
| `trace_system` | Does the tree of the GUI show what the traced program compiled, whatever the threads, the processes and the pipe do? | 2 threads, 3 ids: two instances of one generic method and a function without metadata; depth 1, 4 events and INIT or an error; threads are symmetric |
| `pipe_serial` | Does each process of one GUI find its own server? | 3 launches, 2 names: the last finds none |
| `pipe_concurrent` | What is left when hosts launch at the same time and close? Does `createPipe` end? | 2 servers, each with a child process |
| `pipe_race` | Is a name unused when it is taken? It need not be. | 2 servers |
| `engine` | Are objects, settings and resources right through every outcome of every step? | 2 modules in 2 spellings, lists of up to 2 names, 3 references |

Session and engine may stop for good (a process ends), and the bounds on messages, reuses
and launches end the others: the runs do not check for deadlock, and liveness is stated
instead where something has to happen.

The bounds are named in the modules (`MaxSent`, `MaxLog`, `MaxDepth`, `MaxUses`,
`MaxModules`, `MaxRefs`, `Heard`) and only guard the actions they bound. Data are
interchangeable beyond what a property tells apart: two messages of each kind, two
threads and two methods exhibit every pairwise interleaving, and the proofs take the
sizes away where they exist.

### Disagreements with the source's comments

1. `session_gui_error`. `HostCommServer.cs:106` says `// Keep reading`. The continuation
   runs the subscribers unprotected, and the GUI's `OnTracerError` handler throws
   `NotImplementedException` (`MainForm.cs:27`): the next read is never started although
   the pipe is open.
2. `jit_narrow_id`. `MetadataHelper.cpp:42` says `// get the token for the function`. The
   64-bit FunctionID has become an `int` by then, so two functions can share an entry, and
   a message names the wrong one.
3. `pipe_race`. `HostCommServer.cs:38` says `// Generate a pipe id that is unused`. The
   listing and the creation are two steps, and the pipe allows any number of instances:
   two hosts may take one name.

One comment is a TODO, and the code is what it says: `async_write_some doesn't guarantee
full delivery` (`HostCommClient.cpp:89`); `sendMessageSync` writes in the same way and
asserts that all was written (lines 98 to 104, in a debug build only). No run is about it
alone. The sessions with partial writes show what is left: what the subscriber has seen is
still a prefix of what was written, and nothing is lost while both ends are open until the
loop meets the partial message (`srv # "garbled"` in `NothingLostWhileConnected` and
`ErrorSurvivesExit`). From there on the host is deaf on an open pipe, without an event, and
everything behind that message is lost.

### Fairness

Safety runs use no fairness. `HostComm!FairSpec` is weakly fair to the engine's
constructor (the loader runs it, and nothing else runs before it is done) and to the read
loop (the thread pool runs continuations of completed reads). Nothing makes the
application resume a process or close a server, and nothing makes the traced program
compile, shut down or end. So `StartupResolves` needs no fairness of the application: it
holds because a server that never answers is one whose loop has ended, which in that run
happens only with its pipe. In `session_live` handlers return; a handler that never does
would stop the loop, and one that throws does (`session_gui_error`).
`PipeNaming!FairSpec` is weakly fair to `createPipe` of each process and to the timeout
of its wait. `trace_system` is about safety: the liveness of a session does not depend on
what is compiled or how it is written down, and is checked in `session_live`.

## 4. The proofs

All theorems hold for every value of the constants that satisfies the named assumptions.
TLC evaluates the assumptions in every run.

**HostCommProofs.** The properties are not inductive, because they speak of `sent` and
`raised` only. The strengthening comes in layers, each proved from the ones before it:
`LoopInv` (the loop holds a message exactly while it handles one), `EngineInv` (the phase
fixes what has been opened and written: INIT first, an error at once or never),
`DisconnectInv`, `DeliveryInv` (`raised`, `cur` and `toHost` are adjacent pieces of
`sent`, and complete while both ends live) and `HandshakeInv` (a reply is written once).
`DeliveryInv` says that there is a number `n` of messages the loop is through with:
`Handled(n)` says that `cur` and `toHost` are what follows them in `sent`, up to a partial
message, and `Heard(n)` that the application has heard the last ones of the `n`, the INIT
apart, and has a handler for each kind it has heard. That handlers stay attached, and that
all messages behind the INIT are of one event or a single error, is why what has been heard
once goes on being heard: `ContiguousDelivery` has one gap, in front of the first message of
the callbacks, and the INIT may lie before it. After a suspended launch `n` is
`Len(raised)`. So `Agreement`, `Grammar`, `FaultsConfined` and `Contiguous` hold
of every launch, and only `Stream`, whose abstract specification promises the messages from
the first one on, assumes `SuspendedLaunch`. `StepSorted` sorts the steps by what they do to
the pipe, so that each layer has one case per kind of step. `Stream` shows that every
step of the session is a step of `EventStream` or a stutter.

**PipeNamingProofs.** There are two inductive invariants. The first is for `Serial` and
`~Closing`. The listing of the pipes and the making of one are two steps, and what the
first has found is still so at the second only because no other server is between the
two: `Stages` says that the id of the one listed server is free. `Places` says that a
launched process takes its instance before its program runs, and so before a child can:
without it a child may take the instance. The second, `RaceInv`, holds of all launches,
concurrent and closing ones too, and gives `LaunchedServed`: `Order` (a process has the
name of its server, and a child the name of its parent), `Clients` (a client is of a
process whose environment has the name of the pipe) and `Excused` (a launched process
that has given up found no free instance, and those that took all of them are still
there, or a server has closed). That the instances suffice is a count: a process that
takes an instance of its name is launched by a server of that name or is a child of such
a process, and `PlacesCount` compares the finite set of servers of one name with the
clients they have. For that `ServersAssumption` says that there are finitely many.

**EngineProofs.** `SettingsInv` relates the lower-case list to the list that was read,
and survives every edit of the file since it does not speak of the file. `RefsInv` says
that the count of the object is that of the runtime, and that the profiler info is owned
between `Initialize` and the first release: so the second one can only be the
destructor's, in the step that ends the process.

**JitTraceProofs.** The inductive invariant is `Stacks` (a thread in a callback compiles
something) with `CompilationsAnnounced` and `WellNested` themselves, since the messages
have a depth. While a compilation of depth `d` is open, its thread sends messages of
greater depth only (`DeeperSince`). So its Started message is the last one of depth `d`
or less, and the Finished message of the compilation on top of the stack closes exactly
the Started message of that compilation, though the same method may lie further down on
the stack or be in the hands of another thread. `StepSorted` says that every step
announces a compilation, finishes one or leaves the open ones and the log alone. None of
this speaks of the cache, so `CompilationsAreAnnounced` and `MessagesNest` hold with
races, narrowed ids and ids used again. `CacheIsStable` needs the types only.
`PairsAreMatched` rests on `PairInv`: as long as nothing raced, what a Started message
was sent for is reported (`Reported`), and if the message has data its method is in the
cache from then on (`Cached`), so that the Finished callback sends its message too; each
Started message is therefore closed or belongs to an open compilation with only deeper
messages since (`Accounted`). `MessagesAreTrue` (`NamesItsMethod`) and
`OnlyTracedReported` need `IdsAreMethods`, that ids fit an `int` and are used once: then
an entry is empty or the reported method of its key (`CacheOK`), and each callback
carries the data of its own method (`CallbackOK`). Without the assumption
`NamesItsMethod` is false (`jit_narrow_id`).

`DataInv` is one more layer on top, for ids that fit and are used once. It says when the two
messages of a compilation agree about having data. A method without metadata is never in
the cache (`CacheNamed`), so a Finished message, which is sent only with what the cache
holds, is of a method that has metadata; and without a race a Started message without data
is of a method that has none (`CallNamed`, `LogNamed`). So the Started message that a
Finished one closes had data as well. After a race that is not so: a search may come back
with an empty pointer, and the Started message then names no method, while another thread
puts the function into the cache.

**CodecProofs.** What one side writes is what the other side reads, for every sequence of
pairs, as long as no key occurs twice. `DocumentLaidOut` gives the place of each token,
`CurrProp` at a value is then the name in front of it, and so the loop of `Deserialize`
adds each pair once (`ObjectRead`). `HostReads` and `HostReadsNoData` are the engine's two
forms of a message; `EngineReads` is the reply, in which the numbers come as numbers.

**TraceSystemProofs.** The theorems about the components hold in the system:
`StepsOfComponents` shows that each of its steps is a step or a stutter of `HostComm` and of
`JitTrace`, with one exception. When the process ends, `MemoryIsGone` resets its threads and
cache, which `JitTrace` cannot do, and `ProcessGone` shows that the invariant of `JitTrace`
survives it. On top of the two invariants come those that join them:

- `DocsInv` and `RepliesInv`: the documents in the pipe, in the other direction and in the
  buffer go one by one with the session's messages, and are among those the sides can
  write. `SidesDoAgree` follows with the theorems of `CodecProofs`.
- `SentInv`: nothing is logged before the constructor is done, and what has been written
  behind the `INIT` is the log from its first entry on, or an error. The log may go on when
  the pipe is gone, so it is a beginning of the log and no more.
- `TreeInv`: the document at each place in the pipe is that of the log's entry at the
  corresponding place (`Queued`), and the tree has a node for each entry handled so far
  (`Grown`, `Handled`). It speaks of a suspended launch: who subscribes late has not seen
  the first events.

`TreeDoesNameMethods` is `TreeInv` with `AboutInv` of `JitTrace` and the fact that a
text is shown up to its NUL. `NodesPairByName` adds `DataInv` and `WellNested`: the
entry behind a node that shows an end closes an earlier entry of the same method. If
both have data, their nodes have the same rows; if not, there was a race, and the
earlier one is `Blank`. Since no entry is closed twice, which its depth decides
(`ClosesOnce`), the ends map one to one to beginnings further up, which is what compares
the two counts. (`NeverGarbled`: in the system each write is whole.) The argument goes
from nodes back to the log because nodes name neither a thread nor an id.
`TreeShowsStream` is the refinement: the messages about callbacks are all of `sent` but
the `INIT`, or none (`JitsCounted`), a write extends what is written by the next entry
of the log, a notification shows the next of what was written, and an end that has
closed stays closed, which is a consequence of the refinement of the session itself.

All safety invariants and action properties that the passing runs check are proved. Only
model-checked are the liveness properties (`StreamSpec`, `StartupResolves`,
`DepartureNoticed`, `ErrorReported`, `ConnectResolves`): they need fairness and `ENABLED`,
which the installed backends cannot reason about. The safety part of `StreamSpec` is
`Stream`.

## 5. What the models say beside the properties

- A Finished message can be missing for a Started one: a function without metadata is
  never cached and `JITCompilationFinished` skips it. `PairsMatch` states when none is
  missing. The other way round, the Finished message of a traced method always has its
  Started one (`WellNested`).
- An id that is used again after an unload finds the old entry: its messages name the old
  method, and a Finished message can come for a method outside the traced modules.
  `NamesItsMethod` and `OnlyTraced` therefore belong to runs without reuse, and
  `WellNested` speaks of traced methods: `jit_unload` contains the others.
- The check of the settings file (`TraceSettings.cpp:45`) rejects a file that exists, and
  is harmless since the path still has its quotation marks and is never found.
- The last `Release` always ends the process: the destructor has closed the pipe, and that
  of `mCommClient` cancels on the closed handle, which throws out of a destructor. The
  same happens in `Shutdown` when there is no open pipe.
- A refused `Initialize` therefore brings down the program that should be traced.
- The reply `PIPE_BUSY` is unreachable: one pipe instance has one client, which sends one
  `INIT`. It is modelled all the same, and `DeliveryInv` shows that it is never sent.
- Under a concurrent launch two processes may exchange their hosts, and a child of the
  faster one may take the place of the slower one, which then traces into nothing.
- Messages name neither a thread nor an instance: two instances of a generic method that
  are compiled at the same time show nodes that look alike, and so do two compilations
  of one method. `PairsByName` is what is left: from the top on there are never more
  ends than beginnings of a name. After a race a beginning may name no method while its
  end names one; that takes a method that is compiled again before the first compilation
  has ended, and more messages than `trace_system` has; the theorem covers it.
- The padding behind a name is harmless to `TypeName` and `MethodName`, since a control
  shows a text up to its NUL. `FullyQualifiedName` has the NUL of the type in front of the
  ".", so the tree shows the type there and no method.
- The comment at `PipeMessage.cpp:37` promises strings in an object. The host's replies
  carry numbers, and a message without data carries a string in the place of the object;
  each reader copes with what it gets, not with what it writes (`SidesAgree`).
- A failed compilation looks like one that has succeeded: `JITCompilationFinished` does
  not look at `hrStatus`.

## 6. What is not modelled

- The characters of a JSON document, and names that are not ASCII: the engine cuts each
  character to a byte, and the host reads bytes in the code page of its machine.
- `HostCommClient::run`, `handleRead` and the base64 functions, which nothing calls.
- What Windows and the runtime do beyond what they promise this code: the pipe's queue
  and the calls of the profiling interface are external definitions, marked as such in
  `PROJECT.json`.
- Generated code, project files and the example program. Of `MainForm`, the handlers that
  nothing attaches.
- Memory: buffers of pending writes, and the effect of `TerminateThread` on locks.

## 7. Plan

Done, in this order: `EventStream` and `HostComm` with `HostCommProofs`; `JitTrace` with
`JitTraceProofs`; `PipeNaming` with `PipeNamingProofs`; `TraceSettings` and
`EngineLifetime` with `EngineProofs`; `MessageCodec` and `TraceSystem` with
`CodecProofs` and `TraceSystemProofs`.

Next:

1. What holds of `TraceSystem` when the application subscribes late: the tree shows the
   events from some point on, in order and under the right names. `Heard` in
   `HostCommProofs` is the part of it that concerns the session.
2. What the `MaxSent` and `Heard` bounds of `TraceSystem` leave to the components: a
   trace in which callbacks go on when nobody hears of them.
