----------------------------- MODULE PipeNaming -----------------------------
(***************************************************************************)
(* How an engine finds the pipe of the server it was launched for: the     *)
(* server picks a name that no pipe has, the traced process gets it in its *)
(* environment block, and the engine opens whatever pipe has that name by  *)
(* then.  Programs the traced process starts inherit its environment, so   *)
(* they load the engine as well.                                           *)
(***************************************************************************)
EXTENDS Naturals, FiniteSets

CONSTANTS
  Servers,       \* one HostCommServer, and one launch, each
  MaxPipeCount,  \* names the servers choose from
  Serial,        \* servers are made one after the other (one UI thread)
  Closing        \* servers may go while others come

ASSUME ServersAssumption == IsFiniteSet(Servers)
ASSUME CountAssumption == MaxPipeCount \in Nat
ASSUME ModeAssumption == Serial \in BOOLEAN /\ Closing \in BOOLEAN

VARIABLES
  stage,     \* how far LaunchTracerSuspended has come for each server
  pipeId,    \* _pipeId
  instance,  \* the pipe instance of each server
  client,    \* history: the engines that opened it
  engine     \* where the engine of each process is

vars == <<stage, pipeId, instance, client, engine>>

\* The launched program and a program that it starts.
Engines == Servers \X {"launched", "child"}
Launcher(e) == e[1]

\* An instance stays taken after its client is gone: the server does not
\* disconnect it.
Open == {"listening", "taken"}
InUse(i) == \E s \in Servers : instance[s] \in Open /\ pipeId[s] = i

\* The name in the environment block: the server's, if it has made its pipe.
HostPipeName(e) ==
  IF instance[Launcher(e)] = "none" THEN {} ELSE {pipeId[Launcher(e)]}

\* The instances an engine can connect to.
Listening(e) ==
  {s \in Servers : instance[s] = "listening" /\ pipeId[s] \in HostPipeName(e)}

Init ==
  /\ stage = [s \in Servers |-> "new"]
  /\ pipeId = [s \in Servers |-> 0]
  /\ instance = [s \in Servers |-> "none"]
  /\ client = [s \in Servers |-> {}]
  /\ engine = [e \in Engines |-> "absent"]

-----------------------------------------------------------------------------
(* The host.                                                               *)

\* Mutant: the pipes are not listed.
ListPipes_Zero(s) ==
  /\ stage[s] = "new"
  /\ Serial => \A t \in Servers : stage[t] # "listed"
  /\ stage' = [stage EXCEPT ![s] = "listed"]
  /\ UNCHANGED <<pipeId, instance, client, engine>>

\* Mutant: the count is not looked at.
ListPipes_Uncounted(s) ==
  /\ stage[s] = "new"
  /\ Serial => \A t \in Servers : stage[t] # "listed"
  /\ \E i \in 0..(MaxPipeCount + Cardinality(Servers)) :
       /\ ~InUse(i) /\ \A j \in 0..(i - 1) : InUse(j)
       /\ pipeId' = [pipeId EXCEPT ![s] = i]
  /\ stage' = [stage EXCEPT ![s] = "listed"]
  /\ UNCHANGED <<instance, client, engine>>

\* CreatePipe: the pipes are listed and the lowest id that none has is taken.
\* Without one the exception of the async void Initialize is not seen by the
\* caller, which launches the process all the same.
ListPipes(s) ==
  /\ stage[s] = "new"
  /\ Serial => \A t \in Servers : stage[t] # "listed"
  /\ \E i \in 0..MaxPipeCount :
       /\ \A j \in 0..(i - 1) : InUse(j)
       /\ i < MaxPipeCount => ~InUse(i)
       /\ pipeId' = [pipeId EXCEPT ![s] = i]
       /\ stage' = [stage EXCEPT ![s] = IF i < MaxPipeCount THEN "listed" ELSE "made"]
  /\ UNCHANGED <<instance, client, engine>>

\* CreatePipe: any number of servers may make an instance of the same name.
\* A constructor that fails is an exception of Initialize, too.
CreatePipe(s) ==
  /\ stage[s] = "listed"
  /\ stage' = [stage EXCEPT ![s] = "made"]
  /\ \/ instance' = [instance EXCEPT ![s] = "listening"]
     \/ UNCHANGED instance
  /\ UNCHANGED <<pipeId, client, engine>>

\* PrepareEnvironment and ResumeTracer.  A process that cannot be created is
\* an exception LaunchTracerSuspended swallows.
LaunchTracer(s) ==
  /\ stage[s] = "made"
  /\ stage' = [stage EXCEPT ![s] = "launched"]
  /\ engine' \in {engine, [engine EXCEPT ![<<s, "launched">>] = "opening"]}
  /\ UNCHANGED <<pipeId, instance, client>>

\* Dispose, or the end of the host process.
Close(s) ==
  /\ Closing /\ instance[s] \in Open
  /\ instance' = [instance EXCEPT ![s] = "gone"]
  /\ UNCHANGED <<stage, pipeId, client, engine>>

-----------------------------------------------------------------------------
(* The engine: HostCommClient::createPipe.                                 *)

Goto(e, p) ==
  /\ engine' = [engine EXCEPT ![e] = p]
  /\ UNCHANGED <<stage, pipeId, instance, client>>

\* Mutant: the loop goes on with a working handle.
Connect_Again(e) ==
  /\ engine[e] = "opening"
  /\ \E s \in Listening(e) :
       /\ instance' = [instance EXCEPT ![s] = "taken"]
       /\ client' = [client EXCEPT ![s] = @ \cup {e}]
  /\ UNCHANGED <<stage, pipeId, engine>>

\* CreateFile succeeds: the client of one listening instance.
Connect(e) ==
  /\ engine[e] = "opening"
  /\ \E s \in Listening(e) :
       /\ instance' = [instance EXCEPT ![s] = "taken"]
       /\ client' = [client EXCEPT ![s] = @ \cup {e}]
  /\ engine' = [engine EXCEPT ![e] = "connected"]
  /\ UNCHANGED <<stage, pipeId>>

\* ERROR_PIPE_BUSY: all instances are taken.
PipeBusy(e) ==
  /\ engine[e] = "opening" /\ Listening(e) = {}
  /\ \E i \in HostPipeName(e) : InUse(i)
  /\ Goto(e, "waiting")

\* Any other error: there is no pipe of that name.
NoPipe(e) ==
  /\ engine[e] = "opening"
  /\ \A i \in HostPipeName(e) : ~InUse(i)
  /\ Goto(e, "unconnected")

\* WaitNamedPipe finds an instance; by the next CreateFile it may be taken.
WaitNamedPipe(e) ==
  /\ engine[e] = "waiting" /\ Listening(e) # {}
  /\ Goto(e, "opening")

\* Mutant: the wait has no timeout.
WaitTimesOut_Forever(e) ==
  /\ engine[e] = "waiting"
  /\ \A i \in HostPipeName(e) : ~InUse(i)
  /\ Goto(e, "unconnected")

\* WaitNamedPipe: pipeWaitTimeout is over, or the pipe is gone.
WaitTimesOut(e) ==
  /\ engine[e] = "waiting" /\ Listening(e) = {}
  /\ Goto(e, "unconnected")

\* The traced program runs, with a pipe or without, and starts another one.
SpawnChild(s) ==
  /\ engine[<<s, "launched">>] \in {"connected", "unconnected"}
  /\ engine[<<s, "child">>] = "absent"
  /\ Goto(<<s, "child">>, "opening")

\* A process ends, at any time.
Exit(e) ==
  /\ engine[e] \notin {"absent", "ended"}
  /\ Goto(e, "ended")

CreateEnginePipe(e) ==
  Connect(e) \/ PipeBusy(e) \/ NoPipe(e) \/ WaitNamedPipe(e) \/ WaitTimesOut(e)

Next ==
  \/ \E s \in Servers :
       ListPipes(s) \/ CreatePipe(s) \/ LaunchTracer(s) \/ Close(s) \/ SpawnChild(s)
  \/ \E e \in Engines : CreateEnginePipe(e) \/ Exit(e)

Spec == Init /\ [][Next]_vars

\* A process that has started runs createPipe on, and a wait ends at its
\* timeout.
FairSpec == Spec /\ \A e \in Engines : WF_vars(CreateEnginePipe(e))

-----------------------------------------------------------------------------
(* Properties.                                                             *)

\* The type invariant.
TypeOK ==
  /\ stage \in [Servers -> {"new", "listed", "made", "launched"}]
  /\ pipeId \in [Servers -> 0..MaxPipeCount]
  /\ \A s \in Servers : instance[s] # "none" => pipeId[s] < MaxPipeCount
  /\ instance \in [Servers -> {"none", "gone"} \cup Open]
  /\ client \in [Servers -> SUBSET Engines]
  /\ engine \in [Engines -> {"absent", "opening", "waiting", "connected", "unconnected", "ended"}]

\* No two pipes have one name ("Generate a pipe id that is unused",
\* HostCommServer.cs:38).
UniqueNames ==
  \A s, t \in Servers :
    instance[s] \in Open /\ instance[t] \in Open /\ pipeId[s] = pipeId[t] => s = t

\* A server hears only of the process it launched: not of one another server
\* launched, and not of a program that process started ("what our pipename
\* is", TracerBootstrapper.cs:38).
OwnEngine == \A s \in Servers : client[s] \subseteq {<<s, "launched">>}

\* A launched process finds its pipe at once if the server could make one.
LaunchedGetsIn ==
  \A s \in Servers :
    engine[<<s, "launched">>] \in {"waiting", "unconnected"} => instance[s] = "none"

\* Launches that race may exchange their servers, but each launched process
\* gets one, unless a server of the name has closed or the program of a faster
\* launch started another one and that took the place ("Pipe shouldn't be
\* busy", HostCommClient.cpp:111).
LaunchedServed ==
  \A s \in Servers :
    instance[s] # "none" /\ engine[<<s, "launched">>] = "unconnected" =>
      \E t, u \in Servers :
        /\ pipeId[t] = pipeId[s]
        /\ instance[t] = "gone" \/ <<u, "child">> \in client[t]

\* The constructor, and with it the start of the program, never hangs in
\* createPipe, whatever other engines take or servers close.
ConnectResolves ==
  \A e \in Engines :
    engine[e] \in {"opening", "waiting"} ~> engine[e] \notin {"opening", "waiting"}
=============================================================================
