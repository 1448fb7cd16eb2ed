--------------------------- MODULE PipeNamingProofs ---------------------------
(***************************************************************************)
(* Proofs for every number of servers and of names: what any launches keep *)
(* true, however they race, and what the launches of one host process that *)
(* are made one after the other keep besides.                              *)
(***************************************************************************)
EXTENDS PipeNaming, FiniteSetTheorems, TLAPS

\* A server makes its pipe after listing the others and launches its process
\* after that, so that the id of a pipe never changes.
Order ==
  \A s \in Servers :
    /\ stage[s] \in {"new", "listed"} => instance[s] = "none"
    /\ stage[s] = "listed" => pipeId[s] < MaxPipeCount
    /\ stage[s] # "launched" => \A e \in Engines : Launcher(e) = s => engine[e] = "absent"

\* A taken instance has one client, whose environment has the instance's name;
\* an engine is the client of one instance at most.
Clients ==
  \A s \in Servers :
    /\ instance[s] = "taken" => client[s] # {}
    /\ client[s] # {} => instance[s] \in {"taken", "gone"}
    /\ \A e \in client[s] :
         /\ engine[e] \in {"connected", "ended"}
         /\ instance[Launcher(e)] # "none" /\ pipeId[Launcher(e)] = pipeId[s]
         /\ \A t \in Servers : e \in client[t] => t = s

\* What holds of launches that race.
RaceInv == TypeOK /\ Order /\ Clients /\ LaunchedServed

\* One host: the id of a listed server is still free, since no other server is
\* listed.
Stages ==
  \A s \in Servers :
    /\ stage[s] = "listed" =>
         /\ ~InUse(pipeId[s])
         /\ \A t \in Servers : stage[t] = "listed" => t = s
    /\ instance[s] # "gone"

\* One host: the launched process takes the instance of its server before the program
\* runs, which is before that can start another one.
Places ==
  \A s \in Servers :
    /\ engine[<<s, "launched">>] \in {"absent", "opening"} => instance[s] # "taken"
    /\ engine[<<s, "launched">>] = "connected" => instance[s] = "taken"
    /\ engine[<<s, "child">>] # "absent" => instance[s] # "listening"

IInv == TypeOK /\ Order /\ UniqueNames /\ OwnEngine /\ LaunchedGetsIn /\ Stages /\ Places

-----------------------------------------------------------------------------
\* Every step keeps the types; the id of a made pipe is one of the names since
\* only a listed server makes one.
LEMMA TypeStep ==
  ASSUME TypeOK, Order, [Next]_vars
  PROVE  TypeOK'
<1> USE DEF TypeOK, Open, Engines, Launcher
<1>1. ASSUME NEW s \in Servers, ListPipes(s) PROVE TypeOK'
  BY <1>1, CountAssumption DEF ListPipes, Order
<1>2. ASSUME NEW s \in Servers, CreatePipe(s) PROVE TypeOK'
  <2>1. /\ stage' = [stage EXCEPT ![s] = "made"]
        /\ UNCHANGED <<pipeId, client, engine>>
        /\ \/ UNCHANGED instance
           \/ instance' = [instance EXCEPT ![s] = "listening"] /\ pipeId[s] < MaxPipeCount
    BY <1>2 DEF CreatePipe, Order
  <2>2. stage' \in [Servers -> {"new", "listed", "made", "launched"}]
    BY <2>1
  <2>3. instance' \in [Servers -> {"none", "gone"} \cup Open]
    BY <2>1
  <2>4. \A x \in Servers : instance'[x] # "none" => pipeId'[x] < MaxPipeCount
    BY <2>1
  <2> QED
    BY <2>1, <2>2, <2>3, <2>4
<1>3. ASSUME NEW s \in Servers, LaunchTracer(s) PROVE TypeOK'
  <2>1. /\ stage' = [stage EXCEPT ![s] = "launched"]
        /\ engine' \in {engine, [engine EXCEPT ![<<s, "launched">>] = "opening"]}
        /\ UNCHANGED <<pipeId, instance, client>>
    BY <1>3 DEF LaunchTracer
  <2> QED
    BY <2>1
<1>4. ASSUME NEW s \in Servers, Close(s) PROVE TypeOK'
  BY <1>4 DEF Close
<1>5. ASSUME NEW s \in Servers, SpawnChild(s) PROVE TypeOK'
  BY <1>5 DEF SpawnChild, Goto
<1>6. ASSUME NEW e \in Engines, Connect(e) PROVE TypeOK'
  BY <1>6 DEF Connect, Listening
<1>7. ASSUME NEW e \in Engines, NEW p \in {"waiting", "unconnected", "opening", "ended"}, Goto(e, p)
      PROVE  TypeOK'
  BY <1>7 DEF Goto
<1>8. CASE UNCHANGED vars
  BY <1>8 DEF vars
<1> QED
  BY <1>1, <1>2, <1>3, <1>4, <1>5, <1>6, <1>7, <1>8
  DEF Next, CreateEnginePipe, PipeBusy, NoPipe, WaitNamedPipe, WaitTimesOut, Exit

\* No step of a server comes before its turn, and a process is there only when
\* its server has launched it.
LEMMA OrderStep ==
  ASSUME TypeOK, Order, [Next]_vars
  PROVE  Order'
<1> USE DEF TypeOK, Order, Open, Engines, Launcher
<1>1. ASSUME NEW s \in Servers, ListPipes(s) PROVE Order'
  BY <1>1, CountAssumption DEF ListPipes
<1>2. ASSUME NEW s \in Servers, CreatePipe(s) PROVE Order'
  BY <1>2 DEF CreatePipe
<1>3. ASSUME NEW s \in Servers, LaunchTracer(s) PROVE Order'
  BY <1>3 DEF LaunchTracer
<1>4. ASSUME NEW s \in Servers, Close(s) PROVE Order'
  BY <1>4 DEF Close
<1>5. ASSUME NEW s \in Servers, SpawnChild(s) PROVE Order'
  <2>1. stage[s] = "launched"
    BY <1>5 DEF SpawnChild
  <2> QED
    BY <1>5, <2>1 DEF SpawnChild, Goto
<1>6. ASSUME NEW e \in Engines, Connect(e) PROVE Order'
  <2>1. stage[Launcher(e)] = "launched"
    BY <1>6 DEF Connect
  <2> QED
    BY <1>6, <2>1 DEF Connect, Listening
<1>7. ASSUME NEW e \in Engines, engine[e] # "absent",
             NEW p \in {"waiting", "unconnected", "opening", "ended"}, Goto(e, p)
      PROVE  Order'
  BY <1>7 DEF Goto
<1>8. CASE UNCHANGED vars
  BY <1>8 DEF vars
<1> QED
  BY <1>1, <1>2, <1>3, <1>4, <1>5, <1>6, <1>7, <1>8
  DEF Next, CreateEnginePipe, PipeBusy, NoPipe, WaitNamedPipe, WaitTimesOut, Exit

\* Only a connection makes clients, and the instance it takes was listening, so
\* it had none.
LEMMA ClientsStep ==
  ASSUME TypeOK, Order, Clients, [Next]_vars
  PROVE  Clients'
<1> USE DEF TypeOK, Order, Clients, Open, Engines, Launcher
<1>1. ASSUME NEW s \in Servers, ListPipes(s) PROVE Clients'
  <2>1. instance[s] = "none" /\ client[s] = {}
    BY <1>1 DEF ListPipes
  <2> QED
    BY <1>1, <2>1 DEF ListPipes
<1>2. ASSUME NEW s \in Servers, CreatePipe(s) PROVE Clients'
  <2>1. instance[s] = "none" /\ client[s] = {}
    BY <1>2 DEF CreatePipe
  <2> QED
    BY <1>2, <2>1 DEF CreatePipe
<1>3. ASSUME NEW s \in Servers, LaunchTracer(s) PROVE Clients'
  <2>1. engine[<<s, "launched">>] = "absent"
    BY <1>3 DEF LaunchTracer
  <2>2. /\ UNCHANGED <<pipeId, instance, client>>
        /\ engine' \in {engine, [engine EXCEPT ![<<s, "launched">>] = "opening"]}
    BY <1>3 DEF LaunchTracer
  <2>3. \A e \in Engines : engine[e] \in {"connected", "ended"} => engine'[e] = engine[e]
    BY <2>1, <2>2
  <2> QED
    BY <2>2, <2>3
<1>4. ASSUME NEW s \in Servers, Close(s) PROVE Clients'
  BY <1>4 DEF Close
<1>5. ASSUME NEW e \in Engines, Connect(e) PROVE Clients'
  <2>1. PICK s \in Listening(e) :
          /\ instance' = [instance EXCEPT ![s] = "taken"]
          /\ client' = [client EXCEPT ![s] = @ \cup {e}]
    BY <1>5 DEF Connect
  <2>2. s \in Servers /\ instance[s] = "listening" /\ client[s] = {}
        /\ Launcher(e) \in Servers
        /\ instance[Launcher(e)] # "none" /\ pipeId[Launcher(e)] = pipeId[s]
    BY DEF Listening, HostPipeName
  <2>3. \A t \in Servers : e \notin client[t]
    BY <1>5 DEF Connect
  <2> QED
    BY <1>5, <2>1, <2>2, <2>3 DEF Connect
<1>6. ASSUME NEW e \in Engines, NEW p, Goto(e, p),
             p = "ended" \/ engine[e] \notin {"connected", "ended"}
      PROVE  Clients'
  BY <1>6 DEF Goto
<1>7. ASSUME NEW s \in Servers, SpawnChild(s) PROVE Clients'
  BY <1>6, <1>7 DEF SpawnChild
<1>8. CASE UNCHANGED vars
  BY <1>8 DEF vars
<1> QED
  BY <1>1, <1>2, <1>3, <1>4, <1>5, <1>6, <1>7, <1>8
  DEF Next, CreateEnginePipe, PipeBusy, NoPipe, WaitNamedPipe, WaitTimesOut, Exit

\* Why a launched process is without a pipe although its server made one.
Excused(s) ==
  \E t, u \in Servers :
    /\ pipeId[t] = pipeId[s]
    /\ instance[t] = "gone" \/ <<u, "child">> \in client[t]

\* A made pipe keeps its id, a closed one does not come back, and a client is
\* remembered.
LEMMA PipeLasts ==
  ASSUME TypeOK, Order, [Next]_vars, NEW x \in Servers
  PROVE  /\ instance[x] # "none" => pipeId'[x] = pipeId[x]
         /\ instance[x] = "gone" => instance'[x] = "gone"
         /\ client[x] \subseteq client'[x]
<1> USE DEF TypeOK, Order, Open
<1>1. ASSUME NEW s \in Servers, ListPipes(s)
      PROVE  (instance[x] # "none" => pipeId'[x] = pipeId[x]) /\ UNCHANGED <<instance, client>>
  BY <1>1 DEF ListPipes
<1>2. ASSUME NEW s \in Servers, CreatePipe(s)
      PROVE  (instance[x] # "none" => instance'[x] = instance[x]) /\ UNCHANGED <<pipeId, client>>
  BY <1>2 DEF CreatePipe
<1>3. ASSUME NEW s \in Servers, Close(s)
      PROVE  (instance[x] = "gone" => instance'[x] = "gone") /\ UNCHANGED <<pipeId, client>>
  BY <1>3 DEF Close
<1>4. ASSUME NEW e \in Engines, Connect(e)
      PROVE  /\ instance[x] = "gone" => instance'[x] = "gone"
             /\ pipeId' = pipeId
             /\ client[x] \subseteq client'[x]
  BY <1>4 DEF Connect, Listening
<1>5. CASE UNCHANGED <<pipeId, instance, client>>
  BY <1>5
<1> QED
  BY <1>1, <1>2, <1>3, <1>4, <1>5
  DEF Next, LaunchTracer, SpawnChild, CreateEnginePipe, PipeBusy, NoPipe,
      WaitNamedPipe, WaitTimesOut, Exit, Goto, vars

\* The excuse of a made pipe lasts.
LEMMA ExcuseLasts ==
  ASSUME TypeOK, Order, Clients, [Next]_vars,
         NEW s \in Servers, instance[s] # "none", Excused(s)
  PROVE  Excused(s)'
<1>1. PICK t \in Servers, u \in Servers :
        /\ pipeId[t] = pipeId[s]
        /\ instance[t] = "gone" \/ <<u, "child">> \in client[t]
  BY DEF Excused
<1>2. instance[t] # "none"
  BY <1>1 DEF Clients
<1>3. pipeId'[t] = pipeId'[s]
  BY <1>1, <1>2, PipeLasts
<1>4. instance'[t] = "gone" \/ <<u, "child">> \in client'[t]
  BY <1>1, PipeLasts
<1> QED
  BY <1>3, <1>4 DEF Excused

\* The places of one name are as many as its servers, and each launched process
\* takes one at most: when none is left to the process of s, a child has one or
\* a server has gone.
LEMMA PlacesCount ==
  ASSUME TypeOK, Clients, NEW s \in Servers,
         instance[s] # "none", engine[<<s, "launched">>] = "waiting",
         Listening(<<s, "launched">>) = {}
  PROVE  Excused(s)
<1> SUFFICES ASSUME ~Excused(s) PROVE FALSE
  OBVIOUS
<1> DEFINE G == {t \in Servers : instance[t] # "none" /\ pipeId[t] = pipeId[s]}
           f == [t \in G |-> Launcher(CHOOSE e \in client[t] : TRUE)]
<1>1. \A t \in G : instance[t] = "taken"
  <2>1. \A t \in G : instance[t] # "gone"
    BY DEF Excused
  <2>2. \A t \in G : instance[t] # "listening"
    BY DEF Listening, HostPipeName, Launcher
  <2> QED
    BY <2>1, <2>2 DEF TypeOK, Open
<1>2. ASSUME NEW t \in G
      PROVE  /\ f[t] \in G \ {s}
             /\ <<f[t], "launched">> \in client[t]
  <2>1. PICK e \in client[t] : f[t] = Launcher(e)
    BY <1>1 DEF Clients
  <2>2. e \in Engines
    BY <2>1 DEF TypeOK
  <2>3. PICK u \in Servers, k \in {"launched", "child"} : e = <<u, k>>
    BY <2>2 DEF Engines
  <2>4. k = "launched"
    BY <2>1, <2>3 DEF Excused
  <2>5. f[t] = u /\ u \in G
    BY <2>1, <2>3 DEF Launcher, Clients
  <2>6. u # s
    BY <2>1, <2>3, <2>4 DEF Clients
  <2> QED
    BY <2>1, <2>3, <2>4, <2>5, <2>6
<1>3. IsFiniteSet(G) /\ s \in G
  BY ServersAssumption, FS_Subset
<1> HIDE DEF f, G
<1>4. Cardinality(G \ {s}) < Cardinality(G) /\ IsFiniteSet(G \ {s})
  <2>1. Cardinality(G) \in Nat
    BY <1>3, FS_CardinalityType
  <2>2. IsFiniteSet(G \ {s}) /\ Cardinality(G \ {s}) = Cardinality(G) - 1
    BY <1>3, FS_RemoveElement, Zenon
  <2> QED
    BY <2>1, <2>2
<1>5. f \in [G -> G \ {s}]
  BY <1>2 DEF f
<1>6. PICK x \in G, y \in G : x # y /\ f[x] = f[y]
  BY <1>3, <1>4, <1>5, FS_PigeonHole
<1>7. x \in Servers /\ y \in Servers
  BY DEF G
<1> QED
  BY <1>2, <1>6, <1>7 DEF Clients

\* A launched process gives up only in createPipe, for want of any pipe of the
\* name or of a free one.
LEMMA ServedStep ==
  ASSUME TypeOK, Order, Clients, LaunchedServed, [Next]_vars
  PROVE  LaunchedServed'
<1> SUFFICES ASSUME NEW s \in Servers,
                    instance'[s] # "none", engine'[<<s, "launched">>] = "unconnected"
             PROVE  Excused(s)'
  BY DEF LaunchedServed, Excused
<1> DEFINE e == <<s, "launched">>
<1>1. e \in Engines /\ Launcher(e) = s
  BY DEF Engines, Launcher
<1>2. CASE engine[e] = "unconnected"
  <2>1. instance[s] # "none"
    <3>1. stage[s] = "launched"
      BY <1>1, <1>2 DEF Order
    <3>2. ASSUME NEW x \in Servers, CreatePipe(x) PROVE instance'[s] = instance[s]
      BY <3>1, <3>2 DEF CreatePipe, TypeOK
    <3>3. ASSUME NEW x \in Servers, Close(x) PROVE instance[s] # "none"
      BY <3>3 DEF Close, TypeOK, Open
    <3>4. ASSUME NEW x \in Engines, Connect(x) PROVE instance[s] # "none"
      BY <3>4 DEF Connect, Listening, TypeOK
    <3>5. CASE UNCHANGED instance
      BY <3>5
    <3> QED
      BY <3>2, <3>3, <3>4, <3>5
      DEF Next, ListPipes, LaunchTracer, SpawnChild, CreateEnginePipe, PipeBusy, NoPipe,
          WaitNamedPipe, WaitTimesOut, Exit, Goto, vars
  <2>2. Excused(s)
    BY <1>2, <2>1 DEF LaunchedServed, Excused
  <2> QED
    BY <2>1, <2>2, ExcuseLasts
<1>3. CASE engine[e] # "unconnected"
  <2>1. NoPipe(e) \/ WaitTimesOut(e)
    <3>1. ASSUME NEW x \in Engines, NEW p \in {"waiting", "opening", "ended", "connected"},
                 engine' = [engine EXCEPT ![x] = p]
          PROVE  FALSE
      BY <1>1, <1>3, <3>1 DEF TypeOK
    <3>2. ASSUME NEW x \in Engines, NoPipe(x) \/ WaitTimesOut(x) PROVE x = e
      BY <1>1, <1>3, <3>2 DEF NoPipe, WaitTimesOut, Goto, TypeOK
    <3>3. engine' # engine
      BY <1>3
    <3>4. ASSUME NEW x \in Servers PROVE <<x, "launched">> \in Engines /\ <<x, "child">> \in Engines
      BY DEF Engines
    <3>5. \A x \in Servers : ~LaunchTracer(x) /\ ~SpawnChild(x)
      BY <3>1, <3>3, <3>4 DEF LaunchTracer, SpawnChild, Goto
    <3>6. \A x \in Servers : ~ListPipes(x) /\ ~CreatePipe(x) /\ ~Close(x)
      BY <3>3 DEF ListPipes, CreatePipe, Close
    <3>7. \A x \in Engines : ~Connect(x) /\ ~PipeBusy(x) /\ ~WaitNamedPipe(x) /\ ~Exit(x)
      BY <3>1 DEF Connect, PipeBusy, WaitNamedPipe, Exit, Goto
    <3> QED
      BY <3>2, <3>3, <3>5, <3>6, <3>7 DEF Next, CreateEnginePipe, vars
  <2>2. instance[s] # "none"
    BY <2>1 DEF NoPipe, WaitTimesOut, Goto
  <2>3. ASSUME NoPipe(e) PROVE Excused(s)
    <3>1. ~InUse(pipeId[s])
      BY <1>1, <2>2, <2>3 DEF NoPipe, HostPipeName
    <3>2. instance[s] = "gone"
      BY <2>2, <3>1 DEF InUse, TypeOK, Open
    <3> QED
      BY <3>2 DEF Excused
  <2>4. ASSUME WaitTimesOut(e) PROVE Excused(s)
    BY <2>2, <2>4, PlacesCount DEF WaitTimesOut
  <2> QED
    BY <2>1, <2>2, <2>3, <2>4, ExcuseLasts
<1> QED
  BY <1>2, <1>3

\* Listing and making a pipe exclude each other among the servers, so what the
\* listing found is still so when the pipe is made.
LEMMA StagesStep ==
  ASSUME Serial, ~Closing, TypeOK, Order, Stages, [Next]_vars
  PROVE  Stages'
<1> USE DEF TypeOK, Order, Stages, Open, Engines, Launcher
<1>1. ASSUME NEW s \in Servers, ListPipes(s) PROVE Stages'
  <2>1. PICK i \in 0..MaxPipeCount :
          /\ i < MaxPipeCount => ~InUse(i)
          /\ pipeId' = [pipeId EXCEPT ![s] = i]
          /\ stage' = [stage EXCEPT ![s] = IF i < MaxPipeCount THEN "listed" ELSE "made"]
    BY <1>1 DEF ListPipes
  <2>2. \A j : InUse(j)' => InUse(j)
    BY <1>1, <2>1 DEF ListPipes, InUse
  <2>3. \A t \in Servers : stage[t] # "listed"
    BY <1>1 DEF ListPipes
  <2> QED
    BY <1>1, <2>1, <2>2, <2>3 DEF ListPipes
<1>2. ASSUME NEW s \in Servers, CreatePipe(s) PROVE Stages'
  BY <1>2 DEF CreatePipe, InUse
<1>3. ASSUME NEW s \in Servers, LaunchTracer(s) PROVE Stages'
  <2>1. \A j : InUse(j)' <=> InUse(j)
    BY <1>3 DEF LaunchTracer, InUse
  <2> QED
    BY <1>3, <2>1 DEF LaunchTracer
<1>4. ASSUME NEW s \in Servers, SpawnChild(s) PROVE Stages'
  <2>1. stage[s] = "launched"
    BY <1>4 DEF SpawnChild
  <2> QED
    BY <1>4, <2>1 DEF SpawnChild, Goto, InUse
<1>5. ASSUME NEW e \in Engines, Connect(e) PROVE Stages'
  <2>1. engine[e] # "absent" /\ stage[Launcher(e)] = "launched"
    BY <1>5 DEF Connect
  <2>2. \A j : InUse(j)' <=> InUse(j)
    BY <1>5 DEF Connect, Listening, InUse
  <2> QED
    BY <1>5, <2>1, <2>2 DEF Connect, Listening
<1>6. ASSUME NEW e \in Engines, engine[e] # "absent",
             NEW p \in {"waiting", "unconnected", "opening", "ended"}, Goto(e, p)
      PROVE  Stages'
  BY <1>6 DEF Goto, InUse
<1>7. CASE UNCHANGED vars
  BY <1>7 DEF vars, InUse
<1>8. \A s \in Servers : ~Close(s)
  BY DEF Close
<1> QED
  BY <1>1, <1>2, <1>3, <1>4, <1>5, <1>6, <1>7, <1>8
  DEF Next, CreateEnginePipe, PipeBusy, NoPipe, WaitNamedPipe, WaitTimesOut, Exit

\* An engine can connect only to the server its process was launched by, and
\* only the launched process can: the child comes too late.
LEMMA ConnectsHome ==
  ASSUME TypeOK, Order, UniqueNames, Stages, Places,
         NEW e \in Engines, engine[e] # "absent", NEW s \in Listening(e)
  PROVE  e = <<s, "launched">>
<1>1. s \in Servers /\ instance[s] = "listening" /\ pipeId[s] = pipeId[Launcher(e)]
      /\ instance[Launcher(e)] # "none" /\ Launcher(e) \in Servers
  BY DEF Listening, HostPipeName, Engines, Launcher
<1>2. instance[Launcher(e)] \in Open
  BY <1>1 DEF TypeOK, Order, Stages, Open
<1>3. s = Launcher(e)
  BY <1>1, <1>2 DEF UniqueNames, Open
<1>4. PICK k \in {"launched", "child"} : e = <<s, k>>
  BY <1>3 DEF Engines, Launcher
<1>5. e # <<s, "child">>
  BY <1>1 DEF Places
<1> QED
  BY <1>4, <1>5

\* A new pipe takes a name no open pipe has; only a connection adds to a
\* server's clients.
LEMMA ServersStep ==
  ASSUME TypeOK, Order, UniqueNames, Stages, Places, OwnEngine, [Next]_vars
  PROVE  UniqueNames' /\ OwnEngine'
<1>1. UniqueNames'
  <2> USE DEF TypeOK, UniqueNames, Open
  <2>1. ASSUME NEW s \in Servers, ListPipes(s) PROVE UniqueNames'
    BY <2>1 DEF ListPipes, Order, Stages
  <2>2. ASSUME NEW s \in Servers, CreatePipe(s) PROVE UniqueNames'
    BY <2>2 DEF CreatePipe, Order, Stages, InUse
  <2>3. ASSUME NEW s \in Servers, Close(s) PROVE UniqueNames'
    BY <2>3 DEF Close
  <2>4. ASSUME NEW e \in Engines, Connect(e) PROVE UniqueNames'
    BY <2>4 DEF Connect, Listening
  <2>5. CASE UNCHANGED <<pipeId, instance>>
    BY <2>5
  <2> QED
    BY <2>1, <2>2, <2>3, <2>4, <2>5
    DEF Next, LaunchTracer, SpawnChild, CreateEnginePipe, PipeBusy, NoPipe,
        WaitNamedPipe, WaitTimesOut, Exit, Goto, vars
<1>2. OwnEngine'
  <2>1. ASSUME NEW e \in Engines, Connect(e) PROVE OwnEngine'
    <3>1. PICK s \in Listening(e) : client' = [client EXCEPT ![s] = @ \cup {e}]
      BY <2>1 DEF Connect
    <3>2. e = <<s, "launched">>
      BY <2>1, ConnectsHome DEF Connect
    <3> QED
      BY <3>1, <3>2 DEF OwnEngine, TypeOK
  <2>2. CASE UNCHANGED client
    BY <2>2 DEF OwnEngine
  <2> QED
    BY <2>1, <2>2
    DEF Next, ListPipes, CreatePipe, LaunchTracer, Close, SpawnChild, CreateEnginePipe,
        PipeBusy, NoPipe, WaitNamedPipe, WaitTimesOut, Exit, Goto, vars
<1> QED
  BY <1>1, <1>2

\* The launched process gets its place before a child exists.
LEMMA PlacesStep ==
  ASSUME Serial, ~Closing, TypeOK, Order, UniqueNames, Stages, LaunchedGetsIn, Places, [Next]_vars
  PROVE  Places'
<1> USE DEF TypeOK, Places, Open, Engines, Launcher
<1>1. ASSUME NEW s \in Servers, ListPipes(s) PROVE Places'
  BY <1>1 DEF ListPipes
<1>2. ASSUME NEW s \in Servers, CreatePipe(s) PROVE Places'
  <2>1. engine[<<s, "launched">>] = "absent" /\ engine[<<s, "child">>] = "absent"
    BY <1>2 DEF CreatePipe, Order, Stages
  <2> QED
    BY <1>2, <2>1 DEF CreatePipe
<1>3. ASSUME NEW s \in Servers, LaunchTracer(s) PROVE Places'
  <2>1. engine[<<s, "launched">>] = "absent" /\ instance[s] # "taken"
    BY <1>3 DEF LaunchTracer, Order, Stages
  <2>2. /\ UNCHANGED instance
        /\ engine' \in {engine, [engine EXCEPT ![<<s, "launched">>] = "opening"]}
    BY <1>3 DEF LaunchTracer
  <2>3. /\ engine'[<<s, "launched">>] \in {"absent", "opening"}
        /\ \A t \in Servers : engine'[<<t, "child">>] = engine[<<t, "child">>]
        /\ \A t \in Servers : t # s => engine'[<<t, "launched">>] = engine[<<t, "launched">>]
    BY <2>1, <2>2
  <2> QED
    BY <2>1, <2>2, <2>3
<1>4. ASSUME NEW s \in Servers, SpawnChild(s) PROVE Places'
  BY <1>4 DEF SpawnChild, Goto, LaunchedGetsIn
<1>5. ASSUME NEW e \in Engines, Connect(e) PROVE Places'
  <2>1. PICK s \in Listening(e) : instance' = [instance EXCEPT ![s] = "taken"]
    BY <1>5 DEF Connect
  <2>2. e = <<s, "launched">> /\ engine' = [engine EXCEPT ![e] = "connected"]
    BY <1>5, ConnectsHome DEF Connect
  <2> QED
    BY <2>1, <2>2
<1>6. ASSUME NEW e \in Engines, engine[e] # "absent",
             NEW p \in {"waiting", "unconnected", "ended"}, Goto(e, p)
      PROVE  Places'
  BY <1>6 DEF Goto
<1>7. ASSUME NEW e \in Engines, WaitNamedPipe(e) PROVE Places'
  BY <1>7 DEF WaitNamedPipe, Goto, LaunchedGetsIn
<1>8. CASE UNCHANGED vars
  BY <1>8 DEF vars
<1>9. \A s \in Servers : ~Close(s)
  BY DEF Close
<1> QED
  BY <1>1, <1>2, <1>3, <1>4, <1>5, <1>6, <1>7, <1>8, <1>9
  DEF Next, CreateEnginePipe, PipeBusy, NoPipe, WaitTimesOut, Exit

\* A launched process that finds no instance to connect to has a server that
\* made none.
LEMMA GetsInStep ==
  ASSUME Serial, ~Closing, TypeOK, Order, Stages, Places, LaunchedGetsIn, [Next]_vars
  PROVE  LaunchedGetsIn'
<1> USE DEF TypeOK, LaunchedGetsIn, Open, Engines, Launcher
<1>1. ASSUME NEW s \in Servers, ListPipes(s) PROVE LaunchedGetsIn'
  BY <1>1 DEF ListPipes
<1>2. ASSUME NEW s \in Servers, CreatePipe(s) PROVE LaunchedGetsIn'
  BY <1>2 DEF CreatePipe, Order, Stages
<1>3. ASSUME NEW s \in Servers, LaunchTracer(s) PROVE LaunchedGetsIn'
  BY <1>3 DEF LaunchTracer
<1>4. ASSUME NEW s \in Servers, SpawnChild(s) PROVE LaunchedGetsIn'
  BY <1>4 DEF SpawnChild, Goto
<1>5. ASSUME NEW e \in Engines, Connect(e) PROVE LaunchedGetsIn'
  BY <1>5 DEF Connect, Listening
<1>6. ASSUME NEW e \in Engines, PipeBusy(e) \/ NoPipe(e) PROVE LaunchedGetsIn'
  <2>1. ASSUME NEW s \in Servers, e = <<s, "launched">> PROVE instance[s] = "none"
    <3>1. engine[e] = "opening" /\ instance[s] \in {"none", "listening"}
      BY <1>6, <2>1 DEF PipeBusy, NoPipe, Places, Stages
    <3>2. SUFFICES ASSUME instance[s] = "listening" PROVE FALSE
      BY <3>1
    <3>3. pipeId[s] \in HostPipeName(e) /\ InUse(pipeId[s])
      BY <2>1, <3>2 DEF HostPipeName, InUse
    <3>4. s \in Listening(e)
      BY <3>2, <3>3 DEF Listening
    <3> QED
      BY <1>6, <3>3, <3>4 DEF PipeBusy, NoPipe
  <2> QED
    BY <1>6, <2>1 DEF PipeBusy, NoPipe, Goto
<1>7. ASSUME NEW e \in Engines, WaitNamedPipe(e) \/ WaitTimesOut(e) \/ Exit(e)
      PROVE  LaunchedGetsIn'
  BY <1>7 DEF WaitNamedPipe, WaitTimesOut, Exit, Goto
<1>8. CASE UNCHANGED vars
  BY <1>8 DEF vars
<1>9. \A s \in Servers : ~Close(s)
  BY DEF Close
<1> QED
  BY <1>1, <1>2, <1>3, <1>4, <1>5, <1>6, <1>7, <1>8, <1>9 DEF Next, CreateEnginePipe

-----------------------------------------------------------------------------
\* What any hosts keep, however their launches race.
THEOREM RacesInductive == Spec => []RaceInv
<1>1. Init => RaceInv
  BY CountAssumption
  DEF Init, RaceInv, TypeOK, Order, Clients, LaunchedServed, Open, Engines, Launcher
<1>2. RaceInv /\ [Next]_vars => RaceInv'
  BY TypeStep, OrderStep, ClientsStep, ServedStep DEF RaceInv
<1> QED
  BY <1>1, <1>2, PTL DEF Spec

\* Types: every pipe that was made has one of the names.
THEOREM TypeInvariance == Spec => []TypeOK
BY RacesInductive, PTL DEF RaceInv

\* Launches that race may exchange their pipes, but a launched process whose
\* server made one is without a pipe only if a server of the name has closed or
\* a child took a place, whatever the number of servers that share the name.
THEOREM RacesServed == Spec => []LaunchedServed
BY RacesInductive, PTL DEF RaceInv

\* The inductive invariant: names and clients can be told apart only because
\* of the order in which servers and processes come.
THEOREM Inductive ==
  ASSUME Serial, ~Closing
  PROVE  Spec => []IInv
<1>1. Init => IInv
  BY CountAssumption
  DEF Init, IInv, TypeOK, Order, UniqueNames, OwnEngine, LaunchedGetsIn, Stages, Places, Open,
      Engines, Launcher
<1>2. IInv /\ [Next]_vars => IInv'
  BY TypeStep, OrderStep, StagesStep, ServersStep, PlacesStep, GetsInStep DEF IInv
<1> QED
  BY <1>1, <1>2, PTL DEF Spec

\* One host: no two of its pipes ever have one name.
THEOREM NamesUnique ==
  ASSUME Serial, ~Closing
  PROVE  Spec => []UniqueNames
BY Inductive, PTL DEF IInv

\* One host: a server hears only of the process launched for it, not of the
\* other launches nor of the programs the process starts.
THEOREM OwnClients ==
  ASSUME Serial, ~Closing
  PROVE  Spec => []OwnEngine
BY Inductive, PTL DEF IInv

\* One host: the constructor of a launched process does not wait in
\* createPipe, and fails there only if the server made no pipe.
THEOREM NoWait ==
  ASSUME Serial, ~Closing
  PROVE  Spec => []LaunchedGetsIn
BY Inductive, PTL DEF IInv
=============================================================================
