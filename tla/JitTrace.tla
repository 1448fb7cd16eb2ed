------------------------------ MODULE JitTrace ------------------------------
(***************************************************************************)
(* The JIT callbacks of ProfilerCallbackHandler on the threads of the      *)
(* traced process, and the function cache of MetadataHelper they share.    *)
(*                                                                         *)
(* A FunctionID names a method of the process until the method is          *)
(* unloaded; the runtime may then use the id again.  A method is a pair of *)
(* an id and the number of earlier uses of that id.                        *)
(*                                                                         *)
(* mFuncMap is a std::map no lock protects.  An access to it is a step     *)
(* that begins it and one that ends it; two accesses that overlap, one of  *)
(* them an insertion, are a data race.  Searches end in operator[], which  *)
(* inserts where its own search misses, so any race can leave the tree     *)
(* malformed: from then on an access may miss, lose entries or fault.      *)
(***************************************************************************)
EXTENDS Naturals, Sequences, FiniteSets

CONSTANTS
  Threads,      \* managed threads of the traced process
  FunctionIds,  \* ids the runtime hands out
  IntRange,     \* ids an int can tell apart
  MaxUses,      \* bound: how often an id is used again
  MaxDepth,     \* bound: compilations nested on a thread
  MaxLog,       \* bound: messages of a behaviour
  Traced,       \* methods of modules the settings list
  NoInfo,       \* methods GetFunctionInfo or GetModuleInfo fails on
  NoMetadata,   \* methods without a token, method or type properties
  Unmapped,     \* stands for the entry of an int that is not in the map
  Null          \* an empty shared_ptr

Methods == FunctionIds \X (0..MaxUses)

ASSUME IdsAssumption == FunctionIds \subseteq Nat /\ IntRange \in Nat \ {0}
ASSUME BoundsAssumption == MaxUses \in Nat /\ MaxDepth \in Nat /\ MaxLog \in Nat
ASSUME MethodsAssumption ==
  Traced \subseteq Methods /\ NoInfo \subseteq Methods /\ NoMetadata \subseteq Methods
ASSUME NoMethodAssumption ==
  Unmapped \notin Methods /\ Null \notin Methods /\ Null # Unmapped

VARIABLES
  uses,      \* earlier uses of each id
  jitting,   \* ids being compiled on each thread, innermost last
  pc,        \* where each thread is in a callback
  func,      \* the local cachedFunc of each thread
  mFuncMap,  \* what each int is mapped to
  raced,     \* some access to the map has been raced
  crashed,   \* the process has faulted
  log        \* history: messages in the order of the sendMessage calls

vars == <<uses, jitting, pc, func, mFuncMap, raced, crashed, log>>

Accesses == {"lookup", "insert", "get"}
InStarted == {"lookup", "fetch", "insert", "sendStarted"}
Steps == InStarted \cup {"managed", "get", "sendFinished"}

\* The conversion of a FunctionID to the int parameter functionId.
Key(f) == f % IntRange

Keys == {Key(f) : f \in FunctionIds}

MethodOf(f) == <<f, uses[f]>>

\* The function of the callback thread t is in.
Current(t) == jitting[t][Len(jitting[t])]

Pop(t) == [jitting EXCEPT ![t] = SubSeq(@, 1, Len(@) - 1)]

Compiling(f) == \E t \in Threads : \E i \in 1..Len(jitting[t]) : jitting[t][i] = f

Init ==
  /\ uses = [f \in FunctionIds |-> 0]
  /\ jitting = [t \in Threads |-> <<>>]
  /\ pc = [t \in Threads |-> "managed"]
  /\ func = [t \in Threads |-> Null]
  /\ mFuncMap = [k \in Keys |-> Unmapped]
  /\ raced = FALSE /\ crashed = FALSE
  /\ log = <<>>

-----------------------------------------------------------------------------
(* The map.                                                                *)

\* Thread t begins an access of kind a.
BeginAccess(t, a) ==
  /\ pc' = [pc EXCEPT ![t] = a]
  /\ raced' = (raced \/ \E u \in Threads \ {t} :
                          pc[u] \in IF a = "insert" THEN Accesses ELSE {"insert"})

\* Mutant: the key at the lower bound is not compared with k.
Found_LowerBound(k) ==
  LET above == {j \in Keys : j >= k /\ mFuncMap[j] # Unmapped}
  IN  IF above = {} THEN {Unmapped}
      ELSE {mFuncMap[CHOOSE j \in above : \A i \in above : j <= i]}

\* A sound search finds what is mapped.  A raced one may miss it, or find it
\* and miss in operator[], which then maps the int to an empty pointer.
Found(k) ==
  IF raced THEN {mFuncMap[k], Unmapped, Null} ELSE {mFuncMap[k]}

\* The map after a search for k found v: operator[] has inserted, or not.
Searched(k, v) ==
  IF v = Null THEN [mFuncMap EXCEPT ![k] = Null] ELSE mFuncMap

\* The maps a raced insertion can leave: it may unlink other entries.
Damaged(m) == {[k \in Keys |-> IF k \in S THEN m[k] ELSE Unmapped] : S \in SUBSET Keys}

\* Mutant: the new entry is not put into the map.
cacheFunction_Forgets(k, v) == {mFuncMap}

\* Mutant: the entry is assigned, as mFuncMap[k] = v would.
cacheFunction_Assigns(k, v) ==
  LET m == [mFuncMap EXCEPT ![k] = v] IN IF raced THEN Damaged(m) ELSE {m}

\* map::insert, which leaves an int that is mapped alone.
cacheFunction(k, v) ==
  LET m == IF mFuncMap[k] = Unmapped THEN [mFuncMap EXCEPT ![k] = v] ELSE mFuncMap
  IN  IF raced THEN Damaged(m) ELSE {m}

\* An access to a malformed tree faults.
AccessFaults ==
  /\ ~crashed /\ raced
  /\ \E t \in Threads : pc[t] \in Accesses
  /\ crashed' = TRUE
  /\ UNCHANGED <<uses, jitting, pc, func, mFuncMap, raced, log>>

-----------------------------------------------------------------------------
(* Messages.                                                               *)

\* What sendMessage is given: the type and the function's data; of which
\* thread, method and depth of nesting the callback was is kept for the
\* properties.
Message(type, t, data) ==
  [type |-> type, thread |-> t, about |-> MethodOf(Current(t)),
   depth |-> Len(jitting[t]), data |-> data]

\* Bound: a compilation starts only if every one in progress can still send
\* its two messages.
Room ==
  LET inProgress == {c \in Threads \X (1..MaxDepth) : c[2] <= Len(jitting[c[1]])}
  IN  Len(log) + 2 * Cardinality(inProgress) + 2 <= MaxLog

-----------------------------------------------------------------------------
(* The callbacks of thread t.                                              *)

Reportable(m) == m \in Traced \ NoInfo

\* Mutant: the settings are not asked.
JITCompilationStarted_All(t, f) ==
  /\ ~crashed /\ pc[t] = "managed" /\ Len(jitting[t]) < MaxDepth
  /\ Room
  /\ jitting' = [jitting EXCEPT ![t] = Append(@, f)]
  /\ IF MethodOf(f) \notin NoInfo THEN BeginAccess(t, "lookup") ELSE UNCHANGED <<pc, raced>>
  /\ UNCHANGED <<uses, func, mFuncMap, crashed, log>>

\* While a method is compiled, its thread may run managed code (a resolve
\* handler, a class constructor) that has to be compiled: any method, the same
\* one included, which another thread may be compiling as well.
JITCompilationStarted(t, f) ==
  /\ ~crashed /\ pc[t] = "managed" /\ Len(jitting[t]) < MaxDepth
  /\ Room
  /\ jitting' = [jitting EXCEPT ![t] = Append(@, f)]
  /\ IF Reportable(MethodOf(f)) THEN BeginAccess(t, "lookup") ELSE UNCHANGED <<pc, raced>>
  /\ UNCHANGED <<uses, func, mFuncMap, crashed, log>>

\* Mutant: a cached function has been reported before and is not again.
EndLookup_Hit(t) ==
  /\ ~crashed /\ pc[t] = "lookup"
  /\ \E v \in Found(Key(Current(t))) :
       /\ mFuncMap' = Searched(Key(Current(t)), v)
       /\ func' = [func EXCEPT ![t] = IF v = Unmapped THEN Null ELSE v]
       /\ pc' = [pc EXCEPT ![t] = IF v = Unmapped THEN "fetch" ELSE "managed"]
  /\ UNCHANGED <<uses, jitting, raced, crashed, log>>

\* mapFunction: the search for the function.
EndLookup(t) ==
  /\ ~crashed /\ pc[t] = "lookup"
  /\ \E v \in Found(Key(Current(t))) :
       /\ mFuncMap' = Searched(Key(Current(t)), v)
       /\ func' = [func EXCEPT ![t] = IF v = Unmapped THEN Null ELSE v]
       /\ pc' = [pc EXCEPT ![t] = IF v = Unmapped THEN "fetch" ELSE "sendStarted"]
  /\ UNCHANGED <<uses, jitting, raced, crashed, log>>

\* mapFunction: a missing function is looked up by the int, not by the id it
\* was converted from; an int that is no id may be taken for one and fault.
Fetch(t) ==
  /\ ~crashed /\ pc[t] = "fetch"
  /\ LET k == Key(Current(t)) IN
       IF k \in FunctionIds /\ MethodOf(k) \notin NoMetadata
       THEN /\ func' = [func EXCEPT ![t] = MethodOf(k)]
            /\ BeginAccess(t, "insert")
            /\ UNCHANGED crashed
       ELSE /\ pc' = [pc EXCEPT ![t] = "sendStarted"]
            /\ crashed' \in IF k \in FunctionIds THEN {FALSE} ELSE BOOLEAN
            /\ UNCHANGED <<func, raced>>
  /\ UNCHANGED <<uses, jitting, mFuncMap, log>>

\* mapFunction: the new function is cached.
EndInsert(t) ==
  /\ ~crashed /\ pc[t] = "insert"
  /\ mFuncMap' \in cacheFunction(Key(Current(t)), func[t])
  /\ pc' = [pc EXCEPT ![t] = "sendStarted"]
  /\ UNCHANGED <<uses, jitting, func, raced, crashed, log>>

\* The Started message goes out with or without the function's data.
SendStarted(t) ==
  /\ ~crashed /\ pc[t] = "sendStarted"
  /\ log' = Append(log, Message("STARTED", t, func[t]))
  /\ pc' = [pc EXCEPT ![t] = "managed"]
  /\ func' = [func EXCEPT ![t] = Null]
  /\ UNCHANGED <<uses, jitting, mFuncMap, raced, crashed>>

\* getMappedFunction is called whatever the method's module.
JITCompilationFinished(t) ==
  /\ ~crashed /\ pc[t] = "managed" /\ jitting[t] # <<>>
  /\ BeginAccess(t, "get")
  /\ UNCHANGED <<uses, jitting, func, mFuncMap, crashed, log>>

\* Mutant: the function is used without a look at what was found.
EndGet_Unchecked(t) ==
  /\ ~crashed /\ pc[t] = "get"
  /\ \E v \in Found(Key(Current(t))) :
       /\ mFuncMap' = Searched(Key(Current(t)), v)
       /\ pc' = [pc EXCEPT ![t] = "sendFinished"]
       /\ func' = [func EXCEPT ![t] = v]
  /\ UNCHANGED <<uses, jitting, raced, crashed, log>>

\* A function that is not cached ends the callback.
EndGet(t) ==
  /\ ~crashed /\ pc[t] = "get"
  /\ \E v \in Found(Key(Current(t))) :
       /\ mFuncMap' = Searched(Key(Current(t)), v)
       /\ IF v \in {Unmapped, Null}
          THEN /\ pc' = [pc EXCEPT ![t] = "managed"]
               /\ jitting' = Pop(t)
               /\ UNCHANGED func
          ELSE /\ pc' = [pc EXCEPT ![t] = "sendFinished"]
               /\ func' = [func EXCEPT ![t] = v]
               /\ UNCHANGED jitting
  /\ UNCHANGED <<uses, raced, crashed, log>>

SendFinished(t) ==
  /\ ~crashed /\ pc[t] = "sendFinished"
  /\ log' = Append(log, Message("FINISHED", t, func[t]))
  /\ pc' = [pc EXCEPT ![t] = "managed"]
  /\ func' = [func EXCEPT ![t] = Null]
  /\ jitting' = Pop(t)
  /\ UNCHANGED <<uses, mFuncMap, raced, crashed>>

\* The runtime unloads the method of id f; the callback leaves the cache as
\* it is.
FunctionUnloadStarted(f) ==
  /\ ~crashed /\ ~Compiling(f) /\ uses[f] < MaxUses
  /\ uses' = [uses EXCEPT ![f] = @ + 1]
  /\ UNCHANGED <<jitting, pc, func, mFuncMap, raced, crashed, log>>

Callback(t) ==
  \/ \E f \in FunctionIds : JITCompilationStarted(t, f)
  \/ EndLookup(t) \/ Fetch(t) \/ EndInsert(t) \/ SendStarted(t)
  \/ JITCompilationFinished(t) \/ EndGet(t) \/ SendFinished(t)

Next ==
  \/ \E t \in Threads : Callback(t)
  \/ \E f \in FunctionIds : FunctionUnloadStarted(f)
  \/ AccessFaults

Spec == Init /\ [][Next]_vars

-----------------------------------------------------------------------------
(* Properties.                                                             *)

Entries == Methods \cup {Null}

Messages ==
  [type : {"STARTED", "FINISHED"}, thread : Threads, about : Methods,
   depth : Nat, data : Entries]

\* The type invariant.
TypeOK ==
  /\ uses \in [FunctionIds -> 0..MaxUses]
  /\ jitting \in [Threads -> Seq(FunctionIds)]
  /\ pc \in [Threads -> Steps]
  /\ func \in [Threads -> Entries]
  /\ mFuncMap \in [Keys -> Entries \cup {Unmapped}]
  /\ raced \in BOOLEAN /\ crashed \in BOOLEAN
  /\ log \in Seq(Messages)

\* A message that carries the data of a function carries those of the function
\* the callback was about, whatever races over the cache (mapFunction fetches
\* "the token for the function", MetadataHelper.cpp:42).
NamesItsMethod ==
  \A j \in 1..Len(log) : log[j].data # Null => log[j].data = log[j].about

\* Nothing is reported of a method outside the traced modules, though
\* JITCompilationFinished never asks the settings.
OnlyTraced == \A j \in 1..Len(log) : Reportable(log[j].about)

\* Compilations on thread t whose Started callback has returned.
Open(t) ==
  IF pc[t] \in InStarted THEN 1..(Len(jitting[t]) - 1) ELSE 1..Len(jitting[t])

Is(j, type, t, m) == log[j].type = type /\ log[j].thread = t /\ log[j].about = m

\* The messages of thread t that follow the i-th are from compilations nested
\* deeper than its own.
DeeperSince(i, t) ==
  \A k \in (i + 1)..Len(log) : log[k].thread = t => log[k].depth > log[i].depth

\* A method of a traced module runs only after its compilation was announced:
\* while one is being compiled past its Started callback, the log holds a
\* Started message for that compilation, of several of one method too, which no
\* Finished message has answered.  Neither a miss of the cache nor missing
\* metadata suppresses it.
CompilationsAnnounced ==
  \A t \in Threads : \A i \in Open(t) :
    LET m == MethodOf(jitting[t][i]) IN
    Reportable(m) =>
      \E j \in 1..Len(log) :
        Is(j, "STARTED", t, m) /\ log[j].depth = i /\ DeeperSince(j, t)

\* Message i opens the compilation that message j closes: what its thread sends
\* in between is from compilations nested in this one.
Opens(i, j) ==
  /\ i < j /\ Is(i, "STARTED", log[j].thread, log[j].about)
  /\ log[i].depth = log[j].depth
  /\ \A k \in (i + 1)..(j - 1) :
       log[k].thread = log[j].thread => log[k].depth > log[j].depth

Closes(j) == log[j].type = "FINISHED" /\ Reportable(log[j].about)

\* On each thread the messages are bracketed: a Finished message of a traced
\* method closes a Started one of the same compilation, and compilations nest,
\* also those of a method inside its own.  A Finished message may be missing.
WellNested ==
  \A j \in 1..Len(log) : Closes(j) => \E i \in 1..Len(log) : Opens(i, j)

\* Message i is followed by the one that closes its compilation.
Closed(i) == \E j \in 1..Len(log) : log[j].type = "FINISHED" /\ Opens(i, j)

\* A thread with nothing left to compile has finished what it started, as long
\* as nothing raced, if ids fit an int and every traced method has metadata
\* ("I don't think we need to worry about non-cached functions",
\* ProfilerCallbackHandler.cpp:236: there are none then).
PairsMatch ==
  /\ ~raced /\ NoMetadata \cap Traced = {}
  /\ \A f \in FunctionIds : Key(f) = f
  => \A t \in Threads : jitting[t] = <<>> =>
       \A i \in 1..Len(log) :
         log[i].thread = t /\ log[i].type = "STARTED" => Closed(i)

\* Two threads that both missed the cache agree on its entry: without a race no
\* step replaces or drops one.
CacheStable ==
  [][~raced' => \A k \in Keys : mFuncMap[k] # Unmapped => mFuncMap'[k] = mFuncMap[k]]_vars

=============================================================================
