--------------------------- MODULE JitTraceProofs ---------------------------
(***************************************************************************)
(* The JIT callbacks for every number of threads, ids, uses of an id and   *)
(* nested compilations, with and without races over the cache.             *)
(***************************************************************************)
EXTENDS JitTrace, SequenceTheorems, TLAPS

\* A thread in a callback is compiling something.
Stacks == \A t \in Threads : pc[t] # "managed" => jitting[t] # <<>>

-----------------------------------------------------------------------------
(* Types.                                                                  *)

\* What a callback computes with, and the message it sends, is of its type.
LEMMA Typed ==
  ASSUME TypeOK
  PROVE  /\ \A f \in FunctionIds : MethodOf(f) \in Methods /\ Key(f) \in Keys
         /\ \A t \in Threads : jitting[t] # <<>> => Current(t) \in FunctionIds
         /\ \A type \in {"STARTED", "FINISHED"}, t \in Threads, data \in Entries :
              jitting[t] # <<>> => Message(type, t, data) \in Messages
<1>1. \A f \in FunctionIds : MethodOf(f) \in Methods /\ Key(f) \in Keys
  BY DEF TypeOK, MethodOf, Methods, Keys
<1>2. ASSUME NEW t \in Threads, jitting[t] # <<>> PROVE Current(t) \in FunctionIds
  <2>1. jitting[t] \in Seq(FunctionIds)
    BY DEF TypeOK
  <2>2. Len(jitting[t]) \in 1..Len(jitting[t])
    BY <1>2, <2>1, EmptySeq, LenProperties
  <2> QED
    BY <2>1, <2>2, ElementOfSeq DEF Current
<1>3. ASSUME NEW type \in {"STARTED", "FINISHED"}, NEW t \in Threads, NEW data \in Entries,
             jitting[t] # <<>>
      PROVE  Message(type, t, data) \in Messages
  <2>1. jitting[t] \in Seq(FunctionIds)
    BY DEF TypeOK
  <2>2. Len(jitting[t]) \in Nat
    BY <2>1, LenProperties
  <2> QED
    BY <1>1, <1>2, <1>3, <2>2 DEF Message, Messages
<1> QED
  BY <1>1, <1>2, <1>3

\* A search finds an entry; searches and insertions leave entries.
LEMMA CacheTyped ==
  ASSUME TypeOK, NEW k \in Keys
  PROVE  /\ \A v \in Found(k) :
              v \in Entries \cup {Unmapped} /\ Searched(k, v) \in [Keys -> Entries \cup {Unmapped}]
         /\ \A v \in Entries : cacheFunction(k, v) \subseteq [Keys -> Entries \cup {Unmapped}]
<1>1. ASSUME NEW v \in Found(k)
      PROVE  v \in Entries \cup {Unmapped} /\ Searched(k, v) \in [Keys -> Entries \cup {Unmapped}]
  BY DEF TypeOK, Found, Searched, Entries
<1>2. ASSUME NEW v \in Entries, NEW m \in cacheFunction(k, v)
      PROVE  m \in [Keys -> Entries \cup {Unmapped}]
  BY DEF TypeOK, cacheFunction, Damaged
<1> QED
  BY <1>1, <1>2

\* A sequence without its last element.
LEMMA Shorter ==
  ASSUME NEW S, NEW s \in Seq(S), s # <<>>
  PROVE  /\ SubSeq(s, 1, Len(s) - 1) \in Seq(S)
         /\ Len(SubSeq(s, 1, Len(s) - 1)) = Len(s) - 1
         /\ \A i \in 1..(Len(s) - 1) : SubSeq(s, 1, Len(s) - 1)[i] = s[i]
<1> DEFINE n == Len(s) - 1
<1>1. n \in 0..Len(s)
  BY EmptySeq
<1>2. n \in Nat
  BY EmptySeq
<1> HIDE DEF n
<1>3. /\ SubSeq(s, 1, n) \in Seq(S) /\ Len(SubSeq(s, 1, n)) = n
      /\ \A i \in 1..n : SubSeq(s, 1, n)[i] = s[i]
  BY <1>1, <1>2
<1> QED
  BY <1>3 DEF n

\* A compilation that starts is on top of the others of its thread.
LEMMA Pushed ==
  ASSUME TypeOK, NEW t \in Threads, NEW f \in FunctionIds,
         jitting' = [jitting EXCEPT ![t] = Append(@, f)]
  PROVE  /\ jitting' \in [Threads -> Seq(FunctionIds)] /\ Len(jitting[t]) \in Nat
         /\ Len(jitting'[t]) = Len(jitting[t]) + 1
         /\ jitting'[t][Len(jitting[t]) + 1] = f /\ Current(t)' = f
         /\ \A i \in 1..Len(jitting[t]) : jitting'[t][i] = jitting[t][i]
         /\ \A u \in Threads : u # t => jitting'[u] = jitting[u]
<1>1. /\ jitting' \in [Threads -> Seq(FunctionIds)]
      /\ jitting[t] \in Seq(FunctionIds) /\ jitting'[t] = Append(jitting[t], f)
  BY DEF TypeOK
<1>2. \A u \in Threads : u # t => jitting'[u] = jitting[u]
  BY DEF TypeOK
<1>3. /\ Len(jitting[t]) \in Nat
      /\ Len(Append(jitting[t], f)) = Len(jitting[t]) + 1
      /\ Append(jitting[t], f)[Len(jitting[t]) + 1] = f
      /\ \A i \in 1..Len(jitting[t]) : Append(jitting[t], f)[i] = jitting[t][i]
  BY <1>1, AppendProperties, LenProperties
<1> QED
  BY <1>1, <1>2, <1>3 DEF Current

\* A compilation that ends leaves the others of its thread as they were.
LEMMA Popped ==
  ASSUME TypeOK, NEW t \in Threads, jitting[t] # <<>>, jitting' = Pop(t)
  PROVE  /\ jitting' \in [Threads -> Seq(FunctionIds)] /\ Len(jitting[t]) \in Nat
         /\ Len(jitting'[t]) = Len(jitting[t]) - 1
         /\ \A i \in 1..(Len(jitting[t]) - 1) : jitting'[t][i] = jitting[t][i]
         /\ \A u \in Threads : u # t => jitting'[u] = jitting[u]
<1>1. /\ jitting \in [Threads -> Seq(FunctionIds)] /\ jitting[t] \in Seq(FunctionIds)
      /\ jitting' = [jitting EXCEPT ![t] = SubSeq(jitting[t], 1, Len(jitting[t]) - 1)]
  BY DEF Pop, TypeOK
<1>2. /\ SubSeq(jitting[t], 1, Len(jitting[t]) - 1) \in Seq(FunctionIds)
      /\ jitting'[t] = SubSeq(jitting[t], 1, Len(jitting[t]) - 1)
      /\ \A u \in Threads : u # t => jitting'[u] = jitting[u]
  BY <1>1, Shorter
<1>3. /\ Len(jitting[t]) \in Nat
      /\ Len(SubSeq(jitting[t], 1, Len(jitting[t]) - 1)) = Len(jitting[t]) - 1
      /\ \A i \in 1..(Len(jitting[t]) - 1) :
           SubSeq(jitting[t], 1, Len(jitting[t]) - 1)[i] = jitting[t][i]
  <2>1. Len(jitting[t]) \in Nat
    BY <1>1, LenProperties
  <2> QED
    BY <1>1, <2>1, Shorter
<1> QED
  BY <1>1, <1>2, <1>3

\* No step leaves the sets of the variables, or a callback without a function.
LEMMA TypeStep ==
  ASSUME TypeOK, Stacks, [Next]_vars
  PROVE  TypeOK' /\ Stacks'
<1> USE DEF Steps, InStarted, Accesses
<1>1. ASSUME NEW t \in Threads, NEW f \in FunctionIds, JITCompilationStarted(t, f)
      PROVE  TypeOK' /\ Stacks'
  <2>0. jitting' = [jitting EXCEPT ![t] = Append(@, f)]
    BY <1>1 DEF JITCompilationStarted
  <2>00. pc' \in [Threads -> Steps]
    BY <1>1 DEF JITCompilationStarted, BeginAccess, TypeOK
  <2>1. jitting' \in [Threads -> Seq(FunctionIds)] /\ pc' \in [Threads -> Steps]
    BY <2>0, <2>00, Pushed
  <2>2. raced' \in BOOLEAN
    BY <1>1 DEF JITCompilationStarted, BeginAccess, TypeOK
  <2>3. TypeOK'
    BY <1>1, <2>1, <2>2 DEF JITCompilationStarted, TypeOK
  <2>4. ASSUME NEW u \in Threads, pc'[u] # "managed" PROVE jitting'[u] # <<>>
    <3>1. jitting'[u] = IF u = t THEN Append(jitting[t], f) ELSE jitting[u]
      BY <1>1 DEF JITCompilationStarted, TypeOK
    <3>2. Append(jitting[t], f) # <<>>
      <4>1. jitting[t] \in Seq(FunctionIds)
        BY DEF TypeOK
      <4>2. Len(Append(jitting[t], f)) = Len(jitting[t]) + 1 /\ Len(jitting[t]) \in Nat
        BY <4>1, AppendProperties, LenProperties
      <4>3. Len(Append(jitting[t], f)) # 0
        BY <4>2
      <4> QED
        BY <4>3
    <3>3. u # t => pc'[u] = pc[u]
      BY <1>1 DEF JITCompilationStarted, BeginAccess, TypeOK
    <3> QED
      BY <2>4, <3>1, <3>2, <3>3 DEF Stacks
  <2> QED
    BY <2>3, <2>4 DEF Stacks
<1>2. ASSUME NEW t \in Threads, EndLookup(t) PROVE TypeOK' /\ Stacks'
  <2>1. PICK v \in Found(Key(Current(t))) :
          /\ mFuncMap' = Searched(Key(Current(t)), v)
          /\ func' = [func EXCEPT ![t] = IF v = Unmapped THEN Null ELSE v]
          /\ pc' = [pc EXCEPT ![t] = IF v = Unmapped THEN "fetch" ELSE "sendStarted"]
    BY <1>2 DEF EndLookup
  <2>2. jitting[t] # <<>>
    BY <1>2 DEF EndLookup, Stacks
  <2>3. /\ v \in Entries \cup {Unmapped}
        /\ Searched(Key(Current(t)), v) \in [Keys -> Entries \cup {Unmapped}]
    BY <2>2, Typed, CacheTyped
  <2>4. TypeOK'
    BY <1>2, <2>1, <2>3 DEF EndLookup, TypeOK, Entries
  <2> QED
    BY <1>2, <2>1, <2>2, <2>4 DEF EndLookup, Stacks, TypeOK
<1>3. ASSUME NEW t \in Threads, Fetch(t) PROVE TypeOK' /\ Stacks'
  <2> DEFINE k == Key(Current(t))
  <2>1. jitting[t] # <<>>
    BY <1>3 DEF Fetch, Stacks
  <2>2. func' \in [Threads -> Entries]
    <3>1. k \in FunctionIds => MethodOf(k) \in Entries
      BY Typed DEF Entries
    <3> QED
      BY <1>3, <3>1 DEF Fetch, TypeOK
  <2>3. pc' \in [Threads -> Steps] /\ \A u \in Threads : u # t => pc'[u] = pc[u]
    BY <1>3 DEF Fetch, BeginAccess, TypeOK
  <2>4. raced' \in BOOLEAN /\ crashed' \in BOOLEAN
    BY <1>3 DEF Fetch, BeginAccess, TypeOK
  <2>5. UNCHANGED <<uses, jitting, mFuncMap, log>>
    BY <1>3 DEF Fetch
  <2>6. TypeOK'
    BY <2>2, <2>3, <2>4, <2>5 DEF TypeOK
  <2> QED
    BY <2>1, <2>3, <2>5, <2>6 DEF Stacks
<1>4. ASSUME NEW t \in Threads, EndInsert(t) PROVE TypeOK' /\ Stacks'
  <2>1. jitting[t] # <<>>
    BY <1>4 DEF EndInsert, Stacks
  <2>2. mFuncMap' \in [Keys -> Entries \cup {Unmapped}]
    BY <1>4, <2>1, Typed, CacheTyped DEF EndInsert, TypeOK
  <2> QED
    BY <1>4, <2>1, <2>2 DEF EndInsert, TypeOK, Stacks
<1>5. ASSUME NEW t \in Threads, SendStarted(t) PROVE TypeOK' /\ Stacks'
  <2>1. jitting[t] # <<>>
    BY <1>5 DEF SendStarted, Stacks
  <2>2. Message("STARTED", t, func[t]) \in Messages
    BY <2>1, Typed DEF TypeOK
  <2> QED
    BY <1>5, <2>2 DEF SendStarted, TypeOK, Stacks, Entries
<1>6. ASSUME NEW t \in Threads, JITCompilationFinished(t) PROVE TypeOK' /\ Stacks'
  <2>1. raced' \in BOOLEAN
    BY <1>6 DEF JITCompilationFinished, BeginAccess, TypeOK
  <2> QED
    BY <1>6, <2>1 DEF JITCompilationFinished, BeginAccess, TypeOK, Stacks
<1>7. ASSUME NEW t \in Threads, EndGet(t) PROVE TypeOK' /\ Stacks'
  <2>1. PICK v \in Found(Key(Current(t))) :
          /\ mFuncMap' = Searched(Key(Current(t)), v)
          /\ IF v \in {Unmapped, Null}
             THEN /\ pc' = [pc EXCEPT ![t] = "managed"]
                  /\ jitting' = Pop(t)
                  /\ UNCHANGED func
             ELSE /\ pc' = [pc EXCEPT ![t] = "sendFinished"]
                  /\ func' = [func EXCEPT ![t] = v]
                  /\ UNCHANGED jitting
    BY <1>7 DEF EndGet
  <2>2. jitting[t] # <<>>
    BY <1>7 DEF EndGet, Stacks
  <2>3. /\ v \in Entries \cup {Unmapped}
        /\ Searched(Key(Current(t)), v) \in [Keys -> Entries \cup {Unmapped}]
    BY <2>2, Typed, CacheTyped
  <2>4. /\ jitting' \in [Threads -> Seq(FunctionIds)]
        /\ \A u \in Threads \ {t} : jitting'[u] = jitting[u]
    <3>1. jitting' = Pop(t) \/ jitting' = jitting
      BY <2>1
    <3> QED
      BY <2>2, <3>1, Popped DEF TypeOK
  <2>5. TypeOK'
    BY <1>7, <2>1, <2>3, <2>4 DEF EndGet, TypeOK
  <2> QED
    BY <2>1, <2>2, <2>4, <2>5 DEF Stacks, TypeOK
<1>8. ASSUME NEW t \in Threads, SendFinished(t) PROVE TypeOK' /\ Stacks'
  <2>1. jitting[t] # <<>>
    BY <1>8 DEF SendFinished, Stacks
  <2>2. Message("FINISHED", t, func[t]) \in Messages
    BY <2>1, Typed DEF TypeOK
  <2>3. /\ jitting' \in [Threads -> Seq(FunctionIds)]
        /\ \A u \in Threads \ {t} : jitting'[u] = jitting[u]
    BY <1>8, <2>1, Popped DEF SendFinished
  <2>4. TypeOK'
    <3>1. log' \in Seq(Messages)
      BY <1>8, <2>2, AppendProperties DEF SendFinished, TypeOK
    <3>2. func' \in [Threads -> Entries] /\ pc' \in [Threads -> Steps]
      BY <1>8 DEF SendFinished, TypeOK, Entries
    <3> QED
      BY <1>8, <2>3, <3>1, <3>2 DEF SendFinished, TypeOK
  <2> QED
    BY <1>8, <2>3, <2>4 DEF SendFinished, Stacks, TypeOK
<1>9. ASSUME NEW f \in FunctionIds, FunctionUnloadStarted(f) PROVE TypeOK' /\ Stacks'
  <2>1. uses' \in [FunctionIds -> 0..MaxUses]
    BY <1>9, BoundsAssumption DEF FunctionUnloadStarted, TypeOK
  <2> QED
    BY <1>9, <2>1 DEF FunctionUnloadStarted, TypeOK, Stacks
<1>10. CASE AccessFaults
  BY <1>10 DEF AccessFaults, TypeOK, Stacks
<1>11. CASE UNCHANGED vars
  BY <1>11 DEF vars, TypeOK, Stacks
<1> QED
  BY <1>1, <1>2, <1>3, <1>4, <1>5, <1>6, <1>7, <1>8, <1>9, <1>10, <1>11 DEF Next, Callback

-----------------------------------------------------------------------------
(* The log and the compilations that are open: their Started callback has  *)
(* returned, and their Finished callback has not.                          *)

Method(t, i) == MethodOf(jitting[t][i])

\* The log is as it was, and so are the open compilations that are reported.
Quiet ==
  /\ log' = log
  /\ \A t \in Threads : \A i \in Open(t)' :
       Reportable(Method(t, i)') => i \in Open(t) /\ Method(t, i)' = Method(t, i)

\* Thread t announces its innermost compilation, which is open from then on.
Announces(t) ==
  /\ pc[t] = "sendStarted" /\ jitting[t] # <<>>
  /\ Open(t) = 1..(Len(jitting[t]) - 1) /\ Len(jitting[t]) \in Open(t)'
  /\ log' = Append(log, Message("STARTED", t, func[t]))
  /\ \A u \in Threads : \A i \in Open(u)' :
       /\ Method(u, i)' = Method(u, i)
       /\ i \in Open(u) \/ (u = t /\ i = Len(jitting[t]))

\* Thread t closes its innermost compilation with a message.
Finishes(t) ==
  /\ pc[t] = "sendFinished" /\ jitting[t] # <<>> /\ Open(t) = 1..Len(jitting[t])
  /\ log' = Append(log, Message("FINISHED", t, func[t]))
  /\ \A u \in Threads : \A i \in Open(u)' :
       /\ i \in Open(u) /\ Method(u, i)' = Method(u, i)
       /\ u = t => i < Len(jitting[t])

\* Every step is one of these.
LEMMA StepSorted ==
  ASSUME TypeOK, Stacks, [Next]_vars
  PROVE  Quiet \/ \E t \in Threads : Announces(t) \/ Finishes(t)
<1> USE DEF InStarted
<1>0. \A t \in Threads : jitting[t] \in Seq(FunctionIds) /\ Len(jitting[t]) \in Nat
  BY LenProperties DEF TypeOK
<1>1. ASSUME NEW t \in Threads, NEW f \in FunctionIds, JITCompilationStarted(t, f)
      PROVE  Quiet
  <2>1. /\ Len(jitting[t]) \in Nat
        /\ Len(jitting'[t]) = Len(jitting[t]) + 1
        /\ jitting'[t][Len(jitting[t]) + 1] = f
        /\ \A i \in 1..Len(jitting[t]) : jitting'[t][i] = jitting[t][i]
        /\ \A u \in Threads : u # t => jitting'[u] = jitting[u]
    BY <1>1, Pushed DEF JITCompilationStarted
  <2>3. uses' = uses /\ log' = log /\ pc[t] = "managed"
    BY <1>1 DEF JITCompilationStarted
  <2>4. pc'[t] = IF Reportable(MethodOf(f)) THEN "lookup" ELSE "managed"
    BY <1>1 DEF JITCompilationStarted, BeginAccess, TypeOK
  <2>5. \A u \in Threads : u # t => pc'[u] = pc[u]
    BY <1>1 DEF JITCompilationStarted, BeginAccess, TypeOK
  <2>6. ASSUME NEW u \in Threads, NEW i \in Open(u)', Reportable(Method(u, i)')
        PROVE  i \in Open(u) /\ Method(u, i)' = Method(u, i)
    <3>1. CASE u # t
      <4>1. jitting'[u] = jitting[u] /\ pc'[u] = pc[u]
        BY <2>1, <2>5, <3>1
      <4> QED
        BY <2>3, <2>6, <4>1 DEF Open, Method, MethodOf
    <3>2. CASE u = t /\ Reportable(MethodOf(f))
      <4>1. Open(t)' = 1..(Len(jitting'[t]) - 1)
        BY <2>4, <3>2 DEF Open
      <4>2. i \in 1..Len(jitting[t])
        BY <2>1, <2>6, <3>2, <4>1
      <4> QED
        BY <2>1, <2>3, <3>2, <4>2 DEF Open, Method, MethodOf
    <3>3. CASE u = t /\ ~Reportable(MethodOf(f))
      <4>1. Open(t)' = 1..Len(jitting'[t])
        BY <2>4, <3>3 DEF Open
      <4>2. i # Len(jitting[t]) + 1
        BY <2>1, <2>3, <2>6, <3>3 DEF Method, MethodOf
      <4>3. i \in 1..Len(jitting[t])
        BY <2>1, <2>6, <3>3, <4>1, <4>2
      <4> QED
        BY <2>1, <2>3, <3>3, <4>3 DEF Open, Method, MethodOf
    <3> QED
      BY <3>1, <3>2, <3>3
  <2> QED
    BY <2>3, <2>6 DEF Quiet
<1>2. ASSUME NEW t \in Threads, UNCHANGED <<uses, jitting, log>>,
             \A u \in Threads : pc[u] \in InStarted <=> pc'[u] \in InStarted
      PROVE  Quiet
  BY <1>2 DEF Quiet, Open, Method, MethodOf
<1>3. ASSUME NEW t \in Threads, EndLookup(t) \/ Fetch(t) \/ EndInsert(t) \/ JITCompilationFinished(t)
      PROVE  Quiet
  <2>1. UNCHANGED <<uses, jitting, log>>
    BY <1>3 DEF EndLookup, Fetch, EndInsert, JITCompilationFinished
  <2>2. /\ pc[t] \in InStarted <=> pc'[t] \in InStarted
        /\ \A u \in Threads : u # t => pc'[u] = pc[u]
    BY <1>3 DEF EndLookup, Fetch, EndInsert, JITCompilationFinished, BeginAccess, TypeOK
  <2> QED
    BY <1>2, <2>1, <2>2
<1>4. ASSUME NEW t \in Threads, SendStarted(t)
      PROVE  Announces(t)
  <2>1. /\ pc[t] = "sendStarted" /\ jitting[t] # <<>>
        /\ \A u \in Threads : pc'[u] = IF u = t THEN "managed" ELSE pc[u]
        /\ log' = Append(log, Message("STARTED", t, func[t]))
        /\ UNCHANGED <<uses, jitting>>
    BY <1>4 DEF SendStarted, Stacks, TypeOK
  <2>2. \A u \in Threads : u # t => Open(u)' = Open(u)
    BY <2>1 DEF Open
  <2>3. Open(t) = 1..(Len(jitting[t]) - 1) /\ Open(t)' = 1..Len(jitting[t])
    BY <2>1 DEF Open
  <2>4. \A i \in 1..Len(jitting[t]) : i \in 1..(Len(jitting[t]) - 1) \/ i = Len(jitting[t])
    BY <1>0
  <2>5. Len(jitting[t]) \in 1..Len(jitting[t])
    BY <1>0, <2>1, EmptySeq
  <2> QED
    BY <2>1, <2>2, <2>3, <2>4, <2>5 DEF Announces, Method, MethodOf
<1>5. ASSUME NEW t \in Threads, jitting[t] # <<>>, pc[t] \notin InStarted,
             pc' = [pc EXCEPT ![t] = "managed"], jitting' = Pop(t), uses' = uses
      PROVE  /\ Open(t) = 1..Len(jitting[t])
             /\ \A u \in Threads : \A i \in Open(u)' :
                  /\ i \in Open(u) /\ Method(u, i)' = Method(u, i)
                  /\ u = t => i < Len(jitting[t])
  <2>1. \A u \in Threads : u # t => jitting'[u] = jitting[u]
    BY <1>5, Popped
  <2>2. \A u \in Threads : pc'[u] = IF u = t THEN "managed" ELSE pc[u]
    BY <1>5 DEF TypeOK
  <2>3. /\ Len(jitting'[t]) = Len(jitting[t]) - 1
        /\ \A i \in 1..(Len(jitting[t]) - 1) : jitting'[t][i] = jitting[t][i]
    BY <1>5, Popped
  <2>4. Open(t) = 1..Len(jitting[t]) /\ Open(t)' = 1..(Len(jitting[t]) - 1)
    BY <1>5, <2>2, <2>3 DEF Open
  <2>5. ASSUME NEW u \in Threads, NEW i \in Open(u)'
        PROVE  i \in Open(u) /\ Method(u, i)' = Method(u, i) /\ (u = t => i < Len(jitting[t]))
    <3>1. CASE u = t
      <4>1. i \in 1..(Len(jitting[t]) - 1)
        BY <2>4, <2>5, <3>1
      <4>2. i \in 1..Len(jitting[t]) /\ i < Len(jitting[t])
        BY <1>0, <4>1
      <4> QED
        BY <1>5, <2>3, <2>4, <3>1, <4>1, <4>2 DEF Method, MethodOf
    <3>2. CASE u # t
      <4>1. jitting'[u] = jitting[u] /\ pc'[u] = pc[u]
        BY <2>1, <2>2, <3>2
      <4> QED
        BY <1>5, <2>5, <3>2, <4>1 DEF Open, Method, MethodOf
    <3> QED
      BY <3>1, <3>2
  <2> QED
    BY <2>4, <2>5
<1>6. ASSUME NEW t \in Threads, EndGet(t)
      PROVE  Quiet
  <2>1. pc[t] = "get" /\ jitting[t] # <<>> /\ log' = log /\ uses' = uses
    BY <1>6 DEF EndGet, Stacks
  <2>2. CASE pc' = [pc EXCEPT ![t] = "managed"] /\ jitting' = Pop(t)
    BY <1>5, <2>1, <2>2 DEF Quiet
  <2>3. CASE pc' = [pc EXCEPT ![t] = "sendFinished"] /\ jitting' = jitting
    <3>1. \A u \in Threads : pc[u] \in InStarted <=> pc'[u] \in InStarted
      BY <2>1, <2>3 DEF TypeOK
    <3> QED
      BY <1>2, <2>1, <2>3, <3>1
  <2> QED
    BY <1>6, <2>2, <2>3 DEF EndGet
<1>7. ASSUME NEW t \in Threads, SendFinished(t)
      PROVE  Finishes(t)
  <2>1. /\ pc[t] = "sendFinished" /\ jitting[t] # <<>> /\ uses' = uses
        /\ pc' = [pc EXCEPT ![t] = "managed"] /\ jitting' = Pop(t)
        /\ log' = Append(log, Message("FINISHED", t, func[t]))
    BY <1>7 DEF SendFinished, Stacks
  <2> QED
    BY <1>5, <2>1 DEF Finishes
<1>8. ASSUME NEW f \in FunctionIds, FunctionUnloadStarted(f)
      PROVE  Quiet
  <2>1. /\ UNCHANGED <<jitting, pc, log>> /\ ~Compiling(f)
        /\ uses' = [uses EXCEPT ![f] = @ + 1]
    BY <1>8 DEF FunctionUnloadStarted
  <2>2. \A g \in FunctionIds : g # f => uses'[g] = uses[g]
    BY <2>1 DEF TypeOK
  <2>3. \A t \in Threads : Open(t)' = Open(t)
    BY <2>1 DEF Open
  <2>4. ASSUME NEW t \in Threads, NEW i \in Open(t)
        PROVE  Method(t, i)' = Method(t, i)
    <3>1. i \in 1..Len(jitting[t])
      BY <1>0 DEF Open
    <3>2. jitting[t][i] \in FunctionIds /\ jitting[t][i] # f
      BY <1>0, <2>1, <3>1, ElementOfSeq DEF Compiling
    <3> QED
      BY <2>1, <2>2, <3>2 DEF Method, MethodOf
  <2> QED
    BY <2>1, <2>3, <2>4 DEF Quiet
<1>9. CASE AccessFaults \/ UNCHANGED vars
  BY <1>9 DEF AccessFaults, vars, Quiet, Open, Method, MethodOf
<1> QED
  BY <1>1, <1>3, <1>4, <1>6, <1>7, <1>8, <1>9 DEF Next, Callback

-----------------------------------------------------------------------------
(* The log of a step that sends.                                           *)

\* A message more leaves the others as they were.
LEMMA Longer ==
  ASSUME NEW s \in Seq(Messages), NEW x \in Messages, NEW z, z = Append(s, x)
  PROVE  /\ Len(s) \in Nat /\ Len(z) = Len(s) + 1 /\ z[Len(s) + 1] = x
         /\ \A k \in 1..Len(s) : z[k] = s[k]
BY AppendProperties, LenProperties

\* Nothing is from a depth of message j or less after it, if the new message
\* is not.
LEMMA DeeperStays ==
  ASSUME TypeOK, NEW x \in Messages, log' = Append(log, x),
         NEW j \in 1..Len(log), NEW t, DeeperSince(j, t),
         x.thread = t => x.depth > log[j].depth
  PROVE  DeeperSince(j, t)'
<1>1. /\ Len(log) \in Nat /\ Len(log') = Len(log) + 1 /\ log'[Len(log) + 1] = x
      /\ \A k \in 1..Len(log) : log'[k] = log[k]
  BY Longer DEF TypeOK
<1>2. ASSUME NEW k \in (j + 1)..Len(log'), log'[k].thread = t
      PROVE  log'[k].depth > log'[j].depth
  <2>1. CASE k = Len(log) + 1
    BY <1>1, <1>2, <2>1
  <2>2. CASE k # Len(log) + 1
    <3>1. k \in (j + 1)..Len(log) /\ k \in 1..Len(log)
      BY <1>1, <2>2
    <3>2. log'[k] = log[k] /\ log'[j] = log[j]
      BY <1>1, <3>1
    <3> QED
      BY <1>2, <3>1, <3>2 DEF DeeperSince
  <2> QED
    BY <2>1, <2>2
<1> QED
  BY <1>2 DEF DeeperSince

\* A pair stays a pair.
LEMMA OpensStays ==
  ASSUME TypeOK, NEW x \in Messages, log' = Append(log, x),
         NEW i \in 1..Len(log), NEW j \in 1..Len(log), Opens(i, j)
  PROVE  Opens(i, j)'
<1>1. Len(log) \in Nat /\ \A k \in 1..Len(log) : log'[k] = log[k]
  BY Longer DEF TypeOK
<1>2. \A k \in (i + 1)..(j - 1) : k \in 1..Len(log)
  BY <1>1
<1> QED
  BY <1>1, <1>2 DEF Opens, Is

\* The new message closes the compilation of its thread, method and depth that
\* nothing has answered.
LEMMA OpensNew ==
  ASSUME TypeOK, NEW x \in Messages, log' = Append(log, x), NEW i \in 1..Len(log),
         Is(i, "STARTED", x.thread, x.about), log[i].depth = x.depth,
         DeeperSince(i, x.thread)
  PROVE  Opens(i, Len(log))'
<1>1. /\ Len(log) \in Nat /\ Len(log') = Len(log) + 1 /\ log'[Len(log) + 1] = x
      /\ \A k \in 1..Len(log) : log'[k] = log[k]
  BY Longer DEF TypeOK
<1>2. ASSUME NEW k \in (i + 1)..(Len(log') - 1), log'[k].thread = x.thread
      PROVE  log'[k].depth > x.depth
  <2>1. k \in (i + 1)..Len(log) /\ log'[k] = log[k]
    BY <1>1
  <2> QED
    BY <1>2, <2>1 DEF DeeperSince
<1>3. i < Len(log') /\ log'[i] = log[i] /\ log'[Len(log')] = x
  BY <1>1
<1> QED
  BY <1>2, <1>3 DEF Opens, Is

\* The inductive invariant.
IInv == TypeOK /\ Stacks /\ CompilationsAnnounced /\ WellNested

\* No step opens a compilation unheard, or closes one that nothing opened.
LEMMA LogStep ==
  ASSUME IInv, [Next]_vars
  PROVE  CompilationsAnnounced' /\ WellNested'
<1>0. /\ TypeOK /\ log \in Seq(Messages) /\ Len(log) \in Nat
      /\ \A t \in Threads : Len(jitting[t]) \in Nat
  BY LenProperties DEF IInv, TypeOK
<1>1. CASE Quiet
  <2>1. CompilationsAnnounced'
    <3> SUFFICES ASSUME NEW t \in Threads, NEW i \in Open(t)', Reportable(Method(t, i)')
                 PROVE  \E j \in 1..Len(log') :
                          (Is(j, "STARTED", t, Method(t, i)) /\ log[j].depth = i /\ DeeperSince(j, t))'
      BY DEF CompilationsAnnounced, Method, Reportable
    <3>1. log' = log /\ i \in Open(t) /\ Method(t, i)' = Method(t, i)
      BY <1>1 DEF Quiet
    <3>2. PICK j \in 1..Len(log) :
            Is(j, "STARTED", t, Method(t, i)) /\ log[j].depth = i /\ DeeperSince(j, t)
      BY <3>1 DEF IInv, CompilationsAnnounced, Method
    <3> QED
      BY <3>1, <3>2 DEF Is, DeeperSince
  <2>2. WellNested'
    BY <1>1 DEF Quiet, IInv, WellNested, Closes, Reportable, Opens, Is
  <2> QED
    BY <2>1, <2>2
\* A step that sends x about a compilation of thread t at depth n.
<1>2. ASSUME NEW t \in Threads, NEW n \in Nat, NEW x \in Messages, log' = Append(log, x),
             x.thread = t, x.about = Method(t, n), x.depth = n,
             \A u \in Threads : \A i \in Open(u)' :
               /\ Method(u, i)' = Method(u, i)
               /\ \/ i \in Open(u) /\ (u = t => n > i)
                  \/ u = t /\ i = n /\ x.type = "STARTED",
             x.type = "FINISHED" => n \in Open(t)
      PROVE  CompilationsAnnounced' /\ WellNested'
  <2>1. /\ Len(log') = Len(log) + 1 /\ log'[Len(log) + 1] = x
        /\ \A k \in 1..Len(log) : log'[k] = log[k]
    BY <1>0, <1>2, Longer
  <2>2. CompilationsAnnounced'
    <3> SUFFICES ASSUME NEW u \in Threads, NEW i \in Open(u)', Reportable(Method(u, i)')
                 PROVE  \E j \in 1..Len(log') :
                          (Is(j, "STARTED", u, Method(u, i)) /\ log[j].depth = i /\ DeeperSince(j, u))'
      BY DEF CompilationsAnnounced, Method, Reportable
    <3>1. Method(u, i)' = Method(u, i)
      BY <1>2
    <3>2. CASE i \in Open(u) /\ (u = t => n > i)
      <4>1. PICK j \in 1..Len(log) :
              Is(j, "STARTED", u, Method(u, i)) /\ log[j].depth = i /\ DeeperSince(j, u)
        BY <3>1, <3>2 DEF IInv, CompilationsAnnounced, Method
      <4>2. DeeperSince(j, u)'
        BY <1>0, <1>2, <3>2, <4>1, DeeperStays
      <4>3. j \in 1..Len(log') /\ log'[j] = log[j]
        BY <1>0, <2>1
      <4> QED
        BY <3>1, <4>1, <4>2, <4>3 DEF Is
    <3>3. CASE u = t /\ i = n /\ x.type = "STARTED"
      <4>1. Len(log') \in 1..Len(log') /\ log'[Len(log')] = x
        BY <1>0, <2>1
      <4>2. PICK j \in 1..Len(log') : j = Len(log')
        BY <4>1
      <4>3. (j + 1)..Len(log') = {}
        BY <1>0, <2>1, <4>2
      <4>4. DeeperSince(j, u)'
        BY <4>3 DEF DeeperSince
      <4> QED
        BY <1>2, <3>1, <3>3, <4>1, <4>2, <4>4 DEF Is
    <3> QED
      BY <1>2, <3>2, <3>3
  <2>3. WellNested'
    <3> SUFFICES ASSUME NEW j \in 1..Len(log'), Closes(j)'
                 PROVE  \E i \in 1..Len(log') : Opens(i, j)'
      BY DEF WellNested
    <3>1. CASE j \in 1..Len(log)
      <4>1. Closes(j)
        BY <2>1, <3>1 DEF Closes, Reportable
      <4>2. PICK i \in 1..Len(log) : Opens(i, j)
        BY <3>1, <4>1 DEF IInv, WellNested
      <4>3. Opens(i, j)'
        BY <1>0, <1>2, <3>1, <4>2, OpensStays
      <4> QED
        BY <1>0, <2>1, <4>3
    <3>2. CASE j = Len(log')
      <4>1. x.type = "FINISHED" /\ Reportable(Method(t, n)) /\ n \in Open(t)
        BY <1>0, <1>2, <2>1, <3>2 DEF Closes, Reportable
      <4>2. PICK i \in 1..Len(log) :
              Is(i, "STARTED", t, Method(t, n)) /\ log[i].depth = n /\ DeeperSince(i, t)
        BY <4>1 DEF IInv, CompilationsAnnounced, Method
      <4>3. Opens(i, Len(log))'
        BY <1>0, <1>2, <4>2, OpensNew
      <4> QED
        BY <1>0, <2>1, <3>2, <4>3
    <3> QED
      BY <1>0, <2>1, <3>1, <3>2
  <2> QED
    BY <2>2, <2>3
<1>3. ASSUME NEW t \in Threads, Announces(t) \/ Finishes(t)
      PROVE  CompilationsAnnounced' /\ WellNested'
  <2>1. PICK type \in {"STARTED", "FINISHED"} :
          /\ log' = Append(log, Message(type, t, func[t])) /\ jitting[t] # <<>>
          /\ type = "STARTED" => Announces(t)
          /\ type = "FINISHED" => Finishes(t)
    BY <1>3 DEF Announces, Finishes
  <2>2. PICK x : x = Message(type, t, func[t])
    OBVIOUS
  <2>3. PICK n \in Nat : n = Len(jitting[t])
    BY <1>0
  <2>4. /\ x \in Messages /\ log' = Append(log, x)
        /\ x.type = type /\ x.thread = t /\ x.about = Method(t, n) /\ x.depth = n
    <3>1. x \in Messages
      BY <1>0, <2>1, <2>2, Typed DEF TypeOK
    <3> QED
      BY <2>1, <2>2, <2>3, <3>1 DEF Message, Method, Current
  <2>5. CASE type = "STARTED"
    <3>1. Open(t) = 1..(n - 1)
      BY <2>1, <2>3, <2>5 DEF Announces
    <3>2. \A i \in 1..(n - 1) : n > i
      BY <2>3
    <3>3. ASSUME NEW u \in Threads, NEW i \in Open(u)'
          PROVE  /\ Method(u, i)' = Method(u, i)
                 /\ (i \in Open(u) /\ (u = t => n > i)) \/ (u = t /\ i = n /\ x.type = "STARTED")
      <4>1. Method(u, i)' = Method(u, i) /\ (i \in Open(u) \/ (u = t /\ i = n))
        BY <2>1, <2>3, <2>5, <3>3 DEF Announces
      <4> QED
        BY <2>4, <2>5, <3>1, <3>2, <4>1
    <3> QED
      BY <1>2, <2>4, <2>5, <3>3
  <2>6. CASE type = "FINISHED"
    <3>1. Open(t) = 1..n /\ n # 0
      <4>1. jitting[t] \in Seq(FunctionIds)
        BY <1>0 DEF TypeOK
      <4>2. Len(jitting[t]) # 0
        BY <2>1, <4>1, EmptySeq
      <4> QED
        BY <2>1, <2>3, <2>6, <4>2 DEF Finishes
    <3>2. n \in Open(t)
      BY <2>3, <3>1
    <3>3. ASSUME NEW u \in Threads, NEW i \in Open(u)'
          PROVE  /\ Method(u, i)' = Method(u, i)
                 /\ (i \in Open(u) /\ (u = t => n > i)) \/ (u = t /\ i = n /\ x.type = "STARTED")
      <4>1. Method(u, i)' = Method(u, i) /\ i \in Open(u) /\ (u = t => i < n)
        BY <2>1, <2>3, <2>6, <3>3 DEF Finishes
      <4>2. u = t => i \in 1..n
        BY <3>1, <4>1
      <4> QED
        BY <2>3, <4>1, <4>2
    <3> QED
      BY <1>2, <2>4, <3>2, <3>3
  <2> QED
    BY <2>5, <2>6
<1> QED
  BY <1>0, <1>1, <1>3, StepSorted DEF IInv

-----------------------------------------------------------------------------
(* The theorems.                                                           *)

\* Nothing is compiled at the start.
LEMMA Starts == Init => IInv
<1> SUFFICES ASSUME Init PROVE IInv
  OBVIOUS
<1>1. TypeOK
  <2>1. uses \in [FunctionIds -> 0..MaxUses]
    BY BoundsAssumption DEF Init
  <2>2. jitting \in [Threads -> Seq(FunctionIds)] /\ log \in Seq(Messages)
    BY DEF Init
  <2>3. /\ pc \in [Threads -> Steps] /\ func \in [Threads -> Entries]
        /\ mFuncMap \in [Keys -> Entries \cup {Unmapped}]
    BY DEF Init, Steps, Entries
  <2>4. raced \in BOOLEAN /\ crashed \in BOOLEAN
    BY DEF Init
  <2> QED
    BY <2>1, <2>2, <2>3, <2>4 DEF TypeOK
<1>2. Stacks
  BY DEF Init, Stacks
<1>3. \A t \in Threads : Open(t) = {}
  BY DEF Init, Open, InStarted
<1>4. Len(log) = 0
  BY DEF Init
<1>5. CompilationsAnnounced
  BY <1>3 DEF CompilationsAnnounced
<1>6. WellNested
  BY <1>4 DEF WellNested
<1> QED
  BY <1>1, <1>2, <1>5, <1>6 DEF IInv

\* Stacks and log stay in step, whatever the callbacks race over and whatever is
\* compiled again inside its own compilation or by another thread.
THEOREM Inductive == Spec => []IInv
<1>1. Init => IInv
  BY Starts
<1>2. IInv /\ [Next]_vars => IInv'
  BY TypeStep, LogStep DEF IInv
<1> QED
  BY <1>1, <1>2, PTL DEF Spec

\* Every variable keeps its type: no message goes out with what a search that
\* missed has returned.
THEOREM TypeInvariance == Spec => []TypeOK
BY Inductive, PTL DEF IInv

\* A method of a traced module runs only after its compilation was announced,
\* though the cache is raced, ids are narrowed, used again or without metadata,
\* and methods are compiled again before their first compilation has ended.
THEOREM CompilationsAreAnnounced == Spec => []CompilationsAnnounced
BY Inductive, PTL DEF IInv

\* The messages of each thread are bracketed: each Finished message of a traced
\* method has a Started message of its compilation, and what the thread sends
\* in between is from compilations nested in it.
THEOREM MessagesNest == Spec => []WellNested
BY Inductive, PTL DEF IInv

-----------------------------------------------------------------------------
(* The cache.                                                              *)

\* Without a race no step replaces or drops an entry: a search that finds an
\* empty pointer stores the empty pointer that is there.
LEMMA StableStep ==
  ASSUME TypeOK, Stacks, [Next]_vars, ~raced', NEW k \in Keys, mFuncMap[k] # Unmapped
  PROVE  mFuncMap'[k] = mFuncMap[k]
<1>1. ASSUME NEW t \in Threads, jitting[t] # <<>> PROVE Key(Current(t)) \in Keys
  BY <1>1, Typed
<1>2. ASSUME NEW c \in Keys, NEW v \in Found(c), ~raced
      PROVE  Searched(c, v)[k] = mFuncMap[k]
  BY <1>2 DEF Found, Searched, TypeOK
<1>3. ASSUME NEW t \in Threads, EndLookup(t) PROVE mFuncMap'[k] = mFuncMap[k]
  <2>1. ~raced /\ jitting[t] # <<>>
    BY <1>3 DEF EndLookup, Stacks
  <2> QED
    BY <1>1, <1>2, <1>3, <2>1 DEF EndLookup
<1>4. ASSUME NEW t \in Threads, EndGet(t) PROVE mFuncMap'[k] = mFuncMap[k]
  <2>1. ~raced /\ jitting[t] # <<>>
    BY <1>4 DEF EndGet, Stacks
  <2> QED
    BY <1>1, <1>2, <1>4, <2>1 DEF EndGet
<1>5. ASSUME NEW t \in Threads, EndInsert(t) PROVE mFuncMap'[k] = mFuncMap[k]
  <2>1. ~raced /\ jitting[t] # <<>>
    BY <1>5 DEF EndInsert, Stacks
  <2>2. mFuncMap' \in cacheFunction(Key(Current(t)), func[t])
    BY <1>5 DEF EndInsert
  <2> QED
    BY <1>1, <2>1, <2>2 DEF cacheFunction, TypeOK
<1>6. ASSUME NEW t \in Threads, NEW f \in FunctionIds, JITCompilationStarted(t, f)
      PROVE  mFuncMap' = mFuncMap
  BY <1>6 DEF JITCompilationStarted
<1>7. ASSUME NEW t \in Threads, Fetch(t) \/ SendStarted(t) \/ JITCompilationFinished(t) \/ SendFinished(t)
      PROVE  mFuncMap' = mFuncMap
  BY <1>7 DEF Fetch, SendStarted, JITCompilationFinished, SendFinished
<1>8. ASSUME NEW f \in FunctionIds, FunctionUnloadStarted(f) PROVE mFuncMap' = mFuncMap
  BY <1>8 DEF FunctionUnloadStarted
<1>9. AccessFaults \/ UNCHANGED vars => mFuncMap' = mFuncMap
  BY DEF AccessFaults, vars
<1> QED
  BY <1>3, <1>4, <1>5, <1>6, <1>7, <1>8, <1>9 DEF Next, Callback

\* As long as nothing races, threads that both missed the cache agree on its
\* entry for the rest of the run.
THEOREM CacheIsStable == Spec => CacheStable
<1>1. ASSUME TypeOK, Stacks, [Next]_vars
      PROVE  [~raced' => \A k \in Keys : mFuncMap[k] # Unmapped => mFuncMap'[k] = mFuncMap[k]]_vars
  BY <1>1, StableStep DEF vars
<1>2. IInv => TypeOK /\ Stacks
  BY DEF IInv
<1> QED
  BY <1>1, <1>2, Inductive, PTL DEF Spec, CacheStable

-----------------------------------------------------------------------------
(* Compilations that finish, as long as nothing races.                     *)

\* Ids fit an int, and every traced method has metadata.
KeepsData == NoMetadata \cap Traced = {} /\ \A f \in FunctionIds : Key(f) = f

\* A Started callback past its guards is about a reported method.
Reported == \A t \in Threads : pc[t] \in InStarted => Reportable(MethodOf(Current(t)))

Mapped(k) == mFuncMap[k] \notin {Unmapped, Null}

\* The cache holds every reported method that is being compiled, from the end
\* of the insertion or of the search that found it.
Cached ==
  /\ \A k \in Keys : mFuncMap[k] # Null
  /\ \A t \in Threads :
       /\ \A i \in Open(t) : Reportable(Method(t, i)) => Mapped(jitting[t][i])
       /\ pc[t] = "insert" => func[t] # Null
       /\ pc[t] = "sendStarted" => Mapped(Current(t))

\* Message i announced a compilation that its thread has not ended, and no later
\* message is from that depth or less.
Pending(i) ==
  /\ log[i].depth \in Open(log[i].thread)
  /\ Method(log[i].thread, log[i].depth) = log[i].about
  /\ Reportable(log[i].about) /\ DeeperSince(i, log[i].thread)

\* A Started message is closed, or its compilation is still open.
Accounted ==
  \A i \in 1..Len(log) : log[i].type = "STARTED" => Closed(i) \/ Pending(i)

PairInv == Reported /\ (~raced => Cached /\ Accounted)

\* The steps of one thread leave the others where they are.
LEMMA OthersStay ==
  ASSUME TypeOK, Stacks, NEW t \in Threads, Callback(t), NEW u \in Threads, u # t
  PROVE  jitting'[u] = jitting[u] /\ pc'[u] = pc[u] /\ func'[u] = func[u]
<1>1. ASSUME NEW f \in FunctionIds, JITCompilationStarted(t, f)
      PROVE  jitting'[u] = jitting[u] /\ pc'[u] = pc[u] /\ func'[u] = func[u]
  BY <1>1 DEF JITCompilationStarted, BeginAccess, TypeOK
<1>2. EndLookup(t) \/ Fetch(t) \/ EndInsert(t) =>
        jitting'[u] = jitting[u] /\ pc'[u] = pc[u] /\ func'[u] = func[u]
  BY DEF EndLookup, Fetch, EndInsert, BeginAccess, TypeOK
<1>3. SendStarted(t) \/ JITCompilationFinished(t) =>
        jitting'[u] = jitting[u] /\ pc'[u] = pc[u] /\ func'[u] = func[u]
  BY DEF SendStarted, JITCompilationFinished, BeginAccess, TypeOK
<1>4. EndGet(t) \/ SendFinished(t) =>
        jitting'[u] = jitting[u] /\ pc'[u] = pc[u] /\ func'[u] = func[u]
  BY DEF EndGet, SendFinished, Pop, TypeOK
<1> QED
  BY <1>1, <1>2, <1>3, <1>4 DEF Callback

\* A method that is being compiled keeps its id to itself.
LEMMA UsedStays ==
  ASSUME TypeOK, [Next]_vars, NEW t \in Threads, NEW i \in 1..Len(jitting[t])
  PROVE  uses'[jitting[t][i]] = uses[jitting[t][i]]
<1>1. jitting[t][i] \in FunctionIds /\ Compiling(jitting[t][i])
  <2>1. jitting[t] \in Seq(FunctionIds)
    BY DEF TypeOK
  <2> QED
    BY <2>1, ElementOfSeq DEF Compiling
<1>2. ASSUME NEW f \in FunctionIds, FunctionUnloadStarted(f)
      PROVE  uses'[jitting[t][i]] = uses[jitting[t][i]]
  BY <1>1, <1>2 DEF FunctionUnloadStarted, TypeOK
<1>3. ASSUME NEW u \in Threads, Callback(u) PROVE uses' = uses
  BY <1>3
  DEF Callback, JITCompilationStarted, EndLookup, Fetch, EndInsert, SendStarted,
      JITCompilationFinished, EndGet, SendFinished
<1> QED
  BY <1>2, <1>3 DEF Next, AccessFaults, vars

\* A race is never undone.
LEMMA RacedStays ==
  ASSUME TypeOK, [Next]_vars, ~raced'
  PROVE  ~raced
BY DEF Next, Callback, JITCompilationStarted, EndLookup, Fetch, EndInsert, SendStarted,
       JITCompilationFinished, EndGet, SendFinished, BeginAccess, FunctionUnloadStarted,
       AccessFaults, vars, TypeOK

\* No step takes a Started callback past its guards with another method.
LEMMA ReportedStep ==
  ASSUME IInv, Reported, [Next]_vars
  PROVE  Reported'
<1> SUFFICES ASSUME NEW t \in Threads, pc'[t] \in InStarted
             PROVE  Reportable(MethodOf(Current(t)))'
  BY DEF Reported
<1>1. TypeOK /\ Stacks
  BY DEF IInv
<1>2. ASSUME pc[t] \in InStarted, jitting'[t] = jitting[t]
      PROVE  Reportable(MethodOf(Current(t)))'
  <2>1. Reportable(MethodOf(Current(t))) /\ jitting[t] # <<>>
    BY <1>1, <1>2 DEF Reported, Stacks, InStarted
  <2>2. Len(jitting[t]) \in 1..Len(jitting[t])
    BY <1>1, <2>1, EmptySeq, LenProperties DEF TypeOK
  <2>3. uses'[Current(t)] = uses[Current(t)]
    BY <1>1, <2>2, UsedStays DEF Current
  <2> QED
    BY <1>2, <2>1, <2>3 DEF Reportable, MethodOf, Current
<1>3. ASSUME NEW f \in FunctionIds, JITCompilationStarted(t, f)
      PROVE  Reportable(MethodOf(Current(t)))'
  <2>1. Current(t)' = f /\ uses' = uses /\ pc[t] = "managed"
    BY <1>1, <1>3, Pushed DEF JITCompilationStarted
  <2>2. Reportable(MethodOf(f))
    BY <1>3, <2>1 DEF JITCompilationStarted, InStarted
  <2> QED
    BY <2>1, <2>2 DEF Reportable, MethodOf
<1>4. ASSUME EndLookup(t) \/ Fetch(t) \/ EndInsert(t)
      PROVE  Reportable(MethodOf(Current(t)))'
  <2>1. pc[t] \in InStarted /\ jitting' = jitting
    BY <1>4 DEF EndLookup, Fetch, EndInsert, InStarted
  <2> QED
    BY <1>2, <2>1
<1>5. SendStarted(t) \/ JITCompilationFinished(t) \/ EndGet(t) \/ SendFinished(t) =>
        pc'[t] \notin InStarted
  BY <1>1
  DEF SendStarted, JITCompilationFinished, BeginAccess, EndGet, SendFinished, InStarted, TypeOK
<1>6. ASSUME NEW u \in Threads, u # t, Callback(u) PROVE Reportable(MethodOf(Current(t)))'
  <2>1. jitting'[t] = jitting[t] /\ pc'[t] = pc[t]
    BY <1>1, <1>6, OthersStay
  <2> QED
    BY <1>2, <2>1
<1>7. ASSUME UNCHANGED <<jitting, pc>> PROVE Reportable(MethodOf(Current(t)))'
  BY <1>2, <1>7
<1> QED
  BY <1>3, <1>4, <1>5, <1>6, <1>7
  DEF Next, Callback, FunctionUnloadStarted, AccessFaults, vars

\* No step loses a function that will be looked for.
LEMMA CachedStep ==
  ASSUME IInv, KeepsData, Reported, Cached, [Next]_vars, ~raced'
  PROVE  Cached'
<1>1. TypeOK /\ Stacks /\ ~raced
  BY RacedStays DEF IInv
<1>2. ASSUME NEW t \in Threads, jitting[t] # <<>>
      PROVE  /\ Len(jitting[t]) \in 1..Len(jitting[t]) /\ Current(t) \in FunctionIds
             /\ Current(t) \in Keys /\ Key(Current(t)) = Current(t)
  <2>1. Current(t) \in FunctionIds /\ Key(Current(t)) \in Keys
    BY <1>1, <1>2, Typed
  <2>2. Len(jitting[t]) \in 1..Len(jitting[t])
    BY <1>1, <1>2, EmptySeq, LenProperties DEF TypeOK
  <2> QED
    BY <2>1, <2>2 DEF KeepsData
<1>3. ASSUME NEW k \in Keys, Mapped(k) PROVE Mapped(k)'
  BY <1>1, <1>3, StableStep DEF Mapped
\* What an insertion adds is a function.
<1>4. ASSUME NEW t \in Threads, EndInsert(t)
      PROVE  (\A k \in Keys : mFuncMap'[k] # Null) /\ Mapped(Current(t))'
  <2> DEFINE c == Current(t)
  <2>1. jitting[t] # <<>> /\ func[t] \in Methods /\ jitting' = jitting
    BY <1>1, <1>4 DEF EndInsert, Stacks, Cached, TypeOK, Entries
  <2>2. c \in Keys /\ mFuncMap' \in cacheFunction(c, func[t])
    BY <1>2, <1>4, <2>1 DEF EndInsert
  <2>3. c' = c
    BY <2>1 DEF Current
  <2> HIDE DEF c
  <2>4. mFuncMap' = IF mFuncMap[c] = Unmapped THEN [mFuncMap EXCEPT ![c] = func[t]] ELSE mFuncMap
    BY <1>1, <2>2 DEF cacheFunction
  <2>5. func[t] \notin {Unmapped, Null}
    BY <2>1, NoMethodAssumption
  <2>6. \A k \in Keys : mFuncMap[k] # Null
    BY DEF Cached
  <2>7. (\A k \in Keys : mFuncMap'[k] # Null) /\ mFuncMap'[c] # Unmapped
    BY <1>1, <2>2, <2>4, <2>5, <2>6 DEF TypeOK
  <2>8. Mapped(c)'
    BY <2>2, <2>3, <2>7 DEF Mapped
  <2> QED
    BY <2>7, <2>8 DEF c
\* A search leaves the map as it is.
<1>5. ASSUME NEW t \in Threads, EndLookup(t) \/ EndGet(t)
      PROVE  mFuncMap' = mFuncMap /\ jitting[t] # <<>>
  <2>1. jitting[t] # <<>>
    BY <1>1, <1>5 DEF EndLookup, EndGet, Stacks
  <2>2. \A v \in Found(Key(Current(t))) : Searched(Key(Current(t)), v) = mFuncMap
    BY <1>1, <1>2, <2>1 DEF Found, Searched, Cached
  <2> QED
    BY <1>5, <2>1, <2>2 DEF EndLookup, EndGet
<1>6. \A k \in Keys : mFuncMap'[k] # Null
  <2>1. \A k \in Keys : mFuncMap[k] # Null
    BY DEF Cached
  <2>2. ASSUME NEW t \in Threads, Callback(t), ~EndInsert(t) PROVE mFuncMap' = mFuncMap
    BY <1>5, <2>2
    DEF Callback, JITCompilationStarted, Fetch, SendStarted, JITCompilationFinished, SendFinished
  <2> QED
    BY <1>4, <2>1, <2>2 DEF Next, FunctionUnloadStarted, AccessFaults, vars
\* What is open and reported was, or its announcement goes out now.
<1>7. ASSUME NEW t \in Threads, NEW i \in Open(t)', Reportable(Method(t, i)')
      PROVE  Mapped(jitting[t][i])'
  <2>1. ASSUME i \in Open(t), Method(t, i)' = Method(t, i)
        PROVE  Mapped(jitting[t][i])'
    <3>1. jitting'[t][i] = jitting[t][i]
      BY <2>1 DEF Method, MethodOf
    <3>2. Mapped(jitting[t][i])
      BY <1>7, <2>1 DEF Cached
    <3>3. i \in 1..Len(jitting[t]) /\ jitting[t] \in Seq(FunctionIds)
      BY <1>1, <2>1, LenProperties DEF Open, TypeOK
    <3>4. jitting[t][i] \in Keys
      BY <1>1, <3>3, ElementOfSeq DEF KeepsData, Keys
    <3>5. jitting[t][i] \in Keys /\ mFuncMap'[jitting[t][i]] \notin {Unmapped, Null}
      BY <1>3, <3>2, <3>4 DEF Mapped
    <3> QED
      BY <3>1, <3>5 DEF Mapped
  <2>2. ASSUME i = Len(jitting[t]), Announces(t)
        PROVE  Mapped(jitting[t][i])'
    <3>1. Mapped(Current(t)) /\ jitting[t] # <<>> /\ i \in Open(t)'
      BY <1>7, <2>2 DEF Announces, Cached
    <3>2. Method(t, i)' = Method(t, i)
      BY <2>2, <3>1 DEF Announces
    <3>3. jitting'[t][i] = jitting[t][i]
      BY <3>2 DEF Method, MethodOf
    <3>4. mFuncMap'[Current(t)] \notin {Unmapped, Null}
      BY <1>2, <1>3, <3>1 DEF Mapped
    <3> QED
      BY <2>2, <3>3, <3>4 DEF Mapped, Current
  <2>3. CASE Quiet
    BY <1>7, <2>1, <2>3 DEF Quiet
  <2>4. ASSUME NEW u \in Threads, Announces(u) PROVE Mapped(jitting[t][i])'
    BY <1>7, <2>1, <2>2, <2>4 DEF Announces
  <2>5. ASSUME NEW u \in Threads, Finishes(u) PROVE Mapped(jitting[t][i])'
    BY <1>7, <2>1, <2>5 DEF Finishes
  <2> QED
    BY <1>1, <2>3, <2>4, <2>5, StepSorted
\* A callback fetches what it inserts, and does not send before.
<1>8. ASSUME NEW t \in Threads
      PROVE  /\ pc'[t] = "insert" => func'[t] # Null
             /\ pc'[t] = "sendStarted" => Mapped(Current(t))'
  <2>1. ASSUME jitting'[t] = jitting[t], jitting[t] # <<>>, Mapped(Current(t))
        PROVE  Mapped(Current(t))'
    <3>1. mFuncMap'[Current(t)] \notin {Unmapped, Null}
      BY <1>2, <1>3, <2>1 DEF Mapped
    <3> QED
      BY <2>1, <3>1 DEF Mapped, Current
  <2>2. ASSUME jitting'[t] = jitting[t], pc'[t] = pc[t], func'[t] = func[t]
        PROVE  /\ pc'[t] = "insert" => func'[t] # Null
               /\ pc'[t] = "sendStarted" => Mapped(Current(t))'
    <3>1. /\ pc[t] = "insert" => func[t] # Null
          /\ pc[t] = "sendStarted" => Mapped(Current(t)) /\ jitting[t] # <<>>
      BY <1>1 DEF Cached, Stacks
    <3> QED
      BY <2>1, <2>2, <3>1
  <2>3. ASSUME EndLookup(t)
        PROVE  /\ pc'[t] \in {"fetch", "sendStarted"}
               /\ pc'[t] = "sendStarted" => Mapped(Current(t))'
    <3>1. Found(Key(Current(t))) = {mFuncMap[Current(t)]} /\ Current(t) \in Keys
      BY <1>1, <1>2, <1>5, <2>3 DEF Found
    <3>2. pc' = [pc EXCEPT ![t] = IF mFuncMap[Current(t)] = Unmapped THEN "fetch" ELSE "sendStarted"]
      BY <2>3, <3>1 DEF EndLookup
    <3>3. pc'[t] = "sendStarted" => Mapped(Current(t))
      BY <1>1, <3>1, <3>2 DEF TypeOK, Cached, Mapped
    <3>4. jitting' = jitting /\ jitting[t] # <<>>
      BY <1>5, <2>3 DEF EndLookup
    <3> QED
      BY <1>1, <2>1, <3>2, <3>3, <3>4 DEF TypeOK
  <2>4. ASSUME Fetch(t)
        PROVE  pc'[t] = "insert" /\ func'[t] # Null
    <3>1. jitting[t] # <<>> /\ Reportable(MethodOf(Current(t)))
      BY <1>1, <2>4 DEF Fetch, Stacks, Reported, InStarted
    <3>2. /\ Key(Current(t)) = Current(t) /\ Current(t) \in FunctionIds
          /\ MethodOf(Current(t)) \notin NoMetadata
      BY <1>2, <3>1 DEF Reportable, KeepsData
    <3>3. func' = [func EXCEPT ![t] = MethodOf(Current(t))] /\ pc' = [pc EXCEPT ![t] = "insert"]
      BY <2>4, <3>2 DEF Fetch, BeginAccess
    <3>4. MethodOf(Current(t)) # Null
      BY <1>1, <3>2, Typed, NoMethodAssumption
    <3> QED
      BY <1>1, <3>3, <3>4 DEF TypeOK
  <2>5. EndInsert(t) => pc'[t] = "sendStarted"
    BY <1>1 DEF EndInsert, TypeOK
  <2>6. ASSUME NEW f \in FunctionIds, JITCompilationStarted(t, f)
        PROVE  pc'[t] \in {"lookup", "managed"}
    BY <1>1, <2>6 DEF JITCompilationStarted, BeginAccess, TypeOK
  <2>7. SendStarted(t) \/ JITCompilationFinished(t) \/ EndGet(t) \/ SendFinished(t) =>
          pc'[t] \in {"managed", "get", "sendFinished"}
    BY <1>1 DEF SendStarted, JITCompilationFinished, BeginAccess, EndGet, SendFinished, TypeOK
  <2>8. ASSUME Callback(t)
        PROVE  /\ pc'[t] = "insert" => func'[t] # Null
               /\ pc'[t] = "sendStarted" => Mapped(Current(t))'
    BY <1>4, <2>3, <2>4, <2>5, <2>6, <2>7, <2>8 DEF Callback
  <2>9. ASSUME NEW u \in Threads, u # t, Callback(u)
        PROVE  jitting'[t] = jitting[t] /\ pc'[t] = pc[t] /\ func'[t] = func[t]
    BY <1>1, <2>9, OthersStay
  <2> QED
    BY <2>2, <2>8, <2>9 DEF Next, FunctionUnloadStarted, AccessFaults, vars
<1> QED
  BY <1>6, <1>7, <1>8 DEF Cached

\* An open compilation of a reported method stays open until its Finished
\* message goes out: the search for its function cannot miss.
LEMMA OpenStays ==
  ASSUME IInv, KeepsData, Cached, [Next]_vars, ~raced',
         NEW t \in Threads, NEW c \in Open(t), Reportable(Method(t, c))
  PROVE  \/ c \in Open(t)' /\ Method(t, c)' = Method(t, c)
         \/ c = Len(jitting[t]) /\ SendFinished(t)
<1>1. TypeOK /\ Stacks /\ ~raced
  BY RacedStays DEF IInv
<1>2. jitting[t] \in Seq(FunctionIds) /\ Len(jitting[t]) \in Nat
  BY <1>1, LenProperties DEF TypeOK
<1>3. c \in 1..Len(jitting[t])
  BY <1>2 DEF Open
<1>4. uses'[jitting[t][c]] = uses[jitting[t][c]]
  BY <1>1, <1>3, UsedStays
<1>5. ASSUME jitting'[t] = jitting[t], pc'[t] \in InStarted => pc[t] \in InStarted
      PROVE  c \in Open(t)' /\ Method(t, c)' = Method(t, c)
  BY <1>2, <1>4, <1>5 DEF Open, Method, MethodOf
<1>6. ASSUME NEW f \in FunctionIds, JITCompilationStarted(t, f)
      PROVE  c \in Open(t)' /\ Method(t, c)' = Method(t, c)
  <2>1. Len(jitting'[t]) = Len(jitting[t]) + 1 /\ jitting'[t][c] = jitting[t][c]
    BY <1>1, <1>3, <1>6, Pushed DEF JITCompilationStarted
  <2>2. c \in 1..(Len(jitting'[t]) - 1) /\ c \in 1..Len(jitting'[t])
    BY <1>2, <1>3, <2>1
  <2> QED
    BY <1>4, <2>1, <2>2 DEF Open, Method, MethodOf
<1>7. ASSUME jitting' = Pop(t), pc'[t] = "managed", c # Len(jitting[t])
      PROVE  c \in Open(t)' /\ Method(t, c)' = Method(t, c)
  <2>1. c \in 1..(Len(jitting[t]) - 1) /\ jitting[t] # <<>>
    BY <1>2, <1>3, <1>7
  <2>2. Len(jitting'[t]) = Len(jitting[t]) - 1 /\ jitting'[t][c] = jitting[t][c]
    BY <1>1, <1>7, <2>1, Popped
  <2> QED
    BY <1>4, <1>7, <2>1, <2>2 DEF Open, InStarted, Method, MethodOf
<1>8. ASSUME EndGet(t)
      PROVE  c \in Open(t)' /\ Method(t, c)' = Method(t, c)
  <2> DEFINE v == mFuncMap[Key(Current(t))]
  <2>1. /\ pc[t] = "get" /\ jitting[t] # <<>>
        /\ IF v \in {Unmapped, Null}
           THEN pc' = [pc EXCEPT ![t] = "managed"] /\ jitting' = Pop(t)
           ELSE pc' = [pc EXCEPT ![t] = "sendFinished"] /\ jitting' = jitting
    BY <1>1, <1>8 DEF EndGet, Found, Stacks
  <2>2. Key(Current(t)) = Current(t)
    BY <1>1, <2>1, Typed DEF KeepsData
  <2>3. c = Len(jitting[t]) => v \notin {Unmapped, Null}
    BY <2>2 DEF Cached, Mapped, Current
  <2> HIDE DEF v
  <2>4. CASE v \in {Unmapped, Null}
    BY <1>1, <1>7, <2>1, <2>3, <2>4 DEF TypeOK
  <2>5. CASE v \notin {Unmapped, Null}
    BY <1>1, <1>5, <2>1, <2>5 DEF TypeOK, InStarted
  <2> QED
    BY <2>4, <2>5
<1>9. ASSUME SendFinished(t), c # Len(jitting[t])
      PROVE  c \in Open(t)' /\ Method(t, c)' = Method(t, c)
  BY <1>1, <1>7, <1>9 DEF SendFinished, TypeOK
<1>10. ASSUME EndLookup(t) \/ Fetch(t) \/ EndInsert(t) \/ SendStarted(t) \/ JITCompilationFinished(t)
       PROVE  c \in Open(t)' /\ Method(t, c)' = Method(t, c)
  <2>1. jitting'[t] = jitting[t] /\ (pc'[t] \in InStarted => pc[t] \in InStarted)
    BY <1>1, <1>10
    DEF EndLookup, Fetch, EndInsert, SendStarted, JITCompilationFinished, BeginAccess, TypeOK, InStarted
  <2> QED
    BY <1>5, <2>1
<1>11. ASSUME NEW u \in Threads, u # t, Callback(u)
       PROVE  c \in Open(t)' /\ Method(t, c)' = Method(t, c)
  <2>1. jitting'[t] = jitting[t] /\ pc'[t] = pc[t]
    BY <1>1, <1>11, OthersStay
  <2> QED
    BY <1>5, <2>1
<1>12. ASSUME UNCHANGED <<jitting, pc>>
       PROVE  c \in Open(t)' /\ Method(t, c)' = Method(t, c)
  BY <1>5, <1>12
<1>13. ASSUME ~(\E u \in Threads : Callback(u))
       PROVE  UNCHANGED <<jitting, pc>>
  BY <1>13 DEF Next, FunctionUnloadStarted, AccessFaults, vars
<1>14. ASSUME Callback(t)
       PROVE  \/ c \in Open(t)' /\ Method(t, c)' = Method(t, c)
              \/ c = Len(jitting[t]) /\ SendFinished(t)
  BY <1>6, <1>8, <1>9, <1>10, <1>14 DEF Callback
<1> QED
  BY <1>11, <1>12, <1>13, <1>14

\* What is closed stays closed, and a Finished message closes what the message of
\* its compilation has opened.
LEMMA ClosedStays ==
  ASSUME TypeOK, NEW x \in Messages, log' = Append(log, x), NEW i \in 1..Len(log)
  PROVE  /\ Closed(i) => Closed(i)'
         /\ x.type = "FINISHED" /\ Opens(i, Len(log))' => Closed(i)'
<1>1. /\ Len(log) \in Nat /\ Len(log') = Len(log) + 1 /\ log'[Len(log) + 1] = x
      /\ \A k \in 1..Len(log) : log'[k] = log[k]
  BY Longer DEF TypeOK
<1>2. ASSUME Closed(i) PROVE Closed(i)'
  <2>1. PICK j \in 1..Len(log) : log[j].type = "FINISHED" /\ Opens(i, j)
    BY <1>2 DEF Closed
  <2>2. Opens(i, j)'
    BY <2>1, OpensStays
  <2>3. j \in 1..Len(log') /\ log'[j] = log[j]
    BY <1>1
  <2> QED
    BY <2>1, <2>2, <2>3 DEF Closed
<1>3. ASSUME x.type = "FINISHED", Opens(i, Len(log))' PROVE Closed(i)'
  <2>1. Len(log') \in 1..Len(log') /\ log'[Len(log')] = x
    BY <1>1
  <2> QED
    BY <1>3, <2>1 DEF Closed
<1> QED
  BY <1>2, <1>3

\* No step loses a Started message: what it announced is open, until closed.
LEMMA AccountedStep ==
  ASSUME IInv, KeepsData, Reported, Cached, Accounted, [Next]_vars, ~raced'
  PROVE  Accounted'
<1> SUFFICES ASSUME NEW i \in 1..Len(log'), log'[i].type = "STARTED"
             PROVE  Closed(i)' \/ Pending(i)'
  BY DEF Accounted
<1>0. /\ TypeOK /\ Stacks /\ log \in Seq(Messages) /\ Len(log) \in Nat
      /\ \A t \in Threads : Len(jitting[t]) \in Nat
  BY LenProperties DEF IInv, TypeOK
\* A compilation that stays open is still announced.
<1>1. ASSUME i \in 1..Len(log), Pending(i), log'[i] = log[i],
             log[i].depth \in Open(log[i].thread)',
             Method(log[i].thread, log[i].depth)' = log[i].about,
             DeeperSince(i, log[i].thread)'
      PROVE  Pending(i)'
  BY <1>1 DEF Pending, Reportable, Method
<1>2. CASE Quiet
  <2>1. log' = log
    BY <1>2 DEF Quiet
  <2>2. CASE Closed(i)
    BY <2>1, <2>2 DEF Closed, Opens, Is
  <2>3. CASE Pending(i)
    <3>1. PICK u \in Threads, c \in Nat : u = log[i].thread /\ c = log[i].depth
      <4>1. i \in 1..Len(log)
        BY <2>1
      <4>2. log[i] \in Messages
        BY <1>0, <4>1, ElementOfSeq
      <4> QED
        BY <4>2 DEF Messages
    <3>2. ~SendFinished(u)
      <4> SUFFICES ASSUME SendFinished(u) PROVE FALSE
        OBVIOUS
      <4>1. PICK x \in Messages : log' = Append(log, x)
        BY <1>0, <3>1, Typed DEF SendFinished, Stacks, TypeOK
      <4>2. Len(log') = Len(log) + 1
        BY <1>0, <4>1, Longer
      <4> QED
        BY <1>0, <2>1, <4>2
    <3>3. c \in Open(u) /\ Reportable(Method(u, c)) /\ Method(u, c) = log[i].about
      BY <2>3, <3>1 DEF Pending
    <3>4. c \in Open(u)' /\ Method(u, c)' = Method(u, c)
      BY <3>2, <3>3, OpenStays
    <3>5. DeeperSince(i, log[i].thread)'
      BY <2>1, <2>3 DEF Pending, DeeperSince
    <3>6. i \in 1..Len(log) /\ log'[i] = log[i]
      BY <2>1
    <3> QED
      BY <1>1, <2>3, <3>1, <3>3, <3>4, <3>5, <3>6
  <2> QED
    BY <2>1, <2>2, <2>3 DEF Accounted
\* A step that sends x about a compilation of thread t at depth n.
<1>3. ASSUME NEW t \in Threads, NEW n \in Nat, NEW x \in Messages, log' = Append(log, x),
             x.thread = t, x.about = Method(t, n), x.depth = n, n = Len(jitting[t]),
             x.type = "STARTED" => Announces(t), x.type = "FINISHED" => Finishes(t)
      PROVE  Closed(i)' \/ Pending(i)'
  <2>1. /\ Len(log') = Len(log) + 1 /\ log'[Len(log) + 1] = x
        /\ \A k \in 1..Len(log) : log'[k] = log[k]
    BY <1>0, <1>3, Longer
  <2>2. CASE i \in 1..Len(log) /\ Closed(i)
    BY <1>0, <1>3, <2>2, ClosedStays
  <2>3. CASE i \in 1..Len(log) /\ Pending(i)
    <3>1. PICK u \in Threads, c \in Nat :
            u = log[i].thread /\ c = log[i].depth /\ log'[i] = log[i] /\ log[i].type = "STARTED"
      <4>1. log[i] \in Messages
        BY <1>0, <2>3, ElementOfSeq
      <4>2. log'[i] = log[i]
        BY <2>1, <2>3
      <4> QED
        BY <4>1, <4>2 DEF Messages
    <3>2. /\ c \in Open(u) /\ Method(u, c) = log[i].about /\ Reportable(Method(u, c))
          /\ DeeperSince(i, u)
      BY <2>3, <3>1 DEF Pending
    <3>3. CASE c \in Open(u)' /\ Method(u, c)' = Method(u, c)
      <4>1. ASSUME u = t PROVE n > c
        <5>1. CASE x.type = "STARTED"
          <6>1. c \in 1..(n - 1)
            BY <1>3, <3>2, <4>1, <5>1 DEF Announces
          <6> QED
            BY <6>1
        <5>2. CASE x.type = "FINISHED"
          <6>1. c < n
            BY <1>3, <3>3, <4>1, <5>2 DEF Finishes
          <6> QED
            BY <6>1
        <5> QED
          BY <5>1, <5>2 DEF Messages
      <4>2. DeeperSince(i, u)'
        BY <1>0, <1>3, <2>3, <3>1, <3>2, <4>1, DeeperStays
      <4> QED
        BY <1>1, <2>3, <3>1, <3>2, <3>3, <4>2
    <3>4. CASE c = Len(jitting[u]) /\ SendFinished(u)
      <4>1. PICK y \in Messages : /\ log' = Append(log, y)
                                  /\ y.type = "FINISHED" /\ y.thread = u
        <5>1. Message("FINISHED", u, func[u]) \in Messages
          BY <1>0, <3>4, Typed DEF SendFinished, Stacks, TypeOK
        <5> QED
          BY <3>4, <5>1 DEF SendFinished, Message
      <4>2. log'[Len(log) + 1] = y
        BY <1>0, <4>1, Longer
      <4>3. x.type = "FINISHED" /\ u = t /\ c = n
        BY <1>3, <2>1, <3>4, <4>1, <4>2
      <4>4. Is(i, "STARTED", x.thread, x.about) /\ log[i].depth = x.depth
        BY <1>3, <3>1, <3>2, <4>3 DEF Is
      <4>5. Opens(i, Len(log))'
        BY <1>0, <1>3, <2>3, <3>2, <4>3, <4>4, OpensNew
      <4> QED
        BY <1>0, <1>3, <2>3, <4>3, <4>5, ClosedStays
    <3> QED
      BY <3>2, <3>3, <3>4, OpenStays
  <2>4. CASE i = Len(log) + 1
    <3>1. Announces(t) /\ log'[i] = x
      BY <1>3, <2>1, <2>4
    <3>2. n \in Open(t)' /\ Method(t, n)' = Method(t, n)
      BY <1>3, <3>1 DEF Announces
    <3>3. Reportable(Method(t, n))
      BY <1>3, <3>1 DEF Announces, Reported, InStarted, Method, Current
    <3>4. (i + 1)..Len(log') = {}
      BY <1>0, <2>1, <2>4
    <3> QED
      BY <1>3, <3>1, <3>2, <3>3, <3>4 DEF Pending, Reportable, DeeperSince, Method
  <2> QED
    BY <1>0, <2>1, <2>2, <2>3, <2>4 DEF Accounted
<1>4. ASSUME NEW t \in Threads, Announces(t) \/ Finishes(t)
      PROVE  Closed(i)' \/ Pending(i)'
  <2>1. PICK type \in {"STARTED", "FINISHED"} :
          /\ log' = Append(log, Message(type, t, func[t])) /\ jitting[t] # <<>>
          /\ type = "STARTED" => Announces(t)
          /\ type = "FINISHED" => Finishes(t)
    BY <1>4 DEF Announces, Finishes
  <2>2. PICK x \in Messages : x = Message(type, t, func[t])
    BY <1>0, <2>1, Typed DEF TypeOK
  <2>3. PICK n \in Nat : n = Len(jitting[t])
    BY <1>0
  <2>4. x.type = type /\ x.thread = t /\ x.about = Method(t, n) /\ x.depth = n
    BY <2>2, <2>3 DEF Message, Method, Current
  <2> QED
    BY <1>3, <2>1, <2>2, <2>3, <2>4
<1> QED
  BY <1>0, <1>2, <1>4, StepSorted

\* Without a race, every reported compilation a thread has left behind is
\* closed, if ids fit an int and every traced method has metadata.
THEOREM PairsAreMatched == Spec => []PairsMatch
<1>1. ASSUME KeepsData PROVE Init => PairInv
  <2> SUFFICES ASSUME Init PROVE PairInv
    OBVIOUS
  <2>1. Reported
    BY DEF Init, Reported, InStarted
  <2>2. Cached
    BY NoMethodAssumption DEF Init, Cached, Open, InStarted
  <2>3. Accounted
    BY DEF Init, Accounted
  <2> QED
    BY <2>1, <2>2, <2>3 DEF PairInv
<1>2. ASSUME KeepsData PROVE IInv /\ PairInv /\ [Next]_vars => PairInv'
  <2> SUFFICES ASSUME IInv, PairInv, [Next]_vars PROVE PairInv'
    OBVIOUS
  <2>1. Reported'
    BY ReportedStep DEF PairInv
  <2>2. ASSUME ~raced' PROVE Cached' /\ Accounted'
    <3>1. Reported /\ Cached /\ Accounted
      BY <2>2, RacedStays DEF PairInv, IInv
    <3> QED
      BY <1>2, <2>2, <3>1, CachedStep, AccountedStep
  <2> QED
    BY <2>1, <2>2 DEF PairInv
<1>3. IInv /\ PairInv => PairsMatch
  <2> SUFFICES ASSUME IInv, PairInv, ~raced, NEW t \in Threads, jitting[t] = <<>>,
                      NEW i \in 1..Len(log), log[i].thread = t, log[i].type = "STARTED"
               PROVE  Closed(i)
    BY DEF PairsMatch
  <2>1. Open(t) = {}
    BY DEF Open
  <2> QED
    BY <2>1 DEF PairInv, Accounted, Pending
<1>4. ~KeepsData => PairsMatch
  BY DEF KeepsData, PairsMatch
<1>5. CASE KeepsData
  BY <1>1, <1>2, <1>3, <1>5, Inductive, PTL DEF Spec
<1>6. CASE ~KeepsData
  BY <1>4, <1>6, PTL
<1> QED
  BY <1>5, <1>6

-----------------------------------------------------------------------------
(* What messages are about, where ids fit an int and are used once.        *)

\* No conversion of an id loses it, and no id is used again.
IdsAreMethods == MaxUses = 0 /\ \A f \in FunctionIds : Key(f) = f

\* An entry of the cache is empty or the reported method of its id.
CacheOK ==
  \A k \in Keys : mFuncMap[k] \notin {Unmapped, Null} =>
    mFuncMap[k] = MethodOf(k) /\ Reportable(MethodOf(k))

\* In a callback that will send, the method is reported; what is fetched or
\* found is its data.
CallbackOK ==
  \A t \in Threads :
    /\ pc[t] \in InStarted \cup {"sendFinished"} => Reportable(MethodOf(Current(t)))
    /\ pc[t] = "fetch" => func[t] = Null
    /\ pc[t] \in {"insert", "sendStarted", "sendFinished"} =>
         func[t] \in {Null, MethodOf(Current(t))}

\* A message is about a reported method, with its data or none.
LogOK ==
  \A j \in 1..Len(log) :
    Reportable(log[j].about) /\ log[j].data \in {Null, log[j].about}

AboutInv == CacheOK /\ CallbackOK /\ LogOK

\* No step mixes up the methods.
LEMMA AboutStep ==
  ASSUME IdsAreMethods, IInv, AboutInv, [Next]_vars
  PROVE  AboutInv'
<1>1. TypeOK /\ Stacks /\ TypeOK'
  BY TypeStep DEF IInv
<1>2. /\ \A k \in Keys : MethodOf(k)' = MethodOf(k)
      /\ \A f \in FunctionIds : f \in Keys /\ Key(f) = f /\ MethodOf(f)' = MethodOf(f)
  <2>1. \A f \in FunctionIds : uses[f] = 0 /\ uses'[f] = 0
    BY <1>1 DEF IdsAreMethods, TypeOK
  <2>2. Keys = FunctionIds
    BY DEF Keys, IdsAreMethods
  <2> QED
    BY <2>1, <2>2 DEF MethodOf, IdsAreMethods
<1>3. ASSUME NEW t \in Threads, jitting[t] # <<>>
      PROVE  Current(t) \in FunctionIds /\ Current(t) \in Keys /\ Key(Current(t)) = Current(t)
  BY <1>1, <1>2, <1>3, Typed
<1>4. ASSUME NEW t \in Threads, jitting[t] # <<>>, jitting'[t] = jitting[t]
      PROVE  Current(t)' = Current(t) /\ MethodOf(Current(t))' = MethodOf(Current(t))
  BY <1>2, <1>3, <1>4 DEF Current
<1>5. ASSUME mFuncMap' = mFuncMap PROVE CacheOK'
  BY <1>2, <1>5 DEF AboutInv, CacheOK
<1>6. ASSUME log' = log PROVE LogOK'
  BY <1>6 DEF AboutInv, LogOK
\* Only thread t moves.
<1>7. ASSUME NEW t \in Threads,
             \A u \in Threads \ {t} :
               jitting'[u] = jitting[u] /\ pc'[u] = pc[u] /\ func'[u] = func[u],
             pc'[t] \in InStarted \cup {"sendFinished"} => Reportable(MethodOf(Current(t)))',
             pc'[t] = "fetch" => func'[t] = Null,
             pc'[t] \in {"insert", "sendStarted", "sendFinished"} =>
               func'[t] \in {Null, MethodOf(Current(t))'}
      PROVE  CallbackOK'
  <2>1. ASSUME NEW u \in Threads, u # t
        PROVE  /\ pc'[u] \in InStarted \cup {"sendFinished"} => Reportable(MethodOf(Current(u)))'
               /\ pc'[u] = "fetch" => func'[u] = Null
               /\ pc'[u] \in {"insert", "sendStarted", "sendFinished"} =>
                    func'[u] \in {Null, MethodOf(Current(u))'}
    <3>1. jitting'[u] = jitting[u] /\ pc'[u] = pc[u] /\ func'[u] = func[u]
      BY <1>7, <2>1
    <3>2. pc[u] # "managed" => MethodOf(Current(u))' = MethodOf(Current(u))
      BY <1>1, <1>4, <3>1 DEF Stacks
    <3>3. /\ pc[u] \in InStarted \cup {"sendFinished"} => Reportable(MethodOf(Current(u)))
          /\ pc[u] = "fetch" => func[u] = Null
          /\ pc[u] \in {"insert", "sendStarted", "sendFinished"} =>
               func[u] \in {Null, MethodOf(Current(u))}
      BY DEF AboutInv, CallbackOK
    <3> QED
      BY <3>1, <3>2, <3>3 DEF InStarted, Reportable
  <2> QED
    BY <1>7, <2>1 DEF CallbackOK
\* A message about a reported method with its data or none may be added.
<1>8. ASSUME NEW x \in Messages, log' = Append(log, x),
             Reportable(x.about), x.data \in {Null, x.about}
      PROVE  LogOK'
  <2>1. /\ Len(log') = Len(log) + 1 /\ log'[Len(log) + 1] = x /\ Len(log) \in Nat
        /\ \A k \in 1..Len(log) : log'[k] = log[k]
    BY <1>1, <1>8, Longer DEF TypeOK
  <2>2. \A j \in 1..Len(log') : j \in 1..Len(log) \/ j = Len(log) + 1
    BY <2>1
  <2> QED
    BY <1>8, <2>1, <2>2 DEF AboutInv, LogOK
\* What a search for a method finds is nothing or the method.
<1>9. ASSUME NEW t \in Threads, jitting[t] # <<>>, NEW v \in Found(Key(Current(t)))
      PROVE  /\ v \in {Unmapped, Null, MethodOf(Current(t))}
             /\ v \notin {Unmapped, Null} => Reportable(MethodOf(Current(t)))
             /\ mFuncMap' = Searched(Key(Current(t)), v) => CacheOK'
  <2> DEFINE k == Current(t)
  <2>1. k \in Keys /\ Key(k) = k
    BY <1>3, <1>9
  <2> HIDE DEF k
  <2>2. v \in {mFuncMap[k], Unmapped, Null}
    BY <1>9, <2>1 DEF Found, k
  <2>3. mFuncMap[k] \notin {Unmapped, Null} => mFuncMap[k] = MethodOf(k) /\ Reportable(MethodOf(k))
    BY <2>1 DEF AboutInv, CacheOK
  <2>4. ASSUME mFuncMap' = Searched(k, v), NEW c \in Keys
        PROVE  mFuncMap'[c] \in {mFuncMap[c], Null}
    BY <1>1, <2>4 DEF Searched, TypeOK
  <2>5. mFuncMap' = Searched(k, v) => CacheOK'
    BY <1>2, <2>4 DEF AboutInv, CacheOK
  <2> QED
    BY <2>1, <2>2, <2>3, <2>5 DEF k
<1>10. ASSUME NEW t \in Threads, NEW f \in FunctionIds, JITCompilationStarted(t, f)
       PROVE  AboutInv'
  <2>1. Current(t)' = f
    BY <1>1, <1>10, Pushed DEF JITCompilationStarted
  <2>2. /\ pc'[t] = IF Reportable(MethodOf(f)) THEN "lookup" ELSE "managed"
        /\ \A u \in Threads \ {t} : jitting'[u] = jitting[u] /\ pc'[u] = pc[u] /\ func'[u] = func[u]
    BY <1>1, <1>10 DEF JITCompilationStarted, BeginAccess, TypeOK
  <2>3. CallbackOK'
    BY <1>2, <1>7, <2>1, <2>2 DEF InStarted
  <2> QED
    BY <1>5, <1>6, <1>10, <2>3 DEF JITCompilationStarted, AboutInv
<1>11. ASSUME NEW t \in Threads, EndLookup(t)
       PROVE  AboutInv'
  <2>1. /\ jitting[t] # <<>> /\ jitting' = jitting /\ log' = log
        /\ Reportable(MethodOf(Current(t)))
    BY <1>1, <1>11 DEF EndLookup, Stacks, AboutInv, CallbackOK, InStarted
  <2>2. PICK v \in Found(Key(Current(t))) :
          /\ mFuncMap' = Searched(Key(Current(t)), v)
          /\ func' = [func EXCEPT ![t] = IF v = Unmapped THEN Null ELSE v]
          /\ pc' = [pc EXCEPT ![t] = IF v = Unmapped THEN "fetch" ELSE "sendStarted"]
    BY <1>11 DEF EndLookup
  <2>3. v \in {Unmapped, Null, MethodOf(Current(t))} /\ CacheOK'
    BY <1>9, <2>1, <2>2
  <2>4. /\ pc'[t] \in {"fetch", "sendStarted"} /\ func'[t] \in {Null, MethodOf(Current(t))}
        /\ pc'[t] = "fetch" => func'[t] = Null
        /\ \A u \in Threads \ {t} : pc'[u] = pc[u] /\ func'[u] = func[u]
    BY <1>1, <2>2, <2>3 DEF TypeOK
  <2>5. CallbackOK'
    BY <1>4, <1>7, <2>1, <2>4
  <2> QED
    BY <1>6, <2>1, <2>3, <2>5 DEF AboutInv
<1>12. ASSUME NEW t \in Threads, Fetch(t)
       PROVE  AboutInv'
  <2>1. /\ jitting[t] # <<>> /\ jitting' = jitting /\ log' = log /\ mFuncMap' = mFuncMap
        /\ Reportable(MethodOf(Current(t))) /\ func[t] = Null
    BY <1>1, <1>12 DEF Fetch, Stacks, AboutInv, CallbackOK, InStarted
  <2>2. /\ pc'[t] \in {"insert", "sendStarted"} /\ func'[t] \in {Null, MethodOf(Current(t))}
        /\ \A u \in Threads \ {t} : pc'[u] = pc[u] /\ func'[u] = func[u]
    <3> DEFINE f == Current(t)
    <3>1. Key(f) = f
      BY <1>3, <2>1
    <3>2. pc \in [Threads -> Steps] /\ func \in [Threads -> Entries]
      BY <1>1 DEF TypeOK
    <3>3. CASE f \in FunctionIds /\ MethodOf(f) \notin NoMetadata
      <4>1. func' = [func EXCEPT ![t] = MethodOf(f)] /\ pc' = [pc EXCEPT ![t] = "insert"]
        BY <1>12, <3>1, <3>3 DEF Fetch, BeginAccess
      <4> QED
        BY <3>2, <4>1
    <3>4. CASE ~(f \in FunctionIds /\ MethodOf(f) \notin NoMetadata)
      <4>1. func' = func /\ pc' = [pc EXCEPT ![t] = "sendStarted"]
        BY <1>12, <3>1, <3>4 DEF Fetch
      <4> QED
        BY <2>1, <3>2, <4>1
    <3> QED
      BY <3>3, <3>4
  <2>3. CallbackOK'
    BY <1>4, <1>7, <2>1, <2>2
  <2> QED
    BY <1>5, <1>6, <2>1, <2>3 DEF AboutInv
<1>13. ASSUME NEW t \in Threads, EndInsert(t)
       PROVE  AboutInv'
  <2>1. /\ jitting[t] # <<>> /\ UNCHANGED <<jitting, log, func>>
        /\ Reportable(MethodOf(Current(t))) /\ func[t] \in {Null, MethodOf(Current(t))}
    BY <1>1, <1>13 DEF EndInsert, Stacks, AboutInv, CallbackOK, InStarted
  <2>2. pc'[t] = "sendStarted" /\ \A u \in Threads \ {t} : pc'[u] = pc[u]
    BY <1>1, <1>13 DEF EndInsert, TypeOK
  <2>3. CallbackOK'
    BY <1>4, <1>7, <2>1, <2>2
  <2>4. Current(t) \in Keys /\ mFuncMap' \in cacheFunction(Current(t), func[t])
    BY <1>3, <1>13, <2>1 DEF EndInsert
  <2>5. ASSUME NEW c \in Keys
        PROVE  mFuncMap'[c] \in {mFuncMap[c], Unmapped} \/ (c = Current(t) /\ mFuncMap'[c] = func[t])
    BY <1>1, <2>4 DEF cacheFunction, Damaged, TypeOK
  <2>6. CacheOK'
    BY <1>2, <2>1, <2>5 DEF AboutInv, CacheOK
  <2> QED
    BY <1>6, <2>1, <2>3, <2>6 DEF AboutInv
<1>14. ASSUME NEW t \in Threads, SendStarted(t) \/ SendFinished(t)
       PROVE  AboutInv'
  <2>1. /\ jitting[t] # <<>> /\ mFuncMap' = mFuncMap
        /\ Reportable(MethodOf(Current(t))) /\ func[t] \in {Null, MethodOf(Current(t))}
    BY <1>1, <1>14 DEF SendStarted, SendFinished, Stacks, AboutInv, CallbackOK, InStarted
  <2>2. /\ pc'[t] = "managed"
        /\ \A u \in Threads \ {t} :
             jitting'[u] = jitting[u] /\ pc'[u] = pc[u] /\ func'[u] = func[u]
    BY <1>1, <1>14 DEF SendStarted, SendFinished, Pop, TypeOK
  <2>3. CallbackOK'
    BY <1>7, <2>2 DEF InStarted
  <2>4. PICK type \in {"STARTED", "FINISHED"} : log' = Append(log, Message(type, t, func[t]))
    BY <1>14 DEF SendStarted, SendFinished
  <2>5. Message(type, t, func[t]) \in Messages
    BY <1>1, <2>1, Typed DEF TypeOK
  <2>6. /\ Message(type, t, func[t]).about = MethodOf(Current(t))
        /\ Message(type, t, func[t]).data = func[t]
    BY DEF Message
  <2>7. LogOK'
    BY <1>8, <2>1, <2>4, <2>5, <2>6
  <2> QED
    BY <1>5, <2>1, <2>3, <2>7 DEF AboutInv
<1>15. ASSUME NEW t \in Threads, JITCompilationFinished(t)
       PROVE  AboutInv'
  <2>1. /\ UNCHANGED <<jitting, func, mFuncMap, log>> /\ pc'[t] = "get"
        /\ \A u \in Threads \ {t} : pc'[u] = pc[u]
    BY <1>1, <1>15 DEF JITCompilationFinished, BeginAccess, TypeOK
  <2>2. CallbackOK'
    BY <1>7, <2>1 DEF InStarted
  <2> QED
    BY <1>5, <1>6, <2>1, <2>2 DEF AboutInv
<1>16. ASSUME NEW t \in Threads, EndGet(t)
       PROVE  AboutInv'
  <2>1. jitting[t] # <<>> /\ log' = log
    BY <1>1, <1>16 DEF EndGet, Stacks
  <2>2. PICK v \in Found(Key(Current(t))) :
          /\ mFuncMap' = Searched(Key(Current(t)), v)
          /\ IF v \in {Unmapped, Null}
             THEN /\ pc' = [pc EXCEPT ![t] = "managed"]
                  /\ jitting' = Pop(t)
                  /\ UNCHANGED func
             ELSE /\ pc' = [pc EXCEPT ![t] = "sendFinished"]
                  /\ func' = [func EXCEPT ![t] = v]
                  /\ UNCHANGED jitting
    BY <1>16 DEF EndGet
  <2>3. /\ v \in {Unmapped, Null, MethodOf(Current(t))}
        /\ v \notin {Unmapped, Null} => Reportable(MethodOf(Current(t)))
        /\ CacheOK'
    BY <1>9, <2>1, <2>2
  <2>4. \A u \in Threads \ {t} : jitting'[u] = jitting[u] /\ pc'[u] = pc[u] /\ func'[u] = func[u]
    BY <1>1, <2>2 DEF Pop, TypeOK
  <2>5. \/ pc'[t] = "managed"
        \/ /\ pc'[t] = "sendFinished" /\ func'[t] = MethodOf(Current(t))
           /\ jitting' = jitting /\ Reportable(MethodOf(Current(t)))
    BY <1>1, <2>2, <2>3 DEF TypeOK
  <2>6. CallbackOK'
    BY <1>4, <1>7, <2>1, <2>4, <2>5 DEF InStarted
  <2> QED
    BY <1>6, <2>1, <2>3, <2>6 DEF AboutInv
<1>17. ASSUME UNCHANGED <<jitting, pc, func, mFuncMap, log>>
       PROVE  AboutInv'
  <2>1. \A u \in Threads : pc[u] # "managed" => MethodOf(Current(u))' = MethodOf(Current(u))
    BY <1>1, <1>4, <1>17 DEF Stacks
  <2>2. CallbackOK'
    BY <1>17, <2>1 DEF AboutInv, CallbackOK, InStarted, Reportable
  <2> QED
    BY <1>5, <1>6, <1>17, <2>2 DEF AboutInv
<1>18. ASSUME NEW f \in FunctionIds, FunctionUnloadStarted(f) PROVE AboutInv'
  BY <1>17, <1>18 DEF FunctionUnloadStarted
<1>19. AccessFaults \/ UNCHANGED vars => AboutInv'
  BY <1>17 DEF AccessFaults, vars
<1> QED
  BY <1>10, <1>11, <1>12, <1>13, <1>14, <1>15, <1>16, <1>18, <1>19 DEF Next, Callback

\* Nothing has been said at the start.
LEMMA StartsSilent == Init => AboutInv
<1> SUFFICES ASSUME Init PROVE AboutInv
  OBVIOUS
<1>1. CacheOK /\ CallbackOK
  BY DEF Init, CacheOK, CallbackOK, InStarted
<1>2. Len(log) = 0
  BY DEF Init
<1> QED
  BY <1>1, <1>2 DEF AboutInv, LogOK

\* Where ids fit an int and are used once, messages are of traced methods only
\* and carry no other method's data, though threads race over the cache.
THEOREM MessagesAreTrue ==
  ASSUME IdsAreMethods PROVE Spec => []OnlyTraced /\ []NamesItsMethod
<1>1. Init => AboutInv
  BY StartsSilent
<1>2. IInv /\ AboutInv /\ [Next]_vars => AboutInv'
  BY AboutStep
<1>3. AboutInv => OnlyTraced /\ NamesItsMethod
  BY DEF AboutInv, LogOK, OnlyTraced, NamesItsMethod
<1> QED
  BY <1>1, <1>2, <1>3, Inductive, PTL DEF Spec

\* The settings decide what is reported, though the Finished callback does not
\* ask them: it relies on what the cache holds.
THEOREM OnlyTracedReported ==
  ASSUME IdsAreMethods PROVE Spec => []OnlyTraced
BY MessagesAreTrue, PTL

-----------------------------------------------------------------------------
(* The data of the two messages of a compilation, where ids fit an int and *)
(* are used once.                                                          *)

\* The data of a method that has none is not cached, and without a race no
\* entry is an empty pointer.
CacheNamed ==
  /\ \A k \in Keys : Mapped(k) => MethodOf(k) \notin NoMetadata
  /\ ~raced => \A k \in Keys : mFuncMap[k] # Null

\* A callback caches and finds data of methods that have them; without a race
\* only the others are announced without.
CallNamed(t) ==
  /\ pc[t] \in {"insert", "sendFinished"} =>
       func[t] # Null /\ MethodOf(Current(t)) \notin NoMetadata
  /\ ~raced /\ pc[t] = "sendStarted" /\ func[t] = Null =>
       MethodOf(Current(t)) \in NoMetadata

\* A Finished message has data; without a race a Started message has, if its
\* method does.
EntryNamed(x, r) ==
  /\ x.type = "FINISHED" => x.data # Null /\ x.about \notin NoMetadata
  /\ ~r /\ x.type = "STARTED" /\ x.data = Null => x.about \in NoMetadata

LogNamed == \A j \in 1..Len(log) : EntryNamed(log[j], raced)

DataInv == CacheNamed /\ (\A t \in Threads : CallNamed(t)) /\ LogNamed

\* Only an insertion of its method fills an empty entry of the cache.
LEMMA EmptyStays ==
  ASSUME TypeOK, Stacks, [Next]_vars, NEW k \in Keys, ~Mapped(k),
         \A t \in Threads : pc[t] = "insert" => Key(Current(t)) # k
  PROVE  ~Mapped(k)'
<1>1. ASSUME mFuncMap' = mFuncMap PROVE ~Mapped(k)'
  BY <1>1 DEF Mapped
<1>2. ASSUME NEW c, NEW v, mFuncMap' = Searched(c, v) PROVE ~Mapped(k)'
  BY <1>2 DEF Searched, Mapped, TypeOK
<1>3. ASSUME NEW t \in Threads, EndInsert(t) PROVE ~Mapped(k)'
  <2>1. /\ Key(Current(t)) # k
        /\ mFuncMap' \in cacheFunction(Key(Current(t)), func[t])
    BY <1>3 DEF EndInsert
  <2>2. mFuncMap'[k] \in {mFuncMap[k], Unmapped}
    BY <2>1 DEF cacheFunction, Damaged, TypeOK
  <2> QED
    BY <2>2 DEF Mapped
<1>4. ASSUME NEW t \in Threads, EndLookup(t) \/ EndGet(t) PROVE ~Mapped(k)'
  BY <1>2, <1>4 DEF EndLookup, EndGet
<1>5. ASSUME NEW t \in Threads, Callback(t), ~EndInsert(t), ~EndLookup(t), ~EndGet(t)
      PROVE  ~Mapped(k)'
  BY <1>1, <1>5 DEF Callback, JITCompilationStarted, Fetch, SendStarted, JITCompilationFinished,
                    SendFinished
<1> QED
  BY <1>1, <1>3, <1>4, <1>5 DEF Next, FunctionUnloadStarted, AccessFaults, vars

\* Without a race no step puts an empty pointer into the cache.
LEMMA NoEmptyStep ==
  ASSUME TypeOK, Stacks, DataInv, [Next]_vars, ~raced', NEW k \in Keys
  PROVE  mFuncMap'[k] # Null
<1>1. ~raced /\ \A c \in Keys : mFuncMap[c] # Null
  BY RacedStays DEF DataInv, CacheNamed
<1>2. ASSUME NEW t \in Threads, jitting[t] # <<>> PROVE Key(Current(t)) \in Keys
  BY <1>2, Typed
<1>3. ASSUME NEW t \in Threads, EndLookup(t) \/ EndGet(t) PROVE mFuncMap' = mFuncMap
  <2>1. Key(Current(t)) \in Keys
    BY <1>2, <1>3 DEF EndLookup, EndGet, Stacks
  <2>2. \A v \in Found(Key(Current(t))) : Searched(Key(Current(t)), v) = mFuncMap
    BY <1>1, <2>1 DEF Found, Searched
  <2> QED
    BY <1>3, <2>2 DEF EndLookup, EndGet
<1>4. ASSUME NEW t \in Threads, EndInsert(t) PROVE mFuncMap'[k] # Null
  <2>1. func[t] # Null /\ mFuncMap' \in cacheFunction(Key(Current(t)), func[t])
    BY <1>4 DEF EndInsert, DataInv, CallNamed
  <2>2. mFuncMap'[k] \in {mFuncMap[k], func[t]}
    BY <1>1, <2>1 DEF cacheFunction, TypeOK
  <2> QED
    BY <1>1, <2>1, <2>2
<1>5. ASSUME NEW t \in Threads, Callback(t), ~EndInsert(t), ~EndLookup(t), ~EndGet(t)
      PROVE  mFuncMap' = mFuncMap
  BY <1>5 DEF Callback, JITCompilationStarted, Fetch, SendStarted, JITCompilationFinished,
              SendFinished
<1> QED
  BY <1>1, <1>3, <1>4, <1>5 DEF Next, FunctionUnloadStarted, AccessFaults, vars

\* What a step adds to the log.
LEMMA LogSteps ==
  ASSUME TypeOK, Stacks, [Next]_vars
  PROVE  \/ log' = log
         \/ \E t \in Threads :
              \/ /\ pc[t] = "sendStarted" /\ jitting[t] # <<>>
                 /\ log' = Append(log, Message("STARTED", t, func[t]))
              \/ /\ pc[t] = "sendFinished" /\ jitting[t] # <<>>
                 /\ log' = Append(log, Message("FINISHED", t, func[t]))
<1>1. ASSUME NEW t \in Threads, SendStarted(t)
      PROVE  /\ pc[t] = "sendStarted" /\ jitting[t] # <<>>
             /\ log' = Append(log, Message("STARTED", t, func[t]))
  BY <1>1 DEF SendStarted, Stacks
<1>2. ASSUME NEW t \in Threads, SendFinished(t)
      PROVE  /\ pc[t] = "sendFinished" /\ jitting[t] # <<>>
             /\ log' = Append(log, Message("FINISHED", t, func[t]))
  BY <1>2 DEF SendFinished, Stacks
<1>3. ASSUME NEW t \in Threads, Callback(t), ~SendStarted(t), ~SendFinished(t)
      PROVE  log' = log
  BY <1>3 DEF Callback, JITCompilationStarted, EndLookup, Fetch, EndInsert,
              JITCompilationFinished, EndGet
<1> QED
  BY <1>1, <1>2, <1>3 DEF Next, FunctionUnloadStarted, AccessFaults, vars

\* What a callback step of thread t leaves it with.
LEMMA CallNamedStep ==
  ASSUME IdsAreMethods, IInv, AboutInv, DataInv, [Next]_vars, NEW t \in Threads, Callback(t)
  PROVE  CallNamed(t)'
<1>1. TypeOK /\ Stacks /\ (~raced' => ~raced)
  BY RacedStays DEF IInv
<1>2. \A f \in FunctionIds : f \in Keys /\ Key(f) = f /\ MethodOf(f)' = MethodOf(f)
  <2>1. \A f \in FunctionIds : uses[f] = 0 /\ uses'[f] = 0
    BY <1>1, TypeStep DEF IdsAreMethods, TypeOK
  <2> QED
    BY <2>1 DEF MethodOf, IdsAreMethods, Keys
<1>3. ASSUME pc[t] # "managed"
      PROVE  /\ Current(t) \in FunctionIds /\ Current(t) \in Keys /\ Key(Current(t)) = Current(t)
             /\ jitting'[t] = jitting[t] => MethodOf(Current(t))' = MethodOf(Current(t))
  <2>1. Current(t) \in FunctionIds
    BY <1>1, <1>3, Typed DEF Stacks
  <2> QED
    BY <1>2, <2>1 DEF Current
<1>4. ASSUME pc'[t] \notin {"insert", "sendStarted", "sendFinished"} PROVE CallNamed(t)'
  BY <1>4 DEF CallNamed
<1>5. CASE \E f \in FunctionIds : JITCompilationStarted(t, f)
  <2>1. pc'[t] \in {"lookup", "managed"}
    BY <1>1, <1>5 DEF JITCompilationStarted, BeginAccess, TypeOK
  <2> QED
    BY <1>4, <2>1
<1>6. CASE EndLookup(t)
  <2>1. pc[t] = "lookup" /\ raced' = raced
    BY <1>6 DEF EndLookup
  <2>2. PICK v \in Found(Key(Current(t))) :
          /\ func' = [func EXCEPT ![t] = IF v = Unmapped THEN Null ELSE v]
          /\ pc' = [pc EXCEPT ![t] = IF v = Unmapped THEN "fetch" ELSE "sendStarted"]
    BY <1>6 DEF EndLookup
  <2>3. /\ pc'[t] = IF v = Unmapped THEN "fetch" ELSE "sendStarted"
        /\ func'[t] = IF v = Unmapped THEN Null ELSE v
    BY <1>1, <2>2 DEF TypeOK
  <2>4. ~raced => v # Null
    BY <1>3, <2>1, <2>2 DEF Found, DataInv, CacheNamed
  <2> QED
    BY <2>1, <2>3, <2>4 DEF CallNamed
<1>7. CASE Fetch(t)
  <2>1. /\ pc[t] = "fetch" /\ jitting' = jitting
        /\ Current(t) \in FunctionIds /\ Key(Current(t)) = Current(t)
        /\ MethodOf(Current(t))' = MethodOf(Current(t))
    BY <1>3, <1>7 DEF Fetch
  <2>2. CASE MethodOf(Current(t)) \notin NoMetadata
    <3>1. func' = [func EXCEPT ![t] = MethodOf(Current(t))] /\ pc' = [pc EXCEPT ![t] = "insert"]
      BY <1>7, <2>1, <2>2 DEF Fetch, BeginAccess
    <3>2. func'[t] # Null /\ pc'[t] = "insert"
      BY <1>1, <2>1, <3>1, Typed, NoMethodAssumption DEF TypeOK
    <3> QED
      BY <2>1, <2>2, <3>2 DEF CallNamed
  <2>3. CASE MethodOf(Current(t)) \in NoMetadata
    <3>1. pc' = [pc EXCEPT ![t] = "sendStarted"]
      BY <1>7, <2>1, <2>3 DEF Fetch
    <3>2. pc'[t] = "sendStarted"
      BY <1>1, <3>1 DEF TypeOK
    <3> QED
      BY <2>1, <2>3, <3>2 DEF CallNamed
  <2> QED
    BY <2>2, <2>3
<1>8. CASE EndInsert(t)
  <2>1. pc'[t] = "sendStarted" /\ func'[t] # Null
    BY <1>1, <1>8 DEF EndInsert, DataInv, CallNamed, TypeOK
  <2> QED
    BY <2>1 DEF CallNamed
<1>9. CASE SendStarted(t) \/ JITCompilationFinished(t) \/ SendFinished(t)
  <2>1. pc'[t] \in {"get", "managed"}
    BY <1>1, <1>9 DEF SendStarted, JITCompilationFinished, SendFinished, BeginAccess, TypeOK
  <2> QED
    BY <1>4, <2>1
<1>10. CASE EndGet(t)
  <2>1. pc[t] = "get"
    BY <1>10 DEF EndGet
  <2>2. PICK v \in Found(Key(Current(t))) :
          IF v \in {Unmapped, Null}
          THEN pc' = [pc EXCEPT ![t] = "managed"]
          ELSE /\ pc' = [pc EXCEPT ![t] = "sendFinished"]
               /\ func' = [func EXCEPT ![t] = v]
               /\ jitting' = jitting
    BY <1>10 DEF EndGet
  <2>3. CASE v \in {Unmapped, Null}
    <3>1. pc'[t] = "managed"
      BY <1>1, <2>2, <2>3 DEF TypeOK
    <3> QED
      BY <1>4, <3>1
  <2>4. CASE v \notin {Unmapped, Null}
    <3>1. pc'[t] = "sendFinished" /\ func'[t] # Null /\ jitting' = jitting
      BY <1>1, <2>2, <2>4 DEF TypeOK
    <3>2. Mapped(Current(t))
      BY <1>3, <2>1, <2>2, <2>4 DEF Found, Mapped
    <3>3. MethodOf(Current(t)) \notin NoMetadata
      BY <1>3, <2>1, <3>2 DEF DataInv, CacheNamed
    <3> QED
      BY <1>3, <2>1, <3>1, <3>3 DEF CallNamed
  <2> QED
    BY <2>3, <2>4
<1> QED
  BY <1>5, <1>6, <1>7, <1>8, <1>9, <1>10 DEF Callback

\* No step mixes up which messages have data.
LEMMA DataStep ==
  ASSUME IdsAreMethods, IInv, AboutInv, DataInv, [Next]_vars
  PROVE  DataInv'
<1>1. /\ TypeOK /\ Stacks /\ log \in Seq(Messages) /\ Len(log) \in Nat
      /\ ~raced' => ~raced
  BY RacedStays, LenProperties DEF IInv, TypeOK
<1>2. /\ \A k \in Keys : MethodOf(k)' = MethodOf(k)
      /\ \A f \in FunctionIds : Key(f) = f /\ MethodOf(f)' = MethodOf(f)
  <2>1. \A f \in FunctionIds : uses[f] = 0 /\ uses'[f] = 0
    BY <1>1, TypeStep DEF IdsAreMethods, TypeOK
  <2>2. Keys = FunctionIds
    BY DEF Keys, IdsAreMethods
  <2> QED
    BY <2>1, <2>2 DEF MethodOf, IdsAreMethods
<1>3. ASSUME NEW t \in Threads, pc[t] # "managed"
      PROVE  Current(t) \in FunctionIds /\ jitting[t] # <<>>
  BY <1>1, <1>3, Typed DEF Stacks
<1>4. CacheNamed'
  <2>1. ASSUME NEW k \in Keys, Mapped(k)' PROVE MethodOf(k)' \notin NoMetadata
    <3>1. CASE Mapped(k)
      BY <1>2, <3>1 DEF DataInv, CacheNamed
    <3>2. CASE \E t \in Threads : pc[t] = "insert" /\ Key(Current(t)) = k
      BY <1>2, <1>3, <3>2 DEF DataInv, CallNamed
    <3> QED
      BY <1>1, <2>1, <3>1, <3>2, EmptyStays
  <2>2. ~raced' => \A k \in Keys : mFuncMap'[k] # Null
    BY <1>1, NoEmptyStep
  <2> QED
    BY <2>1, <2>2 DEF CacheNamed
<1>5. ASSUME NEW t \in Threads, jitting'[t] = jitting[t], pc'[t] = pc[t], func'[t] = func[t]
      PROVE  CallNamed(t)'
  <2>1. CallNamed(t)
    BY DEF DataInv
  <2>2. pc[t] # "managed" => MethodOf(Current(t))' = MethodOf(Current(t))
    BY <1>2, <1>3, <1>5 DEF Current
  <2> QED
    BY <1>1, <1>5, <2>1, <2>2 DEF CallNamed
<1>6. \A t \in Threads : CallNamed(t)'
  <2>1. CASE \E u \in Threads : Callback(u)
    <3>1. PICK u \in Threads : Callback(u)
      BY <2>1
    <3> QED
      BY <1>1, <1>5, <3>1, CallNamedStep, OthersStay
  <2>2. CASE UNCHANGED <<jitting, pc, func>>
    BY <1>5, <2>2
  <2> QED
    BY <2>1, <2>2 DEF Next, FunctionUnloadStarted, AccessFaults, vars
<1>7. LogNamed'
  <2>1. ASSUME NEW x \in Messages, EntryNamed(x, raced) PROVE EntryNamed(x, raced')
    BY <1>1, <2>1 DEF EntryNamed
  <2>0. \A j \in 1..Len(log) : log[j] \in Messages
    BY <1>1, ElementOfSeq
  <2>2. CASE log' = log
    BY <2>0, <2>1, <2>2 DEF DataInv, LogNamed
  <2>3. ASSUME NEW x \in Messages, log' = Append(log, x), EntryNamed(x, raced)
        PROVE  LogNamed'
    <3>1. /\ Len(log') = Len(log) + 1 /\ log'[Len(log) + 1] = x
          /\ \A k \in 1..Len(log) : log'[k] = log[k]
      BY <1>1, <2>3, Longer
    <3>2. ASSUME NEW j \in 1..Len(log') PROVE EntryNamed(log'[j], raced')
      <4>1. CASE j \in 1..Len(log)
        BY <2>0, <2>1, <3>1, <4>1 DEF DataInv, LogNamed
      <4>2. CASE j = Len(log) + 1
        BY <2>1, <2>3, <3>1, <4>2
      <4> QED
        BY <1>1, <3>1, <4>1, <4>2
    <3> QED
      BY <3>2 DEF LogNamed
  <2>4. ASSUME NEW t \in Threads, jitting[t] # <<>>, NEW type \in {"STARTED", "FINISHED"},
               log' = Append(log, Message(type, t, func[t])),
               pc[t] = IF type = "STARTED" THEN "sendStarted" ELSE "sendFinished"
        PROVE  LogNamed'
    <3>1. Message(type, t, func[t]) \in Messages
      BY <1>1, <2>4, Typed DEF TypeOK
    <3>2. CallNamed(t)
      BY DEF DataInv
    <3>3. EntryNamed(Message(type, t, func[t]), raced)
      BY <2>4, <3>2 DEF EntryNamed, CallNamed, Message
    <3> QED
      BY <2>3, <2>4, <3>1, <3>3
  <2> QED
    BY <1>1, <2>2, <2>4, LogSteps
<1> QED
  BY <1>4, <1>6, <1>7 DEF DataInv

\* Nothing has been said at the start.
LEMMA StartsNamed == Init => DataInv
<1> SUFFICES ASSUME Init PROVE DataInv
  OBVIOUS
<1>1. CacheNamed /\ \A t \in Threads : CallNamed(t)
  BY NoMethodAssumption DEF Init, CacheNamed, CallNamed, Mapped
<1>2. Len(log) = 0
  BY DEF Init
<1> QED
  BY <1>1, <1>2 DEF DataInv, LogNamed
=============================================================================
