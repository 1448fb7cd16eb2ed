---------------------------- MODULE CodecProofs ----------------------------
(***************************************************************************)
(* Proofs about the documents of MessageCodec: whatever one side writes,   *)
(* the other side reads the message that was meant.                        *)
(***************************************************************************)
EXTENDS MessageCodec, SequenceTheorems, TLAPS

\* The values of the two enumerations.
MessageTypes == {"INIT", "TRACER_ERROR", "JIT_COMPILATION_STARTED", "JIT_COMPILATION_FINISHED"}
ErrorCodes == {"SUCCESS", "PIPE_BUSY", "SETTINGS_NOT_FOUND", "SETTINGS_INVALID"}

\* Both sides number the types alike.
LEMMA TypesNumbered ==
  ASSUME NEW x \in MessageTypes
  PROVE  /\ IsNumeral(HostMessageTypes, Numeral(EngineMessageTypes, x))
         /\ Named(HostMessageTypes, Numeral(EngineMessageTypes, x)) = x
<1>1. PICK n \in 1..4 : EngineMessageTypes[n] = x /\ HostMessageTypes[n] = x
  <2>1. /\ EngineMessageTypes[1] = "INIT" /\ HostMessageTypes[1] = "INIT"
        /\ EngineMessageTypes[2] = "TRACER_ERROR" /\ HostMessageTypes[2] = "TRACER_ERROR"
        /\ EngineMessageTypes[3] = "JIT_COMPILATION_STARTED"
        /\ HostMessageTypes[3] = "JIT_COMPILATION_STARTED"
        /\ EngineMessageTypes[4] = "JIT_COMPILATION_FINISHED"
        /\ HostMessageTypes[4] = "JIT_COMPILATION_FINISHED"
    BY DEF EngineMessageTypes, HostMessageTypes
  <2> QED
    BY <2>1 DEF MessageTypes
<1>2. DOMAIN EngineMessageTypes = 1..4 /\ DOMAIN HostMessageTypes = 1..4
  BY DEF EngineMessageTypes, HostMessageTypes
<1>3. \A i, j \in 1..4 : EngineMessageTypes[i] = EngineMessageTypes[j] => i = j
  BY DEF EngineMessageTypes
<1>4. \A i, j \in 1..4 : <<Numerals[i]>> = <<Numerals[j]>> => i = j
  BY DEF Numerals
<1>5. Numeral(EngineMessageTypes, x) = <<Numerals[n]>>
  BY <1>1, <1>2, <1>3 DEF Numeral
<1> QED
  BY <1>1, <1>2, <1>4, <1>5 DEF IsNumeral, Named

\* Both sides number the errors alike, so that each reads the code of the other.
LEMMA ErrorsNumbered ==
  ASSUME NEW x \in ErrorCodes
  PROVE  /\ IsNumeral(HostErrorCodes, Numeral(EngineErrorCodes, x))
         /\ Named(HostErrorCodes, Numeral(EngineErrorCodes, x)) = x
         /\ Named(EngineErrorCodes, Numeral(HostErrorCodes, x)) = x
<1>1. PICK n \in 1..4 : EngineErrorCodes[n] = x /\ HostErrorCodes[n] = x
  <2>1. /\ EngineErrorCodes[1] = "SUCCESS" /\ HostErrorCodes[1] = "SUCCESS"
        /\ EngineErrorCodes[2] = "PIPE_BUSY" /\ HostErrorCodes[2] = "PIPE_BUSY"
        /\ EngineErrorCodes[3] = "SETTINGS_NOT_FOUND"
        /\ HostErrorCodes[3] = "SETTINGS_NOT_FOUND"
        /\ EngineErrorCodes[4] = "SETTINGS_INVALID"
        /\ HostErrorCodes[4] = "SETTINGS_INVALID"
    BY DEF EngineErrorCodes, HostErrorCodes
  <2> QED
    BY <2>1 DEF ErrorCodes
<1>2. DOMAIN EngineErrorCodes = 1..4 /\ DOMAIN HostErrorCodes = 1..4
  BY DEF EngineErrorCodes, HostErrorCodes
<1>3. \A i, j \in 1..4 : EngineErrorCodes[i] = EngineErrorCodes[j] => i = j
  BY DEF EngineErrorCodes
<1>4. \A i, j \in 1..4 : HostErrorCodes[i] = HostErrorCodes[j] => i = j
  BY DEF HostErrorCodes
<1>5. \A i, j \in 1..4 : <<Numerals[i]>> = <<Numerals[j]>> => i = j
  BY DEF Numerals
<1>6. Numeral(EngineErrorCodes, x) = <<Numerals[n]>>
  BY <1>1, <1>2, <1>3 DEF Numeral
<1>7. Numeral(HostErrorCodes, x) = <<Numerals[n]>>
  BY <1>1, <1>2, <1>4 DEF Numeral
<1> QED
  BY <1>1, <1>2, <1>5, <1>6, <1>7 DEF IsNumeral, Named

-----------------------------------------------------------------------------
(* Objects.                                                                *)

\* The names of an object and its values alternate.
LEMMA MembersAlternate ==
  ASSUME NEW pairs, NEW kind, Len(pairs) \in Nat
  PROVE  LET ms == Members(pairs, kind) IN
         /\ Len(ms) = 2 * Len(pairs) /\ DOMAIN ms = 1..(2 * Len(pairs))
         /\ \A n \in 1..Len(pairs) :
              /\ ms[2 * n - 1] = PropertyName(pairs[n][1])
              /\ ms[2 * n] = Token(kind, pairs[n][2])
<1> DEFINE N == Len(pairs)
           ms == Members(pairs, kind)
<1>1. /\ DOMAIN ms = 1..(2 * N)
      /\ \A i \in 1..(2 * N) : ms[i] = IF i % 2 = 1 THEN PropertyName(pairs[(i + 1) \div 2][1])
                                        ELSE Token(kind, pairs[i \div 2][2])
  BY DEF Members
<1>2. Len(ms) = 2 * N
  BY <1>1 DEF Members
<1>3. ASSUME NEW n \in 1..N
      PROVE  /\ 2 * n - 1 \in 1..(2 * N) /\ (2 * n - 1) % 2 = 1 /\ ((2 * n - 1) + 1) \div 2 = n
             /\ 2 * n \in 1..(2 * N) /\ (2 * n) % 2 = 0 /\ (2 * n) \div 2 = n
  OBVIOUS
<1> QED
  BY <1>1, <1>2, <1>3

\* A token at the end of a sequence.
LEMMA Ended ==
  ASSUME NEW T, NEW a \in Seq(T), EndObject \in T
  PROVE  /\ a \o <<EndObject>> \in Seq(T) /\ Len(a \o <<EndObject>>) = Len(a) + 1
         /\ \A i \in 1..Len(a) : (a \o <<EndObject>>)[i] = a[i]
         /\ (a \o <<EndObject>>)[Len(a) + 1] = EndObject
<1> DEFINE end == <<EndObject>>
<1>1. end \in Seq(T) /\ Len(end) = 1 /\ end[1] = EndObject
  OBVIOUS
<1> HIDE DEF end
<1>2. /\ a \o end \in Seq(T) /\ Len(a \o end) = Len(a) + Len(end)
      /\ \A i \in 1..Len(a) + Len(end) : (a \o end)[i] =
            IF i <= Len(a) THEN a[i] ELSE end[i - Len(a)]
  <2>1. end \in Seq(T)
    BY <1>1
  <2> QED
    BY <2>1, ConcatProperties
<1>3. Len(a) \in Nat
  OBVIOUS
<1>4. Len(a) + 1 \in 1..(Len(a) + 1) /\ ~(Len(a) + 1 <= Len(a)) /\ (Len(a) + 1) - Len(a) = 1
  BY <1>3
<1>5. (a \o end)[Len(a) + 1] = end[1]
  BY <1>1, <1>2, <1>4
<1>6. \A i \in 1..Len(a) : i \in 1..(Len(a) + 1) /\ i <= Len(a)
  BY <1>3
<1>7. /\ a \o end \in Seq(T) /\ Len(a \o end) = Len(a) + 1
      /\ \A i \in 1..Len(a) : (a \o end)[i] = a[i]
      /\ (a \o end)[Len(a) + 1] = EndObject
  BY <1>1, <1>2, <1>5, <1>6
<1> QED
  BY <1>7 DEF end

\* The head of a document, its data and its end.
LEMMA DocumentParts ==
  ASSUME NEW T, NEW type, NEW data \in Seq(T),
         type \in T, StartObject \in T, EndObject \in T,
         PropertyName("type") \in T, PropertyName("data") \in T
  PROVE  LET doc == Document(type, data) IN
         /\ doc \in Seq(T) /\ Len(doc) = Len(data) + 5
         /\ doc[1] = StartObject /\ doc[2] = PropertyName("type") /\ doc[3] = type
         /\ doc[4] = PropertyName("data")
         /\ \A i \in 1..Len(data) : doc[i + 4] = data[i]
         /\ doc[Len(data) + 5] = EndObject
<1> DEFINE N == Len(data)
           head == <<StartObject, PropertyName("type"), type, PropertyName("data")>>
           a == head \o data
           doc == Document(type, data)
<1>1. N \in Nat
  OBVIOUS
<1>2. /\ head \in Seq(T) /\ Len(head) = 4
      /\ head[1] = StartObject /\ head[2] = PropertyName("type")
      /\ head[3] = type /\ head[4] = PropertyName("data")
  OBVIOUS
<1> HIDE DEF head
<1>3. /\ head \o data \in Seq(T) /\ Len(head \o data) = Len(head) + Len(data)
      /\ \A i \in 1..Len(head) + Len(data) : (head \o data)[i] =
            IF i <= Len(head) THEN head[i] ELSE data[i - Len(head)]
  <2>1. head \in Seq(T)
    BY <1>2
  <2> QED
    BY <2>1, ConcatProperties
<1>4. /\ a \in Seq(T) /\ Len(a) = 4 + N
      /\ \A i \in 1..4 + N : a[i] = IF i <= 4 THEN head[i] ELSE data[i - 4]
  BY <1>2, <1>3
<1>5. doc = a \o <<EndObject>>
  BY DEF Document, head
<1> HIDE DEF a, N, doc
<1>6. /\ doc \in Seq(T) /\ Len(doc) = Len(a) + 1
      /\ \A i \in 1..Len(a) : doc[i] = a[i]
      /\ doc[Len(a) + 1] = EndObject
  BY <1>4, <1>5, Ended
<1>7. (4 + N) + 1 = N + 5 /\ 4 + N \in Nat
  BY <1>1
<1>8. /\ doc \in Seq(T) /\ Len(doc) = N + 5
      /\ \A i \in 1..4 + N : doc[i] = a[i]
      /\ doc[N + 5] = EndObject
  BY <1>4, <1>6, <1>7
<1>9. /\ \A i \in {1, 2, 3, 4} : doc[i] = head[i]
  <2>1. \A i \in {1, 2, 3, 4} : i \in 1..4 + N /\ i <= 4
    BY <1>1
  <2> QED
    BY <1>4, <1>8, <2>1
<1>10. ASSUME NEW i \in 1..N PROVE doc[i + 4] = data[i]
  <2>1. i + 4 \in 1..4 + N /\ ~(i + 4 <= 4) /\ (i + 4) - 4 = i
    BY <1>1
  <2>2. doc[i + 4] = a[i + 4]
    BY <1>8, <2>1
  <2>3. a[i + 4] = data[(i + 4) - 4]
    BY <1>4, <2>1
  <2> QED
    BY <2>1, <2>2, <2>3
<1> QED
  BY <1>2, <1>8, <1>9, <1>10 DEF N, doc

\* The tokens are those of an object with the pairs, behind its start, and the
\* end of the document.
ObjectTokens(tokens, pairs, kind) ==
  /\ DOMAIN tokens = 1..(2 * Len(pairs) + 2)
  /\ \A n \in 1..Len(pairs) : /\ tokens[2 * n - 1] = PropertyName(pairs[n][1])
                              /\ tokens[2 * n] = Token(kind, pairs[n][2])
  /\ tokens[2 * Len(pairs) + 1] = EndObject /\ tokens[2 * Len(pairs) + 2] = EndObject

\* The head of a document with an object, and the tokens behind the start of it.
LEMMA DocumentLaidOut ==
  ASSUME NEW type, NEW kind, NEW S, NEW pairs \in Seq(S)
  PROVE  LET N == Len(pairs)
             doc == Document(type, ObjectOf(pairs, kind))
             tokens == SubSeq(doc, 6, Len(doc)) IN
         /\ N \in Nat /\ Len(doc) = 2 * N + 7 /\ DOMAIN doc = 1..(2 * N + 7)
         /\ doc[1] = StartObject /\ doc[2] = PropertyName("type") /\ doc[3] = type
         /\ doc[4] = PropertyName("data") /\ doc[5] = StartObject
         /\ \A i \in 1..(2 * N + 2) : tokens[i] = doc[i + 5]
         /\ ObjectTokens(tokens, pairs, kind)
<1> DEFINE N == Len(pairs)
           doc == Document(type, ObjectOf(pairs, kind))
           ms == Members(pairs, kind)
           T == {type, StartObject, EndObject, PropertyName("type"), PropertyName("data")}
                  \cup {ms[i] : i \in 1..(2 * N)}
           object == <<StartObject>> \o ms \o <<EndObject>>
<1>1. N \in Nat
  OBVIOUS
<1>2. /\ Len(ms) = 2 * N /\ DOMAIN ms = 1..(2 * N)
      /\ \A n \in 1..N : /\ ms[2 * n - 1] = PropertyName(pairs[n][1])
                         /\ ms[2 * n] = Token(kind, pairs[n][2])
  BY <1>1, MembersAlternate
<1>3. ms \in Seq(T)
  BY <1>1 DEF Members
<1>4. <<StartObject>> \in Seq(T) /\ EndObject \in T
  OBVIOUS
<1> HIDE DEF ms, T, doc
<1>5. /\ <<StartObject>> \o ms \in Seq(T) /\ Len(<<StartObject>> \o ms) = 2 * N + 1
      /\ (<<StartObject>> \o ms)[1] = StartObject
      /\ \A i \in 1..(2 * N) : (<<StartObject>> \o ms)[i + 1] = ms[i]
  <2> DEFINE start == <<StartObject>>
  <2>1. start \in Seq(T) /\ Len(start) = 1 /\ start[1] = StartObject
    BY <1>4
  <2> HIDE DEF start
  <2>2. /\ start \o ms \in Seq(T) /\ Len(start \o ms) = Len(start) + Len(ms)
        /\ \A i \in 1..Len(start) + Len(ms) : (start \o ms)[i] =
              IF i <= Len(start) THEN start[i] ELSE ms[i - Len(start)]
    BY <1>3, <2>1, ConcatProperties
  <2>3. /\ Len(start \o ms) = 1 + 2 * N
        /\ \A i \in 1..1 + 2 * N : (start \o ms)[i] = IF i <= 1 THEN start[i] ELSE ms[i - 1]
    BY <1>2, <2>1, <2>2
  <2>4. 1 + 2 * N = 2 * N + 1 /\ 1 \in 1..1 + 2 * N
    BY <1>1
  <2>5. (start \o ms)[1] = StartObject
    BY <2>1, <2>3, <2>4
  <2>6. ASSUME NEW i \in 1..(2 * N) PROVE (start \o ms)[i + 1] = ms[i]
    <3>1. i + 1 \in 1..1 + 2 * N /\ ~(i + 1 <= 1) /\ (i + 1) - 1 = i
      BY <1>1
    <3> QED
      BY <2>3, <3>1
  <2>7. /\ start \o ms \in Seq(T) /\ Len(start \o ms) = 2 * N + 1
        /\ (start \o ms)[1] = StartObject
        /\ \A i \in 1..(2 * N) : (start \o ms)[i + 1] = ms[i]
    BY <2>2, <2>3, <2>4, <2>5, <2>6
  <2> QED
    BY <2>7 DEF start
<1>6. /\ object \in Seq(T) /\ Len(object) = 2 * N + 2
      /\ object[1] = StartObject /\ object[2 * N + 2] = EndObject
      /\ \A i \in 1..(2 * N) : object[i + 1] = ms[i]
  <2> DEFINE a == <<StartObject>> \o ms
  <2> HIDE DEF a
  <2>1. a \in Seq(T) /\ Len(a) = 2 * N + 1 /\ a[1] = StartObject
        /\ \A i \in 1..(2 * N) : a[i + 1] = ms[i]
    BY <1>5 DEF a
  <2>2. /\ a \o <<EndObject>> \in Seq(T) /\ Len(a \o <<EndObject>>) = 2 * N + 2
        /\ \A i \in 1..(2 * N + 1) : (a \o <<EndObject>>)[i] = a[i]
        /\ (a \o <<EndObject>>)[2 * N + 2] = EndObject
    <3>1. 2 * N + 1 \in Nat /\ (2 * N + 1) + 1 = 2 * N + 2
      BY <1>1
    <3>2. /\ a \o <<EndObject>> \in Seq(T) /\ Len(a \o <<EndObject>>) = Len(a) + 1
          /\ \A i \in 1..Len(a) : (a \o <<EndObject>>)[i] = a[i]
          /\ (a \o <<EndObject>>)[Len(a) + 1] = EndObject
      BY <1>4, <2>1, Ended
    <3>3. Len(a) = 2 * N + 1 /\ Len(a) + 1 = 2 * N + 2
      BY <2>1, <3>1
    <3> QED
      BY <3>2, <3>3
  <2>3. \A i \in 1..(2 * N) : (a \o <<EndObject>>)[i + 1] = ms[i]
    BY <1>1, <2>1, <2>2
  <2> QED
    BY <1>1, <2>1, <2>2, <2>3 DEF a
<1> HIDE DEF object
<1>7. /\ doc \in Seq(T) /\ Len(doc) = 2 * N + 7
      /\ doc[1] = StartObject /\ doc[2] = PropertyName("type") /\ doc[3] = type
      /\ doc[4] = PropertyName("data")
      /\ \A i \in 1..(2 * N + 2) : doc[i + 4] = object[i]
      /\ doc[2 * N + 7] = EndObject
  <2>1. doc = Document(type, object)
    BY DEF object, ObjectOf, ms, doc
  <2>2. /\ type \in T /\ StartObject \in T /\ EndObject \in T
        /\ PropertyName("type") \in T /\ PropertyName("data") \in T
    BY DEF T
  <2>3. /\ doc \in Seq(T) /\ Len(doc) = Len(object) + 5
        /\ doc[1] = StartObject /\ doc[2] = PropertyName("type") /\ doc[3] = type
        /\ doc[4] = PropertyName("data")
        /\ \A i \in 1..Len(object) : doc[i + 4] = object[i]
        /\ doc[Len(object) + 5] = EndObject
    <3>1. object \in Seq(T)
      BY <1>6
    <3> QED
      BY <2>1, <2>2, <3>1, DocumentParts
  <2>4. Len(object) + 5 = 2 * N + 7
    BY <1>1, <1>6
  <2> QED
    BY <1>6, <2>3, <2>4
<1>8. doc[5] = StartObject /\ doc[2 * N + 6] = EndObject
  <2>1. 1 \in 1..(2 * N + 2) /\ 1 + 4 = 5
    BY <1>1
  <2>2. 2 * N + 2 \in 1..(2 * N + 2) /\ (2 * N + 2) + 4 = 2 * N + 6
    BY <1>1
  <2>3. doc[1 + 4] = object[1] /\ doc[(2 * N + 2) + 4] = object[2 * N + 2]
    BY <1>7, <2>1, <2>2
  <2> QED
    BY <1>6, <2>1, <2>2, <2>3
<1>9. \A i \in 1..(2 * N) : doc[i + 5] = ms[i]
  <2> TAKE i \in 1..(2 * N)
  <2>1. i + 1 \in 1..(2 * N + 2) /\ (i + 1) + 4 = i + 5
    BY <1>1
  <2> QED
    BY <1>6, <1>7, <2>1
<1>10. DOMAIN doc = 1..(2 * N + 7)
  BY <1>7
<1> DEFINE tokens == SubSeq(doc, 6, Len(doc))
<1>11. DOMAIN tokens = 1..(2 * N + 2) /\ \A i \in 1..(2 * N + 2) : tokens[i] = doc[i + 5]
  <2>1. tokens = SubSeq(doc, 6, 2 * N + 7)
    BY <1>7
  <2> QED
    BY <1>1, <1>7, <2>1, SubSeqProperties
<1>12. tokens[2 * N + 1] = EndObject /\ tokens[2 * N + 2] = EndObject
  <2>1. (2 * N + 1) + 5 = 2 * N + 6 /\ (2 * N + 2) + 5 = 2 * N + 7
        /\ 2 * N + 1 \in 1..(2 * N + 2) /\ 2 * N + 2 \in 1..(2 * N + 2)
    BY <1>1
  <2> QED
    BY <1>7, <1>8, <1>11, <2>1
<1>13. \A i \in 1..(2 * N) : tokens[i] = ms[i]
  BY <1>1, <1>9, <1>11
<1> HIDE DEF tokens
<1>14. ASSUME NEW n \in 1..N
       PROVE  tokens[2 * n - 1] = PropertyName(pairs[n][1]) /\ tokens[2 * n] = Token(kind, pairs[n][2])
  <2>1. 2 * n - 1 \in 1..(2 * N) /\ 2 * n \in 1..(2 * N)
    BY <1>1
  <2> QED
    BY <1>2, <1>13, <2>1
<1> QED
  BY <1>1, <1>7, <1>8, <1>10, <1>11, <1>12, <1>14 DEF tokens, doc, ObjectTokens

\* What the loop of the host reads in the tokens of an object: each value under
\* the name before it.
LEMMA ObjectRead ==
  ASSUME NEW pairs, Len(pairs) \in Nat, NEW tokens,
         ObjectTokens(tokens, pairs, "String"),
         \A i, j \in 1..Len(pairs) : pairs[i][1] = pairs[j][1] => i = j
  PROVE  /\ ~Repeats(tokens)
         /\ DOMAIN ReadData(tokens) = {<<pairs[n][1]>> : n \in 1..Len(pairs)}
         /\ \A n \in 1..Len(pairs) : ReadData(tokens)[<<pairs[n][1]>>] = pairs[n][2]
<1> DEFINE N == Len(pairs)
           V == {2 * n : n \in 1..N}
<1>1. N \in Nat
  OBVIOUS
<1>2. ASSUME NEW n \in 1..N
      PROVE  /\ 2 * n - 1 \in 1..(2 * N + 2) /\ 2 * n \in 1..(2 * N + 2)
             /\ tokens[2 * n - 1].kind = "PropertyName" /\ tokens[2 * n - 1].value = <<pairs[n][1]>>
             /\ tokens[2 * n].kind = "String" /\ tokens[2 * n].value = pairs[n][2]
  <2>1. 2 * n - 1 \in 1..(2 * N + 2) /\ 2 * n \in 1..(2 * N + 2)
    BY <1>1
  <2>2. tokens[2 * n - 1] = PropertyName(pairs[n][1]) /\ tokens[2 * n] = Token("String", pairs[n][2])
    BY DEF ObjectTokens
  <2> QED
    BY <2>1, <2>2 DEF PropertyName, Token
<1>3. tokens[2 * N + 1].kind = "EndObject" /\ tokens[2 * N + 2].kind = "EndObject"
  BY DEF ObjectTokens, EndObject, Token
<1>4. DOMAIN tokens = 1..(2 * N + 2)
  BY DEF ObjectTokens
<1>5. \A i \in 1..(2 * N + 2) : (\E n \in 1..N : i = 2 * n - 1 \/ i = 2 * n) \/ i = 2 * N + 1 \/ i = 2 * N + 2
  <2> SUFFICES ASSUME NEW i \in 1..(2 * N + 2), i # 2 * N + 1, i # 2 * N + 2
               PROVE  \E n \in 1..N : i = 2 * n - 1 \/ i = 2 * n
    OBVIOUS
  <2>1. i \in 1..(2 * N)
    <3> HIDE DEF N
    <3>1. 2 * N \in Nat /\ i \in Nat /\ 1 <= i /\ i <= 2 * N + 2
      BY <1>1
    <3>2. i <= 2 * N
      BY <3>1
    <3> QED
      BY <3>1, <3>2
  <2>2. (i + 1) \div 2 \in 1..N /\ (i = 2 * ((i + 1) \div 2) - 1 \/ i = 2 * ((i + 1) \div 2))
    BY <1>1, <2>1
  <2> QED
    BY <2>2
<1>6. Values(tokens) = V
  <2>1. \A n \in 1..N : 2 * n \in Values(tokens) /\ 2 * n - 1 \notin Values(tokens)
    BY <1>2, <1>4 DEF Values, HasValue
  <2>2. 2 * N + 1 \notin Values(tokens) /\ 2 * N + 2 \notin Values(tokens)
    BY <1>3 DEF Values, HasValue
  <2>3. Values(tokens) \subseteq 1..(2 * N + 2)
    BY <1>4 DEF Values
  <2>4. ASSUME NEW i \in Values(tokens) PROVE i \in V
    BY <1>5, <2>1, <2>2, <2>3, <2>4
  <2> QED
    BY <2>1, <2>4
<1>7. ASSUME NEW n \in 1..N PROVE CurrProp(tokens, 2 * n) = <<pairs[n][1]>>
  <2> DEFINE names == {j \in 1..(2 * n - 1) : tokens[j].kind = "PropertyName"}
             last == CHOOSE j \in names : \A k \in names : k <= j
  <2>1. 2 * n - 1 \in names /\ names \subseteq Int
    BY <1>1, <1>2
  <2>2. \A k \in names : k <= 2 * n - 1
    BY <1>1
  <2>3. last \in names /\ \A k \in names : k <= last
    BY <2>1, <2>2
  <2>4. last = 2 * n - 1
    <3>1. last <= 2 * n - 1 /\ 2 * n - 1 <= last /\ last \in Int /\ 2 * n - 1 \in Int
      BY <2>1, <2>2, <2>3
    <3> HIDE DEF last
    <3> QED
      BY <3>1
  <2>5. CurrProp(tokens, 2 * n) = tokens[last].value
    BY <2>1 DEF CurrProp
  <2> QED
    BY <1>2, <2>4, <2>5
<1>8. \A n, k \in 1..N : CurrProp(tokens, 2 * n) = CurrProp(tokens, 2 * k) => n = k
  <2> SUFFICES ASSUME NEW n \in 1..N, NEW k \in 1..N,
                      CurrProp(tokens, 2 * n) = CurrProp(tokens, 2 * k)
               PROVE  n = k
    OBVIOUS
  <2>1. <<pairs[n][1]>> = <<pairs[k][1]>>
    BY <1>7
  <2>2. pairs[n][1] = pairs[k][1]
    BY <2>1
  <2> QED
    BY <2>2
<1>9. ~Repeats(tokens)
  BY <1>1, <1>6, <1>8 DEF Repeats
<1>10. DOMAIN ReadData(tokens) = {<<pairs[n][1]>> : n \in 1..N}
  <2>1. DOMAIN ReadData(tokens) = {CurrProp(tokens, i) : i \in V}
    BY <1>6 DEF ReadData
  <2>2. {CurrProp(tokens, i) : i \in V} = {CurrProp(tokens, 2 * n) : n \in 1..N}
    OBVIOUS
  <2>3. {CurrProp(tokens, 2 * n) : n \in 1..N} = {<<pairs[n][1]>> : n \in 1..N}
    BY <1>7
  <2> QED
    BY <2>1, <2>2, <2>3
<1>11. ASSUME NEW n \in 1..N PROVE ReadData(tokens)[<<pairs[n][1]>>] = pairs[n][2]
  <2> DEFINE key == <<pairs[n][1]>>
             at == CHOOSE i \in V : CurrProp(tokens, i) = key
  <2>1. at \in V /\ CurrProp(tokens, at) = key
    BY <1>7
  <2>2. at = 2 * n
    BY <1>8, <1>7, <2>1
  <2>3. key \in DOMAIN ReadData(tokens)
    BY <1>10
  <2>4. ReadData(tokens)[key] = tokens[at].value
    BY <1>6, <2>3 DEF ReadData
  <2> QED
    BY <1>2, <2>2, <2>4
<1> QED
  BY <1>9, <1>10, <1>11

-----------------------------------------------------------------------------
(* From the engine to the host.                                            *)

\* The host reads the type of a document as the engine wrote it.
LEMMA HeadRead ==
  ASSUME NEW type \in MessageTypes, NEW doc, Len(doc) \in Nat, Len(doc) >= 5,
         doc[1] = StartObject, doc[2] = PropertyName("type"),
         doc[3] = Token("String", Numeral(EngineMessageTypes, type))
  PROVE  HeadOK(doc) /\ Named(HostMessageTypes, doc[3].value) = type
<1>1. doc[3].kind = "String" /\ doc[3].value = Numeral(EngineMessageTypes, type)
  BY DEF Token
<1> QED
  BY <1>1, TypesNumbered DEF HeadOK

\* Whatever the data, the host reads the message that the engine meant: its
\* type, though it was written as the text of a number, and each pair of the
\* data.  The keys of a JsonStringMap are distinct, and it has some.
THEOREM HostReads ==
  ASSUME NEW type \in MessageTypes, NEW S, NEW map \in Seq(S), map # NoData,
         \A i, j \in 1..Len(map) : map[i][1] = map[j][1] => i = j
  PROVE  LET msg == Deserialize(serialize(type, map)) IN
         /\ msg.type = type
         /\ DOMAIN msg.data = {<<map[n][1]>> : n \in 1..Len(map)}
         /\ \A n \in 1..Len(map) : msg.data[<<map[n][1]>>] = map[n][2]
<1> DEFINE doc == serialize(type, map)
           token == Token("String", Numeral(EngineMessageTypes, type))
           tokens == SubSeq(doc, 6, Len(doc))
           N == Len(map)
<1>1. doc = Document(token, ObjectOf(map, "String"))
  BY DEF serialize
<1> HIDE DEF doc, token
<1>2. /\ N \in Nat /\ Len(doc) = 2 * N + 7
      /\ doc[1] = StartObject /\ doc[2] = PropertyName("type") /\ doc[3] = token
      /\ doc[5] = StartObject
      /\ ObjectTokens(tokens, map, "String")
  BY <1>1, DocumentLaidOut
<1>3. Len(doc) \in Nat /\ Len(doc) >= 5
  BY <1>2
<1>4. HeadOK(doc) /\ Named(HostMessageTypes, doc[3].value) = type
  BY <1>2, <1>3, HeadRead DEF token
<1> HIDE DEF tokens
<1>5. /\ ~Repeats(tokens)
      /\ DOMAIN ReadData(tokens) = {<<map[n][1]>> : n \in 1..N}
      /\ \A n \in 1..N : ReadData(tokens)[<<map[n][1]>>] = map[n][2]
  <2>1. ObjectTokens(tokens, map, "String") /\ Len(map) \in Nat
    BY <1>2
  <2> QED
    BY <2>1, ObjectRead
<1>6. Deserialize(doc) = [type |-> type, data |-> ReadData(tokens)]
  BY <1>2, <1>4, <1>5 DEF Deserialize, tokens
<1> QED
  BY <1>5, <1>6 DEF doc

\* A message without data goes out with an empty string for them, which the host
\* reads as no data.
THEOREM HostReadsNoData ==
  ASSUME NEW type \in MessageTypes
  PROVE  Deserialize(serialize(type, NoData)) = [type |-> type, data |-> EmptyDictionary]
<1> DEFINE token == Token("String", Numeral(EngineMessageTypes, type))
           empty == Token("String", <<>>)
           doc == serialize(type, NoData)
           T == {token, empty, StartObject, EndObject, PropertyName("type"), PropertyName("data")}
<1>1. doc = Document(token, <<empty>>)
  BY DEF serialize
<1>2. <<empty>> \in Seq(T) /\ Len(<<empty>>) = 1 /\ <<empty>>[1] = empty
  OBVIOUS
<1> HIDE DEF token, empty, doc
<1>3. /\ Len(doc) = 6 /\ doc[1] = StartObject /\ doc[2] = PropertyName("type")
      /\ doc[3] = token /\ doc[5] = empty
  <2> DEFINE data == <<empty>>
  <2>1. data \in Seq(T) /\ Len(data) = 1 /\ data[1] = empty
    BY <1>2
  <2>2. /\ token \in T /\ StartObject \in T /\ EndObject \in T
        /\ PropertyName("type") \in T /\ PropertyName("data") \in T
    OBVIOUS
  <2>3. doc = Document(token, data)
    BY <1>1
  <2> HIDE DEF data, T
  <2>4. /\ doc \in Seq(T) /\ Len(doc) = Len(data) + 5
        /\ doc[1] = StartObject /\ doc[2] = PropertyName("type") /\ doc[3] = token
        /\ \A i \in 1..Len(data) : doc[i + 4] = data[i]
    <3>1. data \in Seq(T)
      BY <2>1
    <3> QED
      BY <2>2, <2>3, <3>1, DocumentParts
  <2>5. Len(data) + 5 = 6 /\ 1 \in 1..Len(data) /\ 1 + 4 = 5
    BY <2>1
  <2>6. doc[1 + 4] = data[1]
    BY <2>4, <2>5
  <2> QED
    BY <2>1, <2>4, <2>5, <2>6
<1>4. HeadOK(doc) /\ Named(HostMessageTypes, doc[3].value) = type
  BY <1>3, HeadRead DEF token
<1>5. empty # StartObject
  BY DEF empty, StartObject, Token
<1> QED
  BY <1>3, <1>4, <1>5 DEF Deserialize, doc

\* The texts of the message about a function come to the host under their keys.
LEMMA FunctionRead ==
  ASSUME NEW type \in MessageTypes, NEW f
  PROVE  LET msg == Deserialize(serialize(type, dataMap(f))) IN
         /\ msg.type = type
         /\ DOMAIN msg.data # {}
         /\ Lookup(msg.data, "MetadataToken") = <<f.token>>
         /\ Lookup(msg.data, "TypeName") = FetchedName(f.type)
         /\ Lookup(msg.data, "MethodName") = FetchedName(f.name)
         /\ Lookup(msg.data, "ModuleName") = FetchedPath(f.module)
<1> DEFINE map == dataMap(f)
           S == {map[n] : n \in 1..5}
           msg == Deserialize(serialize(type, map))
<1>1. map \in Seq(S) /\ Len(map) = 5 /\ map # NoData
  BY DEF dataMap, NoData
<1>2. /\ map[1][1] = "FullyQualifiedName" /\ map[2][1] = "MetadataToken"
      /\ map[3][1] = "MethodName" /\ map[4][1] = "ModuleName" /\ map[5][1] = "TypeName"
  BY DEF dataMap
<1>3. /\ map[2][2] = <<f.token>> /\ map[3][2] = FetchedName(f.name)
      /\ map[4][2] = FetchedPath(f.module) /\ map[5][2] = FetchedName(f.type)
  BY DEF dataMap
<1> HIDE DEF map, S
<1>4. \A i, j \in 1..Len(map) : map[i][1] = map[j][1] => i = j
  BY <1>1, <1>2
<1>5. /\ msg.type = type
      /\ DOMAIN msg.data = {<<map[n][1]>> : n \in 1..Len(map)}
      /\ \A n \in 1..Len(map) : msg.data[<<map[n][1]>>] = map[n][2]
  <2>1. map \in Seq(S) /\ map # NoData
    BY <1>1
  <2> QED
    BY <1>4, <2>1, HostReads
<1> HIDE DEF msg
<1>6. <<map[2][1]>> \in DOMAIN msg.data
  BY <1>1, <1>5
<1>7. /\ msg.data[<<map[2][1]>>] = map[2][2] /\ msg.data[<<map[3][1]>>] = map[3][2]
      /\ msg.data[<<map[4][1]>>] = map[4][2] /\ msg.data[<<map[5][1]>>] = map[5][2]
  BY <1>1, <1>5
<1>8. /\ Lookup(msg.data, "MetadataToken") = <<f.token>>
      /\ Lookup(msg.data, "TypeName") = FetchedName(f.type)
      /\ Lookup(msg.data, "MethodName") = FetchedName(f.name)
      /\ Lookup(msg.data, "ModuleName") = FetchedPath(f.module)
  BY <1>2, <1>3, <1>7 DEF Lookup
<1> QED
  BY <1>5, <1>6, <1>8 DEF msg, map

\* The data that is read is a function, whatever the document.
LEMMA DataRead ==
  ASSUME NEW doc
  PROVE  LET data == Deserialize(doc).data IN data = [key \in DOMAIN data |-> data[key]]
<1> DEFINE tokens == SubSeq(doc, 6, Len(doc))
<1> HIDE DEF tokens
<1>1. EmptyDictionary = [key \in DOMAIN EmptyDictionary |-> EmptyDictionary[key]]
  BY DEF EmptyDictionary
<1>2. ReadData(tokens) = [key \in DOMAIN ReadData(tokens) |-> ReadData(tokens)[key]]
  BY DEF ReadData
<1>3. Deserialize(doc).data = EmptyDictionary \/ Deserialize(doc).data = ReadData(tokens)
  BY DEF Deserialize, Malformed, tokens
<1> QED
  BY <1>1, <1>2, <1>3

\* The two messages about a function come to the host with the same data.
LEMMA SameFunctionRead ==
  ASSUME NEW type1 \in MessageTypes, NEW type2 \in MessageTypes, NEW f
  PROVE  Deserialize(serialize(type1, dataMap(f))).data = Deserialize(serialize(type2, dataMap(f))).data
<1> DEFINE map == dataMap(f)
           S == {map[n] : n \in 1..5}
           a == Deserialize(serialize(type1, map)).data
           b == Deserialize(serialize(type2, map)).data
<1>1. map \in Seq(S) /\ Len(map) = 5 /\ map # NoData
  BY DEF dataMap, NoData
<1>2. /\ map[1][1] = "FullyQualifiedName" /\ map[2][1] = "MetadataToken"
      /\ map[3][1] = "MethodName" /\ map[4][1] = "ModuleName" /\ map[5][1] = "TypeName"
  BY DEF dataMap
<1> HIDE DEF map, S
<1>3. \A i, j \in 1..Len(map) : map[i][1] = map[j][1] => i = j
  BY <1>1, <1>2
<1>4. map \in Seq(S) /\ map # NoData
  BY <1>1
<1> DEFINE keys == {<<map[n][1]>> : n \in 1..Len(map)}
<1>5. /\ DOMAIN a = keys /\ \A n \in 1..Len(map) : a[<<map[n][1]>>] = map[n][2]
  BY <1>3, <1>4, HostReads
<1>6. /\ DOMAIN b = keys /\ \A n \in 1..Len(map) : b[<<map[n][1]>>] = map[n][2]
  BY <1>3, <1>4, HostReads
<1>7. a = [key \in DOMAIN a |-> a[key]] /\ b = [key \in DOMAIN b |-> b[key]]
  BY DataRead
<1> HIDE DEF a, b
<1>8. \A key \in keys : a[key] = b[key]
  BY <1>5, <1>6
<1> HIDE DEF keys
<1>9. a = b
  BY <1>5, <1>6, <1>7, <1>8
<1> QED
  BY <1>9 DEF a, b, map

\* The host reads the error code of the message about invalid settings.
LEMMA SettingsErrorRead ==
  LET msg == Deserialize(serialize("TRACER_ERROR", SettingsError)) IN
  msg.type = "TRACER_ERROR" /\ HasKey(msg.data, "error") /\ TracerError(msg) = "SETTINGS_INVALID"
<1> DEFINE map == SettingsError
           S == {map[1]}
           msg == Deserialize(serialize("TRACER_ERROR", map))
           code == Numeral(EngineErrorCodes, "SETTINGS_INVALID")
<1>1. map \in Seq(S) /\ Len(map) = 1 /\ map # NoData /\ map[1] = <<"error", code>>
  BY DEF SettingsError, NoData
<1> HIDE DEF map, S, code
<1>2. map[1][1] = "error" /\ map[1][2] = code
  BY <1>1
<1>3. /\ msg.type = "TRACER_ERROR"
      /\ DOMAIN msg.data = {<<map[n][1]>> : n \in 1..Len(map)}
      /\ \A n \in 1..Len(map) : msg.data[<<map[n][1]>>] = map[n][2]
  <2>1. map \in Seq(S) /\ map # NoData
    BY <1>1
  <2>2. \A i, j \in 1..Len(map) : map[i][1] = map[j][1] => i = j
    BY <1>1
  <2>3. "TRACER_ERROR" \in MessageTypes
    BY DEF MessageTypes
  <2> QED
    BY <2>1, <2>2, <2>3, HostReads
<1> HIDE DEF msg
<1>4. <<"error">> \in DOMAIN msg.data /\ msg.data[<<"error">>] = code
  BY <1>1, <1>2, <1>3
<1>5. Named(HostErrorCodes, code) = "SETTINGS_INVALID"
  <2>1. "SETTINGS_INVALID" \in ErrorCodes
    BY DEF ErrorCodes
  <2> QED
    BY <2>1, ErrorsNumbered DEF code
<1> QED
  BY <1>3, <1>4, <1>5 DEF msg, map, HasKey, TracerError, Lookup

-----------------------------------------------------------------------------
(* From the host to the engine.                                            *)

\* The engine finds the error code that the host has put into a reply, though
\* the host writes it as a number and the engine reads the text of one.
THEOREM EngineReads ==
  ASSUME NEW type \in MessageTypes, NEW code \in ErrorCodes
  PROVE  ReplyError(Serialize(type, code)) = code
<1> DEFINE token == Token("Integer", Numeral(HostMessageTypes, type))
           text == Numeral(HostErrorCodes, code)
           pairs == <<<<"error", text>>>>
           doc == Serialize(type, code)
           tokens == SubSeq(doc, 6, Len(doc))
           S == {pairs[1]}
<1>1. doc = Document(token, ObjectOf(pairs, "Integer"))
  BY DEF Serialize
<1>2. pairs \in Seq(S) /\ Len(pairs) = 1 /\ pairs[1][1] = "error" /\ pairs[1][2] = text
  OBVIOUS
<1> HIDE DEF doc, token, pairs, text, S
<1> DEFINE N == Len(pairs)
<1>3. /\ Len(doc) = 2 * N + 7 /\ DOMAIN doc = 1..(2 * N + 7)
      /\ doc[1] = StartObject /\ doc[2] = PropertyName("type") /\ doc[3] = token
      /\ doc[4] = PropertyName("data") /\ doc[5] = StartObject
      /\ \A i \in 1..(2 * N + 2) : tokens[i] = doc[i + 5]
      /\ ObjectTokens(tokens, pairs, "Integer")
  <2>1. pairs \in Seq(S)
    BY <1>2
  <2> QED
    BY <1>1, <2>1, DocumentLaidOut
<1> HIDE DEF tokens
<1>4. /\ DOMAIN doc = 1..9
      /\ tokens[1] = PropertyName("error") /\ tokens[2] = Token("Integer", text)
      /\ tokens[3] = EndObject /\ tokens[4] = EndObject
      /\ \A i \in 1..4 : tokens[i] = doc[i + 5]
  <2>1. 2 * 1 + 7 = 9 /\ 2 * 1 + 2 = 4 /\ 2 * 1 + 1 = 3 /\ 2 * 1 = 2 /\ 2 * 1 - 1 = 1 /\ 1 \in 1..1
    OBVIOUS
  <2>2. tokens[2 * 1 - 1] = PropertyName(pairs[1][1]) /\ tokens[2 * 1] = Token("Integer", pairs[1][2])
    BY <1>2, <1>3 DEF ObjectTokens
  <2> QED
    BY <1>2, <1>3, <2>1, <2>2 DEF ObjectTokens
<1>5. /\ doc[6] = PropertyName("error") /\ doc[7] = Token("Integer", text)
      /\ doc[8] = EndObject /\ doc[9] = EndObject
  <2>1. tokens[1] = doc[1 + 5] /\ tokens[2] = doc[2 + 5] /\ tokens[3] = doc[3 + 5] /\ tokens[4] = doc[4 + 5]
    BY <1>4
  <2>2. 1 + 5 = 6 /\ 2 + 5 = 7 /\ 3 + 5 = 8 /\ 4 + 5 = 9
    OBVIOUS
  <2> QED
    BY <1>4, <2>1, <2>2
<1>6. /\ doc[1].kind = "StartObject" /\ doc[2].kind = "PropertyName" /\ doc[3].kind = "Integer"
      /\ doc[4].kind = "PropertyName" /\ doc[5].kind = "StartObject"
      /\ doc[6].kind = "PropertyName" /\ doc[7].kind = "Integer"
      /\ doc[8].kind = "EndObject" /\ doc[9].kind = "EndObject"
  BY <1>3, <1>5 DEF token, Token, StartObject, EndObject, PropertyName
<1>7. /\ doc[2].value = <<"type">> /\ doc[4].value = <<"data">> /\ doc[6].value = <<"error">>
      /\ doc[7].value = text
  BY <1>3, <1>5 DEF Token, PropertyName
<1>8. \A i \in 1..9 : i \in {1, 2, 3, 4, 5, 6, 7, 8, 9}
  OBVIOUS
<1> DEFINE at(key) == CHOOSE i \in DOMAIN doc : doc[i] = PropertyName(key)
           members == {i \in DOMAIN doc : i > at("data") /\ doc[i].kind = "PropertyName"}
<1>9. at("data") = 4
  <2>1. ASSUME NEW i \in 1..9, doc[i] = PropertyName("data") PROVE i = 4
    <3>1. doc[i].kind = "PropertyName" /\ doc[i].value = <<"data">>
      BY <2>1 DEF PropertyName, Token
    <3>2. i \in {2, 4, 6}
      BY <1>6, <1>8, <3>1
    <3>3. <<"data">> # <<"type">> /\ <<"data">> # <<"error">>
      OBVIOUS
    <3> QED
      BY <1>7, <3>1, <3>2, <3>3
  <2> QED
    BY <1>3, <1>4, <2>1
<1> HIDE DEF at
<1>10. members = {6}
  <2>1. members = {i \in 1..9 : i > 4 /\ doc[i].kind = "PropertyName"}
    BY <1>4, <1>9
  <2>2. \A i \in 1..9 : i > 4 /\ doc[i].kind = "PropertyName" <=> i = 6
    BY <1>6, <1>8
  <2> QED
    BY <2>1, <2>2
<1> HIDE DEF members
<1>11. LET data == [k \in {doc[i].value[1] : i \in members} |->
                      doc[(CHOOSE i \in members : doc[i] = PropertyName(k)) + 1].value]
       IN  data["error"] = text
  <2>1. "error" \in {doc[i].value[1] : i \in members}
    BY <1>7, <1>10
  <2>2. (CHOOSE i \in members : doc[i] = PropertyName("error")) = 6
    BY <1>5, <1>10
  <2> QED
    BY <1>7, <2>1, <2>2
<1>12. ReplyError(doc) = Named(EngineErrorCodes, text)
  BY <1>11 DEF ReplyError, deserialize, members, at
<1> QED
  BY <1>12, ErrorsNumbered DEF doc, text
=============================================================================
