---------------------------- MODULE MessageCodec ----------------------------
(***************************************************************************)
(* The JSON documents of PipeMessage, as each side writes and reads them,  *)
(* and the data of a function that a JIT callback puts into one.           *)
(*                                                                         *)
(* A document is the sequence of its tokens, as a JsonTextReader returns   *)
(* them.  A text is a sequence of parts: a name or a numeral is one part,  *)
(* and so are ".", the character NUL and a run of the character 0.  Names  *)
(* are ASCII, and both writers escape what they have to, so that a text is *)
(* read as it was written.                                                 *)
(***************************************************************************)
EXTENDS Naturals, Sequences

\* The enumerations in the order of their numbers, on each side.
EngineMessageTypes ==
  <<"INIT", "TRACER_ERROR", "JIT_COMPILATION_STARTED", "JIT_COMPILATION_FINISHED">>
EngineErrorCodes == <<"SUCCESS", "PIPE_BUSY", "SETTINGS_NOT_FOUND", "SETTINGS_INVALID">>

HostMessageTypes ==
  <<"INIT", "TRACER_ERROR", "JIT_COMPILATION_STARTED", "JIT_COMPILATION_FINISHED">>
HostErrorCodes == <<"SUCCESS", "PIPE_BUSY", "SETTINGS_NOT_FOUND", "SETTINGS_INVALID">>

\* The texts of the numbers of an enumeration, from 0 on.
Numerals == <<"0", "1", "2", "3">>

\* The numeral of x, and what a numeral stands for, in an enumeration.
Numeral(enum, x) == <<Numerals[CHOOSE i \in DOMAIN enum : enum[i] = x]>>
Named(enum, text) == enum[CHOOSE i \in DOMAIN enum : <<Numerals[i]>> = text]
IsNumeral(enum, text) == \E i \in DOMAIN enum : <<Numerals[i]>> = text

Token(kind, value) == [kind |-> kind, value |-> value]
StartObject == Token("StartObject", <<>>)
EndObject == Token("EndObject", <<>>)
PropertyName(key) == Token("PropertyName", <<key>>)

\* The tokens whose Value is null.
HasValue(token) == token.kind \notin {"StartObject", "EndObject"}

\* A document of the given type token and the tokens of its data.
Document(type, data) ==
  <<StartObject, PropertyName("type"), type, PropertyName("data")>> \o data \o <<EndObject>>

\* The names and values of the given pairs, in turn; the values have one kind.
Members(pairs, kind) ==
  [i \in 1..(2 * Len(pairs)) |->
     IF i % 2 = 1 THEN PropertyName(pairs[(i + 1) \div 2][1])
                  ELSE Token(kind, pairs[i \div 2][2])]

ObjectOf(pairs, kind) == <<StartObject>> \o Members(pairs, kind) \o <<EndObject>>

-----------------------------------------------------------------------------
(* The engine's side.                                                      *)

\* A JsonStringMap is written as the sequence of its pairs, in the order of its keys.
NoData == <<>>

\* Mutant: the type is written as a number.
serialize_Integer(type, map) ==
  Document(Token("Integer", Numeral(EngineMessageTypes, type)), ObjectOf(map, "String"))

\* Each value goes out as a string; data without entries is the empty string.
serialize(type, map) ==
  Document(Token("String", Numeral(EngineMessageTypes, type)),
           IF map = NoData THEN <<Token("String", <<>>)>> ELSE ObjectOf(map, "String"))

\* A property tree keeps the text of a value, whatever its kind.
deserialize(doc) ==
  LET at(key) == CHOOSE i \in DOMAIN doc : doc[i] = PropertyName(key)
      members == {i \in DOMAIN doc : i > at("data") /\ doc[i].kind = "PropertyName"}
  IN  [type |-> Named(EngineMessageTypes, doc[at("type") + 1].value),
       data |-> [k \in {doc[i].value[1] : i \in members} |->
                   doc[(CHOOSE i \in members : doc[i] = PropertyName(k)) + 1].value]]

\* initialize(): the code in a reply.
ReplyError(doc) == Named(EngineErrorCodes, deserialize(doc).data["error"])

\* The message about invalid settings.
SettingsError == <<<<"error", Numeral(EngineErrorCodes, "SETTINGS_INVALID")>>>>

\* A wstring of 255 zeros a name has been fetched into, each character cut to
\* a byte.  The name is as much of the method's or type's as fits in 254.
FetchedName(name) == <<name, "NUL", "0s">>

\* The path of a module, fetched into a string of its length.
FetchedPath(path) == <<path, "NUL">>

getFullyQualifiedName(f) == FetchedName(f.type) \o <<".">> \o FetchedName(f.name)

\* Mutant: the names of type and method are exchanged.
dataMap_Exchanged(f) ==
  <<<<"FullyQualifiedName", getFullyQualifiedName(f)>>, <<"MetadataToken", <<f.token>>>>,
    <<"MethodName", FetchedName(f.type)>>, <<"ModuleName", FetchedPath(f.module)>>,
    <<"TypeName", FetchedName(f.name)>>>>

\* What both callbacks put into the message about a cached function.
dataMap(f) ==
  <<<<"FullyQualifiedName", getFullyQualifiedName(f)>>, <<"MetadataToken", <<f.token>>>>,
    <<"MethodName", FetchedName(f.name)>>, <<"ModuleName", FetchedPath(f.module)>>,
    <<"TypeName", FetchedName(f.type)>>>>

-----------------------------------------------------------------------------
(* The host's side.  A Dictionary is a function: the order of the lines it *)
(* is shown in is left out.                                                *)

EmptyDictionary == [key \in {} |-> <<>>]

\* The result of a Deserialize that throws.
Malformed == [type |-> "MALFORMED", data |-> EmptyDictionary]

\* JsonConvert writes an enum as a number.
Serialize(type, code) ==
  Document(Token("Integer", Numeral(HostMessageTypes, type)),
           ObjectOf(<<<<"error", Numeral(HostErrorCodes, code)>>>>, "Integer"))

\* The head of a document: its start, the assertions, the cast of the type to
\* string and int.Parse.  (No assertion looks at the name of the data, and no
\* document has a number beyond the enumeration.)
HeadOK(doc) ==
  /\ Len(doc) >= 5 /\ doc[1] = StartObject
  /\ doc[2] = PropertyName("type")
  /\ doc[3].kind = "String" /\ IsNumeral(HostMessageTypes, doc[3].value)

\* The tokens the loop adds to the data: those that have a value and are no name.
Values(tokens) ==
  {i \in DOMAIN tokens : HasValue(tokens[i]) /\ tokens[i].kind # "PropertyName"}

\* currProp when the loop has come to token i: the last name before it.
CurrProp(tokens, i) ==
  LET names == {j \in 1..(i - 1) : tokens[j].kind = "PropertyName"}
  IN  IF names = {} THEN <<>>
      ELSE tokens[CHOOSE j \in names : \A k \in names : k <= j].value

ReadData(tokens) ==
  [key \in {CurrProp(tokens, i) : i \in Values(tokens)} |->
     tokens[CHOOSE i \in Values(tokens) : CurrProp(tokens, i) = key].value]

\* Add throws when the key is there already.
Repeats(tokens) ==
  \E i, j \in Values(tokens) : i < j /\ CurrProp(tokens, i) = CurrProp(tokens, j)

\* A value of data that is no object means that there is none.
Deserialize(doc) ==
  IF ~HeadOK(doc) THEN Malformed
  ELSE LET type == Named(HostMessageTypes, doc[3].value)
           tokens == SubSeq(doc, 6, Len(doc))
       IN  IF doc[5] # StartObject THEN [type |-> type, data |-> EmptyDictionary]
           ELSE IF Repeats(tokens) THEN Malformed
           ELSE [type |-> type, data |-> ReadData(tokens)]

\* MessageData[key], for a key that is there.
Lookup(data, key) == data[<<key>>]
HasKey(data, key) == <<key>> \in DOMAIN data

\* The code OnTracerError is raised with.
TracerError(msg) == Named(HostErrorCodes, Lookup(msg.data, "error"))
=============================================================================
