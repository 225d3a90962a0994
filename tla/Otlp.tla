-------------------------------- MODULE Otlp --------------------------------
(***************************************************************************)
(* The OpenTelemetry output: ProtoBuffer of protobuf.cpp, Index of index.h *)
(* and Recorder of otlp.cpp, which Profiler::dumpOtlp runs on the samples. *)
(*                                                                         *)
(* A byte is a number, a string a sequence of bytes. What an operation     *)
(* appends to the buffer is its value, a message the bytes of its body     *)
(* behind their length; the memory behind the buffer grows by varIntSize   *)
(* before a number is written. The times and the period, eight bytes or a  *)
(* number like others, are constants.                                      *)
(***************************************************************************)
EXTENDS Integers, Sequences, FiniteSets, SequencesExt, FiniteSetsExt

CONSTANTS
    NestedBytes,             \* NESTED_FIELD_BYTE_COUNT
    EngineType, EngineUnits, \* type() and units() of the active engine
    Count, ThreadName, ServiceName,   \* "count", "thread.name", "service.name"
    StartNanos, Duration, Period,
    MaxValue,                \* the room in ResourceAttributes::_buf
    null

VARINT == 0
I64 == 1
LEN == 2

-----------------------------------------------------------------------------
(* Of a number of so many bits, 64 less its leading zeros.                 *)
varIntSizeRoundedDown(bits) == (bits + 5) \div 7
varIntSize(bits) == (640 - (64 - bits) * 9) \div 64

RECURSIVE putVarInt(_)
putVarInt(n) == IF n < 128 THEN <<n>> ELSE <<128 + (n % 128)>> \o putVarInt(n \div 128)
tag(index, type) == putVarInt(8 * index + type)

field(index, n) == tag(index, VARINT) \o putVarInt(n)
fieldFixed64(index, bytes) == tag(index, I64) \o bytes
fieldBytes(index, s) == tag(index, LEN) \o putVarInt(Len(s)) \o s

(* startMessage leaves room for the length, which is known only at the     *)
(* end, to commitMessage; the bytes of the room that the length does not   *)
(* need are continued zeros.                                               *)
lengthUnpadded(actual_len, max) ==
    LET size == putVarInt(actual_len) IN [i \in 1..max |-> IF i \in DOMAIN size THEN size[i] ELSE 0]
lengthField(actual_len, max) ==
    LET Shifted(i) == actual_len \div 128^(i - 1)
    IN [i \in 1..max |-> IF i < max THEN 128 + (Shifted(i) % 128) ELSE Shifted(i) % 256]
message(index, max, body) == tag(index, LEN) \o lengthField(Len(body), max) \o body

-----------------------------------------------------------------------------
(* Index: the values seen, in the order of their first occurrence, after   *)
(* the empty string; indices count from 0.                                 *)
NewIndex == <<<<>>>>
Insert(index, value) == IF value \in Range(index) THEN index ELSE Append(index, value)
indexOf(index, value) == CHOOSE i \in 0..(Len(index) - 1) : index[i + 1] = value

-----------------------------------------------------------------------------
(* The name of the service, from the first of four sources that has one:   *)
(* a system property, a variable of the environment, and an entry of a     *)
(* list in another property or variable.                                   *)
Comma == 44
Blank(c) == c \in {32, 9}
HexDigit(c) == IF c <= 57 THEN c - 48 ELSE (IF (c \div 32) % 2 = 1 THEN c - 32 ELSE c) - 55

RECURSIVE unescape(_, _)
unescape(s, value) ==
    IF s = <<>> \/ Len(value) = MaxValue THEN value
    ELSE IF s[1] <= 32 \/ s[1] = Comma THEN value
    ELSE IF s[1] = 37 /\ Len(s) >= 3
         THEN unescape(SubSeq(s, 4, Len(s)), Append(value, (HexDigit(s[2]) * 16 + HexDigit(s[3])) % 256))
         ELSE unescape(Tail(s), Append(value, s[1]))

RECURSIVE SkipBlanks(_)
SkipBlanks(s) == IF s # <<>> /\ Blank(s[1]) THEN SkipBlanks(Tail(s)) ELSE s

getAttributeAnywhere(list, attr) ==
    LET Rest(i) == SkipBlanks(SubSeq(list, i + Len(attr), Len(list)))
        at == {i \in 1..(Len(list) - Len(attr) + 1) :
                  /\ SubSeq(list, i, i + Len(attr) - 1) = attr
                  /\ Rest(i) # <<>> /\ Rest(i)[1] = 61}
    IN IF at = {} THEN null ELSE unescape(SkipBlanks(Tail(Rest(Min(at)))), <<>>)
getAttribute(list, attr) ==
    LET Rest(i) == SkipBlanks(SubSeq(list, i + Len(attr), Len(list)))
        at == {i \in 1..(Len(list) - Len(attr) + 1) :
                  /\ SubSeq(list, i, i + Len(attr) - 1) = attr
                  /\ i = 1 \/ list[i - 1] = Comma \/ list[i - 1] <= 32
                  /\ Rest(i) # <<>> /\ Rest(i)[1] = 61}
    IN IF at = {} THEN null ELSE unescape(SkipBlanks(Tail(Rest(Min(at)))), <<>>)

getServiceName(s) ==
    LET Attribute(list) == IF list = null THEN null ELSE getAttribute(list, ServiceName)
        names == <<s.property, s.env, Attribute(s.properties), Attribute(s.envs)>>
        given == {i \in DOMAIN names : names[i] # null /\ names[i] # <<>>}
    IN IF given = {} THEN null ELSE names[Min(given)]

-----------------------------------------------------------------------------
(* Recorder. A sample of the storage is a trace of frames, which may not   *)
(* be complete yet, its number of samples and its counter; a               *)
(* frame is its name and whether it is that of a thread.                   *)
NewRecorder ==
    [threads |-> NewIndex, functions |-> NewIndex, stacks |-> message(7, NestedBytes, <<>>), info |-> <<>>]

Skipped(cts) == ~cts.complete \/ cts.excluded \/ cts.samples = 0

recordFrame(s, frame) ==
    IF frame.thread
    THEN LET threads == Insert(s.threads, frame.name)
         IN [s EXCEPT !.threads = threads, !.thread = indexOf(threads, frame.name)]
    ELSE LET functions == Insert(s.functions, frame.name)
         IN [s EXCEPT !.functions = functions, !.bytes = @ \o putVarInt(indexOf(functions, frame.name))]

recordStackCountingAll(r, cts) ==
    LET s == FoldLeft(recordFrame, [functions |-> r.functions, threads |-> r.threads, thread |-> 0,
                                    bytes |-> <<>>], cts.trace)
        info == Append(r.info, [samples |-> cts.samples, counter |-> cts.counter, thread |-> s.thread])
    IN IF Skipped(cts) THEN [r EXCEPT !.info = info]
       ELSE [functions |-> s.functions, threads |-> s.threads, info |-> info,
             stacks |-> r.stacks \o message(7, NestedBytes, message(1, NestedBytes, s.bytes))]
recordStack(r, cts) ==
    LET s == FoldLeft(recordFrame, [functions |-> r.functions, threads |-> r.threads, thread |-> 0,
                                    bytes |-> <<>>], cts.trace)
        info == Append(r.info, [samples |-> cts.samples, counter |-> cts.counter, thread |-> s.thread])
    IN IF Skipped(cts) THEN r
       ELSE [functions |-> s.functions, threads |-> s.threads, info |-> info,
             stacks |-> r.stacks \o message(7, NestedBytes, message(1, NestedBytes, s.bytes))]
recordStacks(samples) == FoldLeft(recordStack, NewRecorder, samples)

(* The names of the functions and the key of the threads become strings    *)
(* before the strings are written.                                         *)
Strings(r) == Insert(FoldLeft(Insert, <<<<>>, EngineType, EngineUnits, Count>>, r.functions), ThreadName)
recordProfilesDictionary(r) ==
    LET strings == Strings(r)
        link == message(4, 1, fieldBytes(1, [i \in 1..16 |-> 0]) \o fieldBytes(2, [i \in 1..8 |-> 0]))
        Function(name) == message(3, 1, field(1, indexOf(strings, name)))
        Location(i) == message(2, 1, IF i = 1 THEN <<>> ELSE field(1, 0) \o message(3, 1, field(1, i - 1)))
        Thread(i) == message(6, NestedBytes,
                             IF i = 1 THEN <<>>
                             ELSE field(1, indexOf(strings, ThreadName))
                                  \o message(2, NestedBytes, fieldBytes(1, r.threads[i])))
    IN message(2, NestedBytes,
               r.stacks \o message(1, 1, <<>>) \o link
               \o FlattenSeq([i \in DOMAIN r.functions |-> Function(r.functions[i])])
               \o FlattenSeq([i \in DOMAIN r.functions |-> Location(i)])
               \o FlattenSeq([i \in DOMAIN r.threads |-> Thread(i)])
               \o FlattenSeq([i \in DOMAIN strings |-> fieldBytes(5, strings[i])]))

recordValueType(index, type_strindex, unit_strindex) ==
    message(index, 1, field(1, type_strindex) \o field(2, unit_strindex))

recordOtlpProfile(r, type_strindex, unit_strindex, samples) ==
    LET Sample(i) == LET si == r.info[i]
                     IN message(2, 1, field(1, i) \o (IF si.thread # 0 THEN field(2, si.thread) ELSE <<>>)
                                      \o field(4, IF samples THEN si.samples ELSE si.counter))
    IN message(2, NestedBytes,
               fieldFixed64(3, StartNanos) \o field(4, Duration) \o recordValueType(1, type_strindex, unit_strindex)
               \o recordValueType(5, indexOf(Strings(r), EngineType), indexOf(Strings(r), EngineUnits))
               \o field(6, IF Period > 0 THEN Period ELSE 1)
               \o FlattenSeq([i \in DOMAIN r.info |-> Sample(i)]))

recordResource(sources) ==
    LET service_name == getServiceName(sources)
    IN IF service_name = null THEN <<>>
       ELSE message(1, NestedBytes, message(1, NestedBytes,
                fieldBytes(1, ServiceName) \o message(2, NestedBytes, fieldBytes(1, service_name))))

record(call_trace_samples, samples, sources) ==
    LET r == recordStacks(call_trace_samples)
        unit_strindex == indexOf(Strings(r), IF samples THEN Count ELSE EngineUnits)
    IN recordProfilesDictionary(r)
       \o message(1, NestedBytes, recordResource(sources) \o message(2, NestedBytes,
              recordOtlpProfile(r, indexOf(Strings(r), EngineType), unit_strindex, samples)))

-----------------------------------------------------------------------------
(* A reader of the format, from its definition alone; what is cut short or *)
(* missing is empty.                                                       *)
RECURSIVE VarIntAt(_, _)
VarIntAt(s, i) ==   \* the value, and the index of the byte after it
    IF i > Len(s) THEN <<0, i>>
    ELSE IF s[i] < 128 THEN <<s[i], i + 1>>
    ELSE LET rest == VarIntAt(s, i + 1) IN <<s[i] - 128 + 128 * (rest[1] % 2^20), rest[2]>>
Slice(s, from, to) == SubSeq(s, from, Min({to, Len(s)}))

(* The value of a field of this kind at i, and the index after it.         *)
ValueAt(s, kind, i, n) ==
    CASE kind = VARINT -> n
      [] kind = I64 -> <<Slice(s, i, i + 7), i + 8>>
      [] OTHER -> <<Slice(s, n[2], n[2] + n[1] - 1), n[2] + n[1]>>

RECURSIVE Fields(_)
FieldAndRest(s, head, value) ==
    <<[index |-> head \div 8, kind |-> head % 8, value |-> value[1]]>> \o Fields(SubSeq(s, value[2], Len(s)))
TagAndRest(s, t) == FieldAndRest(s, t[1], ValueAt(s, t[1] % 8, t[2], VarIntAt(s, t[2])))
Fields(s) == IF s = <<>> THEN <<>> ELSE TagAndRest(s, VarIntAt(s, 1))

First(values, default) == IF values = <<>> THEN default ELSE values[1]
At(table, i) == IF i + 1 \in DOMAIN table THEN table[i + 1] ELSE <<>>
Mapped(F(_), values) == [i \in DOMAIN values |-> F(values[i])]
Get(fields, index, kind) ==
    Mapped(LAMBDA f : f.value, SelectSeq(fields, LAMBDA f : f.index = index /\ f.kind = kind))
Number(fields, index) == First(Get(fields, index, VARINT), 0)
Bytes(fields, index, kind) == First(Get(fields, index, kind), <<>>)
Inner(fields, index) == Fields(Bytes(fields, index, LEN))
Entry(fields, index, i) == At(Get(fields, index, LEN), i)
Message(fields, index, i) == Fields(Entry(fields, index, i))
RECURSIVE VarInts(_)
VarIntAndRest(s, n) == <<n[1]>> \o VarInts(SubSeq(s, n[2], Len(s)))
VarInts(s) == IF s = <<>> THEN <<>> ELSE VarIntAndRest(s, VarIntAt(s, 1))

(* dictionary, profile, a, v and s are the fields of a message.            *)
StringAt(dictionary, i) == Entry(dictionary, 5, i)
FunctionAt(dictionary, i) == StringAt(dictionary, Number(Message(dictionary, 3, i), 1))
LocationAt(dictionary, i) == FunctionAt(dictionary, Number(Inner(Message(dictionary, 2, i), 3), 1))
StackAt(dictionary, i) ==
    Mapped(LAMBDA l : LocationAt(dictionary, l), VarInts(Bytes(Message(dictionary, 7, i), 1, LEN)))
Attribute(dictionary, a) == <<StringAt(dictionary, Number(a, 1)), Bytes(Inner(a, 2), 1, LEN)>>
TypeOf(dictionary, v) == <<StringAt(dictionary, Number(v, 1)), StringAt(dictionary, Number(v, 2))>>
SampleOf(dictionary, s) ==
    [stack |-> StackAt(dictionary, Number(s, 1)), value |-> Number(s, 4),
     thread |-> Mapped(LAMBDA i : Attribute(dictionary, Message(dictionary, 6, i)), Get(s, 2, VARINT))]
ReadProfile(dictionary, profile) ==
    [zero |-> <<StringAt(dictionary, 0), Entry(dictionary, 7, 0), Entry(dictionary, 2, 0), Entry(dictionary, 6, 0)>>,
     start |-> Bytes(profile, 3, I64),
     numbers |-> <<Number(profile, 4), Number(profile, 6)>>,
     types |-> <<TypeOf(dictionary, Inner(profile, 1)), TypeOf(dictionary, Inner(profile, 5))>>,
     samples |-> Mapped(LAMBDA s : SampleOf(dictionary, Fields(s)), Get(profile, 2, LEN))]
ReadOutput(fields) == ReadProfile(Inner(fields, 2), Inner(Inner(Inner(fields, 1), 2), 2))
ReadSamples(bytes) == ReadOutput(Fields(bytes))

KeyAndValue(a) == <<Bytes(a, 1, LEN), Bytes(Inner(a, 2), 1, LEN)>>
ReadService(bytes) ==
    First(Mapped(LAMBDA r : KeyAndValue(Inner(Fields(r), 1)), Get(Inner(Fields(bytes), 1), 1, LEN)), null)

NamesOf(trace, thread) == Mapped(LAMBDA f : f.name, SelectSeq(trace, LAMBDA f : f.thread = thread))
LastName(names) == IF names = <<>> THEN <<>> ELSE <<<<ThreadName, Last(names)>>>>
Expected(cts, samples) ==
    [stack |-> NamesOf(cts.trace, FALSE), thread |-> LastName(NamesOf(cts.trace, TRUE)),
     value |-> IF samples THEN cts.samples ELSE cts.counter]

(* A reader of the output finds every sample whose trace was complete and  *)
(* not excluded, with the names of its frames, the name of its thread when *)
(* it has one, and its value; and the first entry of each table is the     *)
(* empty one.                                                              *)
OtlpReadable(bytes, call_trace_samples, samples) ==
    ReadSamples(bytes) =
        [samples |-> Mapped(LAMBDA cts : Expected(cts, samples), SelectSeq(call_trace_samples, LAMBDA cts : ~Skipped(cts))),
         types |-> <<<<EngineType, IF samples THEN Count ELSE EngineUnits>>, <<EngineType, EngineUnits>>>>,
         start |-> StartNanos,
         numbers |-> <<Duration, IF Period > 0 THEN Period ELSE 1>>,
         zero |-> <<<<>>, <<>>, <<>>, <<>>>>]
=============================================================================
