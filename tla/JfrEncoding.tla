----------------------------- MODULE JfrEncoding -----------------------------
(***************************************************************************)
(* The bytes of a recording: the Buffer of flightRecorder.cpp, what each   *)
(* record function writes, and the layout that jfrMetadata.cpp declares    *)
(* for it, by which a reader takes the bytes apart again.                  *)
(*                                                                         *)
(* An unsigned number is the sequence of its ten digits to the base 128,   *)
(* the lowest first, so that all 64 bits are there; a number of 32 bits    *)
(* has zeros from the sixth on. A string is null or a sequence of bytes.   *)
(* An event is a function from the names of its fields to their values.    *)
(***************************************************************************)
EXTENDS Integers, Sequences, FiniteSets, SequencesExt, FiniteSetsExt, TLC

CONSTANTS MAX_STRING_LENGTH, MAX_USER_DATA

Number(n) == [i \in 1..10 |-> IF i = 1 THEN n % 128 ELSE IF i = 2 THEN (n \div 128) % 128 ELSE 0]
Small(v) == v[1] + 128 * v[2] + 16384 * v[3]
MIN_JLONG == [i \in 1..10 |-> IF i = 10 THEN 1 ELSE 0]
MAX_JLONG == [i \in 1..10 |-> IF i = 10 THEN 0 ELSE 127]
null == <<-1>>           \* not a string of bytes

-----------------------------------------------------------------------------
(* Buffer. A number ends with the first byte below 128.                    *)

Significant(v) == LET high == {i \in DOMAIN v : v[i] # 0} IN IF high = {} THEN 1 ELSE Max(high)

putVar32(v) ==
    LET n == Significant(v)
    IN [i \in 1..n |-> v[i] + (IF i < n THEN 128 ELSE 0)]

(* Three bytes at a time while more than 21 bits are left; the third round *)
(* is the last one, and its last byte has its high bit set like the others.*)
RECURSIVE Var64From(_, _)
Var64From(v, iter) ==
    IF Significant(v) <= 3 THEN putVar32(v)
    ELSE [i \in 1..3 |-> v[i] + 128]
         \o (IF iter = 3 THEN <<>> ELSE Var64From(SubSeq(v, 4, Len(v)), iter + 1))
putVar64(v) == Var64From(v, 1)

(* A size that is patched into five bytes left out for it.                 *)
putVar32At(n) == [i \in 1..5 |-> IF i = 5 THEN n \div 268435456 ELSE 128 + ((n \div 128 ^ (i - 1)) % 128)]

put8(n) == <<n>>
putFloat(v) == v
putUtf8(s) ==
    IF s = null THEN put8(0)
    ELSE LET t == SubSeq(s, 1, Min({Len(s), MAX_STRING_LENGTH})) IN put8(3) \o putVar32(Number(Len(t))) \o t
putByteString(s, limit) ==
    IF s = null THEN put8(0)
    ELSE LET t == SubSeq(s, 1, Min({Len(s), limit})) IN put8(5) \o putVar32(Number(Len(t))) \o t

(* An event with its size in one byte or in five, patched at the end.      *)
Sized1(fields) == LET body == FlattenSeq(fields) IN put8(Len(body) + 1) \o body
Sized5(fields) == LET body == FlattenSeq(fields) IN putVar32At(Len(body) + 5) \o body

-----------------------------------------------------------------------------
(* What is written for an event, in the order of the code.                 *)

recordExecutionSample(e) ==
    Sized1(<<put8(101), putVar64(e.startTime), putVar32(e.sampledThread), putVar32(e.stackTrace), putVar32(e.state)>>)
recordSignalSample(e) ==
    Sized1(<<put8(126), putVar64(e.startTime), putVar32(e.eventThread), putVar32(e.stackTrace),
             putVar64(e.correlationId), putVar64(e.monotonicTimeNanos)>>)
recordSignalCaptureStatsSwapped(e) ==
    Sized5(<<putVar32(Number(128)), putVar64(e.startTime), putVar32(e.schemaVersion), putUtf8(e.sessionId),
             putVar64(e.captureEpoch), putVar64(e.admittedSignals), putVar64(e.invalidSignalCode), putVar64(e.zeroCookie),
             putVar64(e.staleEpoch), putVar64(e.zeroSequence), putVar64(e.acceptedCookies), putVar64(e.captureFailures),
             putVar64(e.submittedSamples)>>)
recordSignalCaptureStats(e) ==
    Sized5(<<putVar32(Number(128)), putVar64(e.startTime), putVar32(e.schemaVersion), putUtf8(e.sessionId),
             putVar64(e.captureEpoch), putVar64(e.admittedSignals), putVar64(e.invalidSignalCode), putVar64(e.zeroCookie),
             putVar64(e.zeroSequence), putVar64(e.staleEpoch), putVar64(e.acceptedCookies), putVar64(e.captureFailures),
             putVar64(e.submittedSamples)>>)
writeSignalCaptureContext(e) ==
    Sized5(<<put8(127), putVar64(e.startTime), putVar32(e.schemaVersion), putUtf8(e.sessionId), putVar64(e.captureEpoch),
             putVar32(e.signal), putUtf8(e.signalDelivery), putVar64(e.processId), putVar64(e.processStartTimeMillis)>>)
recordMethodTrace(e) ==
    Sized1(<<put8(115), putVar64(e.startTime), putVar64(e.duration), putVar32(e.eventThread), putVar32(e.stackTrace),
             putVar32(Number(0))>>)
recordWallClockSample(e) ==
    Sized1(<<put8(119), putVar64(e.startTime), putVar32(e.sampledThread), putVar32(e.stackTrace), putVar32(e.state),
             putVar32(e.samples), putVar64(e.timeSpan)>>)
recordAllocationInNewTLAB(e) ==
    Sized1(<<put8(102), putVar64(e.startTime), putVar32(e.eventThread), putVar32(e.stackTrace), putVar32(e.objectClass),
             putVar64(e.allocationSize), putVar64(e.tlabSize)>>)
recordAllocationOutsideTLAB(e) ==
    Sized1(<<put8(103), putVar64(e.startTime), putVar32(e.eventThread), putVar32(e.stackTrace), putVar32(e.objectClass),
             putVar64(e.allocationSize)>>)
recordMallocSample(e) ==
    Sized1(<<put8(120), putVar64(e.startTime), putVar32(e.eventThread), putVar32(e.stackTrace), putVar64(e.address),
             putVar64(e.size)>>)
recordFreeSample(e) ==   \* recordMallocSample of a size of zero
    Sized1(<<put8(121), putVar64(e.startTime), putVar32(e.eventThread), putVar32(e.stackTrace), putVar64(e.address)>>)
recordUserEvent(e) ==
    Sized5(<<put8(124), putVar64(e.startTime), putVar32(e.eventThread), putVar32(e.type),
             putByteString(e.data, MAX_USER_DATA)>>)
recordProcessSample(e) ==
    Sized5(<<put8(125), putVar64(e.startTime), putVar32(e.pid), putVar32(e.ppid),
             putByteString(e.name, MAX_STRING_LENGTH), putByteString(e.cmdLine, MAX_STRING_LENGTH),
             putVar32(e.uid), put8(e.state), putVar64(e.processStartTime), putFloat(e.cpuUser),
             putFloat(e.cpuSystem), putFloat(e.cpuPercent), putVar32(e.threads), putVar64(e.vmSize), putVar64(e.vmRss),
             putVar64(e.rssAnon), putVar64(e.rssFiles), putVar64(e.rssShmem), putVar64(e.minorFaults),
             putVar64(e.majorFaults), putVar64(e.ioRead), putVar64(e.ioWrite)>>)
recordLiveObject(e) ==
    Sized1(<<put8(118), putVar64(e.startTime), putVar32(e.eventThread), putVar32(e.stackTrace), putVar32(e.objectClass),
             putVar64(e.allocationSize), putVar64(e.allocationTime)>>)
recordMonitorBlocked(e) ==
    Sized1(<<put8(104), putVar64(e.startTime), putVar64(e.duration), putVar32(e.eventThread), putVar32(e.stackTrace),
             putVar32(e.monitorClass), put8(0), putVar64(e.address)>>)
recordThreadPark(e) ==
    Sized1(<<put8(105), putVar64(e.startTime), putVar64(e.duration), putVar32(e.eventThread), putVar32(e.stackTrace),
             putVar32(e.parkedClass), putVar64(e.timeout), putVar64(MIN_JLONG), putVar64(e.address)>>)
recordNativeLockSample(e) ==
    Sized1(<<put8(122), putVar64(e.startTime), putVar64(e.duration), putVar32(e.eventThread), putVar32(e.stackTrace),
             putVar64(e.address)>>)
recordWindow(e) ==
    Sized1(<<put8(117), putVar64(e.startTime), putVar64(e.duration), putVar32(e.eventThread)>>)
recordSpan(e) ==
    Sized1(<<put8(123), putVar64(e.startTime), putVar64(e.duration), putVar32(e.eventThread), putVar32(e.tag)>>)
recordCpuLoad(e) ==
    Sized1(<<put8(106), putVar64(e.startTime), putFloat(e.jvmUser), putFloat(e.jvmSystem), putFloat(e.machineTotal)>>)
recordHeapSummary(e) ==
    Sized1(<<put8(114), putVar64(e.startTime), putVar32(e.gcId), putVar32(e.when), putVar64(e.start),
             putVar64(e.committedEnd), putVar64(e.committedSize), putVar64(e.reservedEnd), putVar64(e.reservedSize),
             putVar64(e.heapUsed)>>)
recordLog(e) == Sized5(<<put8(116), putVar64(e.startTime), put8(Small(e.level)), putUtf8(e.message)>>)

writeRecordingInfo(e) ==
    Sized1(<<put8(107), putVar64(e.startTime), putVar32(e.id), putUtf8(e.name), putUtf8(e.destination),
             putVar64(MAX_JLONG), putVar32(Number(0)), putVar64(e.recordingStart), putVar64(MAX_JLONG)>>)
writeStringSetting(e) ==
    Sized5(<<put8(108), putVar64(e.startTime), putVar32(e.id), putUtf8(e.name), putUtf8(e.value)>>)
writeOsInfo(e) == Sized5(<<put8(109), putVar64(e.startTime), putUtf8(e.osVersion)>>)
writeCpuInfo(e) ==
    Sized5(<<put8(110), putVar64(e.startTime), putUtf8(e.cpu), putUtf8(e.description), putVar32(e.sockets),
             putVar32(e.cores), putVar32(e.hwThreads)>>)
writeJvmInfo(e) ==
    Sized5(<<put8(111), putVar64(e.startTime), putUtf8(e.jvmName), putUtf8(e.jvmVersion), putUtf8(e.jvmArguments),
             putUtf8(e.jvmFlags), putUtf8(e.javaArguments), putVar64(e.jvmStartTime), putVar32(e.pid)>>)
writeSystemProperties(e) == Sized5(<<put8(112), putVar64(e.startTime), putUtf8(e.key), putUtf8(e.value)>>)
writeNativeLibraries(e) ==
    Sized5(<<put8(113), putVar64(e.startTime), putUtf8(e.name), putVar64(e.baseAddress), putVar64(e.topAddress)>>)

-----------------------------------------------------------------------------
(* The metadata: the fields of each type of event. A field of T_LONG or    *)
(* T_INT and an index of a constant pool is a number; a field that is a    *)
(* structure stands here with the fields of the structure.                 *)

Num(name) == <<name, "number">>
Str(name) == <<name, "string">>
Flt(name) == <<name, "float">>
Byt(name) == <<name, "byte">>
Sample == <<Num("startTime"), Num("eventThread"), Num("stackTrace")>>
Timed == <<Num("startTime"), Num("duration"), Num("eventThread")>>
Sampled == <<Num("startTime"), Num("sampledThread"), Num("stackTrace"), Num("state")>>

SampleFields ==
    (101 :> Sampled)
    @@ (126 :> Sample \o <<Num("correlationId"), Num("monotonicTimeNanos")>>)
    @@ (127 :> <<Num("startTime"), Num("schemaVersion"), Str("sessionId"), Num("captureEpoch"), Num("signal"),
                 Str("signalDelivery"), Num("processId"), Num("processStartTimeMillis")>>)
    @@ (128 :> <<Num("startTime"), Num("schemaVersion"), Str("sessionId"), Num("captureEpoch"), Num("admittedSignals"),
                 Num("invalidSignalCode"), Num("zeroCookie"), Num("zeroSequence"), Num("staleEpoch"),
                 Num("acceptedCookies"), Num("captureFailures"), Num("submittedSamples")>>)
    @@ (102 :> Sample \o <<Num("objectClass"), Num("allocationSize"), Num("tlabSize")>>)
    @@ (103 :> Sample \o <<Num("objectClass"), Num("allocationSize")>>)
    @@ (104 :> Timed \o <<Num("stackTrace"), Num("monitorClass"), Num("previousOwner"), Num("address")>>)
    @@ (105 :> Timed \o <<Num("stackTrace"), Num("parkedClass"), Num("timeout"), Num("until"), Num("address")>>)
RecordingFields ==
    (106 :> <<Num("startTime"), Flt("jvmUser"), Flt("jvmSystem"), Flt("machineTotal")>>)
    @@ (107 :> <<Num("startTime"), Num("id"), Str("name"), Str("destination"), Num("maxAge"), Num("maxSize"),
                 Num("recordingStart"), Num("recordingDuration")>>)
    @@ (108 :> <<Num("startTime"), Num("id"), Str("name"), Str("value")>>)
    @@ (109 :> <<Num("startTime"), Str("osVersion")>>)
    @@ (110 :> <<Num("startTime"), Str("cpu"), Str("description"), Num("sockets"), Num("cores"), Num("hwThreads")>>)
    @@ (111 :> <<Num("startTime"), Str("jvmName"), Str("jvmVersion"), Str("jvmArguments"), Str("jvmFlags"),
                 Str("javaArguments"), Num("jvmStartTime"), Num("pid")>>)
    @@ (112 :> <<Num("startTime"), Str("key"), Str("value")>>)
    @@ (113 :> <<Num("startTime"), Str("name"), Num("baseAddress"), Num("topAddress")>>)
    @@ (114 :> <<Num("startTime"), Num("gcId"), Num("when"), Num("start"), Num("committedEnd"), Num("committedSize"),
                 Num("reservedEnd"), Num("reservedSize"), Num("heapUsed")>>)
ExtraFields ==
    (115 :> Timed \o <<Num("stackTrace"), Num("method")>>)
    @@ (116 :> <<Num("startTime"), Num("level"), Str("message")>>)
    @@ (117 :> Timed)
    @@ (118 :> Sample \o <<Num("objectClass"), Num("allocationSize"), Num("allocationTime")>>)
    @@ (119 :> Sampled \o <<Num("samples"), Num("timeSpan")>>)
    @@ (120 :> Sample \o <<Num("address"), Num("size")>>)
    @@ (121 :> Sample \o <<Num("address")>>)
    @@ (122 :> Timed \o <<Num("stackTrace"), Num("address")>>)
    @@ (123 :> Timed \o <<Num("tag")>>)
    @@ (124 :> <<Num("startTime"), Num("eventThread"), Num("type"), Str("data")>>)
    @@ (125 :> <<Num("startTime"), Num("pid"), Num("ppid"), Str("name"), Str("cmdLine"), Num("uid"), Byt("state"),
                 Num("processStartTime"), Flt("cpuUser"), Flt("cpuSystem"), Flt("cpuPercent"), Num("threads"),
                 Num("vmSize"), Num("vmRss"), Num("rssAnon"), Num("rssFiles"), Num("rssShmem"), Num("minorFaults"),
                 Num("majorFaults"), Num("ioRead"), Num("ioWrite")>>)
JfrMetadata == SampleFields @@ RecordingFields @@ ExtraFields

record(type, e) ==
    CASE type = 101 -> recordExecutionSample(e) [] type = 102 -> recordAllocationInNewTLAB(e)
      [] type = 103 -> recordAllocationOutsideTLAB(e) [] type = 104 -> recordMonitorBlocked(e)
      [] type = 105 -> recordThreadPark(e) [] type = 106 -> recordCpuLoad(e) [] type = 107 -> writeRecordingInfo(e)
      [] type = 108 -> writeStringSetting(e) [] type = 109 -> writeOsInfo(e) [] type = 110 -> writeCpuInfo(e)
      [] type = 111 -> writeJvmInfo(e) [] type = 112 -> writeSystemProperties(e) [] type = 113 -> writeNativeLibraries(e)
      [] type = 114 -> recordHeapSummary(e) [] type = 115 -> recordMethodTrace(e) [] type = 116 -> recordLog(e)
      [] type = 117 -> recordWindow(e) [] type = 118 -> recordLiveObject(e) [] type = 119 -> recordWallClockSample(e)
      [] type = 120 -> recordMallocSample(e) [] type = 121 -> recordFreeSample(e) [] type = 122 -> recordNativeLockSample(e)
      [] type = 123 -> recordSpan(e) [] type = 124 -> recordUserEvent(e) [] type = 125 -> recordProcessSample(e)
      [] type = 126 -> recordSignalSample(e) [] type = 127 -> writeSignalCaptureContext(e)
      [] type = 128 -> recordSignalCaptureStats(e)

-----------------------------------------------------------------------------
(* JfrReader of the converter: up to eight bytes of seven bits and a ninth *)
(* one of eight.                                                           *)

getVarlong(bytes, at) ==
    LET last == CHOOSE n \in 0..8 : /\ n = 8 \/ bytes[at + n] < 128
                                    /\ \A m \in 0..(n - 1) : bytes[at + m] >= 128
    IN [value |-> [i \in 1..10 |-> IF i <= last + 1 THEN bytes[at + i - 1] % 128
                                   ELSE IF i = 10 /\ last = 8 THEN bytes[at + 8] \div 128 ELSE 0],
        next |-> at + last + 1]

getString(bytes, at) ==
    IF bytes[at] = 0 THEN [value |-> null, next |-> at + 1]
    ELSE LET len == getVarlong(bytes, at + 1)
         IN [value |-> SubSeq(bytes, len.next, len.next + Small(len.value) - 1), next |-> len.next + Small(len.value)]

ReadField(kind, bytes, at) ==
    CASE kind = "number" -> getVarlong(bytes, at)
      [] kind = "string" -> getString(bytes, at)
      [] kind = "float" -> [value |-> SubSeq(bytes, at, at + 3), next |-> at + 4]
      [] kind = "byte" -> [value |-> bytes[at], next |-> at + 1]

(* The fields of a list from the index at, its first half first.           *)
RECURSIVE ReadFields(_, _, _)
Halves(bytes, first, second) ==
    LET rest == ReadFields(bytes, second, first.next)
    IN [event |-> first.event @@ rest.event, next |-> rest.next]
ReadFields(bytes, fields, at) ==
    IF Len(fields) = 1
    THEN LET f == fields[1]
             r == ReadField(f[2], bytes, at)
         IN [event |-> f[1] :> r.value, next |-> r.next]
    ELSE LET half == Len(fields) \div 2
         IN Halves(bytes, ReadFields(bytes, SubSeq(fields, 1, half), at), SubSeq(fields, half + 1, Len(fields)))

ReadEvent(bytes) ==
    LET size == getVarlong(bytes, 1)
        type == getVarlong(bytes, size.next)
        end == ReadFields(bytes, JfrMetadata[Small(type.value)], type.next)
    IN [size |-> Small(size.value), type |-> Small(type.value), read |-> end.next - 1, event |-> end.event]
=============================================================================
