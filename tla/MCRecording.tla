---------------------------- MODULE MCRecording ----------------------------
(***************************************************************************)
(* Where samples go, for TLC: the flight recorder, the constant pools of   *)
(* its chunks, and the three lock-free stores behind the samplers (the     *)
(* call trace storage, the allocator of its traces and the dictionary). A  *)
(* behaviour explores one of them, `part`, and leaves the others in their  *)
(* initial state: the stores meet only in the trace storage's use of the   *)
(* allocator, of which it needs no more than BlocksSound. The dictionary   *)
(* and the pools, which are never in use together, share p1..p11.          *)
(***************************************************************************)
EXTENDS Recorder, LinearAllocator, TLC

CONSTANTS a1, a2, k1, k2, k3, k4, w1, w2, l1, NoKey, NoTable

TwoThreads == {a1, a2}
TwoWriters == {w1, w2}
OneLogger == {l1}

(* Three keys meet in a row of two cells; k4 has a row of its own.         *)
MCRowAt(key, depth) == IF key = k4 THEN 1 ELSE 0

(* Two threads that record are alike, and two that allocate or look up.    *)
ThreadSymmetry == Permutations({w1, w2}) \cup Permutations({a1, a2})

(* Java, native, kernel, class and CPU frames, and a frame without method. *)
F(kind, id, name, class) == [kind |-> kind, id |-> id, name |-> name, sig |-> <<"(", ")", "V">>, class |-> class]
TwoTraces ==
    <<<<F("native", <<"n">>, <<"f", "_", "[", "k", "]">>, <<"[", "l", "]">>),
        F("java", <<"j">>, <<"m">>, <<"p", "/", "C">>), F("java", <<"null">>, <<>>, <<>>)>>,
      <<F("java", <<"j">>, <<"m">>, <<"p", "/", "C">>), F("class", <<"c">>, <<>>, <<"p", "/", "D", "/", "0">>),
        F("cpu", <<"u">>, <<"0">>, <<>>)>>>>
ArrayClass == {<<"[", "L", "q", "/", "E", ";">>}
OneTag == {<<"a">>}

VARIABLES
    part,
    keys, traced, samples, counter, size, current, memory, overflow, op, sweep, due, given, puts, late, missed,
    begun, sweeps,
    p1, p2, p3, p4, p5, p6, p7, p8, p9, p10, p11

(* Writers that do all they can do are too many states: samples of both    *)
(* kinds, then samples with user events and files that fail, then user     *)
(* events, the log and files that fail.                                    *)
Plain == INSTANCE Recorder WITH Kinds <- {"sample", "external"}, Loggers <- {}, FileFaults <- FALSE
Faulty == INSTANCE Recorder WITH Kinds <- {"sample", "user"}, Loggers <- {}
Logged == INSTANCE Recorder WITH Kinds <- {"user"}

(* Two hashes that collide in the table of two slots, with a collection, a *)
(* reset or a clear; three that fill it, with none.                        *)
Storage == INSTANCE CallTraceStorage WITH
    Inside <- {"in"}, Outside <- {"out"}, Hashes <- {1, 3}, Uncounted <- {1}, Initial <- 2, MaxTables <- 2,
    MemLimits <- {2, 6}, MaxPuts <- 3, MaxSweeps <- 1
Crowded == INSTANCE CallTraceStorage WITH
    Inside <- {"in"}, Outside <- {"out"}, Hashes <- {1, 3, 5}, Uncounted <- {}, Initial <- 2, MaxTables <- 2,
    MemLimits <- {6}, MaxPuts <- 3, MaxSweeps <- 0

Dict == INSTANCE Dictionary WITH
    Readers <- {a1, a2}, Keys <- {k1, k2, k3, k4}, Rows <- 2, CellsPerRow <- 2, RowAt <- MCRowAt, MaxDepth <- 3,
    MaxDictTables <- 6, MaxLookups <- 5, MaxDictClears <- 1,
    cells <- p1, next <- p2, base <- p3, baseIndex <- p4, live <- p5, allocs <- p6, lookup <- p7, answers <- p8,
    lookups <- p9, dictClears <- p10

Pools == INSTANCE JfrPools WITH
    Threads <- {w1}, Traces <- TwoTraces, ObjectClasses <- ArrayClass, Tags <- OneTag, EventTypes <- {"x"},
    MaxEvents <- 1, MaxChunks <- 1, MaxStarts <- 2,
    methods <- p1, classes <- p2, traces <- p3, types <- p4, strings <- p5, threads <- p6, stale <- p7, pending <- p8,
    events <- p9, count <- p10, chunk <- p11

ASSUME Shapes ==
    /\ RecorderShape /\ Plain!RecorderShape /\ Faulty!RecorderShape /\ Logged!RecorderShape
    /\ Storage!StorageShape /\ Crowded!StorageShape /\ Dict!DictionaryShape

storageVars == <<keys, traced, samples, counter, size, current, memory, overflow, op, sweep, due, given, puts, late,
                 missed, begun, sweeps>>
poolVars == <<p1, p2, p3, p4, p5, p6, p7, p8, p9, p10, p11>>
Unused == "unused"
PoolsUnused ==
    /\ p1 = Unused /\ p2 = Unused /\ p3 = Unused /\ p4 = Unused /\ p5 = Unused /\ p6 = Unused
    /\ p7 = Unused /\ p8 = Unused /\ p9 = Unused /\ p10 = Unused /\ p11 = Unused

(* The first session has the larger limit.                                 *)
RecordingInit ==
    /\ Init /\ AllocInit /\ Storage!Init /\ memory.limit = 6
    /\ \/ part \in {"traces", "crowded", "alloc", "plain", "faulty", "logged"} /\ PoolsUnused
       \/ part = "dict" /\ Dict!DictInit /\ p11 = Unused
       \/ part = "pools" /\ Pools!Init

RecordingNext ==
    /\ UNCHANGED part
    /\ \/ part = "traces" /\ Storage!Next /\ UNCHANGED <<vars, allocVars, poolVars>>
       \/ part = "crowded" /\ Crowded!Next /\ UNCHANGED <<vars, allocVars, poolVars>>
       \/ part = "alloc" /\ AllocNext /\ UNCHANGED <<vars, storageVars, poolVars>>
       \/ part = "dict" /\ Dict!DictNext /\ UNCHANGED <<vars, allocVars, storageVars, p11>>
       \/ part = "plain" /\ Plain!Next /\ UNCHANGED <<allocVars, storageVars, poolVars>>
       \/ part = "faulty" /\ Faulty!Next /\ UNCHANGED <<allocVars, storageVars, poolVars>>
       \/ part = "logged" /\ Logged!Next /\ UNCHANGED <<allocVars, storageVars, poolVars>>
       \/ part = "pools" /\ Pools!Next /\ UNCHANGED <<vars, allocVars, storageVars>>

RecordingSpec == RecordingInit /\ [][RecordingNext]_<<part, vars, allocVars, storageVars, poolVars>>

-----------------------------------------------------------------------------
(* Every variable has the type of the C++ variable it stands for.          *)
TypesOK ==
    /\ part \in {"plain", "faulty", "logged"} => TypeOK
    /\ part = "alloc" => AllocTypeOK
    /\ part = "traces" => Storage!TypeOK
    /\ part = "crowded" => Crowded!TypeOK
    /\ part = "dict" => Dict!DictTypeOK
    /\ part = "pools" => Pools!TypeOK

(* Every id that put returned names the slot with its trace, and no trace  *)
(* has two slots in a table (CallTraceStorage); a key has one index and an *)
(* index one key, for every thread that looks it up and for collect, and   *)
(* no table leaks or is used after it was freed (Dictionary).              *)
EntriesResolve ==
    /\ part \in {"traces", "crowded"} => Storage!IdsResolve
    /\ part = "dict" => Dict!OneIndexPerKey /\ Dict!NoTableLeak

(* No sample of a stored trace is counted twice or forgotten, and a        *)
(* collection gives every trace that was stored before it began            *)
(* (CallTraceStorage).                                                     *)
SamplesConserved == part \in {"traces", "crowded"} => Storage!CountsConserved /\ Storage!CollectionComplete

(* put() overflows only when the memory limit is exceeded or the table it  *)
(* has got is full of other traces, and stores at most one more trace per  *)
(* thread above the limit (CallTraceStorage).                              *)
LimitsKept == Storage!LimitsKept

=============================================================================
