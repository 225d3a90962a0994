----------------------------- MODULE MCSamplers -----------------------------
(***************************************************************************)
(* The samplers, for TLC: the externally triggered event with its interval *)
(* (SignalThrottle), the wall clock engine (WallClock), the table of live  *)
(* objects (LiveRefs), the choice of signals (CookieSignal), and the       *)
(* engines that keep a timer or an event per thread (CpuTimers,            *)
(* PerfEvents). They share no state, so a behaviour explores one of them,  *)
(* `part`. SignalThrottle and CpuTimers have variables of their own; only  *)
(* one of the others being in use, these keep theirs in v1..v19.           *)
(***************************************************************************)
EXTENDS Integers, FiniteSets, Sequences, TLC, SignalThrottle, CpuTimers

CONSTANTS t1, t2

VARIABLES part, v1, v2, v3, v4, v5, v6, v7, v8, v9, v10, v11, v12, v13, v14, v15, v16, v17, v18, v19

shortVars == <<v1, v2, v3, v4, v5, v6, v7, v8, v9>>
middleVars == <<v10, v11, v12, v13, v14, v15, v16>>
longVars == <<v18, v19>>
samplerVars == <<shortVars, middleVars, v17, longVars>>

(* Two threads that meet in a ring of two cells, and one through batches   *)
(* and sessions.                                                           *)
Ring == INSTANCE WallClock WITH
    Threads <- {t1, t2}, RingSize <- 2, PerTick <- 1, MaxIdleBatch <- 2,
    IdleThreshold <- 0, BatchThreshold <- 1, MaxCpu <- 2, MaxCycles <- 1, MaxSessions <- 1,
    cpu <- v1, place <- v2, pending <- v3, handler <- v4, ring <- v5, writePtr <- v6, readPtr <- v7,
    tss <- v8, timer <- v9, running <- v10, enabled <- v11, ticks <- v12, recorded <- v13,
    late <- v14, overlap <- v15, cycles <- v16, sessions <- v17, refused <- v18

Batches == INSTANCE WallClock WITH
    Threads <- {t1}, RingSize <- 2, PerTick <- 1, MaxIdleBatch <- 2,
    IdleThreshold <- 0, BatchThreshold <- 1, MaxCpu <- 2, MaxCycles <- 3, MaxSessions <- 2,
    cpu <- v1, place <- v2, pending <- v3, handler <- v4, ring <- v5, writePtr <- v6, readPtr <- v7,
    tss <- v8, timer <- v9, running <- v10, enabled <- v11, ticks <- v12, recorded <- v13,
    late <- v14, overlap <- v15, cycles <- v16, sessions <- v17, refused <- v18

(* Three objects for a table of two; and two sessions, the first of which  *)
(* may leave the table full.                                               *)
Live == INSTANCE LiveRefs WITH
    Threads <- {t1, t2}, Objects <- {"a", "b", "c"}, MaxRefs <- 2, MaxSessions <- 1, MaxGcs <- 1,
    lock <- v1, refs <- v2, full <- v3, live <- v4, phase <- v5, at <- v6, pc <- v7, heap <- v8,
    weak <- v9, twice <- v10, counted <- v11, overtaken <- v12, recorded <- v13, gc <- v14,
    sessions <- v15, gcs <- v16, jfr <- v17, missed <- v18

Again == INSTANCE LiveRefs WITH
    Threads <- {t1, t2}, Objects <- {"a", "b", "c"}, MaxRefs <- 1, MaxSessions <- 2, MaxGcs <- 0,
    lock <- v1, refs <- v2, full <- v3, live <- v4, phase <- v5, at <- v6, pc <- v7, heap <- v8,
    weak <- v9, twice <- v10, counted <- v11, overtaken <- v12, recorded <- v13, gc <- v14,
    sessions <- v15, gcs <- v16, jfr <- v17, missed <- v18

(* Four signals, numbered in the order of nextAllowedSignal.               *)
Choice == INSTANCE CookieSignal WITH
    Standard <- {1, 2}, Coalescing <- {3}, RealTime <- {4}, MaxSessions <- 2, MaxChanges <- 2,
    disp <- v1, installed <- v2, reserved <- v3, reservedMode <- v4, preferred <- v5, start <- v6,
    engine <- v7, sessions <- v8, changes <- v9

(* Events opened by the profiler for two threads, up to the limit; for one *)
(* thread id, used again, where the hooks and the traversal meet and every *)
(* step may fail; events opened by the fdtransfer server for threads that  *)
(* share its socket; and one opened over a socket that may fail.           *)
Perf == INSTANCE PerfEvents WITH
    Tids <- {t1, t2}, UsePerfMmap <- TRUE, HasPeer <- FALSE, OpenFails <- {"limit"},
    SetupFails <- FALSE, SocketFails <- FALSE, MaxFds <- 1, MaxBirths <- 0,
    life <- v1, current <- v2, fd <- v3, page <- v4, lock <- v5, open <- v6, mapped <- v7,
    requests <- v8, responses <- v9, op <- v10, session <- v11, walking <- v12, armed <-
    v13, twice <- v14, overtaken <- v15, crossed <- v16, mixed <- v17, counts <- v18, births
    <- v19

Reborn == INSTANCE PerfEvents WITH
    Tids <- {t1}, UsePerfMmap <- TRUE, HasPeer <- FALSE, OpenFails <- {"limit", "other"},
    SetupFails <- TRUE, SocketFails <- FALSE, MaxFds <- 3, MaxBirths <- 2,
    life <- v1, current <- v2, fd <- v3, page <- v4, lock <- v5, open <- v6, mapped <- v7,
    requests <- v8, responses <- v9, op <- v10, session <- v11, walking <- v12, armed <-
    v13, twice <- v14, overtaken <- v15, crossed <- v16, mixed <- v17, counts <- v18, births
    <- v19

Peer == INSTANCE PerfEvents WITH
    Tids <- {t1, t2}, UsePerfMmap <- FALSE, HasPeer <- TRUE, OpenFails <- {},
    SetupFails <- FALSE, SocketFails <- FALSE, MaxFds <- 2, MaxBirths <- 1,
    life <- v1, current <- v2, fd <- v3, page <- v4, lock <- v5, open <- v6, mapped <- v7,
    requests <- v8, responses <- v9, op <- v10, session <- v11, walking <- v12, armed <-
    v13, twice <- v14, overtaken <- v15, crossed <- v16, mixed <- v17, counts <- v18, births
    <- v19

Socket == INSTANCE PerfEvents WITH
    Tids <- {t1}, UsePerfMmap <- TRUE, HasPeer <- TRUE, OpenFails <- {},
    SetupFails <- FALSE, SocketFails <- TRUE, MaxFds <- 3, MaxBirths <- 1,
    life <- v1, current <- v2, fd <- v3, page <- v4, lock <- v5, open <- v6, mapped <- v7,
    requests <- v8, responses <- v9, op <- v10, session <- v11, walking <- v12, armed <-
    v13, twice <- v14, overtaken <- v15, crossed <- v16, mixed <- v17, counts <- v18, births
    <- v19

ASSUME Shapes ==
    /\ ThrottleShape /\ CpuTimersShape
    /\ Ring!WallClockShape /\ Batches!WallClockShape /\ Live!LiveRefsShape /\ Again!LiveRefsShape
    /\ Choice!CookieSignalShape
    /\ Perf!PerfEventsShape /\ Reborn!PerfEventsShape /\ Peer!PerfEventsShape /\ Socket!PerfEventsShape

ThreadSymmetry == Permutations({t1, t2})

Unused == "unused"

LongUnused == v17 = Unused /\ v18 = Unused /\ v19 = Unused
MiddleUnused ==
    /\ v10 = Unused /\ v11 = Unused /\ v12 = Unused /\ v13 = Unused /\ v14 = Unused /\ v15 = Unused /\ v16 = Unused

(* The thread ids in use matter to the timers alone; two clients ask the   *)
(* server at once when one thread is there and one is yet to be born.      *)
SamplersInit ==
    /\ part \in {"throttle", "timers", "ring", "batches", "live", "again", "choice", "perf", "reborn", "peer", "socket"}
    /\ Init /\ TimersInit
    /\ part # "timers" => life = [t \in Tids |-> "none"]
    /\ \/ /\ part \in {"throttle", "timers"} /\ v1 = Unused /\ v2 = Unused /\ v3 = Unused /\ v4 = Unused
          /\ v5 = Unused /\ v6 = Unused /\ v7 = Unused /\ v8 = Unused /\ v9 = Unused /\ MiddleUnused /\ LongUnused
       \/ part = "ring" /\ Ring!Init /\ v19 = Unused
       \/ part = "batches" /\ Batches!Init /\ v19 = Unused
       \/ part = "live" /\ Live!Init /\ v19 = Unused
       \/ part = "again" /\ Again!Init /\ v19 = Unused
       \/ part = "choice" /\ Choice!Init /\ MiddleUnused /\ LongUnused
       \/ part = "perf" /\ Perf!Init
       \/ part = "reborn" /\ Reborn!Init
       \/ part = "peer" /\ Peer!Init /\ {v1[t] : t \in {t1, t2}} = {"none", "up"}
       \/ part = "socket" /\ Socket!Init

SamplersNext ==
    /\ UNCHANGED part
    /\ \/ part = "throttle" /\ Next /\ UNCHANGED <<timersVars, samplerVars>>
       \/ part = "timers" /\ TimersNext /\ UNCHANGED <<vars, samplerVars>>
       \/ part = "ring" /\ Ring!Next /\ UNCHANGED <<vars, timersVars, v19>>
       \/ part = "batches" /\ Batches!Next /\ UNCHANGED <<vars, timersVars, v19>>
       \/ part = "live" /\ Live!Next /\ UNCHANGED <<vars, timersVars, v19>>
       \/ part = "again" /\ Again!Next /\ UNCHANGED <<vars, timersVars, v19>>
       \/ part = "choice" /\ Choice!Next /\ UNCHANGED <<vars, timersVars, middleVars, v17, longVars>>
       \/ part = "perf" /\ Perf!Next /\ UNCHANGED <<vars, timersVars>>
       \/ part = "reborn" /\ Reborn!Next /\ UNCHANGED <<vars, timersVars>>
       \/ part = "peer" /\ Peer!Next /\ UNCHANGED <<vars, timersVars>>
       \/ part = "socket" /\ Socket!Next /\ UNCHANGED <<vars, timersVars>>

SamplersSpec == SamplersInit /\ [][SamplersNext]_<<part, vars, timersVars, samplerVars>>

-----------------------------------------------------------------------------
(* The properties of the parts.                                            *)

(* Every variable has the type of the C++ variable it stands for.          *)
TypesOK ==
    /\ part = "throttle" => TypeOK
    /\ part = "timers" => TimersTypeOK
    /\ part = "ring" => Ring!TypeOK
    /\ part = "batches" => Batches!TypeOK
    /\ part = "live" => Live!TypeOK
    /\ part = "again" => Again!TypeOK
    /\ part = "choice" => Choice!TypeOK
    /\ part = "perf" => Perf!TypeOK
    /\ part = "reborn" => Reborn!TypeOK
    /\ part = "peer" => Peer!TypeOK
    /\ part = "socket" => Socket!TypeOK

(* No idle tick of the wall clock engine is lost or recorded twice, late   *)
(* signals and the rate limit excepted, and a sleep state is one handler's *)
(* entry, although handlers fill the ring without a lock.                  *)
TicksConserved ==
    /\ part = "ring" => Ring!EntriesWhole
    /\ part = "batches" => Batches!TicksConserved

(* LiveRefs::add and dump neither leak a weak reference nor delete one     *)
(* twice; the dump records every object of the table that outlives it, but *)
(* for dropped JFR events, and after it the counters that outputs other    *)
(* than JFR use hold live objects only, late callbacks excepted.           *)
LiveSamplesOnly ==
    /\ part = "live" => Live!WeakRefsBalance /\ Live!LiveSamplesOnly
    /\ part = "again" => Again!WeakRefsBalance /\ Again!LiveSamplesOnly

(* The cookie signal is chosen once, among the signals of its pool found   *)
(* free; and an engine that chooses its own signal takes neither that one  *)
(* nor one the application had when it was tested, while another is free.  *)
CookieSignalSound == [][part = "choice" => Choice!SharesNoSignal /\ Choice!ReservesSoundly]_<<part, samplerVars>>

(* No descriptor or page of a perf event is lost or released twice, each   *)
(* is in the slot of the thread that its event counts, and a handler never *)
(* reads a page after destroyForThread unmaps it: for the threads whose    *)
(* event is not created and destroyed at once.                             *)
EventsAccounted ==
    /\ part = "perf" => Perf!EventsAccounted /\ Perf!PageSafe
    /\ part = "reborn" => Reborn!EventsAccounted /\ Reborn!PageSafe
    /\ part = "peer" => Peer!EventsAccounted /\ Peer!PageSafe
    /\ part = "socket" => Socket!EventsAccounted /\ Socket!PageSafe

(* No slot stays marked after a creation, direct or through the server,    *)
(* unless a thread takes the error of another, or gives up its response.   *)
MarksResolved ==
    /\ part = "perf" => Perf!MarksResolvedUnlessMixed
    /\ part = "reborn" => Reborn!MarksResolvedUnlessMixed
    /\ part = "peer" => Peer!MarksResolvedUnlessMixed
    /\ part = "socket" => Socket!MarksResolvedUnlessMixed
=============================================================================
