----------------------------- MODULE MCEngines -----------------------------
(***************************************************************************)
(* The chain of engines and the components around it, for TLC. They share  *)
(* no state, so a behaviour explores one of them, `part`. The sessions and  *)
(* their timers (ProfilerSession) have variables of their own; only one of *)
(* the other components being in use, these keep theirs in v1..v13.        *)
(***************************************************************************)
EXTENDS Integers, FiniteSets, Sequences, TLC, ProfilerSession

CONSTANTS t1, t2, t3

(* Threads, or clients of a tool, are alike.                               *)
ThreadSymmetry == Permutations({t1, t2})

VARIABLES part, v1, v2, v3, v4, v5, v6, v7, v8, v9, v10, v11, v12, v13

engineVars == <<v1, v2, v3, v4, v5, v6, v7, v8, v9, v10, v11, v12, v13>>

-----------------------------------------------------------------------------
(* Sessions of one, two and all engines, of each output, with every stack  *)
(* walking mode and option that start examines, on machines that lack what *)
(* it may need.                                                            *)
DefaultArgs ==
    [event |-> "none", also |-> {}, output |-> "jfr", cookie |-> FALSE, jfrsync |-> FALSE, fdtransfer |-> FALSE,
     proc |-> FALSE, record_cpu |-> FALSE, tlab |-> FALSE, cstack |-> "default", agct |-> FALSE, mixed |-> FALSE,
     depth |-> 1]
ChainArgs ==
    {[DefaultArgs EXCEPT !.event = e, !.also = a] : e \in {"cpu", "wall", "method"}, a \in {{"wall"}, {"trace"}, {"alloc", "lock"}}}
    \cup {[DefaultArgs EXCEPT !.event = e, !.also = {"wall", "alloc", "lock", "nativemem", "nativelock", "trace"},
                              !.fdtransfer = TRUE] : e \in {"itimer", "none"}}
    \cup {[DefaultArgs EXCEPT !.event = "signal", !.cookie = c, !.depth = 2] : c \in BOOLEAN}
    \cup {[DefaultArgs EXCEPT !.event = "cpu", !.record_cpu = TRUE, !.cstack = c, !.agct = g, !.output = "text"] :
              c \in {"dwarf", "vm"}, g \in BOOLEAN}
    \cup {[DefaultArgs EXCEPT !.event = "itimer", !.output = o, !.proc = TRUE, !.jfrsync = TRUE, !.mixed = TRUE] :
              o \in {"jfr", "text"}}
    \cup {[DefaultArgs EXCEPT !.also = {"alloc"}, !.tlab = b, !.output = "text"] : b \in BOOLEAN}
AllFeatures == {"jvm", "thread id", "dlopen", "setspecific", "stack structs", "sampled objects", "linux", "perf", "ctimer", "dwarf"}
ChainPlatforms ==
    {AllFeatures \ f : f \in {{}, {"perf"}, {"perf", "ctimer"}, {"jvm", "stack structs", "linux"}, {"setspecific"}, {"dlopen"}, {"thread id"}}}
    \cup {(AllFeatures \cup {"openj9"}) \ {"sampled objects", "stack structs"}}

(* A window with and without allocation traps, and one function only.      *)
TrapWindow(b, e, n, a) == [begin |-> b, end |-> e, nostop |-> n, alloc |-> a]
TrapWindows == {TrapWindow("f", "g", FALSE, TRUE), TrapWindow("g", "f", TRUE, FALSE),
                TrapWindow("f", "none", FALSE, FALSE), TrapWindow("none", "g", FALSE, FALSE)}

(* Walks by VM structures, with native frames, and by frame pointers.      *)
WalkConfig == [cstack |-> "vm", mixed |-> FALSE, pc_addr |-> TRUE, event_frame |-> TRUE, alloc_tracer |-> TRUE,
               stack_structs |-> TRUE, thread_frame |-> 1, sched_frame |-> 1, cpu_frame |-> 1]
WalkConfigs == {WalkConfig, [WalkConfig EXCEPT !.mixed = TRUE],
                [WalkConfig EXCEPT !.cstack = "fp", !.stack_structs = FALSE]}

Chain == INSTANCE EngineChain WITH
    ArgSets <- ChainArgs, Platforms <- ChainPlatforms, Buffers <- 2,
    platform <- v1, _state <- v2, args <- v3, at <- v4, _event_mask <- v5, _engine <- v6,
    _alloc_engine <- v7, on <- v8, held <- v9, entries <- v10, _max_stack_depth <- v11,
    _calltrace_buffer <- v12, mode <- v13

Trap == INSTANCE Traps WITH
    Threads <- {t1, t2}, Windows <- TrapWindows, MaxSessions <- 2,
    mem <- v1, trap <- v2, _nostop <- v3, _enabled <- v4, session <- v5, window <- v6, sessions <- v7, t <- v8, raced <- v9

Walk == INSTANCE StackWalk WITH
    Threads <- {t1, t2}, Slots <- {1, 2}, Configs <- WalkConfigs, Events <- {"PERF_SAMPLE", "ALLOC_SAMPLE"},
    MaxDepth <- 2, Truncated <- 1, MAX_NATIVE_FRAMES <- 2, RESERVED_FRAMES <- 10, MaxInlined <- 3, Bottom <- 1, MaxNesting <- 2,
    config <- v1, locked <- v2, crash_protection_ctx <- v3, stack <- v4, overrun <- v5

J9 == INSTANCE J9Sampling WITH
    Threads <- {t1, t2}, PipeSize <- 1, MaxSignals <- 4,
    alive <- v1, halt <- v2, pipe <- v3, writable <- v4, sampler <- v5, _self_env <- v6, batch <- v7, ptr <- v8, known_threads <- v9, at <- v10, signals <- v11, traces <- v12, control <- v13

Rate == INSTANCE RateLimit WITH
    Threads <- {t1, t2}, Limits <- {0, 1, 2}, MaxPeriods <- 4, MaxEvents <- 6,
    budget <- v1, limit <- v2, enabled <- v3, at <- v4, refilling <- v5, carry <- v6, periods <- v7,
    admitted <- v8, events <- v9

Filter == INSTANCE ThreadFilter WITH
    Callers <- {t1, t2, t3}, Ids <- 1..3, Capacity <- 2, MaxCalls <- 5,
    bits <- v1, bitmaps <- v2, memory <- v3, _size <- v4, c <- v5, calls <- v6, torn <- v7

Locks == INSTANCE LockTracer WITH
    Threads <- {"a"}, MaxTime <- 18,
    now <- v1, session <- v2, lock <- v3, _enabled <- v4, _start_time <- v5, _initialized <- v6,
    enter_on <- v7, entered_on <- v8, park <- v9, t <- v10, foreign_times <- v11, unasked <- v12

Libs == INSTANCE NativeLibraries WITH
    Threads <- {"a"}, Libs <- {"l1", "l2"}, Bases <- {1, 2}, Starter <- "s", Modes <- {"jvm", "attach", "preload"},
    Tracers <- {"malloc"}, MAX_NATIVE_LIBS <- 2, MaxLoads <- 3, MaxRefs <- 1,
    mode <- v1, map <- v2, loads <- v3, native_libs <- v4, parse_lock <- v5, patch_lock <- v6,
    _patched_libs <- v7, _running <- v8, hooked <- v9, _initialized <- v10, t <- v11, stray <- v12

Malloc == INSTANCE NativeTracers WITH
    Threads <- {t1, t2}, Addresses <- {1, 2}, Sizes <- {0, 1, 3}, Intervals <- {0, 2}, MaxStarts <- 1, MaxBytes <- 4,
    _running <- v1, _interval <- v2, _nofree <- v3, _allocated_bytes <- v4, starts <- v5, live <- v6, last <- v7, t <- v8, total <- v9, crossed <- v10, unmatched <- v11

Trace == INSTANCE InstrumentEngine WITH
    Threads <- {t1, t2}, Classes <- {"A", "B"}, TargetSets <- {{"malformed"}, {"A"}, {"A", "B"}}, Limit <- 2,
    MaxSessions <- 2, MaxCalls <- 3,
    control <- v1, _targets <- v2, _running <- v3, hook <- v4, todo <- v5, loaded <- v6, t <- v7,
    sessions <- v8, _calls <- v9, calls <- v10, samples <- v11, straddled <- v12

(* A timeout, a loop with a deadline, a capture without and a capture with *)
(* a timeout.                                                              *)
SessionArgs ==
    {[cookie |-> FALSE, timeout |-> 1, loop |-> 0, jfr |-> FALSE],
     [cookie |-> FALSE, timeout |-> 2, loop |-> 1, jfr |-> TRUE],
     [cookie |-> TRUE, timeout |-> 0, loop |-> 0, jfr |-> TRUE],
     [cookie |-> TRUE, timeout |-> 1, loop |-> 0, jfr |-> TRUE]}

ASSUME Shapes == Rate!RateLimitShape /\ Filter!ThreadFilterShape /\ SessionShape

(* Answers of JDK 9, of JDK 8, of a library that was not loaded, and of a  *)
(* command that failed.                                                    *)
Answer(text, rc) == [text |-> text, rc |-> rc]
Answers == {Answer(<<"0", "\n", "return code: ", "0">>, 0), Answer(<<"0", "\n", "-", "1">>, -1),
            Answer(<<"0", "\n", "E">>, -1), Answer(<<"1", "0">>, 10)}

Hotspot == INSTANCE HotspotAttach WITH
    Clients <- {t1, t2}, Directories <- {"ok", "chowned"}, Responses <- Answers, MaxPolls <- 2,
    cwd <- v1, trigger <- v2, quits <- v3, jvm <- v4, socket <- v5, c <- v6, rc <- v7, dumps <- v8, crossed <- v9

OpenJ9 == INSTANCE OpenJ9Attach WITH
    Clients <- {t1, t2}, JVMs <- {"a", "b"}, Ports <- {1}, Codes <- {0, 100}, MaxNotifFiles <- 2, NoOne <- "none",
    target <- v1, attachLock <- v2, notif <- v3, sem <- v4, reply <- v5, c <- v6, wakers <- v7, calls <- v8,
    backlog <- v9, ran <- v10, crashed <- v11

Fds == INSTANCE FdTransfer WITH
    Threads <- {t1, t2}, Starter <- 0, MaxSessions <- 2, MaxRequests <- 3, RingSize <- 1,
    session <- v1, phase <- v2, asked <- v3, peer <- v4, server <- v5, req <- v6, resp <- v7, maps <- v8, r <- v9,
    requests <- v10, mixed <- v11, failed <- v12

Asprof == INSTANCE Launcher WITH
    Launchers <- {t1, t2}, Actions <- {"collect", "start", "stop"}, NoOne <- "none",
    action <- v1, use_tmp_file <- v2, alive <- v3, profile <- v4, files <- v5, l <- v6, printed <- v7, caught <- v8

-----------------------------------------------------------------------------
Unused == "unused"

EnginesInit ==
    /\ Init
    /\ \/ part = "chain" /\ Chain!Init
       \/ part = "traps" /\ Trap!Init /\ v10 = Unused /\ v11 = Unused /\ v12 = Unused /\ v13 = Unused
       \/ part = "walk" /\ Walk!Init /\ v6 = Unused /\ v7 = Unused /\ v8 = Unused /\ v9 = Unused /\ v10 = Unused /\ v11 = Unused /\ v12 = Unused /\ v13 = Unused
       \/ part = "j9" /\ J9!Init
       \/ part = "rate" /\ Rate!Init /\ v10 = Unused /\ v11 = Unused /\ v12 = Unused /\ v13 = Unused
       \/ part = "filter" /\ Filter!Init /\ v8 = Unused /\ v9 = Unused /\ v10 = Unused /\ v11 = Unused /\ v12 = Unused /\ v13 = Unused
       \/ part = "locks" /\ Locks!Init /\ v13 = Unused
       \/ part = "libs" /\ Libs!Init /\ v13 = Unused
       \/ part = "malloc" /\ Malloc!Init /\ v12 = Unused /\ v13 = Unused
       \/ part = "trace" /\ Trace!Init /\ v13 = Unused
       \/ part = "session" /\ v1 = Unused /\ v2 = Unused /\ v3 = Unused /\ v4 = Unused /\ v5 = Unused /\ v6 = Unused /\ v7 = Unused /\ v8 = Unused /\ v9 = Unused /\ v10 = Unused /\ v11 = Unused /\ v12 = Unused /\ v13 = Unused
       \/ part = "hotspot" /\ Hotspot!Init /\ v10 = Unused /\ v11 = Unused /\ v12 = Unused /\ v13 = Unused
       \/ part = "openj9" /\ OpenJ9!Init /\ v12 = Unused /\ v13 = Unused
       \/ part = "fds" /\ Fds!Init /\ v13 = Unused
       \/ part = "asprof" /\ Asprof!Init /\ v9 = Unused /\ v10 = Unused /\ v11 = Unused /\ v12 = Unused /\ v13 = Unused

EnginesNext ==
    /\ UNCHANGED part
    /\ \/ part = "chain" /\ Chain!Next /\ UNCHANGED vars
       \/ part = "traps" /\ Trap!Next /\ UNCHANGED <<vars, v10, v11, v12, v13>>
       \/ part = "walk" /\ Walk!Next /\ UNCHANGED <<vars, v6, v7, v8, v9, v10, v11, v12, v13>>
       \/ part = "j9" /\ J9!Next /\ UNCHANGED vars
       \/ part = "rate" /\ Rate!Next /\ UNCHANGED <<vars, v10, v11, v12, v13>>
       \/ part = "filter" /\ Filter!Next /\ UNCHANGED <<vars, v8, v9, v10, v11, v12, v13>>
       \/ part = "locks" /\ Locks!Next /\ UNCHANGED <<vars, v13>>
       \/ part = "libs" /\ Libs!Next /\ UNCHANGED <<vars, v13>>
       \/ part = "malloc" /\ Malloc!Next /\ UNCHANGED <<vars, v12, v13>>
       \/ part = "trace" /\ Trace!Next /\ UNCHANGED <<vars, v13>>
       \/ part = "session" /\ Next /\ UNCHANGED engineVars
       \/ part = "hotspot" /\ Hotspot!Next /\ UNCHANGED <<vars, v10, v11, v12, v13>>
       \/ part = "openj9" /\ OpenJ9!Next /\ UNCHANGED <<vars, v12, v13>>
       \/ part = "fds" /\ Fds!Next /\ UNCHANGED <<vars, v13>>
       \/ part = "asprof" /\ Asprof!Next /\ UNCHANGED <<vars, v9, v10, v11, v12, v13>>

EnginesSpec == EnginesInit /\ [][EnginesNext]_<<part, vars, engineVars>>
SessionSpec == part = "session" /\ EnginesSpec

-----------------------------------------------------------------------------
(* The properties of the parts.                                            *)

(* Every variable has the type of the C++ variable it stands for.          *)
TypesOK ==
    CASE part = "chain" -> Chain!TypeOK
      [] part = "traps" -> Trap!TypeOK
      [] part = "walk" -> Walk!TypeOK
      [] part = "j9" -> J9!TypeOK
      [] part = "rate" -> Rate!TypeOK
      [] part = "filter" -> Filter!TypeOK
      [] part = "locks" -> Locks!TypeOK
      [] part = "libs" -> Libs!TypeOK
      [] part = "malloc" -> Malloc!TypeOK
      [] part = "trace" -> Trace!TypeOK
      [] part = "session" -> TypeOK
      [] part = "hotspot" -> Hotspot!TypeOK
      [] part = "openj9" -> OpenJ9!TypeOK
      [] part = "fds" -> Fds!TypeOK
      [] part = "asprof" -> Asprof!TypeOK

(* No engine is started twice; a session that runs has exactly the engines *)
(* of its event mask, and whichever step of Profiler::start fails, and     *)
(* after stop, no engine and no resource but the peer is left.             *)
SessionBalanced == part = "chain" => Chain!SessionBalanced

(* A session with a begin and an end function always has one of its traps  *)
(* armed, whatever threads do in both at once, a thread resumes where it   *)
(* was stopped, and an idle profiler leaves no breakpoint behind, unless a *)
(* thread was in the trap handler as traps were assigned or removed.       *)
TrapsSound == part = "traps" => Trap!TrapsSound

(* A stack walk never writes past the end of its slot's buffer, and a      *)
(* fault returns to the walk that caused it and to no other, whatever      *)
(* signals nest (Profiler::recordSample, StackWalker). No Java thread of   *)
(* OpenJ9 stays flagged for inspection after its notification was lost or  *)
(* read (J9StackTraces).                                                   *)
WalkSound ==
    /\ part = "walk" => Walk!FramesFit /\ Walk!FaultsContained
    /\ part = "j9" => J9!HaltResolved




=============================================================================
