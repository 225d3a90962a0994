----------------------------- MODULE EngineChain -----------------------------
(***************************************************************************)
(* Profiler::start and stop as the sequence in which one session acquires  *)
(* and releases its resources: the connection for file descriptors, the    *)
(* identity of a capture, the traps, the library hooks, the recording and  *)
(* up to seven engines. Every step but a few can fail, and start unwinds   *)
(* from the step that did.                                                 *)
(*                                                                         *)
(* args is what the checks of start look at; the parser that builds it is  *)
(* module Arguments. The state lock is held throughout, so a command runs  *)
(* alone; it takes several steps here because the engines fail one by one. *)
(***************************************************************************)
EXTENDS Integers, Sequences, FiniteSets, SequencesExt

CONSTANTS
    ArgSets,        \* the arguments a client may start with
    Platforms,      \* what the process and the machine offer: sets of features
    Buffers         \* CONCURRENCY_LEVEL call trace buffers, 1..Buffers

VARIABLES
    platform,       \* the features of this process; fixed
    _state,         \* IDLE, RUNNING
    args,           \* the arguments of the command under way or of the session
    at,             \* the next step of start or stop, "none" between commands
    _event_mask,
    _engine,
    _alloc_engine,
    on,             \* the engines running, as a bag of starts: a sequence
    held,           \* the other resources of a session
    entries,        \* the import slots found so far: "dlopen", "setspecific"
    _max_stack_depth,
    _calltrace_buffer,  \* the depth each buffer was allocated for, 0 if NULL
    mode            \* what the engines are visited for: "start", "unwind", "stop"

chosen == <<_event_mask, _engine, _alloc_engine>>
memory == <<_max_stack_depth, _calltrace_buffer>>
vars == <<platform, _state, args, at, chosen, on, held, entries, memory, mode>>

Has(f) == f \in platform

eventMask(a) ==
    (IF a.event # "none" /\ ~(a.cookie /\ a.event = "signal") THEN {"cpu"} ELSE {}) \cup a.also

selectEngine(a) ==
    CASE a.event = "none" -> "noop"
      [] a.event = "cpu" -> IF a.record_cpu \/ "peer" \in held \/ Has("perf") THEN "perf_events"
                            ELSE IF Has("ctimer") THEN "ctimer" ELSE "wall_clock"
      [] a.event = "wall" -> IF Has("openj9") THEN "j9_wall_clock" ELSE "wall_clock"
      [] a.event = "ctimer" -> "ctimer"
      [] a.event = "itimer" -> "itimer"
      [] a.event = "signal" -> IF a.cookie THEN "noop" ELSE "signal_event"
      [] a.event = "method" -> "instrument"
      [] OTHER -> "perf_events"

selectAllocEngine(tlab) ==
    IF ~tlab /\ Has("sampled objects") THEN "object_sampler" ELSE IF Has("openj9") THEN "j9_object_sampler" ELSE "alloc_tracer"

(* The engine that status, title and units are taken from.                 *)
activeEngine ==
    CASE _event_mask = {"alloc"} -> _alloc_engine
      [] _event_mask = {"lock"} -> "lock_tracer"
      [] _event_mask = {"wall"} -> "wall_clock"
      [] _event_mask = {"nativemem"} -> "malloc_tracer"
      [] _event_mask = {"nativelock"} -> "native_lock_tracer"
      [] _event_mask = {"trace"} -> "instrument"
      [] OTHER -> _engine

(* What start does in order; the categories after the main engine are      *)
(* skipped when their event was not asked for.                             *)
Chain == <<"engine", "alloc", "lock", "wall", "nativemem", "nativelock", "trace">>
ObjectOf(c, alloc_engine) ==
    CASE c = "engine" -> _engine [] c = "alloc" -> alloc_engine [] c = "lock" -> "lock_tracer"
      [] c = "wall" -> "wall_clock" [] c = "nativemem" -> "malloc_tracer"
      [] c = "nativelock" -> "native_lock_tracer" [] c = "trace" -> "instrument"
Object(c) == ObjectOf(c, _alloc_engine)
Wanted(c) == c = "engine" \/ c \in _event_mask
Position(c) == CHOOSE i \in DOMAIN Chain : Chain[i] = c

-----------------------------------------------------------------------------
Init ==
    /\ platform \in Platforms /\ entries = {}
    /\ _max_stack_depth = 0 /\ _calltrace_buffer = [i \in 1..Buffers |-> 0]
    /\ _state = "IDLE" /\ args = (CHOOSE a \in ArgSets : TRUE) /\ at = "none"
    /\ _event_mask = {} /\ _engine = "noop" /\ _alloc_engine = "alloc_tracer"
    /\ on = <<>> /\ held = {} /\ mode = "start"

(* The import slots stay known once a start has found them.               *)
checkJvmCapabilities ==
    LET found == entries \cup (platform \cap {"dlopen", "setspecific"})
    IN IF ~Has("jvm") THEN [ok |-> TRUE, entries |-> entries]
       ELSE IF ~Has("thread id") THEN [ok |-> FALSE, entries |-> entries]
       ELSE IF "dlopen" \notin found THEN [ok |-> FALSE, entries |-> entries]
       ELSE [ok |-> "setspecific" \in found, entries |-> found]

BadMask(a) ==
    LET mask == eventMask(a)
    IN \/ mask = {} /\ ~a.cookie
       \/ Cardinality(mask) > 1 /\ a.output # "jfr"
       \/ ~Has("jvm") /\ mask \cap {"alloc", "lock", "trace"} # {}
       \/ ~Has("jvm") /\ a.jfrsync

(* A bad identity or a collision with the reserved signal is an error too: *)
(* module SignalCookie tells which.                                        *)
BeginStart(a) ==
    /\ at = "none" /\ _state = "IDLE"
    /\ args' = a /\ mode' = "start"
    /\ entries' = checkJvmCapabilities.entries
    /\ IF checkJvmCapabilities.ok
       THEN /\ _event_mask' = eventMask(a)
            /\ \/ ~BadMask(a) /\ at' = "connect"
               \/ (BadMask(a) \/ a.cookie) /\ at' = "none"
       ELSE _event_mask' = _event_mask /\ at' = "none"
    /\ UNCHANGED <<platform, _state, _engine, _alloc_engine, on, held, memory>>

(* connectToServer may fail; the peer stays connected on a later return.   *)
Connect ==
    /\ at = "connect"
    /\ \/ args.fdtransfer /\ held' = held \cup {"peer"} /\ at' = "allocate"
       \/ args.fdtransfer /\ held' = held /\ at' = "none"
       \/ ~args.fdtransfer /\ held' = held /\ at' = "allocate"
    /\ UNCHANGED <<platform, _state, args, chosen, on, entries, memory, mode>>

(* The call trace buffers are freed and allocated one by one; when one     *)
(* cannot be, the depth is forgotten so that the next start begins again.  *)
ProcRefused == args.proc /\ (~Has("linux") \/ args.output # "jfr")

AllocateBuffers ==
    /\ at = "allocate"
    /\ \/ ProcRefused /\ at' = "none" /\ UNCHANGED memory
       \/ ~ProcRefused /\ _max_stack_depth = args.depth /\ at' = "select" /\ UNCHANGED memory
       \/ /\ ~ProcRefused /\ _max_stack_depth # args.depth
          /\ \E n \in 0..Buffers :        \* the first n succeed
                /\ _calltrace_buffer' = [i \in 1..Buffers |-> IF i <= n THEN args.depth
                                            ELSE IF i = n + 1 THEN 0 ELSE _calltrace_buffer[i]]
                /\ _max_stack_depth' = IF n = Buffers THEN args.depth ELSE 0
                /\ at' = IF n = Buffers THEN "select" ELSE "none"
    /\ UNCHANGED <<platform, _state, args, chosen, on, held, entries, mode>>

EngineRefused(e) ==
    \/ e = "wall_clock" /\ "wall" \in args.also
    \/ e # "perf_events" /\ args.record_cpu
    \/ e = "instrument" /\ "trace" \in args.also

CStack == IF args.cstack \in {"default", "dwarf"} /\ Has("stack structs") /\ ~args.agct THEN "vm"
          ELSE IF args.cstack = "default" /\ Has("openj9") /\ Has("dwarf") THEN "dwarf" ELSE args.cstack
CStackRefused ==
    \/ args.cstack = "dwarf" /\ ~Has("dwarf")
    \/ args.cstack = "vm" /\ Has("jvm") /\ ~Has("stack structs")
    \/ CStack = "vm" /\ args.agct
    \/ CStack # "vm" /\ args.mixed

Select ==
    /\ at = "select"
    /\ _engine' = selectEngine(args)
    /\ IF EngineRefused(_engine') \/ CStackRefused THEN at' = "none" /\ args' = args
       ELSE at' = "reserve" /\ args' = [args EXCEPT !.cstack = CStack]
    /\ UNCHANGED <<platform, entries, memory, _state, _event_mask, _alloc_engine, on, held, mode>>

(* reserveCookieCapture, installTraps and the recording. A failure to      *)
(* reserve closes the peer; the later ones up to the recording do not.     *)
Reserve ==
    /\ at = "reserve"
    /\ \/ ~args.cookie /\ at' = "traps" /\ held' = held
       \/ args.cookie /\ at' = "traps" /\ held' = held \cup {"capture"}
       \/ args.cookie /\ at' = "none" /\ held' = held \ {"peer"}
    /\ UNCHANGED <<platform, entries, memory, _state, args, chosen, on, mode>>

InstallTraps ==
    /\ at = "traps"
    /\ \/ at' = "record" /\ held' = held \cup {"traps", "hooks"}
       \/ at' = "none" /\ held' = held \ {"capture"}
    /\ UNCHANGED <<platform, entries, memory, _state, args, chosen, on, mode>>

Record ==
    /\ at = "record"
    /\ \/ args.output = "jfr" /\ at' = "engine" /\ held' = held \cup {"recording"}
       \/ args.output # "jfr" /\ at' = "engine" /\ held' = held
       \/ args.output = "jfr" /\ at' = "none" /\ held' = held \ {"traps", "hooks", "capture"}
    /\ UNCHANGED <<platform, entries, memory, _state, args, chosen, on, mode>>

(* The error labels stop in reverse order what was started before; the     *)
(* engine that failed is not stopped.                                      *)
After(c) == IF c = "trace" THEN "running" ELSE Chain[Position(c) + 1]
BeforeButEngine(c) == IF Position(c) <= 2 THEN "unwound" ELSE Chain[Position(c) - 1]
Before(c) == IF c = "engine" THEN "unwound" ELSE Chain[Position(c) - 1]

StartEngine(c) ==
    /\ at = c /\ mode = "start"
    /\ IF c = "alloc" /\ Wanted(c) THEN _alloc_engine' = selectAllocEngine(args.tlab)
       ELSE _alloc_engine' = _alloc_engine
    /\ \/ ~Wanted(c) /\ at' = After(c) /\ UNCHANGED <<on, mode>>
       \/ Wanted(c) /\ at' = After(c) /\ on' = Append(on, ObjectOf(c, _alloc_engine')) /\ mode' = mode
       \/ Wanted(c) /\ at' = Before(c) /\ on' = on /\ mode' = "unwind"
    /\ UNCHANGED <<platform, entries, memory, _state, args, _event_mask, _engine, held>>

Unwind(c) ==
    /\ at = c /\ mode = "unwind"
    /\ on' = IF Wanted(c) THEN SelectSeq(on, LAMBDA o : o # Object(c)) ELSE on
    /\ at' = Before(c)
    /\ UNCHANGED <<platform, entries, memory, _state, args, chosen, held, mode>>

Unwound ==
    /\ at = "unwound"
    /\ held' = held \ {"traps", "hooks", "recording", "capture", "peer"}
    /\ at' = "none"
    /\ UNCHANGED <<platform, entries, memory, _state, args, chosen, on, mode>>

FinishStart ==
    /\ at = "running"
    /\ _state' = "RUNNING" /\ at' = "none"
    /\ held' = held \cup {"thread events"}
    /\ UNCHANGED <<platform, entries, memory, args, chosen, on, mode>>

(* stop releases the traps, the engines in its own order, the hooks and    *)
(* the recording. On a restart the peer is kept for the next session.      *)
StopOrder == <<"wall", "lock", "alloc", "nativemem", "nativelock", "trace", "engine">>
StopPosition(c) == CHOOSE i \in DOMAIN StopOrder : StopOrder[i] = c

BeginStop ==
    /\ at = "none" /\ _state = "RUNNING"
    /\ held' = held \ {"traps"}
    /\ at' = "wall" /\ mode' = "stop"
    /\ UNCHANGED <<platform, entries, memory, _state, args, chosen, on>>

StopEngine(c) ==
    /\ at = c /\ mode = "stop"
    /\ on' = IF Wanted(c) THEN SelectSeq(on, LAMBDA o : o # Object(c)) ELSE on
    /\ at' = IF c = "engine" THEN "finish" ELSE StopOrder[StopPosition(c) + 1]
    /\ UNCHANGED <<platform, entries, memory, _state, args, chosen, held, mode>>

FinishStop ==
    /\ at = "finish"
    /\ \E restart \in BOOLEAN :
           held' = held \ ({"hooks", "thread events", "recording", "capture"} \cup (IF restart THEN {} ELSE {"peer"}))
    /\ _state' = "IDLE" /\ at' = "none"
    /\ UNCHANGED <<platform, entries, memory, args, chosen, on, mode>>

Next ==
    \/ \E a \in ArgSets : BeginStart(a)
    \/ Connect \/ AllocateBuffers \/ Select \/ Reserve \/ InstallTraps \/ Record
    \/ \E c \in ToSet(Chain) : StartEngine(c) \/ Unwind(c) \/ StopEngine(c)
    \/ Unwound \/ FinishStart \/ BeginStop \/ FinishStop

Spec == Init /\ [][Next]_vars

-----------------------------------------------------------------------------
TypeOK ==
    /\ _state \in {"IDLE", "RUNNING"} /\ args.output \in {"jfr", "text"}
    /\ held \subseteq {"peer", "capture", "traps", "hooks", "recording", "thread events"}
    /\ ToSet(on) \subseteq {"noop", "perf_events", "ctimer", "itimer", "wall_clock", "j9_wall_clock", "signal_event",
                            "instrument", "object_sampler", "j9_object_sampler", "alloc_tracer", "lock_tracer",
                            "malloc_tracer", "native_lock_tracer"}

(* No engine object is started twice; a session that runs has exactly the  *)
(* engines of its event mask and buffers of its depth, whatever failed     *)
(* before; and whichever step of start fails, and after stop, no engine    *)
(* and no resource but the peer is left: the labels error1..error7 and the *)
(* order of stop release all that start acquired.                          *)
SessionBalanced ==
    /\ \A i, j \in DOMAIN on : on[i] = on[j] => i = j
    /\ _state = "RUNNING" /\ at = "none" =>
          /\ ToSet(on) = {Object(c) : c \in {d \in ToSet(Chain) : Wanted(d)}}
          /\ activeEngine \in ToSet(on)
          /\ \A i \in 1..Buffers : _calltrace_buffer[i] = args.depth
          /\ Has("jvm") => entries = {"dlopen", "setspecific"}
    /\ _state = "IDLE" /\ at = "none" => on = <<>> /\ held \subseteq {"peer"}
=============================================================================
