-------------------------------- MODULE Traps --------------------------------
(***************************************************************************)
(* Breakpoint traps: the begin and end functions between which a session   *)
(* records, and the two functions of the JVM that report an allocation.    *)
(* Installing a trap overwrites an instruction of a live process, and the  *)
(* threads that hit it run the handler concurrently with each other and    *)
(* with start and stop.                                                    *)
(*                                                                         *)
(* mem[a] is the instruction at the entry of function a. The build is the  *)
(* one where code pages stay writable (WX_MEMORY false).                   *)
(***************************************************************************)
EXTENDS Integers, FiniteSets

CONSTANTS
    Threads,
    Windows,        \* the sessions a client may ask for: [begin, end, nostop, alloc]
    MaxSessions     \* bound on the number of sessions

Functions == {"f", "g", "in_new_tlab", "outside_tlab"}
NoFunction == "none"

VARIABLES
    mem,            \* Functions -> {"orig", "brk"}
    trap,           \* begin, end, new, out: [entry, saved]
    _nostop,
    _enabled,       \* Engine::_enabled
    session,        \* "idle", a step of start or stop, Running
    window,         \* what the session was asked for
    sessions,       \* how many were started
    t,              \* thread: [at, of, pc, hit]; of is the trap handled
    raced           \* history: a session began or ended under a trap handler

vars == <<mem, trap, _nostop, _enabled, session, window, sessions, t, raced>>

Idle == <<"idle", "all">>
Start == <<"start", "all">>
Running == <<"running", "all">>
Free == [at |-> "run", of |-> "none", pc |-> NoFunction, hit |-> NoFunction]
Unassigned == [entry |-> NoFunction, saved |-> "orig"]
Write(x, insn) == IF trap[x].entry = NoFunction THEN mem ELSE [mem EXCEPT ![trap[x].entry] = insn]
install(x) == mem' = Write(x, "brk")
uninstall(x) == mem' = Write(x, trap[x].saved)
assign(a) == IF a = NoFunction THEN Unassigned ELSE [entry |-> a, saved |-> mem[a]]

Init ==
    /\ mem = [a \in Functions |-> "orig"]
    /\ trap = [x \in {"begin", "end", "new", "out"} |-> Unassigned]
    /\ _nostop = FALSE /\ _enabled = FALSE
    /\ session = Idle /\ window = (CHOOSE w \in Windows : TRUE) /\ sessions = 0
    /\ t = [i \in Threads |-> Free]
    /\ raced = FALSE

InHandler(i) == t[i].at # "run"
Interrupted == raced' = (raced \/ \E i \in Threads : InHandler(i))

-----------------------------------------------------------------------------
(* Profiler::installTraps: the symbols have been resolved and differ. The  *)
(* patch of the begin trap fails when the page cannot be made writable.    *)
InstallTraps(w) ==
    /\ session = Idle /\ sessions < MaxSessions
    /\ sessions' = sessions + 1 /\ window' = w
    /\ trap' = [trap EXCEPT !["begin"] = assign(w.begin), !["end"] = assign(w.end)]
    /\ _nostop' = w.nostop
    /\ IF w.begin = NoFunction
       THEN _enabled' = TRUE /\ session' = Start /\ mem' = mem
       ELSE /\ _enabled' = w.nostop
            /\ \/ mem' = [mem EXCEPT ![w.begin] = "brk"] /\ session' = Start
               \/ mem' = mem /\ session' = Idle
    /\ Interrupted
    /\ UNCHANGED t

(* AllocTracer::initialize and start, where the session profiles           *)
(* allocations: the two functions are assigned once per process.           *)
StartAlloc ==
    /\ session = Start
    /\ trap' = IF window.alloc /\ (trap["new"].entry = NoFunction \/ trap["out"].entry = NoFunction)
               THEN [trap EXCEPT !["new"] = assign("in_new_tlab"), !["out"] = assign("outside_tlab")] ELSE trap
    /\ session' = IF window.alloc THEN <<"install", "new">> ELSE Running
    /\ UNCHANGED <<mem, _nostop, _enabled, window, sessions, t, raced>>

(* A failure of the engine leads to uninstallTraps without AllocTracer::stop.*)
InstallAlloc(x) ==
    /\ session = <<"install", x>>
    /\ \/ /\ install(x) /\ session' = IF x = "new" THEN <<"install", "out">> ELSE Running
          /\ window' = window
       \/ /\ mem' = mem /\ session' = <<"remove", "begin">>
          /\ window' = [window EXCEPT !.alloc = FALSE]
    /\ UNCHANGED <<trap, _nostop, _enabled, sessions, t, raced>>

(* Profiler::uninstallTraps, first thing in stop.                          *)
BeginStop ==
    /\ session = Running
    /\ session' = <<"remove", "begin">>
    /\ UNCHANGED <<mem, trap, _nostop, _enabled, window, sessions, t, raced>>

UninstallBeginTrap(x) ==
    /\ session = <<"remove", x>>
    /\ IF x = "begin" THEN uninstall(x) ELSE mem' = mem
    /\ session' = IF x = "begin" THEN <<"remove", "end">> ELSE <<"disable", "all">>
    /\ Interrupted
    /\ UNCHANGED <<trap, _nostop, _enabled, window, sessions, t>>

UninstallTraps(x) ==
    /\ session = <<"remove", x>>
    /\ uninstall(x)
    /\ session' = IF x = "begin" THEN <<"remove", "end">> ELSE <<"disable", "all">>
    /\ Interrupted
    /\ UNCHANGED <<trap, _nostop, _enabled, window, sessions, t>>

Disable ==
    /\ session = <<"disable", "all">>
    /\ _enabled' = FALSE
    /\ session' = IF window.alloc THEN <<"remove", "new">> ELSE Idle
    /\ Interrupted
    /\ UNCHANGED <<mem, trap, _nostop, window, sessions, t>>

StopAlloc(x) ==
    /\ session = <<"remove", x>>
    /\ uninstall(x)
    /\ session' = IF x = "new" THEN <<"remove", "out">> ELSE Idle
    /\ UNCHANGED <<trap, _nostop, _enabled, window, sessions, t, raced>>

-----------------------------------------------------------------------------
(* A thread calls a function and executes its first instruction.           *)
Call(i, a) ==
    /\ ~InHandler(i)
    /\ t' = [t EXCEPT ![i] = IF mem[a] = "brk" THEN [at |-> "trap", of |-> "none", pc |-> a, hit |-> a]
                             ELSE Free]
    /\ raced' = (raced \/ (mem[a] = "brk" /\ a \in {"f", "g"} /\ session[1] \in {"remove", "disable"}))
    /\ UNCHANGED <<mem, trap, _nostop, _enabled, session, window, sessions>>

Covers(x, i) == trap[x].entry # NoFunction /\ trap[x].entry = t[i].pc

(* AllocTracer::trapHandler for its own traps returns from the function;   *)
(* the others go to Profiler::trapHandler.                                 *)
AllocTrap(i) ==
    /\ t[i].at = "trap"
    /\ Covers("new", i) \/ Covers("out", i)
    /\ t' = [t EXCEPT ![i] = Free]
    /\ UNCHANGED <<mem, trap, _nostop, _enabled, session, window, sessions, raced>>

Goto(i, step, x) == t' = [t EXCEPT ![i].at = step, ![i].of = x]

BeginTrap(i) ==
    /\ t[i].at = "trap" /\ ~Covers("new", i) /\ ~Covers("out", i)
    /\ Covers("begin", i)
    /\ _enabled' = TRUE
    /\ Goto(i, "uninstall", "begin")
    /\ UNCHANGED <<mem, trap, _nostop, session, window, sessions, raced>>

EndTrap(i) ==
    /\ t[i].at = "trap" /\ ~Covers("new", i) /\ ~Covers("out", i)
    /\ ~Covers("begin", i) /\ Covers("end", i)
    /\ _enabled' = _nostop
    /\ Goto(i, "uninstall", "end")
    /\ UNCHANGED <<mem, trap, _nostop, session, window, sessions, raced>>

(* Not a trap of this session: the handler that was there before, or       *)
(* nothing, and the thread executes the instruction again.                 *)
ForeignTrap(i) ==
    /\ t[i].at = "trap"
    /\ \A x \in DOMAIN trap : ~Covers(x, i)
    /\ Goto(i, "resume", "none")
    /\ UNCHANGED <<mem, trap, _nostop, _enabled, session, window, sessions, raced>>

SwapTraps(i, x, other) ==
    \/ /\ t[i].at = "uninstall" /\ t[i].of = x
       /\ uninstall(x)
       /\ Goto(i, "install", x)
       /\ UNCHANGED <<trap, _nostop, _enabled, session, window, sessions, raced>>
    \/ /\ t[i].at = "install" /\ t[i].of = x
       /\ install(other)
       /\ t' = [t EXCEPT ![i].at = "resume", ![i].pc = trap[x].entry]
       /\ UNCHANGED <<trap, _nostop, _enabled, session, window, sessions, raced>>

(* The thread goes on at pc, which may hold a breakpoint again.            *)
Resume(i) ==
    /\ t[i].at = "resume" /\ t[i].pc # NoFunction        \* at address 0 the process dies
    /\ t' = [t EXCEPT ![i] = IF mem[t[i].pc] = "brk" THEN [@ EXCEPT !.at = "trap"]
                             ELSE Free]
    /\ UNCHANGED <<mem, trap, _nostop, _enabled, session, window, sessions, raced>>

Next ==
    \/ \E w \in Windows : InstallTraps(w)
    \/ StartAlloc \/ BeginStop \/ Disable
    \/ \E x \in {"new", "out"} : InstallAlloc(x) \/ StopAlloc(x)
    \/ \E x \in {"begin", "end"} : UninstallTraps(x)
    \/ \E i \in Threads :
          \/ \E a \in Functions : Call(i, a)
          \/ AllocTrap(i) \/ BeginTrap(i) \/ EndTrap(i) \/ ForeignTrap(i) \/ Resume(i)
          \/ SwapTraps(i, "begin", "end") \/ SwapTraps(i, "end", "begin")

Spec == Init /\ [][Next]_vars

-----------------------------------------------------------------------------
TypeOK ==
    /\ mem \in [Functions -> {"orig", "brk"}]
    /\ \A x \in DOMAIN trap : trap[x].entry \in Functions \cup {NoFunction} /\ trap[x].saved \in {"orig", "brk"}
    /\ \A i \in Threads : t[i].pc \in Functions \cup {NoFunction}
    /\ sessions \in 0..MaxSessions

(* Whatever the threads do in the begin and end functions at once, a       *)
(* session of both functions always has one of its traps armed, so that    *)
(* the next window opens and closes; a thread resumes where it was         *)
(* stopped; and when no thread was inside a trap handler as traps were     *)
(* assigned or removed, an idle profiler leaves no breakpoint of a window  *)
(* behind and has not saved one as an original instruction.                *)
TrapsSound ==
    ~raced =>
      /\ session = Running /\ trap["begin"].entry # NoFunction /\ trap["end"].entry # NoFunction
            /\ (\A i \in Threads : ~InHandler(i)) => \E x \in {"begin", "end"} : mem[trap[x].entry] = "brk"
      /\ \A i \in Threads : InHandler(i) => t[i].pc = t[i].hit
      /\ \A x \in DOMAIN trap : trap[x].saved = "orig"
      /\ session = Idle => mem["f"] = "orig" /\ mem["g"] = "orig"
=============================================================================
