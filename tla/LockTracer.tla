------------------------------ MODULE LockTracer ------------------------------
(***************************************************************************)
(* Lock profiling: JVM TI reports when a thread starts to wait for a       *)
(* monitor and when it owns it, and Unsafe.park is replaced by a hook that *)
(* times locks of java.util.concurrent. The time of the first report is    *)
(* kept per thread. Sessions with and without lock profiling follow each   *)
(* other; Engine::_enabled is one flag for all engines, and the hook of    *)
(* park stays for good once it is installed.                               *)
(***************************************************************************)
EXTENDS Integers

CONSTANTS
    Threads,
    MaxTime             \* bound on the clock

VARIABLES
    now,
    session,            \* "idle", a step of start or stop, "running"
    lock,               \* the session profiles locks
    _enabled, _start_time, _initialized,
    enter_on, entered_on,   \* the JVM TI notifications
    park,               \* what Unsafe.park runs: "orig" or "hook"
    t,                  \* thread: [at, since, tls, hooked]
    foreign_times,      \* history: an event was timed from another contention
    unasked             \* history: an event was recorded in a session without lock profiling

vars == <<now, session, lock, _enabled, _start_time, _initialized, enter_on, entered_on, park, t, foreign_times, unasked>>
control == <<session, lock, _enabled, _start_time, _initialized, enter_on, entered_on, park>>
history == <<foreign_times, unasked>>

Init ==
    /\ now = 1 /\ session = "idle" /\ lock = FALSE /\ _enabled = FALSE /\ _start_time = 0 /\ _initialized = FALSE
    /\ enter_on = FALSE /\ entered_on = FALSE /\ park = "orig"
    /\ t = [i \in Threads |-> [at |-> "run", since |-> 0, tls |-> 0, hooked |-> FALSE]]
    /\ foreign_times = FALSE /\ unasked = FALSE

Tick == now < MaxTime /\ now' = now + 1

-----------------------------------------------------------------------------
(* Profiler::start enables events before it starts the engines.            *)
StartSession(l) ==
    /\ Tick /\ session = "idle"
    /\ lock' = l /\ _enabled' = TRUE
    /\ session' = IF l THEN "initialize" ELSE "running"
    /\ UNCHANGED <<_start_time, _initialized, enter_on, entered_on, park, t, history>>

(* LockTracer::start. Without the address of Unsafe.park only monitors are *)
(* traced; initialize is tried once.                                       *)
Initialize ==
    /\ Tick /\ session = "initialize"
    /\ _initialized' = TRUE
    /\ session' = "enable enter"
    /\ UNCHANGED <<lock, _enabled, _start_time, enter_on, entered_on, park, t, history>>

EnableEnter ==
    /\ Tick /\ session = "enable enter"
    /\ enter_on' = TRUE /\ session' = "enable entered"
    /\ UNCHANGED <<lock, _enabled, _start_time, _initialized, entered_on, park, t, history>>

EnableEntered ==
    /\ Tick /\ session = "enable entered"
    /\ entered_on' = TRUE /\ session' = "set time"
    /\ UNCHANGED <<lock, _enabled, _start_time, _initialized, enter_on, park, t, history>>

SetStartTime ==
    /\ Tick /\ session = "set time"
    /\ _start_time' = now /\ session' = "hook"
    /\ UNCHANGED <<lock, _enabled, _initialized, enter_on, entered_on, park, t, history>>

(* setUnsafeParkEntry does nothing when initialize found no entry.         *)
HookPark ==
    /\ Tick /\ session = "hook"
    /\ park' \in {park, "hook"}
    /\ session' = "running"
    /\ UNCHANGED <<lock, _enabled, _start_time, _initialized, enter_on, entered_on, t, history>>

(* Profiler::stop disables events first; LockTracer::stop leaves the hook. *)
StopSession ==
    /\ Tick /\ session = "running"
    /\ _enabled' = FALSE
    /\ session' = IF lock THEN "disable enter" ELSE "idle"
    /\ UNCHANGED <<lock, _start_time, _initialized, enter_on, entered_on, park, t, history>>

DisableEvents ==
    /\ Tick
    /\ \/ session = "disable enter" /\ enter_on' = FALSE /\ session' = "disable entered" /\ UNCHANGED entered_on
       \/ session = "disable entered" /\ entered_on' = FALSE /\ session' = "idle" /\ UNCHANGED enter_on
    /\ UNCHANGED <<lock, _enabled, _start_time, _initialized, park, t, history>>

-----------------------------------------------------------------------------
(* A thread meets a monitor that is taken: MonitorContendedEnter.          *)
Contend(i) ==
    /\ Tick /\ t[i].at = "run"
    /\ t' = [t EXCEPT ![i].at = "blocked", ![i].since = now, ![i].tls = IF enter_on THEN now ELSE @]
    /\ UNCHANGED <<control, history>>

(* MonitorContendedEntered: disabled, started before profiling, recorded.  *)
Recorded(i) == entered_on /\ _enabled /\ ~(t[i].tls < _start_time)

Entered(i) ==
    /\ Tick /\ t[i].at = "blocked"
    /\ t' = [t EXCEPT ![i].at = "run", ![i].since = 0]
    /\ foreign_times' = (foreign_times \/ (Recorded(i) /\ t[i].tls # t[i].since /\ session # "set time"))
    /\ unasked' = unasked
    /\ UNCHANGED control

(* UnsafeParkHook for a lock of java.util.concurrent.                      *)
Park(i) ==
    /\ Tick /\ t[i].at = "run"
    /\ t' = [t EXCEPT ![i].at = "parked", ![i].since = now, ![i].hooked = park = "hook" /\ _enabled]
    /\ UNCHANGED <<control, history>>

Unpark(i) ==
    /\ Tick /\ t[i].at = "parked"
    /\ t' = [t EXCEPT ![i].at = "run", ![i].since = 0, ![i].hooked = FALSE]
    /\ unasked' = (unasked \/ (t[i].hooked /\ session = "running" /\ ~lock))
    /\ UNCHANGED <<control, foreign_times>>

Next ==
    \/ \E l \in BOOLEAN : StartSession(l)
    \/ Initialize \/ EnableEnter \/ EnableEntered \/ SetStartTime \/ HookPark \/ StopSession \/ DisableEvents
    \/ \E i \in Threads : Contend(i) \/ Entered(i) \/ Park(i) \/ Unpark(i)

Spec == Init /\ [][Next]_vars

-----------------------------------------------------------------------------
TypeOK ==
    /\ now \in 1..MaxTime /\ _start_time \in 0..MaxTime /\ _enabled \in BOOLEAN
    /\ park \in {"orig", "hook"} /\ _initialized \in BOOLEAN
    /\ \A i \in Threads : t[i].tls \in 0..MaxTime /\ t[i].since \in 0..MaxTime

(* A contention that is recorded was timed from its own beginning: the     *)
(* start time set after the notifications are on rejects the times that    *)
(* earlier sessions left in the threads, and the flag cleared before they  *)
(* are off rejects contentions whose beginning was not reported. Events    *)
(* recorded before start has set the time are excepted.                    *)
ContentionTimed == ~foreign_times

(* Lock events appear only in a session that profiles locks. The code does *)
(* not keep this: the hook of park outlives its session (LockTracer::stop) *)
(* and asks for nothing but Engine::_enabled, which every session sets.    *)
LockEventsAsked == ~unasked
=============================================================================
