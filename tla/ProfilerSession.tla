-------------------------- MODULE ProfilerSession --------------------------
(***************************************************************************)
(* Sessions of the Profiler and their timer threads (profiler.cpp): start, *)
(* stop, timeout, loop, shutdown.                                          *)
(*                                                                         *)
(* Every command runs under _state_lock, so a command is one step, except  *)
(* that a start may stay inside the start of a JFR master recording for a  *)
(* while, holding the lock. A timer thread sleeps and decides without      *)
(* _state_lock: it compares _timer_id under _timer_lock, then reads the    *)
(* clock, and only then takes _state_lock in expire().                     *)
(***************************************************************************)
EXTENDS Naturals, TLAPS

CONSTANTS
    Args,        \* arguments of a start: [cookie, timeout, loop, jfr]
    MaxSessions, \* bound on the sessions started
    MaxAttempts, \* bound on the start commands issued
    MaxTime      \* bound on the clock

SessionShape ==
    /\ Args \subseteq [cookie : BOOLEAN, timeout : Nat, loop : Nat, jfr : BOOLEAN]
    /\ \A a \in Args : a.cookie => a.jfr /\ a.loop = 0
    /\ MaxSessions \in Nat /\ MaxAttempts \in Nat /\ MaxTime \in Nat

VARIABLES
    state,     \* _state
    epoch,     \* _epoch, the number of the last session started
    args,      \* _global_args, with _file_num
    stopTime,  \* _stop_time
    loopTime,  \* _loop_time
    timerId,   \* _timer_id: the session it was created for, 0 for NULL
    timer,     \* the timer thread of each session
    clock,     \* OS::micros, in units of the timeouts
    starting,  \* the arguments of a start that holds _state_lock, or NoStart
    attempts,  \* start commands issued
    down,      \* the VM death hook has run
    ended      \* history: how each session ended

lockVars == <<state, epoch, args, stopTime, loopTime, ended>>
vars == <<lockVars, timerId, timer, clock, starting, attempts, down>>

Sessions == 1..MaxSessions
Never == MaxTime + 1  \* 0x7fffffffffffffff
NoArgs == [cookie |-> FALSE, timeout |-> 0, loop |-> 0, jfr |-> FALSE]
NoStart == [start |-> NoArgs, fileNum |-> 0]
NotEnded == [by |-> 0, reason |-> "none", cookie |-> FALSE, loop |-> 0]
NoTimer == [pc |-> "none", limit |-> 0, restart |-> FALSE]

Init ==
    /\ state = "NEW"
    /\ epoch = 0
    /\ args = NoStart
    /\ stopTime = 0 /\ loopTime = 0
    /\ timerId = 0
    /\ timer = [s \in Sessions |-> NoTimer]
    /\ clock = 0
    /\ starting = NoStart
    /\ attempts = 0
    /\ down = FALSE
    /\ ended = [s \in Sessions |-> NotEnded]

Min(a, b) == IF a < b THEN a ELSE b

(* Faulty variant: no limit is added to the time.                          *)
AddTimeoutOverflow(time, timeout) == time + (IF timeout = 0 THEN Never ELSE timeout)

(* addTimeout: 0 means no limit. A time of day is a limit like any other.  *)
AddTimeout(time, timeout) == IF timeout = 0 THEN Never ELSE time + timeout

(* _state_lock is free.                                                    *)
Unlocked == starting = NoStart

-----------------------------------------------------------------------------
(* start and stop.                                                         *)

BeginStart(a) ==
    /\ Unlocked
    /\ state \in {"NEW", "IDLE"}
    /\ attempts < MaxAttempts
    /\ attempts' = attempts + 1
    /\ starting' = [start |-> a, fileNum |-> 0]
    /\ UNCHANGED <<lockVars, timerId, timer, clock, down>>

(* The session begins: a timer is created for a timeout, a loop or a JFR   *)
(* recording. Creating the thread may fail. A capture's arguments carry    *)
(* its epoch, and validation refuses to start them a second time.          *)
FinishStart ==
    LET a == starting.start IN
    /\ ~Unlocked
    /\ ~(a.cookie /\ starting.fileNum > 0)
    /\ epoch < MaxSessions
    /\ clock + a.loop <= MaxTime
    /\ starting.fileNum = 0 => clock + a.timeout <= MaxTime
    /\ state' = "RUNNING"
    /\ epoch' = epoch + 1
    /\ args' = starting
    /\ IF a.timeout # 0 \/ a.loop # 0 \/ a.jfr
       THEN /\ loopTime' = AddTimeout(clock, a.loop)
            /\ stopTime' = IF starting.fileNum = 0 THEN AddTimeout(clock, a.timeout) ELSE stopTime
            /\ \/ /\ timerId' = epoch + 1
                  /\ timer' = [timer EXCEPT ![epoch + 1].pc = "created"]
               \/ UNCHANGED <<timerId, timer>>
       ELSE UNCHANGED <<loopTime, stopTime, timerId, timer>>
    /\ starting' = NoStart
    /\ UNCHANGED <<clock, attempts, down, ended>>

(* A start that fails after args.save() leaves its arguments behind.       *)
FailStart ==
    /\ ~Unlocked
    /\ \/ args' = starting
       \/ UNCHANGED args
    /\ starting' = NoStart
    /\ UNCHANGED <<state, epoch, stopTime, loopTime, timerId, timer, clock, attempts, down, ended>>

(* The end of the running session in stop(); by names the timer that asked *)
(* for it, 0 for a command. Line 1175 retires the timer.                   *)
EndSession(by, reason) ==
    ended' = [ended EXCEPT ![epoch] = [by |-> by, reason |-> reason,
                                       cookie |-> args.start.cookie, loop |-> args.start.loop]]

(* Faulty variant: the timer is left running.                              *)
StopKeepsTimer(reason) ==
    /\ Unlocked /\ state = "RUNNING"
    /\ EndSession(0, reason)
    /\ state' = "IDLE"
    /\ UNCHANGED <<epoch, args, stopTime, loopTime, timerId, timer, clock, starting, attempts, down>>

Stop(reason) ==
    /\ Unlocked /\ state = "RUNNING"
    /\ EndSession(0, reason)
    /\ state' = "IDLE"
    /\ timerId' = 0
    /\ UNCHANGED <<epoch, args, stopTime, loopTime, timer, clock, starting, attempts, down>>

PlainStop == ~args.start.cookie /\ Stop("stop")
GuardedStop == args.start.cookie /\ Stop("guarded-stop")
MasterStop == args.start.jfr /\ Stop("master-stop")

(* shutdown(): polls for _state_lock, but gives up for good when it finds  *)
(* it taken by a start of a JFR master recording. A capture is stopped     *)
(* directly. Any other session is stopped by run(), which returns before   *)
(* it stops anything when the output file cannot be opened; the session is *)
(* then abandoned, with its timer.                                         *)
Shutdown ==
    /\ ~down
    /\ down' = TRUE
    /\ IF Unlocked
       THEN /\ state' = "TERMINATED"
            /\ \/ state # "RUNNING" /\ UNCHANGED <<ended, timerId>>
               \/ /\ state = "RUNNING"
                  /\ EndSession(0, IF args.start.cookie THEN "vm-shutdown" ELSE "stop")
                  /\ timerId' = 0
               \/ /\ state = "RUNNING" /\ ~args.start.cookie
                  /\ EndSession(0, "abandoned")
                  /\ UNCHANGED timerId
       ELSE starting.start.jfr /\ UNCHANGED <<state, ended, timerId>>
    /\ UNCHANGED <<epoch, args, stopTime, loopTime, timer, clock, starting, attempts>>

-----------------------------------------------------------------------------
(* timerLoop.                                                              *)

Move(t, pc) == timer' = [timer EXCEPT ![t].pc = pc]
Exit(t) == timer' = [timer EXCEPT ![t] = [NoTimer EXCEPT !.pc = "done"]]

(* Faulty variant: the later of the two limits.                            *)
BeginTimerLater(t) ==
    /\ timer[t].pc = "created"
    /\ timer' = [timer EXCEPT ![t].pc = "waiting",
                              ![t].limit = IF stopTime < loopTime THEN loopTime ELSE stopTime]
    /\ UNCHANGED <<lockVars, timerId, clock, starting, attempts, down>>

BeginTimer(t) ==
    /\ timer[t].pc = "created"
    /\ timer' = [timer EXCEPT ![t].pc = "waiting", ![t].limit = Min(stopTime, loopTime)]
    /\ UNCHANGED <<lockVars, timerId, clock, starting, attempts, down>>

(* _timer_id is no longer this thread's: it has been stopped.              *)
RetireTimer(t) ==
    /\ timer[t].pc = "waiting"
    /\ timerId # t
    /\ Exit(t)
    /\ UNCHANGED <<lockVars, timerId, clock, starting, attempts, down>>

(* Awake, and still the current timer. With JFR the thread wakes up every  *)
(* second, otherwise at its limit.                                         *)
WakeTimer(t) ==
    /\ timer[t].pc = "waiting"
    /\ timerId = t
    /\ args.start.jfr \/ clock >= timer[t].limit
    /\ Move(t, "awake")
    /\ UNCHANGED <<lockVars, timerId, clock, starting, attempts, down>>

(* Without _timer_lock and without _state_lock.                            *)
DecideTimer(t) ==
    /\ timer[t].pc = "awake"
    /\ IF clock >= timer[t].limit
       THEN timer' = [timer EXCEPT ![t].pc = "expiring", ![t].restart = clock < stopTime]
       ELSE Move(t, "waiting")  \* timerTick and flushJfr
    /\ UNCHANGED <<lockVars, timerId, clock, starting, attempts, down>>

(* expire(_global_args, restart): whatever session is running by now is    *)
(* stopped. After an error in stop or dump there is no restart; else a     *)
(* loop goes on, still under _state_lock, with the next file number.       *)
Expire(t) ==
    /\ timer[t].pc = "expiring"
    /\ Unlocked
    /\ IF state # "RUNNING"
       THEN UNCHANGED <<state, ended, timerId, starting>>
       ELSE /\ EndSession(t, IF timer[t].restart THEN "loop" ELSE "timeout")
            /\ state' = "IDLE"
            /\ timerId' = 0
            /\ \/ /\ timer[t].restart
                  /\ starting' = [args EXCEPT !.fileNum = @ + 1]
               \/ UNCHANGED starting
    /\ Exit(t)
    /\ UNCHANGED <<epoch, args, stopTime, loopTime, clock, attempts, down>>

TimerStep(t) ==
    \/ BeginTimer(t) \/ RetireTimer(t) \/ WakeTimer(t) \/ DecideTimer(t) \/ Expire(t)

Tick ==
    /\ clock < MaxTime
    /\ clock' = clock + 1
    /\ UNCHANGED <<lockVars, timerId, timer, starting, attempts, down>>

Next ==
    \/ \E a \in Args : BeginStart(a)
    \/ FinishStart \/ FailStart
    \/ PlainStop \/ GuardedStop \/ MasterStop \/ Shutdown
    \/ \E t \in Sessions : TimerStep(t)
    \/ Tick

(* Time passes, timer threads are scheduled, and a start ends.             *)
Fairness ==
    /\ WF_vars(Tick)
    /\ \A t \in Sessions : WF_vars(TimerStep(t))
    /\ WF_vars(FinishStart \/ FailStart)

Spec == Init /\ [][Next]_vars /\ Fairness

-----------------------------------------------------------------------------
(* Properties.                                                             *)

Reasons == {"none", "stop", "guarded-stop", "master-stop", "vm-shutdown", "loop", "timeout",
            "abandoned"}

(* Every variable has the type of the C++ variable it stands for.          *)
TypeOK ==
    /\ state \in {"NEW", "IDLE", "RUNNING", "TERMINATED"}
    /\ epoch \in 0..MaxSessions
    /\ args \in [start : Args \cup {NoArgs}, fileNum : Nat]
    /\ stopTime \in 0..Never /\ loopTime \in 0..Never
    /\ timerId \in 0..MaxSessions
    /\ timer \in [Sessions -> [pc : {"none", "created", "waiting", "awake", "expiring", "done"},
                               limit : 0..Never, restart : BOOLEAN]]
    /\ clock \in 0..MaxTime
    /\ starting \in [start : Args \cup {NoArgs}, fileNum : Nat]
    /\ attempts \in 0..MaxAttempts
    /\ down \in BOOLEAN
    /\ ended \in [Sessions -> [by : 0..MaxSessions, reason : Reasons, cookie : BOOLEAN, loop : Nat]]

(* The shutdown left the session as it was.                                *)
Abandoned(s) == ended[s].reason = "abandoned"

(* The current timer belongs to the running session, or to the one that    *)
(* the shutdown abandoned because it could not open the output file, which *)
(* is never a capture. Exactly the sessions that are over have a recorded  *)
(* end: none ends twice or is lost.                                        *)
(* A session that its own timer ends with reason "loop" was started with a *)
(* loop, and a capture's own timer always ends it with reason "timeout".   *)
TimerOfRunningSession ==
    /\ timerId # 0 => timerId = epoch /\ (state = "RUNNING" \/ Abandoned(epoch))
    /\ \A s \in Sessions : Abandoned(s) => s = epoch /\ state = "TERMINATED" /\ ~ended[s].cookie
    /\ \A s \in Sessions :
          (ended[s] # NotEnded) <=> (s < epoch \/ (s = epoch /\ state # "RUNNING"))
    /\ \A s \in Sessions : ended[s].by = s =>
          /\ ended[s].reason = "loop" => ended[s].loop # 0
          /\ ended[s].cookie => ended[s].reason = "timeout"

(* A session with a deadline and a timer thread ends, restarted by its     *)
(* loop or for good, unless the shutdown abandons it, and a timer thread   *)
(* whose session is over goes away.                                        *)
TimersComplete ==
    \A s \in Sessions :
        /\ (epoch = s /\ timerId = s /\ Min(stopTime, loopTime) # Never) ~> ended[s] # NotEnded
        /\ (timer[s].pc # "none" /\ timerId # s) ~> timer[s].pc = "done"

(* "A capture can only be stopped by a controller that knows its identity" *)
(* (docs/ProfilerOptions.md:172): in particular never by the timer of      *)
(* another session.                                                        *)
CaptureNotEndedByForeignTimer ==
    \A s \in Sessions : ended[s].cookie => ended[s].by \in {0, s}
-----------------------------------------------------------------------------
(* Proofs, for any arguments, any number of sessions and any time.         *)

Live(t) == t = epoch /\ state = "RUNNING"

(* A start under way holds _state_lock while no session runs.              *)
LockInv == ~Unlocked => state \in {"NEW", "IDLE"}

(* What is left of a session: its timer and its recorded end.              *)
EndInv ==
    /\ timerId # 0 => timerId = epoch /\ (state = "RUNNING" \/ Abandoned(epoch))
    /\ state = "RUNNING" => epoch # 0
    /\ \A s \in Sessions : Abandoned(s) => s = epoch /\ state = "TERMINATED" /\ ~ended[s].cookie
    /\ \A s \in Sessions :
          (ended[s] # NotEnded) <=> (s < epoch \/ (s = epoch /\ state # "RUNNING"))

(* A timer works with the limits of its own session for as long as that    *)
(* session runs, so it asks for a restart only where there is a loop.      *)
LimitInv ==
    \A t \in Sessions : timer[t].pc # "none" =>
        /\ t <= epoch
        /\ Live(t) => (args.start.loop = 0 => loopTime = Never)
        /\ Live(t) /\ timer[t].pc \in {"waiting", "awake", "expiring"} =>
              timer[t].limit = Min(stopTime, loopTime)
        /\ Live(t) /\ timer[t].pc = "expiring" /\ timer[t].restart => loopTime < stopTime

(* The sessions that their own timer has ended.                            *)
OwnEndInv ==
    \A s \in Sessions : ended[s].by = s =>
        /\ ended[s].reason = "loop" => ended[s].loop # 0
        /\ ended[s].cookie => ended[s].reason = "timeout"

IInv == TypeOK /\ LockInv /\ EndInv /\ LimitInv /\ OwnEndInv

(* What the commands and the timers do to the timer threads, one by one.   *)
LEMMA TimerMoves ==
    ASSUME SessionShape, TypeOK, NEW t \in Sessions, NEW r, timer' = [timer EXCEPT ![t] = r]
    PROVE  timer'[t] = r /\ \A u \in Sessions : u # t => timer'[u] = timer[u]
BY DEF TypeOK

(* The end of a session is recorded in its own place.                      *)
LEMMA EndOfSession ==
    ASSUME SessionShape, TypeOK, epoch # 0, NEW by, NEW reason, EndSession(by, reason)
    PROVE  /\ epoch \in Sessions
           /\ ended'[epoch] = [by |-> by, reason |-> reason,
                               cookie |-> args.start.cookie, loop |-> args.start.loop]
           /\ \A s \in Sessions : s # epoch => ended'[s] = ended[s]
BY DEF SessionShape, TypeOK, EndSession, Sessions

(* The arguments of a capture have no loop.                                *)
LEMMA ArgsTyped ==
    ASSUME SessionShape, NEW a \in Args \cup {NoArgs}
    PROVE  /\ a \in [cookie : BOOLEAN, timeout : Nat, loop : Nat, jfr : BOOLEAN]
           /\ a.cookie => a.loop = 0
<1>1. CASE a \in Args
  BY <1>1 DEF SessionShape
<1>2. CASE a = NoArgs
  BY <1>2 DEF NoArgs
<1> QED  BY <1>1, <1>2

(* Every command and every step of a timer keeps the types.                *)
LEMMA TypeStep ==
    ASSUME SessionShape, IInv, [Next]_vars
    PROVE  TypeOK'
<1> USE DEF SessionShape, IInv, TypeOK, lockVars
<1>1. ASSUME NEW a \in Args, BeginStart(a)  PROVE TypeOK'
  BY <1>1 DEF BeginStart
<1>2. CASE FinishStart
  <2>1. starting.start.timeout \in Nat /\ starting.start.loop \in Nat
    BY ArgsTyped
  <2>2. /\ loopTime' \in 0..Never /\ stopTime' \in 0..Never
        /\ epoch' \in 0..MaxSessions /\ timerId' \in 0..MaxSessions
    BY <1>2, <2>1 DEF FinishStart, AddTimeout, Never
  <2>3. epoch + 1 \in Sessions
    BY <1>2 DEF FinishStart, Sessions
  <2>4. timer' \in [Sessions -> [pc : {"none", "created", "waiting", "awake", "expiring", "done"},
                                 limit : 0..Never, restart : BOOLEAN]]
    BY <1>2, <2>3 DEF FinishStart
  <2> QED  BY <1>2, <2>2, <2>4 DEF FinishStart, NoStart
<1>3. CASE FailStart
  BY <1>3 DEF FailStart, NoStart
<1>4. ASSUME state = "RUNNING", NEW by \in 0..MaxSessions, NEW reason \in Reasons,
             EndSession(by, reason)
      PROVE  ended' \in [Sessions -> [by : 0..MaxSessions, reason : Reasons,
                                      cookie : BOOLEAN, loop : Nat]]
  <2>1. args.start.cookie \in BOOLEAN /\ args.start.loop \in Nat
    BY ArgsTyped
  <2> QED  BY <1>4, <2>1, Zenon DEF EndSession
<1>5. ASSUME NEW reason \in Reasons, Stop(reason)  PROVE TypeOK'
  <2>1. 0 \in 0..MaxSessions
    OBVIOUS
  <2> QED  BY <1>4, <1>5, <2>1 DEF Stop
<1>6. CASE Shutdown
  <2>1. state' \in {"NEW", "IDLE", "RUNNING", "TERMINATED"} /\ timerId' \in 0..MaxSessions
    BY <1>6 DEF Shutdown
  <2>2. ended' \in [Sessions -> [by : 0..MaxSessions, reason : Reasons,
                                 cookie : BOOLEAN, loop : Nat]]
    <3>1. CASE Unlocked /\ state = "RUNNING"
      <4>1. PICK reason \in Reasons : EndSession(0, reason)
        BY <1>6, <3>1 DEF Shutdown, Reasons
      <4>2. 0 \in 0..MaxSessions
        OBVIOUS
      <4> QED  BY <1>4, <3>1, <4>1, <4>2
    <3>2. CASE ~(Unlocked /\ state = "RUNNING")
      BY <1>6, <3>2 DEF Shutdown
    <3> QED  BY <3>1, <3>2
  <2> QED  BY <1>6, <2>1, <2>2 DEF Shutdown
<1>7. ASSUME NEW t \in Sessions, TimerStep(t)  PROVE TypeOK'
  <2>0. ASSUME NEW r \in [pc : {"none", "created", "waiting", "awake", "expiring", "done"},
                          limit : 0..Never, restart : BOOLEAN],
               timer' = [timer EXCEPT ![t] = r]
        PROVE  timer' \in [Sessions -> [pc : {"none", "created", "waiting", "awake", "expiring", "done"},
                                        limit : 0..Never, restart : BOOLEAN]]
    BY <2>0
  <2>e. ASSUME Exit(t)
        PROVE  timer' \in [Sessions -> [pc : {"none", "created", "waiting", "awake", "expiring", "done"},
                                        limit : 0..Never, restart : BOOLEAN]]
    <3>1. 0 \in 0..Never
      BY DEF Never
    <3>2. [NoTimer EXCEPT !.pc = "done"] \in
              [pc : {"none", "created", "waiting", "awake", "expiring", "done"},
               limit : 0..Never, restart : BOOLEAN]
      BY <3>1, Zenon DEF NoTimer
    <3> QED  BY <2>e, <2>0, <3>2 DEF Exit
  <2>1. CASE BeginTimer(t)
    <3>1. Min(stopTime, loopTime) \in 0..Never
      BY DEF Min
    <3>2. timer' = [timer EXCEPT ![t] = [timer[t] EXCEPT !.pc = "waiting", !.limit = Min(stopTime, loopTime)]]
      BY <2>1, Zenon DEF BeginTimer
    <3>3. [timer[t] EXCEPT !.pc = "waiting", !.limit = Min(stopTime, loopTime)] \in
              [pc : {"none", "created", "waiting", "awake", "expiring", "done"},
               limit : 0..Never, restart : BOOLEAN]
      <4>1. timer[t] \in [pc : {"none", "created", "waiting", "awake", "expiring", "done"},
                         limit : 0..Never, restart : BOOLEAN]
        OBVIOUS
      <4> HIDE DEF SessionShape, IInv, TypeOK
      <4> QED  BY <3>1, <4>1, Zenon
    <3> QED  BY <2>0, <2>1, <3>2, <3>3 DEF BeginTimer
  <2>2. CASE RetireTimer(t)
    BY <2>2, <2>e DEF RetireTimer
  <2>3. CASE WakeTimer(t)
    BY <2>3 DEF WakeTimer, Move
  <2>4. CASE DecideTimer(t)
    BY <2>4 DEF DecideTimer, Move
  <2>5. CASE Expire(t)
    <3>1. ended' \in [Sessions -> [by : 0..MaxSessions, reason : Reasons,
                                   cookie : BOOLEAN, loop : Nat]]
      <4>1. CASE state = "RUNNING"
        <5>1. PICK reason \in Reasons : EndSession(t, reason)
          BY <2>5, <4>1 DEF Expire, Reasons
        <5>2. t \in 0..MaxSessions
          BY DEF Sessions
        <5> QED  BY <1>4, <4>1, <5>1, <5>2
      <4>2. CASE state # "RUNNING"
        BY <2>5, <4>2 DEF Expire
      <4> QED  BY <4>1, <4>2
    <3>2. /\ timer' \in [Sessions -> [pc : {"none", "created", "waiting", "awake", "expiring", "done"},
                                      limit : 0..Never, restart : BOOLEAN]]
          /\ timerId' \in 0..MaxSessions
      BY <2>5, <2>e DEF Expire
    <3>3. starting' \in [start : Args \cup {NoArgs}, fileNum : Nat]
      BY <2>5 DEF Expire
    <3> QED  BY <2>5, <3>1, <3>2, <3>3 DEF Expire
  <2> QED  BY <1>7, <2>1, <2>2, <2>3, <2>4, <2>5 DEF TimerStep
<1>8. CASE Tick
  BY <1>8 DEF Tick
<1>9. CASE UNCHANGED vars
  BY <1>9 DEF vars
<1>10. CASE PlainStop \/ GuardedStop \/ MasterStop
  BY <1>5, <1>10 DEF PlainStop, GuardedStop, MasterStop, Reasons
<1> HIDE DEF SessionShape, IInv, TypeOK
<1> QED  BY <1>1, <1>2, <1>3, <1>6, <1>7, <1>8, <1>9, <1>10 DEF Next

(* No session runs under a start, which holds _state_lock.                 *)
LEMMA LockStep ==
    ASSUME SessionShape, IInv, [Next]_vars
    PROVE  LockInv'
<1> USE DEF IInv, LockInv, Unlocked, lockVars
<1>1. ASSUME NEW t \in Sessions, TimerStep(t)  PROVE LockInv'
  <2>1. CASE Expire(t)
    BY <2>1 DEF Expire
  <2> QED  BY <1>1, <2>1 DEF TimerStep, BeginTimer, RetireTimer, WakeTimer, DecideTimer
<1> QED  BY <1>1 DEF Next, BeginStart, FinishStart, FailStart, PlainStop, GuardedStop, MasterStop, Stop,
                     Shutdown, Tick, vars

(* The steps that leave the sessions and their timers alone.               *)
LEMMA SessionFrame ==
    ASSUME SessionShape, IInv, UNCHANGED <<state, epoch, ended, timerId>>
    PROVE  EndInv' /\ OwnEndInv'
BY DEF IInv, EndInv, OwnEndInv, Abandoned

(* Each session is ended once, by what ends it, in its own place.          *)
LEMMA EndStep ==
    ASSUME SessionShape, IInv, [Next]_vars
    PROVE  EndInv' /\ OwnEndInv'
<1> USE DEF lockVars
<1>1. ASSUME NEW a \in Args, BeginStart(a)  PROVE EndInv' /\ OwnEndInv'
  BY <1>1, SessionFrame DEF BeginStart
<1>2. CASE FinishStart
  <2>1. /\ state \in {"NEW", "IDLE"} /\ state' = "RUNNING" /\ epoch' = epoch + 1 /\ ended' = ended
        /\ timerId' \in {timerId, epoch + 1}
    BY <1>2 DEF FinishStart, IInv, LockInv
  <2>2. epoch \in Nat /\ Sessions \subseteq Nat /\ \A s \in Sessions : ~Abandoned(s)
    BY <2>1 DEF IInv, EndInv, TypeOK, SessionShape, Sessions
  <2>3. timerId = 0
    BY <2>1, <2>2 DEF IInv, EndInv, TypeOK, SessionShape, Sessions
  <2>4. EndInv'
    <3>1. timerId' # 0 => timerId' = epoch'
      BY <2>1, <2>3
    <3>2. epoch' # 0
      BY <2>1, <2>2
    <3>3. \A s \in Sessions : ~Abandoned(s)'
      BY <2>1, <2>2 DEF Abandoned
    <3>4. \A s \in Sessions : (ended'[s] # NotEnded) <=> s < epoch'
      BY <2>1, <2>2 DEF IInv, EndInv
    <3> QED  BY <2>1, <3>1, <3>2, <3>3, <3>4 DEF EndInv
  <2> QED  BY <2>1, <2>4 DEF IInv, OwnEndInv
<1>3. CASE FailStart
  BY <1>3, SessionFrame DEF FailStart
<1>4. ASSUME NEW by, NEW reason, state = "RUNNING", EndSession(by, reason),
             by = epoch => /\ reason = "loop" => args.start.loop # 0
                           /\ args.start.cookie => reason = "timeout",
             reason = "abandoned" => ~args.start.cookie /\ state' = "TERMINATED",
             timerId' = 0 \/ (timerId' = timerId /\ reason = "abandoned"),
             reason # "none", epoch' = epoch, state' # "RUNNING"
      PROVE  EndInv' /\ OwnEndInv'
  <2>1. epoch # 0
    BY <1>4 DEF IInv, EndInv
  <2>2. /\ epoch \in Sessions
        /\ ended'[epoch] = [by |-> by, reason |-> reason,
                            cookie |-> args.start.cookie, loop |-> args.start.loop]
        /\ \A s \in Sessions : s # epoch => ended'[s] = ended[s]
    BY <1>4, <2>1, EndOfSession DEF IInv
  <2>3. ended'[epoch] # NotEnded
    BY <1>4, <2>2 DEF NotEnded
  <2>4. EndInv'
    <3>1. \A s \in Sessions : Abandoned(s)' => s = epoch /\ reason = "abandoned"
      BY <1>4, <2>2 DEF IInv, EndInv, Abandoned
    <3>2. Abandoned(epoch)' <=> reason = "abandoned"
      BY <1>4, <2>2 DEF Abandoned
    <3>3. timerId' # 0 => timerId' = epoch /\ reason = "abandoned"
      BY <1>4 DEF IInv, EndInv
    <3>4. \A s \in Sessions : (ended'[s] # NotEnded) <=> (s < epoch \/ s = epoch)
      BY <1>4, <2>2, <2>3 DEF IInv, EndInv, TypeOK, Sessions
    <3> QED  BY <1>4, <2>2, <3>1, <3>2, <3>3, <3>4 DEF EndInv
  <2>5. OwnEndInv'
    BY <1>4, <2>2 DEF IInv, OwnEndInv
  <2> QED  BY <2>4, <2>5
<1>5. ASSUME NEW reason \in {"stop", "guarded-stop", "master-stop"}, Stop(reason)
      PROVE  EndInv' /\ OwnEndInv'
  <2>1. state = "RUNNING" => 0 # epoch
    BY DEF IInv, EndInv
  <2> QED  BY <1>4, <1>5, <2>1 DEF Stop
<1>6. CASE Shutdown
  <2>1. CASE Unlocked /\ state = "RUNNING"
    <3>1. epoch # 0
      BY <2>1 DEF IInv, EndInv
    <3>2. PICK reason \in {"vm-shutdown", "stop", "abandoned"} :
             /\ EndSession(0, reason)
             /\ reason = "abandoned" => ~args.start.cookie
             /\ timerId' = 0 \/ (timerId' = timerId /\ reason = "abandoned")
      BY <1>6, <2>1 DEF Shutdown
    <3>3. epoch' = epoch /\ state' = "TERMINATED"
      BY <1>6, <2>1 DEF Shutdown
    <3> QED  BY <1>4, <2>1, <3>1, <3>2, <3>3
  <2>2. CASE Unlocked /\ state # "RUNNING"
    BY <1>6, <2>2 DEF Shutdown, IInv, EndInv, OwnEndInv, Abandoned
  <2>3. CASE ~Unlocked
    BY <1>6, <2>3, SessionFrame DEF Shutdown
  <2> QED  BY <2>1, <2>2, <2>3
<1>7. ASSUME NEW t \in Sessions, TimerStep(t)  PROVE EndInv' /\ OwnEndInv'
  <2>1. CASE Expire(t) /\ state = "RUNNING"
    <3>1. args.start.cookie => args.start.loop = 0
      BY ArgsTyped DEF IInv, TypeOK
    <3>2. t = epoch /\ timer[t].restart => args.start.loop # 0
      BY <2>1 DEF Expire, IInv, LimitInv, Live, TypeOK, Never, SessionShape
    <3>3. timer[t].restart \in BOOLEAN
      BY DEF IInv, TypeOK
    <3>4. PICK reason \in {"loop", "timeout"} :
             /\ EndSession(t, reason)
             /\ reason = "loop" => timer[t].restart
      BY <2>1, <3>3 DEF Expire
    <3>5. timerId' = 0 /\ epoch' = epoch /\ state' # "RUNNING"
      BY <2>1 DEF Expire
    <3> QED  BY <1>4, <2>1, <3>1, <3>2, <3>4, <3>5
  <2>2. CASE ~(Expire(t) /\ state = "RUNNING")
    BY <1>7, <2>2, SessionFrame
       DEF TimerStep, BeginTimer, RetireTimer, WakeTimer, DecideTimer, Expire
  <2> QED  BY <2>1, <2>2
<1>8. CASE Tick
  BY <1>8, SessionFrame DEF Tick
<1>9. CASE UNCHANGED vars
  BY <1>9, SessionFrame DEF vars
<1> QED  BY <1>1, <1>2, <1>3, <1>5, <1>6, <1>7, <1>8, <1>9
         DEF Next, PlainStop, GuardedStop, MasterStop

(* The steps that leave the timers and what they are set up with alone, or *)
(* end the session.                                                        *)
LEMMA LimitFrame ==
    ASSUME SessionShape, IInv, UNCHANGED <<epoch, timer>>,
           \/ UNCHANGED <<state, args, stopTime, loopTime>>
           \/ state' # "RUNNING"
    PROVE  LimitInv'
BY DEF IInv, LimitInv, Live, Min

(* What a timer does keeps its limits those of its session.                *)
LEMMA LimitStep ==
    ASSUME SessionShape, IInv, [Next]_vars
    PROVE  LimitInv'
<1> USE DEF lockVars
<1>1. ASSUME NEW a \in Args, BeginStart(a)  PROVE LimitInv'
  BY <1>1, LimitFrame DEF BeginStart
<1>2. CASE FinishStart
  <2>1. epoch + 1 \in Sessions /\ epoch' = epoch + 1 /\ epoch \in Nat
    <3>1. epoch < MaxSessions /\ epoch' = epoch + 1  BY <1>2 DEF FinishStart
    <3>2. epoch \in 0..MaxSessions /\ MaxSessions \in Nat  BY DEF IInv, TypeOK, SessionShape
    <3> QED  BY <3>1, <3>2 DEF Sessions
  <2>2. \A t \in Sessions : t # epoch + 1 => timer'[t] = timer[t]
    BY <1>2 DEF FinishStart, IInv, TypeOK
  <2>3. timer[epoch + 1].pc = "none"
    BY <2>1 DEF IInv, LimitInv
  <2>4. timer'[epoch + 1].pc \in {"none", "created"}
    BY <1>2, <2>1, <2>3 DEF FinishStart, IInv, TypeOK
  <2>5. timer'[epoch + 1].pc # "none" => (args'.start.loop = 0 => loopTime' = Never)
    BY <1>2, <2>3 DEF FinishStart, AddTimeout
  <2>6. \A t \in Sessions : t # epoch + 1 /\ timer'[t].pc # "none" => t <= epoch
    BY <2>2 DEF IInv, LimitInv
  <2>7. \A t \in Sessions : t \in Nat
    BY DEF Sessions
  <2> QED  BY <2>1, <2>4, <2>5, <2>6, <2>7 DEF LimitInv, Live
<1>3. CASE FailStart
  <2>1. state' # "RUNNING"
    BY <1>3 DEF FailStart, IInv, LockInv
  <2> QED  BY <1>3, <2>1, LimitFrame DEF FailStart
<1>4. ASSUME NEW reason, Stop(reason)  PROVE LimitInv'
  BY <1>4, LimitFrame DEF Stop
<1>5. CASE Shutdown
  BY <1>5, LimitFrame DEF Shutdown
<1>6. ASSUME NEW t \in Sessions, TimerStep(t)  PROVE LimitInv'
  <2>1. /\ epoch' = epoch /\ args' = args /\ stopTime' = stopTime /\ loopTime' = loopTime
        /\ state' = "RUNNING" => state = "RUNNING"
    BY <1>6 DEF TimerStep, BeginTimer, RetireTimer, WakeTimer, DecideTimer, Expire
  <2>2. \A u \in Sessions : u # t => timer'[u] = timer[u]
    BY <1>6 DEF TimerStep, BeginTimer, RetireTimer, WakeTimer, DecideTimer, Expire, Move, Exit, IInv, TypeOK
  <2>3. timer[t].pc # "none"
    BY <1>6 DEF TimerStep, BeginTimer, RetireTimer, WakeTimer, DecideTimer, Expire
  <2>4. /\ Live(t)' /\ timer'[t].pc \in {"waiting", "awake", "expiring"} =>
              timer'[t].limit = Min(stopTime, loopTime)
        /\ Live(t)' /\ timer'[t].pc = "expiring" /\ timer'[t].restart => loopTime < stopTime
    <3>1. CASE BeginTimer(t)
      BY <3>1 DEF BeginTimer, IInv, TypeOK
    <3>2. CASE RetireTimer(t) \/ Expire(t)
      BY <3>2 DEF RetireTimer, Expire, Exit, NoTimer, IInv, TypeOK
    <3>3. CASE WakeTimer(t)
      BY <3>3, <2>1 DEF WakeTimer, Move, IInv, TypeOK, LimitInv, Live
    <3>4. CASE DecideTimer(t)
      <4>1. Live(t)' => timer[t].limit = Min(stopTime, loopTime)
        BY <3>4, <2>1 DEF DecideTimer, IInv, LimitInv, Live
      <4>2. timer'[t].limit = timer[t].limit
        BY <3>4 DEF DecideTimer, Move, IInv, TypeOK
      <4>3. timer'[t].pc = "expiring" /\ timer'[t].restart =>
                clock >= timer[t].limit /\ clock < stopTime
        BY <3>4 DEF DecideTimer, Move, IInv, TypeOK
      <4>4. clock \in Nat /\ stopTime \in Nat /\ loopTime \in Nat
        BY DEF IInv, TypeOK, SessionShape, Never
      <4> QED  BY <4>1, <4>2, <4>3, <4>4 DEF Min
    <3> QED  BY <1>6, <3>1, <3>2, <3>3, <3>4 DEF TimerStep
  <2> QED  BY <2>1, <2>2, <2>3, <2>4 DEF IInv, LimitInv, Live, Min
<1>7. CASE Tick
  BY <1>7, LimitFrame DEF Tick
<1>8. CASE UNCHANGED vars
  BY <1>8, LimitFrame DEF vars
<1> QED  BY <1>1, <1>2, <1>3, <1>4, <1>5, <1>6, <1>7, <1>8
         DEF Next, PlainStop, GuardedStop, MasterStop

(* Initially there is no session.                                          *)
LEMMA InitInv == ASSUME SessionShape, Init  PROVE IInv
<1>1. TypeOK
  <2>1. NoTimer \in [pc : {"none", "created", "waiting", "awake", "expiring", "done"},
                     limit : 0..Never, restart : BOOLEAN]
    BY DEF NoTimer, Never, SessionShape
  <2>2. NotEnded \in [by : 0..MaxSessions, reason : Reasons, cookie : BOOLEAN, loop : Nat]
    BY DEF NotEnded, SessionShape, Reasons
  <2>3. NoStart \in [start : Args \cup {NoArgs}, fileNum : Nat]
    BY DEF NoStart
  <2>4. /\ timer \in [Sessions -> [pc : {"none", "created", "waiting", "awake", "expiring", "done"},
                                   limit : 0..Never, restart : BOOLEAN]]
        /\ ended \in [Sessions -> [by : 0..MaxSessions, reason : Reasons, cookie : BOOLEAN, loop : Nat]]
    BY <2>1, <2>2 DEF Init
  <2>5. 0 \in 0..MaxSessions /\ 0 \in 0..Never /\ 0 \in 0..MaxTime /\ 0 \in 0..MaxAttempts
    BY DEF SessionShape, Never
  <2> QED  BY <2>3, <2>4, <2>5, Zenon DEF Init, TypeOK
<1>2. LockInv /\ EndInv /\ OwnEndInv /\ LimitInv
  BY DEF SessionShape, Init, LockInv, EndInv, OwnEndInv, LimitInv, Abandoned, NotEnded, NoTimer,
         Sessions
<1> QED  BY <1>1, <1>2 DEF IInv

(* The types hold in every reachable state of the sessions, for any set of *)
(* arguments and any bounds.                                               *)
THEOREM TypeCorrect == SessionShape => (Spec => []TypeOK)
<1> SUFFICES ASSUME SessionShape  PROVE Spec => []TypeOK
  OBVIOUS
<1>1. Init => IInv
  BY InitInv
<1>2. IInv /\ [Next]_vars => IInv'
  BY TypeStep, LockStep, EndStep, LimitStep DEF IInv
<1>3. IInv => TypeOK
  BY DEF IInv
<1> QED  BY <1>1, <1>2, <1>3, PTL DEF Spec

(* Whatever commands, timers, loops and the shutdown interleave: the       *)
(* current timer is that of the running session, each session that is over *)
(* was ended once, and a timer that ends its own session does so for the   *)
(* reason it was created for (Profiler::stop, expire and timerLoop).       *)
THEOREM EachSessionEndsOnce == SessionShape => (Spec => []TimerOfRunningSession)
<1> SUFFICES ASSUME SessionShape  PROVE Spec => []TimerOfRunningSession
  OBVIOUS
<1>1. Init => IInv
  BY InitInv
<1>2. IInv /\ [Next]_vars => IInv'
  BY TypeStep, LockStep, EndStep, LimitStep DEF IInv
<1>3. IInv => TimerOfRunningSession
  BY DEF IInv, EndInv, OwnEndInv, TimerOfRunningSession
<1> QED  BY <1>1, <1>2, <1>3, PTL DEF Spec

=============================================================================
