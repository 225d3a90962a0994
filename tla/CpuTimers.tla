------------------------------ MODULE CpuTimers ------------------------------
(***************************************************************************)
(* Per-thread CPU timers (cpuEngine.cpp, ctimer_linux.cpp, hooks.cpp). A   *)
(* session creates a timer for every thread it lists; threads born while   *)
(* it runs create theirs in the pthread_create hook and delete it in the   *)
(* exit hook. Creation, exit and the sweep of stop race on one slot per    *)
(* thread id, claimed and released by compare-and-swap.                    *)
(***************************************************************************)
EXTENDS Integers, FiniteSets

CONSTANTS
    Tids,         \* thread ids; one is used again after its thread is gone
    MaxTimers,    \* kernel timers ever created
    MaxSessions,  \* sessions started
    MaxBirths     \* threads born
    \* all three are bounds

CpuTimersShape ==
    /\ 0 \notin Tids /\ MaxTimers \in Nat /\ MaxSessions \in Nat /\ MaxBirths \in Nat

VARIABLES
    life,     \* none, born (in the start hook), up, ending (in the exit hook), past (after it)
    current,  \* _current # nullptr
    slot,     \* _timers: the timer of a thread id, 0 if none
    timers,   \* kernel timers in existence: the thread id and if they are armed
    op,       \* the createForThread or destroyForThread each actor is in
    session,  \* the controlling thread
    swept,    \* history: thread ids the last stop has passed
    behind,   \* history: creations that finished after a sweep passed them
    denied,   \* history: thread ids for which timer_create failed although they existed
    created, sessions, births

timersVars == <<life, current, slot, timers, op, session, swept, behind,
               denied, created, sessions, births>>

Ctl == 0
Actors == Tids \cup {Ctl}
NoOp == [kind |-> "none", tid |-> 0, pc |-> "done", timer |-> 0]
Creating(t) == [kind |-> "create", tid |-> t, pc |-> "create", timer |-> 0]
Destroying(t) == [kind |-> "destroy", tid |-> t, pc |-> "read", timer |-> 0]
Exists(t) == life[t] # "none"

TimersInit ==
    /\ life \in [Tids -> {"none", "up"}] /\ current = FALSE
    /\ slot = [t \in Tids |-> 0] /\ timers = {}
    /\ op = [a \in Actors |-> NoOp] /\ session = [pc |-> "idle", todo |-> {}, ok |-> FALSE]
    /\ swept = {} /\ behind = {} /\ denied = {}
    /\ created = 0 /\ sessions = 0 /\ births = 0

-----------------------------------------------------------------------------
(* createForThread(op.tid) by actor a.                                     *)

(* timer_create, for a thread that exists; it may fail.                    *)
TimerCreate(a) ==
    /\ op[a].pc = "create"
    /\ \/ /\ Exists(op[a].tid) /\ created < MaxTimers
          /\ created' = created + 1
          /\ timers' = timers \cup {[id |-> created + 1, tid |-> op[a].tid, armed |-> FALSE]}
          /\ op' = [op EXCEPT ![a] = [@ EXCEPT !.pc = "claim", !.timer = created + 1]]
          /\ UNCHANGED denied
       \/ /\ op' = [op EXCEPT ![a].pc = "failed"]
          /\ denied' = IF Exists(op[a].tid) THEN denied \cup {op[a].tid} ELSE denied
          /\ UNCHANGED <<timers, created>>
    /\ UNCHANGED <<life, current, slot, session, swept, behind, sessions, births>>

Without(T, id) == {x \in T : x.id # id}

(* The slot is claimed, or the timer deleted again.                        *)
Claim(a) ==
    /\ op[a].pc = "claim"
    /\ IF slot[op[a].tid] = 0
       THEN /\ slot' = [slot EXCEPT ![op[a].tid] = op[a].timer]
            /\ op' = [op EXCEPT ![a].pc = "arm"]
            /\ UNCHANGED timers
       ELSE /\ timers' = Without(timers, op[a].timer)
            /\ op' = [op EXCEPT ![a].pc = "failed"]
            /\ UNCHANGED slot
    /\ UNCHANGED <<life, current, session, swept, behind, denied, created, sessions, births>>

(* timer_settime, of no effect on a timer already deleted.                 *)
Arm(a) ==
    /\ op[a].pc = "arm"
    /\ timers' = {IF x.id = op[a].timer THEN [x EXCEPT !.armed = TRUE] ELSE x : x \in timers}
    /\ op' = [op EXCEPT ![a].pc = "created"]
    /\ behind' = IF op[a].tid \in swept THEN behind \cup {op[a].tid} ELSE behind
    /\ UNCHANGED <<life, current, slot, session, swept, denied, created, sessions, births>>

(* destroyForThread(op.tid) by actor a.                                    *)
ReadSlot(a) ==
    /\ op[a].pc = "read"
    /\ LET timer == slot[op[a].tid]
       IN  op' = [op EXCEPT ![a] = IF timer = 0 THEN [@ EXCEPT !.pc = "destroyed"]
                                   ELSE [@ EXCEPT !.pc = "release", !.timer = timer]]
    /\ UNCHANGED <<life, current, slot, timers, session, swept, behind,
                   denied, created, sessions, births>>

(* Faulty variant: whoever reads the slot deletes the timer.               *)
ReleaseBlindly(a) ==
    /\ op[a].pc = "release"
    /\ slot' = [slot EXCEPT ![op[a].tid] = 0] /\ op' = [op EXCEPT ![a].pc = "delete"]
    /\ UNCHANGED <<life, current, timers, session, swept, behind, denied, created, sessions, births>>

Release(a) ==
    /\ op[a].pc = "release"
    /\ IF slot[op[a].tid] = op[a].timer
       THEN /\ slot' = [slot EXCEPT ![op[a].tid] = 0] /\ op' = [op EXCEPT ![a].pc = "delete"]
       ELSE op' = [op EXCEPT ![a].pc = "destroyed"] /\ UNCHANGED slot
    /\ UNCHANGED <<life, current, timers, session, swept, behind, denied, created, sessions, births>>

Delete(a) ==
    /\ op[a].pc = "delete"
    /\ timers' = Without(timers, op[a].timer)
    /\ op' = [op EXCEPT ![a].pc = "destroyed"]
    /\ UNCHANGED <<life, current, slot, session, swept, behind, denied, created, sessions, births>>

-----------------------------------------------------------------------------
(* Threads.                                                                *)

(* thread_start_wrapper: a new thread looks at _current.                   *)
Birth(t) ==
    /\ life[t] = "none" /\ births < MaxBirths /\ births' = births + 1
    /\ life' = [life EXCEPT ![t] = "born"]
    /\ UNCHANGED <<current, slot, timers, op, session, swept, behind, denied, created, sessions>>

OnThreadStart(t) ==
    /\ life[t] = "born" /\ op[t] = NoOp
    /\ IF current THEN op' = [op EXCEPT ![t] = Creating(t)] /\ UNCHANGED life
                  ELSE life' = [life EXCEPT ![t] = "up"] /\ UNCHANGED op
    /\ UNCHANGED <<current, slot, timers, session, swept, behind, denied, created, sessions, births>>

StartHookDone(t) ==
    /\ life[t] = "born" /\ op[t].pc \in {"created", "failed"}
    /\ op' = [op EXCEPT ![t] = NoOp] /\ life' = [life EXCEPT ![t] = "up"]
    /\ UNCHANGED <<current, slot, timers, session, swept, behind, denied, created, sessions, births>>

OnThreadEnd(t) ==
    /\ life[t] = "up"
    /\ IF current THEN /\ op' = [op EXCEPT ![t] = Destroying(t)]
                       /\ life' = [life EXCEPT ![t] = "ending"]
                  ELSE life' = [life EXCEPT ![t] = "past"] /\ UNCHANGED op
    /\ UNCHANGED <<current, slot, timers, session, swept, behind, denied, created, sessions, births>>

EndHookDone(t) ==
    /\ life[t] = "ending" /\ op[t].pc = "destroyed"
    /\ op' = [op EXCEPT ![t] = NoOp] /\ life' = [life EXCEPT ![t] = "past"]
    /\ UNCHANGED <<current, slot, timers, session, swept, behind, denied, created, sessions, births>>

Gone(t) ==
    /\ life[t] = "past" /\ life' = [life EXCEPT ![t] = "none"]
    /\ UNCHANGED <<current, slot, timers, op, session, swept, behind,
                   denied, created, sessions, births>>

-----------------------------------------------------------------------------
(* The controlling thread.                                                 *)

(* Faulty variant: the hooks are not let in.                               *)
StartWithoutHooks ==
    /\ session.pc = "idle" /\ sessions < MaxSessions /\ sessions' = sessions + 1
    /\ session' = [pc |-> "start", ok |-> FALSE, todo |-> {}]
    /\ swept' = {} /\ behind' = {} /\ denied' = {}
    /\ UNCHANGED <<life, current, slot, timers, op, created, births>>

(* start: the hooks are let in before the threads are listed.              *)
StartTimers ==
    /\ session.pc = "idle" /\ sessions < MaxSessions /\ sessions' = sessions + 1
    /\ current' = TRUE
    /\ session' = [pc |-> "start", ok |-> FALSE, todo |-> {}]
    /\ swept' = {} /\ behind' = {} /\ denied' = {}
    /\ UNCHANGED <<life, slot, timers, op, created, births>>

ListThreads ==
    /\ session.pc = "start"
    /\ session' = [session EXCEPT !.pc = "create", !.todo = {t \in Tids : Exists(t)}]
    /\ UNCHANGED <<life, current, slot, timers, op, swept, behind, denied, created, sessions, births>>

CreateNext ==
    /\ session.pc = "create" /\ op[Ctl] = NoOp
    /\ \E t \in session.todo :
          /\ op' = [op EXCEPT ![Ctl] = Creating(t)]
          /\ session' = [session EXCEPT !.todo = @ \ {t}]
    /\ UNCHANGED <<life, current, slot, timers, swept, behind, denied, created, sessions, births>>

CreateReturns ==
    /\ session.pc = "create" /\ op[Ctl].pc \in {"created", "failed"}
    /\ op' = [op EXCEPT ![Ctl] = NoOp]
    /\ session' = [session EXCEPT !.ok = @ \/ op[Ctl].pc = "created"]
    /\ UNCHANGED <<life, current, slot, timers, swept, behind, denied, created, sessions, births>>

(* One timer is enough for the session to run; with none it is stopped.    *)
Started ==
    /\ session.pc = "create" /\ op[Ctl] = NoOp /\ session.todo = {} /\ session.ok
    /\ session' = [session EXCEPT !.pc = "running"]
    /\ UNCHANGED <<life, current, slot, timers, op, swept, behind, denied, created, sessions, births>>

(* stop: the hooks are shut off, then all slots are swept.                 *)
StopTimers ==
    /\ \/ session.pc = "running"
       \/ session.pc = "create" /\ op[Ctl] = NoOp /\ session.todo = {} /\ ~session.ok
    /\ current' = FALSE
    /\ session' = [session EXCEPT !.pc = "sweep", !.todo = Tids]
    /\ UNCHANGED <<life, slot, timers, op, swept, behind, denied, created, sessions, births>>

SweepNext ==
    /\ session.pc = "sweep" /\ op[Ctl] = NoOp
    /\ \E t \in session.todo :
          /\ op' = [op EXCEPT ![Ctl] = Destroying(t)]
          /\ session' = [session EXCEPT !.todo = @ \ {t}]
          /\ swept' = swept \cup {t}
    /\ UNCHANGED <<life, current, slot, timers, behind, denied, created, sessions, births>>

SweepReturns ==
    /\ session.pc = "sweep" /\ op[Ctl].pc = "destroyed"
    /\ op' = [op EXCEPT ![Ctl] = NoOp]
    /\ UNCHANGED <<life, current, slot, timers, session, swept, behind,
                   denied, created, sessions, births>>

Stopped ==
    /\ session.pc = "sweep" /\ op[Ctl] = NoOp /\ session.todo = {}
    /\ session' = [session EXCEPT !.pc = "idle"]
    /\ UNCHANGED <<life, current, slot, timers, op, swept, behind, denied, created, sessions, births>>

OpStep(a) == TimerCreate(a) \/ Claim(a) \/ Arm(a) \/ ReadSlot(a) \/ Release(a) \/ Delete(a)
ThreadStep(t) ==
    Birth(t) \/ OnThreadStart(t) \/ StartHookDone(t) \/ OnThreadEnd(t) \/ EndHookDone(t) \/ Gone(t)
Control ==
    \/ StartTimers \/ ListThreads \/ CreateNext \/ CreateReturns \/ Started
    \/ StopTimers \/ SweepNext \/ SweepReturns \/ Stopped

TimersNext == Control \/ (\E t \in Tids : ThreadStep(t)) \/ (\E a \in Actors : OpStep(a))

TimersSpec == TimersInit /\ [][TimersNext]_timersVars

-----------------------------------------------------------------------------
(* Properties.                                                             *)

(* Every variable has the type of the C++ variable it stands for.          *)
TimersTypeOK ==
    /\ life \in [Tids -> {"none", "born", "up", "ending", "past"}] /\ current \in BOOLEAN
    /\ slot \in [Tids -> 0..MaxTimers]
    /\ timers \subseteq [id : 1..MaxTimers, tid : Tids, armed : BOOLEAN]

(* No kernel timer is lost: each is in the slot of its thread, where the   *)
(* exit hook or a stop will find it, or in the hands of one actor that is  *)
(* about to store or to delete it. And none is deleted twice, which could  *)
(* hit another timer with the same id: an actor about to delete has a      *)
(* timer that exists, is in no slot and is deleted by no other actor.      *)
TimersAccounted ==
    /\ \A x \in timers :
          \/ slot[x.tid] = x.id
          \/ \E a \in Actors : op[a].timer = x.id /\ op[a].pc \in {"claim", "delete"}
    /\ \A a \in Actors : op[a].pc = "delete" =>
          /\ \E x \in timers : x.id = op[a].timer
          /\ \A t \in Tids : slot[t] # op[a].timer
          /\ \A b \in Actors : b # a /\ op[b].timer = op[a].timer => op[b].pc # "delete"

(* "Let pthread hook create timers for new threads before traversing       *)
(* existing threads": once the session runs, every thread past its start   *)
(* hook has a timer, whether it was born before or during the traversal,   *)
(* unless timer_create failed for it. And a stop leaves no timer behind,   *)
(* except one whose thread was creating it in the hook while the sweep     *)
(* went past.                                                              *)
SessionCoversThreads ==
    /\ session.pc = "running" =>
          \A t \in Tids \ denied : life[t] = "up" => slot[t] # 0
    /\ session.pc = "idle" =>
          \A t \in Tids : slot[t] # 0 =>
              t \in behind \/ \E a \in Actors : op[a].tid = t /\ op[a].pc \in {"claim", "arm", "release"}

(* The two together: createForThread, destroyForThread and the sweep of    *)
(* stop lose no timer, delete none twice, and leave no thread without.     *)
TimersSound == TimersAccounted /\ SessionCoversThreads
=============================================================================
