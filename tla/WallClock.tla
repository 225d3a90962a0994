------------------------------ MODULE WallClock ------------------------------
(***************************************************************************)
(* Wall clock sampling in batch mode (wallClock.cpp). A timer thread goes  *)
(* round the threads: one that is idle gets its tick counted, any other a  *)
(* signal. The handler records a sample and, if the thread was interrupted *)
(* in a system call, leaves its CPU time in a ring buffer without locks,   *)
(* which the timer thread drains. Counted ticks are recorded as one sample *)
(* when the thread wakes up, at a flush, or at the end.                    *)
(***************************************************************************)
EXTENDS Integers, FiniteSets

CONSTANTS
    Threads,
    RingSize,       \* RINGBUF_SIZE
    PerTick,        \* THREADS_PER_TICK
    MaxIdleBatch,   \* MAX_IDLE_BATCH
    IdleThreshold, BatchThreshold,  \* IDLE_THRESHOLD_NS, BATCH_CPU_THRESHOLD_NS
    MaxCpu, MaxCycles, MaxSessions  \* bounds

WallClockShape ==
    /\ {RingSize, PerTick, MaxIdleBatch} \subseteq Nat \ {0}
    /\ IdleThreshold \in Nat /\ BatchThreshold \in Nat /\ IdleThreshold <= BatchThreshold

VARIABLES
    cpu,       \* the CPU time of each thread
    place,     \* its fingerprint: 0 if running, else the system call it is in
    pending,   \* threads with the signal pending
    handler,   \* each thread in signalHandler
    ring, writePtr, readPtr,  \* ThreadCpuTimeBuffer
    tss,       \* _thread_sleep_state
    timer,     \* the timer thread
    running, enabled,  \* _running, _enabled
    ticks, recorded,   \* history: idle ticks counted and recorded, per thread
    refused,   \* history: ticks handed over for recording and refused by the rate limit
    late,      \* history: of these, ticks counted with a signal outstanding
    overlap,   \* history: a claimed cell was claimed again or reset
    cycles, sessions

vars == <<cpu, place, pending, handler, ring, writePtr, readPtr, tss, timer, running, enabled,
          ticks, recorded, refused, late, overlap, cycles, sessions>>

world == <<cpu, place>>
buffer == <<ring, writePtr, readPtr>>
history == <<ticks, recorded, refused, late>>

Places == 0..2
Cells == 0..(RingSize - 1)
Awake == [cpu |-> 0, fingerprint |-> 0, trace |-> 0, counter |-> 0]
Empty == [cpu |-> 0, fingerprint |-> 0, trace |-> 0, thread |-> "none"]
Out == [at |-> "out"]
Off == [pc |-> "off", todo |-> {}, signaled |-> 0, left |-> 0, enabled |-> FALSE,
        entry |-> Empty]

Init ==
    /\ cpu = [t \in Threads |-> 1] /\ place = [t \in Threads |-> 1]
    /\ pending = {} /\ handler = [t \in Threads |-> Out]
    /\ ring = [c \in Cells |-> Empty] /\ writePtr = 0 /\ readPtr = 0
    /\ tss = [t \in Threads |-> Awake] /\ timer = Off /\ running = FALSE /\ enabled = TRUE
    /\ ticks = [t \in Threads |-> 0] /\ recorded = ticks /\ refused = ticks /\ late = ticks
    /\ overlap = FALSE /\ cycles = 0 /\ sessions = 0

(* The application: a thread uses some CPU time and blocks, or not.        *)
Run(t, d, p) ==
    /\ handler[t] = Out /\ cpu[t] + d <= MaxCpu
    /\ cpu' = [cpu EXCEPT ![t] = @ + d] /\ place' = [place EXCEPT ![t] = p]
    /\ UNCHANGED <<pending, handler, buffer, tss, timer, running, enabled, history, overlap,
                   cycles, sessions>>

-----------------------------------------------------------------------------
(* signalHandler. The sample is recorded first; it may fail.               *)
HandlerEnter(t, ok) ==
    /\ t \in pending /\ handler[t] = Out /\ pending' = pending \ {t}
    /\ handler' = IF place[t] # 0 /\ ok
                  THEN [handler EXCEPT ![t] = [at |-> "claim", trace |-> place[t], cell |-> 0]]
                  ELSE handler
    /\ UNCHANGED <<world, buffer, tss, timer, running, enabled, history, overlap, cycles, sessions>>

(* add: a cell of its own, as long as the ring has not gone round.         *)
Claim(t) ==
    /\ handler[t].at = "claim" /\ writePtr' = writePtr + 1
    /\ LET c == writePtr % RingSize
       IN  /\ handler' = [handler EXCEPT ![t] = [@ EXCEPT !.at = "write", !.cell = c]]
           /\ overlap' = (overlap \/ writePtr - readPtr >= RingSize)
    /\ UNCHANGED <<world, pending, ring, readPtr, tss, timer, running, enabled, history,
                   cycles, sessions>>

(* Faulty variant: the CPU time is stored with the fingerprint.            *)
WriteStamped(t) ==
    /\ handler[t].at = "write"
    /\ ring' = [ring EXCEPT ![handler[t].cell].fingerprint = handler[t].trace,
                            ![handler[t].cell].cpu = cpu[t]]
    /\ handler' = [handler EXCEPT ![t].at = "trace"]
    /\ UNCHANGED <<world, pending, writePtr, readPtr, tss, timer, running, enabled, history,
                   overlap, cycles, sessions>>

Write(t) ==
    /\ handler[t].at = "write"
    /\ ring' = [ring EXCEPT ![handler[t].cell].fingerprint = handler[t].trace]
    /\ handler' = [handler EXCEPT ![t].at = "trace"]
    /\ UNCHANGED <<world, pending, writePtr, readPtr, tss, timer, running, enabled, history,
                   overlap, cycles, sessions>>

(* The trace has the thread id in its upper half.                          *)
WriteTrace(t) ==
    /\ handler[t].at = "trace"
    /\ ring' = [ring EXCEPT ![handler[t].cell] = [@ EXCEPT !.trace = handler[t].trace, !.thread = t]]
    /\ handler' = [handler EXCEPT ![t].at = "stamp"]
    /\ UNCHANGED <<world, pending, writePtr, readPtr, tss, timer, running, enabled, history,
                   overlap, cycles, sessions>>

(* The store of the CPU time publishes the cell.                           *)
Stamp(t) ==
    /\ handler[t].at = "stamp"
    /\ ring' = [ring EXCEPT ![handler[t].cell].cpu = cpu[t]]
    /\ handler' = [handler EXCEPT ![t] = Out]
    /\ UNCHANGED <<world, pending, writePtr, readPtr, tss, timer, running, enabled, history,
                   overlap, cycles, sessions>>

-----------------------------------------------------------------------------
(* The session.                                                            *)

(* start, and timerLoop up to its loop: the ring buffer is reset.          *)
Start ==
    /\ timer.pc = "off" /\ ~running /\ sessions < MaxSessions
    /\ sessions' = sessions + 1 /\ running' = TRUE
    /\ timer' = [Off EXCEPT !.pc = "top", !.todo = Threads]
    /\ ring' = [c \in Cells |-> Empty] /\ writePtr' = 0 /\ readPtr' = 0
    /\ overlap' = (overlap \/ \E t \in Threads : handler[t].at \in {"write", "trace", "stamp"})
    /\ UNCHANGED <<world, pending, handler, tss, enabled, history, cycles>>

Stop ==
    /\ running /\ running' = FALSE
    /\ UNCHANGED <<world, pending, handler, buffer, tss, timer, enabled, history, overlap,
                   cycles, sessions>>

Toggle ==
    /\ running /\ enabled' = ~enabled
    /\ UNCHANGED <<world, pending, handler, buffer, tss, timer, running, history, overlap,
                   cycles, sessions>>

(* recordWallClock of the ticks counted for each thread; the rate limit    *)
(* refuses those of some threads.                                          *)
RecordWallClock(counted) ==
    \E limited \in SUBSET {t \in Threads : counted[t] # 0} :
        /\ recorded' = [t \in Threads |-> recorded[t] + IF t \in limited THEN 0 ELSE counted[t]]
        /\ refused' = [t \in Threads |-> refused[t] + IF t \in limited THEN counted[t] ELSE 0]

(* flush, of a dump or a JFR flush; the lock keeps it out of the drain.    *)
Flush ==
    /\ running /\ timer.pc \notin {"drain", "fingerprint", "trace", "cas"}
    /\ RecordWallClock([t \in Threads |-> tss[t].counter])
    /\ tss' = [t \in Threads |-> [tss[t] EXCEPT !.counter = 0]]
    /\ UNCHANGED <<world, pending, handler, buffer, timer, running, enabled, ticks, late, overlap,
                   cycles, sessions>>

-----------------------------------------------------------------------------
(* timerLoop.                                                              *)

(* The top of the loop; the events are on or off for the whole tick.       *)
Tick ==
    /\ timer.pc = "top" /\ running
    /\ timer' = [timer EXCEPT !.pc = "visit", !.enabled = enabled]
    /\ UNCHANGED <<world, pending, handler, buffer, tss, running, enabled, history, overlap,
                   cycles, sessions>>

Outstanding(t) ==
    \/ t \in pending \/ handler[t] # Out
    \/ \E c \in Cells : ring[c].cpu # 0 /\ ring[c].thread = t

Delta(t) == cpu[t] - tss[t].cpu
(* Differences are unsigned: a negative one is a very large one.           *)
Within(d, threshold) == 0 <= d /\ d <= threshold
StillBlocked(t) ==
    /\ ~Within(Delta(t), IdleThreshold) /\ Within(Delta(t), BatchThreshold)
    /\ tss[t].fingerprint # 0 /\ place[t] = tss[t].fingerprint
Known(t) == timer.enabled /\ tss[t].cpu # 0
Idle(t) == Known(t) /\ (Within(Delta(t), IdleThreshold) \/ StillBlocked(t))

(* The sleep state of a thread after the checks.                           *)
Checked(t) ==
    IF ~Known(t) THEN tss[t]
    ELSE [tss[t] EXCEPT
            !.cpu = IF StillBlocked(t) THEN cpu[t] ELSE IF Idle(t) THEN @ ELSE 0,
            !.fingerprint = 0,
            !.counter = IF Idle(t) THEN @ + 1 ELSE @]

(* An idle thread is passed over until its batch is full.                  *)
PassOver(t) ==
    /\ timer.pc = "visit" /\ t \in timer.todo /\ timer.signaled < PerTick
    /\ Idle(t) /\ Checked(t).counter < MaxIdleBatch
    /\ tss' = [tss EXCEPT ![t] = Checked(t)]
    /\ ticks' = [ticks EXCEPT ![t] = @ + 1]
    /\ late' = IF Outstanding(t) THEN [late EXCEPT ![t] = @ + 1] ELSE late
    /\ timer' = [timer EXCEPT !.todo = @ \ {t}]
    /\ UNCHANGED <<world, pending, handler, buffer, running, enabled, recorded, refused, overlap,
                   cycles, sessions>>

(* Any other thread has its ticks recorded and is sent the signal.         *)
Signal(t) ==
    /\ timer.pc = "visit" /\ t \in timer.todo /\ timer.signaled < PerTick
    /\ ~(Idle(t) /\ Checked(t).counter < MaxIdleBatch)
    /\ tss' = [tss EXCEPT ![t] = [Checked(t) EXCEPT !.counter = 0]]
    /\ ticks' = [ticks EXCEPT ![t] = IF Idle(t) THEN @ + 1 ELSE @]
    /\ RecordWallClock([u \in Threads |-> IF u = t THEN Checked(t).counter ELSE 0])
    /\ pending' = IF timer.enabled THEN pending \cup {t} ELSE pending
    /\ timer' = [timer EXCEPT !.todo = @ \ {t}, !.signaled = IF timer.enabled THEN @ + 1 ELSE @]
    /\ UNCHANGED <<world, handler, buffer, running, enabled, late, overlap, cycles, sessions>>

(* The thread sleeps until the next tick and starts to drain the ring.     *)
Sleep ==
    /\ timer.pc = "visit" /\ (timer.todo = {} \/ timer.signaled = PerTick)
    /\ timer.todo = {} => cycles < MaxCycles
    /\ cycles' = IF timer.todo = {} THEN cycles + 1 ELSE cycles
    /\ timer' = [timer EXCEPT !.pc = "drain", !.signaled = 0, !.left = RingSize,
                              !.todo = IF @ = {} THEN Threads ELSE @]
    /\ UNCHANGED <<world, pending, handler, buffer, tss, running, enabled, history, overlap, sessions>>

(* drain. The cell is published if its CPU time is not 0, and claimed by a *)
(* compare-and-swap of that CPU time after the reads of the rest; a handler*)
(* that goes round the ring can rewrite the cell in between.               *)
DrainLoad ==
    /\ timer.pc = "drain" /\ timer.left > 0 /\ ring[readPtr % RingSize].cpu # 0
    /\ timer' = [timer EXCEPT !.pc = "fingerprint", !.entry.cpu = ring[readPtr % RingSize].cpu]
    /\ UNCHANGED <<world, pending, handler, buffer, tss, running, enabled, history, overlap,
                   cycles, sessions>>

DrainFingerprint ==
    /\ timer.pc = "fingerprint"
    /\ timer' = [timer EXCEPT !.pc = "trace",
                              !.entry.fingerprint = ring[readPtr % RingSize].fingerprint]
    /\ UNCHANGED <<world, pending, handler, buffer, tss, running, enabled, history, overlap,
                   cycles, sessions>>

DrainTrace ==
    /\ timer.pc = "trace"
    /\ LET cell == ring[readPtr % RingSize]
       IN  timer' = [timer EXCEPT !.pc = "cas",
                        !.entry = [@ EXCEPT !.trace = cell.trace, !.thread = cell.thread]]
    /\ UNCHANGED <<world, pending, handler, buffer, tss, running, enabled, history, overlap,
                   cycles, sessions>>

DrainClaim ==
    /\ timer.pc = "cas" /\ ring[readPtr % RingSize].cpu = timer.entry.cpu
    /\ ring' = [ring EXCEPT ![readPtr % RingSize].cpu = 0]
    /\ LET e == timer.entry
       IN  tss' = [t \in Threads |->
                     IF t # e.thread THEN tss[t]
                     ELSE [cpu |-> e.cpu, fingerprint |-> e.fingerprint, trace |-> e.trace,
                           counter |-> 0]]
    /\ readPtr' = readPtr + 1
    /\ timer' = [timer EXCEPT !.pc = "drain", !.left = @ - 1, !.entry = Empty]
    /\ UNCHANGED <<world, pending, handler, writePtr, running, enabled, history, overlap,
                   cycles, sessions>>

(* Rewritten meanwhile: the cell is loaded again.                          *)
DrainRetry ==
    /\ timer.pc = "cas" /\ ring[readPtr % RingSize].cpu # timer.entry.cpu
    /\ timer' = [timer EXCEPT !.pc = "drain", !.entry = Empty]
    /\ UNCHANGED <<world, pending, handler, buffer, tss, running, enabled, history, overlap,
                   cycles, sessions>>

DrainEnd ==
    /\ timer.pc = "drain" /\ (timer.left = 0 \/ ring[readPtr % RingSize].cpu = 0)
    /\ timer' = [timer EXCEPT !.pc = "top"]
    /\ UNCHANGED <<world, pending, handler, buffer, tss, running, enabled, history, overlap,
                   cycles, sessions>>

(* Faulty variant: the last batches are not flushed.                       *)
ExitUnflushed ==
    /\ timer.pc = "top" /\ ~running /\ timer' = Off
    /\ tss' = [t \in Threads |-> Awake]
    /\ UNCHANGED <<world, pending, handler, buffer, running, enabled, history, overlap,
                   cycles, sessions>>

(* Stopped: the last batches are flushed and the sleep states dropped.     *)
Exit ==
    /\ timer.pc = "top" /\ ~running /\ timer' = Off
    /\ RecordWallClock([t \in Threads |-> tss[t].counter])
    /\ tss' = [t \in Threads |-> Awake]
    /\ UNCHANGED <<world, pending, handler, buffer, running, enabled, ticks, late, overlap,
                   cycles, sessions>>

Drain == DrainLoad \/ DrainFingerprint \/ DrainTrace \/ DrainClaim \/ DrainRetry \/ DrainEnd
TimerStep ==
    Tick \/ (\E t \in Threads : PassOver(t) \/ Signal(t)) \/ Sleep \/ Drain \/ Exit
HandlerStep(t) ==
    \/ \E ok \in BOOLEAN : HandlerEnter(t, ok)
    \/ Claim(t) \/ Write(t) \/ WriteTrace(t) \/ Stamp(t)

Next ==
    \/ \E t \in Threads : HandlerStep(t) \/ \E d \in 1..2, p \in Places : Run(t, d, p)
    \/ Start \/ Stop \/ Toggle \/ Flush
    \/ TimerStep

Spec == Init /\ [][Next]_vars

-----------------------------------------------------------------------------
(* Properties.                                                             *)

(* Every variable has the type of the C++ variable it stands for, and the  *)
(* batches stay below their limit.                                         *)
TypeOK ==
    /\ pending \subseteq Threads /\ readPtr \in Nat /\ writePtr \in Nat
    /\ \A t \in Threads :
          /\ tss[t].cpu \in 0..MaxCpu /\ tss[t].fingerprint \in Places
          /\ tss[t].counter \in 0..(MaxIdleBatch - 1)
    /\ timer.signaled \in 0..PerTick /\ timer.left \in 0..RingSize

(* "sample all threads equally every given period": no idle tick is lost   *)
(* or recorded twice on its way through batches, flushes, wake-ups and the *)
(* end of the session, except those the rate limit refuses and those       *)
(* counted while a signal to the thread was still outstanding (drain       *)
(* restarts the batch when its entry comes).                               *)
TicksConserved ==
    \A t \in Threads :
        LET missing == ticks[t] - (recorded[t] + refused[t] + tss[t].counter)
        IN  0 <= missing /\ missing <= late[t]

(* A sleep state is taken from one handler's entry: trace and fingerprint  *)
(* agree, although handlers fill the ring without a lock, unless the ring  *)
(* went round (or was reset) under a handler still writing its cell; and   *)
(* with that exception the reader never runs ahead of the handlers.        *)
EntriesWhole ==
    ~overlap =>
        /\ \A t \in Threads : tss[t].fingerprint # 0 => tss[t].fingerprint = tss[t].trace
        /\ readPtr <= writePtr

=============================================================================
