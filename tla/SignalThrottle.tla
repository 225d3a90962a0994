--------------------------- MODULE SignalThrottle ---------------------------
(***************************************************************************)
(* The externally triggered event of SignalEvent (signalEvent.cpp):        *)
(* signalHandler, its admission gate and the interval between samples.     *)
(*                                                                         *)
(* Times are u64 nanoseconds; the subtraction now - last_sample is modulo  *)
(* 2^64, here modulo Wrap.                                                 *)
(***************************************************************************)
EXTENDS Integers, Counting

CONSTANTS
    Handlers,   \* threads that may run signalHandler
    Interval,   \* _interval
    Wrap,       \* 2^64, the modulus of u64 arithmetic
    MaxTime,    \* bound on the clock
    MaxStarts   \* bound on the number of sessions

ThrottleShape ==
    /\ IsFiniteSet(Handlers) /\ Interval \in Nat \ {0}
    /\ MaxTime \in Nat /\ Wrap \in Nat /\ Interval <= MaxTime /\ MaxTime < Wrap /\ MaxStarts \in Nat

VARIABLES
    gate,        \* _handler_gate: the CLOSED bit and the admitted count
    lastSample,  \* _last_sample
    enabled,     \* Engine::_enabled
    pc,          \* where each handler is
    now,         \* the time each handler read
    last,        \* last_sample, as each handler last saw it
    ctl,         \* the controller: idle, running or inside Profiler::stop
    starts,      \* sessions started
    clock,       \* OS::nanotime
    taken,       \* times of the samples accepted in this session
    failed       \* _failed_traces

handlerVars == <<pc, now, last>>
vars == <<gate, lastSample, enabled, handlerVars, ctl, starts, clock, taken, failed>>

Init ==
    /\ gate = [closed |-> TRUE, count |-> 0]
    /\ lastSample = 0
    /\ enabled = FALSE
    /\ pc = [h \in Handlers |-> "out"]
    /\ now = [h \in Handlers |-> 0]
    /\ last = [h \in Handlers |-> 0]
    /\ ctl = "idle"
    /\ starts = 0
    /\ clock = Interval
    /\ taken = {}
    /\ failed = 0

Goto(h, place) == pc' = [pc EXCEPT ![h] = place]

(* u64 subtraction.                                                        *)
Elapsed(from, to) == (to - from) % Wrap

-----------------------------------------------------------------------------
(* signalHandler.                                                          *)

Enter(h) ==
    /\ pc[h] = "out"
    /\ ~gate.closed
    /\ gate' = [gate EXCEPT !.count = @ + 1]
    /\ Goto(h, "entered")
    /\ UNCHANGED <<lastSample, enabled, now, last, ctl, starts, clock, taken, failed>>

CheckEnabled(h) ==
    /\ pc[h] = "entered"
    /\ Goto(h, IF enabled THEN "clock" ELSE "leave")
    /\ UNCHANGED <<gate, lastSample, enabled, now, last, ctl, starts, clock, taken, failed>>

ReadClock(h) ==
    /\ pc[h] = "clock"
    /\ now' = [now EXCEPT ![h] = clock]
    /\ Goto(h, "load")
    /\ UNCHANGED <<gate, lastSample, enabled, last, ctl, starts, clock, taken, failed>>

LoadLast(h) ==
    /\ pc[h] = "load"
    /\ last' = [last EXCEPT ![h] = lastSample]
    /\ Goto(h, "test")
    /\ UNCHANGED <<gate, lastSample, enabled, now, ctl, starts, clock, taken, failed>>

(* Faulty variant: accepts a sample one tick too early.                    *)
TooSoonOffByOne(h) == Elapsed(last[h], now[h]) + 1 < Interval

(* now - last_sample < (u64)_interval: too soon.                           *)
TooSoon(h) == Elapsed(last[h], now[h]) < Interval

Skip(h) ==
    /\ pc[h] = "test"
    /\ TooSoon(h)
    /\ Goto(h, "leave")
    /\ UNCHANGED <<gate, lastSample, enabled, now, last, ctl, starts, clock, taken, failed>>

(* The compare-and-swap succeeds, or reloads last_sample and goes round.   *)
ClaimSample(h) ==
    /\ pc[h] = "test"
    /\ ~TooSoon(h)
    /\ IF lastSample = last[h]
       THEN /\ lastSample' = now[h]
            /\ taken' = taken \cup {<<h, now[h]>>}
            /\ Goto(h, "record")
            /\ UNCHANGED last
       ELSE /\ last' = [last EXCEPT ![h] = lastSample]
            /\ UNCHANGED <<lastSample, taken, pc>>
    /\ UNCHANGED <<gate, enabled, now, ctl, starts, clock, failed>>

RecordSample(h) ==
    /\ pc[h] = "record"
    /\ failed' \in {failed, failed + 1}
    /\ Goto(h, "leave")
    /\ UNCHANGED <<gate, lastSample, enabled, now, last, ctl, starts, clock, taken>>

Leave(h) ==
    /\ pc[h] = "leave"
    /\ gate' = [gate EXCEPT !.count = @ - 1]
    /\ Goto(h, "out")
    /\ now' = [now EXCEPT ![h] = 0]
    /\ last' = [last EXCEPT ![h] = 0]
    /\ UNCHANGED <<lastSample, enabled, ctl, starts, clock, taken, failed>>

HandlerStep(h) ==
    \/ CheckEnabled(h) \/ ReadClock(h) \/ LoadLast(h) \/ Skip(h)
    \/ ClaimSample(h) \/ RecordSample(h) \/ Leave(h)

-----------------------------------------------------------------------------
(* SignalEvent::start and stop, called by Profiler under _state_lock after *)
(* installTraps has set _enabled and uninstallTraps has cleared it.        *)

Start ==
    /\ ctl = "idle" /\ starts < MaxStarts
    /\ enabled' \in BOOLEAN  \* FALSE when a begin trap is to enable the events
    /\ lastSample' = 0
    /\ failed' = 0
    /\ gate' = [closed |-> FALSE, count |-> 0]
    /\ taken' = {}
    /\ starts' = starts + 1
    /\ ctl' = "running"
    /\ UNCHANGED <<handlerVars, clock>>

(* trapHandler: begin and end traps switch the events on and off.          *)
Trap ==
    /\ ctl = "running"
    /\ enabled' = ~enabled
    /\ UNCHANGED <<gate, lastSample, handlerVars, ctl, starts, clock, taken, failed>>

Disable ==
    /\ ctl = "running"
    /\ enabled' = FALSE
    /\ ctl' = "disabled"
    /\ UNCHANGED <<gate, lastSample, handlerVars, starts, clock, taken, failed>>

(* Faulty variant: the engine only stops handing out samples.              *)
LeaveGateOpen ==
    /\ ctl = "disabled"
    /\ ctl' = "draining"
    /\ UNCHANGED <<gate, lastSample, enabled, handlerVars, starts, clock, taken, failed>>

Close ==
    /\ ctl = "disabled"
    /\ gate' = [gate EXCEPT !.closed = TRUE]
    /\ ctl' = "draining"
    /\ UNCHANGED <<lastSample, enabled, handlerVars, starts, clock, taken, failed>>

(* Faulty variant: stop returns without waiting for the count.             *)
StopWithoutWaiting ==
    /\ ctl = "draining"
    /\ ctl' = "idle"
    /\ UNCHANGED <<gate, lastSample, enabled, handlerVars, starts, clock, taken, failed>>

Drained ==
    /\ ctl = "draining"
    /\ gate.count = 0
    /\ ctl' = "idle"
    /\ UNCHANGED <<gate, lastSample, enabled, handlerVars, starts, clock, taken, failed>>

Tick ==
    /\ clock < MaxTime
    /\ clock' = clock + 1
    /\ UNCHANGED <<gate, lastSample, enabled, handlerVars, ctl, starts, taken, failed>>

Next ==
    \/ \E h \in Handlers : Enter(h) \/ HandlerStep(h)
    \/ Start \/ Trap \/ Disable \/ Close \/ Drained \/ Tick

(* A handler runs on once entered; the controller finishes its stop.       *)
Fairness ==
    /\ \A h \in Handlers : WF_vars(HandlerStep(h))
    /\ WF_vars(Close) /\ WF_vars(Drained)

Spec == Init /\ [][Next]_vars /\ Fairness

-----------------------------------------------------------------------------
(* Properties.                                                             *)

(* Every variable has the type of the C++ variable it stands for.          *)
TypeOK ==
    /\ gate \in [closed : BOOLEAN, count : Nat]
    /\ lastSample \in 0..MaxTime /\ clock \in 0..MaxTime
    /\ enabled \in BOOLEAN
    /\ pc \in [Handlers -> {"out", "entered", "clock", "load", "test", "record", "leave"}]
    /\ now \in [Handlers -> 0..MaxTime] /\ last \in [Handlers -> 0..MaxTime]
    /\ ctl \in {"idle", "running", "disabled", "draining"}
    /\ taken \subseteq (Handlers \X (0..MaxTime))
    /\ starts \in 0..MaxStarts /\ failed \in Nat

(* The gate, as the handlers and Profiler::stop use it, keeps the promise  *)
(* of HandlerGate: after stop returns nobody records until the next start, *)
(* and start never resets _last_sample under a running handler             *)
(* (the comment at signalEvent.cpp:517).                                   *)
Gate == INSTANCE HandlerGate WITH
            phase <- IF ctl = "idle" THEN "closed"
                     ELSE IF ctl = "draining" THEN "draining" ELSE "open",
            inside <- {h \in Handlers : pc[h] # "out"}
GateRefined == Gate!Spec

(* The interval limits accepted samples (SignalTests.java:55): any two     *)
(* samples of a session are at least _interval apart.                      *)
IntervalRespected ==
    \A s, t \in taken : s # t => s[2] - t[2] >= Interval \/ t[2] - s[2] >= Interval

(* A stop always gets past the drain.                                      *)
StopCompletes == ctl \in {"disabled", "draining"} ~> ctl = "idle"
-----------------------------------------------------------------------------
(* Proofs, for any number of handlers, any interval and any clock.         *)

PCs == {"out", "entered", "clock", "load", "test", "record", "leave"}
InsidePCs == PCs \ {"out"}

(* The gate counts the handlers inside, it is closed unless a session is   *)
(* on, and nobody is inside between two sessions.                          *)
GateInv ==
    /\ gate.count = Count(Handlers, pc, InsidePCs)
    /\ gate.closed <=> ctl \in {"idle", "draining"}
    /\ ctl = "idle" => \A h \in Handlers : pc[h] = "out"

(* Nothing is later than the clock, and without overlap the handler's time *)
(* is not before the last sample, nor that before any sample taken.        *)
TimeInv ==
    /\ lastSample <= clock
    /\ \A h \in Handlers :
          /\ now[h] <= clock
          /\ pc[h] \in {"load", "test"} => lastSample <= now[h]
          /\ pc[h] = "test" => last[h] <= now[h]
    /\ \A s \in taken : s[2] <= lastSample

(* A step keeps the types.                                                 *)
LEMMA TypeStep ==
    ASSUME ThrottleShape, TypeOK, GateInv, [Next]_vars
    PROVE  TypeOK'
<1> USE DEF ThrottleShape, TypeOK
<1>1. ASSUME NEW h \in Handlers, Enter(h)  PROVE TypeOK'
  BY <1>1 DEF Enter, Goto
<1>2. ASSUME NEW h \in Handlers, CheckEnabled(h)  PROVE TypeOK'
  BY <1>2 DEF CheckEnabled, Goto
<1>3. ASSUME NEW h \in Handlers, ReadClock(h)  PROVE TypeOK'
  BY <1>3 DEF ReadClock, Goto
<1>4. ASSUME NEW h \in Handlers, LoadLast(h)  PROVE TypeOK'
  BY <1>4 DEF LoadLast, Goto
<1>5. ASSUME NEW h \in Handlers, Skip(h)  PROVE TypeOK'
  BY <1>5 DEF Skip, Goto
<1>6. ASSUME NEW h \in Handlers, ClaimSample(h)  PROVE TypeOK'
  BY <1>6 DEF ClaimSample, Goto
<1>7. ASSUME NEW h \in Handlers, RecordSample(h)  PROVE TypeOK'
  BY <1>7 DEF RecordSample, Goto
<1>8. ASSUME NEW h \in Handlers, Leave(h)  PROVE TypeOK'
  <2>1. OnlyMoves(Handlers, pc, pc', h) /\ pc[h] \in InsidePCs /\ pc'[h] \notin InsidePCs
    BY <1>8 DEF Leave, Goto, InsidePCs, PCs, OnlyMoves
  <2>2. gate.count \in Nat \ {0}
    BY <2>1, CountLeave DEF GateInv
  <2> QED  BY <1>8, <2>2 DEF Leave, Goto
<1>9. CASE Start
  BY <1>9 DEF Start, handlerVars
<1>10. CASE Trap \/ Disable \/ Drained \/ Tick
  <2>1. UNCHANGED <<gate, lastSample, handlerVars, starts, taken, failed>>
    BY <1>10 DEF Trap, Disable, Drained, Tick
  <2>2. clock' \in 0..MaxTime
    BY <1>10, SMT DEF Trap, Disable, Drained, Tick
  <2>3. enabled' \in BOOLEAN /\ ctl' \in {"idle", "running", "disabled", "draining"}
    BY <1>10, Zenon DEF Trap, Disable, Drained, Tick
  <2> QED  BY <2>1, <2>2, <2>3 DEF handlerVars
<1>11. CASE Close
  BY <1>11, Zenon DEF Close, handlerVars
<1>12. CASE UNCHANGED vars
  BY <1>12 DEF vars, handlerVars
<1> QED
  BY <1>1, <1>2, <1>3, <1>4, <1>5, <1>6, <1>7, <1>8, <1>9, <1>10, <1>11, <1>12 DEF Next, HandlerStep

(* A step moves at most one handler, and keeps the gate's count.           *)
LEMMA GateStep ==
    ASSUME ThrottleShape, TypeOK, GateInv, [Next]_vars
    PROVE  GateInv'
<1> USE DEF ThrottleShape
<1>0. IsFiniteSet(Handlers) /\ pc \in [Handlers -> PCs]
  BY DEF TypeOK, PCs
<1>1. ASSUME NEW h \in Handlers, Enter(h)  PROVE GateInv'
  <2>1. OnlyMoves(Handlers, pc, pc', h) /\ pc[h] \notin InsidePCs /\ pc'[h] \in InsidePCs
    BY <1>0, <1>1 DEF Enter, Goto, InsidePCs, PCs, OnlyMoves
  <2>2. Count(Handlers, pc', InsidePCs) = Count(Handlers, pc, InsidePCs) + 1
    BY <1>0, <2>1, CountEnter
  <2> QED  BY <1>1, <2>2 DEF Enter, GateInv, TypeOK
<1>2. ASSUME NEW h \in Handlers, HandlerStep(h), ~Leave(h)  PROVE GateInv'
  <2>1. PICK v \in InsidePCs : pc' = [pc EXCEPT ![h] = v] /\ pc[h] \in InsidePCs
    BY <1>0, <1>2 DEF HandlerStep, CheckEnabled, ReadClock, LoadLast, Skip, ClaimSample, RecordSample,
        Goto, InsidePCs, PCs
  <2>2. Count(Handlers, pc', InsidePCs) = Count(Handlers, pc, InsidePCs)
    <3>1. OnlyMoves(Handlers, pc, pc', h) /\ pc[h] \in InsidePCs /\ pc'[h] \in InsidePCs
      BY <1>0, <2>1 DEF OnlyMoves
    <3> QED  BY <3>1, CountStayIn
  <2>3. UNCHANGED <<gate, ctl>>
    BY <1>2 DEF HandlerStep, CheckEnabled, ReadClock, LoadLast, Skip, ClaimSample, RecordSample
  <2>4. ctl # "idle"
    BY <2>1 DEF GateInv, InsidePCs
  <2> QED  BY <2>2, <2>3, <2>4 DEF GateInv
<1>3. ASSUME NEW h \in Handlers, Leave(h)  PROVE GateInv'
  <2>1. OnlyMoves(Handlers, pc, pc', h) /\ pc[h] \in InsidePCs /\ pc'[h] \notin InsidePCs
    BY <1>0, <1>3 DEF Leave, Goto, InsidePCs, PCs, OnlyMoves
  <2>2. Count(Handlers, pc', InsidePCs) = Count(Handlers, pc, InsidePCs) - 1
    BY <1>0, <2>1, CountLeave
  <2> QED  BY <1>0, <1>3, <2>2 DEF Leave, Goto, GateInv, TypeOK
<1>4. CASE Start
  <2>1. \A h \in Handlers : pc[h] \notin InsidePCs
    BY <1>4 DEF Start, GateInv, InsidePCs
  <2>2. Count(Handlers, pc, InsidePCs) = 0
    BY <2>1, CountNone
  <2> QED  BY <1>4, <2>2 DEF Start, GateInv, handlerVars
<1>5. CASE Drained
  <2>1. \A h \in Handlers : pc[h] \notin InsidePCs
    BY <1>0, <1>5, CountZero, Zenon DEF Drained, GateInv
  <2> QED  BY <1>0, <1>5, <2>1 DEF Drained, GateInv, handlerVars, InsidePCs
<1>6. CASE Trap \/ Disable \/ Close \/ Tick
  BY <1>6 DEF Trap, Disable, Close, Tick, GateInv, handlerVars, TypeOK
<1>7. CASE UNCHANGED vars
  BY <1>7 DEF vars, handlerVars, GateInv
<1> QED
  BY <1>1, <1>2, <1>3, <1>4, <1>5, <1>6, <1>7 DEF Next

(* The invariant of the gate holds from the start.                         *)
LEMMA GateHolds == ThrottleShape => (Spec => [](TypeOK /\ GateInv))
<1> SUFFICES ASSUME ThrottleShape  PROVE Spec => [](TypeOK /\ GateInv)
  OBVIOUS
<1>1. Init => TypeOK /\ GateInv
  <2> SUFFICES ASSUME Init  PROVE TypeOK /\ GateInv
    OBVIOUS
  <2>1. Count(Handlers, pc, InsidePCs) = 0
    BY CountNone DEF Init, InsidePCs
  <2>2. TypeOK
    <3>1. pc \in [Handlers -> PCs]
      BY DEF Init, PCs
    <3>2. now \in [Handlers -> 0..MaxTime] /\ last \in [Handlers -> 0..MaxTime]
      BY DEF Init, ThrottleShape
    <3>3. gate \in [closed : BOOLEAN, count : Nat] /\ enabled \in BOOLEAN /\ taken \subseteq (Handlers \X (0..MaxTime))
      BY Zenon DEF Init
    <3>4. lastSample \in 0..MaxTime /\ clock \in 0..MaxTime /\ starts \in 0..MaxStarts /\ failed \in Nat
      BY DEF Init, ThrottleShape
    <3> QED  BY <3>1, <3>2, <3>3, <3>4 DEF Init, TypeOK, PCs
  <2> QED  BY <2>1, <2>2 DEF Init, GateInv
<1>2. TypeOK /\ GateInv /\ [Next]_vars => (TypeOK /\ GateInv)'
  BY TypeStep, GateStep
<1> QED  BY <1>1, <1>2, PTL DEF Spec

(* The variables of the engine keep their types.                           *)
THEOREM TypeCorrect == ThrottleShape => (Spec => []TypeOK)
BY GateHolds, PTL

(* The gate of signalHandler implements HandlerGate for any number of      *)
(* handlers: after stop returns nobody records until the next start.       *)
THEOREM GateRefines == ThrottleShape => (Spec => GateRefined)
<1> SUFFICES ASSUME ThrottleShape  PROVE Spec => GateRefined
  OBVIOUS
<1> DEFINE Phase == IF ctl = "idle" THEN "closed" ELSE IF ctl = "draining" THEN "draining" ELSE "open"
           Inside == {h \in Handlers : pc[h] # "out"}
<1>1. Init => Gate!Init
  BY DEF Init, Gate!Init
<1>2. ASSUME TypeOK, GateInv, [Next]_vars  PROVE [Gate!Next]_(Gate!vars)
  <2>1. ASSUME NEW h \in Handlers, Enter(h)  PROVE Gate!Enter(h)
    <3>1. h \notin Inside /\ Inside' = Inside \cup {h}
      BY <2>1, <1>2 DEF Enter, Goto, TypeOK
    <3>2. Phase = "open" /\ Phase' = Phase
      BY <2>1, <1>2 DEF Enter, GateInv
    <3> QED  BY <3>1, <3>2 DEF Gate!Enter
  <2>2. ASSUME NEW h \in Handlers, Leave(h)  PROVE Gate!Leave(h)
    <3>1. h \in Inside /\ Inside' = Inside \ {h}
      BY <2>2, <1>2 DEF Leave, Goto, TypeOK
    <3>2. Phase' = Phase
      BY <2>2 DEF Leave
    <3> QED  BY <3>1, <3>2 DEF Gate!Leave
  <2>3. ASSUME NEW h \in Handlers, HandlerStep(h), ~Leave(h)  PROVE UNCHANGED Gate!vars
    <3>1. PICK v \in InsidePCs : pc' = [pc EXCEPT ![h] = v] /\ pc[h] \in InsidePCs
      BY <1>2, <2>3 DEF HandlerStep, CheckEnabled, ReadClock, LoadLast, Skip, ClaimSample, RecordSample,
          Goto, InsidePCs, PCs, TypeOK
    <3>2. Inside' = Inside
      BY <1>2, <3>1 DEF InsidePCs, TypeOK
    <3>3. Phase' = Phase
      BY <2>3 DEF HandlerStep, CheckEnabled, ReadClock, LoadLast, Skip, ClaimSample, RecordSample
    <3> QED  BY <3>2, <3>3 DEF Gate!vars
  <2>4. CASE Start
    <3>1. Inside = {} /\ Inside' = Inside
      BY <1>2, <2>4 DEF Start, GateInv, handlerVars
    <3> QED  BY <2>4, <3>1 DEF Start, Gate!Next, Gate!Open
  <2>5. CASE Close
    BY <2>5 DEF Close, handlerVars, Gate!Next, Gate!Close
  <2>6. CASE Drained
    <3>1. \A h \in Handlers : pc[h] \notin InsidePCs
      BY <1>2, <2>6, CountZero, Zenon DEF Drained, GateInv, ThrottleShape
    <3>2. Inside = {} /\ Inside' = Inside
      BY <1>2, <2>6, <3>1 DEF Drained, handlerVars, InsidePCs, PCs, TypeOK
    <3> QED  BY <2>6, <3>2 DEF Drained, Gate!Next, Gate!Drained
  <2>7. CASE Trap \/ Disable \/ Tick
    BY <2>7 DEF Trap, Disable, Tick, handlerVars, Gate!vars
  <2>8. CASE UNCHANGED vars
    BY <2>8 DEF vars, handlerVars, Gate!vars
  <2> QED
    BY <1>2, <2>1, <2>2, <2>3, <2>4, <2>5, <2>6, <2>7, <2>8 DEF Next, Gate!Next
<1> QED  BY <1>1, <1>2, GateHolds, PTL DEF Spec, GateRefined, Gate!Spec

(* A difference of times that does not wrap.                               *)
LEMMA ElapsedForward ==
    ASSUME ThrottleShape, NEW a \in 0..MaxTime, NEW b \in 0..MaxTime, a <= b
    PROVE  Elapsed(a, b) = b - a
BY DEF Elapsed, ThrottleShape

(* Samples of handlers that never overlap, here one handler, are an        *)
(* interval apart, whatever the interval and however stop and start come   *)
(* in between. With overlap the claim fails: a handler that read its time  *)
(* early wraps the difference.                                             *)
THEOREM IntervalKept ==
    ThrottleShape /\ (\A g, h \in Handlers : g = h) => (Spec => []IntervalRespected)
<1> SUFFICES ASSUME ThrottleShape, \A g, h \in Handlers : g = h  PROVE Spec => []IntervalRespected
  OBVIOUS
<1> DEFINE Inv == TimeInv /\ IntervalRespected
<1>1. Init => Inv
  BY DEF Init, TimeInv, IntervalRespected, ThrottleShape
<1>2. ASSUME TypeOK, TypeOK', Inv, [Next]_vars  PROVE Inv'
  <2> USE <1>2 DEF ThrottleShape, TypeOK
  <2>1. ASSUME NEW h \in Handlers, Enter(h) \/ CheckEnabled(h) \/ ReadClock(h) \/ LoadLast(h) \/ Skip(h)
                                    \/ RecordSample(h) \/ Leave(h)
        PROVE  Inv'
    BY <2>1 DEF Enter, CheckEnabled, ReadClock, LoadLast, Skip, RecordSample, Leave, Goto, TimeInv,
        IntervalRespected
  <2>2. ASSUME NEW h \in Handlers, ClaimSample(h)  PROVE Inv'
    <3>1. CASE lastSample # last[h]
      BY <2>2, <3>1 DEF ClaimSample, TimeInv, IntervalRespected
    <3>2. CASE lastSample = last[h]
      <4>1. now[h] - lastSample >= Interval
        BY <2>2, <3>2, ElapsedForward DEF ClaimSample, TooSoon, TimeInv
      <4>2. \A s \in taken : s[2] \in 0..MaxTime /\ now[h] - s[2] >= Interval
        BY <4>1 DEF TimeInv
      <4>3. IntervalRespected'
        BY <2>2, <3>2, <4>2 DEF ClaimSample, IntervalRespected
      <4>4. TimeInv'
        BY <2>2, <3>2, <4>1, <4>2 DEF ClaimSample, Goto, TimeInv
      <4> QED  BY <4>3, <4>4
    <3> QED  BY <3>1, <3>2
  <2>3. CASE Start \/ Trap \/ Disable \/ Close \/ Drained \/ Tick
    BY <2>3 DEF Start, Trap, Disable, Close, Drained, Tick, handlerVars, TimeInv, IntervalRespected
  <2>4. CASE UNCHANGED vars
    BY <2>4 DEF vars, handlerVars, TimeInv, IntervalRespected
  <2> QED
    BY <2>1, <2>2, <2>3, <2>4 DEF Next, HandlerStep
<1> QED  BY <1>1, <1>2, GateHolds, PTL DEF Spec
=============================================================================
