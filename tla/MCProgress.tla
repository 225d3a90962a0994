----------------------------- MODULE MCProgress -----------------------------
(***************************************************************************)
(* What must not wait for ever, for TLC: the stop of a cookie capture, of  *)
(* the externally triggered event and of a live session, each of which     *)
(* waits for threads it does not control, lockAll of the recorder, and the *)
(* timer threads of the sessions. A behaviour explores one of the          *)
(* components, `part`, and leaves the others in their initial state; the   *)
(* externally triggered event is the extended module itself.               *)
(* Fairness is that of the component: a thread that is inside a handler, a *)
(* callback or a command runs on, time passes and timer threads are        *)
(* scheduled.                                                              *)
(***************************************************************************)
EXTENDS Integers, FiniteSets, Sequences, TLC, SignalThrottle

CONSTANTS t1, t2, log1, s1, NoSession

VARIABLES
    part,
    cGate, nextEpoch, capture, cnt, stopped, terminal, cPc, sig, seen, state, cCtl, cookie,
    request, jfr,
    lock, recLock, rec, active, marked, rPc, job, log, rCtl, task, running, chunk, chunks,
    lost, events, next, rStarts, verdict,
    lLock, refs, full, live, phase, at, lPc, heap, weak, twice, counted, overtaken, recorded,
    lJfr, missed, gc, sessions, gcs,
    sState, epoch, args, stopTime, loopTime, timerId, timer, sClock, starting, attempts, down, ended

Threads == {t1, t2}

(* One capture, with signals that carry its epoch or an old one.           *)
Cookie == INSTANCE SignalCookie WITH
    Handlers <- Threads, Sessions <- {s1}, MaxEpoch <- 1, MaxAdmitted <- 2,
    Signals <- {[code |-> TRUE, epoch |-> e, seq |-> 1] : e \in 0..1},
    gate <- cGate, pc <- cPc, ctl <- cCtl

(* User events and the log in two sessions, whose header may fail.         *)
Rec == INSTANCE Recorder WITH
    Writers <- Threads, Kinds <- {"user"}, Loggers <- {log1}, NumSlots <- 2,
    FileFaults <- FALSE, HeaderFaults <- TRUE, MaxEvents <- 1, MaxStarts <- 2, MaxChunks <- 1,
    pc <- rPc, ctl <- rCtl, starts <- rStarts

(* Two objects for a table of one.                                         *)
Live == INSTANCE LiveRefs WITH
    Threads <- Threads, Objects <- {"a", "b"}, MaxRefs <- 1, MaxSessions <- 2, MaxGcs <- 1,
    lock <- lLock, pc <- lPc, jfr <- lJfr

(* A loop with a deadline, and a capture with a timeout.                   *)
SessionArgs == {[cookie |-> FALSE, timeout |-> 2, loop |-> 1, jfr |-> TRUE],
                [cookie |-> TRUE, timeout |-> 1, loop |-> 0, jfr |-> TRUE]}
Session == INSTANCE ProfilerSession WITH
    Args <- SessionArgs, MaxSessions <- 2, MaxAttempts <- 2, MaxTime <- 2, state <- sState, clock <- sClock

ASSUME Shapes == ThrottleShape /\ Rec!RecorderShape /\ Live!LiveRefsShape /\ Session!SessionShape

cookieVars == <<cGate, nextEpoch, capture, cnt, stopped, terminal, cPc, sig, seen, state, cCtl,
                cookie, request, jfr>>
recVars == <<lock, recLock, rec, active, marked, rPc, job, log, rCtl, task, running, chunk,
             chunks, lost, events, next, rStarts, verdict>>
liveVars == <<lLock, refs, full, live, phase, at, lPc, heap, weak, twice, counted, overtaken,
              recorded, lJfr, missed, gc, sessions, gcs>>
sessionVars == <<sState, epoch, args, stopTime, loopTime, timerId, timer, sClock, starting, attempts, down, ended>>
progressVars == <<part, cookieVars, vars, recVars, liveVars, sessionVars>>

ProgressInit ==
    /\ part \in {"cookie", "throttle", "rec", "live", "session"}
    /\ Cookie!Init /\ Init /\ Rec!Init /\ Live!Init /\ Session!Init

CookieOnly == UNCHANGED <<vars, recVars, liveVars, sessionVars>>
ThrottleOnly == UNCHANGED <<cookieVars, recVars, liveVars, sessionVars>>
RecOnly == UNCHANGED <<cookieVars, vars, liveVars, sessionVars>>
LiveOnly == UNCHANGED <<cookieVars, vars, recVars, sessionVars>>
SessionOnly == UNCHANGED <<cookieVars, vars, recVars, liveVars>>

ProgressNext ==
    /\ UNCHANGED part
    /\ \/ part = "cookie" /\ Cookie!Next /\ CookieOnly
       \/ part = "throttle" /\ Next /\ ThrottleOnly
       \/ part = "rec" /\ Rec!Next /\ RecOnly
       \/ part = "live" /\ Live!Next /\ LiveOnly
       \/ part = "session" /\ Session!Next /\ SessionOnly

(* The steps of one thread: a thread of the application, or a timer thread *)
(* of a session; the log; the command in progress.                         *)
ThreadStep(t, s) ==
    /\ UNCHANGED part
    /\ \/ part = "cookie" /\ Cookie!HandlerStep(t) /\ CookieOnly
       \/ part = "throttle" /\ HandlerStep(t) /\ ThrottleOnly
       \/ part = "rec" /\ Rec!WriterStep(t) /\ RecOnly
       \/ part = "live" /\ Live!Callback(t) /\ LiveOnly
       \/ part = "session" /\ Session!TimerStep(s) /\ SessionOnly
LoggerStep == part = "rec" /\ Rec!LoggerStep(log1) /\ RecOnly /\ UNCHANGED part
ControlStep ==
    /\ UNCHANGED part
    /\ \/ part = "cookie" /\ Cookie!ControlStep /\ CookieOnly
       \/ part = "throttle" /\ (Close \/ Drained) /\ ThrottleOnly
       \/ part = "rec" /\ Rec!ControlStep /\ RecOnly
       \/ part = "live" /\ Live!Stopping /\ LiveOnly
       \/ part = "session" /\ (Session!FinishStart \/ Session!FailStart) /\ SessionOnly
Time == part = "session" /\ Session!Tick /\ SessionOnly /\ UNCHANGED part

(* Within a part these are the conditions of the component's Fairness.     *)
ProgressFairness ==
    /\ WF_progressVars(ThreadStep(t1, 1)) /\ WF_progressVars(ThreadStep(t2, 2))
    /\ WF_progressVars(LoggerStep) /\ WF_progressVars(ControlStep) /\ WF_progressVars(Time)

ProgressSpec == ProgressInit /\ [][ProgressNext]_progressVars /\ ProgressFairness

-----------------------------------------------------------------------------
(* The liveness properties of the parts.                                   *)

(* A start or stop of a cookie capture completes, and a stop of the        *)
(* externally triggered event: the drain of a gate does not wait for ever  *)
(* for the handlers it has let in.                                         *)
DrainsComplete == Cookie!CommandsComplete /\ StopCompletes

(* Every command of the recorder completes: lockAll gets every slot, and   *)
(* then _rec_lock, from the writers and the log in their way, whatever     *)
(* path these take out of the recording. (The events are bounded; against  *)
(* writers that compete for ever SpinLock gives no guarantee.) A stop of a *)
(* live session ends: the dump gets the table's lock from the callbacks    *)
(* still in it.                                                            *)
LocksObtained == Rec!CommandsComplete /\ Live!StopEnds

(* A session with a deadline and a timer thread ends, restarted by its     *)
(* loop or for good, and a timer thread whose session is over goes away.   *)
TimersComplete == Session!TimersComplete
=============================================================================
