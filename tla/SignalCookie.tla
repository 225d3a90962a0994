---------------------------- MODULE SignalCookie ----------------------------
(***************************************************************************)
(* The signal-cookie capture of SignalEvent (signalEvent.cpp), driven by   *)
(* Profiler::start and Profiler::stop (profiler.cpp).                      *)
(*                                                                         *)
(* An external producer sends a dedicated signal whose 64-bit value is a   *)
(* cookie: the capture epoch in the high half, a sequence number in the    *)
(* low half. cookieSignalHandler runs on any thread, at any time, and may  *)
(* only record while the handler gate is open. The controller (whoever     *)
(* holds Profiler::_state_lock) opens the gate last when a capture starts  *)
(* and, when it stops, closes the gate, waits for the admitted handlers to *)
(* leave, and only then reads the counters and closes the recording.       *)
(*                                                                         *)
(* The handler and the controller interleave step by step. Commands never  *)
(* overlap each other: they run under _state_lock from ctl = "free" back   *)
(* to ctl = "free".                                                        *)
(***************************************************************************)
EXTENDS Naturals, FiniteSets

CONSTANTS
    Handlers,   \* threads that may run the cookie handler; the signal is masked
                \* while a thread handles it, so each runs at most one handler
    Sessions,   \* well-formed session ids (signalid=)
    NoSession,  \* the empty session id
    Signals,    \* the signals a producer may send: [code, epoch, seq]
    MaxEpoch,   \* UINT32_MAX: the last epoch that can be reserved
    MaxAdmitted \* bound on the signals admitted by one capture

ASSUME HandlersFinite == IsFiniteSet(Handlers)
ASSUME SignalShape == Signals \subseteq [code : BOOLEAN, epoch : Nat, seq : Nat]
ASSUME EpochBound == MaxEpoch \in Nat
ASSUME AdmittedBound == MaxAdmitted \in Nat
ASSUME SessionIds == NoSession \notin Sessions

VARIABLES
    gate,       \* _cookie_handler_gate: the CLOSED bit and the admitted count
    nextEpoch,  \* _next_capture_epoch
    capture,    \* _capture_epoch, _session_id, _capture_ready
    cnt,        \* the eight capture counters
    stopped,    \* _stopped_stats
    terminal,   \* the _terminal_* record, the receipt of the last capture
    pc,         \* where each handler is
    sig,        \* the siginfo each handler was entered with
    seen,       \* active_epoch, as each handler loaded it
    state,      \* Profiler::_state
    ctl,        \* where the holder of _state_lock is
    cookie,     \* _global_args._signal_cookie of the current session
    request,    \* reason and requested identity of the stop in progress
    jfr         \* the JFR recording: open, its context epoch, its samples

captureVars == <<gate, nextEpoch, capture, cnt, stopped, terminal>>
handlerVars == <<pc, sig, seen>>
controlVars == <<state, ctl, cookie, request>>
vars == <<captureVars, handlerVars, controlVars, jfr>>

Counters == {"admitted", "invalidCode", "zeroCookie", "zeroSequence",
             "staleEpoch", "accepted", "failures", "submitted"}
Zero == [c \in Counters |-> 0]

Reasons == {"guarded-stop", "timeout", "loop", "vm-shutdown", "master-stop",
            "finalization-failed"}

NoCapture == [epoch |-> 0, session |-> NoSession, ready |-> FALSE]
NoTerminal == [valid |-> FALSE, finalized |-> FALSE, session |-> NoSession,
               epoch |-> 0, stats |-> Zero, reason |-> "unknown"]
NoRequest == [reason |-> "unknown", session |-> NoSession, epoch |-> 0]
NoSignal == [code |-> FALSE, epoch |-> 0, seq |-> 0]

(* The SignalSample events written to a recording, by the epoch half of    *)
(* their cookie.                                                           *)
NoSamples == [e \in 0..MaxEpoch |-> 0]

Init ==
    /\ gate = [closed |-> TRUE, count |-> 0]
    /\ nextEpoch = 0
    /\ capture = NoCapture
    /\ cnt = Zero
    /\ stopped = Zero
    /\ terminal = NoTerminal
    /\ pc = [h \in Handlers |-> "out"]
    /\ sig = [h \in Handlers |-> NoSignal]
    /\ seen = [h \in Handlers |-> 0]
    /\ state = "NEW"
    /\ ctl = "free"
    /\ cookie = FALSE
    /\ request = NoRequest
    /\ jfr = [open |-> FALSE, epoch |-> 0, samples |-> NoSamples]

-----------------------------------------------------------------------------
(* cookieSignalHandler: one action per access to shared state.             *)

Bump(c) == cnt' = [cnt EXCEPT ![c] = @ + 1]

(* enterCookieSignalHandler. The compare-and-swap loop retries until it    *)
(* either increments an open gate or sees it closed; a handler that finds  *)
(* the gate closed returns and leaves no trace.                            *)
EnterHandler(h) ==
    /\ pc[h] = "out"
    /\ ~gate.closed
    /\ cnt["admitted"] + gate.count < MaxAdmitted
    /\ \E s \in Signals : sig' = [sig EXCEPT ![h] = s]
    /\ gate' = [gate EXCEPT !.count = @ + 1]
    /\ pc' = [pc EXCEPT ![h] = "admitted"]
    /\ UNCHANGED <<nextEpoch, capture, cnt, stopped, terminal, seen, controlVars, jfr>>

CountAdmitted(h) ==
    /\ pc[h] = "admitted"
    /\ Bump("admitted")
    /\ pc' = [pc EXCEPT ![h] = "check"]
    /\ UNCHANGED <<gate, nextEpoch, capture, stopped, terminal, sig, seen, controlVars, jfr>>

(* Rejection of a signal by its own contents: bad si_code, cookie 0, or    *)
(* sequence half 0.                                                        *)
Rejection(s) ==
    IF ~s.code THEN "invalidCode"
    ELSE IF s.epoch = 0 /\ s.seq = 0 THEN "zeroCookie"
    ELSE "zeroSequence"

(* Faulty variant: the rejecting branch leaves the gate and falls through. *)
RejectSignalLeavesTwice(h) ==
    /\ pc[h] = "check"
    /\ ~sig[h].code \/ sig[h].seq = 0
    /\ Bump(Rejection(sig[h]))
    /\ gate' = [gate EXCEPT !.count = @ - 1]
    /\ pc' = [pc EXCEPT ![h] = "leaving"]
    /\ UNCHANGED <<nextEpoch, capture, stopped, terminal, sig, seen, controlVars, jfr>>

RejectSignal(h) ==
    /\ pc[h] = "check"
    /\ ~sig[h].code \/ sig[h].seq = 0
    /\ Bump(Rejection(sig[h]))
    /\ pc' = [pc EXCEPT ![h] = "leaving"]
    /\ UNCHANGED <<gate, nextEpoch, capture, stopped, terminal, sig, seen, controlVars, jfr>>

ReadEpoch(h) ==
    /\ pc[h] = "check"
    /\ sig[h].code /\ sig[h].seq # 0
    /\ seen' = [seen EXCEPT ![h] = capture.epoch]
    /\ pc' = [pc EXCEPT ![h] = "compare"]
    /\ UNCHANGED <<captureVars, sig, controlVars, jfr>>

(* Faulty variant: an early return that does not leave the gate.           *)
RejectStaleWithoutLeaving(h) ==
    /\ pc[h] = "compare"
    /\ sig[h].epoch # seen[h]
    /\ Bump("staleEpoch")
    /\ pc' = [pc EXCEPT ![h] = "out"]
    /\ UNCHANGED <<gate, nextEpoch, capture, stopped, terminal, sig, seen, controlVars, jfr>>

RejectStale(h) ==
    /\ pc[h] = "compare"
    /\ sig[h].epoch # seen[h]
    /\ Bump("staleEpoch")
    /\ pc' = [pc EXCEPT ![h] = "leaving"]
    /\ UNCHANGED <<gate, nextEpoch, capture, stopped, terminal, sig, seen, controlVars, jfr>>

(* Faulty variant: the epoch half of the cookie is not compared.           *)
AcceptCookieOfAnyEpoch(h) ==
    /\ pc[h] = "compare"
    /\ Bump("accepted")
    /\ pc' = [pc EXCEPT ![h] = "record"]
    /\ UNCHANGED <<gate, nextEpoch, capture, stopped, terminal, sig, seen, controlVars, jfr>>

AcceptCookie(h) ==
    /\ pc[h] = "compare"
    /\ sig[h].epoch = seen[h]
    /\ Bump("accepted")
    /\ pc' = [pc EXCEPT ![h] = "record"]
    /\ UNCHANGED <<gate, nextEpoch, capture, stopped, terminal, sig, seen, controlVars, jfr>>

(* Profiler::recordSample found no free lock, or the stack walk failed.    *)
RecordFails(h) ==
    /\ pc[h] = "record"
    /\ pc' = [pc EXCEPT ![h] = "failed"]
    /\ UNCHANGED <<captureVars, sig, seen, controlVars, jfr>>

(* Profiler::recordSample hands the event to FlightRecorder::recordEvent,  *)
(* which drops it silently when there is no recording.                     *)
RecordSample(h) ==
    /\ pc[h] = "record"
    /\ jfr' = IF jfr.open THEN [jfr EXCEPT !.samples[sig[h].epoch] = @ + 1] ELSE jfr
    /\ pc' = [pc EXCEPT ![h] = "recorded"]
    /\ UNCHANGED <<captureVars, sig, seen, controlVars>>

CountOutcome(h) ==
    /\ pc[h] \in {"failed", "recorded"}
    /\ Bump(IF pc[h] = "failed" THEN "failures" ELSE "submitted")
    /\ pc' = [pc EXCEPT ![h] = "leaving"]
    /\ UNCHANGED <<gate, nextEpoch, capture, stopped, terminal, sig, seen, controlVars, jfr>>

LeaveHandler(h) ==
    /\ pc[h] = "leaving"
    /\ gate' = [gate EXCEPT !.count = @ - 1]
    /\ pc' = [pc EXCEPT ![h] = "out"]
    /\ sig' = [sig EXCEPT ![h] = NoSignal]
    /\ seen' = [seen EXCEPT ![h] = 0]
    /\ UNCHANGED <<nextEpoch, capture, cnt, stopped, terminal, controlVars, jfr>>

HandlerStep(h) ==
    \/ CountAdmitted(h) \/ RejectSignal(h) \/ ReadEpoch(h) \/ RejectStale(h)
    \/ AcceptCookie(h) \/ RecordFails(h) \/ RecordSample(h) \/ CountOutcome(h)
    \/ LeaveHandler(h)

-----------------------------------------------------------------------------
(* Profiler::start, under _state_lock.                                     *)

(* A start that passes the checks before line 1020. A session without      *)
(* signalcookie goes straight on to the traps.                             *)
BeginStart ==
    /\ ctl = "free"
    /\ state \in {"NEW", "IDLE"}
    /\ \/ ctl' = "reserve" /\ UNCHANGED cookie
       \/ ctl' = "traps" /\ cookie' = FALSE
    /\ UNCHANGED <<captureVars, handlerVars, state, request, jfr>>

(* reserveCookieCapture up to the reservation of the signal. The epoch is  *)
(* burned even when no signal can be reserved, in which case the previous  *)
(* capture variables stay as they are.                                     *)
ReserveFails ==
    /\ ctl = "reserve"
    /\ nextEpoch' = IF nextEpoch = MaxEpoch THEN nextEpoch ELSE nextEpoch + 1
    /\ ctl' = "free"
    /\ UNCHANGED <<gate, capture, cnt, stopped, terminal, handlerVars,
                   state, cookie, request, jfr>>

(* Faulty variant: the gate opens with the reservation.                    *)
ReserveCookieCaptureGateOpen(s) ==
    /\ ctl = "reserve"
    /\ nextEpoch # MaxEpoch
    /\ nextEpoch' = nextEpoch + 1
    /\ capture' = [epoch |-> nextEpoch + 1, session |-> s, ready |-> FALSE]
    /\ gate' = [closed |-> FALSE, count |-> 0]
    /\ cnt' = Zero
    /\ cookie' = TRUE
    /\ ctl' = "traps"
    /\ UNCHANGED <<stopped, terminal, handlerVars, state, request, jfr>>

ReserveCookieCapture(s) ==
    /\ ctl = "reserve"
    /\ nextEpoch # MaxEpoch
    /\ nextEpoch' = nextEpoch + 1
    /\ capture' = [epoch |-> nextEpoch + 1, session |-> s, ready |-> FALSE]
    /\ gate' = [closed |-> TRUE, count |-> 0]
    /\ cnt' = Zero
    /\ cookie' = TRUE
    /\ ctl' = "traps"
    /\ UNCHANGED <<stopped, terminal, handlerVars, state, request, jfr>>

InstallTraps ==
    /\ ctl = "traps"
    /\ ctl' \in {"jfr", IF cookie THEN "abortClose" ELSE "free"}
    /\ UNCHANGED <<captureVars, handlerVars, state, cookie, request, jfr>>

(* FlightRecorder::start. Every chunk of the recording carries the epoch   *)
(* that args.save() kept. A session without signalcookie may use another   *)
(* output format and open no recording.                                    *)
JfrStart ==
    /\ ctl = "jfr"
    /\ \/ /\ jfr' = [open |-> TRUE, epoch |-> IF cookie THEN capture.epoch ELSE 0,
                     samples |-> NoSamples]
          /\ ctl' = "engines"
       \/ /\ ~cookie
          /\ ctl' = "engines"
          /\ UNCHANGED jfr
       \/ /\ ctl' = IF cookie THEN "abortClose" ELSE "free"
          /\ UNCHANGED jfr
    /\ UNCHANGED <<captureVars, handlerVars, state, cookie, request>>

(* One of the engines failed to start: the rollback from error7 to error1  *)
(* closes the recording.                                                   *)
EnginesFail ==
    /\ ctl = "engines"
    /\ jfr' = [jfr EXCEPT !.open = FALSE]
    /\ ctl' = IF cookie THEN "abortClose" ELSE "free"
    /\ UNCHANGED <<captureVars, handlerVars, state, cookie, request>>

EnginesStart ==
    /\ ctl = "engines"
    /\ state' = "RUNNING"
    /\ ctl' = IF cookie THEN "publish" ELSE "free"
    /\ UNCHANGED <<captureVars, handlerVars, cookie, request, jfr>>

PublishCookieCapture ==
    /\ ctl = "publish"
    /\ capture' = [capture EXCEPT !.ready = TRUE]
    /\ gate' = [closed |-> FALSE, count |-> 0]
    /\ ctl' = "free"
    /\ UNCHANGED <<nextEpoch, cnt, stopped, terminal, handlerVars,
                   state, cookie, request, jfr>>

(* abortCookieCapture: close, drain, forget the identity.                  *)
AbortClose ==
    /\ ctl = "abortClose"
    /\ gate' = [gate EXCEPT !.closed = TRUE]
    /\ ctl' = "abortDrain"
    /\ UNCHANGED <<nextEpoch, capture, cnt, stopped, terminal, handlerVars,
                   state, cookie, request, jfr>>

AbortDrained ==
    /\ ctl = "abortDrain"
    /\ gate.count = 0
    /\ capture' = NoCapture
    /\ ctl' = "free"
    /\ UNCHANGED <<gate, nextEpoch, cnt, stopped, terminal, handlerVars,
                   state, cookie, request, jfr>>

-----------------------------------------------------------------------------
(* Profiler::stop, under _state_lock.                                      *)

(* lookupCapture(id, epoch).                                               *)
Matches(id, e, session, epoch) == id = session /\ e \in {0, epoch}

(* Faulty variant: the epoch given to the stop is ignored.                 *)
LookupCaptureById(id, e) ==
    IF capture.ready /\ id = capture.session THEN "ACTIVE" ELSE "MISMATCH"

LookupCapture(id, e) ==
    IF capture.ready /\ Matches(id, e, capture.session, capture.epoch) THEN "ACTIVE"
    ELSE IF terminal.valid /\ Matches(id, e, terminal.session, terminal.epoch) THEN "TERMINAL"
    ELSE IF capture.ready \/ terminal.valid THEN "MISMATCH"
    ELSE "INACTIVE"

BeginStop(reason, id, e) ==
    /\ request' = [reason |-> reason, session |-> id, epoch |-> e]
    /\ ctl' = IF cookie THEN "stopClose" ELSE "stopJfr"
    /\ UNCHANGED <<captureVars, handlerVars, state, cookie, jfr>>

(* stop,signalcookie,signalid=ID,signalepoch=E: only an active capture of  *)
(* that identity is stopped; every other lookup only writes a response.    *)
GuardedStop(id, e) ==
    /\ ctl = "free"
    /\ LookupCapture(id, e) = "ACTIVE"
    /\ state = "RUNNING"
    /\ BeginStop("guarded-stop", id, e)

(* A plain stop is refused while a capture is ready, and again in stop()   *)
(* for a session started with signalcookie.                                *)
PlainStop ==
    /\ ctl = "free"
    /\ state = "RUNNING"
    /\ ~capture.ready
    /\ ~cookie
    /\ BeginStop("unknown", NoSession, 0)

(* The session's own timeout or the period of its loop, a JFR master       *)
(* recording that was stopped from outside (jfrsync), the end of the VM.   *)
InternalStop ==
    /\ ctl = "free"
    /\ state = "RUNNING"
    /\ \E reason \in {"timeout", "loop", "master-stop", "vm-shutdown"} :
           BeginStop(reason, NoSession, 0)

(* closeCookieSignalHandlerGate: set CLOSED, then wait for the count.      *)
StopClose ==
    /\ ctl = "stopClose"
    /\ gate' = [gate EXCEPT !.closed = TRUE]
    /\ ctl' = "stopDrain"
    /\ UNCHANGED <<nextEpoch, capture, cnt, stopped, terminal, handlerVars,
                   state, cookie, request, jfr>>

(* Faulty variant: the counters are read without waiting for the admitted  *)
(* handlers.                                                               *)
StopWithoutDrain ==
    /\ ctl = "stopDrain"
    /\ capture' = [capture EXCEPT !.ready = FALSE]
    /\ stopped' = cnt
    /\ ctl' = "stopJfr"
    /\ UNCHANGED <<gate, nextEpoch, cnt, terminal, handlerVars,
                   state, cookie, request, jfr>>

(* The rest of stopCookieCapture.                                          *)
StopDrained ==
    /\ ctl = "stopDrain"
    /\ gate.count = 0
    /\ capture' = [capture EXCEPT !.ready = FALSE]
    /\ stopped' = cnt
    /\ ctl' = "stopJfr"
    /\ UNCHANGED <<gate, nextEpoch, cnt, terminal, handlerVars,
                   state, cookie, request, jfr>>

(* What the file of a recording holds in the end: every sample, unless a   *)
(* write failed, then or earlier. The samples in a buffer that could not   *)
(* be written are lost, although they were counted. (Sessions without      *)
(* signalcookie have none.)                                                *)
Survivors(finalized) ==
    IF finalized \/ ~cookie THEN {jfr.samples}
    ELSE {[jfr.samples EXCEPT ![jfr.epoch] = n] : n \in 0..jfr.samples[jfr.epoch]}

(* The engines are stopped and, under lockAll, the recording is finished;  *)
(* finishCookieCapture then writes the receipt. Profiler::shutdown goes on *)
(* to TERMINATED under the same lock; JNI_OnUnload only stops.             *)
JfrStop(finalized) ==
    /\ ctl = "stopJfr"
    /\ \E kept \in Survivors(finalized) :
          jfr' = [open |-> FALSE, epoch |-> jfr.epoch, samples |-> kept]
    /\ terminal' = IF cookie
                   THEN [valid |-> TRUE, finalized |-> finalized,
                         session |-> capture.session, epoch |-> capture.epoch,
                         stats |-> stopped,
                         reason |-> IF finalized THEN request.reason
                                    ELSE "finalization-failed"]
                   ELSE terminal
    /\ capture' = IF cookie
                  THEN [epoch |-> 0, session |-> NoSession, ready |-> capture.ready]
                  ELSE capture
    /\ state' \in IF request.reason = "vm-shutdown" THEN {"IDLE", "TERMINATED"} ELSE {"IDLE"}
    /\ request' = NoRequest
    /\ ctl' = "free"
    /\ UNCHANGED <<gate, nextEpoch, cnt, stopped, handlerVars, cookie>>

(* Profiler::shutdown once nothing is running.                             *)
Terminate ==
    /\ ctl = "free"
    /\ state # "RUNNING"
    /\ state' = "TERMINATED"
    /\ UNCHANGED <<captureVars, handlerVars, ctl, cookie, request, jfr>>

ControlStep ==
    \/ ReserveFails \/ (\E s \in Sessions : ReserveCookieCapture(s))
    \/ InstallTraps \/ JfrStart \/ EnginesFail \/ EnginesStart
    \/ PublishCookieCapture \/ AbortClose \/ AbortDrained
    \/ StopClose \/ StopDrained \/ (\E f \in BOOLEAN : JfrStop(f))

Command ==
    \/ BeginStart
    \/ \E id \in Sessions, e \in 0..MaxEpoch : GuardedStop(id, e)
    \/ PlainStop \/ InternalStop \/ Terminate

Next ==
    \/ \E h \in Handlers : EnterHandler(h) \/ HandlerStep(h)
    \/ ControlStep
    \/ Command

(* Fairness: a handler never blocks (recordSample only tries locks), so a  *)
(* thread that entered it runs on; the controller runs on until it has     *)
(* finished its command.                                                   *)
Fairness ==
    /\ \A h \in Handlers : WF_vars(HandlerStep(h))
    /\ WF_vars(ControlStep)

Spec == Init /\ [][Next]_vars /\ Fairness

-----------------------------------------------------------------------------
(* Properties.                                                             *)

PCs == {"out", "admitted", "check", "compare", "record", "failed", "recorded",
        "leaving"}
Ctls == {"free", "reserve", "traps", "jfr", "engines", "publish", "abortClose",
         "abortDrain", "stopClose", "stopDrain", "stopJfr"}
Ids == Sessions \cup {NoSession}

GateType == [closed : BOOLEAN, count : Nat]
CaptureType == [epoch : 0..MaxEpoch, session : Ids, ready : BOOLEAN]
StatsType == [Counters -> Nat]
TerminalType == [valid : BOOLEAN, finalized : BOOLEAN, session : Ids, epoch : 0..MaxEpoch,
                 stats : StatsType, reason : Reasons \cup {"unknown"}]
RequestType == [reason : Reasons \cup {"unknown"}, session : Ids, epoch : 0..MaxEpoch]
SamplesType == [0..MaxEpoch -> Nat]
JfrType == [open : BOOLEAN, epoch : 0..MaxEpoch, samples : SamplesType]
States == {"NEW", "IDLE", "RUNNING", "TERMINATED"}

(* Every variable has the type of the C++ variable it stands for.          *)
TypeOK ==
    /\ gate \in GateType
    /\ nextEpoch \in 0..MaxEpoch
    /\ capture \in CaptureType
    /\ cnt \in StatsType
    /\ stopped \in StatsType
    /\ terminal \in TerminalType
    /\ pc \in [Handlers -> PCs]
    /\ sig \in [Handlers -> Signals \cup {NoSignal}]
    /\ seen \in [Handlers -> 0..MaxEpoch]
    /\ state \in States
    /\ ctl \in Ctls
    /\ cookie \in BOOLEAN
    /\ request \in RequestType
    /\ jfr \in JfrType

Inside == {h \in Handlers : pc[h] # "out"}

(* The gate, as the handlers and the controller use it through starts,     *)
(* aborted starts and stops, keeps the promise of HandlerGate: nobody      *)
(* enters once it is closed, the drain ends only when nobody is inside,    *)
(* and a new capture opens it only after that (signalEvent.cpp:532).       *)
GatePhase == IF ~gate.closed THEN "open"
             ELSE IF ctl \in {"stopDrain", "abortDrain"} THEN "draining" ELSE "closed"
Gate == INSTANCE HandlerGate WITH phase <- GatePhase, inside <- Inside
GateRefined == Gate!Spec

(* A handler is past the gate only while a published capture is running    *)
(* and its recording is open: never in a partially started capture, and    *)
(* never once the drain has ended and the counters are being read (the     *)
(* comments at profiler.cpp:1017 and signalEvent.cpp:517).                 *)
HandlersOnlyInOpenCapture ==
    Inside # {} =>
        /\ capture.ready /\ cookie /\ jfr.open
        /\ jfr.epoch = capture.epoch
        /\ ctl \in {"free", "stopClose", "stopDrain"}

(* The receipt accounts for every admitted signal exactly once, and every  *)
(* accepted cookie was either submitted or counted as a failure.           *)
ReceiptBalanced ==
    LET s == terminal.stats
    IN  /\ s["admitted"] = s["invalidCode"] + s["zeroCookie"] + s["zeroSequence"]
                            + s["staleEpoch"] + s["accepted"]
        /\ s["accepted"] = s["failures"] + s["submitted"]

(* The recording of a finished capture holds no sample of another epoch    *)
(* and none that its receipt does not report as submitted; if the receipt  *)
(* says that the recording was finalized, it holds them all.               *)
ReceiptMatchesRecording ==
    terminal.valid /\ jfr.epoch = terminal.epoch =>
        \E n \in 0..terminal.stats["submitted"] :
            /\ jfr.samples = [NoSamples EXCEPT ![terminal.epoch] = n]
            /\ terminal.finalized => n = terminal.stats["submitted"]

(* Between commands a capture is ready exactly when a session with         *)
(* signalcookie is running, and the gate is open exactly then. Both checks *)
(* that refuse a plain stop therefore agree, and an ACTIVE lookup always   *)
(* finds the profiler running (profiler.cpp:1669).                         *)
ReadyIffRunning ==
    ctl = "free" => /\ capture.ready <=> state = "RUNNING" /\ cookie
                    /\ capture.ready <=> ~gate.closed

(* A receipt is only ever replaced by that of a newer capture, and a       *)
(* guarded stop only ever ends the capture whose identity was given.       *)
ReceiptOnlyFromOwnCapture ==
    [][terminal' # terminal =>
          /\ terminal'.epoch > terminal.epoch
          /\ terminal'.epoch = capture.epoch /\ terminal'.session = capture.session
          /\ request.reason = "guarded-stop" =>
                Matches(request.session, request.epoch, terminal'.session, terminal'.epoch)]_vars

(* Every command completes: in particular closing the gate always drains,  *)
(* whatever signals keep arriving.                                         *)
CommandsComplete == ctl # "free" ~> ctl = "free"
=============================================================================
