------------------------- MODULE SignalCookieProofs -------------------------
(***************************************************************************)
(* Proofs about SignalCookie, for any number of handler threads, sessions, *)
(* epochs and signals.                                                     *)
(*                                                                         *)
(* The properties are not inductive on their own. That no handler is       *)
(* inside when the counters are read rests on the gate's count being the   *)
(* number of handlers inside (GateInv), on where the gate is open in the   *)
(* course of a command (LifeInv), and the balance of a receipt rests on    *)
(* the balance of the live counters with the handlers in flight            *)
(* (BalanceInv). That a receipt describes its own recording rests on the   *)
(* order of the epochs (EpochInv), on a handler that records holding a     *)
(* cookie of the capture in progress (CookieInv), and on what the open     *)
(* recording holds at each phase (SamplesInv).                             *)
(***************************************************************************)
EXTENDS SignalCookie, FiniteSetTheorems, TLAPS

(* The handlers at one of the places in S, and how many there are.         *)
At(f, S) == {h \in Handlers : f[h] \in S}
Count(f, S) == Cardinality(At(f, S))

InsidePCs == PCs \ {"out"}
ClassifyPCs == {"check", "compare"}
RecordPCs == {"record", "failed", "recorded"}

(* The gate counts the handlers inside.                                    *)
GateInv == gate.count = Count(pc, InsidePCs)

CaptureActive ==
    /\ capture.ready /\ cookie /\ state = "RUNNING"
    /\ jfr.open /\ jfr.epoch = capture.epoch

(* What each phase of a command knows about the capture.                   *)
LifeInv ==
    /\ ctl = "free" =>
          \/ CaptureActive /\ ~gate.closed
          \/ ~capture.ready /\ gate.closed /\ ~(state = "RUNNING" /\ cookie)
    /\ ctl \in {"reserve", "traps", "jfr", "engines", "abortClose", "abortDrain"} =>
          ~capture.ready /\ gate.closed /\ state \in {"NEW", "IDLE"}
    /\ ctl = "engines" /\ cookie => jfr.open /\ jfr.epoch = capture.epoch
    /\ ctl = "publish" =>
          /\ ~capture.ready /\ gate.closed /\ cookie /\ state = "RUNNING"
          /\ jfr.open /\ jfr.epoch = capture.epoch
    /\ ctl = "stopClose" => CaptureActive /\ ~gate.closed
    /\ ctl = "stopDrain" => CaptureActive /\ gate.closed
    /\ ctl = "stopJfr" => ~capture.ready /\ gate.closed /\ state = "RUNNING"

(* Handlers are inside only while the capture is active.                   *)
InsideInv ==
    \A h \in Handlers : pc[h] # "out" =>
        CaptureActive /\ ctl \in {"free", "stopClose", "stopDrain"}

Balanced(s) ==
    /\ s["admitted"] = s["invalidCode"] + s["zeroCookie"] + s["zeroSequence"]
                       + s["staleEpoch"] + s["accepted"]
    /\ s["accepted"] = s["failures"] + s["submitted"]

(* The live counters balance up to the handlers still in flight; what the  *)
(* drain leaves behind balances exactly.                                   *)
BalanceInv ==
    /\ cnt["admitted"] = cnt["invalidCode"] + cnt["zeroCookie"] + cnt["zeroSequence"]
                         + cnt["staleEpoch"] + cnt["accepted"] + Count(pc, ClassifyPCs)
    /\ cnt["accepted"] = cnt["failures"] + cnt["submitted"] + Count(pc, RecordPCs)
    /\ Balanced(stopped)
    /\ Balanced(terminal.stats)

(* Epochs only grow: the capture in progress is newer than the receipt,    *)
(* and a session with signalcookie has one from its reservation on. What a *)
(* guarded stop asked for is what it is stopping.                          *)
EpochInv ==
    /\ capture.epoch <= nextEpoch /\ terminal.epoch <= nextEpoch
    /\ capture.epoch # 0 => terminal.epoch < capture.epoch
    /\ terminal.valid => terminal.epoch # 0
    /\ capture.ready => capture.epoch # 0
    /\ cookie /\ ctl \notin {"free", "reserve"} => capture.epoch # 0
    /\ ctl \in {"stopClose", "stopDrain", "stopJfr"} /\ request.reason = "guarded-stop" =>
          Matches(request.session, request.epoch, capture.session, capture.epoch)

(* A handler that has compared its cookie holds one of this capture.       *)
CookieInv ==
    \A h \in Handlers :
        /\ pc[h] = "compare" => seen[h] = capture.epoch
        /\ pc[h] \in RecordPCs => sig[h].epoch = capture.epoch

(* A recording with n samples, all of epoch e.                             *)
Only(e, n) == [NoSamples EXCEPT ![e] = n]

(* The recording of a capture holds the samples counted as submitted and   *)
(* those of the handlers that have yet to count theirs; once drained, the  *)
(* ones in the counters that were read; afterwards, those of the receipt.  *)
SamplesInv ==
    /\ cookie /\ (ctl \in {"engines", "publish"} \/ capture.ready) =>
          jfr.samples = Only(jfr.epoch, cnt["submitted"] + Count(pc, {"recorded"}))
    /\ cookie /\ ctl \in {"traps", "jfr"} => cnt["submitted"] = 0
    /\ cookie /\ ctl = "stopJfr" =>
          /\ jfr.epoch = capture.epoch
          /\ jfr.samples = Only(jfr.epoch, stopped["submitted"])
    /\ ReceiptMatchesRecording

IInv ==
    /\ TypeOK /\ GateInv /\ LifeInv /\ InsideInv /\ BalanceInv
    /\ EpochInv /\ CookieInv /\ SamplesInv

-----------------------------------------------------------------------------
(* Counting handlers as one of them moves.                                 *)

(* A count of handlers is a natural number.                                *)
LEMMA CountNat ==
    ASSUME NEW f, NEW S
    PROVE  IsFiniteSet(At(f, S)) /\ Count(f, S) \in Nat
BY HandlersFinite, FS_Subset, FS_CardinalityType, Zenon DEF At, Count

(* When the count is zero, no handler is at such a place.                  *)
LEMMA CountZero ==
    ASSUME NEW f, NEW S, Count(f, S) = 0, NEW h \in Handlers
    PROVE  f[h] \notin S
BY CountNat, FS_EmptySet DEF At, Count

(* When no handler is at such a place, the count is zero.                  *)
LEMMA CountNone ==
    ASSUME NEW f, NEW S, \A h \in Handlers : f[h] \notin S
    PROVE  Count(f, S) = 0
<1>1. At(f, S) = {}  BY Zenon DEF At
<1> QED  BY <1>1, FS_EmptySet, Zenon DEF Count

(* A handler that moves into S adds one to the count.                      *)
LEMMA CountEnter ==
    ASSUME NEW f \in [Handlers -> PCs], NEW h \in Handlers, NEW v \in PCs, NEW S,
           f[h] \notin S, v \in S
    PROVE  Count([f EXCEPT ![h] = v], S) = Count(f, S) + 1
<1>1. At([f EXCEPT ![h] = v], S) = At(f, S) \cup {h}  BY Zenon DEF At
<1>2. h \notin At(f, S)  BY Zenon DEF At
<1> QED  BY <1>1, <1>2, CountNat, FS_AddElement, Zenon DEF Count

(* A handler that moves out of S takes one off the count.                  *)
LEMMA CountLeave ==
    ASSUME NEW f \in [Handlers -> PCs], NEW h \in Handlers, NEW v \in PCs, NEW S,
           f[h] \in S, v \notin S
    PROVE  /\ Count([f EXCEPT ![h] = v], S) = Count(f, S) - 1
           /\ Count(f, S) \in Nat \ {0}
<1>1. At([f EXCEPT ![h] = v], S) = At(f, S) \ {h}  BY Zenon DEF At
<1>2. h \in At(f, S)  BY Zenon DEF At
<1>3. Count([f EXCEPT ![h] = v], S) = Count(f, S) - 1
  BY <1>1, <1>2, CountNat, FS_RemoveElement, ZenonT(120) DEF Count
<1>4. Count(f, S) # 0  BY CountZero, Zenon
<1> QED  BY <1>3, <1>4, CountNat, Zenon

(* A handler that moves without crossing S leaves the count alone.         *)
LEMMA CountStay ==
    ASSUME NEW f \in [Handlers -> PCs], NEW h \in Handlers, NEW v \in PCs, NEW S,
           f[h] \in S <=> v \in S
    PROVE  Count([f EXCEPT ![h] = v], S) = Count(f, S)
<1>1. At([f EXCEPT ![h] = v], S) = At(f, S)  BY Zenon DEF At
<1> QED  BY <1>1, Zenon DEF Count

-----------------------------------------------------------------------------
(* Inductive step, one lemma per part of the invariant.                    *)

(* Incrementing one value of a function into Nat.                           *)
LEMMA BumpType ==
    ASSUME NEW S, NEW f \in [S -> Nat], NEW x
    PROVE  [f EXCEPT ![x] = @ + 1] \in [S -> Nat]
<1>1. CASE x \in S  BY <1>1
<1>2. CASE x \notin S
  <2>1. [f EXCEPT ![x] = @ + 1] = f  BY <1>2, Zenon
  <2> QED  BY <2>1, ZenonT(120)
<1> QED  BY <1>1, <1>2, Zenon

(* A recording that loses samples has fewer of its own epoch.              *)
LEMMA SurvivorsType ==
    ASSUME TypeOK, NEW f \in BOOLEAN, NEW kept \in Survivors(f)
    PROVE  kept \in SamplesType
<1>1. jfr.samples \in SamplesType  BY Zenon DEF TypeOK, JfrType
<1>2. CASE kept = jfr.samples  BY <1>1, <1>2, Zenon
<1>3. CASE \E n \in 0..jfr.samples[jfr.epoch] : kept = [jfr.samples EXCEPT ![jfr.epoch] = n]
  <2>1. PICK n \in 0..jfr.samples[jfr.epoch] : kept = [jfr.samples EXCEPT ![jfr.epoch] = n]  BY <1>3, Zenon
  <2>2. n \in Nat
    BY <2>1
  <2> QED  BY <1>1, <2>1, <2>2, Zenon DEF SamplesType
<1> QED  BY <1>2, <1>3, Zenon DEF Survivors

(* Every step keeps the types.                                             *)
LEMMA TypeStep ==
    ASSUME TypeOK, GateInv, [Next]_vars
    PROVE  TypeOK'
<1>1. ASSUME NEW h \in Handlers, EnterHandler(h)  PROVE TypeOK'
  BY <1>1 DEF EnterHandler, TypeOK, captureVars, handlerVars, controlVars, PCs, GateType
<1>2. ASSUME NEW h \in Handlers, CountAdmitted(h)  PROVE TypeOK'
  BY <1>2 DEF CountAdmitted, TypeOK, captureVars, handlerVars, controlVars, PCs, Bump,
      StatsType, Counters
<1>3. ASSUME NEW h \in Handlers, RejectSignal(h)  PROVE TypeOK'
  BY <1>3 DEF RejectSignal, TypeOK, captureVars, handlerVars, controlVars, PCs, Bump,
      StatsType, Counters, Rejection
<1>4. ASSUME NEW h \in Handlers, ReadEpoch(h)  PROVE TypeOK'
  BY <1>4, Zenon DEF ReadEpoch, TypeOK, captureVars, handlerVars, controlVars, PCs, CaptureType
<1>5. ASSUME NEW h \in Handlers, RejectStale(h)  PROVE TypeOK'
  BY <1>5 DEF RejectStale, TypeOK, captureVars, handlerVars, controlVars, PCs, Bump,
      StatsType, Counters
<1>6. ASSUME NEW h \in Handlers, AcceptCookie(h)  PROVE TypeOK'
  BY <1>6 DEF AcceptCookie, TypeOK, captureVars, handlerVars, controlVars, PCs, Bump,
      StatsType, Counters
<1>7. ASSUME NEW h \in Handlers, RecordFails(h)  PROVE TypeOK'
  BY <1>7, Zenon DEF RecordFails, TypeOK, captureVars, handlerVars, controlVars, PCs
<1>8. ASSUME NEW h \in Handlers, RecordSample(h)  PROVE TypeOK'
  <2>1. jfr.samples \in SamplesType /\ jfr.open \in BOOLEAN /\ jfr.epoch \in 0..MaxEpoch
    BY Zenon DEF TypeOK, JfrType
  <2>2. [jfr.samples EXCEPT ![sig[h].epoch] = @ + 1] \in SamplesType
    BY <2>1, BumpType, Zenon DEF SamplesType
  <2>3. \/ jfr' = jfr
        \/ jfr' = [jfr EXCEPT !.samples = [jfr.samples EXCEPT ![sig[h].epoch] = @ + 1]]
    BY <1>8, Zenon DEF RecordSample
  <2>4. jfr' \in JfrType
    BY <2>1, <2>2, <2>3, Zenon DEF JfrType, TypeOK
  <2> QED  BY <1>8, <2>4, Zenon DEF RecordSample, TypeOK, captureVars, controlVars, PCs
<1>9. ASSUME NEW h \in Handlers, CountOutcome(h)  PROVE TypeOK'
  BY <1>9 DEF CountOutcome, TypeOK, captureVars, handlerVars, controlVars, PCs, Bump,
      StatsType, Counters
<1>10. ASSUME NEW h \in Handlers, LeaveHandler(h)  PROVE TypeOK'
  <2>0. /\ pc \in [Handlers -> PCs] /\ pc[h] \in InsidePCs
        /\ "out" \in PCs /\ "out" \notin InsidePCs
    BY <1>10, Zenon DEF LeaveHandler, TypeOK, PCs, InsidePCs
  <2>1. gate.count \in Nat \ {0}
    BY <2>0, CountLeave, ZenonT(120) DEF GateInv
  <2>2. gate' \in GateType
    BY <1>10, <2>1 DEF LeaveHandler, TypeOK, GateType
  <2> QED  BY <1>10, <2>2, EpochBound DEF LeaveHandler, TypeOK, controlVars, PCs
<1>11. CASE ReserveFails
  BY <1>11, EpochBound DEF ReserveFails, TypeOK, Ctls, captureVars, handlerVars,
      controlVars
<1>12. ASSUME NEW s \in Sessions, ReserveCookieCapture(s)  PROVE TypeOK'
  BY <1>12, EpochBound DEF ReserveCookieCapture, TypeOK, Ctls, captureVars,
      handlerVars, controlVars, Zero, StatsType, CaptureType, GateType, Ids
<1>13. CASE InstallTraps
  BY <1>13, Zenon DEF InstallTraps, TypeOK, Ctls, captureVars, handlerVars, controlVars
<1>14. CASE JfrStart
  <2>1. NoSamples \in SamplesType
    BY Zenon DEF NoSamples, SamplesType
  <2>2. (IF cookie THEN capture.epoch ELSE 0) \in 0..MaxEpoch
    BY EpochBound DEF TypeOK, CaptureType
  <2>3. [open |-> TRUE, epoch |-> IF cookie THEN capture.epoch ELSE 0,
         samples |-> NoSamples] \in JfrType
    BY <2>1, <2>2, Zenon DEF JfrType
  <2>4. jfr' \in JfrType
    BY <1>14, <2>3, Zenon DEF JfrStart, TypeOK
  <2>5. ctl' \in Ctls
    BY <1>14, Zenon DEF JfrStart, Ctls
  <2> QED  BY <1>14, <2>4, <2>5, Zenon DEF JfrStart, TypeOK, captureVars, handlerVars
<1>15. CASE EnginesFail
  BY <1>15, Zenon DEF EnginesFail, TypeOK, Ctls, captureVars, handlerVars, controlVars, JfrType
<1>16. CASE EnginesStart
  BY <1>16, Zenon DEF EnginesStart, TypeOK, Ctls, captureVars, handlerVars, controlVars, States
<1>17. CASE PublishCookieCapture
  BY <1>17, Zenon DEF PublishCookieCapture, TypeOK, Ctls, captureVars, handlerVars,
      controlVars, GateType, CaptureType
<1>18. CASE AbortClose
  BY <1>18, Zenon DEF AbortClose, TypeOK, Ctls, captureVars, handlerVars, controlVars, GateType
<1>19. CASE AbortDrained
  BY <1>19, EpochBound DEF AbortDrained, TypeOK, Ctls, captureVars, handlerVars,
      controlVars, NoCapture, CaptureType, Ids
<1>20. CASE StopClose
  BY <1>20, Zenon DEF StopClose, TypeOK, Ctls, captureVars, handlerVars, controlVars, GateType
<1>21. CASE StopDrained
  BY <1>21, ZenonT(120) DEF StopDrained, TypeOK, Ctls, captureVars, handlerVars, controlVars,
      CaptureType
<1>22. ASSUME NEW f \in BOOLEAN, JfrStop(f)  PROVE TypeOK'
  <2>1. terminal' \in TerminalType
    BY <1>22, Zenon DEF JfrStop, TypeOK, TerminalType, CaptureType, RequestType, Reasons
  <2>2. capture' \in CaptureType
    BY <1>22, EpochBound DEF JfrStop, TypeOK, CaptureType, Ids
  <2>4. jfr' \in JfrType
    <3>1. PICK kept \in Survivors(f) : jfr' = [open |-> FALSE, epoch |-> jfr.epoch, samples |-> kept]
      BY <1>22, Zenon DEF JfrStop
    <3>2. kept \in SamplesType
      BY SurvivorsType, Zenon
    <3> QED  BY <3>1, <3>2, Zenon DEF TypeOK, JfrType
  <2>5. request' \in RequestType
    BY <1>22, EpochBound DEF JfrStop, RequestType, NoRequest, Ids
  <2>3. state' \in States /\ ctl' \in Ctls
    BY <1>22, Zenon DEF JfrStop, States, Ctls
  <2> QED  BY <1>22, <2>1, <2>2, <2>3, <2>4, <2>5, Zenon DEF JfrStop, TypeOK, handlerVars
<1>23. CASE BeginStart
  BY <1>23, ZenonT(120) DEF BeginStart, TypeOK, Ctls, captureVars, handlerVars, controlVars
<1>24. ASSUME NEW id \in Sessions, NEW e \in 0..MaxEpoch, GuardedStop(id, e)  PROVE TypeOK'
  BY <1>24, EpochBound, Zenon DEF GuardedStop, TypeOK, Ctls, captureVars, handlerVars,
      controlVars, BeginStop, Reasons, RequestType, Ids
<1>25. CASE PlainStop
  BY <1>25, EpochBound DEF PlainStop, TypeOK, Ctls, captureVars, handlerVars,
      controlVars, BeginStop, Reasons, RequestType, Ids
<1>26. CASE InternalStop
  BY <1>26, EpochBound DEF InternalStop, TypeOK, Ctls, captureVars, handlerVars,
      controlVars, BeginStop, Reasons, RequestType, Ids
<1>27. CASE Terminate
  BY <1>27, Zenon DEF Terminate, TypeOK, Ctls, captureVars, handlerVars, controlVars, States
<1>28. CASE UNCHANGED vars
  BY <1>28, Zenon DEF TypeOK, vars, captureVars, handlerVars, controlVars
<1> QED
  BY <1>1, <1>2, <1>3, <1>4, <1>5, <1>6, <1>7, <1>8, <1>9, <1>10, <1>11, <1>12, <1>13,
      <1>14, <1>15, <1>16, <1>17, <1>18, <1>19, <1>20, <1>21, <1>22, <1>23, <1>24,
      <1>25, <1>26, <1>27, <1>28, Zenon
  DEF Next, HandlerStep, ControlStep, Command

(* Every step keeps the gate's count equal to the number of handlers       *)
(* inside; the two plain stores to the gate happen when nobody is inside.  *)
LEMMA GateStep ==
    ASSUME TypeOK, GateInv, InsideInv, [Next]_vars
    PROVE  GateInv'
<1>1. ASSUME NEW h \in Handlers, EnterHandler(h)  PROVE GateInv'
  <2>1. /\ pc \in [Handlers -> PCs] /\ pc' = [pc EXCEPT ![h] = "admitted"]
        /\ "admitted" \in PCs /\ pc[h] \notin InsidePCs /\ "admitted" \in InsidePCs
    BY <1>1, Zenon DEF EnterHandler, TypeOK, PCs, InsidePCs
  <2>2. Count(pc', InsidePCs) = Count(pc, InsidePCs) + 1
    BY <2>1, CountEnter, Zenon
  <2> QED  BY <1>1, <2>2, Zenon DEF EnterHandler, GateInv, TypeOK, GateType
<1>2. ASSUME NEW h \in Handlers, CountAdmitted(h)  PROVE GateInv'
  <2>1. /\ pc \in [Handlers -> PCs] /\ pc' = [pc EXCEPT ![h] = "check"]
        /\ "check" \in PCs /\ pc[h] \in InsidePCs /\ "check" \in InsidePCs
    BY <1>2, Zenon DEF CountAdmitted, TypeOK, PCs, InsidePCs
  <2>2. Count(pc', InsidePCs) = Count(pc, InsidePCs)
    BY <2>1, CountStay, Zenon
  <2> QED  BY <1>2, <2>2, Zenon DEF CountAdmitted, GateInv, captureVars
<1>3. ASSUME NEW h \in Handlers, RejectSignal(h)  PROVE GateInv'
  <2>1. /\ pc \in [Handlers -> PCs] /\ pc' = [pc EXCEPT ![h] = "leaving"]
        /\ "leaving" \in PCs /\ pc[h] \in InsidePCs /\ "leaving" \in InsidePCs
    BY <1>3, Zenon DEF RejectSignal, TypeOK, PCs, InsidePCs
  <2>2. Count(pc', InsidePCs) = Count(pc, InsidePCs)
    BY <2>1, CountStay, Zenon
  <2> QED  BY <1>3, <2>2, Zenon DEF RejectSignal, GateInv, captureVars
<1>4. ASSUME NEW h \in Handlers, ReadEpoch(h)  PROVE GateInv'
  <2>1. /\ pc \in [Handlers -> PCs] /\ pc' = [pc EXCEPT ![h] = "compare"]
        /\ "compare" \in PCs /\ pc[h] \in InsidePCs /\ "compare" \in InsidePCs
    BY <1>4, Zenon DEF ReadEpoch, TypeOK, PCs, InsidePCs
  <2>2. Count(pc', InsidePCs) = Count(pc, InsidePCs)
    BY <2>1, CountStay, ZenonT(120)
  <2> QED  BY <1>4, <2>2, Zenon DEF ReadEpoch, GateInv, captureVars
<1>5. ASSUME NEW h \in Handlers, RejectStale(h)  PROVE GateInv'
  <2>1. /\ pc \in [Handlers -> PCs] /\ pc' = [pc EXCEPT ![h] = "leaving"]
        /\ "leaving" \in PCs /\ pc[h] \in InsidePCs /\ "leaving" \in InsidePCs
    BY <1>5, Zenon DEF RejectStale, TypeOK, PCs, InsidePCs
  <2>2. Count(pc', InsidePCs) = Count(pc, InsidePCs)
    BY <2>1, CountStay, Zenon
  <2> QED  BY <1>5, <2>2, Zenon DEF RejectStale, GateInv, captureVars
<1>6. ASSUME NEW h \in Handlers, AcceptCookie(h)  PROVE GateInv'
  <2>1. /\ pc \in [Handlers -> PCs] /\ pc' = [pc EXCEPT ![h] = "record"]
        /\ "record" \in PCs /\ pc[h] \in InsidePCs /\ "record" \in InsidePCs
    BY <1>6, Zenon DEF AcceptCookie, TypeOK, PCs, InsidePCs
  <2>2. Count(pc', InsidePCs) = Count(pc, InsidePCs)
    BY <2>1, CountStay, Zenon
  <2> QED  BY <1>6, <2>2, Zenon DEF AcceptCookie, GateInv, captureVars
<1>7. ASSUME NEW h \in Handlers, RecordFails(h)  PROVE GateInv'
  <2>1. /\ pc \in [Handlers -> PCs] /\ pc' = [pc EXCEPT ![h] = "failed"]
        /\ "failed" \in PCs /\ pc[h] \in InsidePCs /\ "failed" \in InsidePCs
    BY <1>7, Zenon DEF RecordFails, TypeOK, PCs, InsidePCs
  <2>2. Count(pc', InsidePCs) = Count(pc, InsidePCs)
    BY <2>1, CountStay, Zenon
  <2> QED  BY <1>7, <2>2, Zenon DEF RecordFails, GateInv, captureVars
<1>8. ASSUME NEW h \in Handlers, RecordSample(h)  PROVE GateInv'
  <2>1. /\ pc \in [Handlers -> PCs] /\ pc' = [pc EXCEPT ![h] = "recorded"]
        /\ "recorded" \in PCs /\ pc[h] \in InsidePCs /\ "recorded" \in InsidePCs
    BY <1>8, Zenon DEF RecordSample, TypeOK, PCs, InsidePCs
  <2>2. Count(pc', InsidePCs) = Count(pc, InsidePCs)
    BY <2>1, CountStay, Zenon
  <2> QED  BY <1>8, <2>2, Zenon DEF RecordSample, GateInv, captureVars
<1>9. ASSUME NEW h \in Handlers, CountOutcome(h)  PROVE GateInv'
  <2>1. /\ pc \in [Handlers -> PCs] /\ pc' = [pc EXCEPT ![h] = "leaving"]
        /\ "leaving" \in PCs /\ pc[h] \in InsidePCs /\ "leaving" \in InsidePCs
    BY <1>9, Zenon DEF CountOutcome, TypeOK, PCs, InsidePCs
  <2>2. Count(pc', InsidePCs) = Count(pc, InsidePCs)
    BY <2>1, CountStay, Zenon
  <2> QED  BY <1>9, <2>2, Zenon DEF CountOutcome, GateInv, captureVars
<1>10. ASSUME NEW h \in Handlers, LeaveHandler(h)  PROVE GateInv'
  <2>1. /\ pc \in [Handlers -> PCs] /\ pc' = [pc EXCEPT ![h] = "out"]
        /\ "out" \in PCs /\ pc[h] \in InsidePCs /\ "out" \notin InsidePCs
    BY <1>10, Zenon DEF LeaveHandler, TypeOK, PCs, InsidePCs
  <2>2. Count(pc', InsidePCs) = Count(pc, InsidePCs) - 1
    BY <2>1, CountLeave, ZenonT(120)
  <2> QED  BY <1>10, <2>2, Zenon DEF LeaveHandler, GateInv, TypeOK, GateType
<1>11. CASE ReserveFails
  BY <1>11, Zenon DEF ReserveFails, GateInv, captureVars, handlerVars, controlVars
<1>12. ASSUME NEW s \in Sessions, ReserveCookieCapture(s)  PROVE GateInv'
  <2>1. \A h \in Handlers : pc[h] = "out"
    BY <1>12, Zenon DEF ReserveCookieCapture, InsideInv
  <2>2. Count(pc, InsidePCs) = 0
    BY <2>1, CountNone, Zenon DEF InsidePCs
  <2> QED  BY <1>12, <2>2, Zenon DEF ReserveCookieCapture, GateInv, handlerVars
<1>13. CASE InstallTraps
  BY <1>13, Zenon DEF InstallTraps, GateInv, captureVars, handlerVars, controlVars
<1>14. CASE JfrStart
  BY <1>14, Zenon DEF JfrStart, GateInv, captureVars, handlerVars, controlVars
<1>15. CASE EnginesFail
  BY <1>15, Zenon DEF EnginesFail, GateInv, captureVars, handlerVars, controlVars
<1>16. CASE EnginesStart
  BY <1>16, Zenon DEF EnginesStart, GateInv, captureVars, handlerVars, controlVars
<1>17. CASE PublishCookieCapture
  <2>1. \A h \in Handlers : pc[h] = "out"
    BY <1>17, Zenon DEF PublishCookieCapture, InsideInv
  <2>2. Count(pc, InsidePCs) = 0
    BY <2>1, CountNone, Zenon DEF InsidePCs
  <2> QED  BY <1>17, <2>2, Zenon DEF PublishCookieCapture, GateInv, handlerVars
<1>18. CASE AbortClose
  BY <1>18, Zenon DEF AbortClose, GateInv, TypeOK, GateType, captureVars, handlerVars,
      controlVars
<1>19. CASE AbortDrained
  BY <1>19, Zenon DEF AbortDrained, GateInv, captureVars, handlerVars, controlVars
<1>20. CASE StopClose
  BY <1>20, Zenon DEF StopClose, GateInv, TypeOK, GateType, captureVars, handlerVars,
      controlVars
<1>21. CASE StopDrained
  BY <1>21, Zenon DEF StopDrained, GateInv, captureVars, handlerVars, controlVars
<1>22. ASSUME NEW f \in BOOLEAN, JfrStop(f)  PROVE GateInv'
  BY <1>22, Zenon DEF JfrStop, GateInv, captureVars, handlerVars, controlVars
<1>23. CASE BeginStart
  BY <1>23, Zenon DEF BeginStart, GateInv, captureVars, handlerVars, controlVars
<1>24. ASSUME NEW id \in Sessions, NEW e \in 0..MaxEpoch, GuardedStop(id, e)  PROVE GateInv'
  BY <1>24, Zenon DEF GuardedStop, BeginStop, GateInv, captureVars, handlerVars, controlVars
<1>25. CASE PlainStop
  BY <1>25, Zenon DEF PlainStop, BeginStop, GateInv, captureVars, handlerVars, controlVars
<1>26. CASE InternalStop
  BY <1>26, Zenon DEF InternalStop, BeginStop, GateInv, captureVars, handlerVars, controlVars
<1>27. CASE Terminate
  BY <1>27, Zenon DEF Terminate, GateInv, captureVars, handlerVars, controlVars
<1>28. CASE UNCHANGED vars
  BY <1>28 DEF GateInv, vars, captureVars, handlerVars, controlVars
<1> QED
  BY <1>1, <1>2, <1>3, <1>4, <1>5, <1>6, <1>7, <1>8, <1>9, <1>10, <1>11, <1>12, <1>13,
      <1>14, <1>15, <1>16, <1>17, <1>18, <1>19, <1>20, <1>21, <1>22, <1>23, <1>24,
      <1>25, <1>26, <1>27, <1>28, SMTT(30)
  DEF Next, HandlerStep, ControlStep, Command

(* Every step keeps what the phases of a command know.                     *)
LEMMA LifeStep ==
    ASSUME TypeOK, LifeInv, [Next]_vars
    PROVE  LifeInv'
<1>1. ASSUME NEW h \in Handlers, EnterHandler(h)  PROVE LifeInv'
  BY <1>1, Zenon DEF EnterHandler, LifeInv, CaptureActive, captureVars, handlerVars,
      controlVars, TypeOK, GateType
<1>2. ASSUME NEW h \in Handlers, CountAdmitted(h)  PROVE LifeInv'
  BY <1>2, Zenon DEF CountAdmitted, LifeInv, CaptureActive, captureVars, handlerVars,
      controlVars
<1>3. ASSUME NEW h \in Handlers, RejectSignal(h)  PROVE LifeInv'
  BY <1>3, Zenon DEF RejectSignal, LifeInv, CaptureActive, captureVars, handlerVars,
      controlVars
<1>4. ASSUME NEW h \in Handlers, ReadEpoch(h)  PROVE LifeInv'
  BY <1>4, Zenon DEF ReadEpoch, LifeInv, CaptureActive, captureVars, handlerVars, controlVars
<1>5. ASSUME NEW h \in Handlers, RejectStale(h)  PROVE LifeInv'
  BY <1>5, Zenon DEF RejectStale, LifeInv, CaptureActive, captureVars, handlerVars, controlVars
<1>6. ASSUME NEW h \in Handlers, AcceptCookie(h)  PROVE LifeInv'
  BY <1>6, Zenon DEF AcceptCookie, LifeInv, CaptureActive, captureVars, handlerVars,
      controlVars
<1>7. ASSUME NEW h \in Handlers, RecordFails(h)  PROVE LifeInv'
  BY <1>7, Zenon DEF RecordFails, LifeInv, CaptureActive, captureVars, handlerVars, controlVars
<1>8. ASSUME NEW h \in Handlers, RecordSample(h)  PROVE LifeInv'
  BY <1>8, Zenon DEF RecordSample, LifeInv, CaptureActive, captureVars, handlerVars,
      controlVars, TypeOK, JfrType
<1>9. ASSUME NEW h \in Handlers, CountOutcome(h)  PROVE LifeInv'
  BY <1>9, Zenon DEF CountOutcome, LifeInv, CaptureActive, captureVars, handlerVars,
      controlVars
<1>10. ASSUME NEW h \in Handlers, LeaveHandler(h)  PROVE LifeInv'
  BY <1>10, Zenon DEF LeaveHandler, LifeInv, CaptureActive, captureVars, handlerVars,
      controlVars, TypeOK, GateType
<1>11. CASE ReserveFails
  BY <1>11, Zenon DEF ReserveFails, LifeInv, CaptureActive, captureVars, handlerVars,
      controlVars, TypeOK
<1>12. ASSUME NEW s \in Sessions, ReserveCookieCapture(s)  PROVE LifeInv'
  BY <1>12, Zenon DEF ReserveCookieCapture, LifeInv, CaptureActive, captureVars, handlerVars,
      controlVars, TypeOK, GateType
<1>13. CASE InstallTraps
  BY <1>13, Zenon DEF InstallTraps, LifeInv, CaptureActive, captureVars, handlerVars,
      controlVars, TypeOK
<1>14. CASE JfrStart
  BY <1>14 DEF JfrStart, LifeInv, CaptureActive, captureVars, handlerVars,
      controlVars, TypeOK, JfrType
<1>15. CASE EnginesFail
  BY <1>15, Zenon DEF EnginesFail, LifeInv, CaptureActive, captureVars, handlerVars,
      controlVars, TypeOK, JfrType
<1>16. CASE EnginesStart
  BY <1>16, Zenon DEF EnginesStart, LifeInv, CaptureActive, captureVars, handlerVars,
      controlVars, TypeOK, States
<1>17. CASE PublishCookieCapture
  BY <1>17, Zenon DEF PublishCookieCapture, LifeInv, CaptureActive, captureVars, handlerVars,
      controlVars, TypeOK, GateType, CaptureType
<1>18. CASE AbortClose
  BY <1>18, Zenon DEF AbortClose, LifeInv, CaptureActive, captureVars, handlerVars,
      controlVars, TypeOK, GateType
<1>19. CASE AbortDrained
  BY <1>19, Zenon DEF AbortDrained, LifeInv, CaptureActive, captureVars, handlerVars,
      controlVars, TypeOK, CaptureType, NoCapture
<1>20. CASE StopClose
  BY <1>20, Zenon DEF StopClose, LifeInv, CaptureActive, captureVars, handlerVars,
      controlVars, TypeOK, GateType
<1>21. CASE StopDrained
  BY <1>21, Zenon DEF StopDrained, LifeInv, CaptureActive, captureVars, handlerVars,
      controlVars, TypeOK, CaptureType
<1>22. ASSUME NEW f \in BOOLEAN, JfrStop(f)  PROVE LifeInv'
  BY <1>22, Zenon DEF JfrStop, LifeInv, CaptureActive, captureVars, handlerVars, controlVars,
      TypeOK, CaptureType, JfrType
<1>23. CASE BeginStart
  BY <1>23, Zenon DEF BeginStart, LifeInv, CaptureActive, captureVars, handlerVars,
      controlVars, TypeOK, States
<1>24. ASSUME NEW id \in Sessions, NEW e \in 0..MaxEpoch, GuardedStop(id, e)  PROVE LifeInv'
  BY <1>24, Zenon DEF GuardedStop, LifeInv, CaptureActive, captureVars, handlerVars,
      controlVars, TypeOK, BeginStop
<1>25. CASE PlainStop
  BY <1>25, Zenon DEF PlainStop, LifeInv, CaptureActive, captureVars, handlerVars,
      controlVars, TypeOK, BeginStop
<1>26. CASE InternalStop
  BY <1>26 DEF InternalStop, LifeInv, CaptureActive, captureVars, handlerVars,
      controlVars, TypeOK, BeginStop
<1>27. CASE Terminate
  BY <1>27, Zenon DEF Terminate, LifeInv, CaptureActive, captureVars, handlerVars,
      controlVars, TypeOK, States
<1>28. CASE UNCHANGED vars
  BY <1>28, Zenon DEF LifeInv, CaptureActive, vars, captureVars, handlerVars, controlVars
<1> QED
  BY <1>1, <1>2, <1>3, <1>4, <1>5, <1>6, <1>7, <1>8, <1>9, <1>10, <1>11, <1>12, <1>13,
      <1>14, <1>15, <1>16, <1>17, <1>18, <1>19, <1>20, <1>21, <1>22, <1>23, <1>24,
      <1>25, <1>26, <1>27, <1>28, SMTT(30)
  DEF Next, HandlerStep, ControlStep, Command

(* Every step keeps handlers out of inactive captures; the drain is what   *)
(* empties the handler before the capture ends.                            *)
LEMMA InsideStep ==
    ASSUME TypeOK, GateInv, LifeInv, InsideInv, [Next]_vars
    PROVE  InsideInv'
<1>1. ASSUME NEW h \in Handlers, EnterHandler(h)  PROVE InsideInv'
  BY <1>1, Zenon DEF EnterHandler, InsideInv, LifeInv, CaptureActive, controlVars, TypeOK,
      PCs, Ctls, Next
<1>2. ASSUME NEW h \in Handlers, CountAdmitted(h)  PROVE InsideInv'
  BY <1>2, Zenon DEF CountAdmitted, InsideInv, CaptureActive, captureVars, handlerVars,
      controlVars, TypeOK
<1>3. ASSUME NEW h \in Handlers, RejectSignal(h)  PROVE InsideInv'
  BY <1>3, Zenon DEF RejectSignal, InsideInv, CaptureActive, captureVars, handlerVars,
      controlVars, TypeOK
<1>4. ASSUME NEW h \in Handlers, ReadEpoch(h)  PROVE InsideInv'
  BY <1>4, Zenon DEF ReadEpoch, InsideInv, CaptureActive, captureVars, handlerVars,
      controlVars, TypeOK
<1>5. ASSUME NEW h \in Handlers, RejectStale(h)  PROVE InsideInv'
  BY <1>5, Zenon DEF RejectStale, InsideInv, CaptureActive, captureVars, handlerVars,
      controlVars, TypeOK
<1>6. ASSUME NEW h \in Handlers, AcceptCookie(h)  PROVE InsideInv'
  BY <1>6, Zenon DEF AcceptCookie, InsideInv, CaptureActive, captureVars, handlerVars,
      controlVars, TypeOK
<1>7. ASSUME NEW h \in Handlers, RecordFails(h)  PROVE InsideInv'
  BY <1>7, Zenon DEF RecordFails, InsideInv, CaptureActive, captureVars, handlerVars,
      controlVars, TypeOK
<1>8. ASSUME NEW h \in Handlers, RecordSample(h)  PROVE InsideInv'
  BY <1>8, Zenon DEF RecordSample, InsideInv, CaptureActive, captureVars, handlerVars,
      controlVars, TypeOK, JfrType
<1>9. ASSUME NEW h \in Handlers, CountOutcome(h)  PROVE InsideInv'
  BY <1>9, Zenon DEF CountOutcome, InsideInv, CaptureActive, captureVars, handlerVars,
      controlVars, TypeOK
<1>10. ASSUME NEW h \in Handlers, LeaveHandler(h)  PROVE InsideInv'
  BY <1>10, Zenon DEF LeaveHandler, InsideInv, CaptureActive, captureVars, handlerVars,
      controlVars, TypeOK, PCs
<1>11. CASE ReserveFails
  BY <1>11, Zenon DEF ReserveFails, InsideInv, CaptureActive, captureVars, handlerVars,
      controlVars
<1>12. ASSUME NEW s \in Sessions, ReserveCookieCapture(s)  PROVE InsideInv'
  BY <1>12, Zenon DEF ReserveCookieCapture, InsideInv, CaptureActive, captureVars,
      handlerVars, controlVars
<1>13. CASE InstallTraps
  BY <1>13, Zenon DEF InstallTraps, InsideInv, CaptureActive, captureVars, handlerVars,
      controlVars
<1>14. CASE JfrStart
  BY <1>14, Zenon DEF JfrStart, InsideInv, CaptureActive, captureVars, handlerVars, controlVars
<1>15. CASE EnginesFail
  BY <1>15, Zenon DEF EnginesFail, InsideInv, CaptureActive, captureVars, handlerVars,
      controlVars
<1>16. CASE EnginesStart
  BY <1>16, Zenon DEF EnginesStart, InsideInv, CaptureActive, captureVars, handlerVars,
      controlVars
<1>17. CASE PublishCookieCapture
  BY <1>17, Zenon DEF PublishCookieCapture, InsideInv, CaptureActive, captureVars,
      handlerVars, controlVars
<1>18. CASE AbortClose
  BY <1>18, Zenon DEF AbortClose, InsideInv, CaptureActive, captureVars, handlerVars,
      controlVars
<1>19. CASE AbortDrained
  BY <1>19, Zenon DEF AbortDrained, InsideInv, CaptureActive, captureVars, handlerVars,
      controlVars
<1>20. CASE StopClose
  BY <1>20, Zenon DEF StopClose, InsideInv, CaptureActive, captureVars, handlerVars,
      controlVars
<1>21. CASE StopDrained
  <2>1. \A h \in Handlers : pc[h] \notin InsidePCs
    BY <1>21, CountZero, ZenonT(120) DEF StopDrained, GateInv
  <2>2. \A h \in Handlers : pc[h] = "out"
    BY <2>1, Zenon DEF TypeOK, InsidePCs
  <2> QED  BY <1>21, <2>2, Zenon DEF StopDrained, InsideInv, handlerVars
<1>22. ASSUME NEW f \in BOOLEAN, JfrStop(f)  PROVE InsideInv'
  BY <1>22, Zenon DEF JfrStop, InsideInv, CaptureActive, captureVars, handlerVars, controlVars
<1>23. CASE BeginStart
  BY <1>23, Zenon DEF BeginStart, InsideInv, CaptureActive, captureVars, handlerVars,
      controlVars
<1>24. ASSUME NEW id \in Sessions, NEW e \in 0..MaxEpoch, GuardedStop(id, e)  PROVE InsideInv'
  BY <1>24, Zenon DEF GuardedStop, InsideInv, CaptureActive, captureVars, handlerVars,
      controlVars, BeginStop
<1>25. CASE PlainStop
  BY <1>25, Zenon DEF PlainStop, InsideInv, CaptureActive, captureVars, handlerVars,
      controlVars, BeginStop
<1>26. CASE InternalStop
  BY <1>26 DEF InternalStop, InsideInv, CaptureActive, captureVars, handlerVars,
      controlVars, BeginStop
<1>27. CASE Terminate
  BY <1>27, Zenon DEF Terminate, InsideInv, CaptureActive, captureVars, handlerVars,
      controlVars
<1>28. CASE UNCHANGED vars
  BY <1>28, SMTT(30) DEF InsideInv, CaptureActive, vars, captureVars, handlerVars, controlVars
<1> QED
  BY <1>1, <1>2, <1>3, <1>4, <1>5, <1>6, <1>7, <1>8, <1>9, <1>10, <1>11, <1>12, <1>13,
      <1>14, <1>15, <1>16, <1>17, <1>18, <1>19, <1>20, <1>21, <1>22, <1>23, <1>24,
      <1>25, <1>26, <1>27, <1>28, SMTT(30)
  DEF Next, HandlerStep, ControlStep, Command

(* Counting one event keeps the balance when the handler moves as the      *)
(* counter says: an admitted one starts to be classified, an accepted one  *)
(* goes on to record, any other is done.                                   *)
LEMMA BumpBalance ==
    ASSUME cnt \in StatsType, BalanceInv, UNCHANGED <<stopped, terminal>>,
           NEW c \in Counters, Bump(c),
           Count(pc', ClassifyPCs) = Count(pc, ClassifyPCs)
               + (IF c = "admitted" THEN 1 ELSE IF c \in {"failures", "submitted"} THEN 0 ELSE -1),
           Count(pc', RecordPCs) = Count(pc, RecordPCs)
               + (IF c = "accepted" THEN 1 ELSE IF c \in {"failures", "submitted"} THEN -1 ELSE 0)
    PROVE  BalanceInv'
<1>1. \A d \in Counters : cnt[d] \in Nat /\ cnt'[d] = IF d = c THEN cnt[d] + 1 ELSE cnt[d]
  BY Zenon DEF StatsType, Bump
<1>2. Count(pc, ClassifyPCs) \in Nat /\ Count(pc, RecordPCs) \in Nat
  BY CountNat, Zenon
<1>3. Balanced(stopped)' /\ Balanced(terminal.stats)'
  BY Zenon DEF BalanceInv, Balanced
<1>4. /\ cnt["admitted"] = cnt["invalidCode"] + cnt["zeroCookie"] + cnt["zeroSequence"]
                           + cnt["staleEpoch"] + cnt["accepted"] + Count(pc, ClassifyPCs)
      /\ cnt["accepted"] = cnt["failures"] + cnt["submitted"] + Count(pc, RecordPCs)
  BY Zenon DEF BalanceInv
<1>5. /\ cnt'["admitted"] = cnt'["invalidCode"] + cnt'["zeroCookie"] + cnt'["zeroSequence"]
                            + cnt'["staleEpoch"] + cnt'["accepted"] + Count(pc', ClassifyPCs)
      /\ cnt'["accepted"] = cnt'["failures"] + cnt'["submitted"] + Count(pc', RecordPCs)
  <2>1. /\ cnt["admitted"] \in Nat /\ cnt'["admitted"] = IF c = "admitted" THEN cnt["admitted"] + 1 ELSE cnt["admitted"]
        /\ cnt["invalidCode"] \in Nat /\ cnt'["invalidCode"] = IF c = "invalidCode" THEN cnt["invalidCode"] + 1 ELSE cnt["invalidCode"]
        /\ cnt["zeroCookie"] \in Nat /\ cnt'["zeroCookie"] = IF c = "zeroCookie" THEN cnt["zeroCookie"] + 1 ELSE cnt["zeroCookie"]
        /\ cnt["zeroSequence"] \in Nat /\ cnt'["zeroSequence"] = IF c = "zeroSequence" THEN cnt["zeroSequence"] + 1 ELSE cnt["zeroSequence"]
        /\ cnt["staleEpoch"] \in Nat /\ cnt'["staleEpoch"] = IF c = "staleEpoch" THEN cnt["staleEpoch"] + 1 ELSE cnt["staleEpoch"]
        /\ cnt["accepted"] \in Nat /\ cnt'["accepted"] = IF c = "accepted" THEN cnt["accepted"] + 1 ELSE cnt["accepted"]
        /\ cnt["failures"] \in Nat /\ cnt'["failures"] = IF c = "failures" THEN cnt["failures"] + 1 ELSE cnt["failures"]
        /\ cnt["submitted"] \in Nat /\ cnt'["submitted"] = IF c = "submitted" THEN cnt["submitted"] + 1 ELSE cnt["submitted"]
    BY <1>1, Zenon DEF Counters
  <2>2. \/ c = "admitted" \/ c = "accepted"
        \/ c \in {"failures", "submitted"}
        \/ c \in {"invalidCode", "zeroCookie", "zeroSequence", "staleEpoch"}
    BY Zenon DEF Counters
  <2>3. CASE c = "admitted"  BY <1>2, <1>4, <2>1, <2>3
  <2>4. CASE c = "accepted"
    <3>1. Count(pc', ClassifyPCs) = Count(pc, ClassifyPCs) - 1  BY <1>2, <2>4, Zenon
    <3>2. Count(pc', RecordPCs) = Count(pc, RecordPCs) + 1  BY <2>4, Zenon
    <3>3. /\ cnt'["accepted"] = cnt["accepted"] + 1
          /\ \A d \in Counters \ {"accepted"} : cnt'[d] = cnt[d]
      BY <1>1, <2>4, Zenon DEF Counters
    <3>4. cnt["accepted"] + 1 = cnt["failures"] + cnt["submitted"] + (Count(pc, RecordPCs) + 1)
      BY <1>2, <1>4, <2>1
    <3>5. cnt["admitted"] = cnt["invalidCode"] + cnt["zeroCookie"] + cnt["zeroSequence"]
             + cnt["staleEpoch"] + (cnt["accepted"] + 1) + (Count(pc, ClassifyPCs) - 1)
      BY <1>2, <1>4, <2>1
    <3> QED  BY <3>1, <3>2, <3>3, <3>4, <3>5, Zenon DEF Counters
  <2>5. CASE c \in {"failures", "submitted"}  BY <1>2, <1>4, <2>1, <2>5
  <2>6. CASE c \in {"invalidCode", "zeroCookie", "zeroSequence", "staleEpoch"}
    BY <1>2, <1>4, <2>1, <2>6
  <2> QED  BY <2>2, <2>3, <2>4, <2>5, <2>6, Zenon
<1> QED  BY <1>3, <1>5, Zenon DEF BalanceInv

(* Every step keeps the balance of the counters.                           *)
LEMMA BalanceStep ==
    ASSUME TypeOK, GateInv, InsideInv, BalanceInv, [Next]_vars
    PROVE  BalanceInv'
<1>1. ASSUME NEW h \in Handlers, EnterHandler(h)  PROVE BalanceInv'
  <2>1. pc \in [Handlers -> PCs] /\ pc' = [pc EXCEPT ![h] = "admitted"] /\ "admitted" \in PCs
    BY <1>1, Zenon DEF EnterHandler, TypeOK, PCs
  <2>2. (pc[h] \in ClassifyPCs <=> "admitted" \in ClassifyPCs)
    BY <1>1, Zenon DEF EnterHandler, ClassifyPCs
  <2>3. (pc[h] \in RecordPCs <=> "admitted" \in RecordPCs)
    BY <1>1, Zenon DEF EnterHandler, RecordPCs
  <2>4. Count(pc', ClassifyPCs) = Count(pc, ClassifyPCs)
    BY <2>1, <2>2, CountStay, Zenon
  <2>5. Count(pc', RecordPCs) = Count(pc, RecordPCs)
    BY <2>1, <2>3, CountStay, ZenonT(120)
  <2> QED  BY <1>1, <2>4, <2>5, Zenon DEF EnterHandler, BalanceInv, captureVars
<1>2. ASSUME NEW h \in Handlers, CountAdmitted(h)  PROVE BalanceInv'
  <2>1. pc \in [Handlers -> PCs] /\ pc' = [pc EXCEPT ![h] = "check"] /\ "check" \in PCs
    BY <1>2, Zenon DEF CountAdmitted, TypeOK, PCs
  <2>2. pc[h] \notin ClassifyPCs /\ "check" \in ClassifyPCs
    BY <1>2, Zenon DEF CountAdmitted, ClassifyPCs
  <2>3. (pc[h] \in RecordPCs <=> "check" \in RecordPCs)
    BY <1>2, Zenon DEF CountAdmitted, RecordPCs
  <2>4. Count(pc', ClassifyPCs) = Count(pc, ClassifyPCs) + 1
    BY <2>1, <2>2, CountEnter, ZenonT(120)
  <2>5. Count(pc', RecordPCs) = Count(pc, RecordPCs)
    BY <2>1, <2>3, CountStay, Zenon
  <2>6. Bump("admitted") /\ "admitted" \in Counters /\ UNCHANGED <<stopped, terminal>>
    BY <1>2, Zenon DEF CountAdmitted, Counters
  <2> QED  BY <2>4, <2>5, <2>6, CountNat, BumpBalance DEF TypeOK
<1>3. ASSUME NEW h \in Handlers, RejectSignal(h)  PROVE BalanceInv'
  <2>1. pc \in [Handlers -> PCs] /\ pc' = [pc EXCEPT ![h] = "leaving"] /\ "leaving" \in PCs
    BY <1>3, SMTT(30) DEF RejectSignal, TypeOK, PCs
  <2>2. pc[h] \in ClassifyPCs /\ "leaving" \notin ClassifyPCs
    BY <1>3, Zenon DEF RejectSignal, ClassifyPCs
  <2>3. (pc[h] \in RecordPCs <=> "leaving" \in RecordPCs)
    BY <1>3, Zenon DEF RejectSignal, RecordPCs
  <2>4. Count(pc', ClassifyPCs) = Count(pc, ClassifyPCs) - 1
    BY <2>1, <2>2, CountLeave, ZenonT(120)
  <2>5. Count(pc', RecordPCs) = Count(pc, RecordPCs)
    BY <2>1, <2>3, CountStay, Zenon
  <2>6. Bump(Rejection(sig[h])) /\ Rejection(sig[h]) \in Counters /\ UNCHANGED <<stopped, terminal>>
    BY <1>3, Zenon DEF RejectSignal, Counters, Rejection
  <2> QED  BY <2>4, <2>5, <2>6, CountNat, BumpBalance DEF TypeOK, Rejection
<1>4. ASSUME NEW h \in Handlers, ReadEpoch(h)  PROVE BalanceInv'
  <2>1. pc \in [Handlers -> PCs] /\ pc' = [pc EXCEPT ![h] = "compare"] /\ "compare" \in PCs
    BY <1>4, Zenon DEF ReadEpoch, TypeOK, PCs
  <2>2. (pc[h] \in ClassifyPCs <=> "compare" \in ClassifyPCs)
    BY <1>4, Zenon DEF ReadEpoch, ClassifyPCs
  <2>3. (pc[h] \in RecordPCs <=> "compare" \in RecordPCs)
    BY <1>4, Zenon DEF ReadEpoch, RecordPCs
  <2>4. Count(pc', ClassifyPCs) = Count(pc, ClassifyPCs)
    BY <2>1, <2>2, CountStay, Zenon
  <2>5. Count(pc', RecordPCs) = Count(pc, RecordPCs)
    BY <2>1, <2>3, CountStay, Zenon
  <2> QED  BY <1>4, <2>4, <2>5, Zenon DEF ReadEpoch, BalanceInv, captureVars
<1>5. ASSUME NEW h \in Handlers, RejectStale(h)  PROVE BalanceInv'
  <2>1. pc \in [Handlers -> PCs] /\ pc' = [pc EXCEPT ![h] = "leaving"] /\ "leaving" \in PCs
    BY <1>5, Zenon DEF RejectStale, TypeOK, PCs
  <2>2. pc[h] \in ClassifyPCs /\ "leaving" \notin ClassifyPCs
    BY <1>5, Zenon DEF RejectStale, ClassifyPCs
  <2>3. (pc[h] \in RecordPCs <=> "leaving" \in RecordPCs)
    BY <1>5, SMTT(30) DEF RejectStale, RecordPCs
  <2>4. Count(pc', ClassifyPCs) = Count(pc, ClassifyPCs) - 1
    BY <2>1, <2>2, CountLeave, ZenonT(120)
  <2>5. Count(pc', RecordPCs) = Count(pc, RecordPCs)
    BY <2>1, <2>3, CountStay, Zenon
  <2>6. Bump("staleEpoch") /\ "staleEpoch" \in Counters /\ UNCHANGED <<stopped, terminal>>
    BY <1>5, Zenon DEF RejectStale, Counters
  <2> QED  BY <2>4, <2>5, <2>6, CountNat, BumpBalance DEF TypeOK
<1>6. ASSUME NEW h \in Handlers, AcceptCookie(h)  PROVE BalanceInv'
  <2>1. pc \in [Handlers -> PCs] /\ pc' = [pc EXCEPT ![h] = "record"] /\ "record" \in PCs
    BY <1>6, Zenon DEF AcceptCookie, TypeOK, PCs
  <2>2. pc[h] \in ClassifyPCs /\ "record" \notin ClassifyPCs
    BY <1>6, Zenon DEF AcceptCookie, ClassifyPCs
  <2>3. pc[h] \notin RecordPCs /\ "record" \in RecordPCs
    BY <1>6, Zenon DEF AcceptCookie, RecordPCs
  <2>4. Count(pc', ClassifyPCs) = Count(pc, ClassifyPCs) - 1
    BY <2>1, <2>2, CountLeave, ZenonT(120)
  <2>5. Count(pc', RecordPCs) = Count(pc, RecordPCs) + 1
    BY <2>1, <2>3, CountEnter, Zenon
  <2>6. Bump("accepted") /\ "accepted" \in Counters /\ UNCHANGED <<stopped, terminal>>
    BY <1>6, Zenon DEF AcceptCookie, Counters
  <2> QED  BY <2>4, <2>5, <2>6, CountNat, BumpBalance, Zenon DEF TypeOK
<1>7. ASSUME NEW h \in Handlers, RecordFails(h)  PROVE BalanceInv'
  <2>1. pc \in [Handlers -> PCs] /\ pc' = [pc EXCEPT ![h] = "failed"] /\ "failed" \in PCs
    BY <1>7, Zenon DEF RecordFails, TypeOK, PCs
  <2>2. (pc[h] \in ClassifyPCs <=> "failed" \in ClassifyPCs)
    BY <1>7, Zenon DEF RecordFails, ClassifyPCs
  <2>3. (pc[h] \in RecordPCs <=> "failed" \in RecordPCs)
    BY <1>7, Zenon DEF RecordFails, RecordPCs
  <2>4. Count(pc', ClassifyPCs) = Count(pc, ClassifyPCs)
    BY <2>1, <2>2, CountStay, Zenon
  <2>5. Count(pc', RecordPCs) = Count(pc, RecordPCs)
    BY <2>1, <2>3, CountStay, Zenon
  <2> QED  BY <1>7, <2>4, <2>5, Zenon DEF RecordFails, BalanceInv, captureVars
<1>8. ASSUME NEW h \in Handlers, RecordSample(h)  PROVE BalanceInv'
  <2>1. pc \in [Handlers -> PCs] /\ pc' = [pc EXCEPT ![h] = "recorded"] /\ "recorded" \in PCs
    BY <1>8, Zenon DEF RecordSample, TypeOK, PCs
  <2>2. (pc[h] \in ClassifyPCs <=> "recorded" \in ClassifyPCs)
    BY <1>8, Zenon DEF RecordSample, ClassifyPCs
  <2>3. (pc[h] \in RecordPCs <=> "recorded" \in RecordPCs)
    BY <1>8, Zenon DEF RecordSample, RecordPCs
  <2>4. Count(pc', ClassifyPCs) = Count(pc, ClassifyPCs)
    BY <2>1, <2>2, CountStay, Zenon
  <2>5. Count(pc', RecordPCs) = Count(pc, RecordPCs)
    BY <2>1, <2>3, CountStay, Zenon
  <2> QED  BY <1>8, <2>4, <2>5, Zenon DEF RecordSample, BalanceInv, captureVars
<1>9. ASSUME NEW h \in Handlers, CountOutcome(h)  PROVE BalanceInv'
  <2>1. pc \in [Handlers -> PCs] /\ pc' = [pc EXCEPT ![h] = "leaving"] /\ "leaving" \in PCs
    BY <1>9, Zenon DEF CountOutcome, TypeOK, PCs
  <2>2. (pc[h] \in ClassifyPCs <=> "leaving" \in ClassifyPCs)
    BY <1>9, Zenon DEF CountOutcome, ClassifyPCs
  <2>3. pc[h] \in RecordPCs /\ "leaving" \notin RecordPCs
    BY <1>9, SMTT(30) DEF CountOutcome, RecordPCs
  <2>4. Count(pc', ClassifyPCs) = Count(pc, ClassifyPCs)
    BY <2>1, <2>2, CountStay, Zenon
  <2>5. Count(pc', RecordPCs) = Count(pc, RecordPCs) - 1
    BY <2>1, <2>3, CountLeave, ZenonT(120)
  <2>6. PICK c \in {"failures", "submitted"} : Bump(c)
    BY <1>9, Zenon DEF CountOutcome
  <2>7. c \in Counters /\ UNCHANGED <<stopped, terminal>>
    BY <1>9, Zenon DEF CountOutcome, Counters
  <2> QED  BY <2>4, <2>5, <2>6, <2>7, CountNat, BumpBalance DEF TypeOK
<1>10. ASSUME NEW h \in Handlers, LeaveHandler(h)  PROVE BalanceInv'
  <2>1. pc \in [Handlers -> PCs] /\ pc' = [pc EXCEPT ![h] = "out"] /\ "out" \in PCs
    BY <1>10, Zenon DEF LeaveHandler, TypeOK, PCs
  <2>2. (pc[h] \in ClassifyPCs <=> "out" \in ClassifyPCs)
    BY <1>10, Zenon DEF LeaveHandler, ClassifyPCs
  <2>3. (pc[h] \in RecordPCs <=> "out" \in RecordPCs)
    BY <1>10, Zenon DEF LeaveHandler, RecordPCs
  <2>4. Count(pc', ClassifyPCs) = Count(pc, ClassifyPCs)
    BY <2>1, <2>2, CountStay, Zenon
  <2>5. Count(pc', RecordPCs) = Count(pc, RecordPCs)
    BY <2>1, <2>3, CountStay, Zenon
  <2> QED  BY <1>10, <2>4, <2>5, Zenon DEF LeaveHandler, BalanceInv, captureVars
<1>11. CASE ReserveFails
  BY <1>11, Zenon DEF ReserveFails, BalanceInv, captureVars, handlerVars, controlVars
<1>12. ASSUME NEW s \in Sessions, ReserveCookieCapture(s)  PROVE BalanceInv'
  <2>1. \A h \in Handlers : pc[h] = "out"
    BY <1>12, Zenon DEF ReserveCookieCapture, InsideInv
  <2>2. Count(pc, ClassifyPCs) = 0 /\ Count(pc, RecordPCs) = 0
    BY <2>1, CountNone, Zenon DEF ClassifyPCs, RecordPCs
  <2> QED  BY <1>12, <2>2
    DEF ReserveCookieCapture, BalanceInv, Zero, Counters, handlerVars
<1>13. CASE InstallTraps
  BY <1>13, Zenon DEF InstallTraps, BalanceInv, captureVars, handlerVars, controlVars
<1>14. CASE JfrStart
  BY <1>14, Zenon DEF JfrStart, BalanceInv, captureVars, handlerVars, controlVars
<1>15. CASE EnginesFail
  BY <1>15, Zenon DEF EnginesFail, BalanceInv, captureVars, handlerVars, controlVars
<1>16. CASE EnginesStart
  BY <1>16, Zenon DEF EnginesStart, BalanceInv, captureVars, handlerVars, controlVars
<1>17. CASE PublishCookieCapture
  BY <1>17, Zenon DEF PublishCookieCapture, BalanceInv, captureVars, handlerVars, controlVars
<1>18. CASE AbortClose
  BY <1>18, Zenon DEF AbortClose, BalanceInv, captureVars, handlerVars, controlVars
<1>19. CASE AbortDrained
  BY <1>19, Zenon DEF AbortDrained, BalanceInv, captureVars, handlerVars, controlVars
<1>20. CASE StopClose
  BY <1>20, Zenon DEF StopClose, BalanceInv, captureVars, handlerVars, controlVars
<1>21. CASE StopDrained
  <2>1. \A h \in Handlers : pc[h] \notin InsidePCs
    BY <1>21, CountZero, Zenon DEF StopDrained, GateInv
  <2>2. Count(pc, ClassifyPCs) = 0 /\ Count(pc, RecordPCs) = 0
    BY <2>1, CountNone, Zenon DEF InsidePCs, ClassifyPCs, RecordPCs, PCs
  <2>3. Balanced(cnt)
    BY <2>2 DEF BalanceInv, Balanced, TypeOK, StatsType, Counters
  <2> QED  BY <1>21, <2>3, Zenon DEF StopDrained, BalanceInv, handlerVars
<1>22. ASSUME NEW f \in BOOLEAN, JfrStop(f)  PROVE BalanceInv'
  <2>1. terminal'.stats \in {stopped, terminal.stats}
    BY <1>22, Zenon DEF JfrStop
  <2> QED  BY <1>22, <2>1, Zenon DEF JfrStop, BalanceInv, handlerVars
<1>23. CASE BeginStart
  BY <1>23, Zenon DEF BeginStart, BalanceInv, captureVars, handlerVars, controlVars
<1>24. ASSUME NEW id \in Sessions, NEW e \in 0..MaxEpoch, GuardedStop(id, e)  PROVE BalanceInv'
  BY <1>24, Zenon DEF GuardedStop, BeginStop, BalanceInv, captureVars, handlerVars, controlVars
<1>25. CASE PlainStop
  BY <1>25, Zenon DEF PlainStop, BeginStop, BalanceInv, captureVars, handlerVars, controlVars
<1>26. CASE InternalStop
  BY <1>26, Zenon DEF InternalStop, BeginStop, BalanceInv, captureVars, handlerVars,
      controlVars
<1>27. CASE Terminate
  BY <1>27, Zenon DEF Terminate, BalanceInv, captureVars, handlerVars, controlVars
<1>28. CASE UNCHANGED vars
  BY <1>28, Zenon DEF BalanceInv, vars, captureVars, handlerVars, controlVars
<1> QED
  BY <1>1, <1>2, <1>3, <1>4, <1>5, <1>6, <1>7, <1>8, <1>9, <1>10, <1>11, <1>12, <1>13,
      <1>14, <1>15, <1>16, <1>17, <1>18, <1>19, <1>20, <1>21, <1>22, <1>23, <1>24,
      <1>25, <1>26, <1>27, <1>28, SMTT(30)
  DEF Next, HandlerStep, ControlStep, Command

(* A handler leaves the controller's variables alone.                      *)
LEMMA HandlerFrame ==
    ASSUME NEW h \in Handlers, EnterHandler(h) \/ HandlerStep(h)
    PROVE  UNCHANGED <<nextEpoch, capture, stopped, terminal, state, ctl, cookie, request>>
BY Zenon DEF EnterHandler, HandlerStep, CountAdmitted, RejectSignal, ReadEpoch, RejectStale,
    AcceptCookie, RecordFails, RecordSample, CountOutcome, LeaveHandler, captureVars,
    controlVars

(* Every step keeps the order of the epochs, and a stop keeps the identity *)
(* that its lookup matched.                                                *)
LEMMA EpochStep ==
    ASSUME TypeOK, LifeInv, EpochInv, [Next]_vars
    PROVE  EpochInv'
<1> USE EpochBound DEF TypeOK, CaptureType, TerminalType
<1>1. ASSUME NEW h \in Handlers, EnterHandler(h) \/ HandlerStep(h)  PROVE EpochInv'
  BY <1>1, HandlerFrame, Zenon DEF EpochInv, Matches
<1>2. CASE ReserveFails
  BY <1>2 DEF ReserveFails, EpochInv, Matches
<1>3. ASSUME NEW s \in Sessions, ReserveCookieCapture(s)  PROVE EpochInv'
  BY <1>3 DEF ReserveCookieCapture, EpochInv
<1>4. CASE InstallTraps
  BY <1>4, Zenon DEF InstallTraps, EpochInv, captureVars
<1>5. CASE JfrStart
  BY <1>5, Zenon DEF JfrStart, EpochInv, captureVars
<1>6. CASE EnginesFail
  BY <1>6, Zenon DEF EnginesFail, EpochInv, captureVars
<1>7. CASE EnginesStart
  BY <1>7, Zenon DEF EnginesStart, EpochInv, captureVars
<1>8. CASE PublishCookieCapture
  BY <1>8, Zenon DEF PublishCookieCapture, EpochInv, LifeInv
<1>9. CASE AbortClose
  BY <1>9, Zenon DEF AbortClose, EpochInv
<1>10. CASE AbortDrained
  BY <1>10 DEF AbortDrained, EpochInv, NoCapture
<1>11. CASE StopClose
  BY <1>11, Zenon DEF StopClose, EpochInv, Matches
<1>12. CASE StopDrained
  BY <1>12, Zenon DEF StopDrained, EpochInv, Matches
<1>13. ASSUME NEW f \in BOOLEAN, JfrStop(f)  PROVE EpochInv'
  BY <1>13 DEF JfrStop, EpochInv, LifeInv
<1>14. CASE BeginStart
  BY <1>14, Zenon DEF BeginStart, EpochInv, captureVars, LifeInv
<1>15. ASSUME NEW id \in Sessions, NEW e \in 0..MaxEpoch, GuardedStop(id, e)  PROVE EpochInv'
  <2>1. capture.ready /\ Matches(id, e, capture.session, capture.epoch)
    BY <1>15, Zenon DEF GuardedStop, LookupCapture
  <2> QED  BY <1>15, <2>1, Zenon DEF GuardedStop, BeginStop, EpochInv, captureVars, Matches
<1>16. CASE PlainStop
  BY <1>16, Zenon DEF PlainStop, BeginStop, EpochInv, captureVars
<1>17. CASE InternalStop
  BY <1>17 DEF InternalStop, BeginStop, EpochInv, captureVars, LifeInv, CaptureActive
<1>18. CASE Terminate
  BY <1>18, Zenon DEF Terminate, EpochInv, captureVars
<1>19. CASE UNCHANGED vars
  BY <1>19, Zenon DEF vars, captureVars, controlVars, EpochInv, Matches
<1> QED
  BY <1>1, <1>2, <1>3, <1>4, <1>5, <1>6, <1>7, <1>8, <1>9, <1>10, <1>11, <1>12, <1>13,
      <1>14, <1>15, <1>16, <1>17, <1>18, <1>19, SMTT(30) DEF Next, ControlStep, Command

(* Every step keeps the epoch that a handler has compared its cookie with: *)
(* the capture changes only when nobody is inside.                         *)
LEMMA CookieStep ==
    ASSUME TypeOK, GateInv, InsideInv, CookieInv, [Next]_vars
    PROVE  CookieInv'
<1> USE DEF TypeOK, PCs, RecordPCs
<1>1. ASSUME NEW h \in Handlers, EnterHandler(h)  PROVE CookieInv'
  BY <1>1, Zenon DEF EnterHandler, CookieInv
<1>2. ASSUME NEW h \in Handlers, CountAdmitted(h)  PROVE CookieInv'
  BY <1>2, Zenon DEF CountAdmitted, CookieInv
<1>3. ASSUME NEW h \in Handlers, RejectSignal(h)  PROVE CookieInv'
  BY <1>3, Zenon DEF RejectSignal, CookieInv
<1>4. ASSUME NEW h \in Handlers, ReadEpoch(h)  PROVE CookieInv'
  BY <1>4, Zenon DEF ReadEpoch, CookieInv, captureVars
<1>5. ASSUME NEW h \in Handlers, RejectStale(h)  PROVE CookieInv'
  BY <1>5, Zenon DEF RejectStale, CookieInv
<1>6. ASSUME NEW h \in Handlers, AcceptCookie(h)  PROVE CookieInv'
  BY <1>6, Zenon DEF AcceptCookie, CookieInv
<1>7. ASSUME NEW h \in Handlers, RecordFails(h)  PROVE CookieInv'
  BY <1>7, Zenon DEF RecordFails, CookieInv, captureVars
<1>8. ASSUME NEW h \in Handlers, RecordSample(h)  PROVE CookieInv'
  BY <1>8, Zenon DEF RecordSample, CookieInv, captureVars
<1>9. ASSUME NEW h \in Handlers, CountOutcome(h)  PROVE CookieInv'
  BY <1>9, Zenon DEF CountOutcome, CookieInv
<1>10. ASSUME NEW h \in Handlers, LeaveHandler(h)  PROVE CookieInv'
  BY <1>10, Zenon DEF LeaveHandler, CookieInv
<1>11. ASSUME \A h \in Handlers : pc[h] = "out", UNCHANGED handlerVars  PROVE CookieInv'
  BY <1>11, Zenon DEF CookieInv, handlerVars
<1>12. ASSUME UNCHANGED <<capture, handlerVars>>  PROVE CookieInv'
  BY <1>12, Zenon DEF CookieInv, handlerVars
<1>13. CASE ControlStep
  <2>1. ASSUME NEW s \in Sessions, ReserveCookieCapture(s)  PROVE CookieInv'
    BY <2>1, <1>11, Zenon DEF ReserveCookieCapture, InsideInv
  <2>2. CASE PublishCookieCapture
    BY <2>2, <1>11, Zenon DEF PublishCookieCapture, InsideInv
  <2>3. CASE AbortDrained
    BY <2>3, <1>11, Zenon DEF AbortDrained, InsideInv
  <2>4. CASE StopDrained
    <3>1. \A h \in Handlers : pc[h] \notin InsidePCs
      BY <2>4, CountZero, ZenonT(120) DEF StopDrained, GateInv
    <3>2. \A h \in Handlers : pc[h] = "out"
      BY <3>1, Zenon DEF InsidePCs
    <3> QED  BY <2>4, <3>2, <1>11, Zenon DEF StopDrained
  <2>5. ASSUME NEW f \in BOOLEAN, JfrStop(f)  PROVE CookieInv'
    BY <2>5, <1>11, Zenon DEF JfrStop, InsideInv
  <2>6. ASSUME \/ ReserveFails \/ InstallTraps \/ JfrStart \/ EnginesFail \/ EnginesStart
               \/ AbortClose \/ StopClose
        PROVE  CookieInv'
    BY <2>6, <1>12, Zenon DEF ReserveFails, InstallTraps, JfrStart, EnginesFail, EnginesStart,
        AbortClose, StopClose, captureVars
  <2> QED  BY <1>13, <2>1, <2>2, <2>3, <2>4, <2>5, <2>6, SMTT(30) DEF ControlStep
<1>14. CASE Command
  BY <1>14, <1>12, Zenon DEF Command, BeginStart, GuardedStop, PlainStop, InternalStop, Terminate,
      BeginStop, captureVars
<1>15. CASE UNCHANGED vars
  BY <1>15, <1>12, Zenon DEF vars, captureVars
<1> QED
  BY <1>1, <1>2, <1>3, <1>4, <1>5, <1>6, <1>7, <1>8, <1>9, <1>10, <1>13, <1>14, <1>15, Zenon
  DEF Next, HandlerStep

(* The recording of a capture as one more sample of its epoch is written.  *)
LEMMA OnlyBump ==
    ASSUME NEW e \in 0..MaxEpoch, NEW n \in Nat
    PROVE  [Only(e, n) EXCEPT ![e] = @ + 1] = Only(e, n + 1)
BY Zenon DEF Only, NoSamples

(* A recording in which no sample of any epoch was written.                *)
LEMMA OnlyNone ==
    ASSUME NEW e \in 0..MaxEpoch
    PROVE  Only(e, 0) = NoSamples
BY ZenonT(120) DEF Only, NoSamples

(* A recording that loses samples still holds those of its epoch only.     *)
LEMMA OnlyLess ==
    ASSUME NEW e \in 0..MaxEpoch, NEW m, NEW n
    PROVE  [Only(e, m) EXCEPT ![e] = n] = Only(e, n) /\ Only(e, m)[e] = m
BY Zenon DEF Only, NoSamples

(* Every step keeps the samples of the recording in step with the          *)
(* counters: a sample is written before it is counted, and nobody is       *)
(* inside when the counters are read for the receipt.                      *)
LEMMA SamplesStep ==
    ASSUME TypeOK, GateInv, LifeInv, InsideInv, EpochInv, CookieInv, SamplesInv, [Next]_vars
    PROVE  SamplesInv'
<1> DEFINE recorded == Count(pc, {"recorded"})
<1>0. /\ recorded \in Nat /\ cnt["submitted"] \in Nat
      /\ jfr.epoch \in 0..MaxEpoch /\ capture.epoch \in 0..MaxEpoch
      /\ terminal.epoch \in 0..MaxEpoch /\ jfr.samples \in SamplesType
  BY CountNat, Zenon DEF TypeOK, StatsType, Counters, JfrType, CaptureType, TerminalType
<1>1. ASSUME UNCHANGED <<capture, stopped, terminal, ctl, cookie, jfr>>,
             cnt'["submitted"] + Count(pc', {"recorded"}) = cnt["submitted"] + recorded,
             cnt'["submitted"] = cnt["submitted"] \/ ctl \in {"free", "stopClose", "stopDrain"}
      PROVE  SamplesInv'
  BY <1>1, Zenon DEF SamplesInv, ReceiptMatchesRecording, Only
<1>2. ASSUME NEW h \in Handlers, NEW v \in PCs, pc' = [pc EXCEPT ![h] = v],
             pc[h] # "recorded", v # "recorded"
      PROVE  Count(pc', {"recorded"}) = recorded
  BY <1>2, CountStay, ZenonT(120) DEF TypeOK
<1>3. ASSUME NEW h \in Handlers, EnterHandler(h)  PROVE SamplesInv'
  <2>1. Count(pc', {"recorded"}) = recorded
    BY <1>3, <1>2, Zenon DEF EnterHandler, PCs
  <2>2. UNCHANGED <<capture, stopped, terminal, ctl, cookie, jfr, cnt>>
    BY <1>3, Zenon DEF EnterHandler, controlVars
  <2>3. cnt'["submitted"] = cnt["submitted"]
    BY <2>2, Zenon
  <2> HIDE DEF recorded
  <2> QED  BY <2>1, <2>2, <2>3, <1>1, Zenon
<1>4. ASSUME NEW h \in Handlers,
             \/ CountAdmitted(h) \/ RejectSignal(h) \/ ReadEpoch(h) \/ RejectStale(h)
             \/ AcceptCookie(h) \/ RecordFails(h) \/ LeaveHandler(h)
      PROVE  SamplesInv'
  <2>1. PICK v \in {"check", "leaving", "compare", "record", "failed", "out"} :
            pc' = [pc EXCEPT ![h] = v]
    BY <1>4, Zenon DEF CountAdmitted, RejectSignal, ReadEpoch, RejectStale, AcceptCookie, RecordFails,
        LeaveHandler
  <2>2. pc[h] # "recorded"
    BY <1>4, Zenon DEF CountAdmitted, RejectSignal, ReadEpoch, RejectStale, AcceptCookie, RecordFails,
        LeaveHandler
  <2>3. Count(pc', {"recorded"}) = recorded
    BY <2>1, <2>2, <1>2, ZenonT(120) DEF PCs
  <2>4. UNCHANGED <<capture, stopped, terminal, ctl, cookie, jfr>>
    BY <1>4, HandlerFrame, Zenon DEF CountAdmitted, RejectSignal, ReadEpoch, RejectStale, AcceptCookie, RecordFails,
        LeaveHandler, HandlerStep
  <2>5. cnt'["submitted"] = cnt["submitted"]
    BY <1>4, Zenon DEF CountAdmitted, RejectSignal, ReadEpoch, RejectStale, AcceptCookie, RecordFails,
        LeaveHandler, Bump, Rejection, captureVars, TypeOK, StatsType, Counters
  <2> HIDE DEF recorded
  <2> QED  BY <2>3, <2>4, <2>5, <1>1, Zenon
<1>5. ASSUME NEW h \in Handlers, RecordSample(h)  PROVE SamplesInv'
  <2>1. /\ CaptureActive /\ ctl \in {"free", "stopClose", "stopDrain"}
        /\ sig[h].epoch = jfr.epoch
    BY <1>5, Zenon DEF RecordSample, InsideInv, CaptureActive, CookieInv, RecordPCs
  <2>2. Count(pc', {"recorded"}) = recorded + 1
    <3>1. pc \in [Handlers -> PCs] /\ pc' = [pc EXCEPT ![h] = "recorded"] /\ "recorded" \in PCs
      BY <1>5, Zenon DEF RecordSample, TypeOK, PCs
    <3>2. pc[h] \notin {"recorded"}
      BY <1>5, Zenon DEF RecordSample
    <3> QED  BY <3>1, <3>2, CountEnter, ZenonT(120)
  <2>3. jfr' = [jfr EXCEPT !.samples[jfr.epoch] = @ + 1]
    BY <1>5, <2>1, Zenon DEF RecordSample, CaptureActive
  <2>4. jfr'.epoch = jfr.epoch /\ jfr'.samples = [jfr.samples EXCEPT ![jfr.epoch] = @ + 1]
    BY <2>3, Zenon DEF TypeOK, JfrType
  <2>5. jfr.samples = Only(jfr.epoch, cnt["submitted"] + recorded)
    BY <2>1, Zenon DEF SamplesInv, CaptureActive
  <2>6. jfr'.samples = Only(jfr'.epoch, cnt["submitted"] + Count(pc', {"recorded"}))
    <3>1. jfr.epoch \in 0..MaxEpoch /\ cnt["submitted"] + recorded \in Nat  BY <1>0
    <3>2. [Only(jfr.epoch, cnt["submitted"] + recorded) EXCEPT ![jfr.epoch] = @ + 1]
             = Only(jfr.epoch, (cnt["submitted"] + recorded) + 1)
      BY <3>1, OnlyBump, Zenon
    <3>3. (cnt["submitted"] + recorded) + 1 = cnt["submitted"] + (recorded + 1)  BY <1>0
    <3> QED  BY <2>2, <2>4, <2>5, <3>2, <3>3, Zenon
  <2>7. terminal.epoch < jfr.epoch
    BY <2>1, Zenon DEF CaptureActive, EpochInv
  <2> QED  BY <1>5, <1>0, <2>1, <2>4, <2>6, <2>7
    DEF RecordSample, SamplesInv, ReceiptMatchesRecording, captureVars, controlVars
<1>6. ASSUME NEW h \in Handlers, CountOutcome(h)  PROVE SamplesInv'
  <2>1. CaptureActive /\ ctl \in {"free", "stopClose", "stopDrain"}
    BY <1>6, Zenon DEF CountOutcome, InsideInv
  <2>2. UNCHANGED <<capture, stopped, terminal, ctl, cookie, jfr>>
    BY <1>6, HandlerFrame, Zenon DEF CountOutcome, HandlerStep
  <2>3. CASE pc[h] = "failed"
    <3>1. Count(pc', {"recorded"}) = recorded
      BY <1>6, <2>3, <1>2, ZenonT(120) DEF CountOutcome, PCs
    <3>2. cnt'["submitted"] = cnt["submitted"]
      BY <1>6, <2>3, Zenon DEF CountOutcome, Bump, TypeOK, StatsType, Counters
    <3> HIDE DEF recorded
    <3> QED  BY <2>2, <3>1, <3>2, <1>1, Zenon
  <2>4. CASE pc[h] = "recorded"
    <3>1. Count(pc', {"recorded"}) = recorded - 1
      <4>1. pc \in [Handlers -> PCs] /\ pc' = [pc EXCEPT ![h] = "leaving"] /\ "leaving" \in PCs
        BY <1>6, Zenon DEF CountOutcome, TypeOK, PCs
      <4> QED  BY <2>4, <4>1, CountLeave, ZenonT(120)
    <3>2. cnt'["submitted"] = cnt["submitted"] + 1
      BY <1>6, <2>4, Zenon DEF CountOutcome, Bump, TypeOK, StatsType, Counters
    <3>3. cnt'["submitted"] + Count(pc', {"recorded"}) = cnt["submitted"] + recorded
      BY <3>1, <3>2, <1>0
    <3> HIDE DEF recorded
    <3> QED  BY <2>1, <2>2, <3>3, <1>1, Zenon
  <2> QED  BY <1>6, <2>3, <2>4, Zenon DEF CountOutcome
<1>7. ASSUME \A h \in Handlers : pc[h] = "out"  PROVE recorded = 0
  BY <1>7, CountNone, Zenon
<1>8. CASE ReserveFails
  BY <1>8, Zenon DEF ReserveFails, SamplesInv, LifeInv, ReceiptMatchesRecording
<1>9. ASSUME NEW s \in Sessions, ReserveCookieCapture(s)  PROVE SamplesInv'
  BY <1>9, SMTT(30) DEF ReserveCookieCapture, SamplesInv, ReceiptMatchesRecording, Zero, Counters
<1>10. CASE InstallTraps
  BY <1>10, Zenon DEF InstallTraps, SamplesInv, LifeInv, ReceiptMatchesRecording, captureVars
<1>11. CASE JfrStart
  <2>1. recorded = 0
    BY <1>11, <1>7, SMTT(30) DEF JfrStart, InsideInv
  <2>2. CASE jfr' = [open |-> TRUE, epoch |-> IF cookie THEN capture.epoch ELSE 0, samples |-> NoSamples]
             /\ ctl' = "engines"
    <3>1. jfr'.samples = NoSamples /\ jfr'.epoch = IF cookie THEN capture.epoch ELSE 0
      BY <2>2, Zenon
    <3>2. UNCHANGED <<capture, cnt, stopped, terminal, pc, cookie>> /\ ctl = "jfr"
      BY <1>11, Zenon DEF JfrStart, captureVars, handlerVars
    <3>3. terminal.valid => terminal.epoch # jfr'.epoch
      BY <3>1, <3>2, <1>0 DEF EpochInv
    <3>4. cookie => cnt["submitted"] = 0 /\ jfr'.samples = Only(jfr'.epoch, 0)
      BY <3>1, <3>2, <1>0, OnlyNone, SMTT(30) DEF SamplesInv
    <3> QED  BY <2>1, <2>2, <3>2, <3>3, <3>4 DEF SamplesInv, ReceiptMatchesRecording, Only
  <2>3. CASE UNCHANGED jfr /\ (~cookie \/ ctl' \in {"abortClose", "free"})
    BY <1>11, <2>3, Zenon DEF JfrStart, SamplesInv, LifeInv, ReceiptMatchesRecording, captureVars, handlerVars
  <2> QED  BY <1>11, <2>2, <2>3, Zenon DEF JfrStart
<1>12. CASE EnginesFail
  <2>1. jfr'.samples = jfr.samples /\ jfr'.epoch = jfr.epoch
    BY <1>12, SMTT(30) DEF EnginesFail, TypeOK, JfrType
  <2> QED  BY <1>12, <2>1, Zenon DEF EnginesFail, SamplesInv, LifeInv, ReceiptMatchesRecording, captureVars
<1>13. CASE EnginesStart
  BY <1>13, Zenon DEF EnginesStart, SamplesInv, LifeInv, ReceiptMatchesRecording, captureVars, handlerVars, Only
<1>14. CASE PublishCookieCapture
  BY <1>14, Zenon DEF PublishCookieCapture, SamplesInv, LifeInv, ReceiptMatchesRecording, handlerVars, Only
<1>15. CASE AbortClose
  BY <1>15, SMTT(30) DEF AbortClose, SamplesInv, LifeInv, ReceiptMatchesRecording
<1>16. CASE AbortDrained
  BY <1>16, Zenon DEF AbortDrained, SamplesInv, NoCapture, ReceiptMatchesRecording
<1>17. CASE StopClose
  BY <1>17, Zenon DEF StopClose, SamplesInv, LifeInv, CaptureActive, ReceiptMatchesRecording, handlerVars, Only
<1>18. CASE StopDrained
  <2>1. \A h \in Handlers : pc[h] \notin InsidePCs
    BY <1>18, CountZero, Zenon DEF StopDrained, GateInv
  <2>2. recorded = 0
    BY <2>1, <1>7, Zenon DEF InsidePCs, TypeOK
  <2>3. CaptureActive /\ jfr.samples = Only(jfr.epoch, cnt["submitted"])
    BY <1>18, <2>2, <1>0 DEF StopDrained, LifeInv, CaptureActive, SamplesInv
  <2>4. capture'.epoch = capture.epoch /\ ~capture'.ready
    BY <1>18, Zenon DEF StopDrained, TypeOK, CaptureType
  <2> QED  BY <1>18, <2>3, <2>4, Zenon DEF StopDrained, SamplesInv, CaptureActive, ReceiptMatchesRecording, Only
<1>19. ASSUME NEW f \in BOOLEAN, JfrStop(f)  PROVE SamplesInv'
  <2>1. PICK kept \in Survivors(f) : jfr' = [open |-> FALSE, epoch |-> jfr.epoch, samples |-> kept]
    BY <1>19, Zenon DEF JfrStop
  <2>2. jfr'.samples = kept /\ jfr'.epoch = jfr.epoch
    BY <2>1, Zenon DEF TypeOK, JfrType
  <2>3. ~capture'.ready /\ ctl' = "free"
    BY <1>19, Zenon DEF JfrStop, LifeInv
  <2>4. ReceiptMatchesRecording'
    <3>1. CASE cookie
      <4>1. terminal'.epoch = capture.epoch /\ terminal'.stats = stopped /\ terminal'.finalized = f
        BY <1>19, <3>1, Zenon DEF JfrStop
      <4>2. jfr.epoch = capture.epoch /\ jfr.samples = Only(capture.epoch, stopped["submitted"])
        BY <1>19, <3>1, Zenon DEF JfrStop, SamplesInv
      <4>3. stopped["submitted"] \in Nat
        BY Zenon DEF TypeOK, StatsType, Counters
      <4>4. \E n \in 0..stopped["submitted"] :
               kept = Only(capture.epoch, n) /\ (f => n = stopped["submitted"])
        <5>1. CASE f
          <6>1. stopped["submitted"] \in 0..stopped["submitted"]  BY <4>3
          <6> QED  BY <5>1, <6>1, <4>2, Zenon DEF Survivors
        <5>2. CASE ~f
          <6>1. PICK n \in 0..jfr.samples[jfr.epoch] : kept = [jfr.samples EXCEPT ![jfr.epoch] = n]
            BY <5>2, <3>1, Zenon DEF Survivors
          <6>2. capture.epoch \in 0..MaxEpoch  BY <1>0, Zenon
          <6>3. /\ [Only(capture.epoch, stopped["submitted"]) EXCEPT ![capture.epoch] = n] = Only(capture.epoch, n)
                /\ Only(capture.epoch, stopped["submitted"])[capture.epoch] = stopped["submitted"]
            BY <6>2, OnlyLess, Zenon
          <6>4. kept = Only(capture.epoch, n) /\ n \in 0..stopped["submitted"]
            BY <6>1, <6>3, <4>2, Zenon
          <6> QED  BY <5>2, <6>4, Zenon
        <5> QED  BY <5>1, <5>2, Zenon
      <4> QED  BY <2>2, <4>1, <4>4, Zenon DEF ReceiptMatchesRecording, Only
    <3>2. CASE ~cookie
      <4>1. terminal' = terminal /\ kept = jfr.samples
        BY <1>19, <3>2, Zenon DEF JfrStop, Survivors
      <4> QED  BY <2>2, <4>1, Zenon DEF SamplesInv, ReceiptMatchesRecording
    <3> QED  BY <3>1, <3>2, Zenon
  <2> QED  BY <2>3, <2>4, Zenon DEF SamplesInv
<1>20. CASE BeginStart
  BY <1>20, SMTT(30) DEF BeginStart, SamplesInv, LifeInv, CaptureActive, ReceiptMatchesRecording, captureVars
<1>21. CASE (\E id \in Sessions, e \in 0..MaxEpoch : GuardedStop(id, e)) \/ PlainStop \/ InternalStop
  <2>1. /\ UNCHANGED <<capture, cnt, stopped, terminal, pc, cookie, jfr>>
        /\ ctl = "free" /\ ctl' = IF cookie THEN "stopClose" ELSE "stopJfr"
    BY <1>21, SMTT(30) DEF GuardedStop, PlainStop, InternalStop, BeginStop, captureVars, handlerVars
  <2> QED  BY <2>1, SMTT(30) DEF SamplesInv, ReceiptMatchesRecording, Only
<1>22. CASE Terminate
  BY <1>22, ZenonT(120) DEF Terminate, SamplesInv, ReceiptMatchesRecording, captureVars, handlerVars, Only
<1>23. CASE UNCHANGED vars
  BY <1>23, Zenon DEF vars, captureVars, handlerVars, controlVars, SamplesInv, ReceiptMatchesRecording, Only
<1> QED
  BY <1>3, <1>4, <1>5, <1>6, <1>8, <1>9, <1>10, <1>11, <1>12, <1>13, <1>14, <1>15, <1>16,
      <1>17, <1>18, <1>19, <1>20, <1>21, <1>22, <1>23
  DEF Next, HandlerStep, ControlStep, Command

-----------------------------------------------------------------------------
(* Main theorems.                                                          *)

(* The initial state satisfies the inductive invariant.                    *)
LEMMA InitIInv == Init => IInv
<1> SUFFICES ASSUME Init PROVE IInv
  BY Zenon
<1>1. TypeOK
  <2>1. Zero \in StatsType  BY Zenon DEF Zero, StatsType
  <2>2. gate \in GateType /\ capture \in CaptureType /\ request \in RequestType
    BY EpochBound DEF Init, GateType, CaptureType, NoCapture, RequestType, NoRequest,
        Ids
  <2>3. terminal \in TerminalType
    BY <2>1, EpochBound DEF Init, TerminalType, NoTerminal, Ids
  <2>4. NoSamples \in SamplesType  BY Zenon DEF NoSamples, SamplesType
  <2>5. jfr \in JfrType
    BY <2>4, EpochBound DEF Init, JfrType
  <2>6. pc \in [Handlers -> PCs] /\ sig \in [Handlers -> Signals \cup {NoSignal}]
        /\ seen \in [Handlers -> 0..MaxEpoch]
    BY EpochBound DEF Init, PCs
  <2>7. nextEpoch \in 0..MaxEpoch /\ cnt \in StatsType /\ stopped \in StatsType
    BY <2>1, EpochBound DEF Init
  <2>8. state \in States /\ ctl \in Ctls /\ cookie \in BOOLEAN
    BY ZenonT(120) DEF Init, States, Ctls
  <2> QED  BY <2>2, <2>3, <2>5, <2>6, <2>7, <2>8, Zenon DEF TypeOK
<1>2. \A h \in Handlers : pc[h] = "out"
  BY Zenon DEF Init
<1>3. /\ Count(pc, InsidePCs) = 0 /\ Count(pc, ClassifyPCs) = 0
      /\ Count(pc, RecordPCs) = 0
  BY <1>2, CountNone, Zenon DEF InsidePCs, ClassifyPCs, RecordPCs
<1>4. GateInv /\ LifeInv /\ InsideInv
  BY <1>2, <1>3, Zenon DEF Init, GateInv, LifeInv, InsideInv, CaptureActive, NoCapture
<1>5. BalanceInv
  BY <1>3, SMTT(30) DEF Init, BalanceInv, Balanced, Zero, Counters, NoTerminal
<1>6. EpochInv /\ CookieInv /\ SamplesInv
  BY <1>2, EpochBound DEF Init, EpochInv, CookieInv, SamplesInv, ReceiptMatchesRecording, NoCapture, NoTerminal, NoRequest,
      RecordPCs
<1> QED  BY <1>1, <1>4, <1>5, <1>6, Zenon DEF IInv

(* Every step preserves the inductive invariant.                           *)
LEMMA StepIInv == IInv /\ [Next]_vars => IInv'
BY TypeStep, GateStep, LifeStep, InsideStep, BalanceStep, EpochStep, CookieStep, SamplesStep, Zenon DEF IInv

(* The inductive invariant holds in every reachable state.                 *)
THEOREM Inductive == Spec => []IInv
BY InitIInv, StepIInv, PTL DEF Spec

(* Every reachable state is well typed.                                    *)
THEOREM TypeCorrect == Spec => []TypeOK
<1>1. IInv => TypeOK  BY SMTT(30) DEF IInv
<1> QED  BY <1>1, Inductive, PTL

(* However many handlers race with starts and stops, one is inside only    *)
(* while a published capture is running with its recording open.           *)
THEOREM GateCorrect == Spec => []HandlersOnlyInOpenCapture
<1>1. IInv => HandlersOnlyInOpenCapture
  BY ZenonT(120) DEF IInv, InsideInv, CaptureActive, HandlersOnlyInOpenCapture, Inside
<1> QED  BY <1>1, Inductive, PTL

(* Every receipt accounts for every admitted signal.                       *)
THEOREM ReceiptsBalance == Spec => []ReceiptBalanced
<1>1. IInv => ReceiptBalanced
  BY SMTT(30) DEF IInv, BalanceInv, Balanced, ReceiptBalanced
<1> QED  BY <1>1, Inductive, PTL

(* Between commands readiness, the gate and the profiler state agree.      *)
THEOREM ReadyAgrees == Spec => []ReadyIffRunning
<1>1. IInv => ReadyIffRunning
  BY SMTT(30) DEF IInv, LifeInv, CaptureActive, ReadyIffRunning, TypeOK, CaptureType, GateType
<1> QED  BY <1>1, Inductive, PTL

(* The recording of a finished capture holds only samples that its receipt *)
(* reports as submitted, and all of them if it was finalized, whatever the *)
(* handlers were doing when the stop came.                                 *)
THEOREM ReceiptMatches == Spec => []ReceiptMatchesRecording
<1>1. IInv => ReceiptMatchesRecording
  BY Zenon DEF IInv, SamplesInv
<1> QED  BY <1>1, Inductive, PTL

(* Only the stop of a capture writes a receipt, that of its own identity,  *)
(* and never an older one; a guarded stop ends only what it asked for.     *)
THEOREM ReceiptIdentity == Spec => ReceiptOnlyFromOwnCapture
<1>1. IInv /\ [Next]_vars =>
        [terminal' # terminal =>
          /\ terminal'.epoch > terminal.epoch
          /\ terminal'.epoch = capture.epoch /\ terminal'.session = capture.session
          /\ request.reason = "guarded-stop" =>
                Matches(request.session, request.epoch, terminal'.session, terminal'.epoch)]_vars
  <2> SUFFICES ASSUME IInv, Next, terminal' # terminal
               PROVE  /\ terminal'.epoch > terminal.epoch
                      /\ terminal'.epoch = capture.epoch /\ terminal'.session = capture.session
                      /\ request.reason = "guarded-stop" =>
                            Matches(request.session, request.epoch, terminal'.session, terminal'.epoch)
    BY Zenon
  <2>1. PICK f \in BOOLEAN : JfrStop(f)
    <3>1. ASSUME NEW h \in Handlers, EnterHandler(h) \/ HandlerStep(h)  PROVE FALSE
      BY <3>1, HandlerFrame, SMTT(30)
    <3>2. CASE Command
      BY <3>2, Zenon DEF Command, BeginStart, GuardedStop, PlainStop, InternalStop, BeginStop, Terminate, captureVars
    <3>3. CASE ControlStep
      BY <3>3, Zenon DEF ControlStep, ReserveFails, ReserveCookieCapture, InstallTraps, JfrStart, EnginesFail,
          EnginesStart, PublishCookieCapture, AbortClose, AbortDrained, StopClose, StopDrained, captureVars
    <3> QED  BY <3>1, <3>2, <3>3, Zenon DEF Next
  <2>2. cookie /\ ctl = "stopJfr" /\ terminal'.epoch = capture.epoch /\ terminal'.session = capture.session
    BY <2>1, Zenon DEF JfrStop
  <2>3. capture.epoch # 0 /\ terminal.epoch < capture.epoch
    BY <2>2, Zenon DEF IInv, EpochInv
  <2>4. capture.epoch \in Nat /\ terminal.epoch \in Nat
    BY EpochBound DEF IInv, TypeOK, CaptureType, TerminalType
  <2>5. request.reason = "guarded-stop" =>
            Matches(request.session, request.epoch, capture.session, capture.epoch)
    BY <2>2, Zenon DEF IInv, EpochInv
  <2> QED  BY <2>2, <2>3, <2>4, <2>5, Zenon
<1> QED  BY <1>1, Inductive, PTL DEF Spec, ReceiptOnlyFromOwnCapture

(* A step that moves neither the gate nor a handler, nor begins or ends a  *)
(* drain, is no step of the abstract gate.                                 *)
LEMMA GateStutter ==
    ASSUME UNCHANGED <<gate, pc>>, ctl \notin {"stopDrain", "abortDrain"},
           ctl' \notin {"stopDrain", "abortDrain"}
    PROVE  UNCHANGED Gate!vars
BY Zenon DEF Gate!vars, GatePhase, Inside

(* Every step of the handlers and of the controller is a step of the       *)
(* abstract gate or leaves it alone.                                       *)
LEMMA GateRefinedStep ==
    ASSUME IInv, [Next]_vars
    PROVE  [Gate!Next]_(Gate!vars)
<1> USE DEF IInv
<1>1. ASSUME NEW h \in Handlers, EnterHandler(h)  PROVE Gate!Enter(h)
  <2>1. h \notin Inside /\ Inside' = Inside \cup {h}
    BY <1>1, Zenon DEF EnterHandler, Inside, TypeOK, PCs
  <2>2. GatePhase = "open" /\ GatePhase' = "open"
    BY <1>1, Zenon DEF EnterHandler, GatePhase, TypeOK, GateType
  <2> QED  BY <2>1, <2>2, Zenon DEF Gate!Enter
<1>2. ASSUME NEW h \in Handlers, LeaveHandler(h)  PROVE Gate!Leave(h)
  <2>1. h \in Inside /\ Inside' = Inside \ {h}
    BY <1>2, Zenon DEF LeaveHandler, Inside, TypeOK, PCs
  <2>2. GatePhase' = GatePhase
    BY <1>2, Zenon DEF LeaveHandler, GatePhase, TypeOK, GateType, controlVars
  <2> QED  BY <2>1, <2>2, Zenon DEF Gate!Leave
<1>3. ASSUME NEW h \in Handlers, HandlerStep(h), ~LeaveHandler(h)  PROVE UNCHANGED Gate!vars
  <2>1. UNCHANGED <<gate, ctl>>
    BY <1>3, Zenon DEF HandlerStep, CountAdmitted, RejectSignal, ReadEpoch, RejectStale, AcceptCookie,
        RecordFails, RecordSample, CountOutcome, captureVars, controlVars
  <2>2. PICK v \in PCs : v # "out" /\ pc[h] # "out" /\ pc' = [pc EXCEPT ![h] = v]
    BY <1>3, Zenon DEF HandlerStep, CountAdmitted, RejectSignal, ReadEpoch, RejectStale, AcceptCookie,
        RecordFails, RecordSample, CountOutcome, PCs
  <2>3. Inside' = Inside
    BY <2>2, Zenon DEF Inside, TypeOK
  <2>4. GatePhase' = GatePhase
    BY <2>1, Zenon DEF GatePhase
  <2> QED  BY <2>3, <2>4, Zenon DEF Gate!vars
<1>4. CASE PublishCookieCapture
  <2>1. Inside = {} /\ Inside' = Inside
    BY <1>4, Zenon DEF PublishCookieCapture, Inside, InsideInv, handlerVars
  <2>2. GatePhase = "closed" /\ GatePhase' = "open"
    BY <1>4, Zenon DEF PublishCookieCapture, GatePhase, LifeInv
  <2> QED  BY <2>1, <2>2, Zenon DEF Gate!Next, Gate!Open
<1>5. CASE AbortClose \/ StopClose
  <2>1. Inside' = Inside
    BY <1>5, Zenon DEF AbortClose, StopClose, Inside, handlerVars
  <2>2. GatePhase \in {"open", "closed"} /\ GatePhase' = "draining"
    BY <1>5, Zenon DEF AbortClose, StopClose, GatePhase, TypeOK, GateType
  <2> QED  BY <2>1, <2>2, Zenon DEF Gate!Next, Gate!Close
<1>6. CASE AbortDrained \/ StopDrained
  <2>1. \A h \in Handlers : pc[h] \notin InsidePCs
    BY <1>6, CountZero, Zenon DEF AbortDrained, StopDrained, GateInv
  <2>2. Inside = {} /\ Inside' = Inside
    BY <1>6, <2>1, Zenon DEF AbortDrained, StopDrained, Inside, InsidePCs, TypeOK, handlerVars
  <2>3. GatePhase = "draining" /\ GatePhase' = "closed"
    BY <1>6, Zenon DEF AbortDrained, StopDrained, GatePhase, LifeInv
  <2> QED  BY <2>2, <2>3, Zenon DEF Gate!Next, Gate!Drained
<1>7. ASSUME NEW s \in Sessions, ReserveCookieCapture(s)  PROVE UNCHANGED Gate!vars
  <2>1. Inside' = Inside
    BY <1>7, SMTT(30) DEF ReserveCookieCapture, Inside, handlerVars
  <2>2. GatePhase = "closed" /\ GatePhase' = "closed"
    BY <1>7, Zenon DEF ReserveCookieCapture, GatePhase, LifeInv
  <2> QED  BY <2>1, <2>2, Zenon DEF Gate!vars
<1>8. CASE ReserveFails \/ InstallTraps \/ JfrStart \/ EnginesFail \/ EnginesStart
           \/ \E f \in BOOLEAN : JfrStop(f)
  <2>1. /\ UNCHANGED <<gate, pc>>
        /\ ctl \notin {"stopDrain", "abortDrain"} /\ ctl' \notin {"stopDrain", "abortDrain"}
    BY <1>8, SMTT(30) DEF ReserveFails, InstallTraps, JfrStart, EnginesFail, EnginesStart, JfrStop,
        captureVars, handlerVars
  <2> QED  BY <2>1, GateStutter, Zenon
<1>9. CASE Command
  <2>1. /\ UNCHANGED <<gate, pc>>
        /\ ctl \notin {"stopDrain", "abortDrain"} /\ ctl' \notin {"stopDrain", "abortDrain"}
    BY <1>9, Zenon DEF Command, BeginStart, GuardedStop, PlainStop, InternalStop, BeginStop, Terminate,
        captureVars, handlerVars
  <2> QED  BY <2>1, GateStutter, Zenon
<1>10. CASE UNCHANGED vars
  BY <1>10, Zenon DEF vars, captureVars, handlerVars, controlVars, Gate!vars, GatePhase, Inside
<1> QED
  BY <1>1, <1>2, <1>3, <1>4, <1>5, <1>6, <1>7, <1>8, <1>9, <1>10, Zenon DEF Next, ControlStep, Gate!Next

(* The gate implements HandlerGate for any number of handlers: nobody      *)
(* enters once it is closed, and it reopens only after a drain.            *)
THEOREM GateRefines == Spec => GateRefined
<1>1. Init => Gate!Init
  BY DEF Init, Gate!Init, GatePhase, Inside
<1> QED  BY <1>1, GateRefinedStep, Inductive, PTL DEF Spec, GateRefined, Gate!Spec
=============================================================================
