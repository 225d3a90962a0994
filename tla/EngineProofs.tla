---------------------------- MODULE EngineProofs ----------------------------
(***************************************************************************)
(* Proofs about two parts of the engines: the budget of events (RateLimit) *)
(* and the CPU timers of the threads (CpuTimers). They have nothing in     *)
(* common but the module.                                                  *)
(***************************************************************************)
EXTENDS RateLimit, CpuTimers, TLAPS

-----------------------------------------------------------------------------
(* The rate limit, for any number of threads, any limits and any number of *)
(* events.                                                                 *)

(* What is left of the budget and what was admitted against it are at most *)
(* twice the limit together, and a carryover is at most one limit.         *)
BudgetInv ==
    /\ TypeOK /\ refilling \in BOOLEAN
    /\ carry \in Nat /\ carry <= limit
    /\ IF refilling THEN periods < MaxPeriods ELSE carry = 0
    /\ Larger(budget, 0) + admitted <= 2 * limit

(* Every interleaving of allow with refill keeps it.                       *)
LEMMA BudgetStep ==
    ASSUME RateLimitShape, BudgetInv, [Next]_vars
    PROVE  BudgetInv'
<1> USE DEF RateLimitShape, BudgetInv, TypeOK
<1>1. ASSUME NEW l \in Limits, Enable(l)  PROVE BudgetInv'
  BY <1>1 DEF Enable, Larger
<1>2. CASE Disable
  BY <1>2, Zenon DEF Disable
<1>3. CASE ReadBudget
  BY <1>3 DEF ReadBudget, Carryover, Smaller, Larger
<1>4. CASE StoreBudget
  <2>1. /\ budget' \in Int /\ limit' \in Limits \cup {0} /\ carry' = 0 /\ carry' \in Nat /\ carry' <= limit'
        /\ periods' \in 0..MaxPeriods /\ events' \in 0..MaxEvents /\ admitted' \in Nat
        /\ Larger(budget', 0) + admitted' <= 2 * limit'
    BY <1>4 DEF StoreBudget, Larger
  <2> QED  BY <1>4, <2>1, Zenon DEF StoreBudget
<1>5. ASSUME NEW t \in Threads, Test(t)  PROVE BudgetInv'
  BY <1>5 DEF Test
<1>6. ASSUME NEW t \in Threads, Take(t)  PROVE BudgetInv'
  BY <1>6 DEF Take, Larger
<1>7. CASE UNCHANGED vars
  BY <1>7, Zenon DEF vars
<1> QED  BY <1>1, <1>2, <1>3, <1>4, <1>5, <1>6, <1>7, Zenon DEF Next

(* However many threads draw on the budget, and however refill races with  *)
(* them, at most twice the limit is admitted between two refills.          *)
THEOREM RateIsBounded == RateLimitShape => (Spec => [](TypeOK /\ RateBounded))
<1> SUFFICES ASSUME RateLimitShape  PROVE Spec => [](TypeOK /\ RateBounded)
  BY Zenon
<1>1. Init => BudgetInv
  <2> SUFFICES ASSUME Init  PROVE BudgetInv
    BY Zenon
  <2>1. /\ budget \in Int /\ carry \in Nat /\ carry <= limit /\ Larger(budget, 0) + admitted <= 2 * limit
        /\ periods \in 0..MaxPeriods /\ events \in 0..MaxEvents /\ admitted \in Nat
    BY DEF Init, RateLimitShape, Larger
  <2> QED  BY <2>1, Zenon DEF Init, BudgetInv, TypeOK
<1>2. BudgetInv => TypeOK /\ RateBounded
  BY DEF BudgetInv, TypeOK, RateBounded, Larger, RateLimitShape
<1> QED  BY <1>1, <1>2, BudgetStep, PTL DEF Spec

-----------------------------------------------------------------------------
(* The timers, for any thread ids and any number of sessions and births.   *)

CreatePcs == {"create", "claim", "arm", "created", "failed"}
DestroyPcs == {"read", "release", "delete", "destroyed"}
OpType == [kind : {"none", "create", "destroy"}, tid : Tids \cup {0}, timer : 0..MaxTimers,
           pc : {"done"} \cup CreatePcs \cup DestroyPcs]
SessionType == [pc : {"idle", "start", "create", "running", "sweep"}, todo : SUBSET Tids, ok : BOOLEAN]
Owns(a) == op[a].pc \in {"claim", "delete"}
HasTimer(T, id, t) == \E x \in T : x.id = id /\ x.tid = t

(* Who is in createForThread and who in destroyForThread: a thread only in *)
(* its hooks, and for itself, and the controlling thread only in start and *)
(* in stop.                                                                *)
OpInv ==
    /\ TimersTypeOK /\ op \in [Actors -> OpType] /\ created \in 0..MaxTimers
    /\ session \in SessionType
    /\ swept \subseteq Tids /\ behind \subseteq Tids /\ denied \subseteq Tids /\ sessions \in Nat
    /\ \A a \in Actors : IF op[a].pc = "done" THEN op[a] = NoOp ELSE op[a].tid \in Tids
    /\ \A a \in Actors : op[a].pc = "release" => op[a].timer # 0
    /\ \A t \in Tids : op[t].pc # "done" =>
          /\ op[t].tid = t
          /\ \/ life[t] = "born" /\ op[t].pc \in CreatePcs
             \/ life[t] = "ending" /\ op[t].pc \in DestroyPcs
    /\ op[Ctl].pc # "done" =>
          \/ session.pc = "create" /\ op[Ctl].pc \in CreatePcs
          \/ session.pc = "sweep" /\ op[Ctl].pc \in DestroyPcs

(* A timer id is used once.                                                *)
IdInv ==
    /\ \A x \in timers : x.id \in 1..created
    /\ \A x, y \in timers : x.id = y.id => x = y

(* A slot has a timer of its thread; whoever holds one outside a slot      *)
(* holds it alone.                                                         *)
OwnInv ==
    /\ \A t \in Tids : slot[t] # 0 => HasTimer(timers, slot[t], t)
    /\ \A a \in Actors : Owns(a) =>
          /\ HasTimer(timers, op[a].timer, op[a].tid)
          /\ \A t \in Tids : slot[t] # op[a].timer
          /\ \A b \in Actors : b # a /\ Owns(b) => op[b].timer # op[a].timer

(* No timer is forgotten.                                                  *)
KnownInv == \A x \in timers : slot[x.tid] = x.id \/ \E a \in Actors : Owns(a) /\ op[a].timer = x.id

(* The hooks are let in while a session starts and runs; a stop passes     *)
(* every thread id.                                                        *)
PhaseInv ==
    /\ current <=> session.pc \in {"start", "create", "running"}
    /\ session.pc = "running" => session.todo = {}
    /\ session.pc = "sweep" => swept \cup session.todo = Tids
    /\ session.pc = "idle" /\ swept # Tids => (\A t \in Tids : slot[t] = 0)
    /\ session.pc = "idle" /\ swept # Tids => (\A a \in Actors : op[a] = NoOp)

(* In a session, a thread that the traversal has passed or that was born   *)
(* after it has a timer once it is past its own attempt to create one, or  *)
(* the controlling thread is about to give it one.                         *)
CoverInv ==
    session.pc \in {"create", "running"} =>
        \A t \in Tids \ (denied \cup session.todo) :
            life[t] = "up" \/ (life[t] = "born" /\ op[t].pc \in {"arm", "created", "failed"})
            => slot[t] # 0 \/ (op[Ctl].tid = t /\ op[Ctl].pc \in {"create", "claim"})

(* A timer in a slot that the sweep has passed is about to be released, or *)
(* was claimed afterwards.                                                 *)
LeftInv ==
    \A t \in swept : slot[t] # 0 =>
        \/ t \in behind
        \/ \E a \in Actors : /\ op[a].tid = t
                             /\ \/ op[a].pc = "arm"
                                \/ op[a].pc = "release" /\ op[a].timer = slot[t]
                                \/ op[a].pc = "read" /\ a = Ctl

HoldInv == IdInv /\ OwnInv /\ KnownInv
TimerInv == OpInv /\ HoldInv /\ PhaseInv /\ CoverInv /\ LeftInv

(* What an operation's step makes of its record.                           *)
LEMMA OpMoves ==
    ASSUME OpInv, NEW c \in Actors, NEW r \in OpType, op' = [op EXCEPT ![c] = r],
           UNCHANGED <<created, session, denied, sessions, life, swept>>, TimersTypeOK', behind' \subseteq Tids,
           IF r.pc = "done" THEN r = NoOp ELSE r.tid \in Tids /\ r.tid = op[c].tid,
           r.pc = "release" => r.timer # 0,
           op[c].pc \in CreatePcs => r.pc \in CreatePcs, op[c].pc \in DestroyPcs => r.pc \in DestroyPcs,
           op[c].pc # "done"
    PROVE  OpInv'
BY DEF OpInv, Actors, CreatePcs, DestroyPcs

(* The records an operation can turn into have their type.                *)
LEMMA OpRecords ==
    ASSUME CpuTimersShape, OpInv, NEW a \in Actors
    PROVE  /\ \A p \in {"done"} \cup CreatePcs \cup DestroyPcs : [op[a] EXCEPT !.pc = p] \in OpType
           /\ \A p \in {"done"} \cup CreatePcs \cup DestroyPcs, id \in 0..MaxTimers :
                  [op[a] EXCEPT !.pc = p, !.timer = id] \in OpType
           /\ NoOp \in OpType /\ \A t \in Tids : Creating(t) \in OpType /\ Destroying(t) \in OpType
<1>1. op[a] \in OpType /\ 0 \in 0..MaxTimers
  BY DEF CpuTimersShape, OpInv
<1>2. NoOp \in OpType
  BY <1>1, Zenon DEF OpType, NoOp
<1>3. ASSUME NEW t \in Tids  PROVE Creating(t) \in OpType /\ Destroying(t) \in OpType
  BY <1>1, Zenon DEF OpType, Creating, Destroying, CreatePcs, DestroyPcs
<1>4. ASSUME NEW p \in {"done"} \cup CreatePcs \cup DestroyPcs, NEW id \in 0..MaxTimers
      PROVE  [op[a] EXCEPT !.pc = p] \in OpType /\ [op[a] EXCEPT !.pc = p, !.timer = id] \in OpType
  BY <1>1, Zenon DEF OpType
<1> QED BY <1>1, <1>2, <1>3, <1>4, Zenon

(* Arming a timer keeps its type.                                         *)
LEMMA ArmedTimer ==
    ASSUME NEW S, NEW T, NEW x \in [id : S, tid : T, armed : BOOLEAN]
    PROVE  [x EXCEPT !.armed = TRUE] \in [id : S, tid : T, armed : BOOLEAN]
BY Zenon

(* The steps inside createForThread and destroyForThread.                  *)
LEMMA OpStepOp ==
    ASSUME CpuTimersShape, OpInv, IdInv, NEW a \in Actors, OpStep(a)
    PROVE  OpInv'
<1>t. op[a] \in OpType /\ (op[a].pc # "done" => op[a].tid \in Tids) /\ op \in [Actors -> OpType]
  BY Zenon DEF OpInv
<1>n. created \in Nat /\ MaxTimers \in Nat
  BY DEF OpInv, CpuTimersShape
<1>1. CASE TimerCreate(a)
  <2>1. CASE /\ created < MaxTimers /\ created' = created + 1
             /\ timers' = timers \cup {[id |-> created + 1, tid |-> op[a].tid, armed |-> FALSE]}
             /\ op' = [op EXCEPT ![a] = [@ EXCEPT !.pc = "claim", !.timer = created + 1]]
             /\ UNCHANGED denied
    <3>1. created + 1 \in 0..MaxTimers /\ created + 1 \in 1..MaxTimers
      BY <2>1, <1>n
    <3>2. TimersTypeOK'
      <4>1. [id |-> created + 1, tid |-> op[a].tid, armed |-> FALSE] \in [id : 1..MaxTimers, tid : Tids, armed : BOOLEAN]
        BY <3>1, <1>1, <1>t, Zenon DEF TimerCreate
      <4> QED BY <2>1, <4>1, <1>1, Zenon DEF TimerCreate, OpInv, TimersTypeOK
    <3>3. [op[a] EXCEPT !.pc = "claim", !.timer = created + 1] \in OpType
      BY <3>1, OpRecords, Zenon DEF CreatePcs
    <3> QED BY <2>1, <3>1, <3>2, <3>3, <1>1, <1>t DEF TimerCreate, OpInv, Actors, CreatePcs, DestroyPcs, OpType
  <2>2. CASE /\ op' = [op EXCEPT ![a].pc = "failed"]
             /\ denied' = IF Exists(op[a].tid) THEN denied \cup {op[a].tid} ELSE denied
             /\ UNCHANGED <<timers, created>>
    <3>1. [op[a] EXCEPT !.pc = "failed"] \in OpType
      BY OpRecords, Zenon DEF CreatePcs
    <3>2. TimersTypeOK'
      BY <2>2, <1>1, Zenon DEF TimerCreate, OpInv, TimersTypeOK
    <3> QED BY <2>2, <3>1, <3>2, <1>1, <1>t DEF TimerCreate, OpInv, Actors, CreatePcs, DestroyPcs, OpType
  <2> QED BY <1>1, <2>1, <2>2, Zenon DEF TimerCreate
<1>2. CASE Claim(a)
  <2>1. TimersTypeOK'
    BY <1>2, <1>t DEF Claim, OpInv, TimersTypeOK, Without, OpType
  <2>2. PICK p \in {"arm", "failed"} : op' = [op EXCEPT ![a] = [op[a] EXCEPT !.pc = p]]
    BY <1>2, Zenon DEF Claim
  <2>3. [op[a] EXCEPT !.pc = p] \in OpType
    BY OpRecords, Zenon DEF CreatePcs
  <2> QED BY <2>1, <2>2, <2>3, <1>2, <1>t, OpMoves, Zenon DEF Claim, OpInv, OpType, CreatePcs, DestroyPcs
<1>3. CASE Arm(a)
  <2>1. TimersTypeOK'
    <3>1. timers' \subseteq [id : 1..MaxTimers, tid : Tids, armed : BOOLEAN]
      <4>1. ASSUME NEW x \in timers
            PROVE  [x EXCEPT !.armed = TRUE] \in [id : 1..MaxTimers, tid : Tids, armed : BOOLEAN]
        <5>1. x \in [id : 1..MaxTimers, tid : Tids, armed : BOOLEAN]
          BY Zenon DEF OpInv, TimersTypeOK
        <5> QED BY <5>1, ArmedTimer, Zenon
      <4>2. timers \subseteq [id : 1..MaxTimers, tid : Tids, armed : BOOLEAN]
        BY Zenon DEF OpInv, TimersTypeOK
      <4> QED BY <4>1, <4>2, <1>3, Zenon DEF Arm
    <3> QED BY <3>1, <1>3, Zenon DEF Arm, OpInv, TimersTypeOK
  <2>3. [op[a] EXCEPT !.pc = "created"] \in OpType
    BY OpRecords, Zenon DEF CreatePcs
  <2> QED BY <2>1, <2>3, <1>3, <1>t, OpMoves DEF Arm, OpInv, OpType, CreatePcs, DestroyPcs
<1>4. CASE ReadSlot(a)
  <2>1. TimersTypeOK'
    BY <1>4, Zenon DEF ReadSlot, OpInv, TimersTypeOK
  <2>2. slot[op[a].tid] \in 0..MaxTimers
    BY <1>4, <1>t, Zenon DEF ReadSlot, OpInv, TimersTypeOK
  <2>3. CASE slot[op[a].tid] = 0
    <3>1. op' = [op EXCEPT ![a] = [op[a] EXCEPT !.pc = "destroyed"]]
      BY <1>4, <2>3, Zenon DEF ReadSlot
    <3>2. [op[a] EXCEPT !.pc = "destroyed"] \in OpType
      BY OpRecords, Zenon DEF DestroyPcs
    <3> QED BY <2>1, <3>1, <3>2, <1>4, <1>t, OpMoves DEF ReadSlot, OpInv, OpType, CreatePcs, DestroyPcs
  <2>4. CASE slot[op[a].tid] # 0
    <3>1. op' = [op EXCEPT ![a] = [op[a] EXCEPT !.pc = "release", !.timer = slot[op[a].tid]]]
      BY <1>4, <2>4, Zenon DEF ReadSlot
    <3>2. [op[a] EXCEPT !.pc = "release", !.timer = slot[op[a].tid]] \in OpType
      BY <2>2, OpRecords, Zenon DEF DestroyPcs
    <3>3. /\ [op[a] EXCEPT !.pc = "release", !.timer = slot[op[a].tid]].pc = "release"
          /\ [op[a] EXCEPT !.pc = "release", !.timer = slot[op[a].tid]].tid = op[a].tid
          /\ [op[a] EXCEPT !.pc = "release", !.timer = slot[op[a].tid]].timer = slot[op[a].tid]
      BY <1>t, Zenon DEF OpType
    <3> QED BY <2>1, <2>4, <3>1, <3>2, <3>3, <1>4, <1>t, OpMoves DEF ReadSlot, OpInv, CreatePcs, DestroyPcs
  <2> QED BY <2>3, <2>4, Zenon
<1>5. CASE Release(a)
  <2>1. TimersTypeOK'
    BY <1>5, <1>t, <1>n DEF Release, OpInv, TimersTypeOK
  <2>2. PICK p \in {"delete", "destroyed"} : op' = [op EXCEPT ![a] = [op[a] EXCEPT !.pc = p]]
    BY <1>5, Zenon DEF Release
  <2>3. [op[a] EXCEPT !.pc = p] \in OpType
    BY OpRecords, Zenon DEF DestroyPcs
  <2> QED BY <2>1, <2>2, <2>3, <1>5, <1>t, OpMoves, Zenon DEF Release, OpInv, OpType, CreatePcs, DestroyPcs
<1>6. CASE Delete(a)
  <2>1. TimersTypeOK'
    BY <1>6, Zenon DEF Delete, OpInv, TimersTypeOK, Without
  <2>3. [op[a] EXCEPT !.pc = "destroyed"] \in OpType
    BY OpRecords, Zenon DEF DestroyPcs
  <2> QED BY <2>1, <2>3, <1>6, <1>t, OpMoves, Zenon DEF Delete, OpInv, OpType, CreatePcs, DestroyPcs
<1> QED BY <1>1, <1>2, <1>3, <1>4, <1>5, <1>6, Zenon DEF OpStep

(* The steps of the hooks: a thread works on its own timer only.           *)
LEMMA OpStepThread ==
    ASSUME CpuTimersShape, OpInv, NEW t \in Tids, ThreadStep(t)
    PROVE  OpInv'
<1>t. op[t] \in OpType /\ op \in [Actors -> OpType] /\ t \in Actors /\ t # Ctl
  BY Zenon DEF OpInv, Actors, CpuTimersShape, Ctl
<1>r. NoOp \in OpType /\ Creating(t) \in OpType /\ Destroying(t) \in OpType
  BY <1>t, OpRecords, Zenon
<1>l. life \in [Tids -> {"none", "born", "up", "ending", "past"}]
  BY Zenon DEF OpInv, TimersTypeOK
<1>1. CASE Birth(t)
  BY <1>1, <1>t, <1>l, Zenon DEF Birth, OpInv, TimersTypeOK, Actors
<1>2. CASE OnThreadStart(t)
  <2>1. CASE current
    <3>1. op' = [op EXCEPT ![t] = Creating(t)] /\ life' = life
      BY <1>2, <2>1, Zenon DEF OnThreadStart
    <3> QED BY <1>2, <3>1, <1>t, <1>r, Zenon DEF OnThreadStart, OpInv, TimersTypeOK, Actors, Creating, CreatePcs
  <2>2. CASE ~current
    <3>1. life' = [life EXCEPT ![t] = "up"] /\ op' = op /\ op[t].pc = "done"
      BY <1>2, <2>2 DEF OnThreadStart, NoOp
    <3> QED BY <1>2, <3>1, <1>t, <1>l, Zenon DEF OnThreadStart, OpInv, TimersTypeOK, Actors
  <2> QED BY <2>1, <2>2, Zenon
<1>3. CASE StartHookDone(t)
  BY <1>3, <1>t, <1>l, <1>r DEF StartHookDone, OpInv, TimersTypeOK, Actors, NoOp, CreatePcs
<1>4. CASE OnThreadEnd(t)
  BY <1>4, <1>t, <1>l, <1>r DEF OnThreadEnd, OpInv, TimersTypeOK, Actors, Destroying, DestroyPcs
<1>5. CASE EndHookDone(t)
  BY <1>5, <1>t, <1>l, <1>r, Zenon DEF EndHookDone, OpInv, TimersTypeOK, Actors, NoOp, DestroyPcs
<1>6. CASE Gone(t)
  BY <1>6, <1>t, <1>l, Zenon DEF Gone, OpInv, TimersTypeOK, Actors
<1> QED BY <1>1, <1>2, <1>3, <1>4, <1>5, <1>6, Zenon DEF ThreadStep

(* The steps of the controlling thread: only start creates, only stop     *)
(* destroys.                                                               *)
LEMMA OpStepControl ==
    ASSUME CpuTimersShape, OpInv, Control
    PROVE  OpInv'
<1>t. op[Ctl] \in OpType /\ op \in [Actors -> OpType] /\ Ctl \in Actors /\ Ctl \notin Tids
  BY Zenon DEF OpInv, Actors, CpuTimersShape, Ctl
<1>r. NoOp \in OpType /\ \A t \in Tids : Creating(t) \in OpType /\ Destroying(t) \in OpType
  BY <1>t, OpRecords, Zenon
<1> USE DEF SessionType
<1>s. session \in SessionType
  BY Zenon DEF OpInv
<1>1. CASE StartTimers
  <2>1. session' \in SessionType
    BY <1>1, Zenon DEF StartTimers
  <2> QED BY <1>1, <2>1, <1>t DEF StartTimers, OpInv, TimersTypeOK, NoOp
<1>2. CASE ListThreads
  <2>1. session' \in SessionType
    BY <1>2, <1>s, Zenon DEF ListThreads
  <2> QED BY <1>2, <2>1, <1>t, Zenon DEF ListThreads, OpInv, TimersTypeOK, NoOp
<1>3. CASE CreateNext
  <2>1. PICK t \in session.todo : /\ op' = [op EXCEPT ![Ctl] = Creating(t)]
                                 /\ session' = [session EXCEPT !.todo = @ \ {t}]
    BY <1>3, Zenon DEF CreateNext
  <2>2. session' \in SessionType /\ session'.pc = session.pc /\ t \in Tids
    BY <2>1, <1>s, Zenon
  <2>3. \A a \in Tids : op'[a] = op[a]
    BY <2>1, <1>t, Zenon DEF Actors
  <2>4. op'[Ctl] = Creating(t) /\ op' \in [Actors -> OpType]
    BY <2>1, <2>2, <1>t, <1>r, Zenon
  <2> QED BY <1>3, <2>2, <2>3, <2>4, <1>t DEF CreateNext, OpInv, TimersTypeOK, Creating, Actors, CreatePcs
<1>4. CASE CreateReturns
  <2>1. session' \in SessionType /\ session'.pc = session.pc
    BY <1>4, <1>s, Zenon DEF CreateReturns
  <2>3. \A a \in Tids : op'[a] = op[a]
    BY <1>4, <1>t, Zenon DEF Actors, CreateReturns
  <2>4. op'[Ctl] = NoOp /\ op' \in [Actors -> OpType]
    BY <1>4, <1>t, <1>r, Zenon DEF CreateReturns
  <2> QED BY <1>4, <2>1, <2>3, <2>4, <1>t DEF CreateReturns, OpInv, TimersTypeOK, NoOp, Actors
<1>5. CASE Started
  <2>1. session' \in SessionType
    BY <1>5, <1>s, Zenon DEF Started
  <2> QED BY <1>5, <2>1, <1>t DEF Started, OpInv, TimersTypeOK, NoOp
<1>6. CASE StopTimers
  <2>1. session' \in SessionType
    BY <1>6, <1>s, Zenon DEF StopTimers
  <2>2. op[Ctl].pc = "done"
    BY <1>6, <1>t DEF StopTimers, OpInv, NoOp
  <2> QED BY <1>6, <2>1, <2>2, <1>t, Zenon DEF StopTimers, OpInv, TimersTypeOK, NoOp
<1>7. CASE SweepNext
  <2>1. PICK t \in session.todo : /\ op' = [op EXCEPT ![Ctl] = Destroying(t)]
                                 /\ session' = [session EXCEPT !.todo = @ \ {t}]
                                 /\ swept' = swept \cup {t}
    BY <1>7, Zenon DEF SweepNext
  <2>2. session' \in SessionType /\ session'.pc = session.pc /\ t \in Tids
    BY <2>1, <1>s, Zenon
  <2>3. \A a \in Tids : op'[a] = op[a]
    BY <2>1, <1>t, Zenon DEF Actors
  <2>4. op'[Ctl] = Destroying(t) /\ op' \in [Actors -> OpType]
    BY <2>1, <2>2, <1>t, <1>r, Zenon
  <2> QED BY <1>7, <2>1, <2>2, <2>3, <2>4, <1>t DEF SweepNext, OpInv, TimersTypeOK, Destroying, Actors, DestroyPcs
<1>8. CASE SweepReturns
  <2>3. \A a \in Tids : op'[a] = op[a]
    BY <1>8, <1>t, Zenon DEF Actors, SweepReturns
  <2>4. op'[Ctl] = NoOp /\ op' \in [Actors -> OpType]
    BY <1>8, <1>t, <1>r, Zenon DEF SweepReturns
  <2> QED BY <1>8, <2>3, <2>4, <1>t, Zenon DEF SweepReturns, OpInv, TimersTypeOK, NoOp, Actors
<1>9. CASE Stopped
  <2>1. session' \in SessionType
    BY <1>9, <1>s, Zenon DEF Stopped
  <2> QED BY <1>9, <2>1, <1>t DEF Stopped, OpInv, TimersTypeOK, NoOp
<1> QED BY <1>1, <1>2, <1>3, <1>4, <1>5, <1>6, <1>7, <1>8, <1>9, Zenon DEF Control

-----------------------------------------------------------------------------
(* A step that leaves timers, slots and whoever holds a timer alone.       *)
LEMMA HoldQuiet ==
    ASSUME HoldInv, UNCHANGED <<slot, timers, created>>,
           \A b \in Actors : /\ Owns(b)' <=> Owns(b)
                             /\ Owns(b) => op'[b].timer = op[b].timer /\ op'[b].tid = op[b].tid
    PROVE  HoldInv'
<1>1. IdInv'
  BY Zenon DEF HoldInv, IdInv
<1>2. \A id, t : HasTimer(timers', id, t) <=> HasTimer(timers, id, t)
  BY Zenon DEF HasTimer
<1>3. OwnInv'
  <2>1. \A t \in Tids : slot'[t] # 0 => HasTimer(timers', slot'[t], t)
    BY <1>2, Zenon DEF HoldInv, OwnInv
  <2>2. ASSUME NEW a \in Actors, Owns(a)'
        PROVE  /\ HasTimer(timers', op'[a].timer, op'[a].tid)
               /\ \A t \in Tids : slot'[t] # op'[a].timer
               /\ \A b \in Actors : b # a /\ Owns(b)' => op'[b].timer # op'[a].timer
    BY <1>2, <2>2, Zenon DEF HoldInv, OwnInv
  <2> QED BY <2>1, <2>2, Zenon DEF OwnInv
<1>4. KnownInv'
  BY Zenon DEF HoldInv, KnownInv
<1> QED BY <1>1, <1>3, <1>4, Zenon DEF HoldInv

(* The step of one operation to place p.                                   *)
LEMMA OpFields ==
    ASSUME op \in [Actors -> OpType], NEW a \in Actors, NEW p, op' = [op EXCEPT ![a].pc = p]
    PROVE  /\ op'[a].pc = p /\ op'[a].tid = op[a].tid /\ op'[a].timer = op[a].timer
           /\ \A b \in Actors : b # a => op'[b] = op[b]
BY Zenon DEF OpType

(* An operation changes its own record only, and stays with its thread.    *)
LEMMA OpFrame ==
    ASSUME op \in [Actors -> OpType], NEW a \in Actors, OpStep(a)
    PROVE  (\A b \in Actors : b # a => op'[b] = op[b]) /\ op'[a].tid = op[a].tid
<1>1. ASSUME NEW p, op' = [op EXCEPT ![a].pc = p]
      PROVE  (\A b \in Actors : b # a => op'[b] = op[b]) /\ op'[a].tid = op[a].tid
  BY <1>1, OpFields, Zenon
<1>2. ASSUME NEW p, NEW id, op' = [op EXCEPT ![a] = [@ EXCEPT !.pc = p, !.timer = id]]
      PROVE  (\A b \in Actors : b # a => op'[b] = op[b]) /\ op'[a].tid = op[a].tid
  BY <1>2, Zenon DEF OpType
<1>3. CASE TimerCreate(a)
  BY <1>1, <1>2, <1>3, Zenon DEF TimerCreate
<1>4. CASE ReadSlot(a)
  BY <1>4, Zenon DEF ReadSlot, OpType
<1>5. CASE Claim(a) \/ Arm(a) \/ Release(a) \/ Delete(a)
  BY <1>1, <1>5, Zenon DEF Claim, Arm, Release, Delete
<1> QED BY <1>3, <1>4, <1>5, Zenon DEF OpStep

(* Whoever holds a timer, or finds it in a slot, has one that exists.      *)
LEMMA HeldIds ==
    ASSUME CpuTimersShape, OpInv, HoldInv
    PROVE  /\ \A t \in Tids : slot[t] # 0 => slot[t] \in 1..created
           /\ \A a \in Actors : Owns(a) => op[a].timer \in 1..created
BY Zenon DEF HoldInv, IdInv, OwnInv, HasTimer

(* A timer deleted by the one that holds it.                               *)
LEMMA HoldDelete ==
    ASSUME CpuTimersShape, OpInv, HoldInv, NEW a \in Actors, Owns(a),
           timers' = Without(timers, op[a].timer), UNCHANGED <<slot, created>>,
           ~Owns(a)', \A b \in Actors : b # a => op'[b] = op[b]
    PROVE  HoldInv'
<1>1. IdInv'
  BY Zenon DEF HoldInv, IdInv, Without
<1>2. \A id, t : HasTimer(timers, id, t) /\ id # op[a].timer => HasTimer(timers', id, t)
  BY Zenon DEF HasTimer, Without
<1>3. \A b \in Actors : Owns(b)' => b # a /\ Owns(b)
  BY Zenon DEF Owns
<1>4. OwnInv'
  <2>1. \A t \in Tids : slot'[t] # 0 => HasTimer(timers', slot'[t], t)
    BY <1>2, Zenon DEF HoldInv, OwnInv
  <2>2. ASSUME NEW c \in Actors, Owns(c)'
        PROVE  /\ HasTimer(timers', op'[c].timer, op'[c].tid)
               /\ \A t \in Tids : slot'[t] # op'[c].timer
               /\ \A b \in Actors : b # c /\ Owns(b)' => op'[b].timer # op'[c].timer
    BY <1>2, <1>3, <2>2, Zenon DEF HoldInv, OwnInv
  <2> QED BY <2>1, <2>2, Zenon DEF OwnInv
<1>5. KnownInv'
  <2> SUFFICES ASSUME NEW x \in timers'
               PROVE  slot'[x.tid] = x.id \/ \E b \in Actors : Owns(b)' /\ op'[b].timer = x.id
    BY Zenon DEF KnownInv
  <2>1. x \in timers /\ x.id # op[a].timer
    BY Zenon DEF Without
  <2>2. slot[x.tid] = x.id \/ \E b \in Actors : Owns(b) /\ op[b].timer = x.id
    BY <2>1, Zenon DEF HoldInv, KnownInv
  <2> QED BY <2>1, <2>2, Zenon DEF Owns
<1> QED BY <1>1, <1>4, <1>5, Zenon DEF HoldInv

(* The steps inside createForThread and destroyForThread.                  *)
LEMMA HoldStepOp ==
    ASSUME CpuTimersShape, OpInv, HoldInv, NEW a \in Actors, OpStep(a)
    PROVE  HoldInv'
<1>t. op[a] \in OpType /\ (op[a].pc # "done" => op[a].tid \in Tids) /\ op \in [Actors -> OpType]
  BY Zenon DEF OpInv
<1>n. created \in Nat /\ MaxTimers \in Nat /\ slot \in [Tids -> 0..MaxTimers]
  BY DEF OpInv, CpuTimersShape, TimersTypeOK
<1>1. CASE TimerCreate(a)
  <2> DEFINE x == [id |-> created + 1, tid |-> op[a].tid, armed |-> FALSE]
  <2>1. CASE /\ created' = created + 1 /\ timers' = timers \cup {x}
             /\ op' = [op EXCEPT ![a] = [@ EXCEPT !.pc = "claim", !.timer = created + 1]]
    <3>1. /\ op'[a].pc = "claim" /\ op'[a].timer = created + 1 /\ op'[a].tid = op[a].tid
          /\ \A b \in Actors : b # a => op'[b] = op[b]
      BY <2>1, <1>t, Zenon DEF OpType
    <3>2. slot' = slot /\ op[a].pc = "create" /\ x.id = created + 1 /\ x.tid = op[a].tid /\ x \in timers'
      BY <1>1, <2>1, Zenon DEF TimerCreate
    <3>3. \A y \in timers : y.id \in 1..created
      BY Zenon DEF HoldInv, IdInv
    <3> HIDE DEF x
    <3>4. IdInv'
      BY <2>1, <3>2, <3>3, <1>n DEF HoldInv, IdInv
    <3>5. \A id, t : HasTimer(timers, id, t) => HasTimer(timers', id, t)
      BY <2>1, Zenon DEF HasTimer
    <3>6. \A b \in Actors : Owns(b)' => b = a \/ Owns(b)
      BY <3>1, Zenon DEF Owns
    <3>7. HasTimer(timers', op'[a].timer, op'[a].tid)
      BY <3>1, <3>2, Zenon DEF HasTimer
    <3>8. /\ \A t \in Tids : slot[t] # created + 1
          /\ \A b \in Actors : Owns(b) => op[b].timer # created + 1
      BY <1>n, HeldIds
    <3>9. OwnInv'
      <4>1. \A t \in Tids : slot'[t] # 0 => HasTimer(timers', slot'[t], t)
        BY <3>2, <3>5, Zenon DEF HoldInv, OwnInv
      <4>2. ASSUME NEW c \in Actors, Owns(c)'
            PROVE  /\ HasTimer(timers', op'[c].timer, op'[c].tid)
                   /\ \A t \in Tids : slot'[t] # op'[c].timer
                   /\ \A b \in Actors : b # c /\ Owns(b)' => op'[b].timer # op'[c].timer
        BY <3>1, <3>2, <3>5, <3>6, <3>7, <3>8, <4>2 DEF HoldInv, OwnInv
      <4> QED BY <4>1, <4>2, Zenon DEF OwnInv
    <3>10. KnownInv'
      <4>1. \A b \in Actors : Owns(b) => b # a /\ Owns(b)' /\ op'[b].timer = op[b].timer
        BY <3>1, <3>2, Zenon DEF Owns
      <4>2. Owns(a)'
        BY <3>1, Zenon DEF Owns
      <4> QED BY <2>1, <3>1, <3>2, <4>1, <4>2 DEF HoldInv, KnownInv
    <3> QED BY <3>4, <3>9, <3>10, Zenon DEF HoldInv
  <2>2. CASE op' = [op EXCEPT ![a].pc = "failed"] /\ UNCHANGED <<timers, created>>
    BY <1>1, <2>2, <1>t, OpFields, HoldQuiet DEF TimerCreate, Owns
  <2> QED BY <1>1, <2>1, <2>2, Zenon DEF TimerCreate
<1>2. CASE Claim(a)
  <2>1. CASE slot[op[a].tid] = 0
    <3>1. /\ slot' = [slot EXCEPT ![op[a].tid] = op[a].timer] /\ UNCHANGED <<timers, created>>
          /\ Owns(a) /\ ~Owns(a)' /\ \A b \in Actors : b # a => op'[b] = op[b]
      BY <1>2, <2>1, <1>t, OpFields DEF Claim, Owns
    <3>2. op[a].tid \in Tids /\ HasTimer(timers, op[a].timer, op[a].tid)
      BY <1>2, <1>t, <3>1, Zenon DEF Claim, HoldInv, OwnInv
    <3>3. \A b \in Actors : Owns(b)' <=> b # a /\ Owns(b)
      BY <3>1, Zenon DEF Owns
    <3>4. /\ slot'[op[a].tid] = op[a].timer
          /\ \A t \in Tids : t # op[a].tid => slot'[t] = slot[t]
      BY <3>1, <3>2, <1>n, Zenon
    <3>5. IdInv'
      BY <3>1, Zenon DEF HoldInv, IdInv
    <3>6. \A id, t : HasTimer(timers', id, t) <=> HasTimer(timers, id, t)
      BY <3>1, Zenon DEF HasTimer
    <3>7. OwnInv'
      <4>1. \A t \in Tids : slot'[t] # 0 => HasTimer(timers', slot'[t], t)
        BY <3>2, <3>4, <3>6, Zenon DEF HoldInv, OwnInv
      <4>2. ASSUME NEW c \in Actors, Owns(c)'
            PROVE  /\ HasTimer(timers', op'[c].timer, op'[c].tid)
                   /\ \A t \in Tids : slot'[t] # op'[c].timer
                   /\ \A b \in Actors : b # c /\ Owns(b)' => op'[b].timer # op'[c].timer
        BY <3>1, <3>3, <3>4, <3>6, <4>2 DEF HoldInv, OwnInv
      <4> QED BY <4>1, <4>2, Zenon DEF OwnInv
    <3>8. KnownInv'
      <4> SUFFICES ASSUME NEW x \in timers
                   PROVE  slot'[x.tid] = x.id \/ \E b \in Actors : Owns(b)' /\ op'[b].timer = x.id
        BY <3>1, Zenon DEF KnownInv
      <4>1. x.id # 0 /\ x.tid \in Tids
        BY DEF OpInv, TimersTypeOK
      <4>2. CASE x.id = op[a].timer
        <5>1. x.tid = op[a].tid
          BY <3>2, <4>2, Zenon DEF HasTimer, HoldInv, IdInv
        <5> QED BY <5>1, <4>2, <3>4, Zenon
      <4>3. CASE x.id # op[a].timer
        <5>1. slot[x.tid] = x.id \/ \E b \in Actors : Owns(b) /\ op[b].timer = x.id
          BY Zenon DEF HoldInv, KnownInv
        <5> QED BY <5>1, <4>1, <4>3, <2>1, <3>1, <3>3, <3>4, Zenon
      <4> QED BY <4>2, <4>3, Zenon
    <3> QED BY <3>5, <3>7, <3>8, Zenon DEF HoldInv
  <2>2. CASE slot[op[a].tid] # 0
    BY <1>2, <2>2, <1>t, OpFields, HoldDelete DEF Claim, Owns
  <2> QED BY <2>1, <2>2, Zenon
<1>3. CASE Arm(a)
  <2> DEFINE f(x) == IF x.id = op[a].timer THEN [x EXCEPT !.armed = TRUE] ELSE x
  <2>1. timers' = {f(x) : x \in timers} /\ UNCHANGED <<slot, created>>
    BY <1>3, Zenon DEF Arm
  <2>2. ASSUME NEW x \in timers  PROVE f(x).id = x.id /\ f(x).tid = x.tid
    BY Zenon DEF OpInv, TimersTypeOK
  <2>3. \A b \in Actors : Owns(b)' <=> Owns(b)
    BY <1>3, <1>t, OpFields DEF Arm, Owns
  <2>4. \A b \in Actors : Owns(b) => op'[b] = op[b]
    BY <1>3, <1>t, OpFields, Zenon DEF Arm, Owns
  <2> HIDE DEF f
  <2>5. IdInv'
    <3>1. \A y \in timers' : \E x \in timers : y = f(x) /\ y.id = x.id
      BY <2>1, <2>2, Zenon
    <3> QED BY <3>1, <2>1 DEF HoldInv, IdInv
  <2>6. \A id, t : HasTimer(timers, id, t) => HasTimer(timers', id, t)
    BY <2>1, <2>2, Zenon DEF HasTimer
  <2>7. OwnInv'
    <3>1. \A t \in Tids : slot'[t] # 0 => HasTimer(timers', slot'[t], t)
      BY <2>1, <2>6, Zenon DEF HoldInv, OwnInv
    <3>2. ASSUME NEW c \in Actors, Owns(c)'
          PROVE  /\ HasTimer(timers', op'[c].timer, op'[c].tid)
                 /\ \A t \in Tids : slot'[t] # op'[c].timer
                 /\ \A b \in Actors : b # c /\ Owns(b)' => op'[b].timer # op'[c].timer
      BY <2>1, <2>3, <2>4, <2>6, <3>2, Zenon DEF HoldInv, OwnInv
    <3> QED BY <3>1, <3>2, Zenon DEF OwnInv
  <2>8. KnownInv'
    <3>1. \A y \in timers' : \E x \in timers : y.tid = x.tid /\ y.id = x.id
      BY <2>1, <2>2, Zenon
    <3> QED BY <3>1, <2>1, <2>3, <2>4 DEF HoldInv, KnownInv
  <2> QED BY <2>5, <2>7, <2>8, Zenon DEF HoldInv
<1>4. CASE ReadSlot(a)
  <2>1. ~Owns(a) /\ ~Owns(a)' /\ \A b \in Actors : b # a => op'[b] = op[b]
    <3>1. op'[a].pc \in {"destroyed", "release"} /\ \A b \in Actors : b # a => op'[b] = op[b]
      BY <1>4, <1>t, Zenon DEF ReadSlot, OpType
    <3> QED BY <1>4, <3>1, Zenon DEF ReadSlot, Owns
  <2>2. \A b \in Actors : /\ Owns(b)' <=> Owns(b)
                          /\ Owns(b) => op'[b].timer = op[b].timer /\ op'[b].tid = op[b].tid
    BY <2>1, Zenon DEF Owns
  <2> QED BY <1>4, <2>2, HoldQuiet, Zenon DEF ReadSlot
<1>5. CASE Release(a)
  <2>1. CASE slot[op[a].tid] = op[a].timer
    <3>1. /\ slot' = [slot EXCEPT ![op[a].tid] = 0] /\ UNCHANGED <<timers, created>>
          /\ ~Owns(a) /\ Owns(a)' /\ \A b \in Actors : b # a => op'[b] = op[b]
          /\ op'[a].timer = op[a].timer /\ op'[a].tid = op[a].tid
      BY <1>5, <2>1, <1>t, OpFields, Zenon DEF Release, Owns
    <3>2. op[a].tid \in Tids /\ op[a].timer # 0 /\ HasTimer(timers, op[a].timer, op[a].tid)
      BY <1>5, <1>t, <2>1, Zenon DEF Release, HoldInv, OwnInv, OpInv
    <3>3. \A b \in Actors : Owns(b)' <=> b = a \/ Owns(b)
      BY <3>1, Zenon DEF Owns
    <3>4. /\ slot'[op[a].tid] = 0
          /\ \A t \in Tids : t # op[a].tid => slot'[t] = slot[t]
      BY <3>1, <3>2, <1>n, Zenon
    <3>5. IdInv'
      BY <3>1, Zenon DEF HoldInv, IdInv
    <3>6. \A id, t : HasTimer(timers', id, t) <=> HasTimer(timers, id, t)
      BY <3>1, Zenon DEF HasTimer
    <3>7. \A t \in Tids : slot'[t] # op[a].timer
      <4>1. ASSUME NEW t \in Tids, t # op[a].tid, slot[t] = op[a].timer  PROVE FALSE
        <5>1. HasTimer(timers, op[a].timer, t)
          BY <4>1, <3>2, Zenon DEF HoldInv, OwnInv
        <5> QED BY <5>1, <3>2, <4>1, Zenon DEF HasTimer, HoldInv, IdInv
      <4> QED BY <4>1, <3>2, <3>4, Zenon
    <3>8. OwnInv'
      <4>1. \A t \in Tids : slot'[t] # 0 => HasTimer(timers', slot'[t], t)
        BY <3>4, <3>6, Zenon DEF HoldInv, OwnInv
      <4>2. \A b \in Actors : Owns(b) => op[b].timer # op[a].timer
        BY <2>1, <3>2, Zenon DEF HoldInv, OwnInv
      <4>3. ASSUME NEW c \in Actors, Owns(c), c # a
            PROVE  /\ HasTimer(timers', op'[c].timer, op'[c].tid)
                   /\ \A t \in Tids : slot'[t] # op'[c].timer
                   /\ \A b \in Actors : b # c /\ Owns(b)' => op'[b].timer # op'[c].timer
        <5>1. op'[c] = op[c] /\ op[c].timer # 0
          BY <4>3, <3>1, HeldIds, <1>n
        <5>2. /\ HasTimer(timers, op[c].timer, op[c].tid) /\ \A t \in Tids : slot[t] # op[c].timer
              /\ \A b \in Actors : b # c /\ Owns(b) => op[b].timer # op[c].timer
          BY <4>3, Zenon DEF HoldInv, OwnInv
        <5>3. HasTimer(timers', op'[c].timer, op'[c].tid)
          BY <5>1, <5>2, <3>6, Zenon
        <5>4. \A t \in Tids : slot'[t] # op'[c].timer
          BY <5>1, <5>2, <3>4, Zenon
        <5>5. \A b \in Actors : b # c /\ Owns(b)' => op'[b].timer # op'[c].timer
          BY <5>1, <5>2, <3>1, <3>3, <4>2, <4>3, Zenon
        <5> QED BY <5>3, <5>4, <5>5, Zenon
      <4>4. /\ HasTimer(timers', op'[a].timer, op'[a].tid)
            /\ \A t \in Tids : slot'[t] # op'[a].timer
            /\ \A b \in Actors : b # a /\ Owns(b)' => op'[b].timer # op'[a].timer
        BY <3>1, <3>2, <3>3, <3>6, <3>7, <4>2, Zenon
      <4> QED BY <3>1, <3>3, <4>1, <4>3, <4>4, Zenon DEF OwnInv
    <3>9. KnownInv'
      <4> SUFFICES ASSUME NEW x \in timers
                   PROVE  slot'[x.tid] = x.id \/ \E b \in Actors : Owns(b)' /\ op'[b].timer = x.id
        BY <3>1, Zenon DEF KnownInv
      <4>1. x.tid \in Tids
        BY Zenon DEF OpInv, TimersTypeOK
      <4>2. slot[x.tid] = x.id \/ \E b \in Actors : Owns(b) /\ op[b].timer = x.id
        BY Zenon DEF HoldInv, KnownInv
      <4>3. \A b \in Actors : Owns(b) => Owns(b)' /\ op'[b].timer = op[b].timer
        BY <3>1, <3>3, Zenon
      <4>4. CASE x.tid = op[a].tid /\ slot[x.tid] = x.id
        BY <4>4, <2>1, <3>1, Zenon
      <4> QED BY <4>1, <4>2, <4>3, <4>4, <3>4, Zenon
    <3> QED BY <3>5, <3>8, <3>9, Zenon DEF HoldInv
  <2>2. CASE slot[op[a].tid] # op[a].timer
    BY <1>5, <2>2, <1>t, OpFields, HoldQuiet DEF Release, Owns
  <2> QED BY <2>1, <2>2, Zenon
<1>6. CASE Delete(a)
  BY <1>6, <1>t, OpFields, HoldDelete DEF Delete, Owns
<1> QED BY <1>1, <1>2, <1>3, <1>4, <1>5, <1>6, Zenon DEF OpStep

(* The hooks and the session hold no timer themselves.                     *)
LEMMA HoldStepOther ==
    ASSUME CpuTimersShape, OpInv, HoldInv, Control \/ \E t \in Tids : ThreadStep(t)
    PROVE  HoldInv'
<1>o. op \in [Actors -> OpType] /\ Ctl \in Actors /\ \A t \in Tids : t \in Actors
  BY Zenon DEF OpInv, Actors, Ctl
<1>u. UNCHANGED <<slot, timers, created>>
  <2>1. CASE Control
    BY <2>1, Zenon DEF Control, StartTimers, ListThreads, CreateNext, CreateReturns, Started, StopTimers, SweepNext,
       SweepReturns, Stopped
  <2>2. ASSUME NEW t \in Tids, ThreadStep(t)  PROVE UNCHANGED <<slot, timers, created>>
    BY <2>2, Zenon DEF ThreadStep, Birth, OnThreadStart, StartHookDone, OnThreadEnd, EndHookDone, Gone
  <2> QED BY <2>1, <2>2, Zenon
<1>1. ASSUME NEW c \in Actors, NEW r, op' = [op EXCEPT ![c] = r], r.pc \notin {"claim", "delete"}, ~Owns(c)
      PROVE  HoldInv'
  <2>1. op'[c] = r /\ \A b \in Actors : b # c => op'[b] = op[b]
    BY <1>1, <1>o, Zenon
  <2>2. \A b \in Actors : /\ Owns(b)' <=> Owns(b)
                          /\ Owns(b) => op'[b].timer = op[b].timer /\ op'[b].tid = op[b].tid
    BY <2>1, <1>1, Zenon DEF Owns
  <2> QED BY <2>2, <1>u, HoldQuiet, Zenon
<1>2. CASE op' = op
  BY <1>2, <1>u, HoldQuiet, Zenon DEF Owns
<1>3. CASE \E t \in Tids : ThreadStep(t)
  <2>1. PICK t \in Tids : ThreadStep(t)
    BY <1>3, Zenon
  <2>2. CASE Birth(t) \/ Gone(t)
    BY <2>2, <1>2, Zenon DEF Birth, Gone
  <2>3. CASE OnThreadStart(t)
    <3>1. ~Owns(t) /\ Creating(t).pc = "create"
      BY <2>3 DEF OnThreadStart, NoOp, Owns, Creating
    <3> QED BY <2>3, <3>1, <1>o, <1>1, <1>2, Zenon DEF OnThreadStart
  <2>4. CASE StartHookDone(t)
    <3>1. ~Owns(t) /\ NoOp.pc = "done"
      BY <2>4, Zenon DEF StartHookDone, NoOp, Owns
    <3> QED BY <2>4, <3>1, <1>o, <1>1, Zenon DEF StartHookDone
  <2>5. CASE OnThreadEnd(t)
    <3>1. ~Owns(t) /\ Destroying(t).pc = "read"
      BY <2>5, Zenon DEF OnThreadEnd, Owns, Destroying, OpInv, CreatePcs, DestroyPcs
    <3> QED BY <2>5, <3>1, <1>o, <1>1, <1>2, Zenon DEF OnThreadEnd
  <2>6. CASE EndHookDone(t)
    <3>1. ~Owns(t) /\ NoOp.pc = "done"
      BY <2>6, Zenon DEF EndHookDone, NoOp, Owns
    <3> QED BY <2>6, <3>1, <1>o, <1>1, Zenon DEF EndHookDone
  <2> QED BY <2>1, <2>2, <2>3, <2>4, <2>5, <2>6, Zenon DEF ThreadStep
<1>4. CASE Control
  <2>1. CASE op' # op
    <3>1. ~Owns(Ctl) /\ NoOp.pc = "done" /\ \A t : Creating(t).pc = "create" /\ Destroying(t).pc = "read"
      BY <1>4, <2>1 DEF Control, StartTimers, ListThreads, CreateNext, CreateReturns, Started, StopTimers, SweepNext,
         SweepReturns, Stopped, NoOp, Owns, Creating, Destroying
    <3>2. \E r : op' = [op EXCEPT ![Ctl] = r] /\ r.pc \notin {"claim", "delete"}
      <4>1. CASE CreateNext
        BY <4>1, <3>1, Zenon DEF CreateNext
      <4>2. CASE SweepNext
        BY <4>2, <3>1, Zenon DEF SweepNext
      <4>3. CASE CreateReturns \/ SweepReturns
        BY <4>3, <3>1, Zenon DEF CreateReturns, SweepReturns
      <4> QED BY <1>4, <2>1, <4>1, <4>2, <4>3, Zenon DEF Control, StartTimers, ListThreads, Started, StopTimers, Stopped
    <3> QED BY <3>1, <3>2, <1>o, <1>1, Zenon
  <2> QED BY <2>1, <1>2, Zenon
<1> QED BY <1>3, <1>4, Zenon

-----------------------------------------------------------------------------
(* Which session phase lets the hooks in.                                  *)
LEMMA PhaseStep ==
    ASSUME CpuTimersShape, OpInv, PhaseInv, TimersNext
    PROVE  PhaseInv'
<1> USE DEF SessionType
<1>s. session \in SessionType
  BY Zenon DEF OpInv
<1>o. op \in [Actors -> OpType] /\ Ctl \in Actors /\ (\A t \in Tids : t \in Actors) /\ NoOp.pc = "done"
  BY Zenon DEF OpInv, Actors, Ctl, NoOp
<1>1. ASSUME NEW a \in Actors, OpStep(a)  PROVE PhaseInv'
  <2>1. UNCHANGED <<session, swept, current>> /\ op[a].pc # "done"
    BY <1>1, Zenon DEF OpStep, TimerCreate, Claim, Arm, ReadSlot, Release, Delete
  <2>2. ~(session.pc = "idle" /\ swept # Tids)
    BY <2>1, <1>o, Zenon DEF PhaseInv
  <2> QED BY <2>1, <2>2, Zenon DEF PhaseInv
<1>2. ASSUME NEW t \in Tids, ThreadStep(t)  PROVE PhaseInv'
  <2>1. UNCHANGED <<session, swept, current, slot>>
    BY <1>2, Zenon DEF ThreadStep, Birth, OnThreadStart, StartHookDone, OnThreadEnd, EndHookDone, Gone
  <2>2. CASE session.pc = "idle" /\ swept # Tids
    <3>1. ~current /\ op[t] = NoOp
      BY <2>2, <1>o, Zenon DEF PhaseInv
    <3>2. op' = op
      BY <1>2, <3>1, <1>o, Zenon DEF ThreadStep, Birth, OnThreadStart, StartHookDone, OnThreadEnd, EndHookDone, Gone
    <3> QED BY <2>1, <3>2, Zenon DEF PhaseInv
  <2>3. CASE ~(session.pc = "idle" /\ swept # Tids)
    BY <2>1, <2>3, Zenon DEF PhaseInv
  <2> QED BY <2>2, <2>3, Zenon
<1>3. CASE StartTimers
  <2>1. current' /\ session'.pc = "start"
    BY <1>3, Zenon DEF StartTimers
  <2> QED BY <2>1, Zenon DEF PhaseInv
<1>4. CASE ListThreads \/ CreateNext \/ CreateReturns
  <2>1. current' = current /\ session.pc \in {"start", "create"} /\ session'.pc = "create"
    BY <1>4, <1>s, Zenon DEF ListThreads, CreateNext, CreateReturns
  <2> QED BY <2>1, Zenon DEF PhaseInv
<1>5. CASE Started
  <2>1. current' = current /\ session.pc = "create" /\ session'.pc = "running" /\ session'.todo = {}
    BY <1>5, <1>s, Zenon DEF Started
  <2> QED BY <2>1, Zenon DEF PhaseInv
<1>6. CASE StopTimers
  <2>1. ~current' /\ session'.pc = "sweep" /\ session'.todo = Tids /\ swept' = swept /\ swept \subseteq Tids
    BY <1>6, <1>s, Zenon DEF StopTimers, OpInv
  <2> QED BY <2>1, Zenon DEF PhaseInv
<1>7. CASE SweepNext
  <2>1. PICK t \in session.todo : session' = [session EXCEPT !.todo = @ \ {t}] /\ swept' = swept \cup {t}
    BY <1>7, Zenon DEF SweepNext
  <2>2. session.pc = "sweep" /\ session'.pc = "sweep" /\ session'.todo = session.todo \ {t} /\ current' = current
    BY <1>7, <2>1, <1>s, Zenon DEF SweepNext
  <2> QED BY <2>1, <2>2, Zenon DEF PhaseInv
<1>8. CASE SweepReturns
  <2>1. session.pc = "sweep" /\ UNCHANGED <<session, swept, current>>
    BY <1>8, Zenon DEF SweepReturns
  <2> QED BY <2>1, Zenon DEF PhaseInv
<1>9. CASE Stopped
  <2>1. session.pc = "sweep" /\ session.todo = {} /\ session'.pc = "idle" /\ UNCHANGED <<swept, current>>
    BY <1>9, <1>s, Zenon DEF Stopped
  <2> QED BY <2>1, Zenon DEF PhaseInv
<1> QED BY <1>1, <1>2, <1>3, <1>4, <1>5, <1>6, <1>7, <1>8, <1>9, Zenon DEF TimersNext, Control

(* A thread that has had its chance of a timer.                            *)
Due(t) == life[t] = "up" \/ (life[t] = "born" /\ op[t].pc \in {"arm", "created", "failed"})
Coming(t) == op[Ctl].tid = t /\ op[Ctl].pc \in {"create", "claim"}

(* Every thread keeps its timer or its claim to one.                       *)
LEMMA CoverStep ==
    ASSUME CpuTimersShape, OpInv, HoldInv, PhaseInv, CoverInv, TimersNext
    PROVE  CoverInv'
<1> USE DEF SessionType
<1>s. session \in SessionType
  BY Zenon DEF OpInv
<1>o. /\ op \in [Actors -> OpType] /\ Ctl \in Actors /\ (\A t \in Tids : t \in Actors /\ t # Ctl) /\ NoOp.pc = "done"
      /\ slot \in [Tids -> 0..MaxTimers] /\ life \in [Tids -> {"none", "born", "up", "ending", "past"}]
  BY Zenon DEF OpInv, Actors, Ctl, NoOp, TimersTypeOK, CpuTimersShape
<1>c. session.pc \in {"create", "running"} =>
          \A t \in Tids \ (denied \cup session.todo) : Due(t) => slot[t] # 0 \/ Coming(t)
  BY Zenon DEF CoverInv, Due, Coming
<1>g. SUFFICES ASSUME session'.pc \in {"create", "running"},
                      NEW t \in Tids \ (denied' \cup session'.todo), Due(t)'
               PROVE  slot'[t] # 0 \/ Coming(t)'
  BY Zenon DEF CoverInv, Due, Coming
<1>1. ASSUME NEW a \in Actors, OpStep(a)  PROVE slot'[t] # 0 \/ Coming(t)'
  <2>1. UNCHANGED <<session, life>> /\ op[a].pc # "done" /\ op[a].tid \in Tids
    BY <1>1, Zenon DEF OpStep, TimerCreate, Claim, Arm, ReadSlot, Release, Delete, OpInv
  <2>2. /\ \A b \in Actors : b # a => op'[b] = op[b]
        /\ op'[a].tid = op[a].tid
    BY <1>1, <1>o, OpFrame, Zenon
  <2>3. a \in Tids => op[a].tid = a
    BY <2>1, Zenon DEF OpInv
  <2>4. CASE TimerCreate(a)
    <3>0. \/ op'[a].pc = "claim"
          \/ op'[a].pc = "failed" /\ (Exists(op[a].tid) => op[a].tid \in denied')
      <4>1. CASE op' = [op EXCEPT ![a] = [@ EXCEPT !.pc = "claim", !.timer = created + 1]]
        BY <4>1, <1>o, Zenon DEF OpType
      <4>2. CASE /\ op' = [op EXCEPT ![a].pc = "failed"]
                 /\ denied' = IF Exists(op[a].tid) THEN denied \cup {op[a].tid} ELSE denied
        <5>1. op'[a].pc = "failed"  BY <4>2, <1>o, OpFields, Zenon
        <5> QED BY <4>2, <5>1, Zenon
      <4> QED BY <2>4, <4>1, <4>2, Zenon DEF TimerCreate
    <3>1. slot' = slot /\ op'[a].pc \in {"claim", "failed"} /\ op[a].pc = "create" /\ denied \subseteq denied'
      BY <2>4, <3>0, Zenon DEF TimerCreate
    <3>2. op'[a].pc = "failed" /\ life[op[a].tid] # "none" => op[a].tid \in denied'
      BY <3>0, Zenon DEF Exists
    <3>3. CASE op[a].tid = t
      <4>1. life[t] # "none"
        BY <1>g, <2>1, Zenon DEF Due
      <4>2. op'[a].pc = "claim"
        BY <3>1, <3>2, <3>3, <4>1, Zenon
      <4>3. a = t \/ a = Ctl
        BY <2>3, <3>3, Zenon DEF Actors
      <4>4. CASE a = Ctl
        BY <4>2, <4>4, <2>2, <3>3, Zenon DEF Coming
      <4>5. CASE a = t /\ a # Ctl
        <5>1. life[t] = "up"
          BY <1>g, <2>1, <4>2, <4>5, Zenon DEF Due
        <5>2. Due(t) /\ t \in Tids \ (denied \cup session.todo)
          BY <5>1, <1>g, <2>1, <3>1, Zenon DEF Due
        <5> QED BY <5>2, <1>c, <1>g, <2>1, <2>2, <3>1, <4>5, <1>o, Zenon DEF Coming
      <4> QED BY <4>3, <4>4, <4>5, Zenon
    <3>4. CASE op[a].tid # t
      <4>1. Due(t) /\ t \in Tids \ (denied \cup session.todo)
        BY <1>g, <2>1, <2>2, <2>3, <3>1, <3>4, <1>o, Zenon DEF Due
      <4> QED BY <4>1, <1>c, <1>g, <2>1, <2>2, <3>1, <3>4, <1>o, Zenon DEF Coming
    <3> QED BY <3>3, <3>4, Zenon
  <2>5. CASE Claim(a)
    <3>1. denied' = denied /\ op'[a].pc \in {"arm", "failed"} /\ op[a].pc = "claim"
      BY <2>5, <1>o DEF Claim, OpType
    <3>2. CASE op[a].tid = t
      <4>1. op[a].timer # 0
        BY <3>1, HeldIds DEF Owns, OpInv
      <4> QED BY <3>2, <4>1, <2>5, <1>o, <1>g, Zenon DEF Claim
    <3>3. CASE op[a].tid # t
      <4>1. Due(t) /\ t \in Tids \ (denied \cup session.todo)
        BY <1>g, <2>1, <2>2, <2>3, <3>1, <3>3, <1>o, Zenon DEF Due
      <4>2. slot'[t] = slot[t]
        BY <2>5, <3>3, <1>o, <1>g, <2>1, Zenon DEF Claim
      <4> QED BY <4>1, <4>2, <1>c, <1>g, <2>1, <2>2, <3>3, <1>o, Zenon DEF Coming
    <3> QED BY <3>2, <3>3, Zenon
  <2>6. CASE Arm(a) \/ ReadSlot(a) \/ Delete(a)
    <3>1. /\ UNCHANGED <<slot, denied>>
          /\ op[a].pc \in {"arm", "read", "delete"}
          /\ op[a].pc = "arm" \/ op'[a].pc \in DestroyPcs
      <4>1. CASE Arm(a)
        BY <4>1, Zenon DEF Arm
      <4>2. CASE ReadSlot(a)
        BY <4>2, <1>o, Zenon DEF ReadSlot, OpType, DestroyPcs
      <4>3. CASE Delete(a)
        BY <4>3, <1>o, OpFields, Zenon DEF Delete, DestroyPcs
      <4> QED BY <2>6, <4>1, <4>2, <4>3, Zenon
    <3>2. Due(t)
      BY <1>g, <2>1, <2>2, <3>1, <1>o, Zenon DEF Due, DestroyPcs
    <3>3. Coming(t) => Coming(t)'
      BY <2>2, <3>1, <1>o, Zenon DEF Coming
    <3> QED BY <3>1, <3>2, <3>3, <1>c, <1>g, <2>1, Zenon
  <2>7. CASE Release(a)
    <3>1. op[a].pc = "release" /\ op'[a].pc \in DestroyPcs /\ denied' = denied
      BY <2>7, <1>o DEF Release, OpType, DestroyPcs
    <3>2. a \in Tids /\ life[a] = "ending"
      BY <3>1, <1>g, <2>1, <1>o, Zenon DEF OpInv, Actors, CreatePcs
    <3>3. a # t
      BY <3>2, <1>g, <2>1, Zenon DEF Due
    <3>4. slot'[t] = slot[t] /\ op'[t] = op[t] /\ op'[Ctl] = op[Ctl]
      BY <2>7, <3>2, <3>3, <2>2, <2>3, <1>o, <1>g, Zenon DEF Release
    <3> QED BY <3>1, <3>4, <1>c, <1>g, <2>1, Zenon DEF Due, Coming
  <2> QED BY <1>1, <2>4, <2>5, <2>6, <2>7, Zenon DEF OpStep
<1>2. ASSUME NEW u \in Tids, ThreadStep(u)  PROVE slot'[t] # 0 \/ Coming(t)'
  <2>1. UNCHANGED <<session, current, slot, denied>>
    BY <1>2, Zenon DEF ThreadStep, Birth, OnThreadStart, StartHookDone, OnThreadEnd, EndHookDone, Gone
  <2>2. \A b \in Actors : b # u => op'[b] = op[b]
    BY <1>2, <1>o, Zenon DEF ThreadStep, Birth, OnThreadStart, StartHookDone, OnThreadEnd, EndHookDone, Gone
  <2>3. \A b \in Tids : b # u => life'[b] = life[b]
    BY <1>2, <1>o, Zenon DEF ThreadStep, Birth, OnThreadStart, StartHookDone, OnThreadEnd, EndHookDone, Gone
  <2>4. current
    BY <1>g, <2>1, Zenon DEF PhaseInv
  <2>5. Due(u)' => Due(u)
    <3>1. CASE Birth(u)
      <4>1. life'[u] = "born" /\ op' = op /\ op[u].pc = "done"
        BY <3>1, <1>o, Zenon DEF Birth, OpInv
      <4> QED BY <4>1, Zenon DEF Due
    <3>2. CASE OnThreadStart(u)
      <4>1. life' = life /\ life[u] = "born" /\ op' = [op EXCEPT ![u] = Creating(u)]
        BY <3>2, <2>4, Zenon DEF OnThreadStart
      <4>2. op'[u] = Creating(u) /\ Creating(u).pc = "create"
        BY <4>1, <1>o, Zenon DEF Creating
      <4> QED BY <4>1, <4>2, Zenon DEF Due
    <3>3. CASE StartHookDone(u)
      BY <3>3, Zenon DEF StartHookDone, Due
    <3>4. CASE OnThreadEnd(u) \/ EndHookDone(u) \/ Gone(u)
      <4>1. life'[u] \in {"ending", "past", "none"}
        BY <3>4, <1>o, Zenon DEF OnThreadEnd, EndHookDone, Gone
      <4> QED BY <4>1, Zenon DEF Due
    <3> QED BY <1>2, <3>1, <3>2, <3>3, <3>4, Zenon DEF ThreadStep
  <2>6. Due(t)
    BY <1>g, <2>2, <2>3, <2>5, <1>o, Zenon DEF Due
  <2> QED BY <2>1, <2>2, <2>6, <1>c, <1>g, <1>o, Zenon DEF Coming
<1>3. CASE StartTimers \/ StopTimers \/ SweepNext \/ SweepReturns \/ Stopped
  <2>1. session'.pc \in {"start", "sweep", "idle"}
    <3>1. CASE StartTimers \/ SweepReturns
      BY <3>1, <1>s DEF StartTimers, SweepReturns
    <3>2. CASE StopTimers \/ Stopped
      BY <3>2, <1>s, Zenon DEF StopTimers, Stopped
    <3>3. CASE SweepNext
      <4>1. PICK u \in session.todo : session' = [session EXCEPT !.todo = @ \ {u}]
        BY <3>3, Zenon DEF SweepNext
      <4> QED BY <3>3, <4>1, <1>s, Zenon DEF SweepNext
    <3> QED BY <1>3, <3>1, <3>2, <3>3, Zenon
  <2> QED BY <2>1, <1>g, Zenon
<1>4. CASE ListThreads
  <2>1. session'.todo = {u \in Tids : life[u] # "none"} /\ life' = life
    BY <1>4, <1>s, Zenon DEF ListThreads, Exists
  <2> QED BY <2>1, <1>g, Zenon DEF Due
<1>5. CASE CreateNext
  <2>1. PICK u \in session.todo : /\ op' = [op EXCEPT ![Ctl] = Creating(u)]
                                 /\ session' = [session EXCEPT !.todo = @ \ {u}]
    BY <1>5, Zenon DEF CreateNext
  <2>2. op'[Ctl].tid = u /\ op'[Ctl].pc = "create" /\ \A b \in Tids : op'[b] = op[b]
    BY <2>1, <1>o, Zenon DEF Creating
  <2>3. /\ session.pc = "create" /\ op[Ctl].pc = "done" /\ UNCHANGED <<life, slot, denied>>
        /\ session'.todo = session.todo \ {u}
    BY <1>5, <2>1, <1>o, <1>s, Zenon DEF CreateNext
  <2> QED BY <2>2, <2>3, <1>c, <1>g, Zenon DEF Due, Coming
<1>6. CASE CreateReturns
  <2>1. /\ session.pc = "create" /\ op[Ctl].pc \in {"created", "failed"} /\ UNCHANGED <<life, slot, denied>>
        /\ session'.todo = session.todo
    BY <1>6, <1>s, Zenon DEF CreateReturns
  <2>2. \A b \in Tids : op'[b] = op[b]
    BY <1>6, <1>o, Zenon DEF CreateReturns
  <2> QED BY <2>1, <2>2, <1>c, <1>g, Zenon DEF Due, Coming
<1>7. CASE Started
  <2>1. session.pc = "create" /\ session'.todo = session.todo /\ UNCHANGED <<life, slot, denied, op>>
    BY <1>7, <1>s, Zenon DEF Started
  <2> QED BY <2>1, <1>c, <1>g, Zenon DEF Due, Coming
<1> QED BY <1>1, <1>2, <1>3, <1>4, <1>5, <1>6, <1>7, Zenon DEF TimersNext, Control

(* Somebody who will still see the timer in the slot of t.                 *)
Witnesses(t, a) ==
    /\ op[a].tid = t
    /\ \/ op[a].pc = "arm"
       \/ op[a].pc = "release" /\ op[a].timer = slot[t]
       \/ op[a].pc = "read" /\ a = Ctl

(* Timers left by the sweep.                                               *)
LEMMA LeftStep ==
    ASSUME CpuTimersShape, OpInv, LeftInv, TimersNext
    PROVE  LeftInv'
<1>o. /\ op \in [Actors -> OpType] /\ Ctl \in Actors /\ (\A t \in Tids : t \in Actors /\ t # Ctl) /\ NoOp.pc = "done"
      /\ slot \in [Tids -> 0..MaxTimers] /\ swept \subseteq Tids
  BY Zenon DEF OpInv, Actors, Ctl, NoOp, TimersTypeOK, CpuTimersShape
<1>c. \A t \in swept : slot[t] # 0 => t \in behind \/ \E a \in Actors : Witnesses(t, a)
  BY Zenon DEF LeftInv, Witnesses
<1>g. SUFFICES ASSUME NEW t \in swept', slot'[t] # 0
               PROVE  t \in behind' \/ \E a \in Actors : Witnesses(t, a)'
  BY Zenon DEF LeftInv, Witnesses
<1>1. ASSUME NEW c \in Actors, OpStep(c)  PROVE t \in behind' \/ \E a \in Actors : Witnesses(t, a)'
  <2>1. swept' = swept /\ behind \subseteq behind' /\ op[c].pc # "done" /\ op[c].tid \in Tids
    BY <1>1, Zenon DEF OpStep, TimerCreate, Claim, Arm, ReadSlot, Release, Delete, OpInv
  <2>2. (\A b \in Actors : b # c => op'[b] = op[b]) /\ op'[c].tid = op[c].tid
    BY <1>1, <1>o, OpFrame, Zenon
  <2>3. CASE TimerCreate(c) \/ Delete(c)
    <3>1. slot' = slot /\ op[c].pc \in {"create", "delete"}
      BY <2>3, Zenon DEF TimerCreate, Delete
    <3> QED BY <3>1, <2>1, <2>2, <1>c, <1>g DEF Witnesses
  <2>4. CASE Claim(c)
    <3>1. op[c].pc = "claim"
      BY <2>4, Zenon DEF Claim
    <3>2. CASE slot[op[c].tid] = 0 /\ op[c].tid = t
      <4>1. op'[c].pc = "arm"
        BY <2>4, <3>2, <1>o DEF Claim, OpType
      <4> QED BY <4>1, <3>2, <2>2, Zenon DEF Witnesses
    <3>3. CASE ~(slot[op[c].tid] = 0 /\ op[c].tid = t)
      <4>1. slot'[t] = slot[t]
        BY <2>4, <3>3, <2>1, <1>o, Zenon DEF Claim
      <4> QED BY <4>1, <3>1, <2>1, <2>2, <1>c, <1>g DEF Witnesses
    <3> QED BY <3>2, <3>3, Zenon
  <2>5. CASE Arm(c)
    <3>1. slot' = slot /\ (op[c].tid \in swept => op[c].tid \in behind') /\ op[c].pc = "arm"
      BY <2>5, Zenon DEF Arm
    <3> QED BY <3>1, <2>1, <2>2, <1>c, <1>g DEF Witnesses
  <2>6. CASE ReadSlot(c)
    <3>1. slot' = slot /\ op[c].pc = "read"
      BY <2>6, Zenon DEF ReadSlot
    <3>2. op[c].tid = t => op'[c].pc = "release" /\ op'[c].timer = slot[t]
      BY <2>6, <3>1, <1>g, <1>o, Zenon DEF ReadSlot, OpType
    <3> QED BY <3>1, <3>2, <2>1, <2>2, <1>c, <1>g DEF Witnesses
  <2>7. CASE Release(c)
    <3>1. op[c].pc = "release"
      BY <2>7, Zenon DEF Release
    <3>2. slot'[t] = slot[t] /\ (op[c].tid = t => op[c].timer # slot[t])
      BY <2>7, <1>g, <1>o, <2>1, Zenon DEF Release
    <3> QED BY <3>1, <3>2, <2>1, <2>2, <1>c, <1>g DEF Witnesses
  <2> QED BY <1>1, <2>3, <2>4, <2>5, <2>6, <2>7, Zenon DEF OpStep
<1>2. ASSUME NEW c \in Actors, NEW r, UNCHANGED <<slot, swept, behind>>, op' = [op EXCEPT ![c] = r],
             op[c].pc \in {"done", "created", "failed", "destroyed"}
      PROVE  t \in behind' \/ \E a \in Actors : Witnesses(t, a)'
  <2>1. \A b \in Actors : b # c => op'[b] = op[b]
    BY <1>2, <1>o, Zenon
  <2> QED BY <2>1, <1>2, <1>c, <1>g DEF Witnesses
<1>3. CASE UNCHANGED <<slot, swept, behind, op>>
  BY <1>3, <1>c, <1>g, Zenon DEF Witnesses
<1>4. ASSUME NEW u \in Tids, ThreadStep(u)  PROVE t \in behind' \/ \E a \in Actors : Witnesses(t, a)'
  <2>1. CASE op' = op
    BY <1>4, <2>1, <1>3, Zenon DEF ThreadStep, Birth, OnThreadStart, StartHookDone, OnThreadEnd, EndHookDone, Gone
  <2>2. CASE op' # op
    <3>1. UNCHANGED <<slot, swept, behind>>
      BY <1>4, Zenon DEF ThreadStep, Birth, OnThreadStart, StartHookDone, OnThreadEnd, EndHookDone, Gone
    <3>2. \E r : op' = [op EXCEPT ![u] = r]
      BY <1>4, <2>2, Zenon DEF ThreadStep, Birth, OnThreadStart, StartHookDone, OnThreadEnd, EndHookDone, Gone
    <3>3. op[u].pc \in {"done", "created", "failed", "destroyed"}
      <4>1. CASE OnThreadEnd(u)
        BY <4>1, Zenon DEF OnThreadEnd, OpInv
      <4> QED BY <1>4, <2>2, <4>1, <1>o, Zenon DEF ThreadStep, Birth, OnThreadStart, StartHookDone, EndHookDone, Gone
    <3> QED BY <3>1, <3>2, <3>3, <1>2, <1>o, Zenon
  <2> QED BY <2>1, <2>2, Zenon
<1>5. CASE StartTimers
  BY <1>5, <1>g, Zenon DEF StartTimers
<1>6. CASE ListThreads \/ Started \/ StopTimers \/ Stopped
  BY <1>6, <1>3, Zenon DEF ListThreads, Started, StopTimers, Stopped
<1>7. CASE CreateNext
  BY <1>7, <1>2, <1>o, Zenon DEF CreateNext
<1>8. CASE CreateReturns \/ SweepReturns
  BY <1>8, <1>2, <1>o, Zenon DEF CreateReturns, SweepReturns
<1>9. CASE SweepNext
  <2>1. PICK u \in session.todo : op' = [op EXCEPT ![Ctl] = Destroying(u)] /\ swept' = swept \cup {u}
    BY <1>9, Zenon DEF SweepNext
  <2>2. op[Ctl].pc = "done" /\ UNCHANGED <<slot, behind>>
    BY <1>9, <1>o, Zenon DEF SweepNext
  <2>3. op'[Ctl].tid = u /\ op'[Ctl].pc = "read" /\ \A b \in Actors : b # Ctl => op'[b] = op[b]
    BY <2>1, <1>o, Zenon DEF Destroying
  <2> QED BY <2>1, <2>2, <2>3, <1>c, <1>g, <1>o DEF Witnesses
<1> QED BY <1>1, <1>4, <1>5, <1>6, <1>7, <1>8, <1>9, Zenon DEF TimersNext, Control

-----------------------------------------------------------------------------
(* The invariant holds before the first session.                           *)
LEMMA TimersInitInv ==
    ASSUME CpuTimersShape, TimersInit
    PROVE  TimerInv
<1> USE DEF TimersInit, SessionType
<1>1. NoOp \in OpType /\ NoOp.pc = "done" /\ 0 \in 0..MaxTimers
  BY DEF NoOp, OpType, CpuTimersShape
<1>2. /\ \A a \in Actors : op[a] = NoOp
      /\ \A t \in Tids : slot[t] = 0 /\ t \in Actors
      /\ session.pc = "idle" /\ timers = {} /\ swept = {} /\ ~current /\ Ctl \in Actors
  BY Zenon DEF Actors, Ctl
<1>3. TimersTypeOK
  BY <1>1, Zenon DEF TimersTypeOK
<1>4. op \in [Actors -> OpType]
  BY <1>1, Zenon
<1>5. session \in SessionType
  BY Zenon
<1>6. OpInv
  <2>1. \A a \in Actors : op[a].pc = "done"
    BY <1>1, <1>2, Zenon
  <2>2. \A t \in Tids : op[t].pc = "done"
    BY <1>2, <2>1, Zenon
  <2>3. op[Ctl].pc = "done"
    BY <1>2, <2>1, Zenon
  <2>4. /\ swept \subseteq Tids /\ behind \subseteq Tids /\ denied \subseteq Tids /\ sessions \in Nat
        /\ created \in 0..MaxTimers
    BY <1>1, Zenon
  <2> HIDE DEF TimersInit
  <2> QED BY <1>1, <1>2, <1>3, <1>4, <1>5, <2>1, <2>2, <2>3, <2>4, Zenon DEF OpInv
<1> HIDE DEF TimersInit
<1>7. HoldInv
  BY <1>1, <1>2, Zenon DEF HoldInv, IdInv, OwnInv, KnownInv, Owns
<1>8. PhaseInv /\ CoverInv /\ LeftInv
  BY <1>1, <1>2, Zenon DEF PhaseInv, CoverInv, LeftInv
<1> QED BY <1>6, <1>7, <1>8, Zenon DEF TimerInv

(* Every step keeps it.                                                    *)
LEMMA TimersNextInv ==
    ASSUME CpuTimersShape, TimerInv, [TimersNext]_timersVars
    PROVE  TimerInv'
<1>1. CASE TimersNext
  <2>1. OpInv'
    BY <1>1, OpStepOp, OpStepThread, OpStepControl, Zenon DEF TimersNext, TimerInv, HoldInv
  <2>2. HoldInv'
    BY <1>1, HoldStepOp, HoldStepOther, Zenon DEF TimersNext, TimerInv
  <2>3. PhaseInv' /\ CoverInv' /\ LeftInv'
    BY <1>1, PhaseStep, CoverStep, LeftStep, Zenon DEF TimerInv
  <2> QED BY <2>1, <2>2, <2>3, Zenon DEF TimerInv
<1>2. CASE UNCHANGED timersVars
  <2>1. /\ UNCHANGED <<life, current, slot, timers, op, session>>
        /\ UNCHANGED <<swept, behind, denied, created, sessions, births>>
    BY <1>2, Zenon DEF timersVars
  <2>2. TimersTypeOK' = TimersTypeOK  BY <2>1, Zenon DEF TimersTypeOK
  <2>3. OpInv' = OpInv  BY <2>1, <2>2, Zenon DEF OpInv
  <2>4. IdInv' = IdInv  BY <2>1, Zenon DEF IdInv
  <2>5. OwnInv' = OwnInv  BY <2>1, ZenonT(60) DEF OwnInv, Owns, HasTimer
  <2>6. KnownInv' = KnownInv  BY <2>1, Zenon DEF KnownInv, Owns
  <2>7. PhaseInv' = PhaseInv  BY <2>1, Zenon DEF PhaseInv
  <2>8. CoverInv' = CoverInv  BY <2>1, Zenon DEF CoverInv
  <2>9. LeftInv' = LeftInv  BY <2>1 DEF LeftInv
  <2> QED BY <2>3, <2>4, <2>5, <2>6, <2>7, <2>8, <2>9, Zenon DEF TimerInv, HoldInv
<1> QED BY <1>1, <1>2, Zenon

(* It implies what the run checks.                                         *)
LEMMA InvIsEnough ==
    ASSUME CpuTimersShape, TimerInv
    PROVE  TimersSound
<1>1. TimersAccounted
  <2>1. \A x \in timers :
          \/ slot[x.tid] = x.id
          \/ \E a \in Actors : op[a].timer = x.id /\ op[a].pc \in {"claim", "delete"}
    BY Zenon DEF TimerInv, HoldInv, KnownInv, Owns
  <2>2. \A a \in Actors : op[a].pc = "delete" =>
          /\ \E x \in timers : x.id = op[a].timer
          /\ \A t \in Tids : slot[t] # op[a].timer
          /\ \A b \in Actors : b # a /\ op[b].timer = op[a].timer => op[b].pc # "delete"
    BY Zenon DEF TimerInv, HoldInv, OwnInv, Owns, HasTimer
  <2> QED BY <2>1, <2>2, Zenon DEF TimersAccounted
<1>2. SessionCoversThreads
  <2>0. Ctl \in Actors /\ (session.pc \in {"idle", "running"} => op[Ctl].pc = "done")
    BY Zenon DEF TimerInv, OpInv, Actors
  <2>1. session.pc = "running" => \A t \in Tids \ denied : life[t] = "up" => slot[t] # 0
    BY <2>0, Zenon DEF TimerInv, PhaseInv, CoverInv
  <2>2. ASSUME session.pc = "idle", NEW t \in Tids, slot[t] # 0
        PROVE  t \in behind \/ \E a \in Actors : op[a].tid = t /\ op[a].pc \in {"claim", "arm", "release"}
    <3>1. t \in swept
      BY <2>2, Zenon DEF TimerInv, PhaseInv
    <3> QED BY <2>0, <2>2, <3>1, Zenon DEF TimerInv, LeftInv
  <2> QED BY <2>1, <2>2, Zenon DEF SessionCoversThreads
<1> QED BY <1>1, <1>2, Zenon DEF TimersSound

(* For any number of threads and sessions, whoever runs createForThread,   *)
(* destroyForThread or the sweep at once: no kernel timer is lost and none *)
(* is deleted twice; every thread of a running session has a timer, unless *)
(* timer_create failed for it; and a stop leaves only those timers that    *)
(* were being created as the sweep went past.                              *)
THEOREM TimersAreSound == CpuTimersShape => (TimersSpec => []TimersSound)
<1> SUFFICES ASSUME CpuTimersShape  PROVE TimersSpec => []TimersSound
  BY Zenon
<1>1. TimersInit => TimerInv
  BY TimersInitInv, Zenon
<1>2. TimerInv /\ [TimersNext]_timersVars => TimerInv'
  BY TimersNextInv, Zenon
<1>3. TimerInv => TimersSound
  BY InvIsEnough, Zenon
<1> QED BY <1>1, <1>2, <1>3, PTL DEF TimersSpec
=============================================================================
