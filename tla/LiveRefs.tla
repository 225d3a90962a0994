------------------------------ MODULE LiveRefs ------------------------------
(***************************************************************************)
(* The table of weak references to sampled objects behind the live option  *)
(* (objectSampler.cpp). Allocating threads add references under a          *)
(* try-lock, the collector frees objects concurrently, and the stop of the *)
(* session takes the lock for good and records what is still alive. The    *)
(* lock is held between sessions: a session's init releases it, the dump   *)
(* at its end takes it.                                                    *)
(***************************************************************************)
EXTENDS Integers, FiniteSets

CONSTANTS
    Threads, Objects,
    MaxRefs,      \* MAX_REFS
    MaxSessions, MaxGcs  \* bounds

LiveRefsShape ==
    MaxRefs \in Nat \ {0} /\ MaxSessions \in Nat /\ MaxGcs \in Nat

VARIABLES
    lock,      \* _lock: 0 free, 1 held, negative as for shared holders
    refs,      \* _refs: the object a slot's weak reference was made for
    full,      \* _full
    live,      \* _live
    jfr,       \* the live session writes a JFR recording
    phase,     \* the session: idle, started, stopping, dumping
    at,        \* the slot the dump has come to
    pc,        \* each thread in recordAllocation and add
    heap,      \* unborn, alive or dead, for each object
    weak,      \* weak references in existence, by object
    twice,     \* history: some weak reference was deleted twice
    counted,   \* objects whose samples the call trace counters hold
    overtaken, \* history: objects of callbacks the dump's reset came before
    recorded,  \* objects the last dump recorded as live
    missed,    \* history: live objects whose event found no free lock
    gc, sessions, gcs

tally == <<counted, overtaken, recorded, missed>>
vars == <<lock, refs, full, live, jfr, phase, at, pc, heap, weak, twice, tally, gc, sessions, gcs>>

None == "none"
Slots == 0..(MaxRefs - 1)
Out == [at |-> "out"]
Holding(o) == \E t \in Threads : pc[t].at # "out" /\ pc[t].obj = o

Init ==
    /\ lock = 1 /\ refs = [i \in Slots |-> None] /\ full = FALSE /\ live = FALSE /\ jfr = FALSE
    /\ phase = "idle" /\ at = 0 /\ pc = [t \in Threads |-> Out]
    /\ heap = [o \in Objects |-> "unborn"] /\ weak = {} /\ twice = FALSE
    /\ counted = {} /\ overtaken = {} /\ recorded = {} /\ missed = {} /\ gc = FALSE /\ sessions = 0 /\ gcs = 0

(* DeleteWeakGlobalRef for a set of references.                            *)
Delete(W) == weak' = weak \ W /\ twice' = (twice \/ ~(W \subseteq weak))
(* collected: the reference of a slot has been cleared by the collector.   *)
Collected(o) == heap[o] = "dead"
Taken(i) == refs[i] # None /\ ~Collected(refs[i])

-----------------------------------------------------------------------------
(* The session.                                                            *)

(* initLiveRefs: the table is emptied and the lock released.               *)
StartSession(l, j) ==
    /\ phase = "idle" /\ sessions < MaxSessions /\ sessions' = sessions + 1
    /\ live' = l /\ jfr' = (l /\ j)
    /\ IF l THEN /\ refs' = [i \in Slots |-> None] /\ full' = FALSE /\ lock' = lock - 1
            ELSE UNCHANGED <<refs, full, lock>>
    /\ counted' = {} /\ recorded' = {} /\ missed' = {}
    /\ phase' = "started" /\ overtaken' = {}
    /\ UNCHANGED <<at, pc, heap, weak, twice, gc, gcs>>

(* stop: allocation events are switched off; callbacks may be under way.   *)
Disable ==
    /\ phase = "started"
    /\ phase' = IF live THEN "stopping" ELSE "idle"
    /\ UNCHANGED <<lock, refs, full, live, jfr, at, pc, heap, weak, twice, tally, gc, sessions, gcs>>

(* The objects of callbacks that have not counted their sample yet.        *)
Uncounted == {pc[t].obj : t \in {u \in Threads : pc[u].at = "record"}}

(* Faulty variant: the samples counted so far are kept.                    *)
DumpKeepsCounters ==
    /\ phase = "stopping" /\ lock = 0 /\ lock' = 1
    /\ phase' = "dumping" /\ at' = 0 /\ overtaken' = Uncounted
    /\ UNCHANGED <<refs, full, live, jfr, pc, heap, weak, twice, counted, recorded, missed, gc,
                   sessions, gcs>>

(* dump takes the lock and resets the counters, unless a JFR recording is  *)
(* active, which keeps each sample on its own.                             *)
Dump ==
    /\ phase = "stopping" /\ lock = 0 /\ lock' = 1
    /\ phase' = "dumping" /\ at' = 0 /\ overtaken' = Uncounted
    /\ counted' = IF jfr THEN counted ELSE {}
    /\ UNCHANGED <<refs, full, live, jfr, pc, heap, weak, twice, recorded, missed, gc, sessions, gcs>>

(* Each reference still alive is recorded, and deleted in any case. The    *)
(* event for the recording is dropped when no lock is free.                *)
DumpSlot ==
    /\ phase = "dumping" /\ at \in Slots /\ at' = at + 1
    /\ LET o == refs[at]
           alive == o # None /\ ~Collected(o)
       IN  /\ \/ alive /\ recorded' = recorded \cup {o} /\ UNCHANGED missed
              \/ alive /\ jfr /\ missed' = missed \cup {o} /\ UNCHANGED recorded
              \/ ~alive /\ UNCHANGED <<recorded, missed>>
           /\ counted' = IF alive THEN counted \cup {o} ELSE counted
           /\ IF o # None THEN Delete({o}) ELSE UNCHANGED <<weak, twice>>
    /\ UNCHANGED <<lock, refs, full, live, jfr, phase, pc, heap, overtaken, gc, sessions, gcs>>

(* The session ends. The lock stays taken: what is added from now on would *)
(* be of no use.                                                           *)
DumpEnd ==
    /\ phase = "dumping" /\ at = MaxRefs
    /\ phase' = "idle" /\ at' = 0 /\ jfr' = FALSE
    /\ recorded' = {} /\ missed' = {} /\ overtaken' = {}
    /\ UNCHANGED <<lock, refs, full, live, pc, heap, weak, twice, counted, gc, sessions, gcs>>

-----------------------------------------------------------------------------
(* The collector.                                                          *)

(* GarbageCollectionStart: there may soon be room again.                   *)
GcStart ==
    /\ ~gc /\ gcs < MaxGcs /\ gcs' = gcs + 1 /\ gc' = TRUE
    /\ full' = IF phase = "started" THEN FALSE ELSE full
    /\ UNCHANGED <<lock, refs, live, jfr, phase, at, pc, heap, weak, twice, tally, sessions>>

(* An object no thread refers to is freed and its weak reference cleared.  *)
Die(o) ==
    /\ gc /\ heap[o] = "alive" /\ ~Holding(o)
    /\ heap' = [heap EXCEPT ![o] = "dead"]
    /\ UNCHANGED <<lock, refs, full, live, jfr, phase, at, pc, weak, twice, tally, gc, sessions,
                   gcs>>

GcEnd ==
    /\ gc /\ gc' = FALSE
    /\ UNCHANGED <<lock, refs, full, live, jfr, phase, at, pc, heap, weak, twice, tally,
                   sessions, gcs>>

-----------------------------------------------------------------------------
(* An allocating thread.                                                   *)

(* An allocation event for a new object.                                   *)
Allocate(t, o) ==
    /\ phase = "started" /\ pc[t] = Out /\ heap[o] = "unborn"
    /\ heap' = [heap EXCEPT ![o] = "alive"]
    /\ pc' = [pc EXCEPT ![t] = [at |-> "record", obj |-> o, i |-> 0, start |-> 0]]
    /\ UNCHANGED <<lock, refs, full, live, jfr, phase, at, weak, twice, tally, gc, sessions, gcs>>

(* recordSample counts the sample; then, for live sampling, add looks at   *)
(* _full.                                                                  *)
Record(t) ==
    /\ pc[t].at = "record"
    /\ counted' = counted \cup {pc[t].obj}
    /\ pc' = [pc EXCEPT ![t] = IF live THEN [@ EXCEPT !.at = "full"] ELSE Out]
    /\ UNCHANGED <<lock, refs, full, live, jfr, phase, at, heap, weak, twice, overtaken,
                   recorded, missed, gc, sessions, gcs>>

MakeWeak(t) ==
    /\ pc[t].at = "full"
    /\ IF full THEN pc' = [pc EXCEPT ![t] = Out] /\ UNCHANGED weak
               ELSE /\ pc' = [pc EXCEPT ![t].at = "lock"]
                    /\ weak' = weak \cup {pc[t].obj}
    /\ UNCHANGED <<lock, refs, full, live, jfr, phase, at, heap, twice, tally, gc, sessions, gcs>>

(* Faulty variant: a reference that could not be added is forgotten.       *)
GiveUpLeaks(t) ==
    /\ pc[t].at = "delete"
    /\ pc' = [pc EXCEPT ![t] = Out]
    /\ UNCHANGED <<lock, refs, full, live, jfr, phase, at, heap, weak, twice, tally, gc,
                   sessions, gcs>>

(* tryLock; the probing starts at a slot the hash gives.                   *)
TryLock(t, s) ==
    /\ pc[t].at = "lock"
    /\ IF lock = 0
       THEN lock' = 1 /\ pc' = [pc EXCEPT ![t] = [@ EXCEPT !.at = "scan", !.i = s, !.start = s]]
       ELSE pc' = [pc EXCEPT ![t].at = "delete"] /\ UNCHANGED lock
    /\ UNCHANGED <<refs, full, live, jfr, phase, at, heap, weak, twice, tally, gc, sessions, gcs>>

(* A free slot, or one whose object was collected, takes the reference;    *)
(* after a full round the table is full.                                   *)
Scan(t) ==
    /\ pc[t].at = "scan"
    /\ LET i == pc[t].i
           next == (i + 1) % MaxRefs
       IN  \/ /\ ~Taken(i)
              /\ refs' = [refs EXCEPT ![i] = pc[t].obj]
              /\ lock' = lock - 1 /\ pc' = [pc EXCEPT ![t] = Out]
              /\ IF refs[i] # None THEN Delete({refs[i]}) ELSE UNCHANGED <<weak, twice>>
              /\ UNCHANGED full
           \/ /\ Taken(i)
              /\ IF next # pc[t].start
                 THEN pc' = [pc EXCEPT ![t].i = next] /\ UNCHANGED <<full, lock>>
                 ELSE full' = TRUE /\ lock' = lock - 1 /\ pc' = [pc EXCEPT ![t].at = "delete"]
              /\ UNCHANGED <<refs, weak, twice>>
    /\ UNCHANGED <<live, jfr, phase, at, heap, tally, gc, sessions, gcs>>

GiveUp(t) ==
    /\ pc[t].at = "delete"
    /\ Delete({pc[t].obj})
    /\ pc' = [pc EXCEPT ![t] = Out]
    /\ UNCHANGED <<lock, refs, full, live, jfr, phase, at, heap, tally, gc, sessions, gcs>>

Callback(t) == Record(t) \/ MakeWeak(t) \/ (\E s \in Slots : TryLock(t, s)) \/ Scan(t) \/ GiveUp(t)
Stopping == Disable \/ Dump \/ DumpSlot \/ DumpEnd

Next ==
    \/ \E l, j \in BOOLEAN : StartSession(l, j)
    \/ Stopping
    \/ GcStart \/ (\E o \in Objects : Die(o)) \/ GcEnd
    \/ \E t \in Threads : (\E o \in Objects : Allocate(t, o)) \/ Callback(t)

(* Threads in a callback and the thread that stops the session keep        *)
(* running; nothing waits for anything but the table's lock.               *)
Fairness == WF_vars(Stopping) /\ \A t \in Threads : WF_vars(Callback(t))

Spec == Init /\ [][Next]_vars /\ Fairness

-----------------------------------------------------------------------------
(* Properties.                                                             *)

(* Every variable has its type; the lock is free or held exclusively.      *)
TypeOK ==
    /\ lock \in {0, 1} /\ refs \in [Slots -> Objects \cup {None}]
    /\ full \in BOOLEAN /\ live \in BOOLEAN /\ jfr \in BOOLEAN
    /\ phase \in {"idle", "started", "stopping", "dumping"} /\ at \in 0..MaxRefs
    /\ heap \in [Objects -> {"unborn", "alive", "dead"}] /\ weak \subseteq Objects

(* Weak references are neither leaked nor deleted twice, whichever of add  *)
(* and dump ends up owning them: those in existence are in the table of a  *)
(* session not dumped yet, or in the hands of a thread in add.             *)
WeakRefsBalance ==
    LET tabled == IF phase \in {"started", "stopping"} /\ live
                  THEN {refs[i] : i \in Slots} \ {None}
                  ELSE IF phase = "dumping" THEN {refs[i] : i \in at..(MaxRefs - 1)} \ {None}
                  ELSE {}
        held == {pc[t].obj : t \in {u \in Threads : pc[u].at \in {"lock", "scan", "delete"}}}
    IN  ~twice /\ weak = tabled \cup held

(* "Retain allocation samples with live objects only (object that have not *)
(* been collected by the end of profiling session)": when the dump is over *)
(* it has recorded every object in the table that is still alive, events   *)
(* of a JFR recording that found no free lock excepted; and the counters,  *)
(* which other outputs are made from, hold what it recorded and besides    *)
(* only samples of callbacks that had passed the _enabled test when the    *)
(* dump reset the counters.                                                *)
LiveSamplesOnly ==
    (phase = "dumping" /\ at = MaxRefs) =>
        /\ \A i \in Slots : refs[i] # None /\ heap[refs[i]] = "alive" => refs[i] \in recorded \cup missed
        /\ recorded \subseteq counted
        /\ ~jfr => missed = {} /\ counted \subseteq recorded \cup overtaken

(* A stop that has begun ends: the dump gets the lock from whatever        *)
(* callbacks are still in the table.                                       *)
StopEnds == (phase = "stopping") ~> (phase = "idle")
=============================================================================
