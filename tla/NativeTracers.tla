---------------------------- MODULE NativeTracers ----------------------------
(***************************************************************************)
(* mallocTracer.cpp behind its hooks: each hook calls the original         *)
(* function and then, if the tracer runs, records. Calls are sampled by    *)
(* interval with Engine::updateCounter, a compare-and-swap loop over a     *)
(* counter that all threads share. The leak report of a recording matches  *)
(* the free of an address with the allocation before it, so the last event *)
(* of each address is what matters.                                        *)
(***************************************************************************)
EXTENDS Integers, Sequences, FiniteSets

CONSTANTS Threads, Addresses,
          Sizes,             \* sizes asked for; 0 is one that malloc accepts
          Intervals,         \* values of nativemem=N
          MaxStarts, MaxBytes

VARIABLES
    _running, _interval, _nofree,
    _allocated_bytes,
    starts,
    live,        \* set of allocated addresses
    last,        \* address -> last event recorded of it
    t,           \* thread -> [pc, op, old, new, size, prev, interval]; 0 is NULL
    total,       \* history: bytes counted since start
    crossed,     \* history: bytes of the intervals that the counter has completed
    unmatched    \* history: addresses whose last event may not match, and why

vars == <<_running, _interval, _nofree, _allocated_bytes, starts, live, last, t, total, crossed, unmatched>>
control == <<_running, _interval, _nofree, starts>>
counts == <<_allocated_bytes, total, crossed>>

NULL == 0
Rest == [pc |-> "idle", op |-> "none", old |-> NULL, new |-> NULL, size |-> 0, prev |-> 0, interval |-> 0]

Init ==
    /\ _running = FALSE /\ _interval = 0 /\ _nofree = FALSE
    /\ _allocated_bytes = 0
    /\ starts = 0
    /\ live = {}
    /\ last = [a \in Addresses |-> "none"]
    /\ t = [i \in Threads |-> Rest]
    /\ total = 0 /\ crossed = 0 
    /\ unmatched = {}

(* start resets the counter before the hooks are on. What was allocated    *)
(* before is not in the recording.                                         *)
start ==
    /\ ~_running /\ starts < MaxStarts
    /\ starts' = starts + 1
    /\ _running' = TRUE
    /\ _interval' \in Intervals /\ _nofree' \in BOOLEAN
    /\ _allocated_bytes' = 0 /\ total' = 0 /\ crossed' = 0 
    /\ last' = [a \in Addresses |-> "none"]
    /\ unmatched' = Addresses
    /\ UNCHANGED <<live, t>>

stop == _running /\ _running' = FALSE /\ UNCHANGED <<_interval, _nofree, starts, live, last, t, counts, unmatched>>

-----------------------------------------------------------------------------
(* The original function is called first. An address is handed out again   *)
(* as soon as it is free, even if its free has yet to be recorded; such an *)
(* address is unmatched. realloc with size 0 frees and returns NULL.       *)
Enter(i, op, old, new, size) ==
    t' = [t EXCEPT ![i] = [pc |-> "returned", op |-> op, old |-> old, new |-> new, size |-> size, prev |-> 0, interval |-> 0]]
InFlight(a) == \E j \in Threads : t[j].pc # "idle" /\ a \in {t[j].old, t[j].new}
Reused(a) == IF InFlight(a) THEN unmatched \cup {a} ELSE unmatched \ {a}

malloc(i) == \* and calloc, aligned_alloc, posix_memalign
    /\ t[i].pc = "idle"
    /\ \E a \in Addresses \ live, size \in Sizes :
         live' = live \cup {a} /\ unmatched' = Reused(a) /\ Enter(i, "malloc", NULL, a, size)
    /\ UNCHANGED <<control, counts, last>>

free(i) ==
    /\ t[i].pc = "idle"
    /\ \E a \in live : ~InFlight(a) /\ live' = live \ {a} /\ Enter(i, "free", a, NULL, 0)
    /\ UNCHANGED <<control, counts, last, unmatched>>

realloc(i) ==
    /\ t[i].pc = "idle"
    /\ \E a \in live, size \in Sizes :
         /\ ~InFlight(a)
         /\ IF size = 0
            THEN live' = live \ {a} /\ unmatched' = unmatched \cup {a} /\ Enter(i, "realloc", a, NULL, 0)
            ELSE \E b \in (Addresses \ live) \cup {a} :
                   /\ live' = (live \ {a}) \cup {b}
                   /\ unmatched' = IF b = a THEN unmatched ELSE Reused(b)
                   /\ Enter(i, "realloc", a, b, size)
    /\ UNCHANGED <<control, counts, last>>

-----------------------------------------------------------------------------
(* The hook behind the call. realloc records the free of the old block     *)
(* first and then the allocation.                                          *)
FreesOld(h) == _running /\ ~_nofree /\ (h.op = "free" \/ (h.op = "realloc" /\ h.new # NULL))
CountsNew(h) == _running /\ h.new # NULL /\ h.size > 0
Unrecorded(h) == ((IF FreesOld(h) THEN {} ELSE {h.old}) \cup
                  (IF CountsNew(h) /\ _interval <= 1 THEN {} ELSE {h.new})) \ {NULL}

Hook(i) ==
    /\ t[i].pc = "returned"
    /\ t' = [t EXCEPT ![i] = IF FreesOld(@) THEN [@ EXCEPT !.pc = "free event"]
                             ELSE IF CountsNew(@) THEN [@ EXCEPT !.pc = "count", !.interval = _interval] ELSE Rest]
    /\ unmatched' = unmatched \cup Unrecorded(t[i])
    /\ UNCHANGED <<control, counts, live, last>>

recordFree(i) ==
    /\ t[i].pc = "free event"
    /\ last' = [last EXCEPT ![t[i].old] = "free"]
    /\ t' = [t EXCEPT ![i] = IF @.new # NULL /\ @.size > 0 THEN [@ EXCEPT !.pc = "count", !.interval = _interval] ELSE Rest]
    /\ UNCHANGED <<control, counts, live, unmatched>>

(* updateCounter: with an interval of 0 or 1 every call is a sample.       *)
ReadCounter(i) ==
    /\ t[i].pc = "count"
    /\ t' = [t EXCEPT ![i].pc = IF t[i].interval <= 1 THEN "sample" ELSE "swap", ![i].prev = _allocated_bytes]
    /\ UNCHANGED <<control, counts, live, last, unmatched>>

StoreOverRead(i) ==
    /\ t[i].pc = "swap"
    /\ LET next == t[i].prev + t[i].size
       IN /\ _allocated_bytes' = IF next < t[i].interval THEN next ELSE next % t[i].interval
          /\ total' = total + t[i].size
          /\ crossed' = crossed + (next - _allocated_bytes')
          /\ t' = [t EXCEPT ![i] = IF next < t[i].interval THEN Rest ELSE [@ EXCEPT !.pc = "sample"]]
    /\ UNCHANGED <<control, live, last, unmatched>>
SwapCounter(i) ==
    /\ t[i].pc = "swap" /\ total < MaxBytes
    /\ LET next == t[i].prev + t[i].size
       IN IF t[i].prev # _allocated_bytes
          THEN t' = [t EXCEPT ![i].pc = "count"] /\ UNCHANGED <<_allocated_bytes, total, crossed>>
          ELSE /\ _allocated_bytes' = IF next < t[i].interval THEN next ELSE next % t[i].interval
               /\ total' = total + t[i].size
               /\ crossed' = crossed + (next - _allocated_bytes')
               /\ t' = [t EXCEPT ![i] = IF next < t[i].interval THEN Rest ELSE [@ EXCEPT !.pc = "sample"]]
    /\ UNCHANGED <<control, live, last, unmatched>>

recordMalloc(i) ==
    /\ t[i].pc = "sample"
    /\ last' = [last EXCEPT ![t[i].new] = "malloc"]
    /\ t' = [t EXCEPT ![i] = Rest]
    /\ UNCHANGED <<control, _allocated_bytes, total, crossed, live, unmatched>>

Next ==
    \/ start \/ stop
    \/ \E i \in Threads : \/ malloc(i) \/ free(i) \/ realloc(i) \/ Hook(i) \/ recordFree(i)
                          \/ ReadCounter(i) \/ SwapCounter(i) \/ recordMalloc(i)

Spec == Init /\ [][Next]_vars

-----------------------------------------------------------------------------
TypeOK ==
    /\ live \subseteq Addresses /\ unmatched \subseteq Addresses
    /\ _interval \in Intervals \cup {0} /\ _allocated_bytes \in Nat
    /\ \A i \in Threads : t[i].pc \in {"idle", "returned", "free event", "count", "swap", "sample"}
    /\ \A a \in Addresses : last[a] \in {"none", "malloc", "free"}

(* No byte is lost between threads that count at once: the bytes counted   *)
(* are those of the intervals completed and the rest in the counter, which *)
(* is less than an interval. And while every call is recorded, an          *)
(* address outside a hook is allocated if and only if its last event is an *)
(* allocation, but for addresses reused before their free was recorded,    *)
(* those of realloc to size 0, and those of before the session.            *)
AllocationsAccounted ==
    /\ total = crossed + _allocated_bytes /\ \E n \in Intervals : _allocated_bytes = 0 \/ _allocated_bytes < n
    /\ _running /\ _interval <= 1 => \A a \in Addresses \ unmatched :
           ~InFlight(a) => (a \in live <=> last[a] = "malloc")
=============================================================================
