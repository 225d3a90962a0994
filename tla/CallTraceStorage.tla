-------------------------- MODULE CallTraceStorage --------------------------
(***************************************************************************)
(* The lock-free store of call traces (callTraceStorage.cpp): a chain of   *)
(* open-addressing hash tables, each twice as large as the one before.     *)
(*                                                                         *)
(* A trace is known by its hash, which is never 0 here (a hash of 0 looks  *)
(* like a free slot; see the README). put() runs on many threads at once.  *)
(* recordSample calls it holding one of the slots that lockAll takes, so   *)
(* these threads ("inside") never run while traces are being collected;    *)
(* recordExternalSample and recordExternalSamples call put() and add()     *)
(* without a slot ("outside"), so theirs may.                              *)
(***************************************************************************)
EXTENDS Integers, FiniteSets, FiniteSetsExt

CONSTANTS
    Inside, Outside,  \* threads with and without a slot
    Hashes,
    Uncounted,        \* the traces that are also put with a zero counter
    Initial,          \* INITIAL_CAPACITY, a power of two
    MaxTables,        \* tables the system can provide memory for
    MemLimits,        \* the limits given to clear, in table entries and traces
    MaxPuts,          \* bound on the calls of put and add
    MaxSweeps         \* bound on the calls of collectTraces, resetCounters and clear

Threads == Inside \cup Outside

StorageShape ==
    /\ Inside \cap Outside = {} /\ Hashes \subseteq Nat \ {0} /\ Uncounted \subseteq Hashes
    /\ Initial \in Nat \ {0} /\ MaxTables \in Nat \ {0}
    /\ MemLimits \subseteq Nat /\ MaxPuts \in Nat /\ MaxSweeps \in Nat

VARIABLES
    keys,        \* the key of each slot of each table, 0 for a free one
    traced,      \* the slots whose trace is not NULL
    samples, counter,  \* the counts of each slot
    size,        \* _size of each table
    current,     \* _current_table
    memory,      \* used: usedMemory(), the tables and the allocator; limit: _mem_limit
    overflow,    \* _overflow
    op,          \* put() on each thread
    sweep,       \* collectTraces or resetCounters: slots to visit, slot found sampled, traces
    due,         \* history: the ids the collection in progress has to report
    given,       \* history: <<hash, id>> of every put since clear
    puts,        \* history: counted puts and adds since the counters were reset
    late,        \* history: slots claimed with the memory limit exceeded
    missed,      \* history: <<table, hash>> of the slots a put passed by that had its own trace
    begun, sweeps

history == <<given, puts, late, missed>>
vars == <<keys, traced, samples, counter, size, current, memory, overflow, op,
          sweep, due, history, begun, sweeps>>

Tables == 1..MaxTables
Capacity(k) == Initial * 2^(k - 1)
Cells == UNION {{<<k, s>> : s \in 0..(Capacity(k) - 1)} : k \in Tables}
Chain(k) == {c \in DOMAIN keys : c[1] <= k}

(* The id of a slot; add() searches the tables from the current one down   *)
(* for the slot of an id.                                                  *)
IdOf(c) == Capacity(c[1]) - (Initial - 1) + c[2]
Exhausted == memory.used > memory.limit
TotalCapacity == Capacity(current) * 2 - Initial
SlotOf(id) ==
    LET k == Max({j \in 1..current : id + (Initial - 1) >= Capacity(j)})
    IN  <<k, id + (Initial - 1) - Capacity(k)>>

NoOp == [pc |-> "idle"]
NoSweep == [mode |-> "off", todo |-> {}, found |-> {}, map |-> {}]
(* OVERFLOW_TRACE_ID is larger than any id.                                *)
OverflowId == Capacity(MaxTables + 2)
Zero == [c \in Cells |-> 0]

Init ==
    /\ keys = Zero /\ traced = {} /\ samples = Zero /\ counter = Zero
    /\ size = [k \in Tables |-> 0]
    /\ current = 1 /\ memory \in [used : {Capacity(1)}, limit : MemLimits] /\ overflow = 0
    /\ op = [t \in Threads |-> NoOp]
    /\ sweep = NoSweep /\ due = {}
    /\ given = {} /\ puts = 0 /\ late = 0 /\ missed = {} /\ begun = 0 /\ sweeps = 0

Here(t) == <<op[t].tab, op[t].slot>>
Goto(t, place) == op' = [op EXCEPT ![t].pc = place]

-----------------------------------------------------------------------------
(* put.                                                                    *)

(* A put with a zero counter stores the trace but counts nothing.          *)
Put(t, h, n) ==
    /\ op[t] = NoOp /\ begun < MaxPuts
    /\ n = 0 => h \in Uncounted
    /\ t \in Inside => sweep.mode # "collect"
    /\ begun' = begun + 1
    /\ op' = [op EXCEPT ![t] = [pc |-> "probe", tab |-> current, slot |-> h % Capacity(current),
                                step |-> 0, hash |-> h, n |-> n]]
    /\ UNCHANGED <<keys, traced, samples, counter, size, current, memory, overflow, sweep,
                   due, history, sweeps>>

(* Faulty variant: the overflow is not counted.                            *)
GiveUpSilently(t) ==
    /\ UNCHANGED overflow
    /\ puts' = puts + op[t].n
    /\ op' = [op EXCEPT ![t] = NoOp]

(* The trace is not stored: OVERFLOW_TRACE_ID.                             *)
GiveUp(t) ==
    /\ overflow' = overflow + 1
    /\ puts' = puts + 1
    /\ op' = [op EXCEPT ![t] = NoOp]

(* Faulty variants: probing stops one slot late, or one slot early.        *)
FullLate(t) == op[t].step >= Capacity(op[t].tab)
FullEarly(t) == op[t].step + 2 >= Capacity(op[t].tab)

Full(t) == op[t].step + 1 >= Capacity(op[t].tab)

(* To the next slot of the probe sequence, if there is one.                *)
Advance(t) ==
    \/ Full(t) /\ GiveUp(t)
    \/ /\ ~Full(t)
       /\ op' = [op EXCEPT ![t].pc = "probe", ![t].step = @ + 1,
                           ![t].slot = (@ + op[t].step + 1) % Capacity(op[t].tab)]
       /\ UNCHANGED <<overflow, puts>>

(* The head of the loop: the key is there, the slot is another trace's, or *)
(* it is free.                                                             *)
Probe(t) ==
    /\ op[t].pc = "probe"
    /\ \/ keys[Here(t)] = op[t].hash /\ Goto(t, "count") /\ UNCHANGED <<overflow, puts>>
       \/ keys[Here(t)] = 0 /\ Goto(t, "look") /\ UNCHANGED <<overflow, puts>>
       \/ keys[Here(t)] \notin {0, op[t].hash} /\ Advance(t)
    /\ UNCHANGED <<keys, traced, samples, counter, size, current, memory, sweep, due, given,
                   late, missed, begun, sweeps>>

(* The body reads the key again, unless the compiler has made one load of  *)
(* the two. A slot that is taken by now is passed by, even if it was taken *)
(* for the same trace. A free one is claimed, within the memory limit.     *)
Look(t) ==
    /\ op[t].pc = "look"
    /\ \/ keys[Here(t)] = 0 /\ ~Exhausted /\ Goto(t, "claim") /\ UNCHANGED <<overflow, puts>>
       \/ keys[Here(t)] = 0 /\ Exhausted /\ GiveUp(t)
       \/ keys[Here(t)] # 0 /\ Advance(t)
    /\ missed' = IF keys[Here(t)] = op[t].hash THEN missed \cup {<<op[t].tab, op[t].hash>>} ELSE missed
    /\ UNCHANGED <<keys, traced, samples, counter, size, current, memory, sweep, due, given,
                   late, begun, sweeps>>

(* Faulty variant: the key is stored without comparing it.                 *)
ClaimBlindly(t) ==
    /\ op[t].pc = "claim"
    /\ keys' = [keys EXCEPT ![Here(t)] = op[t].hash]
    /\ Goto(t, "grow")
    /\ UNCHANGED <<traced, samples, counter, size, current, memory, overflow, sweep, due,
                   history, begun, sweeps>>

(* Compare and swap of the key; whoever loses looks at the slot again.     *)
Claim(t) ==
    /\ op[t].pc = "claim"
    /\ IF keys[Here(t)] = 0
       THEN /\ keys' = [keys EXCEPT ![Here(t)] = op[t].hash]
            /\ late' = IF Exhausted THEN late + 1 ELSE late
            /\ Goto(t, "grow")
       ELSE UNCHANGED <<keys, late>> /\ Goto(t, "probe")
    /\ UNCHANGED <<traced, samples, counter, size, current, memory, overflow, sweep, due,
                   given, puts, missed, begun, sweeps>>

(* incSize: whoever reaches three quarters provides the next table.        *)
Grow(t) ==
    /\ op[t].pc = "grow"
    /\ size' = [size EXCEPT ![op[t].tab] = @ + 1]
    /\ Goto(t, IF size[op[t].tab] + 1 = (Capacity(op[t].tab) * 3) \div 4
               THEN "install" ELSE "trace")
    /\ UNCHANGED <<keys, traced, samples, counter, current, memory, overflow, sweep, due,
                   history, begun, sweeps>>

(* LongHashTable::allocate succeeds; its memory is accounted for ...       *)
Install(t) ==
    /\ op[t].pc = "install" /\ op[t].tab < MaxTables
    /\ memory' = [memory EXCEPT !.used = @ + Capacity(op[t].tab + 1)]
    /\ Goto(t, "publish")
    /\ UNCHANGED <<keys, traced, samples, counter, size, current, overflow, sweep, due, history,
                   begun, sweeps>>

(* ... and the table becomes the current one.                              *)
Publish(t) ==
    /\ op[t].pc = "publish"
    /\ current' = op[t].tab + 1
    /\ Goto(t, "trace")
    /\ UNCHANGED <<keys, traced, samples, counter, size, memory, overflow, sweep, due,
                   history, begun, sweeps>>

(* Or it fails: the table stays current and fills up.                      *)
InstallFails(t) ==
    /\ op[t].pc = "install"
    /\ Goto(t, "trace")
    /\ UNCHANGED <<keys, traced, samples, counter, size, current, memory, overflow, sweep, due,
                   history, begun, sweeps>>

(* findCallTrace in the previous table only: the slot with the key, if its *)
(* trace is set. Probing finds a key that is there, as keys are never      *)
(* removed from a probe sequence.                                          *)
FoundInPrevious(t) ==
    \E c \in traced : c[1] = op[t].tab - 1 /\ keys[c] = op[t].hash

(* The trace is migrated, or stored in new memory, or is NULL for lack of  *)
(* memory; setTrace.                                                       *)
SetTrace(t) ==
    /\ op[t].pc = "trace"
    /\ \/ /\ FoundInPrevious(t)
          /\ traced' = traced \cup {Here(t)} /\ UNCHANGED memory
       \/ /\ ~FoundInPrevious(t)
          /\ traced' = traced \cup {Here(t)} /\ memory' = [memory EXCEPT !.used = @ + 1]
       \/ ~FoundInPrevious(t) /\ UNCHANGED <<traced, memory>>
    /\ Goto(t, "count")
    /\ UNCHANGED <<keys, samples, counter, size, current, overflow, sweep, due, history,
                   begun, sweeps>>

Count(t) ==
    /\ op[t].pc = "count"
    /\ samples' = [samples EXCEPT ![Here(t)] = @ + op[t].n]
    /\ counter' = [counter EXCEPT ![Here(t)] = @ + op[t].n]
    /\ puts' = puts + op[t].n
    /\ given' = given \cup {<<op[t].hash, IdOf(Here(t))>>}
    /\ op' = [op EXCEPT ![t] = NoOp]
    /\ UNCHANGED <<keys, traced, size, current, memory, overflow, sweep, due, late, missed,
                   begun, sweeps>>

PutStep(t) ==
    \/ Probe(t) \/ Look(t) \/ Claim(t) \/ Grow(t) \/ Install(t) \/ Publish(t) \/ InstallFails(t)
    \/ SetTrace(t) \/ Count(t)

(* add: a repeated sample of a trace put before, from outside. A sample of *)
(* a trace that was not stored is dropped.                                 *)
Add(id) ==
    /\ begun < MaxPuts /\ begun' = begun + 1
    /\ IF id > TotalCapacity
       THEN UNCHANGED <<samples, counter, puts>>
       ELSE /\ samples' = [samples EXCEPT ![SlotOf(id)] = @ + 1]
            /\ counter' = [counter EXCEPT ![SlotOf(id)] = @ + 1]
            /\ puts' = puts + 1
    /\ UNCHANGED <<keys, traced, size, current, memory, overflow, op, sweep, due, given, late,
                   missed, sweeps>>

-----------------------------------------------------------------------------
(* Collecting, resetting and clearing.                                     *)

(* The profiler holds every slot.                                          *)
AllLocked == sweep.mode = "off" /\ \A t \in Inside : op[t] = NoOp
Quiet == sweep.mode = "off" /\ \A t \in Threads : op[t] = NoOp

(* What a collection owes: the traces stored and sampled, and the entry    *)
(* for those not stored.                                                   *)
OverflowEntry == IF overflow > 0 THEN {OverflowId} ELSE {}
Owed == {IdOf(c) : c \in {d \in traced : samples[d] # 0}} \cup OverflowEntry

(* Faulty variant: the first table of the chain is not visited.            *)
CollectLastTables ==
    /\ AllLocked /\ sweeps < MaxSweeps /\ sweeps' = sweeps + 1
    /\ sweep' = [NoSweep EXCEPT !.todo = Chain(current) \ Chain(1), !.mode = "collect"]
    /\ due' = Owed
    /\ UNCHANGED <<keys, traced, samples, counter, size, current, memory, overflow, op,
                   history, begun>>

(* collectTraces begins at the current table.                              *)
Collect ==
    /\ AllLocked /\ sweeps < MaxSweeps /\ sweeps' = sweeps + 1
    /\ sweep' = [NoSweep EXCEPT !.todo = Chain(current), !.mode = "collect"]
    /\ due' = Owed
    /\ UNCHANGED <<keys, traced, samples, counter, size, current, memory, overflow, op,
                   history, begun>>

(* The next slot: from the last table to the first, each in slot order.    *)
NextCell ==
    CHOOSE c \in sweep.todo : \A d \in sweep.todo : c[1] > d[1] \/ (c[1] = d[1] /\ c[2] <= d[2])

(* Look at a slot: is it taken, and sampled since the last collection?     *)
Visit ==
    /\ sweep.mode = "collect" /\ sweep.todo # {} /\ sweep.found = {}
    /\ sweep' = [sweep EXCEPT !.todo = @ \ {NextCell},
                              !.found = IF keys[NextCell] # 0 /\ samples[NextCell] # 0
                                        THEN {NextCell} ELSE {}]
    /\ UNCHANGED <<keys, traced, samples, counter, size, current, memory, overflow, op, due,
                   history, begun, sweeps>>

(* Then reset its samples and take its trace, if it has one.               *)
Take ==
    \E c \in sweep.found :
        /\ samples' = [samples EXCEPT ![c] = 0]
        /\ sweep' = [sweep EXCEPT !.found = {},
                                  !.map = IF c \in traced THEN @ \cup {IdOf(c)} ELSE @]
        /\ UNCHANGED <<keys, traced, counter, size, current, memory, overflow, op, due,
                       history, begun, sweeps>>

(* Faulty variant: traces that were not stored have no entry.              *)
NoOverflowEntry ==
    /\ sweep.mode = "collect" /\ sweep.todo = {} /\ sweep.found = {}
    /\ sweep' = [sweep EXCEPT !.mode = "collected"]
    /\ UNCHANGED <<keys, traced, samples, counter, size, current, memory, overflow, op, due,
                   history, begun, sweeps>>

(* The entry for traces that were not stored comes last.                   *)
CollectOverflow ==
    /\ sweep.mode = "collect" /\ sweep.todo = {} /\ sweep.found = {}
    /\ sweep' = [sweep EXCEPT !.mode = "collected", !.map = @ \cup OverflowEntry]
    /\ UNCHANGED <<keys, traced, samples, counter, size, current, memory, overflow, op, due,
                   history, begun, sweeps>>

EndCollect ==
    /\ sweep.mode = "collected"
    /\ sweep' = NoSweep /\ due' = {}
    /\ UNCHANGED <<keys, traced, samples, counter, size, current, memory, overflow, op,
                   history, begun, sweeps>>

(* resetCounters, as the live object engine stops, with puts in progress.  *)
ResetCounters ==
    /\ sweep.mode = "off" /\ sweeps < MaxSweeps /\ sweeps' = sweeps + 1
    /\ sweep' = [NoSweep EXCEPT !.todo = Chain(current), !.mode = "reset"]
    /\ UNCHANGED <<keys, traced, samples, counter, size, current, memory, overflow, op, due,
                   history, begun>>

ResetSlot ==
    /\ sweep.mode = "reset" /\ sweep.todo # {}
    /\ sweep' = IF sweep.todo = {NextCell} THEN NoSweep ELSE [sweep EXCEPT !.todo = @ \ {NextCell}]
    /\ IF keys[NextCell] # 0
       THEN /\ samples' = [samples EXCEPT ![NextCell] = 0]
            /\ counter' = [counter EXCEPT ![NextCell] = 0]
            /\ puts' = puts - counter[NextCell]
       ELSE UNCHANGED <<samples, counter, puts>>
    /\ UNCHANGED <<keys, traced, size, current, memory, overflow, op, due, given, late, missed,
                   begun, sweeps>>

(* clear, as a session starts: every table but the first is destroyed.     *)
Clear(limit) ==
    /\ Quiet /\ sweeps < MaxSweeps /\ sweeps' = sweeps + 1
    /\ keys' = Zero /\ traced' = {} /\ samples' = Zero /\ counter' = Zero
    /\ size' = [k \in Tables |-> 0]
    /\ current' = 1 /\ memory' = [used |-> Capacity(1), limit |-> limit] /\ overflow' = 0
    /\ given' = {} /\ puts' = 0 /\ late' = 0 /\ missed' = {}
    /\ UNCHANGED <<op, sweep, due, begun>>

Next ==
    \/ \E t \in Threads : (\E h \in Hashes, n \in {0, 1} : Put(t, h, n)) \/ PutStep(t)
    \/ \E id \in {g[2] : g \in given} \cup OverflowEntry : Add(id)
    \/ Collect \/ Visit \/ Take \/ CollectOverflow \/ EndCollect
    \/ ResetCounters \/ ResetSlot \/ (\E limit \in MemLimits : Clear(limit))

Spec == Init /\ [][Next]_vars

-----------------------------------------------------------------------------
(* Properties.                                                             *)

(* Every variable has the type of the C++ variable it stands for, and a    *)
(* thread inside put() is at a slot of a table in the chain.               *)
TypeOK ==
    /\ keys \in [Cells -> Hashes \cup {0}] /\ traced \subseteq DOMAIN keys
    /\ samples \in [DOMAIN keys -> Nat] /\ counter \in [DOMAIN keys -> Nat]
    /\ current \in Tables /\ memory \in [used : Nat, limit : Nat] /\ overflow \in Nat
    /\ \A k \in Tables : size[k] \in 0..Capacity(k)
    /\ \A t \in Threads : op[t] # NoOp =>
          /\ Here(t) \in Chain(current)
          /\ op[t].pc \in {"probe", "look", "claim", "grow", "install", "publish", "trace", "count"}
          /\ op[t].step < Capacity(op[t].tab)

(* An id that put() returned stands for that trace and no other for as     *)
(* long as the store is not cleared, whatever threads raced for the slot   *)
(* and however the tables grow meanwhile, and add() finds its slot again.  *)
(* Within a table a trace has one slot, and threads that store it at once  *)
(* get the same id, unless one read the key again after another had put    *)
(* it there and passed it by.                                              *)
IdsResolve ==
    /\ \A g \in given : g[2] <= TotalCapacity /\ keys[SlotOf(g[2])] = g[1]
    /\ \A c \in DOMAIN keys : keys[c] # 0 => \A d \in DOMAIN keys : c[1] = d[1] /\ keys[c] = keys[d]
          => c = d \/ <<c[1], keys[c]>> \in missed

(* With no put in progress every counted put is in exactly one counter or  *)
(* in the overflow, and only slots that hold a trace's key have counts.    *)
CountsConserved ==
    Quiet => /\ puts = overflow + MapThenSumSet(LAMBDA c : counter[c], DOMAIN counter)
             /\ \A c \in DOMAIN counter : counter[c] # 0 => keys[c] # 0

(* put() gives up where its limits are and nowhere else: below the memory  *)
(* limit only when every slot of its table holds another trace, or its own *)
(* that it passed by, as the probe sequence visits the whole table, and    *)
(* above it at most one more trace is stored by each thread but the one    *)
(* that exceeded it, since the check and the claim are two steps.          *)
LimitsKept ==
    [][/\ late' < Cardinality(Threads)
       /\ \A t \in Threads :
             overflow' = overflow + 1 /\ op[t] # NoOp /\ op'[t] = NoOp /\ ~Exhausted
             => \A c \in DOMAIN keys : c[1] = op[t].tab =>
                   /\ keys[c] # 0
                   /\ keys[c] = op[t].hash => <<op[t].tab, op[t].hash>> \in missed']_vars

(* A collection reports every trace that had been stored and sampled when  *)
(* it began, and that some were not stored if so, also while outside       *)
(* threads put more and install new tables, and reports no slot without a  *)
(* trace.                                                                  *)
CollectionComplete ==
    sweep.mode = "collected" =>
        due \subseteq sweep.map /\ sweep.map \subseteq {IdOf(c) : c \in traced} \cup OverflowEntry
=============================================================================
