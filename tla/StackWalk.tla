------------------------------ MODULE StackWalk ------------------------------
(***************************************************************************)
(* Profiler::recordSample and the stack walkers, as they run in signal     *)
(* handlers: a handler takes a slot, fills the slot's frame buffer from    *)
(* several sources and walks a stack whose memory may be anything. A read  *)
(* of bad memory raises a fault, which crashHandler turns into a longjmp   *)
(* to the nearest crash protection context. A second signal may interrupt  *)
(* a handler anywhere, on the same thread.                                 *)
(*                                                                         *)
(* Only the number of frames is kept. What the walker finds at pc is a     *)
(* choice at every iteration; sp is an address of the stack, Bottom its    *)
(* end, and the word that gives the next sp holds any address.             *)
(***************************************************************************)
EXTENDS Integers, Sequences, FiniteSets, SequencesExt

CONSTANTS
    Threads, Slots,
    Configs,            \* sessions: cstack, mixed, pc_addr, the extra frames
    Events,             \* the event types sampled
    MaxDepth,           \* _max_stack_depth
    Truncated,          \* _truncated_stack_depth
    MAX_NATIVE_FRAMES, RESERVED_FRAMES,
    MaxInlined,         \* bound on the scopes of one compiled frame
    Bottom,             \* the stack is 0..Bottom-1
    MaxNesting          \* bound on the handlers active at once

VARIABLES
    config,
    locked,             \* slots held
    crash_protection_ctx,   \* slot -> NoCtx or the activation that set it
    stack,              \* thread -> sequence of activations of recordSample
    overrun             \* history: a frame was written past a slot's buffer

vars == <<config, locked, crash_protection_ctx, stack, overrun>>

NoCtx == [thread |-> 0, level |-> 0]
Order == <<"PERF_SAMPLE", "EXECUTION_SAMPLE", "SIGNAL_SAMPLE", "WALL_CLOCK_SAMPLE", "NATIVE_LOCK_SAMPLE", "MALLOC_SAMPLE",
           "INSTRUMENTED_METHOD", "METHOD_TRACE", "ALLOC_SAMPLE", "ALLOC_OUTSIDE_TLAB", "LIVE_OBJECT", "LOCK_SAMPLE", "PARK_SAMPLE">>
Rank(e) == CHOOSE i \in DOMAIN Order : Order[i] = e
AtMost(e, f) == Rank(e) <= Rank(f)

hasNativeStack(e) == AtMost(e, "MALLOC_SAMPLE") \/ e \in {"ALLOC_SAMPLE", "ALLOC_OUTSIDE_TLAB"}
Details(e) == AtMost(e, "MALLOC_SAMPLE") \/ config.mixed
WithClass(e) == AtMost("ALLOC_SAMPLE", e)
CapacityOf == MaxDepth + MAX_NATIVE_FRAMES + RESERVED_FRAMES

(* The top activation of thread i and its update.                          *)
Active(i) == stack[i] # <<>>
Top(i) == stack[i][Len(stack[i])]
Update(i, a) == stack' = [stack EXCEPT ![i][Len(stack[i])] = a]
At(i, s) == Active(i) /\ Top(i).at = s
Wrote(n) == overrun' = (overrun \/ n > CapacityOf)

Init ==
    /\ config \in Configs
    /\ locked = {}
    /\ crash_protection_ctx = [s \in Slots |-> NoCtx]
    /\ stack = [i \in Threads |-> <<>>]
    /\ overrun = FALSE

-----------------------------------------------------------------------------
(* RateLimit::allow and tryLock: up to three slots are tried, any of which *)
(* may be the free one; a sample with no slot is only counted.             *)
Signal(i, e, s) ==
    /\ FoldSet(LAMBDA j, n : n + Len(stack[j]), 0, Threads) < MaxNesting
    /\ s \notin locked
    /\ locked' = locked \cup {s}
    /\ stack' = [stack EXCEPT ![i] = Append(@, [at |-> "event", slot |-> s, event |-> e, frames |-> 0,
                                                 depth |-> 0, sp |-> 0, prev |-> 0, anchor |-> FALSE])]
    /\ UNCHANGED <<config, crash_protection_ctx, overrun>>

(* The event frame, then the address frame.                                *)
LeadingFrames(i) ==
    /\ At(i, "event")
    /\ \E class_id \in BOOLEAN :
          LET e == Top(i).event
              event == IF config.event_frame /\ WithClass(e) /\ class_id THEN 1 ELSE 0
              address == IF hasNativeStack(e) /\ config.pc_addr /\ AtMost(e, "WALL_CLOCK_SAMPLE") THEN 1 ELSE 0
          IN /\ Update(i, [Top(i) EXCEPT !.at = "native", !.frames = event + address])
             /\ Wrote(event + address)
    /\ UNCHANGED <<config, locked, crash_protection_ctx>>

(* getNativeTrace and convertNativeTrace: the walkers stop at the size of  *)
(* the call chain, and the conversion drops frames but adds none.          *)
getNativeTrace(i) ==
    /\ At(i, "native")
    /\ LET e == Top(i).event
           none == ~hasNativeStack(e) \/ config.cstack = "no" \/ (e # "PERF_SAMPLE" /\ config.cstack = "vm")
       IN \E n \in IF none THEN {0} ELSE {0, MAX_NATIVE_FRAMES} :
             /\ Update(i, [Top(i) EXCEPT !.at = "java", !.frames = @ + n])
             /\ Wrote(Top(i).frames + n)
    /\ UNCHANGED <<config, locked, crash_protection_ctx>>

UsesWalkVM(e) ==
    \/ config.mixed
    \/ AtMost(e, "MALLOC_SAMPLE") /\ config.cstack = "vm"
    \/ e \in {"ALLOC_SAMPLE", "ALLOC_OUTSIDE_TLAB"} /\ config.alloc_tracer /\ config.stack_structs

(* AsyncGetCallTrace and JVM TI return at most the depth asked for.        *)
getJavaTrace(i) ==
    /\ At(i, "java") /\ ~UsesWalkVM(Top(i).event)
    /\ \E n \in {0, 1, MaxDepth} :
          /\ Update(i, [Top(i) EXCEPT !.at = "finish", !.frames = @ + n])
          /\ Wrote(Top(i).frames + n)
    /\ UNCHANGED <<config, locked, crash_protection_ctx>>

-----------------------------------------------------------------------------
(* StackWalker::walkVM. The context is published before setjmp fills it;   *)
(* nothing faults in between. A thread that is not a Java thread has no    *)
(* anchor; without details the walk starts at the anchor or not at all.    *)
BeginWalkPublished(i) ==
    /\ At(i, "java") /\ UsesWalkVM(Top(i).event)
    /\ \E sp \in 0..(Bottom - 1), java \in BOOLEAN, restored \in BOOLEAN :
          LET a == [Top(i) EXCEPT !.depth = 0, !.sp = sp, !.prev = sp]
          IN IF java /\ ~Details(a.event) /\ ~restored
             THEN /\ Update(i, [a EXCEPT !.at = "finish"])
                  /\ crash_protection_ctx' = [crash_protection_ctx EXCEPT ![a.slot] = [thread |-> i, level |-> Len(stack[i])]]
             ELSE /\ Update(i, [a EXCEPT !.at = "walk", !.anchor = java /\ Details(a.event)])
                  /\ crash_protection_ctx' = [crash_protection_ctx EXCEPT ![a.slot] = [thread |-> i, level |-> Len(stack[i])]]
    /\ UNCHANGED <<config, locked, overrun>>

BeginWalk(i) ==
    /\ At(i, "java") /\ UsesWalkVM(Top(i).event)
    /\ \E sp \in 0..(Bottom - 1), java \in BOOLEAN, restored \in BOOLEAN :
          LET a == [Top(i) EXCEPT !.depth = 0, !.sp = sp, !.prev = sp]
          IN IF java /\ ~Details(a.event) /\ ~restored
             THEN /\ Update(i, [a EXCEPT !.at = "finish"])
                  /\ crash_protection_ctx' = [crash_protection_ctx EXCEPT ![a.slot] = NoCtx]
             ELSE /\ Update(i, [a EXCEPT !.at = "walk", !.anchor = java /\ Details(a.event)])
                  /\ crash_protection_ctx' = [crash_protection_ctx EXCEPT ![a.slot] = [thread |-> i, level |-> Len(stack[i])]]
    /\ UNCHANGED <<config, locked, overrun>>

(* One iteration: what lies at pc, how many frames it writes, and whether  *)
(* the loop goes on with another sp or breaks. a is the activation with    *)
(* the anchor as this iteration leaves it.                                 *)
Break(i, a, n) ==
    /\ Update(i, [a EXCEPT !.at = "walked", !.depth = @ + n])
    /\ Wrote(a.frames + a.depth + n)

Continue(i, a, n) ==
    /\ \E sp \in 0..Bottom : Update(i, [a EXCEPT !.depth = @ + n, !.sp = sp, !.prev = a.sp])
    /\ Wrote(a.frames + a.depth + n)

InRange(i) == Top(i).sp >= Top(i).prev /\ Top(i).sp < Bottom
InLoop(i) == At(i, "walk") /\ Top(i).depth < MaxDepth

StackRange(i) ==
    /\ InLoop(i) /\ ~InRange(i)
    /\ Break(i, Top(i), 1)
    /\ UNCHANGED <<config, locked, crash_protection_ctx>>

UnknownNMethod(i) ==
    /\ InLoop(i) /\ InRange(i)
    /\ Break(i, Top(i), IF Top(i).anchor THEN 0 ELSE 1)
    /\ UNCHANGED <<config, locked, crash_protection_ctx>>

(* The anchor, when Java code is met, corrects pc and sp and is used up. A *)
(* stub on top of the stack is not Java code.                              *)
CorrectByAnchor(i) ==
    /\ InLoop(i) /\ InRange(i) /\ Top(i).anchor
    /\ \E sp \in 0..Bottom : Update(i, [Top(i) EXCEPT !.anchor = FALSE, !.sp = sp, !.prev = Top(i).sp])
    /\ UNCHANGED <<config, locked, crash_protection_ctx, overrun>>

InJava(i, stub) == IF stub /\ Top(i).depth = 0 THEN Top(i) ELSE [Top(i) EXCEPT !.anchor = FALSE]

InterpreterFrame(i) ==
    /\ InLoop(i) /\ InRange(i)
    /\ LET a == InJava(i, FALSE)
       IN Break(i, a, 1) \/ Continue(i, a, 1)      \* break_deopt, break_interpreted, or a method
    /\ UNCHANGED <<config, locked, crash_protection_ctx>>

(* A compiled frame stands for the methods inlined at pc, each of which    *)
(* takes a frame as long as there is room.                                 *)
Inlined(scopes, depth) == LET room == MaxDepth - depth IN IF scopes <= room THEN scopes ELSE room

CompiledFrame(i) ==
    /\ InLoop(i) /\ InRange(i)
    /\ LET a == InJava(i, FALSE)
       IN \/ \E scopes \in 1..MaxInlined : Continue(i, a, Inlined(scopes, a.depth))
          \/ Break(i, a, 2)                        \* the method, then break_compiled
    /\ UNCHANGED <<config, locked, crash_protection_ctx>>

EntryFrame(i) ==
    /\ InLoop(i) /\ InRange(i) /\ ~config.mixed
    /\ LET a == InJava(i, TRUE) IN Break(i, a, 1) \/ Break(i, a, 0) \/ Continue(i, a, 0)
    /\ UNCHANGED <<config, locked, crash_protection_ctx>>

(* The receiver of a vtable stub, the stub, then break_stub.               *)
StubFrame(i) ==
    /\ InLoop(i) /\ InRange(i)
    /\ \E vtable \in {0, IF Top(i).depth = 0 THEN 1 ELSE 0}, stub \in BOOLEAN :
          LET n == vtable + (IF Details(Top(i).event) THEN 1 ELSE 0)
              a == InJava(i, stub)
          IN Break(i, a, n) \/ Continue(i, a, n) \/ Break(i, a, n + 1)
    /\ UNCHANGED <<config, locked, crash_protection_ctx>>

(* A native frame, the compile task before it, or the first frame that is  *)
(* not internal; then the unwind table, which may have no rule.            *)
NativeFrame(i) ==
    /\ InLoop(i) /\ InRange(i)
    /\ \/ \E n \in 1..2 : Break(i, Top(i), n) \/ Continue(i, Top(i), n)
       \/ /\ Top(i).event \in {"MALLOC_SAMPLE", "NATIVE_LOCK_SAMPLE"}
          /\ LET a == [Top(i) EXCEPT !.depth = 0] IN Break(i, a, 1) \/ Continue(i, a, 1)
    /\ UNCHANGED <<config, locked, crash_protection_ctx>>

(* After the loop the anchor, if it was not used, restarts it; trailing    *)
(* unknown frames are dropped.                                             *)
RetryFromAnchor(i) ==
    /\ At(i, "walked") \/ (At(i, "walk") /\ Top(i).depth >= MaxDepth)
    /\ Top(i).anchor
    /\ \E sp \in 0..Bottom, d \in {0, Top(i).depth} :
          Update(i, [Top(i) EXCEPT !.at = "walk", !.anchor = FALSE, !.sp = sp, !.prev = sp, !.depth = d])
    /\ UNCHANGED <<config, locked, crash_protection_ctx, overrun>>

EndWalk(i) ==
    /\ At(i, "walked") \/ (At(i, "walk") /\ Top(i).depth >= MaxDepth)
    /\ crash_protection_ctx' = [crash_protection_ctx EXCEPT ![Top(i).slot] = NoCtx]
    /\ Update(i, [Top(i) EXCEPT !.at = "finish", !.frames = @ + Top(i).depth])
    /\ UNCHANGED <<config, locked, overrun>>

-----------------------------------------------------------------------------
(* A fault in the walker. SafeAccess has no part in it; checkFault looks   *)
(* at every slot for the context nearest above on this stack. The          *)
(* activation it belongs to goes on after setjmp, the later ones are gone. *)
Mine(i) == {s \in Slots : crash_protection_ctx[s].thread = i}
Nearest(i) == CHOOSE s \in Mine(i) : \A r \in Mine(i) : crash_protection_ctx[r].level <= crash_protection_ctx[s].level

Fault(i) ==
    /\ InLoop(i) /\ InRange(i)
    /\ Mine(i) # {}
    /\ LET s == Nearest(i)
           level == crash_protection_ctx[s].level
           kept == SubSeq(stack[i], 1, level)
           a == kept[level]
           n == IF a.depth < MaxDepth THEN a.depth + 1 ELSE a.depth
       IN /\ crash_protection_ctx' = [crash_protection_ctx EXCEPT ![s] = NoCtx]
          /\ stack' = [stack EXCEPT ![i] = [kept EXCEPT ![level] =
                           [a EXCEPT !.at = "finish", !.frames = @ + n, !.depth = n]]]
          /\ Wrote(a.frames + n)
    /\ UNCHANGED <<config, locked>>

(* Truncation and the trailing frames, the trace is stored, the slot freed.*)
FinishSample(i) ==
    /\ At(i, "finish")
    /\ LET a == Top(i)
           walked == IF a.frames = 0 THEN 1
                     ELSE IF a.frames >= MaxDepth /\ Truncated < MaxDepth THEN Truncated + 1
                     ELSE a.frames
           extra == config.thread_frame + config.sched_frame + (IF a.event = "PERF_SAMPLE" THEN config.cpu_frame ELSE 0)
       IN Wrote(walked + extra)
    /\ locked' = locked \ {Top(i).slot}
    /\ stack' = [stack EXCEPT ![i] = Front(@)]
    /\ UNCHANGED <<config, crash_protection_ctx>>

Next ==
    \E i \in Threads :
        \/ \E e \in Events, s \in Slots : Signal(i, e, s)
        \/ LeadingFrames(i) \/ getNativeTrace(i) \/ getJavaTrace(i) \/ BeginWalk(i)
        \/ StackRange(i) \/ UnknownNMethod(i) \/ CorrectByAnchor(i) \/ InterpreterFrame(i) \/ CompiledFrame(i)
        \/ EntryFrame(i) \/ StubFrame(i) \/ NativeFrame(i)
        \/ RetryFromAnchor(i) \/ EndWalk(i) \/ Fault(i) \/ FinishSample(i)

Spec == Init /\ [][Next]_vars

-----------------------------------------------------------------------------
TypeOK ==
    /\ locked \subseteq Slots
    /\ \A s \in Slots : crash_protection_ctx[s].thread \in Threads \cup {0}
    /\ \A i \in Threads : Len(stack[i]) <= MaxNesting
    /\ overrun \in BOOLEAN

(* However deep the native part, however many methods are inlined, and     *)
(* wherever the walk breaks or faults, no frame is written past the end of *)
(* the slot's buffer, which is MAX_NATIVE_FRAMES + RESERVED_FRAMES longer  *)
(* than the stack depth asked for.                                         *)
FramesFit == ~overrun

(* A fault always returns to the walk that caused it: the contexts that    *)
(* are set belong to walks in progress, each in the slot its activation    *)
(* holds, so that no longjmp leads into a handler that has returned, and a *)
(* walk in progress has its context.                                       *)
FaultsContained ==
    /\ \A s \in Slots :
         LET c == crash_protection_ctx[s]
         IN c # NoCtx => /\ c.level <= Len(stack[c.thread])
                         /\ stack[c.thread][c.level].slot = s
                         /\ stack[c.thread][c.level].at \in {"walk", "walked"}
    /\ \A i \in Threads : \A l \in DOMAIN stack[i] :
         stack[i][l].at \in {"walk", "walked"} =>
             crash_protection_ctx[stack[i][l].slot] = [thread |-> i, level |-> l]
    /\ locked = UNION {{stack[i][l].slot : l \in DOMAIN stack[i]} : i \in Threads}
    /\ Cardinality(locked) = FoldSet(LAMBDA i, n : n + Len(stack[i]), 0, Threads)
=============================================================================
