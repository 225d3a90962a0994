-------------------------- MODULE InstrumentEngine --------------------------
(***************************************************************************)
(* The engine of instrument.cpp: start sets the targets, turns the class   *)
(* file load hook on and retransforms the loaded classes that match; stop  *)
(* turns _running off and retransforms them again, so that the JVM loads   *)
(* the original code. Threads load classes all the while.                  *)
(*                                                                         *)
(* A class is loaded in steps: the JVM posts the event if it is enabled,   *)
(* the hook looks at _running and at the targets, and the class appears    *)
(* among the loaded ones with the code the hook returned.                  *)
(***************************************************************************)
EXTENDS Integers, Sequences, FiniteSets

CONSTANTS Classes, Threads,
          TargetSets,      \* what a command may match: sets of classes, and "malformed"
          Limit,           \* shouldRecordSample: sampling interval
          MaxSessions, MaxCalls

VARIABLES
    control,        \* step of start or stop, "idle" or "running"
    _targets, _running,
    hook,           \* JVMTI_EVENT_CLASS_FILE_LOAD_HOOK is enabled
    todo,           \* classes GetLoadedClasses returned that match
    loaded,         \* class -> "no", "plain" or "instrumented"
    t,              \* thread -> [pc, class, code]; code is what the class will have
    sessions,
    _calls, calls, samples,  \* calls and samples: history of the session
    straddled       \* history: classes past their hook, but not loaded, when the classes were
                    \* listed, and those a failed call of JVMTI left alone

vars == <<control, _targets, _running, hook, todo, loaded, t, sessions, _calls, calls, samples, straddled>>
counters == <<_calls, calls, samples>>
Rest == [pc |-> "idle", class |-> "none", code |-> "plain"]

Init ==
    /\ control = "idle" /\ _targets = {} /\ _running = FALSE /\ hook = FALSE /\ todo = {}
    /\ loaded \in [Classes -> {"no", "plain"}]
    /\ t = [i \in Threads |-> Rest]
    /\ sessions = 0
    /\ _calls = 0 /\ calls = 0 /\ samples = 0
    /\ straddled = {}

Loading == {t[i].class : i \in Threads} \ {"none"}
Step(from, to) == control = from /\ control' = to

-----------------------------------------------------------------------------
(* start. A malformed target leaves the engine stopped.                    *)
setupTargetClassAndMethod ==
    /\ control = "idle" /\ sessions < MaxSessions
    /\ sessions' = sessions + 1
    /\ \E s \in TargetSets :
         IF s = {"malformed"} THEN control' = "idle" /\ _targets' = {} ELSE control' = "set running" /\ _targets' = s
    /\ UNCHANGED <<straddled, _running, hook, todo, loaded, t, counters>>

SetRunning ==
    /\ Step("set running", "enable hook")
    /\ _running' = TRUE
    /\ _calls' = 0 /\ calls' = 0 /\ samples' = 0
    /\ UNCHANGED <<straddled, _targets, hook, todo, loaded, t, sessions>>

EnableHook ==
    /\ Step("enable hook", "list")
    /\ hook' = TRUE
    /\ UNCHANGED <<straddled, _targets, _running, todo, loaded, t, sessions, counters>>

(* retransformMatchedClasses of start and of stop. Retransforming posts    *)
(* the event for each class, and the hook decides by _running. JVMTI may   *)
(* refuse the list or the rest of it; the error is logged.                 *)
GetLoadedClasses ==
    /\ Step("list", "retransform") \/ Step("undo", "undo classes")
    /\ \/ /\ todo' = {c \in _targets : loaded[c] # "no"}
          /\ straddled' = (straddled \ todo') \cup {t[i].class : i \in {j \in Threads : t[j].pc = "define"}}
       \/ todo' = {} /\ straddled' = straddled \cup _targets
    /\ UNCHANGED <<_targets, _running, hook, loaded, t, sessions, counters>>

Retransformed(c) == IF hook /\ _running /\ c \in _targets THEN "instrumented" ELSE "plain"
RetransformClasses ==
    /\ control \in {"retransform", "undo classes"}
    /\ \E c \in todo : loaded' = [loaded EXCEPT ![c] = Retransformed(c)] /\ todo' = todo \ {c}
    /\ UNCHANGED <<straddled, control, _targets, _running, hook, t, sessions, counters>>

RetransformFails ==
    /\ control \in {"retransform", "undo classes"} /\ todo # {}
    /\ straddled' = straddled \cup todo /\ todo' = {}
    /\ UNCHANGED <<control, _targets, _running, hook, loaded, t, sessions, counters>>

StartDone ==
    /\ todo = {} /\ Step("retransform", "running")
    /\ UNCHANGED <<straddled, _targets, _running, hook, todo, loaded, t, sessions, counters>>

stop ==
    /\ Step("running", "undo")
    /\ _running' = FALSE
    /\ UNCHANGED <<straddled, _targets, hook, todo, loaded, t, sessions, counters>>

StopAtExit ==
    /\ Step("running", "terminated")
    /\ _running' = FALSE
    /\ UNCHANGED <<straddled, _targets, hook, todo, loaded, t, sessions, counters>>

StopDone ==
    /\ todo = {} /\ Step("undo classes", "idle")
    /\ hook' = FALSE
    /\ _targets' = {}
    /\ UNCHANGED <<straddled, _running, todo, loaded, t, sessions, counters>>

-----------------------------------------------------------------------------
(* A thread loads a class: the event, if enabled, then ClassFileLoadHook.  *)
BeginLoad(i) ==
    /\ t[i] = Rest
    /\ \E c \in Classes \ Loading : loaded[c] = "no" /\ t' = [t EXCEPT ![i] = [pc |-> IF hook THEN "hook" ELSE "define", class |-> c, code |-> "plain"]]
    /\ UNCHANGED <<straddled, control, _targets, _running, hook, todo, loaded, sessions, counters>>

ClassFileLoadHook(i) ==
    /\ t[i].pc = "hook"
    /\ t' = [t EXCEPT ![i].pc = "define", ![i].code = IF _running /\ t[i].class \in _targets THEN "instrumented" ELSE "plain"]
    /\ UNCHANGED <<control, _targets, _running, hook, todo, loaded, sessions, counters, straddled>>

DefineClass(i) ==
    /\ t[i].pc = "define"
    /\ loaded' = [loaded EXCEPT ![t[i].class] = t[i].code]
    /\ t' = [t EXCEPT ![i] = Rest]
    /\ UNCHANGED <<control, _targets, _running, hook, todo, sessions, counters, straddled>>

(* recordEntry and recordExit0 of an instrumented method; events are       *)
(* enabled while the session runs. shouldRecordSample is one atomic        *)
(* increment.                                                              *)
recordEntry ==
    /\ control = "running" /\ calls < MaxCalls
    /\ \E c \in Classes : loaded[c] = "instrumented"
    /\ _calls' = _calls + 1
    /\ calls' = calls + 1
    /\ samples' = IF Limit <= 1 \/ (_calls + 1) % Limit = 0 THEN samples + 1 ELSE samples
    /\ UNCHANGED <<control, _targets, _running, hook, todo, loaded, t, sessions, straddled>>

Next ==
    \/ setupTargetClassAndMethod \/ SetRunning \/ EnableHook \/ GetLoadedClasses \/ RetransformClasses
    \/ RetransformFails \/ StartDone \/ stop \/ StopAtExit \/ StopDone \/ recordEntry
    \/ \E i \in Threads : BeginLoad(i) \/ ClassFileLoadHook(i) \/ DefineClass(i)

Spec == Init /\ [][Next]_vars

-----------------------------------------------------------------------------
TypeOK ==
    /\ control \in {"idle", "set running", "enable hook", "list", "retransform", "running", "undo", "undo classes", "terminated"}
    /\ _targets \subseteq Classes /\ todo \subseteq _targets /\ _running \in BOOLEAN /\ hook \in BOOLEAN
    /\ \A c \in Classes : loaded[c] \in {"no", "plain", "instrumented"}

(* While a session runs, each loaded class that matches is instrumented,   *)
(* and after stop none is, whenever it was loaded: before start, during    *)
(* it, or later. A class that was past its hook but not yet among the      *)
(* loaded ones when they were listed is not covered, nor one that JVMTI    *)
(* refused. Of the calls counted, one in Limit is a sample.                *)
ClassesInstrumented ==
    /\ control = "running" => \A c \in _targets \ straddled : loaded[c] # "plain"
    /\ control = "idle" => \A c \in Classes \ straddled : loaded[c] # "instrumented"
    /\ Limit > 1 /\ control = "running" => samples = calls \div Limit
=============================================================================
