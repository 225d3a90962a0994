------------------------------ MODULE J9Sampling ------------------------------
(***************************************************************************)
(* The sampler of OpenJ9, where a signal handler cannot walk Java frames:  *)
(* it flags its thread for inspection and writes a notification to a pipe; *)
(* a sampler thread reads notifications in batches, finds the Java thread  *)
(* and takes its stack trace. Threads end at any time.                     *)
(*                                                                         *)
(* Thread inspection (GetStackTraceExtended clearing the halt flag) is     *)
(* behaviour of the JVM, external.                                         *)
(***************************************************************************)
EXTENDS Integers, Sequences, SequencesExt

CONSTANTS
    Threads,            \* J9VMThread addresses of Java threads
    PipeSize,           \* notifications the pipe holds before a write fails
    MaxSignals          \* bound on signals

VARIABLES
    alive,              \* threads that run
    halt,               \* threads flagged J9_HALT_THREAD_INSPECTION
    pipe,               \* notifications written and not read
    writable,           \* _pipe[1] is open
    sampler,            \* "none", "starting", "read", "batch", "ended"
    _self_env,          \* the sampler is ready
    batch, ptr,         \* the buffer read and the position in it
    known_threads,      \* env pointers with a Java thread
    at,                 \* thread -> step of checkpoint
    signals,            \* history: signals so far
    traces,             \* history: traces taken, at most MaxSignals
    control             \* "idle", "running", "joining"

vars == <<alive, halt, pipe, writable, sampler, _self_env, batch, ptr, known_threads, at, signals, traces, control>>

Init ==
    /\ alive = Threads /\ halt = {} /\ pipe = <<>> /\ writable = FALSE
    /\ sampler = "none" /\ _self_env = FALSE /\ batch = <<>> /\ ptr = 1
    /\ known_threads = {} /\ at = [t \in Threads |-> "run"]
    /\ signals = 0 /\ traces = 0 /\ control = "idle"

-----------------------------------------------------------------------------
(* J9StackTraces::start: the pipe, then the thread. Either may fail.       *)
Start ==
    /\ control = "idle" /\ signals < MaxSignals
    /\ \/ sampler' = "starting" /\ writable' = TRUE /\ control' = "running"
       \/ UNCHANGED <<sampler, writable, control>>
    /\ pipe' = <<>> /\ batch' = <<>> /\ ptr' = 1
    /\ UNCHANGED <<alive, halt, _self_env, known_threads, at, signals, traces>>

(* J9StackTraces::stop: close the write end and join the sampler.          *)
BeginStop ==
    /\ control = "running"
    /\ writable' = FALSE /\ control' = "joining"
    /\ UNCHANGED <<alive, halt, pipe, sampler, _self_env, batch, ptr, known_threads, at, signals, traces>>

EndStop ==
    /\ control = "joining" /\ sampler = "ended"
    /\ control' = "idle" /\ sampler' = "none"
    /\ UNCHANGED <<alive, halt, pipe, writable, _self_env, batch, ptr, known_threads, at, signals, traces>>

-----------------------------------------------------------------------------
(* J9StackTraces::checkpoint, in the signal handler of thread t. A thread  *)
(* that is stopped already is not notified about.                          *)
Signal(t) ==
    /\ control # "idle" /\ t \in alive /\ at[t] = "run" /\ signals < MaxSignals
    /\ signals' = signals + 1
    /\ at' = [at EXCEPT ![t] = IF _self_env THEN "flag" ELSE "run"]
    /\ UNCHANGED <<alive, halt, pipe, writable, sampler, _self_env, batch, ptr, known_threads, traces, control>>

SetFlag(t) ==
    /\ at[t] = "flag"
    /\ \E stopped \in BOOLEAN :
          at' = [at EXCEPT ![t] = IF t \in halt THEN "run" ELSE IF stopped THEN "rollback" ELSE "write"]
    /\ halt' = halt \cup {t}
    /\ UNCHANGED <<alive, pipe, writable, sampler, _self_env, batch, ptr, known_threads, signals, traces, control>>

WritePipeUnchecked(t) ==
    /\ at[t] = "write"
    /\ pipe' = IF writable /\ Len(pipe) < PipeSize THEN Append(pipe, t) ELSE pipe
    /\ at' = [at EXCEPT ![t] = "run"]
    /\ UNCHANGED <<alive, halt, writable, sampler, _self_env, batch, ptr, known_threads, signals, traces, control>>

WritePipe(t) ==
    /\ at[t] = "write"
    /\ IF writable /\ Len(pipe) < PipeSize
       THEN pipe' = Append(pipe, t) /\ at' = [at EXCEPT ![t] = "run"]
       ELSE pipe' = pipe /\ at' = [at EXCEPT ![t] = "rollback"]
    /\ UNCHANGED <<alive, halt, writable, sampler, _self_env, batch, ptr, known_threads, signals, traces, control>>

Rollback(t) ==
    /\ at[t] = "rollback"
    /\ halt' = halt \ {t}
    /\ at' = [at EXCEPT ![t] = "run"]
    /\ UNCHANGED <<alive, pipe, writable, sampler, _self_env, batch, ptr, known_threads, signals, traces, control>>

Exit(t) ==
    /\ t \in alive /\ at[t] = "run"
    /\ alive' = alive \ {t} /\ halt' = halt \ {t}
    /\ UNCHANGED <<pipe, writable, sampler, _self_env, batch, ptr, known_threads, at, signals, traces, control>>

-----------------------------------------------------------------------------
(* J9StackTraces::timerLoop.                                               *)
Ready ==
    /\ sampler = "starting"
    /\ sampler' = "read" /\ _self_env' = TRUE /\ known_threads' = {}
    /\ UNCHANGED <<alive, halt, pipe, writable, batch, ptr, at, signals, traces, control>>

ReadPipe ==
    /\ sampler = "read"
    /\ \/ /\ pipe # <<>>
          /\ batch' = pipe /\ pipe' = <<>> /\ ptr' = 1 /\ sampler' = "batch"
          /\ UNCHANGED _self_env
       \/ /\ pipe = <<>> /\ ~writable
          /\ sampler' = "ended" /\ _self_env' = FALSE
          /\ UNCHANGED <<pipe, batch, ptr>>
    /\ UNCHANGED <<alive, halt, writable, known_threads, at, signals, traces, control>>

(* A thread that is not known, or has no stack trace, makes the map be     *)
(* filled again; when that does not help the notification is looked at     *)
(* again.                                                                  *)
Inspect ==
    /\ sampler = "batch" /\ ptr <= Len(batch)
    /\ LET t == batch[ptr]
           refreshed == IF t \in known_threads /\ t \in alive THEN known_threads ELSE alive
       IN /\ known_threads' = refreshed
          /\ IF t \in refreshed /\ t \in alive
             THEN ptr' = ptr + 1 /\ halt' = halt \ {t} /\ traces' = traces + 1
             ELSE ptr' = ptr /\ halt' = halt /\ traces' = traces
    /\ UNCHANGED <<alive, pipe, writable, sampler, _self_env, batch, at, signals, control>>

EndBatch ==
    /\ sampler = "batch" /\ ptr > Len(batch)
    /\ sampler' = "read" /\ batch' = <<>> /\ ptr' = 1
    /\ UNCHANGED <<alive, halt, pipe, writable, _self_env, known_threads, at, signals, traces, control>>

Next ==
    \/ Start \/ BeginStop \/ EndStop
    \/ \E t \in Threads : Signal(t) \/ SetFlag(t) \/ WritePipe(t) \/ Rollback(t) \/ Exit(t)
    \/ Ready \/ ReadPipe \/ Inspect \/ EndBatch

(* The sampler and the stopping thread are scheduled, and a handler runs   *)
(* to its end.                                                             *)
Fairness ==
    /\ WF_vars(Ready) /\ WF_vars(ReadPipe) /\ WF_vars(Inspect) /\ WF_vars(EndBatch) /\ WF_vars(EndStop)
    /\ \A t \in Threads : WF_vars(SetFlag(t)) /\ WF_vars(WritePipe(t)) /\ WF_vars(Rollback(t))

Spec == Init /\ [][Next]_vars
FairSpec == Spec /\ Fairness

-----------------------------------------------------------------------------
TypeOK ==
    /\ alive \subseteq Threads /\ halt \subseteq Threads /\ known_threads \subseteq Threads
    /\ ToSet(pipe) \cup ToSet(batch) \subseteq Threads /\ ptr \in 1..(Len(batch) + 1)
    /\ sampler \in {"none", "starting", "read", "batch", "ended"} /\ control \in {"idle", "running", "joining"}
    /\ signals \in 0..MaxSignals /\ traces \in 0..MaxSignals

Pending == ToSet(pipe) \cup {batch[i] : i \in ptr..Len(batch)}

(* A thread never stays flagged for inspection without cause: while it is  *)
(* flagged its handler is under way or its notification is still to be     *)
(* read, also when the pipe is full or closed by stop. Left behind, the    *)
(* flag would keep the thread from ever being sampled again.               *)
HaltResolved == \A t \in halt : t \in Pending \/ at[t] \in {"flag", "write", "rollback"}

(* The command `stop` is to "Stop profiling and print the report"          *)
(* (docs/ProfilerOptions.md:19): J9StackTraces::stop, which joins the      *)
(* sampler thread, ends.                                                   *)
StopEnds == control = "joining" ~> control = "idle"
=============================================================================
