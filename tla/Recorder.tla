------------------------------ MODULE Recorder ------------------------------
(***************************************************************************)
(* How events reach the JFR file: the slot locks of Profiler (_locks), the *)
(* recording of FlightRecorder with its _rec_lock, chunk rotation and      *)
(* teardown (profiler.cpp, flightRecorder.cpp, spinLock.h).                *)
(*                                                                         *)
(* A writer takes one free slot, never waits for one, and writes into the  *)
(* buffer of that slot. The log and the timer write under a shared hold of *)
(* _rec_lock instead. Whoever holds _state_lock takes all the slots and    *)
(* then _rec_lock exclusively before it finishes a chunk.                  *)
(*                                                                         *)
(* Events are numbered; an event carries its thread, and a sample also     *)
(* carries a stack trace, one per thread here.                             *)
(***************************************************************************)
EXTENDS Integers, Sequences, FiniteSets

CONSTANTS
    Writers,      \* threads with signal handlers, hooks or user events
    Kinds,        \* what writers do: subset of {"sample", "user", "external"}
    Loggers,      \* threads that write to the log
    NumSlots,     \* CONCURRENCY_LEVEL
    FileFaults,   \* whether writing the file may fail
    HeaderFaults, \* whether writing the header of a new recording may fail
    MaxEvents,    \* bound on the events recorded
    MaxStarts,    \* bound on the sessions
    MaxChunks     \* bound on the chunks finished

RecorderShape ==
    /\ NumSlots \in Nat
    /\ Writers \cap {0, -1} = {}
    /\ Kinds \subseteq {"sample", "user", "external"}
    /\ FileFaults \in BOOLEAN /\ HeaderFaults \in BOOLEAN
    /\ MaxEvents \in Nat /\ MaxStarts \in Nat /\ MaxChunks \in Nat

VARIABLES
    lock,     \* _locks: the holder of each slot
    recLock,  \* _rec_lock: 1 exclusive, -n shared by n
    rec,      \* *_rec: live, discarded by start, its buffers, _thread_set and _io_error
    active,   \* _rec # NULL
    marked,   \* the traces of _call_trace_storage with samples # 0
    pc,       \* where each writer is
    job,      \* what each writer is recording, in which slot
    log,      \* where each logger is
    ctl,      \* where the holder of _state_lock is
    task,     \* what it takes the slots for
    running,  \* _state = RUNNING
    chunk,    \* the events of the current chunk that are in the file
    chunks,   \* the finished chunks
    lost,     \* events whose write failed
    events,   \* events recorded by this recording
    next,     \* number of the next event
    starts,
    verdict   \* what the last _jfr.stop() returned

fileVars == <<chunk, chunks, lost, events, next>>
ctlVars == <<ctl, task, running, starts, verdict>>
vars == <<lock, recLock, rec, active, marked, pc, job, log, fileVars, ctlVars>>

Slots == 1..NumSlots
Free == 0
Ctl == -1
NoJob == [kind |-> "none", slot |-> 0]
Empty == [s \in Slots |-> {}]
NewRec == [live |-> TRUE, discarded |-> FALSE, buf |-> Empty, threads |-> {}, io |-> FALSE]
NoRec == [NewRec EXCEPT !.live = FALSE]

Init ==
    /\ lock = [s \in Slots |-> Free]
    /\ recLock = 1
    /\ rec = NoRec
    /\ active = FALSE
    /\ marked = {}
    /\ pc = [w \in Writers |-> "out"]
    /\ job = [w \in Writers |-> NoJob]
    /\ log = [l \in Loggers |-> "out"]
    /\ ctl = "free" /\ task = "none" /\ running = FALSE /\ starts = 0 /\ verdict = TRUE
    /\ chunk = {} /\ chunks = <<>> /\ lost = {} /\ events = {} /\ next = 1

Goto(w, place) == pc' = [pc EXCEPT ![w] = place]

-----------------------------------------------------------------------------
(* recordSample, recordExternalSample and recordEventOnly.                 *)

(* A sample exists only while the engines run; a user event is recorded by *)
(* any thread at any time, if there is a recording; an external sample     *)
(* stores its trace before it takes a slot.                                *)
BeginEvent(w, kind) ==
    /\ pc[w] = "out"
    /\ next <= MaxEvents
    /\ IF kind = "user" THEN active ELSE running
    /\ marked' = IF kind = "external" THEN marked \cup {w} ELSE marked
    /\ job' = [job EXCEPT ![w] = [NoJob EXCEPT !.kind = kind]]
    /\ Goto(w, "try")
    /\ UNCHANGED <<lock, recLock, rec, active, log, fileVars, ctlVars>>

(* A sample stores its trace while it holds the slot.                      *)
LockSlot(w, s) ==
    /\ pc[w] = "try"
    /\ lock[s] = Free
    /\ lock' = [lock EXCEPT ![s] = w]
    /\ marked' = IF job[w].kind = "sample" THEN marked \cup {w} ELSE marked
    /\ job' = [job EXCEPT ![w].slot = s]
    /\ Goto(w, "locked")
    /\ UNCHANGED <<recLock, rec, active, log, fileVars, ctlVars>>

(* The slots probed were taken.                                            *)
SkipEvent(w) ==
    /\ pc[w] = "try"
    /\ \E s \in Slots : lock[s] # Free
    /\ job' = [job EXCEPT ![w] = NoJob]
    /\ Goto(w, "out")
    /\ UNCHANGED <<lock, recLock, rec, active, marked, log, fileVars, ctlVars>>

(* Faulty variant: without a recording it returns with the slot taken.     *)
TestRecLeaks(w) ==
    /\ pc[w] = "locked"
    /\ Goto(w, IF active THEN "write" ELSE "out")
    /\ UNCHANGED <<lock, recLock, rec, active, marked, job, log, fileVars, ctlVars>>

(* recordEvent: _rec is tested, and used in the steps that follow.         *)
TestRec(w) ==
    /\ pc[w] = "locked"
    /\ Goto(w, IF active THEN "write" ELSE "unlock")
    /\ UNCHANGED <<lock, recLock, rec, active, marked, job, log, fileVars, ctlVars>>

WriteEvent(w) ==
    /\ pc[w] = "write"
    /\ next <= MaxEvents
    /\ LET e == [id |-> next, tid |-> w, kind |-> job[w].kind]
       IN  /\ rec' = [rec EXCEPT !.buf[job[w].slot] = @ \cup {e}]
           /\ events' = events \cup {e}
    /\ next' = next + 1
    /\ Goto(w, "flush")
    /\ UNCHANGED <<lock, recLock, active, marked, job, log, chunk, chunks, lost, ctlVars>>

(* At the bound an event is not recorded.                                  *)
WriteNothing(w) ==
    /\ pc[w] = "write"
    /\ next > MaxEvents
    /\ Goto(w, "unlock")
    /\ UNCHANGED <<lock, recLock, rec, active, marked, job, log, fileVars, ctlVars>>

(* flush: the events of a buffer are written, or lost with _io_error set.  *)
Flush(es, r) ==
    \/ /\ chunk' = chunk \cup es
       /\ rec' = r
       /\ UNCHANGED lost
    \/ /\ FileFaults
       /\ rec' = [r EXCEPT !.io = TRUE]
       /\ lost' = lost \cup es
       /\ UNCHANGED chunk

(* Faulty variant: the thread is not added.                                *)
FlushEventNoThread(w) ==
    /\ pc[w] = "flush"
    /\ LET s == job[w].slot
       IN  \/ Flush(rec.buf[s], [rec EXCEPT !.buf[s] = {}])
           \/ UNCHANGED <<rec, chunk, lost>>
    /\ Goto(w, "unlock")
    /\ UNCHANGED <<lock, recLock, active, marked, job, log, chunks, events, next, ctlVars>>

(* flushIfNeeded, then addThread. The buffer may or may not be full.       *)
FlushEvent(w) ==
    /\ pc[w] = "flush"
    /\ LET s == job[w].slot
           r == [rec EXCEPT !.threads = @ \cup {w}]
       IN  \/ Flush(rec.buf[s], [r EXCEPT !.buf[s] = {}])
           \/ rec' = r /\ UNCHANGED <<chunk, lost>>
    /\ Goto(w, "unlock")
    /\ UNCHANGED <<lock, recLock, active, marked, job, log, chunks, events, next, ctlVars>>

UnlockSlot(w) ==
    /\ pc[w] = "unlock"
    /\ lock' = [lock EXCEPT ![job[w].slot] = Free]
    /\ job' = [job EXCEPT ![w] = NoJob]
    /\ Goto(w, "out")
    /\ UNCHANGED <<recLock, rec, active, marked, log, fileVars, ctlVars>>

WriterStep(w) ==
    \/ \E s \in Slots : LockSlot(w, s)
    \/ SkipEvent(w) \/ TestRec(w) \/ WriteEvent(w) \/ WriteNothing(w)
    \/ FlushEvent(w) \/ UnlockSlot(w)

-----------------------------------------------------------------------------
(* recordLog and timerTick: both write under a shared hold of _rec_lock.   *)

LogEnter(l) ==
    /\ log[l] = "out" /\ next <= MaxEvents
    /\ recLock <= 0
    /\ recLock' = recLock - 1
    /\ log' = [log EXCEPT ![l] = "writing"]
    /\ UNCHANGED <<lock, rec, active, marked, pc, job, fileVars, ctlVars>>

(* A log message goes straight to the file; it has no thread and no trace. *)
LogWrite(l) ==
    /\ log[l] = "writing"
    /\ IF next <= MaxEvents
       THEN LET e == [id |-> next, tid |-> l, kind |-> "log"]
            IN  /\ Flush({e}, rec)
                /\ events' = events \cup {e}
                /\ next' = next + 1
       ELSE UNCHANGED <<rec, chunk, lost, events, next>>
    /\ log' = [log EXCEPT ![l] = "leaving"]
    /\ UNCHANGED <<lock, recLock, active, marked, pc, job, chunks, ctlVars>>

LogLeave(l) ==
    /\ log[l] = "leaving"
    /\ recLock' = recLock + 1
    /\ log' = [log EXCEPT ![l] = "out"]
    /\ UNCHANGED <<lock, rec, active, marked, pc, job, fileVars, ctlVars>>

LoggerStep(l) == LogWrite(l) \/ LogLeave(l)

-----------------------------------------------------------------------------
(* The holder of _state_lock.                                              *)

(* lockAll() and what it is for: resetting the storage, rotating a chunk,  *)
(* stopping, or rolling back a start.                                      *)
Begin(what) ==
    /\ ctl = "free"
    /\ task' = what
    /\ ctl' = "locking"
    /\ UNCHANGED <<lock, recLock, rec, active, marked, pc, job, log, fileVars,
                   running, starts, verdict>>

BeginStart == ~running /\ starts < MaxStarts /\ Begin("reset")
BeginFlush == running /\ active /\ Len(chunks) < MaxChunks /\ Begin("flush")

(* Profiler::stop first stops the engines.                                 *)
BeginStop ==
    /\ ctl = "free" /\ running
    /\ running' = FALSE
    /\ task' = "stop"
    /\ ctl' = "locking"
    /\ UNCHANGED <<lock, recLock, rec, active, marked, pc, job, log, fileVars, starts, verdict>>

LockNext ==
    /\ ctl = "locking"
    /\ \E s \in Slots :
          /\ lock[s] = Free
          /\ \A t \in Slots : t < s => lock[t] = Ctl
          /\ lock' = [lock EXCEPT ![s] = Ctl]
    /\ UNCHANGED <<recLock, rec, active, marked, pc, job, log, fileVars, ctlVars>>

(* Faulty variant: the loop ends one slot too early.                       *)
AllLockedButLast == \A s \in Slots : s < NumSlots => lock[s] = Ctl

AllLocked == \A s \in Slots : lock[s] = Ctl
UnlockAll == lock' = [s \in Slots |-> Free]

(* start with reset: the storage is cleared and the slots are given back.  *)
Reset ==
    /\ ctl = "locking" /\ task = "reset" /\ AllLocked
    /\ marked' = {}
    /\ UnlockAll
    /\ starts' = starts + 1
    /\ ctl' = "new"
    /\ UNCHANGED <<recLock, rec, active, pc, job, log, fileVars, task, running, verdict>>

(* FlightRecorder::start. The slots are not held.                          *)
NewRecording ==
    /\ ctl = "new"
    /\ \E fails \in {FALSE, HeaderFaults} : rec' = [NewRec EXCEPT !.io = fails]
    /\ active' = TRUE
    /\ ctl' = "test"
    /\ events' = {} /\ lost' = {} /\ chunk' = {} /\ chunks' = <<>>
    /\ UNCHANGED <<lock, recLock, marked, pc, job, log, next, task, running, starts, verdict>>

(* Another output format: no recording, and the file is none of ours.      *)
NoRecording ==
    /\ ctl = "new"
    /\ rec' = NoRec
    /\ events' = {} /\ lost' = {} /\ chunk' = {} /\ chunks' = <<>>
    /\ ctl' = "engines"
    /\ UNCHANGED <<lock, recLock, active, marked, pc, job, log, next,
                   task, running, starts, verdict>>

(* Not good(): the header, or a user event since, could not be written.    *)
(* The recording is finished and deleted, with neither the slots nor       *)
(* _rec_lock held for it.                                                  *)
DiscardRecording ==
    /\ ctl = "test" /\ rec.io
    /\ rec' = [rec EXCEPT !.discarded = TRUE]
    /\ task' = "discard"
    /\ ctl' = "buffers"
    /\ UNCHANGED <<lock, recLock, active, marked, pc, job, log, fileVars, running, starts, verdict>>

OpenRecording ==
    /\ ctl = "test" /\ ~rec.io
    /\ recLock' = recLock - 1
    /\ ctl' = "engines"
    /\ UNCHANGED <<lock, rec, active, marked, pc, job, log, fileVars,
                   task, running, starts, verdict>>

EnginesStart ==
    /\ ctl = "engines"
    /\ running' = TRUE
    /\ ctl' = "free" /\ task' = "none"
    /\ UNCHANGED <<lock, recLock, rec, active, marked, pc, job, log, fileVars, starts, verdict>>

EnginesFail ==
    /\ ctl = "engines"
    /\ task' = "stop"
    /\ ctl' = "locking"
    /\ UNCHANGED <<lock, recLock, rec, active, marked, pc, job, log, fileVars,
                   running, starts, verdict>>

(* stop() with no recording.                                               *)
StopNothing ==
    /\ ctl = "locking" /\ task = "stop" /\ AllLocked /\ ~active
    /\ UnlockAll
    /\ verdict' = TRUE
    /\ ctl' = "free" /\ task' = "none"
    /\ UNCHANGED <<recLock, rec, active, marked, pc, job, log, fileVars, running, starts>>

LockRecording ==
    /\ ctl = "locking" /\ task \in {"flush", "stop"} /\ AllLocked /\ active
    /\ recLock = 0
    /\ recLock' = 1
    /\ ctl' = "buffers"
    /\ UNCHANGED <<lock, rec, active, marked, pc, job, log, fileVars,
                   task, running, starts, verdict>>

AllBuffered == UNION {rec.buf[s] : s \in Slots}

(* Faulty variant: the first buffer, which also serves the controller, is  *)
(* not flushed.                                                            *)
FlushBuffersButFirst ==
    /\ ctl = "buffers"
    /\ Flush(UNION {rec.buf[s] : s \in Slots \ {1}}, [rec EXCEPT !.buf = Empty])
    /\ ctl' = "cpool"
    /\ UNCHANGED <<lock, recLock, active, marked, pc, job, log, chunks, events, next,
                   task, running, starts, verdict>>

(* finishChunk: flush every buffer, and note where the pool begins.        *)
FlushBuffers ==
    /\ ctl = "buffers"
    /\ Flush(AllBuffered, [rec EXCEPT !.buf = Empty])
    /\ ctl' = "cpool"
    /\ UNCHANGED <<lock, recLock, active, marked, pc, job, log, chunks, events, next,
                   task, running, starts, verdict>>

(* writeCpool, and the sizes in the headers: the threads and traces used   *)
(* since the last chunk; the sets start again for the next one. If a write *)
(* fails nobody can read the chunk, and its events are lost.               *)
WriteCpool ==
    /\ ctl = "cpool"
    /\ \/ /\ chunks' = Append(chunks, [events |-> chunk, threads |-> rec.threads, traces |-> marked])
          /\ rec' = [rec EXCEPT !.threads = {}]
          /\ UNCHANGED lost
       \/ /\ FileFaults
          /\ lost' = lost \cup chunk
          /\ rec' = [rec EXCEPT !.threads = {}, !.io = TRUE]
          /\ UNCHANGED chunks
    /\ chunk' = {}
    /\ marked' = {}
    /\ ctl' = "patch"
    /\ UNCHANGED <<lock, recLock, active, pc, job, log, events, next,
                   task, running, starts, verdict>>

(* switchChunk goes on with the header of the next chunk, which may fail.  *)
EndFlush ==
    /\ ctl = "patch" /\ task = "flush"
    /\ \E fails \in {FALSE, FileFaults} : rec' = [rec EXCEPT !.io = rec.io \/ fails]
    /\ recLock' = recLock - 1
    /\ UnlockAll
    /\ ctl' = "free" /\ task' = "none"
    /\ UNCHANGED <<active, marked, pc, job, log, fileVars, running, starts, verdict>>

(* finish syncs and closes the file or appends it to the master recording, *)
(* which may fail; stop deletes the recording and leaves _rec_lock taken   *)
(* until the next start.                                                   *)
EndStop ==
    /\ ctl = "patch" /\ task = "stop"
    /\ \E fails \in {FALSE, FileFaults} :
          /\ rec' = [rec EXCEPT !.live = FALSE, !.io = rec.io \/ fails]
          /\ verdict' = ~(rec.io \/ fails)
    /\ active' = FALSE
    /\ UnlockAll
    /\ ctl' = "free" /\ task' = "none"
    /\ UNCHANGED <<recLock, marked, pc, job, log, fileVars, running, starts>>

EndDiscard ==
    /\ ctl = "patch" /\ task = "discard"
    /\ rec' = [rec EXCEPT !.live = FALSE]
    /\ active' = FALSE
    /\ ctl' = "free" /\ task' = "none"
    /\ UNCHANGED <<lock, recLock, marked, pc, job, log, fileVars, running, starts, verdict>>

ControlStep ==
    \/ LockNext \/ Reset \/ NewRecording \/ NoRecording \/ DiscardRecording
    \/ OpenRecording \/ EnginesStart \/ EnginesFail \/ StopNothing
    \/ LockRecording \/ FlushBuffers \/ WriteCpool \/ EndFlush \/ EndStop \/ EndDiscard

Next ==
    \/ \E w \in Writers : (\E k \in Kinds : BeginEvent(w, k)) \/ WriterStep(w)
    \/ \E l \in Loggers : LogEnter(l) \/ LoggerStep(l)
    \/ BeginStart \/ BeginFlush \/ BeginStop \/ ControlStep

(* Writers never wait, so a thread that began an event ends it; the holder *)
(* of _state_lock runs on.                                                 *)
Fairness ==
    /\ \A w \in Writers : WF_vars(WriterStep(w))
    /\ \A l \in Loggers : WF_vars(LoggerStep(l))
    /\ WF_vars(ControlStep)

Spec == Init /\ [][Next]_vars /\ Fairness

-----------------------------------------------------------------------------
(* Properties.                                                             *)

Recorded == [id : Nat, tid : Writers \cup Loggers, kind : Kinds \cup {"log"}]

(* Every variable has the type of the C++ variable it stands for.          *)
TypeOK ==
    /\ lock \in [Slots -> Writers \cup {Free, Ctl}]
    /\ recLock \in Int /\ recLock <= 1
    /\ rec.live \in BOOLEAN /\ rec.discarded \in BOOLEAN /\ rec.buf \in [Slots -> SUBSET Recorded]
    /\ rec.threads \subseteq Writers /\ rec.io \in BOOLEAN
    /\ active \in BOOLEAN /\ running \in BOOLEAN /\ verdict \in BOOLEAN
    /\ marked \subseteq Writers
    /\ pc \in [Writers -> {"out", "try", "locked", "write", "flush", "unlock"}]
    /\ job \in [Writers -> [kind : Kinds \cup {"none"}, slot : Slots \cup {0}]]
    /\ log \in [Loggers -> {"out", "writing", "leaving"}]
    /\ chunk \subseteq Recorded /\ lost \subseteq Recorded /\ events \subseteq Recorded

(* Every chunk is complete in itself: its constant pool holds the thread   *)
(* of each of its events and the trace of each sample taken under a slot.  *)
(* A recording that start discards has no such chunk.                      *)
ChunkComplete ==
    ~rec.discarded => \A i \in DOMAIN chunks : \A e \in chunks[i].events :
        /\ e.kind # "log" => e.tid \in chunks[i].threads
        /\ e.kind = "sample" => e.tid \in chunks[i].traces

Finished == UNION {chunks[i].events : i \in DOMAIN chunks}

(* No event is lost in silence: each is in a buffer, in the file, or lost  *)
(* to an I/O error, its own or its chunk's, exactly once; and once a stop  *)
(* has returned TRUE all of them are in finished chunks.                   *)
NoSilentLoss ==
    /\ events = AllBuffered \cup chunk \cup lost \cup Finished
    /\ AllBuffered \cap (chunk \cup lost \cup Finished) = {}
    /\ chunk \cap (lost \cup Finished) = {} /\ lost \cap Finished = {}
    /\ \A i, j \in DOMAIN chunks : i # j => chunks[i].events \cap chunks[j].events = {}
    /\ lost # {} => rec.io
    /\ ~active /\ ~rec.discarded /\ verdict => events = Finished

(* A writer in the recording keeps it alive: it is deleted only once the   *)
(* writers are excluded. The comment at profiler.cpp:1180 names "public    *)
(* user/span event writers, which can still use the recording".            *)
NoUseAfterDelete == \A w \in Writers : pc[w] \in {"write", "flush"} => rec.live

(* The same for a recording that passed good(), which only stop and the    *)
(* rollback of start delete, with every slot held.                         *)
DeletedAlone == ~rec.discarded => NoUseAfterDelete

(* What a recording owes the threads that write into it: nothing that they *)
(* record is lost in silence, and nobody is left in it when it is deleted. *)
RecordingSound == NoSilentLoss /\ DeletedAlone

(* Every command completes: lockAll gets every slot, and _rec_lock.        *)
CommandsComplete == ctl # "free" ~> ctl = "free"
=============================================================================
