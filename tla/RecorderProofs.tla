--------------------------- MODULE RecorderProofs ---------------------------
(***************************************************************************)
(* Proofs about Recorder, for any number of threads, slots and events.     *)
(*                                                                         *)
(* The argument is one of ownership. A writer inside holds its slot, so    *)
(* whoever has every slot is alone with the buffers; a logger inside is    *)
(* counted in _rec_lock, so whoever has that is alone with the file. A     *)
(* recording that start discards is finished without either, and the chunk *)
(* it leaves is excepted.                                                  *)
(***************************************************************************)
EXTENDS Recorder, TLAPS

Inside == {"locked", "write", "flush", "unlock"}
RecType == [live : BOOLEAN, discarded : BOOLEAN, buf : [Slots -> SUBSET Recorded],
            threads : SUBSET Writers, io : BOOLEAN]
Finishing == ctl \in {"buffers", "cpool", "patch"}

TypeInv ==
    /\ TypeOK /\ rec \in RecType /\ next \in Nat /\ starts \in Nat
    /\ ctl \in {"free", "locking", "new", "test", "engines", "buffers", "cpool", "patch"}
    /\ task \in {"none", "reset", "flush", "stop", "discard"}
    /\ chunks \in Seq([events : SUBSET Recorded, threads : SUBSET Writers, traces : SUBSET Writers])
    /\ \A w \in Writers : pc[w] # "out" => job[w].kind \in Kinds

(* A writer inside holds its slot; one that passed the test of _rec uses   *)
(* the recording there is, or one that start discards.                     *)
SlotInv ==
    \A w \in Writers :
        /\ pc[w] \in Inside => job[w].slot \in Slots /\ lock[job[w].slot] = w
        /\ pc[w] \in {"write", "flush"} => ctl # "new" /\ (active \/ rec.discarded)

(* The members of S can be numbered from 1 to n: there are n of them.      *)
Numbering(f, S, n) ==
    /\ f \in [S -> 1..n]
    /\ \A x, y \in S : f[x] = f[y] => x = y
    /\ \A i \in 1..n : \E x \in S : f[x] = i
Numbered(S, n) == \E f : Numbering(f, S, n)

(* _rec_lock is open while a recording is, and counts the loggers inside.  *)
Logging == {l \in Loggers : log[l] \in {"writing", "leaving"}}
LogInv ==
    \/ recLock = 1 /\ Logging = {}
    \/ /\ recLock <= 0 /\ Numbered(Logging, 0 - recLock)
       /\ active /\ ~rec.discarded /\ ctl # "test" /\ ~Finishing

(* What the holder of _state_lock has taken, and what it relies on.        *)
CtlInv ==
    /\ Finishing => /\ active /\ task \in {"flush", "stop", "discard"} /\ recLock = 1
                    /\ IF task = "discard" THEN rec.discarded ELSE AllLocked
    /\ ctl \in {"new", "test", "engines"} \/ (ctl = "locking" /\ task = "reset") => ~running
    /\ task \in {"stop", "discard"} => ~running
    /\ ctl = "new" \/ (ctl = "locking" /\ task = "reset") => ~active
    /\ ctl = "test" => active
    /\ ctl = "free" /\ active => running
    /\ ctl = "locking" => task \in {"reset", "flush", "stop"}
    /\ task = "flush" => running
    /\ task = "discard" => Finishing
    /\ active => rec.live /\ (rec.discarded => task = "discard")

(* What is in the buffers and in the chunk has its thread and its trace in *)
(* the sets the constant pool is written from.                             *)
PoolInv ==
    /\ ~rec.discarded \/ ctl = "new" =>
          \A w \in Writers : pc[w] \in Inside /\ job[w].kind = "sample" => w \in marked
    /\ ~rec.discarded =>
          /\ \A s \in Slots : \A e \in rec.buf[s] :
                /\ e.kind # "log" /\ e.tid \in Writers
                /\ e.tid \in rec.threads \/ (pc[e.tid] = "flush" /\ job[e.tid].slot = s)
                /\ e.kind = "sample" => e.tid \in marked
          /\ \A e \in chunk :
                /\ e.kind # "log" => e.tid \in rec.threads
                /\ e.kind = "sample" => e.tid \in marked
          /\ ctl = "cpool" \/ ctl = "patch" \/ ~active => rec.buf = Empty
          /\ ctl = "patch" \/ ~active => chunk = {}
          /\ ChunkComplete

(* Events have fresh numbers, and move from buffer to file to chunk.       *)
PlaceInv ==
    /\ \A e \in events : e.id < next
    /\ \A s, t \in Slots : s # t => rec.buf[s] \cap rec.buf[t] = {}
    /\ events = AllBuffered \cup chunk \cup lost \cup Finished
    /\ AllBuffered \cap (chunk \cup lost \cup Finished) = {}
    /\ chunk \cap (lost \cup Finished) = {} /\ lost \cap Finished = {}
    /\ \A i, j \in DOMAIN chunks : i # j => chunks[i].events \cap chunks[j].events = {}

(* What was lost is reported.                                              *)
LossInv ==
    /\ lost # {} => rec.io
    /\ ~active /\ ~rec.discarded /\ verdict => lost = {}
    /\ ~active /\ (running \/ ctl = "engines" \/ (ctl = "locking" /\ task = "stop")) =>
          events = {} /\ ~rec.discarded

IInv == TypeInv /\ SlotInv /\ LogInv /\ CtlInv /\ PoolInv /\ PlaceInv /\ LossInv

-----------------------------------------------------------------------------
(* What the steps that touch the recording change in it.                   *)

(* The rest of the record: what a step that only moves events leaves.      *)
SameRec(r, q) == q.live = r.live /\ q.discarded = r.discarded

(* flush() moves events to the file, or to the lost ones with _io_error.   *)
Moved(es, io) ==
    \/ chunk' = chunk \cup es /\ lost' = lost /\ rec'.io = io
    \/ chunk' = chunk /\ lost' = lost \cup es /\ rec'.io = TRUE

(* Chunks appended to a sequence of chunks make another.                   *)
LEMMA AppendType ==
    ASSUME NEW T, NEW s \in Seq(T), NEW c \in T
    PROVE  Append(s, c) \in Seq(T)
OBVIOUS

(* A finished chunk is appended to those there are.                        *)
LEMMA AppendGrows ==
    ASSUME NEW T, NEW s \in Seq(T), NEW c
    PROVE  /\ DOMAIN Append(s, c) = DOMAIN s \cup {Len(s) + 1} /\ Len(s) + 1 \notin DOMAIN s
           /\ Append(s, c)[Len(s) + 1] = c /\ \A i \in DOMAIN s : Append(s, c)[i] = s[i]
<1>1. Len(s) \in Nat /\ DOMAIN s = 1..Len(s)  OBVIOUS
<1>2. DOMAIN Append(s, c) = 1..(Len(s) + 1)  OBVIOUS
<1>3. Append(s, c)[Len(s) + 1] = c /\ \A i \in DOMAIN s : Append(s, c)[i] = s[i]  BY <1>1
<1> QED  BY <1>1, <1>2, <1>3

(* flush() leaves everything else of the recording alone.                  *)
LEMMA FlushFrame ==
    ASSUME NEW es, NEW r \in RecType, Flush(es, r)
    PROVE  rec' \in RecType /\ SameRec(r, rec') /\ rec'.buf = r.buf /\ rec'.threads = r.threads
           /\ Moved(es, r.io)
<1>1. CASE chunk' = chunk \cup es /\ rec' = r /\ lost' = lost  BY <1>1, Zenon DEF SameRec, Moved
<1>2. CASE rec' = [r EXCEPT !.io = TRUE] /\ lost' = lost \cup es /\ chunk' = chunk
  BY <1>2, Zenon DEF SameRec, Moved, RecType
<1> QED  BY <1>1, <1>2, Zenon DEF Flush

(* The event that w writes.                                               *)
NewEvent(w) == [id |-> next, tid |-> w, kind |-> job[w].kind]

(* recordEvent puts a new event in the buffer of the writer's slot.        *)
LEMMA WriteFrame ==
    ASSUME TypeInv, SlotInv, NEW w \in Writers, WriteEvent(w)
    PROVE  /\ job[w].slot \in Slots /\ NewEvent(w) \in Recorded /\ next' = next + 1
           /\ rec' \in RecType /\ SameRec(rec, rec') /\ rec'.threads = rec.threads /\ rec'.io = rec.io
           /\ rec'.buf = [rec.buf EXCEPT ![job[w].slot] = rec.buf[job[w].slot] \cup {NewEvent(w)}]
           /\ events' = events \cup {NewEvent(w)}
<1>1. job[w].slot \in Slots /\ job[w].kind \in Kinds /\ next \in Nat /\ rec \in RecType
  BY Zenon DEF WriteEvent, TypeInv, SlotInv, Inside
<1>2. NewEvent(w) \in Recorded  BY <1>1, Zenon DEF NewEvent, Recorded
<1>3. rec' = [rec EXCEPT !.buf[job[w].slot] = @ \cup {NewEvent(w)}]
      /\ events' = events \cup {NewEvent(w)} /\ next' = next + 1
  BY Zenon DEF WriteEvent, NewEvent
<1>4. [rec.buf EXCEPT ![job[w].slot] = rec.buf[job[w].slot] \cup {NewEvent(w)}] \in [Slots -> SUBSET Recorded]
  BY <1>1, <1>2, Zenon DEF RecType
<1> QED  BY <1>1, <1>2, <1>3, <1>4, Zenon DEF RecType, SameRec

(* flushIfNeeded and addThread: the buffer of the slot is kept or moved.   *)
LEMMA FlushEventFrame ==
    ASSUME TypeInv, SlotInv, NEW w \in Writers, FlushEvent(w)
    PROVE  /\ job[w].slot \in Slots
           /\ rec' \in RecType /\ SameRec(rec, rec') /\ rec'.threads = rec.threads \cup {w}
           /\ \/ rec'.buf = rec.buf /\ chunk' = chunk /\ lost' = lost /\ rec'.io = rec.io
              \/ rec'.buf = [rec.buf EXCEPT ![job[w].slot] = {}] /\ Moved(rec.buf[job[w].slot], rec.io)
<1> DEFINE t == job[w].slot
           r == [rec EXCEPT !.threads = @ \cup {w}]
           q == [r EXCEPT !.buf[t] = {}]
<1>1. t \in Slots /\ rec \in RecType
  BY Zenon DEF FlushEvent, TypeInv, SlotInv, Inside
<1>2. r \in RecType /\ SameRec(rec, r) /\ r.threads = rec.threads \cup {w} /\ r.buf = rec.buf /\ r.io = rec.io
  BY <1>1, Zenon DEF RecType, SameRec
<1>3. Flush(rec.buf[t], q) \/ (rec' = r /\ chunk' = chunk /\ lost' = lost)
  BY Zenon DEF FlushEvent
<1> HIDE DEF r
<1>4. q \in RecType /\ SameRec(rec, q) /\ q.threads = r.threads /\ q.buf = [rec.buf EXCEPT ![t] = {}] /\ q.io = rec.io
  BY <1>1, <1>2, Zenon DEF RecType, SameRec
<1> HIDE DEF q
<1>5. CASE Flush(rec.buf[t], q)
  <2>1. rec' \in RecType /\ SameRec(q, rec') /\ rec'.buf = q.buf /\ rec'.threads = q.threads
        /\ Moved(rec.buf[t], q.io)
    BY <1>4, <1>5, FlushFrame, Zenon
  <2> QED  BY <1>1, <1>2, <1>4, <2>1, Zenon DEF SameRec
<1>6. CASE rec' = r /\ chunk' = chunk /\ lost' = lost  BY <1>1, <1>2, <1>6, Zenon
<1> QED  BY <1>3, <1>5, <1>6, Zenon

(* recordLog writes one event past the buffers.                            *)
LEMMA LogWriteFrame ==
    ASSUME TypeInv, NEW l \in Loggers, LogWrite(l), next <= MaxEvents
    PROVE  \E e \in Recorded :
               /\ e.id = next /\ e.kind = "log" /\ next' = next + 1 /\ events' = events \cup {e}
               /\ rec' \in RecType /\ SameRec(rec, rec') /\ rec'.threads = rec.threads /\ rec'.buf = rec.buf
               /\ Moved({e}, rec.io)
<1> DEFINE e == [id |-> next, tid |-> l, kind |-> "log"]
<1>1. Flush({e}, rec) /\ events' = events \cup {e} /\ next' = next + 1  BY Zenon DEF LogWrite
<1>2. e \in Recorded /\ e.id = next /\ e.kind = "log" /\ rec \in RecType  BY Zenon DEF TypeInv, Recorded
<1> HIDE DEF e
<1>3. rec' \in RecType /\ SameRec(rec, rec') /\ rec'.buf = rec.buf /\ rec'.threads = rec.threads
      /\ Moved({e}, rec.io)
  BY <1>1, <1>2, FlushFrame, Zenon
<1> QED  BY <1>1, <1>2, <1>3, Zenon

(* finishChunk moves what is in the buffers.                               *)
LEMMA FlushBuffersFrame ==
    ASSUME TypeInv, FlushBuffers
    PROVE  /\ rec' \in RecType /\ SameRec(rec, rec') /\ rec'.threads = rec.threads /\ rec'.buf = Empty
           /\ AllBuffered \subseteq Recorded /\ Moved(AllBuffered, rec.io)
<1> DEFINE r == [rec EXCEPT !.buf = Empty]
<1>1. r \in RecType /\ SameRec(rec, r) /\ r.threads = rec.threads /\ r.buf = Empty /\ r.io = rec.io
  BY Zenon DEF TypeInv, RecType, SameRec, Empty
<1>2. Flush(AllBuffered, r)  BY Zenon DEF FlushBuffers
<1> HIDE DEF r
<1>3. rec' \in RecType /\ SameRec(r, rec') /\ rec'.buf = r.buf /\ rec'.threads = r.threads
      /\ Moved(AllBuffered, r.io)
  BY <1>1, <1>2, FlushFrame, Zenon
<1>4. AllBuffered \subseteq Recorded  BY Zenon DEF AllBuffered, TypeInv, RecType
<1> QED  BY <1>1, <1>3, <1>4, Zenon DEF SameRec

(* A recording that has been finished, as it is deleted.                   *)
SameFinished(r, q) ==
    ~q.live /\ q.discarded = r.discarded /\ q.buf = r.buf /\ q.threads = r.threads /\ (r.io => q.io)

(* What the steps of start and stop make of it.                            *)
LEMMA ControlFrame ==
    ASSUME RecorderShape, TypeInv
    PROVE  /\ NewRecording => /\ rec' \in RecType /\ rec'.live /\ ~rec'.discarded
                              /\ rec'.buf = Empty /\ rec'.threads = {}
           /\ NoRecording => /\ rec' \in RecType /\ ~rec'.live /\ ~rec'.discarded
                             /\ rec'.buf = Empty /\ rec'.threads = {}
           /\ DiscardRecording => /\ rec' \in RecType /\ rec'.discarded /\ rec'.live = rec.live
                                  /\ rec'.buf = rec.buf /\ rec'.threads = rec.threads /\ rec'.io = rec.io
           /\ WriteCpool => /\ rec' \in RecType /\ SameRec(rec, rec') /\ rec'.buf = rec.buf
                            /\ rec'.threads = {} /\ (rec.io => rec'.io) /\ (lost' # lost => rec'.io)
           /\ EndFlush => /\ rec' \in RecType /\ SameRec(rec, rec') /\ rec'.buf = rec.buf
                          /\ rec'.threads = rec.threads /\ (rec.io => rec'.io)
           /\ EndStop => rec' \in RecType /\ SameFinished(rec, rec') /\ (verdict' => ~rec.io) /\ verdict' \in BOOLEAN
           /\ EndDiscard => rec' \in RecType /\ SameFinished(rec, rec')
<1> USE DEF TypeInv, RecType
<1>1. NewRec \in RecType /\ NoRec \in RecType /\ NewRec.live /\ ~NoRec.live
      /\ ~NewRec.discarded /\ ~NoRec.discarded /\ NewRec.buf = Empty /\ NoRec.buf = Empty
      /\ NewRec.threads = {} /\ NoRec.threads = {}
  BY Zenon DEF NewRec, NoRec, Empty
<1>2. ASSUME NewRecording
      PROVE  rec' \in RecType /\ rec'.live /\ ~rec'.discarded /\ rec'.buf = Empty /\ rec'.threads = {}
  <2>1. PICK io \in BOOLEAN : rec' = [NewRec EXCEPT !.io = io]  BY <1>2, Zenon DEF NewRecording, RecorderShape
  <2> QED  BY <1>1, <2>1, Zenon
<1>3. ASSUME NoRecording
      PROVE  rec' \in RecType /\ ~rec'.live /\ ~rec'.discarded /\ rec'.buf = Empty /\ rec'.threads = {}
  BY <1>1, <1>3, Zenon DEF NoRecording
<1>4. ASSUME DiscardRecording
      PROVE  rec' \in RecType /\ rec'.discarded /\ rec'.live = rec.live
             /\ rec'.buf = rec.buf /\ rec'.threads = rec.threads /\ rec'.io = rec.io
  BY <1>4, Zenon DEF DiscardRecording
<1>5. ASSUME WriteCpool
      PROVE  /\ rec' \in RecType /\ SameRec(rec, rec') /\ rec'.buf = rec.buf /\ rec'.threads = {}
             /\ (rec.io => rec'.io) /\ (lost' # lost => rec'.io)
  <2>1. CASE rec' = [rec EXCEPT !.threads = {}] /\ lost' = lost  BY <2>1, Zenon DEF SameRec
  <2>2. CASE rec' = [rec EXCEPT !.threads = {}, !.io = TRUE]  BY <2>2, Zenon DEF SameRec
  <2> QED  BY <1>5, <2>1, <2>2, Zenon DEF WriteCpool
<1>6. ASSUME EndFlush
      PROVE  /\ rec' \in RecType /\ SameRec(rec, rec') /\ rec'.buf = rec.buf
             /\ rec'.threads = rec.threads /\ (rec.io => rec'.io)
  <2>1. PICK fails \in BOOLEAN : rec' = [rec EXCEPT !.io = rec.io \/ fails]
    BY <1>6, Zenon DEF EndFlush, RecorderShape
  <2>2. (rec.io \/ fails) \in BOOLEAN  BY Zenon
  <2> QED  BY <2>1, <2>2, Zenon DEF SameRec
<1>7. ASSUME EndStop
      PROVE  rec' \in RecType /\ SameFinished(rec, rec') /\ (verdict' => ~rec.io) /\ verdict' \in BOOLEAN
  <2>1. PICK fails \in BOOLEAN : /\ rec' = [rec EXCEPT !.live = FALSE, !.io = rec.io \/ fails]
                                 /\ verdict' = ~(rec.io \/ fails)
    BY <1>7, Zenon DEF EndStop, RecorderShape
  <2>2. (rec.io \/ fails) \in BOOLEAN  BY Zenon
  <2> QED  BY <2>1, <2>2, Zenon DEF SameFinished
<1>8. ASSUME EndDiscard  PROVE rec' \in RecType /\ SameFinished(rec, rec')
  BY <1>8, Zenon DEF EndDiscard, SameFinished
<1> QED  BY <1>2, <1>3, <1>4, <1>5, <1>6, <1>7, <1>8, Zenon

-----------------------------------------------------------------------------
(* The invariant is inductive.                                             *)

(* A step of the recorder keeps the types.                                 *)
LEMMA TypeStep ==
    ASSUME RecorderShape, IInv, Next
    PROVE  TypeInv'
<1> USE DEF IInv, TypeInv, TypeOK, Goto, fileVars, ctlVars
<1>1. ASSUME NEW w \in Writers, NEW k \in Kinds, BeginEvent(w, k)  PROVE TypeInv'
  BY <1>1 DEF BeginEvent, NoJob
<1>2. ASSUME NEW w \in Writers, NEW t \in Slots, LockSlot(w, t)  PROVE TypeInv'
  BY <1>2 DEF LockSlot
<1>3. ASSUME NEW w \in Writers, SkipEvent(w) \/ TestRec(w) \/ WriteNothing(w)  PROVE TypeInv'
  <2>1. CASE SkipEvent(w)  BY <2>1 DEF SkipEvent, NoJob
  <2>2. CASE TestRec(w)  BY <2>2 DEF TestRec
  <2>3. CASE WriteNothing(w)  BY <2>3 DEF WriteNothing
  <2> QED  BY <1>3, <2>1, <2>2, <2>3, Zenon
<1>4. ASSUME NEW w \in Writers, WriteEvent(w)  PROVE TypeInv'
  <2>1. rec' \in RecType /\ NewEvent(w) \in Recorded /\ events' = events \cup {NewEvent(w)} /\ next' = next + 1
    BY <1>4, WriteFrame, Zenon
  <2>2. /\ pc' = [pc EXCEPT ![w] = "flush"] /\ pc[w] = "write"
        /\ UNCHANGED <<lock, recLock, active, marked, job, log, chunk, chunks, lost, ctlVars>>
    BY <1>4, Zenon DEF WriteEvent
  <2> QED  BY <2>1, <2>2 DEF RecType
<1>5. ASSUME NEW w \in Writers, FlushEvent(w)  PROVE TypeInv'
  <2>1. rec' \in RecType /\ chunk' \subseteq Recorded /\ lost' \subseteq Recorded
    BY <1>5, FlushEventFrame, Zenon DEF Moved, RecType
  <2> QED  BY <1>5, <2>1 DEF FlushEvent, RecType
<1>6. ASSUME NEW w \in Writers, UnlockSlot(w)  PROVE TypeInv'
  BY <1>6 DEF UnlockSlot, NoJob, SlotInv, Inside
<1>7. ASSUME NEW l \in Loggers, LogEnter(l)  PROVE TypeInv'
  BY <1>7 DEF LogEnter
<1>8. ASSUME NEW l \in Loggers, LogWrite(l)  PROVE TypeInv'
  <2>1. CASE next <= MaxEvents
    <3>1. PICK e \in Recorded : rec' \in RecType /\ Moved({e}, rec.io) /\ events' = events \cup {e} /\ next' = next + 1
      BY <1>8, <2>1, LogWriteFrame, Zenon
    <3>2. chunk' \subseteq Recorded /\ lost' \subseteq Recorded /\ events' \subseteq Recorded /\ next' \in Nat
      BY <3>1 DEF Moved
    <3> QED  BY <1>8, <3>1, <3>2 DEF LogWrite, RecType
  <2>2. CASE ~(next <= MaxEvents)  BY <1>8, <2>2 DEF LogWrite
  <2> QED  BY <2>1, <2>2, Zenon
<1>9. ASSUME NEW l \in Loggers, LogLeave(l)  PROVE TypeInv'
  <2>1. recLock' \in Int /\ recLock' <= 1
    <3>1. l \in Logging  BY <1>9, Zenon DEF LogLeave, Logging
    <3>2. recLock <= 0  BY <3>1, Zenon DEF LogInv
    <3> QED  BY <1>9, <3>2 DEF LogLeave
  <2> QED  BY <1>9, <2>1 DEF LogLeave
<1>10. CASE BeginStart \/ BeginFlush \/ BeginStop
  BY <1>10, Zenon DEF BeginStart, BeginFlush, BeginStop, Begin
<1>11. CASE LockNext \/ EnginesStart \/ EnginesFail
  BY <1>11, Zenon DEF LockNext, EnginesStart, EnginesFail
<1>12. CASE Reset \/ StopNothing \/ EndFlush
  <2>1. CASE Reset  BY <2>1 DEF Reset, UnlockAll
  <2>2. CASE StopNothing  BY <2>2, Zenon DEF StopNothing, UnlockAll
  <2>3. CASE EndFlush
    <3>1. rec' \in RecType  BY <2>3, ControlFrame, Zenon
    <3>2. recLock' = recLock - 1  BY <2>3, Zenon DEF EndFlush
    <3>3. recLock' \in Int /\ recLock' <= 1  BY <3>2
    <3> QED  BY <2>3, <3>1, <3>3, Zenon DEF EndFlush, UnlockAll, RecType
  <2> QED  BY <1>12, <2>1, <2>2, <2>3, Zenon
<1>13. CASE OpenRecording \/ LockRecording
  BY <1>13 DEF OpenRecording, LockRecording
<1>14. CASE NewRecording \/ NoRecording
  <2>1. rec' \in RecType  BY <1>14, ControlFrame, Zenon
  <2>2. CASE NewRecording  BY <2>1, <2>2, SMTT(30) DEF NewRecording, RecType
  <2>3. CASE NoRecording  BY <2>1, <2>3 DEF NoRecording, RecType
  <2> QED  BY <1>14, <2>2, <2>3, Zenon
<1>15. CASE DiscardRecording \/ EndStop \/ EndDiscard
  <2>1. rec' \in RecType  BY <1>15, ControlFrame, Zenon
  <2>2. CASE DiscardRecording  BY <2>1, <2>2, Zenon DEF DiscardRecording, RecType
  <2>3. CASE EndStop
    <3>1. verdict' \in BOOLEAN  BY <2>3, ControlFrame, Zenon
    <3> QED  BY <2>1, <2>3, <3>1, Zenon DEF EndStop, UnlockAll, RecType
  <2>4. CASE EndDiscard  BY <2>1, <2>4, Zenon DEF EndDiscard, RecType
  <2> QED  BY <1>15, <2>2, <2>3, <2>4, Zenon
<1>16. CASE FlushBuffers
  <2>1. rec' \in RecType /\ chunk' \subseteq Recorded /\ lost' \subseteq Recorded
    BY <1>16, FlushBuffersFrame, Zenon DEF Moved
  <2> QED  BY <1>16, <2>1, Zenon DEF FlushBuffers, RecType
<1>17. CASE WriteCpool
  <2>1. rec' \in RecType  BY <1>17, ControlFrame, Zenon
  <2>2. lost' \subseteq Recorded  BY <1>17, Zenon DEF WriteCpool
  <2>3. chunks' \in Seq([events : SUBSET Recorded, threads : SUBSET Writers, traces : SUBSET Writers])
    <3>1. [events |-> chunk, threads |-> rec.threads, traces |-> marked]
              \in [events : SUBSET Recorded, threads : SUBSET Writers, traces : SUBSET Writers]
      BY Zenon DEF RecType
    <3>2. Append(chunks, [events |-> chunk, threads |-> rec.threads, traces |-> marked])
              \in Seq([events : SUBSET Recorded, threads : SUBSET Writers, traces : SUBSET Writers])
      BY <3>1, AppendType, Zenon
    <3>3. chunks' \in {chunks, Append(chunks, [events |-> chunk, threads |-> rec.threads, traces |-> marked])}
      BY <1>17, Zenon DEF WriteCpool
    <3> QED  BY <3>2, <3>3, Zenon
  <2> QED  BY <1>17, <2>1, <2>2, <2>3, Zenon DEF WriteCpool, RecType
<1> QED  BY <1>1, <1>2, <1>3, <1>4, <1>5, <1>6, <1>7, <1>8, <1>9, <1>10, <1>11, <1>12, <1>13, <1>14, <1>15,
            <1>16, <1>17, Zenon DEF Next, WriterStep, LoggerStep, ControlStep

(* With every slot held by the controller, no writer is inside.            *)
LEMMA NobodyInside ==
    ASSUME RecorderShape, SlotInv, AllLocked
    PROVE  \A w \in Writers : pc[w] \notin Inside
BY Zenon DEF RecorderShape, SlotInv, AllLocked, Ctl

(* A writer inside keeps its slot, and the recording it tested.            *)
LEMMA SlotStep ==
    ASSUME RecorderShape, IInv, Next
    PROVE  SlotInv'
<1> USE DEF SlotInv, Goto, fileVars, ctlVars, Inside
<1>0. /\ TypeInv /\ SlotInv /\ CtlInv /\ Free \notin Writers /\ Ctl \notin Writers
      /\ pc \in [Writers -> {"out", "try", "locked", "write", "flush", "unlock"}]
      /\ job \in [Writers -> [kind : Kinds \cup {"none"}, slot : Slots \cup {0}]]
      /\ lock \in [Slots -> Writers \cup {Free, Ctl}]
  BY Zenon DEF IInv, TypeInv, TypeOK, RecorderShape, Free, Ctl
<1>1. ASSUME NEW w \in Writers, NEW k \in Kinds, BeginEvent(w, k)  PROVE SlotInv'
  BY <1>0, <1>1, Zenon DEF BeginEvent, NoJob
<1>2. ASSUME NEW w \in Writers, NEW t \in Slots, LockSlot(w, t)  PROVE SlotInv'
  BY <1>0, <1>2 DEF LockSlot
<1>3. ASSUME NEW w \in Writers, SkipEvent(w) \/ WriteNothing(w)  PROVE SlotInv'
  BY <1>0, <1>3 DEF SkipEvent, WriteNothing
<1>4. ASSUME NEW w \in Writers, TestRec(w)  PROVE SlotInv'
  BY <1>0, <1>4, Zenon DEF TestRec, CtlInv
<1>5. ASSUME NEW w \in Writers, WriteEvent(w)  PROVE SlotInv'
  <2>1. SameRec(rec, rec')  BY <1>0, <1>5, WriteFrame, Zenon
  <2>2. /\ pc' = [pc EXCEPT ![w] = "flush"] /\ pc[w] = "write" /\ UNCHANGED <<lock, job, active, ctl>>
    BY <1>5, Zenon DEF WriteEvent
  <2> QED  BY <1>0, <2>1, <2>2, Zenon DEF SameRec
<1>6. ASSUME NEW w \in Writers, FlushEvent(w)  PROVE SlotInv'
  <2>1. SameRec(rec, rec')  BY <1>0, <1>6, FlushEventFrame, Zenon
  <2>2. /\ pc' = [pc EXCEPT ![w] = "unlock"] /\ pc[w] = "flush" /\ UNCHANGED <<lock, job, active, ctl>>
    BY <1>6, Zenon DEF FlushEvent
  <2> QED  BY <1>0, <2>1, <2>2, Zenon DEF SameRec
<1>7. ASSUME NEW w \in Writers, UnlockSlot(w)  PROVE SlotInv'
  BY <1>0, <1>7 DEF UnlockSlot
<1>8. ASSUME NEW l \in Loggers, LogEnter(l) \/ LogLeave(l)  PROVE SlotInv'
  BY <1>0, <1>8 DEF LogEnter, LogLeave
<1>9. ASSUME NEW l \in Loggers, LogWrite(l)  PROVE SlotInv'
  <2>1. rec'.discarded = rec.discarded
    BY <1>0, <1>9, LogWriteFrame, Zenon DEF LogWrite, SameRec
  <2> QED  BY <1>0, <1>9, <2>1, Zenon DEF LogWrite
<1>10. CASE BeginStart \/ BeginFlush \/ BeginStop
  BY <1>0, <1>10 DEF BeginStart, BeginFlush, BeginStop, Begin
<1>11. CASE LockNext
  BY <1>0, <1>11 DEF LockNext
<1>12. CASE EnginesStart \/ EnginesFail \/ OpenRecording \/ LockRecording
  BY <1>0, <1>12 DEF EnginesStart, EnginesFail, OpenRecording, LockRecording
<1>13. CASE Reset \/ StopNothing \/ EndFlush \/ EndStop
  <2>1. AllLocked  BY <1>0, <1>13, Zenon DEF Reset, StopNothing, EndFlush, EndStop, CtlInv, Finishing
  <2>2. \A w \in Writers : pc[w] \notin Inside  BY <1>0, <2>1, NobodyInside, Zenon
  <2>3. pc' = pc  BY <1>13, Zenon DEF Reset, StopNothing, EndFlush, EndStop
  <2> QED  BY <2>2, <2>3, Zenon
<1>14. CASE NewRecording \/ NoRecording
  BY <1>0, <1>14, Zenon DEF NewRecording, NoRecording
<1>15. CASE DiscardRecording \/ EndDiscard
  <2>1. rec'.discarded  BY <1>0, <1>15, ControlFrame, Zenon DEF EndDiscard, CtlInv, Finishing, SameFinished
  <2> QED  BY <1>0, <1>15, <2>1, Zenon DEF DiscardRecording, EndDiscard
<1>16. CASE FlushBuffers
  <2>1. SameRec(rec, rec')  BY <1>0, <1>16, FlushBuffersFrame, Zenon
  <2> QED  BY <1>0, <1>16, <2>1, Zenon DEF FlushBuffers, SameRec
<1>17. CASE WriteCpool
  <2>1. SameRec(rec, rec')  BY <1>0, <1>17, ControlFrame, Zenon
  <2> QED  BY <1>0, <1>17, <2>1, Zenon DEF WriteCpool, SameRec
<1> QED  BY <1>1, <1>2, <1>3, <1>4, <1>5, <1>6, <1>7, <1>8, <1>9, <1>10, <1>11, <1>12, <1>13, <1>14, <1>15,
            <1>16, <1>17, Zenon DEF Next, WriterStep, LoggerStep, ControlStep

(* The numbering is empty exactly when there is nobody to number.          *)
LEMMA NumberedNone ==
    ASSUME NEW S
    PROVE  Numbered(S, 0) <=> S = {}
<1>1. ASSUME Numbered(S, 0)  PROVE S = {}
  <2>1. PICK f : f \in [S -> 1..0]  BY <1>1, Zenon DEF Numbered, Numbering
  <2> QED  BY <2>1
<1>2. ASSUME S = {}  PROVE Numbered(S, 0)
  <2>1. Numbering([x \in S |-> 0], S, 0)  BY <1>2 DEF Numbering
  <2> QED  BY <2>1, Zenon DEF Numbered
<1> QED  BY <1>1, <1>2, Zenon

(* Who enters takes the next number.                                       *)
LEMMA NumberedEnter ==
    ASSUME NEW S, NEW n \in Nat, Numbered(S, n), NEW x, x \notin S
    PROVE  Numbered(S \cup {x}, n + 1)
<1>1. PICK f : Numbering(f, S, n)  BY Zenon DEF Numbered
<1> DEFINE g == [y \in S \cup {x} |-> IF y = x THEN n + 1 ELSE f[y]]
<1>2. g \in [S \cup {x} -> 1..(n + 1)]  BY <1>1 DEF Numbering
<1>3. \A y \in S : g[y] = f[y] /\ f[y] \in 1..n  BY <1>1, Zenon DEF Numbering
<1>4. g[x] = n + 1  BY Zenon
<1>5. ASSUME NEW i \in 1..(n + 1)  PROVE \E y \in S \cup {x} : g[y] = i
  <2>1. CASE i = n + 1  BY <1>4, <2>1, Zenon
  <2>2. CASE i \in 1..n  BY <1>1, <1>3, <2>2, Zenon DEF Numbering
  <2> QED  BY <2>1, <2>2
<1> HIDE DEF g
<1>6. \A y, z \in S \cup {x} : g[y] = g[z] => y = z  BY <1>1, <1>3, <1>4 DEF Numbering
<1> QED  BY <1>2, <1>5, <1>6, Zenon DEF Numbered, Numbering

(* Who leaves hands its number to the last one.                            *)
LEMMA NumberedLeave ==
    ASSUME NEW S, NEW n \in Nat, Numbered(S, n), NEW x \in S
    PROVE  n # 0 /\ Numbered(S \ {x}, n - 1)
<1>1. PICK f : Numbering(f, S, n)  BY Zenon DEF Numbered
<1>2. n # 0 /\ f[x] \in 1..n  BY <1>1 DEF Numbering
<1> DEFINE g == [y \in S \ {x} |-> IF f[y] = n THEN f[x] ELSE f[y]]
<1>3. \A y \in S \ {x} : f[y] \in 1..n /\ f[y] # f[x]  BY <1>1, Zenon DEF Numbering
<1>4. g \in [S \ {x} -> 1..(n - 1)]  BY <1>2, <1>3
<1>5. \A y \in S \ {x} : g[y] = IF f[y] = n THEN f[x] ELSE f[y]  BY Zenon
<1> HIDE DEF g
<1>6. ASSUME NEW y \in S \ {x}, NEW z \in S \ {x}, g[y] = g[z]  PROVE y = z
  <2>1. f[y] = f[z]  BY <1>3, <1>5, <1>6, Zenon
  <2> QED  BY <1>1, <2>1, Zenon DEF Numbering
<1>7. ASSUME NEW i \in 1..(n - 1)  PROVE \E y \in S \ {x} : g[y] = i
  <2>1. PICK y \in S : f[y] = i  BY <1>1 DEF Numbering
  <2>2. PICK z \in S : f[z] = n  BY <1>1, <1>2 DEF Numbering
  <2>3. CASE y = x
    <3>1. z \in S \ {x} /\ g[z] = i  BY <1>5, <2>1, <2>2, <2>3
    <3> QED  BY <3>1, Zenon
  <2>4. CASE y # x  BY <1>5, <2>1, <2>4
  <2> QED  BY <2>3, <2>4, Zenon
<1> QED  BY <1>2, <1>4, <1>6, <1>7, Zenon DEF Numbered, Numbering

(* _rec_lock goes on counting the loggers.                                 *)
LEMMA LogStep ==
    ASSUME RecorderShape, IInv, Next
    PROVE  LogInv'
<1> DEFINE Shut == recLock = 1 /\ Logging = {}
           Open == /\ recLock <= 0 /\ Numbered(Logging, 0 - recLock)
                   /\ active /\ ~rec.discarded /\ ctl # "test" /\ ~Finishing
<1>0. /\ LogInv /\ CtlInv /\ recLock \in Int
      /\ log \in [Loggers -> {"out", "writing", "leaving"}]
  BY Zenon DEF IInv, TypeInv, TypeOK
<1>1. Shut \/ Open  BY <1>0, Zenon DEF LogInv
<1>2. ASSUME NEW l \in Loggers, LogEnter(l)  PROVE LogInv'
  <2>1. Open  BY <1>1, <1>2 DEF LogEnter
  <2>2. Logging' = Logging \cup {l} /\ l \notin Logging  BY <1>0, <1>2, Zenon DEF LogEnter, Logging
  <2>3. recLock' = recLock - 1 /\ UNCHANGED <<active, rec, ctl>>  BY <1>2, Zenon DEF LogEnter, ctlVars
  <2>4. 0 - recLock \in Nat /\ 0 - recLock' = (0 - recLock) + 1 /\ recLock' <= 0  BY <1>0, <2>1, <2>3
  <2>5. Numbered(Logging', 0 - recLock')  BY <2>1, <2>2, <2>4, NumberedEnter, Zenon
  <2> QED  BY <2>1, <2>3, <2>4, <2>5, Zenon DEF LogInv, Finishing
<1>3. ASSUME NEW l \in Loggers, LogWrite(l)  PROVE LogInv'
  <2>1. l \in Logging  BY <1>3, Zenon DEF LogWrite, Logging
  <2>2. Logging' = Logging  BY <1>0, <1>3, Zenon DEF LogWrite, Logging
  <2>3. UNCHANGED <<recLock, active, ctl>>  BY <1>3, Zenon DEF LogWrite, ctlVars
  <2>4. rec'.discarded = rec.discarded  BY <1>3, LogWriteFrame, Zenon DEF LogWrite, SameRec, IInv
  <2> QED  BY <1>1, <2>1, <2>2, <2>3, <2>4, Zenon DEF LogInv, Finishing
<1>4. ASSUME NEW l \in Loggers, LogLeave(l)  PROVE LogInv'
  <2>1. l \in Logging  BY <1>4, Zenon DEF LogLeave, Logging
  <2>2. Logging' = Logging \ {l}  BY <1>0, <1>4, Zenon DEF LogLeave, Logging
  <2>3. Open  BY <1>1, <2>1, Zenon
  <2>4. recLock' = recLock + 1 /\ UNCHANGED <<active, rec, ctl>>  BY <1>4, Zenon DEF LogLeave, ctlVars
  <2>5. 0 - recLock \in Nat /\ 0 - recLock' = (0 - recLock) - 1  BY <1>0, <2>4, <2>3
  <2>6. 0 - recLock # 0 /\ Numbered(Logging', 0 - recLock')  BY <2>1, <2>2, <2>3, <2>5, NumberedLeave, Zenon
  <2>7. recLock' <= 0  BY <1>0, <2>3, <2>4, <2>6
  <2> QED  BY <2>3, <2>4, <2>6, <2>7, Zenon DEF LogInv, Finishing
<1>5. CASE OpenRecording \/ EndFlush
  <2>1. Shut  BY <1>1, <1>5, Zenon DEF OpenRecording, EndFlush, Finishing
  <2>2. recLock' = 0 /\ log' = log /\ active' = active /\ ctl' \in {"engines", "free"}
    <3>1. recLock' = recLock - 1 /\ log' = log /\ active' = active /\ ctl' \in {"engines", "free"}
      BY <1>5, Zenon DEF OpenRecording, EndFlush
    <3> QED  BY <2>1, <3>1
  <2>6. rec'.discarded = rec.discarded
    BY <1>5, ControlFrame, Zenon DEF OpenRecording, SameRec, IInv
  <2>3. active /\ ~rec.discarded  BY <1>0, <1>5, Zenon DEF OpenRecording, EndFlush, CtlInv, Finishing
  <2>4. Logging' = {}  BY <2>1, <2>2, Zenon DEF Logging
  <2>5. recLock' <= 0 /\ Numbered(Logging', 0 - recLock')  BY <2>2, <2>4, NumberedNone
  <2> QED  BY <2>2, <2>3, <2>5, <2>6, Zenon DEF LogInv, Finishing
<1>6. CASE LockRecording
  <2>1. recLock = 0 /\ recLock' = 1 /\ log' = log  BY <1>6, Zenon DEF LockRecording
  <2>2. Logging = {}  BY <1>1, <2>1, NumberedNone
  <2> QED  BY <2>1, <2>2, Zenon DEF LogInv, Logging
<1>7. CASE NewRecording \/ NoRecording \/ DiscardRecording \/ FlushBuffers \/ WriteCpool \/ EndStop \/ EndDiscard
  <2>1. Shut
    BY <1>0, <1>1, <1>7, Zenon DEF CtlInv, Finishing, NewRecording, NoRecording, DiscardRecording, FlushBuffers,
                            WriteCpool, EndStop, EndDiscard
  <2>2. recLock' = recLock /\ log' = log
    BY <1>7, Zenon DEF NewRecording, NoRecording, DiscardRecording, FlushBuffers, WriteCpool, EndStop, EndDiscard
  <2> QED  BY <2>1, <2>2, Zenon DEF LogInv, Logging
<1>8. CASE BeginStart \/ BeginFlush \/ BeginStop \/ LockNext \/ Reset \/ EnginesStart
           \/ EnginesFail \/ StopNothing
  <2>1. UNCHANGED <<recLock, log, active, rec>> /\ ctl' \in {"free", "locking", "new"}
    BY <1>8, Zenon DEF BeginStart, BeginFlush, BeginStop, Begin, LockNext, Reset, EnginesStart,
                EnginesFail, StopNothing, ctlVars
  <2> QED  BY <1>1, <2>1, Zenon DEF LogInv, Logging, Finishing
<1>9. ASSUME NEW w \in Writers, WriterStep(w) \/ (\E k \in Kinds : BeginEvent(w, k))  PROVE LogInv'
  <2>1. UNCHANGED <<recLock, log, active, ctl>>
    BY <1>9, Zenon DEF WriterStep, BeginEvent, LockSlot, SkipEvent, TestRec, WriteEvent, WriteNothing, FlushEvent,
                UnlockSlot, ctlVars
  <2>2. rec'.discarded = rec.discarded
    BY <1>9, WriteFrame, FlushEventFrame, Zenon
     DEF WriterStep, BeginEvent, LockSlot, SkipEvent, TestRec, WriteNothing, UnlockSlot, IInv, SameRec
  <2> QED  BY <1>1, <2>1, <2>2, Zenon DEF LogInv, Logging, Finishing
<1> QED  BY <1>2, <1>3, <1>4, <1>5, <1>6, <1>7, <1>8, <1>9, Zenon DEF Next, LoggerStep, ControlStep

(* The controller keeps what it has taken until it gives it back.          *)
LEMMA CtlStep ==
    ASSUME RecorderShape, IInv, Next
    PROVE  CtlInv'
<1> USE DEF CtlInv, Finishing
<1>0. CtlInv /\ SlotInv /\ TypeInv /\ Free # Ctl  BY DEF IInv, Free, Ctl
<1>1. ASSUME NEW w \in Writers, WriterStep(w) \/ (\E k \in Kinds : BeginEvent(w, k))  PROVE CtlInv'
  <2>1. UNCHANGED <<ctl, task, running, active, recLock>>
    BY <1>1, Zenon DEF WriterStep, BeginEvent, LockSlot, SkipEvent, TestRec, WriteEvent, WriteNothing, FlushEvent,
                UnlockSlot, ctlVars
  <2>2. rec'.discarded = rec.discarded /\ rec'.live = rec.live
    BY <1>0, <1>1, WriteFrame, FlushEventFrame, Zenon
     DEF WriterStep, BeginEvent, LockSlot, SkipEvent, TestRec, WriteNothing, UnlockSlot, SameRec
  <2>3. AllLocked => lock' = lock
    <3> SUFFICES ASSUME AllLocked PROVE lock' = lock  BY Zenon
    <3>1. pc[w] \notin Inside  BY <1>0, NobodyInside, Zenon
    <3>2. \A t \in Slots : ~LockSlot(w, t)  BY <1>0, Zenon DEF LockSlot, AllLocked
    <3> QED  BY <1>1, <3>1, <3>2, Zenon DEF WriterStep, BeginEvent, SkipEvent, TestRec, WriteEvent, WriteNothing,
                                     FlushEvent, UnlockSlot, Inside
  <2> QED  BY <1>0, <2>1, <2>2, <2>3, Zenon DEF AllLocked
<1>2. ASSUME NEW l \in Loggers, LogEnter(l) \/ LoggerStep(l)  PROVE CtlInv'
  <2>1. UNCHANGED <<ctl, task, running, active, lock>>
    BY <1>2, Zenon DEF LogEnter, LoggerStep, LogWrite, LogLeave, ctlVars
  <2>2. rec'.discarded = rec.discarded /\ rec'.live = rec.live
    BY <1>0, <1>2, LogWriteFrame, Zenon DEF LogEnter, LoggerStep, LogWrite, LogLeave, SameRec
  <2>3. Finishing => recLock' = recLock
    BY <1>2 DEF IInv, LogInv, Logging, LogEnter, LoggerStep, LogWrite, LogLeave
  <2> QED  BY <1>0, <2>1, <2>2, <2>3, Zenon DEF AllLocked
<1>3. CASE BeginStart \/ BeginFlush \/ BeginStop
  BY <1>0, <1>3 DEF BeginStart, BeginFlush, BeginStop, Begin
<1>4. CASE LockNext \/ Reset \/ EnginesStart \/ EnginesFail \/ StopNothing
  BY <1>0, <1>4 DEF LockNext, Reset, EnginesStart, EnginesFail, StopNothing, ctlVars
<1>5. CASE NewRecording
  <2>1. rec'.live /\ ~rec'.discarded  BY <1>0, <1>5, ControlFrame, Zenon
  <2> QED  BY <1>0, <1>5, <2>1, Zenon DEF NewRecording
<1>12. CASE NoRecording  BY <1>0, <1>12, Zenon DEF NoRecording
<1>6. CASE DiscardRecording
  <2>1. rec'.live = rec.live /\ rec'.discarded  BY <1>0, <1>6, ControlFrame, Zenon
  <2>2. recLock = 1  BY <1>6, Zenon DEF DiscardRecording, IInv, LogInv, Logging
  <2> QED  BY <1>0, <1>6, <2>1, <2>2, Zenon DEF DiscardRecording
<1>7. CASE OpenRecording  BY <1>0, <1>7, Zenon DEF OpenRecording
<1>8. CASE LockRecording  BY <1>0, <1>8, Zenon DEF LockRecording, AllLocked
<1>9. CASE FlushBuffers \/ WriteCpool
  <2>1. SameRec(rec, rec')  BY <1>0, <1>9, FlushBuffersFrame, ControlFrame, Zenon
  <2> QED  BY <1>0, <1>9, <2>1 DEF FlushBuffers, WriteCpool, AllLocked, SameRec
<1>10. CASE EndFlush
  <2>1. SameRec(rec, rec')  BY <1>0, <1>10, ControlFrame, Zenon
  <2> QED  BY <1>0, <1>10, <2>1, Zenon DEF EndFlush, SameRec
<1>11. CASE EndStop \/ EndDiscard  BY <1>0, <1>11, Zenon DEF EndStop, EndDiscard
<1> QED  BY <1>1, <1>2, <1>3, <1>4, <1>5, <1>6, <1>7, <1>8, <1>9, <1>10, <1>11, <1>12, Zenon DEF Next, ControlStep

(* What the events of a good recording need stays in the sets the constant *)
(* pool is written from, until it is written.                              *)
LEMMA PoolStep ==
    ASSUME RecorderShape, IInv, Next
    PROVE  PoolInv'
<1>0. /\ TypeInv /\ SlotInv /\ CtlInv /\ PoolInv /\ LogInv
      /\ pc \in [Writers -> {"out", "try", "locked", "write", "flush", "unlock"}]
      /\ job \in [Writers -> [kind : Kinds \cup {"none"}, slot : Slots \cup {0}]]
  BY Zenon DEF IInv, TypeInv, TypeOK
<1>a. ~rec.discarded /\ (Finishing \/ ~active) => \A w \in Writers : pc[w] \notin {"write", "flush"}
  BY <1>0, NobodyInside, Zenon DEF CtlInv, SlotInv, Inside
<1>b. ASSUME rec' = rec, active' = active, chunk' = chunk, chunks' = chunks, ctl' = ctl, marked' = marked,
             pc' = pc, job' = job
      PROVE  PoolInv'
  <2>1. ChunkComplete' = ChunkComplete  BY <1>b, Zenon DEF ChunkComplete
  <2> HIDE DEF ChunkComplete
  <2> QED  BY <1>0, <1>b, <2>1, Zenon DEF PoolInv
(* Steps of a writer other than writing and flushing.                      *)
<1>1. ASSUME NEW w \in Writers, UNCHANGED <<rec, active, chunk, chunks, ctl>>,
             marked \subseteq marked', \A u \in Writers \ {w} : pc'[u] = pc[u] /\ job'[u] = job[u],
             pc[w] # "flush",
             pc'[w] \in Inside /\ job'[w].kind = "sample" =>
                 w \in marked' \/ (pc[w] \in Inside /\ job[w].kind = "sample")
      PROVE  PoolInv'
  BY <1>0, <1>1, SMTT(30) DEF PoolInv, ChunkComplete
<1>2. ASSUME NEW w \in Writers, NEW k \in Kinds, BeginEvent(w, k)  PROVE PoolInv'
  BY <1>0, <1>1, <1>2, Zenon DEF BeginEvent, Goto, NoJob, fileVars, ctlVars, Inside
<1>3. ASSUME NEW w \in Writers, NEW t \in Slots, LockSlot(w, t)  PROVE PoolInv'
  BY <1>0, <1>1, <1>3, Zenon DEF LockSlot, Goto, fileVars, ctlVars, Inside
<1>4. ASSUME NEW w \in Writers, SkipEvent(w) \/ TestRec(w) \/ WriteNothing(w) \/ UnlockSlot(w)  PROVE PoolInv'
  BY <1>0, <1>1, <1>4, Zenon DEF SkipEvent, TestRec, WriteNothing, UnlockSlot, Goto, NoJob, fileVars, ctlVars, Inside
<1>5. ASSUME NEW w \in Writers, WriteEvent(w)  PROVE PoolInv'
  <2> DEFINE e == NewEvent(w)
             t == job[w].slot
  <2>1. /\ t \in Slots /\ SameRec(rec, rec') /\ rec'.threads = rec.threads /\ rec \in RecType
        /\ rec'.buf = [rec.buf EXCEPT ![t] = rec.buf[t] \cup {e}]
    BY <1>0, <1>5, WriteFrame, Zenon DEF TypeInv
  <2>2. /\ pc' = [pc EXCEPT ![w] = "flush"] /\ pc[w] = "write" /\ UNCHANGED <<job, marked, active, chunk, chunks, ctl>>
    BY <1>5, Zenon DEF WriteEvent, Goto, ctlVars
  <2>3. e.tid = w /\ e.kind = job[w].kind /\ e.kind # "log"
    BY <1>0, <2>2, Zenon DEF NewEvent, TypeInv, RecorderShape
  <2>4. ~rec.discarded => active /\ ~Finishing  BY <1>a, <2>2, Zenon
  <2> HIDE DEF e
  <2>5. ~rec'.discarded \/ ctl' = "new" =>
          \A u \in Writers : pc'[u] \in Inside /\ job'[u].kind = "sample" => u \in marked'
    BY <1>0, <2>1, <2>2 DEF PoolInv, SameRec, Inside
  <2>6. ASSUME ~rec'.discarded, NEW q \in Slots, NEW d \in rec'.buf[q]
        PROVE  /\ d.kind # "log" /\ d.tid \in Writers
               /\ d.tid \in rec'.threads \/ (pc'[d.tid] = "flush" /\ job'[d.tid].slot = q)
               /\ d.kind = "sample" => d.tid \in marked'
    <3>1. CASE d \in rec.buf[q]  BY <1>0, <2>1, <2>2, <2>6, <3>1, SMTT(30) DEF PoolInv, SameRec
    <3>2. CASE d = e /\ q = t  BY <1>0, <2>1, <2>2, <2>3, <2>6, <3>2 DEF PoolInv, SameRec, Inside
    <3> QED  BY <2>1, <2>6, <3>1, <3>2, SMTT(30) DEF RecType
  <2> QED  BY <1>0, <2>1, <2>2, <2>4, <2>5, <2>6, Zenon DEF PoolInv, SameRec, ChunkComplete, Finishing
<1>6. ASSUME NEW w \in Writers, FlushEvent(w)  PROVE PoolInv'
  <2> DEFINE t == job[w].slot
  <2>1. /\ t \in Slots /\ SameRec(rec, rec') /\ rec'.threads = rec.threads \cup {w} /\ rec \in RecType
        /\ \/ rec'.buf = rec.buf /\ chunk' = chunk
           \/ rec'.buf = [rec.buf EXCEPT ![t] = {}] /\ chunk' \subseteq chunk \cup rec.buf[t]
    BY <1>0, <1>6, FlushEventFrame, Zenon DEF TypeInv, Moved
  <2>2. /\ pc' = [pc EXCEPT ![w] = "unlock"] /\ pc[w] = "flush" /\ UNCHANGED <<job, marked, active, chunks, ctl>>
    BY <1>6, Zenon DEF FlushEvent, Goto, ctlVars
  <2>3. ~rec.discarded => active /\ ~Finishing  BY <1>a, <2>2, Zenon
  <2>4. \A u \in Writers : pc[u] = "flush" /\ job[u].slot = t => u = w
    BY <1>0, <2>2 DEF SlotInv, Inside
  <2>5. ~rec'.discarded \/ ctl' = "new" =>
          \A u \in Writers : pc'[u] \in Inside /\ job'[u].kind = "sample" => u \in marked'
    BY <1>0, <2>1, <2>2 DEF PoolInv, SameRec, Inside
  <2>6. ASSUME ~rec'.discarded, NEW q \in Slots, NEW d \in rec'.buf[q]
        PROVE  /\ d.kind # "log" /\ d.tid \in Writers
               /\ d.tid \in rec'.threads \/ (pc'[d.tid] = "flush" /\ job'[d.tid].slot = q)
               /\ d.kind = "sample" => d.tid \in marked'
    <3>1. d \in rec.buf[q]  BY <2>1, <2>6, Zenon DEF RecType
    <3> QED  BY <1>0, <2>1, <2>2, <2>6, <3>1, SMTT(30) DEF PoolInv, SameRec
  <2>7. ASSUME ~rec'.discarded, NEW d \in chunk'
        PROVE  /\ d.kind # "log" => d.tid \in rec'.threads
               /\ d.kind = "sample" => d.tid \in marked'
    <3>1. CASE d \in chunk  BY <1>0, <2>1, <2>2, <2>7, <3>1, Zenon DEF PoolInv, SameRec
    <3>2. CASE d \in rec.buf[t]  BY <1>0, <2>1, <2>2, <2>4, <2>7, <3>2, SMTT(30) DEF PoolInv, SameRec
    <3> QED  BY <2>1, <2>7, <3>1, <3>2, Zenon
  <2> QED  BY <1>0, <2>1, <2>2, <2>3, <2>5, <2>6, <2>7, Zenon DEF PoolInv, SameRec, ChunkComplete, Finishing
<1>7. ASSUME NEW l \in Loggers, LogEnter(l) \/ LogLeave(l)  PROVE PoolInv'
  BY <1>b, <1>7, Zenon DEF LogEnter, LogLeave, fileVars, ctlVars
<1>8. ASSUME NEW l \in Loggers, LogWrite(l)  PROVE PoolInv'
  <2>1. UNCHANGED <<pc, job, marked, active, chunks, ctl>>  BY <1>8, Zenon DEF LogWrite, ctlVars
  <2>2. active /\ ~Finishing  BY <1>0, <1>8, Zenon DEF LogWrite, LogInv, Logging
  <2>3. CASE next <= MaxEvents
    <3>1. PICK e \in Recorded :
             /\ e.kind = "log" /\ SameRec(rec, rec') /\ rec'.threads = rec.threads /\ rec'.buf = rec.buf
             /\ Moved({e}, rec.io)
      BY <1>0, <1>8, <2>3, LogWriteFrame, Zenon
    <3>2. chunk' \subseteq chunk \cup {e}  BY <3>1, Zenon DEF Moved
    <3>3. rec'.discarded = rec.discarded /\ rec'.threads = rec.threads /\ marked' = marked  BY <2>1, <3>1, Zenon DEF SameRec
    <3>4. ~rec.discarded => \A d \in chunk' :
              /\ d.kind # "log" => d.tid \in rec.threads
              /\ d.kind = "sample" => d.tid \in marked
      BY <1>0, <3>1, <3>2, Zenon DEF PoolInv
    <3>5. ctl # "cpool" /\ ctl # "patch" /\ active  BY <2>2, Zenon DEF Finishing
    <3>6. ChunkComplete' = ChunkComplete  BY <2>1, <3>3, Zenon DEF ChunkComplete
    <3> HIDE DEF ChunkComplete
    <3>7. ~rec'.discarded \/ ctl' = "new" =>
            \A u \in Writers : pc'[u] \in Inside /\ job'[u].kind = "sample" => u \in marked'
      BY <1>0, <2>1, <3>3, Zenon DEF PoolInv
    <3>8. ASSUME ~rec'.discarded, NEW q \in Slots, NEW d \in rec'.buf[q]
          PROVE  /\ d.kind # "log" /\ d.tid \in Writers
                 /\ d.tid \in rec'.threads \/ (pc'[d.tid] = "flush" /\ job'[d.tid].slot = q)
                 /\ d.kind = "sample" => d.tid \in marked'
      BY <1>0, <2>1, <3>1, <3>3, <3>8, SMTT(30) DEF PoolInv
    <3>9. ~rec'.discarded => ChunkComplete'  BY <1>0, <3>3, <3>6, Zenon DEF PoolInv
    <3>10. ~rec'.discarded => \A d \in chunk' :
              /\ d.kind # "log" => d.tid \in rec'.threads
              /\ d.kind = "sample" => d.tid \in marked'
      BY <3>3, <3>4, Zenon
    <3>11. ctl' # "cpool" /\ ctl' # "patch" /\ active'  BY <2>1, <3>5, Zenon
    <3> QED  BY <3>7, <3>8, <3>9, <3>10, <3>11, Zenon DEF PoolInv
  <2>4. CASE ~(next <= MaxEvents)
    BY <1>b, <1>8, <2>1, <2>4, Zenon DEF LogWrite
  <2> QED  BY <2>3, <2>4, Zenon
<1>9. CASE BeginStart \/ BeginFlush \/ BeginStop \/ LockNext \/ OpenRecording \/ EnginesStart
           \/ EnginesFail \/ StopNothing \/ LockRecording
  <2>1. /\ UNCHANGED <<pc, job, marked, rec, active, chunk, chunks>>
        /\ ctl' \in {"free", "locking", "engines", "buffers"}
    BY <1>9, Zenon DEF BeginStart, BeginFlush, BeginStop, Begin, LockNext, OpenRecording, EnginesStart,
                EnginesFail, StopNothing, LockRecording, fileVars, ctlVars
  <2> QED  BY <1>0, <2>1, SMTT(30) DEF PoolInv, ChunkComplete
<1>10. CASE Reset
  <2>1. \A w \in Writers : pc[w] \notin Inside  BY <1>0, <1>10, NobodyInside, Zenon DEF Reset
  <2>2. ~active  BY <1>0, <1>10, Zenon DEF Reset, CtlInv
  <2>3. UNCHANGED <<pc, job, rec, active, chunk, chunks>> /\ ctl' = "new"  BY <1>10, Zenon DEF Reset, fileVars
  <2> QED  BY <1>0, <2>1, <2>2, <2>3, Zenon DEF PoolInv, ChunkComplete, Empty
<1>11. CASE NewRecording \/ NoRecording
  <2>1. rec'.buf = Empty /\ ~rec'.discarded  BY <1>0, <1>11, ControlFrame, Zenon
  <2>2. /\ ctl = "new" /\ UNCHANGED <<pc, job, marked>> /\ chunk' = {} /\ chunks' = <<>>
    BY <1>11, Zenon DEF NewRecording, NoRecording
  <2> QED  BY <1>0, <2>1, <2>2, SMTT(30) DEF PoolInv, ChunkComplete, Empty
<1>12. CASE DiscardRecording \/ EndDiscard
  <2>1. rec'.discarded /\ ctl' # "new"
    BY <1>0, <1>12, ControlFrame, Zenon DEF DiscardRecording, EndDiscard, CtlInv, Finishing, SameFinished
  <2> QED  BY <2>1, Zenon DEF PoolInv
<1>13. CASE FlushBuffers
  <2>1. /\ SameRec(rec, rec') /\ rec'.threads = rec.threads /\ rec'.buf = Empty
        /\ chunk' \subseteq chunk \cup AllBuffered
    BY <1>0, <1>13, FlushBuffersFrame, Zenon DEF Moved
  <2>2. ctl = "buffers" /\ ctl' = "cpool" /\ UNCHANGED <<pc, job, marked, active, chunks>>  BY <1>13, Zenon DEF FlushBuffers
  <2>3. active  BY <1>0, <2>2, Zenon DEF CtlInv, Finishing
  <2>4. ASSUME ~rec.discarded, NEW d \in AllBuffered
        PROVE  d.tid \in rec.threads /\ (d.kind = "sample" => d.tid \in marked)
    <3>1. PICK q \in Slots : d \in rec.buf[q]  BY Zenon DEF AllBuffered
    <3>2. \A w \in Writers : pc[w] # "flush"  BY <1>a, <2>2, <2>4, Zenon DEF Finishing
    <3> QED  BY <1>0, <2>4, <3>1, <3>2, Zenon DEF PoolInv
  <2> QED  BY <1>0, <2>1, <2>2, <2>3, <2>4, Zenon DEF PoolInv, SameRec, ChunkComplete, Empty
<1>14. CASE WriteCpool
  <2>1. SameRec(rec, rec') /\ rec'.buf = rec.buf  BY <1>0, <1>14, ControlFrame, Zenon
  <2>2. /\ ctl = "cpool" /\ ctl' = "patch" /\ UNCHANGED <<pc, job, active>> /\ chunk' = {}
        /\ \/ chunks' = chunks
           \/ chunks' = Append(chunks, [events |-> chunk, threads |-> rec.threads, traces |-> marked])
    BY <1>14, Zenon DEF WriteCpool
  <2>3. ~rec.discarded => \A w \in Writers : pc[w] \notin Inside
    BY <1>0, <2>2, NobodyInside, Zenon DEF CtlInv, Finishing
  <2>4. ~rec.discarded => rec.buf = Empty  BY <1>0, <2>2, Zenon DEF PoolInv
  <2>5. ASSUME ~rec.discarded, NEW i \in DOMAIN chunks', NEW e \in chunks'[i].events
        PROVE  /\ e.kind # "log" => e.tid \in chunks'[i].threads
               /\ e.kind = "sample" => e.tid \in chunks'[i].traces
    <3>1. CASE i \in DOMAIN chunks
      <4>1. chunks'[i] = chunks[i]  BY <1>0, <2>2, <3>1 DEF TypeInv
      <4> QED  BY <1>0, <2>5, <3>1, <4>1, Zenon DEF PoolInv, ChunkComplete
    <3>2. CASE i \notin DOMAIN chunks
      <4>1. chunks'[i] = [events |-> chunk, threads |-> rec.threads, traces |-> marked]
        BY <1>0, <2>2, <2>5, <3>2, SMTT(30) DEF TypeInv
      <4> QED  BY <1>0, <2>5, <4>1, SMTT(30) DEF PoolInv
    <3> QED  BY <3>1, <3>2, Zenon
  <2> QED  BY <2>1, <2>2, <2>3, <2>4, <2>5, Zenon DEF PoolInv, SameRec, ChunkComplete, Empty
<1>15. CASE EndFlush \/ EndStop
  <2>1. rec'.discarded = rec.discarded /\ rec'.buf = rec.buf /\ rec'.threads = rec.threads
    BY <1>0, <1>15, ControlFrame, Zenon DEF SameRec, SameFinished
  <2>2. ctl = "patch" /\ ctl' = "free" /\ UNCHANGED <<pc, job, marked, chunk, chunks>>
    BY <1>15, Zenon DEF EndFlush, EndStop, fileVars
  <2>3. ChunkComplete' = ChunkComplete  BY <2>1, <2>2, Zenon DEF ChunkComplete
  <2> QED  BY <1>0, <2>1, <2>2, <2>3, SMTT(30) DEF PoolInv
<1> QED  BY <1>2, <1>3, <1>4, <1>5, <1>6, <1>7, <1>8, <1>9, <1>10, <1>11, <1>12, <1>13, <1>14, <1>15, Zenon
         DEF Next, WriterStep, LoggerStep, ControlStep

(* Each event of all is in one of B, C, L and F.                           *)
Split(all, B, C, L, F) ==
    all = B \cup C \cup L \cup F /\ B \cap (C \cup L \cup F) = {} /\ C \cap (L \cup F) = {} /\ L \cap F = {}

(* A new event joins one place; the events of a buffer move to another;    *)
(* the chunk is finished.                                                  *)
LEMMA SplitMoves ==
    ASSUME NEW all, NEW B, NEW C, NEW L, NEW F, Split(all, B, C, L, F)
    PROVE  /\ \A e : e \notin all => /\ Split(all \cup {e}, B \cup {e}, C, L, F)
                                     /\ Split(all \cup {e}, B, C \cup {e}, L, F)
                                     /\ Split(all \cup {e}, B, C, L \cup {e}, F)
           /\ \A M \in SUBSET B : Split(all, B \ M, C \cup M, L, F) /\ Split(all, B \ M, C, L \cup M, F)
           /\ Split(all, B, {}, L, F \cup C) /\ Split(all, B, {}, L \cup C, F)
BY Zenon DEF Split

(* An event with the next number is a new one.                             *)
LEMMA FreshEvent ==
    ASSUME NEW E \in SUBSET Recorded, NEW n \in Nat, \A d \in E : d.id < n, NEW e, e.id = n
    PROVE  e \notin E /\ \A d \in E \cup {e} : d.id < n + 1
<1>1. \A d \in E : d.id \in Nat
  BY Zenon DEF Recorded
<1> QED  BY <1>1

(* Buffers stay apart when one of them gets an event that is in none.      *)
LEMMA ApartWith ==
    ASSUME NEW b \in [Slots -> SUBSET Recorded], NEW q \in Slots, NEW e,
           \A s, t \in Slots : s # t => b[s] \cap b[t] = {}, \A s \in Slots : e \notin b[s]
    PROVE  LET c == [b EXCEPT ![q] = b[q] \cup {e}]
           IN  \A s, t \in Slots : s # t => c[s] \cap c[t] = {}
<1> DEFINE c == [b EXCEPT ![q] = b[q] \cup {e}]
<1>1. \A s \in Slots : c[s] = IF s = q THEN b[q] \cup {e} ELSE b[s]
  BY Zenon
<1> HIDE DEF c
<1>2. \A s, t \in Slots : s # t => c[s] \cap c[t] = {}
  BY <1>1, Zenon
<1> QED  BY <1>2, Zenon DEF c

(* Events move from buffer to file to chunk, and none is in two places.    *)
LEMMA PlaceStep ==
    ASSUME RecorderShape, IInv, Next
    PROVE  PlaceInv'
<1> DEFINE Apart(b) == \A s, t \in Slots : s # t => b[s] \cap b[t] = {}
           Fresh == \A e \in events : e.id < next
           Distinct == \A i, j \in DOMAIN chunks : i # j => chunks[i].events \cap chunks[j].events = {}
           Placed == Split(events, AllBuffered, chunk, lost, Finished)
<1>0. /\ TypeInv /\ SlotInv /\ CtlInv /\ rec \in RecType /\ next \in Nat /\ events \subseteq Recorded
      /\ Fresh /\ Apart(rec.buf) /\ Placed /\ Distinct
  BY Zenon DEF IInv, TypeInv, TypeOK, PlaceInv, Split
<1>1. ASSUME Fresh', Apart(rec'.buf), Placed', Distinct'  PROVE PlaceInv'
  BY <1>1, Zenon DEF PlaceInv, Split
<1> USE DEF fileVars, ctlVars
(* The steps that move nothing.                                            *)
<1>2. ASSUME rec'.buf = rec.buf, UNCHANGED <<chunk, chunks, lost, events, next>>  PROVE PlaceInv'
  <2>1. AllBuffered' = AllBuffered /\ Finished' = Finished  BY <1>2, Zenon DEF AllBuffered, Finished
  <2> QED  BY <1>0, <1>1, <1>2, <2>1, Zenon
<1>3. ASSUME NEW w \in Writers, WriteEvent(w)  PROVE PlaceInv'
  <2> DEFINE e == NewEvent(w)
             q == job[w].slot
  <2>1. /\ q \in Slots /\ e \in Recorded /\ next' = next + 1 /\ events' = events \cup {e}
        /\ rec'.buf = [rec.buf EXCEPT ![q] = rec.buf[q] \cup {e}]
        /\ UNCHANGED <<chunk, chunks, lost>> /\ e.id = next
    BY <1>0, <1>3, WriteFrame, Zenon DEF WriteEvent, NewEvent
  <2> HIDE DEF e, q
  <2>f. events \in SUBSET Recorded /\ next \in Nat /\ Fresh  BY <1>0, Zenon
  <2>2. e \notin events /\ \A d \in events \cup {e} : d.id < next + 1
    BY <2>1, <2>f, FreshEvent, Zenon
  <2>3. AllBuffered' = AllBuffered \cup {e} /\ Finished' = Finished
    BY <1>0, <2>1 DEF AllBuffered, Finished, RecType
  <2>4. Placed'  BY <1>0, <2>1, <2>2, <2>3, SplitMoves, Zenon
  <2>5. Fresh'  BY <2>1, <2>2, Zenon
  <2>6. Apart(rec'.buf)
    <3>1. \A s \in Slots : e \notin rec.buf[s]
      BY <1>0, <2>2, Zenon DEF Split, AllBuffered
    <3>2. rec.buf \in [Slots -> SUBSET Recorded] /\ Apart(rec.buf)  BY <1>0, Zenon DEF RecType
    <3>3. Apart([rec.buf EXCEPT ![q] = rec.buf[q] \cup {e}])  BY <2>1, <3>1, <3>2, ApartWith, Zenon
    <3> QED  BY <2>1, <3>3, Zenon
  <2> QED  BY <1>0, <1>1, <2>1, <2>4, <2>5, <2>6, Zenon
<1>4. ASSUME NEW w \in Writers, FlushEvent(w)  PROVE PlaceInv'
  <2> DEFINE q == job[w].slot
  <2>1. /\ q \in Slots /\ UNCHANGED <<chunks, events, next>>
        /\ \/ rec'.buf = rec.buf /\ chunk' = chunk /\ lost' = lost
           \/ rec'.buf = [rec.buf EXCEPT ![q] = {}] /\ Moved(rec.buf[q], rec.io)
    BY <1>0, <1>4, FlushEventFrame, Zenon DEF FlushEvent
  <2> HIDE DEF q
  <2>2. CASE rec'.buf = rec.buf /\ chunk' = chunk /\ lost' = lost  BY <1>2, <2>1, <2>2, Zenon
  <2>3. CASE rec'.buf = [rec.buf EXCEPT ![q] = {}] /\ Moved(rec.buf[q], rec.io)
    <3>1. Finished' = Finished  BY <2>1, Zenon DEF Finished
    <3>2. rec.buf[q] \in SUBSET AllBuffered  BY <2>1, Zenon DEF AllBuffered
    <3>3. AllBuffered' = AllBuffered \ rec.buf[q]
      BY <1>0, <2>1, <2>3 DEF AllBuffered, RecType
    <3>4. Placed'
      <4> DEFINE M == rec.buf[q]
      <4>1. /\ Split(events, AllBuffered \ M, chunk \cup M, lost, Finished)
            /\ Split(events, AllBuffered \ M, chunk, lost \cup M, Finished)
        BY <1>0, <3>2, SplitMoves, Zenon
      <4>2. events' = events /\ ((chunk' = chunk \cup M /\ lost' = lost) \/ (chunk' = chunk /\ lost' = lost \cup M))
        BY <2>1, <2>3, Zenon DEF Moved
      <4> QED  BY <3>1, <3>3, <4>1, <4>2, Zenon
    <3>5. Apart(rec'.buf)  BY <1>0, <2>1, <2>3, Zenon DEF RecType
    <3> QED  BY <1>0, <1>1, <2>1, <3>4, <3>5, Zenon
  <2> QED  BY <2>1, <2>2, <2>3, Zenon
<1>5. ASSUME NEW l \in Loggers, LogWrite(l)  PROVE PlaceInv'
  <2>1. CASE next <= MaxEvents
    <3>1. PICK e \in Recorded : /\ e.id = next /\ next' = next + 1 /\ events' = events \cup {e}
                                /\ rec'.buf = rec.buf /\ Moved({e}, rec.io)
      BY <1>0, <1>5, <2>1, LogWriteFrame, Zenon
    <3>2. chunks' = chunks  BY <1>5, Zenon DEF LogWrite
    <3>f. events \in SUBSET Recorded /\ next \in Nat /\ Fresh  BY <1>0, Zenon
    <3>3. e \notin events /\ \A d \in events \cup {e} : d.id < next + 1
      BY <3>1, <3>f, FreshEvent
    <3>4. AllBuffered' = AllBuffered /\ Finished' = Finished  BY <3>1, <3>2, Zenon DEF AllBuffered, Finished
    <3>5. Placed'
      <4>1. /\ Split(events \cup {e}, AllBuffered, chunk \cup {e}, lost, Finished)
            /\ Split(events \cup {e}, AllBuffered, chunk, lost \cup {e}, Finished)
        BY <1>0, <3>3, SplitMoves, Zenon
      <4>2. (chunk' = chunk \cup {e} /\ lost' = lost) \/ (chunk' = chunk /\ lost' = lost \cup {e})
        BY <3>1, Zenon DEF Moved
      <4> QED  BY <3>1, <3>4, <4>1, <4>2, Zenon
    <3>6. Fresh'  BY <3>1, <3>3, Zenon
    <3> QED  BY <1>0, <1>1, <3>1, <3>2, <3>5, <3>6, Zenon
  <2>2. CASE ~(next <= MaxEvents)  BY <1>2, <1>5, <2>2, Zenon DEF LogWrite
  <2> QED  BY <2>1, <2>2, Zenon
<1>6. CASE NewRecording \/ NoRecording
  <2>1. rec'.buf = Empty  BY <1>0, <1>6, ControlFrame, Zenon
  <2>2. events' = {} /\ lost' = {} /\ chunk' = {} /\ chunks' = <<>>  BY <1>6, Zenon DEF NewRecording, NoRecording
  <2>3. AllBuffered' = {} /\ Finished' = {}  BY <2>1, <2>2 DEF AllBuffered, Finished, Empty
  <2>4. Apart(rec'.buf)  BY <2>1, Zenon DEF Empty
  <2>5. Placed'  BY <2>2, <2>3, Zenon DEF Split
  <2> QED  BY <1>1, <2>2, <2>4, <2>5
<1>7. CASE FlushBuffers
  <2>1. /\ rec'.buf = Empty /\ Moved(AllBuffered, rec.io) /\ UNCHANGED <<chunks, events, next>>
    BY <1>0, <1>7, FlushBuffersFrame, Zenon DEF FlushBuffers
  <2>2. AllBuffered' = {} /\ Finished' = Finished  BY <2>1, Zenon DEF AllBuffered, Finished, Empty
  <2>3. AllBuffered' = AllBuffered \ AllBuffered /\ AllBuffered \in SUBSET AllBuffered  BY <2>2, Zenon
  <2>4. Placed'
    <3> DEFINE M == AllBuffered
    <3>1. /\ Split(events, AllBuffered \ M, chunk \cup M, lost, Finished)
          /\ Split(events, AllBuffered \ M, chunk, lost \cup M, Finished)
      BY <1>0, <2>3, SplitMoves, Zenon
    <3>2. events' = events /\ ((chunk' = chunk \cup M /\ lost' = lost) \/ (chunk' = chunk /\ lost' = lost \cup M))
      BY <2>1, Zenon DEF Moved
    <3> QED  BY <2>2, <2>3, <3>1, <3>2, Zenon
  <2>5. Apart(rec'.buf)  BY <2>1, Zenon DEF Empty
  <2> QED  BY <1>0, <1>1, <2>1, <2>4, <2>5, Zenon
<1>8. ASSUME rec'.buf = rec.buf, UNCHANGED <<lost, events, next>>, chunk' = {},
             chunks' = Append(chunks, [events |-> chunk, threads |-> rec.threads, traces |-> marked])
      PROVE  PlaceInv'
  <2> DEFINE c == [events |-> chunk, threads |-> rec.threads, traces |-> marked]
  <2>1. /\ rec'.buf = rec.buf /\ UNCHANGED <<lost, events, next>> /\ chunk' = {}
        /\ chunks' = Append(chunks, c)
    BY <1>8, Zenon
  <2>2. c.events = chunk  BY Zenon
  <2> HIDE DEF c
  <2>3. /\ DOMAIN chunks' = DOMAIN chunks \cup {Len(chunks) + 1} /\ Len(chunks) + 1 \notin DOMAIN chunks
        /\ chunks'[Len(chunks) + 1] = c /\ \A i \in DOMAIN chunks : chunks'[i] = chunks[i]
    <3>1. chunks \in Seq([events : SUBSET Recorded, threads : SUBSET Writers, traces : SUBSET Writers])
      BY <1>0, Zenon DEF TypeInv
    <3>2. /\ DOMAIN Append(chunks, c) = DOMAIN chunks \cup {Len(chunks) + 1} /\ Len(chunks) + 1 \notin DOMAIN chunks
          /\ Append(chunks, c)[Len(chunks) + 1] = c /\ \A i \in DOMAIN chunks : Append(chunks, c)[i] = chunks[i]
      BY <3>1, AppendGrows, Zenon
    <3>3. chunks' = Append(chunks, c)  BY <2>1, Zenon
    <3> QED  BY <3>2, <3>3, Zenon
  <2>4. AllBuffered' = AllBuffered  BY <2>1, Zenon DEF AllBuffered
  <2>5. Finished' = Finished \cup chunk  BY <2>2, <2>3 DEF Finished
  <2>6. Placed'  BY <1>0, <2>1, <2>4, <2>5, SplitMoves, Zenon
  <2>7. \A i \in DOMAIN chunks : chunks[i].events \cap chunk = {}
    BY <1>0, Zenon DEF Split, Finished
  <2>8. Distinct'  BY <1>0, <2>2, <2>3, <2>7, Zenon
  <2> QED  BY <1>0, <1>1, <2>1, <2>6, <2>8, Zenon
<1>13. CASE WriteCpool
  <2>1. rec'.buf = rec.buf /\ UNCHANGED <<events, next>> /\ chunk' = {}
    BY <1>0, <1>13, ControlFrame, Zenon DEF WriteCpool
  <2>2. ASSUME chunks' = chunks, lost' = lost \cup chunk  PROVE PlaceInv'
    <3>1. AllBuffered' = AllBuffered /\ Finished' = Finished  BY <2>1, <2>2, Zenon DEF AllBuffered, Finished
    <3>2. Placed'  BY <1>0, <2>1, <2>2, <3>1, SplitMoves, Zenon
    <3> QED  BY <1>0, <1>1, <2>1, <2>2, <3>2, Zenon
  <2> QED  BY <1>8, <1>13, <2>1, <2>2, Zenon DEF WriteCpool
<1>9. CASE DiscardRecording \/ EndFlush \/ EndStop \/ EndDiscard
  <2>1. rec'.buf = rec.buf  BY <1>0, <1>9, ControlFrame, Zenon DEF SameFinished
  <2> QED  BY <1>2, <1>9, <2>1, Zenon DEF DiscardRecording, EndFlush, EndStop, EndDiscard
<1>10. CASE BeginStart \/ BeginFlush \/ BeginStop \/ LockNext \/ Reset \/ OpenRecording \/ EnginesStart
           \/ EnginesFail \/ StopNothing \/ LockRecording
  BY <1>2, <1>10, Zenon DEF BeginStart, BeginFlush, BeginStop, Begin, LockNext, Reset, OpenRecording, EnginesStart,
                     EnginesFail, StopNothing, LockRecording
<1>11. ASSUME NEW w \in Writers, (\E k \in Kinds : BeginEvent(w, k)) \/ (\E s \in Slots : LockSlot(w, s))
              \/ SkipEvent(w) \/ TestRec(w) \/ WriteNothing(w) \/ UnlockSlot(w)
       PROVE  PlaceInv'
  BY <1>2, <1>11, Zenon DEF BeginEvent, LockSlot, SkipEvent, TestRec, WriteNothing, UnlockSlot
<1>12. ASSUME NEW l \in Loggers, LogEnter(l) \/ LogLeave(l)  PROVE PlaceInv'
  BY <1>2, <1>12, Zenon DEF LogEnter, LogLeave
<1> QED  BY <1>3, <1>4, <1>5, <1>6, <1>7, <1>9, <1>10, <1>11, <1>12, <1>13, Zenon
         DEF Next, WriterStep, LoggerStep, ControlStep

(* What is lost is reported, by _io_error and by the verdict of stop().    *)
LEMMA LossStep ==
    ASSUME RecorderShape, IInv, Next
    PROVE  LossInv'
<1> USE DEF LossInv, fileVars, ctlVars
<1>0. TypeInv /\ SlotInv /\ CtlInv /\ LogInv /\ LossInv /\ lost \subseteq events
  BY Zenon DEF IInv, PlaceInv
<1>1. ASSUME NEW w \in Writers, WriteEvent(w)  PROVE LossInv'
  <2>1. SameRec(rec, rec') /\ rec'.io = rec.io  BY <1>0, <1>1, WriteFrame, Zenon
  <2>2. (active \/ rec.discarded) /\ UNCHANGED <<lost, active, verdict, running, ctl, task>>
    BY <1>0, <1>1, Zenon DEF WriteEvent, SlotInv
  <2> QED  BY <1>0, <2>1, <2>2, Zenon DEF SameRec
<1>2. ASSUME NEW w \in Writers, FlushEvent(w)  PROVE LossInv'
  <2>1. SameRec(rec, rec') /\ (lost' # lost => rec'.io) /\ (rec.io => rec'.io)
    BY <1>0, <1>2, FlushEventFrame, Zenon DEF Moved
  <2>2. (active \/ rec.discarded) /\ UNCHANGED <<events, active, verdict, running, ctl, task>>
    BY <1>0, <1>2, Zenon DEF FlushEvent, SlotInv
  <2> QED  BY <1>0, <2>1, <2>2, Zenon DEF SameRec
<1>3. ASSUME NEW l \in Loggers, LogWrite(l)  PROVE LossInv'
  <2>1. (lost' # lost => rec'.io) /\ (rec.io => rec'.io)
    BY <1>0, <1>3, LogWriteFrame, Zenon DEF LogWrite, Moved
  <2>2. active /\ active' = active  BY <1>0, <1>3, Zenon DEF LogWrite, LogInv, Logging
  <2> QED  BY <1>0, <2>1, <2>2, Zenon
<1>4. CASE FlushBuffers \/ WriteCpool
  <2>1. (lost' # lost => rec'.io) /\ (rec.io => rec'.io)
    BY <1>0, <1>4, FlushBuffersFrame, ControlFrame, Zenon DEF Moved
  <2>2. active /\ active' = active  BY <1>0, <1>4, Zenon DEF FlushBuffers, WriteCpool, CtlInv, Finishing
  <2> QED  BY <1>0, <2>1, <2>2, Zenon
<1>5. CASE NewRecording  BY <1>5, Zenon DEF NewRecording
<1>6. CASE NoRecording
  <2>1. ~rec'.discarded  BY <1>0, <1>6, ControlFrame, Zenon
  <2> QED  BY <1>6, <2>1, Zenon DEF NoRecording
<1>7. CASE DiscardRecording
  <2>1. rec'.io = rec.io /\ active  BY <1>0, <1>7, ControlFrame, Zenon DEF DiscardRecording, CtlInv
  <2> QED  BY <1>0, <1>7, <2>1, Zenon DEF DiscardRecording
<1>8. CASE EndStop
  <2>1. rec.io => rec'.io  BY <1>0, <1>8, ControlFrame, Zenon DEF SameFinished
  <2>2. ~running  BY <1>0, <1>8, Zenon DEF EndStop, CtlInv
  <2>3. verdict' => ~rec.io  BY <1>0, <1>8, ControlFrame, Zenon
  <2> QED  BY <1>0, <1>8, <2>1, <2>2, <2>3, Zenon DEF EndStop
<1>9. CASE EndDiscard
  <2>1. (rec.io => rec'.io) /\ rec'.discarded
    BY <1>0, <1>9, ControlFrame, Zenon DEF EndDiscard, CtlInv, Finishing, SameFinished
  <2>2. ~running  BY <1>0, <1>9, Zenon DEF EndDiscard, CtlInv
  <2> QED  BY <1>0, <1>9, <2>1, <2>2, Zenon DEF EndDiscard
<1>10. CASE BeginStart \/ BeginFlush \/ BeginStop
  BY <1>0, <1>10, SMTT(30) DEF BeginStart, BeginFlush, BeginStop, Begin
<1>11. CASE LockNext \/ Reset \/ OpenRecording \/ LockRecording \/ EndFlush
  <2>1. CASE LockNext  BY <1>0, <2>1, Zenon DEF LockNext
  <2>2. CASE Reset  BY <1>0, <2>2, Zenon DEF Reset, CtlInv
  <2>3. CASE OpenRecording \/ LockRecording \/ EndFlush
    <3>1. active /\ UNCHANGED <<active, lost>> /\ (rec.io => rec'.io)
      BY <1>0, <2>3, ControlFrame, Zenon DEF OpenRecording, LockRecording, EndFlush, CtlInv, Finishing
    <3> QED  BY <1>0, <3>1, Zenon
  <2> QED  BY <1>11, <2>1, <2>2, <2>3, Zenon
<1>12. CASE EnginesStart \/ EnginesFail
  BY <1>0, <1>12, Zenon DEF EnginesStart, EnginesFail
<1>13. CASE StopNothing  BY <1>0, <1>13, Zenon DEF StopNothing
<1>14. ASSUME NEW w \in Writers, (\E k \in Kinds : BeginEvent(w, k)) \/ (\E s \in Slots : LockSlot(w, s))
              \/ SkipEvent(w) \/ TestRec(w) \/ WriteNothing(w) \/ UnlockSlot(w)
       PROVE  LossInv'
  BY <1>0, <1>14 DEF BeginEvent, LockSlot, SkipEvent, TestRec, WriteNothing, UnlockSlot
<1>15. ASSUME NEW l \in Loggers, LogEnter(l) \/ LogLeave(l)  PROVE LossInv'
  BY <1>0, <1>15 DEF LogEnter, LogLeave
<1> QED  BY <1>1, <1>2, <1>3, <1>4, <1>5, <1>6, <1>7, <1>8, <1>9, <1>10, <1>11, <1>12, <1>13, <1>14, <1>15, Zenon
         DEF Next, WriterStep, LoggerStep, ControlStep

(* The invariant holds before the first session.                           *)
LEMMA InitInv ==
    ASSUME RecorderShape, Init
    PROVE  IInv
<1> USE DEF Init, Empty
<1>1. NoRec \in RecType /\ ~NoRec.live /\ ~NoRec.discarded /\ NoRec.buf = Empty /\ NoRec.threads = {} /\ ~NoRec.io
  BY Zenon DEF NoRec, NewRec, RecType
<1>2. TypeInv
  <2>1. TypeOK
    <3>1. /\ rec.live \in BOOLEAN /\ rec.discarded \in BOOLEAN /\ rec.buf \in [Slots -> SUBSET Recorded]
          /\ rec.threads \subseteq Writers /\ rec.io \in BOOLEAN
      BY <1>1, Zenon DEF RecType
    <3>2. job \in [Writers -> [kind : Kinds \cup {"none"}, slot : Slots \cup {0}]]  BY Zenon DEF NoJob
    <3>3. lock \in [Slots -> Writers \cup {Free, Ctl}]  BY Zenon
    <3>4. /\ pc \in [Writers -> {"out", "try", "locked", "write", "flush", "unlock"}]
          /\ log \in [Loggers -> {"out", "writing", "leaving"}]
      BY Zenon
    <3>5. recLock \in Int /\ recLock <= 1  OBVIOUS
    <3>6. active \in BOOLEAN /\ running \in BOOLEAN /\ verdict \in BOOLEAN  BY Zenon
    <3>7. marked \subseteq Writers /\ chunk \subseteq Recorded /\ lost \subseteq Recorded
          /\ events \subseteq Recorded
      BY Zenon
    <3> HIDE DEF Init
    <3> QED  BY <3>1, <3>2, <3>3, <3>4, <3>5, <3>6, <3>7, Zenon DEF TypeOK
  <2>2. chunks \in Seq([events : SUBSET Recorded, threads : SUBSET Writers, traces : SUBSET Writers])
    OBVIOUS
  <2> QED  BY <1>1, <2>1, <2>2, Zenon DEF TypeInv
<1>3. AllBuffered = {} /\ Finished = {}  BY <1>1, SMTT(30) DEF AllBuffered, Finished
<1>4. SlotInv /\ LogInv /\ CtlInv  BY <1>1, Zenon DEF SlotInv, LogInv, Logging, CtlInv, Inside, Finishing
<1>5. PoolInv
  <2>1. /\ rec = NoRec /\ chunk = {} /\ chunks = <<>> /\ ~active
        /\ \A w \in Writers : pc[w] \notin Inside
    BY Zenon DEF Inside
  <2>2. \A s \in Slots : Empty[s] = {}  BY Zenon
  <2> HIDE DEF Init, Empty
  <2>3. \A s \in Slots : rec.buf[s] = {}  BY <1>1, <2>1, <2>2, Zenon
  <2>4. rec.buf = Empty  BY <1>1, <2>1, Zenon
  <2>5. ChunkComplete  BY <2>1 DEF ChunkComplete
  <2> QED  BY <2>1, <2>3, <2>4, <2>5, Zenon DEF PoolInv
<1>6. PlaceInv  BY <1>1, <1>3 DEF PlaceInv
<1>7. LossInv  BY <1>1, Zenon DEF LossInv
<1> QED  BY <1>2, <1>4, <1>5, <1>6, <1>7, Zenon DEF IInv

(* Every step keeps it.                                                    *)
LEMMA NextInv ==
    ASSUME RecorderShape, IInv, [Next]_vars
    PROVE  IInv'
<1>1. CASE Next
  BY <1>1, TypeStep, SlotStep, LogStep, CtlStep, PoolStep, PlaceStep, LossStep, Zenon DEF IInv
<1>2. CASE UNCHANGED vars
  <2>1. /\ UNCHANGED <<lock, recLock, rec, active, marked, pc, job, log>>
        /\ UNCHANGED <<chunk, chunks, lost, events, next, ctl, task, running, starts, verdict>>
    BY <1>2, Zenon DEF vars, fileVars, ctlVars
  <2>2. TypeOK' = TypeOK  BY <2>1, Zenon DEF TypeOK
  <2>3. TypeInv' = TypeInv  BY <2>1, <2>2, Zenon DEF TypeInv
  <2>4. SlotInv' = SlotInv /\ LogInv' = LogInv  BY <2>1, Zenon DEF SlotInv, LogInv, Logging, Finishing
  <2>5. CtlInv' = CtlInv  BY <2>1, Zenon DEF CtlInv, Finishing, AllLocked
  <2>6. PoolInv' = PoolInv
    <3>1. ChunkComplete' = ChunkComplete  BY <2>1, Zenon DEF ChunkComplete
    <3> QED  BY <2>1, <3>1, ZenonT(90) DEF PoolInv
  <2>7. AllBuffered' = AllBuffered /\ Finished' = Finished  BY <2>1, Zenon DEF AllBuffered, Finished
  <2>8. PlaceInv' = PlaceInv  BY <2>1, <2>7, Zenon DEF PlaceInv
  <2>9. LossInv' = LossInv  BY <2>1, Zenon DEF LossInv
  <2> QED  BY <2>3, <2>4, <2>5, <2>6, <2>8, <2>9, Zenon DEF IInv
<1> QED  BY <1>1, <1>2, Zenon

-----------------------------------------------------------------------------
(* The recorder's variables keep their types.                              *)
THEOREM TypeCorrect == RecorderShape => (Spec => []TypeOK)
<1> SUFFICES ASSUME RecorderShape PROVE Spec => []TypeOK  BY Zenon
<1>1. Init => IInv  BY InitInv, Zenon
<1>2. IInv /\ [Next]_vars => IInv'  BY NextInv, Zenon
<1>3. IInv => TypeOK  BY Zenon DEF IInv, TypeInv
<1> QED  BY <1>1, <1>2, <1>3, PTL DEF Spec

(* Every chunk finishChunk leaves of a good recording has the threads and  *)
(* the traces of its events in its constant pool, however many threads     *)
(* write while it is rotated and stopped.                                  *)
THEOREM ChunksComplete == RecorderShape => (Spec => []ChunkComplete)
<1> SUFFICES ASSUME RecorderShape PROVE Spec => []ChunkComplete  BY Zenon
<1>1. Init => IInv  BY InitInv, Zenon
<1>2. IInv /\ [Next]_vars => IInv'  BY NextInv, Zenon
<1>3. IInv => ChunkComplete  BY Zenon DEF IInv, PoolInv, ChunkComplete
<1> QED  BY <1>1, <1>2, <1>3, PTL DEF Spec

(* No event that recordEvent or recordLog accepted is lost in silence or   *)
(* written twice, and stop() returns true only if all are in the file.     *)
THEOREM NothingLostInSilence == RecorderShape => (Spec => []NoSilentLoss)
<1> SUFFICES ASSUME RecorderShape PROVE Spec => []NoSilentLoss  BY Zenon
<1>1. Init => IInv  BY InitInv, Zenon
<1>2. IInv /\ [Next]_vars => IInv'  BY NextInv, Zenon
<1>3. ASSUME IInv  PROVE NoSilentLoss
  <2>1. ASSUME ~active, ~rec.discarded, verdict  PROVE events = Finished
    <3>1. rec.buf = Empty /\ chunk = {} /\ lost = {}  BY <1>3, <2>1, Zenon DEF IInv, PoolInv, LossInv
    <3>2. AllBuffered = {}  BY <3>1, Zenon DEF AllBuffered, Empty
    <3> QED  BY <1>3, <3>1, <3>2, Zenon DEF IInv, PlaceInv
  <2> QED  BY <1>3, <2>1, Zenon DEF NoSilentLoss, IInv, PlaceInv, LossInv
<1> QED  BY <1>1, <1>2, <1>3, PTL DEF Spec

(* stop() and the rollback of start() delete a recording only when no      *)
(* writer is in it.                                                        *)
THEOREM NobodyInDeleted == RecorderShape => (Spec => []DeletedAlone)
<1> SUFFICES ASSUME RecorderShape PROVE Spec => []DeletedAlone  BY Zenon
<1>1. Init => IInv  BY InitInv, Zenon
<1>2. IInv /\ [Next]_vars => IInv'  BY NextInv, Zenon
<1>3. IInv => DeletedAlone  BY Zenon DEF IInv, SlotInv, CtlInv, DeletedAlone, NoUseAfterDelete
<1> QED  BY <1>1, <1>2, <1>3, PTL DEF Spec

(* Both: a recording can be trusted by those who write into it.            *)
THEOREM RecordingIsSound == RecorderShape => (Spec => []RecordingSound)
BY NothingLostInSilence, NobodyInDeleted, PTL DEF RecordingSound
=============================================================================
