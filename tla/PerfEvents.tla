----------------------------- MODULE PerfEvents -----------------------------
(***************************************************************************)
(* Per-thread perf events (perfEvents_linux.cpp) and the socket through    *)
(* which an fdtransfer server opens them on behalf of the profiler         *)
(* (fdtransferClient_linux.cpp, main/fdtransferServer_linux.cpp). Threads  *)
(* create and destroy their event in the pthread hooks, the controlling    *)
(* thread does so for all, and signal handlers read the mapped page of     *)
(* their thread's event under its lock. All clients share one socket, so   *)
(* a response may be received by another thread than the one that asked.   *)
(***************************************************************************)
EXTENDS Integers, FiniteSets, Sequences

CONSTANTS
    Tids,
    UsePerfMmap,  \* _use_perf_mmap
    HasPeer,      \* FdTransferClient::hasPeer
    OpenFails,    \* errors perf_event_open may return: a subset of {"limit", "other"}
    SetupFails,   \* TRUE: mmap, fcntl or ioctl may fail
    SocketFails,  \* TRUE: send or recvmsg may fail, or time out
    MaxFds, MaxBirths  \* bounds

PerfEventsShape ==
    /\ UsePerfMmap \in BOOLEAN /\ HasPeer \in BOOLEAN /\ SetupFails \in BOOLEAN /\ SocketFails \in BOOLEAN
    /\ OpenFails \subseteq {"limit", "other"} /\ 0 \notin Tids

VARIABLES
    life,      \* none, born, up, ending
    current,   \* _current # nullptr
    fd, page, lock,   \* PerfEvent: _fd, _page (0 for NULL) and the spin lock
    open, mapped,     \* the kernel's open descriptors and mapped pages
    requests, responses,  \* the socket to the server
    op,        \* what each actor is doing
    session,   \* idle, list, create, running, stopping, stopped
    walking,   \* the page a thread's signal handler is reading: 0 no handler, -1 not read yet
    armed,     \* threads that an event has been enabled for, so that signals may be on their way
    twice,     \* history: "fd", "page": closed or unmapped one that was not there
    overtaken, \* history: threads whose event was destroyed while it was still being created
    crossed,   \* history: threads whose event was published while the slot was in use, or read too early
    mixed,     \* history: an error was taken from another thread's response, or a response not waited for
    counts,    \* the thread each descriptor opened so far counts
    births

vars == <<life, current, fd, page, lock, open, mapped, requests, responses, op, session,
          walking, armed, twice, overtaken, crossed, mixed, counts, births>>

threads == <<life, births>>
slots == <<fd, page, lock>>
kernel == <<open, mapped, counts>>
socket == <<requests, responses>>
handlers == <<walking, armed>>
faults == <<twice, overtaken, crossed, mixed>>

Ctl == 0
Actors == Tids \cup {Ctl}
Idle == [pc |-> "idle", tid |-> 0, fd |-> 0, page |-> 0, err |-> "none", todo |-> {}]

(* An actor runs unless it is a thread interrupted by its handler.         *)
Runs(a) == IF a = Ctl THEN TRUE ELSE walking[a] = 0

Init ==
    /\ life \in [Tids -> {"none", "up"}] /\ current = FALSE
    /\ fd = [t \in Tids |-> 0] /\ page = fd /\ lock = fd
    /\ open = {} /\ mapped = {} /\ requests = <<>> /\ responses = <<>>
    /\ op = [a \in Actors |-> Idle] /\ session = "idle" /\ walking = [t \in Tids |-> 0]
    /\ armed = {} /\ twice = {} /\ overtaken = {} /\ crossed = {} /\ mixed = FALSE
    /\ counts = <<>> /\ births = 0

To(a, pc) == op' = [op EXCEPT ![a].pc = pc]
PerfEventOpen(t) ==
    /\ life[t] # "none" /\ Len(counts) < MaxFds /\ counts' = Append(counts, t) /\ open' = open \cup {Len(counts) + 1}
OpenErrors(t) == IF life[t] = "none" THEN OpenFails \cup {"other"} ELSE OpenFails
Close(f) == open' = open \ {f}
Unmap(p) == mapped' = mapped \ {p}
CreationSteps == {"page", "setup", "unmapBack", "pageBack", "closeBack", "fdBack"}
(* Threads whose event an actor has published and not yet set up.          *)
InCreation == {op[a].tid : a \in {b \in Actors : op[b].pc \in CreationSteps}}

-----------------------------------------------------------------------------
(* createForThread(op.tid) by actor a.                                     *)

(* The slot is marked early to prevent duplicates.                         *)
Mark(a) ==
    /\ op[a].pc = "mark" /\ Runs(a)
    /\ IF fd[op[a].tid] = 0
       THEN fd' = [fd EXCEPT ![op[a].tid] = -1] /\ To(a, IF HasPeer THEN "send" ELSE "open")
       ELSE To(a, "lost") /\ UNCHANGED fd
    /\ UNCHANGED <<threads, current, page, lock, kernel, socket, session, handlers, faults>>

(* perf_event_open by the profiler itself.                                 *)
Open(a) ==
    /\ op[a].pc = "open" /\ Runs(a)
    /\ \/ /\ PerfEventOpen(op[a].tid)
          /\ op' = [op EXCEPT ![a] = [@ EXCEPT !.pc = "map", !.fd = Len(counts) + 1]]
       \/ /\ \E e \in OpenErrors(op[a].tid) : op' = [op EXCEPT ![a] = [@ EXCEPT !.pc = "failed", !.err = e]]
          /\ UNCHANGED <<open, counts>>
    /\ UNCHANGED <<threads, current, slots, mapped, socket, session, handlers, faults>>

(* requestPerfFd sends a request and receives the next response, its own   *)
(* or another's. After a receive that fails, the error code is read from a *)
(* response that was never filled in.                                      *)
Send(a) ==
    /\ op[a].pc = "send" /\ Runs(a)
    /\ \/ requests' = Append(requests, op[a].tid) /\ To(a, "recv")
       \/ /\ SocketFails /\ UNCHANGED requests
          /\ \E e \in {"limit", "other"} : op' = [op EXCEPT ![a] = [@ EXCEPT !.pc = "failed", !.err = e]]
    /\ UNCHANGED <<threads, current, slots, kernel, responses, session, handlers, faults>>

(* The server: the opened descriptor or the error, and the thread id.      *)
Serve ==
    /\ requests # <<>> /\ requests' = Tail(requests)
    /\ \/ /\ PerfEventOpen(Head(requests))
          /\ responses' = Append(responses, [tid |-> Head(requests), fd |-> Len(counts) + 1, err |-> "none"])
       \/ /\ \E e \in OpenErrors(Head(requests)) :
                responses' = Append(responses, [tid |-> Head(requests), fd |-> 0, err |-> e])
          /\ UNCHANGED <<open, counts>>
    /\ UNCHANGED <<threads, current, slots, mapped, op, session, handlers, faults>>

Receive(a) ==
    /\ op[a].pc = "recv" /\ Runs(a)
    /\ \/ /\ responses # <<>> /\ responses' = Tail(responses)
          /\ LET r == Head(responses)
             IN  /\ op' = [op EXCEPT ![a] = IF r.fd = 0 THEN [@ EXCEPT !.pc = "failed", !.err = r.err]
                                            ELSE [@ EXCEPT !.pc = "map", !.fd = r.fd, !.tid = r.tid]]
                 /\ mixed' = (mixed \/ (r.fd = 0 /\ r.tid # op[a].tid))
       \/ /\ SocketFails /\ mixed' = TRUE /\ UNCHANGED responses
          /\ \E e \in {"none", "limit", "other"} :
                op' = [op EXCEPT ![a] = [@ EXCEPT !.pc = "failed", !.err = e]]
    /\ UNCHANGED <<threads, current, slots, kernel, requests, session, handlers, twice, overtaken, crossed>>

(* Faulty variant: the mark of a failed creation stays.                    *)
OpenFailedMarked(a) ==
    /\ op[a].pc = "failed" /\ Runs(a)
    /\ IF op[a].err = "limit" /\ current
       THEN current' = FALSE /\ op' = [op EXCEPT ![a] = [@ EXCEPT !.pc = "next", !.todo = Tids]]
       ELSE To(a, "lost") /\ UNCHANGED current
    /\ UNCHANGED <<threads, slots, kernel, socket, session, handlers, faults>>

(* Failure: the mark is removed; at a resource limit the whole engine is   *)
(* stopped, by whichever thread has met it.                                *)
OpenFailed(a) ==
    /\ op[a].pc = "failed" /\ Runs(a)
    /\ fd' = [fd EXCEPT ![op[a].tid] = 0]
    /\ IF op[a].err = "limit" /\ current
       THEN current' = FALSE /\ op' = [op EXCEPT ![a] = [@ EXCEPT !.pc = "next", !.todo = Tids]]
       ELSE To(a, "lost") /\ UNCHANGED current
    /\ UNCHANGED <<threads, page, lock, kernel, socket, session, handlers, faults>>

(* Without a mapping, wanted or not, the page is NULL.                     *)
Map(a) ==
    /\ op[a].pc = "map" /\ Runs(a)
    /\ \/ /\ UsePerfMmap /\ mapped' = mapped \cup {op[a].fd}
          /\ op' = [op EXCEPT ![a] = [@ EXCEPT !.pc = "fd", !.page = op[a].fd]]
       \/ /\ (~UsePerfMmap \/ SetupFails) /\ UNCHANGED mapped
          /\ op' = [op EXCEPT ![a] = [@ EXCEPT !.pc = "fd", !.page = 0]]
    /\ UNCHANGED <<threads, current, slots, open, counts, socket, session, handlers, faults>>

(* The event is published: lock, descriptor, then page. The slot may still *)
(* be in use by the destruction of the previous event or a late handler.   *)
PublishFd(a) ==
    /\ op[a].pc = "fd" /\ Runs(a)
    /\ lock' = [lock EXCEPT ![op[a].tid] = 0] /\ fd' = [fd EXCEPT ![op[a].tid] = op[a].fd]
    /\ crossed' = IF page[op[a].tid] # 0 \/ lock[op[a].tid] # 0 THEN crossed \cup {op[a].tid} ELSE crossed
    /\ To(a, "page")
    /\ UNCHANGED <<threads, current, page, kernel, socket, session, handlers, twice, overtaken, mixed>>

PublishPage(a) ==
    /\ op[a].pc = "page" /\ Runs(a)
    /\ page' = [page EXCEPT ![op[a].tid] = op[a].page] /\ To(a, "setup")
    /\ UNCHANGED <<threads, current, fd, lock, kernel, socket, session, handlers, faults>>

(* fcntl and ioctl, which fail if the descriptor was closed meanwhile or   *)
(* the thread has ended. Enabled events send signals to their thread.      *)
Setup(a) ==
    /\ op[a].pc = "setup" /\ Runs(a)
    /\ \/ /\ op[a].fd \in open /\ life[op[a].tid] # "none"
          /\ armed' = armed \cup {op[a].tid} /\ To(a, "created")
       \/ /\ op[a].fd \notin open \/ life[op[a].tid] = "none" \/ SetupFails
          /\ To(a, IF op[a].page = 0 THEN "closeBack" ELSE "unmapBack") /\ UNCHANGED armed
    /\ UNCHANGED <<threads, current, slots, kernel, socket, session, walking, faults>>

(* The rollback of a failed set-up, without the lock.                      *)
RollbackMapping(a) ==
    /\ op[a].pc = "unmapBack" /\ Runs(a)
    /\ Unmap(op[a].page) /\ twice' = twice \cup {"page" : p \in {op[a].page} \ mapped} /\ To(a, "pageBack")
    /\ UNCHANGED <<threads, current, slots, open, counts, socket, session, handlers, overtaken, crossed, mixed>>

RollbackPage(a) ==
    /\ op[a].pc = "pageBack" /\ Runs(a)
    /\ page' = [page EXCEPT ![op[a].tid] = 0] /\ To(a, "closeBack")
    /\ UNCHANGED <<threads, current, fd, lock, kernel, socket, session, handlers, faults>>

RollbackClose(a) ==
    /\ op[a].pc = "closeBack" /\ Runs(a)
    /\ Close(op[a].fd) /\ twice' = twice \cup {"fd" : f \in {op[a].fd} \ open} /\ To(a, "fdBack")
    /\ UNCHANGED <<threads, current, slots, mapped, counts, socket, session, handlers, overtaken, crossed, mixed>>

RollbackFd(a) ==
    /\ op[a].pc = "fdBack" /\ Runs(a)
    /\ fd' = [fd EXCEPT ![op[a].tid] = 0] /\ To(a, "lost")
    /\ UNCHANGED <<threads, current, page, lock, kernel, socket, session, handlers, faults>>

-----------------------------------------------------------------------------
(* destroyForThread(op.tid) by actor a, for one thread or for all in todo. *)

DestroyNext(a) ==
    /\ op[a].pc = "next" /\ Runs(a)
    /\ IF op[a].todo = {} THEN To(a, "swept")
       ELSE \E t \in op[a].todo :
               op' = [op EXCEPT ![a] = [@ EXCEPT !.pc = "claim", !.tid = t, !.fd = fd[t],
                                                 !.todo = @ \ {t}]]
    /\ UNCHANGED <<threads, current, slots, kernel, socket, session, handlers, faults>>

(* Faulty variant: everybody who has read the descriptor closes it.        *)
ClaimFdBlindly(a) ==
    /\ op[a].pc = "claim" /\ Runs(a)
    /\ IF op[a].fd > 0
       THEN /\ fd' = [fd EXCEPT ![op[a].tid] = 0] /\ To(a, "close")
            /\ overtaken' = overtaken \cup ({op[a].tid} \cap InCreation)
       ELSE To(a, "unpage") /\ UNCHANGED <<fd, overtaken>>
    /\ UNCHANGED <<threads, current, page, lock, kernel, socket, session, handlers, twice, crossed, mixed>>

(* The descriptor is taken out of the slot by one of those who read it.    *)
ClaimFd(a) ==
    /\ op[a].pc = "claim" /\ Runs(a)
    /\ IF op[a].fd > 0 /\ fd[op[a].tid] = op[a].fd
       THEN /\ fd' = [fd EXCEPT ![op[a].tid] = 0] /\ To(a, "close")
            /\ overtaken' = overtaken \cup ({op[a].tid} \cap InCreation)
       ELSE To(a, "unpage") /\ UNCHANGED <<fd, overtaken>>
    /\ UNCHANGED <<threads, current, page, lock, kernel, socket, session, handlers, twice, crossed, mixed>>

CloseFd(a) ==
    /\ op[a].pc = "close" /\ Runs(a)
    /\ Close(op[a].fd) /\ twice' = twice \cup {"fd" : f \in {op[a].fd} \ open} /\ To(a, "unpage")
    /\ UNCHANGED <<threads, current, slots, mapped, counts, socket, session, handlers, overtaken, crossed, mixed>>

(* The page is looked at without the lock.                                 *)
LookAtPage(a) ==
    /\ op[a].pc = "unpage" /\ Runs(a)
    /\ To(a, IF page[op[a].tid] = 0 THEN "next" ELSE "lock")
    /\ overtaken' = IF page[op[a].tid] = 0 THEN overtaken ELSE overtaken \cup ({op[a].tid} \cap InCreation)
    /\ UNCHANGED <<threads, current, slots, kernel, socket, session, handlers, twice, crossed, mixed>>

(* Faulty variant: the handler of the thread is not waited for.            *)
LockPageBarges(a) ==
    /\ op[a].pc = "lock" /\ Runs(a)
    /\ lock' = [lock EXCEPT ![op[a].tid] = 1] /\ To(a, "unmap")
    /\ UNCHANGED <<threads, current, fd, page, kernel, socket, session, handlers, faults>>

LockPage(a) ==
    /\ op[a].pc = "lock" /\ Runs(a) /\ lock[op[a].tid] = 0
    /\ lock' = [lock EXCEPT ![op[a].tid] = 1] /\ To(a, "unmap")
    /\ UNCHANGED <<threads, current, fd, page, kernel, socket, session, handlers, faults>>

(* munmap of whatever the slot holds now; of NULL it does nothing.         *)
UnmapPage(a) ==
    /\ op[a].pc = "unmap" /\ Runs(a)
    /\ LET t == op[a].tid
       IN  /\ Unmap(page[t])
           /\ twice' = twice \cup {"page" : p \in {page[t]} \ (mapped \cup {0})}
           /\ page' = [page EXCEPT ![t] = 0] /\ lock' = [lock EXCEPT ![t] = @ - 1]
    /\ To(a, "next")
    /\ UNCHANGED <<threads, current, fd, open, counts, socket, session, handlers, overtaken, crossed, mixed>>

-----------------------------------------------------------------------------
(* Threads and their hooks. A hook loads _current some time after its      *)
(* thread has appeared in the list of threads, or before it disappears;    *)
(* thread ids are used again.                                              *)

Birth(t) ==
    /\ life[t] = "none" /\ births < MaxBirths /\ births' = births + 1
    /\ life' = [life EXCEPT ![t] = "born"] /\ op' = [op EXCEPT ![t] = [Idle EXCEPT !.pc = "hook"]]
    /\ UNCHANGED <<current, slots, kernel, socket, session, handlers, faults>>

OnThreadStart(t) ==
    /\ life[t] = "born" /\ op[t].pc = "hook" /\ Runs(t)
    /\ op' = [op EXCEPT ![t] = IF current THEN [Idle EXCEPT !.pc = "mark", !.tid = t]
                               ELSE [Idle EXCEPT !.pc = "lost"]]
    /\ UNCHANGED <<threads, current, slots, kernel, socket, session, handlers, faults>>

Up(t) ==
    /\ life[t] = "born" /\ op[t].pc \in {"created", "lost", "swept"} /\ Runs(t)
    /\ life' = [life EXCEPT ![t] = "up"] /\ op' = [op EXCEPT ![t] = Idle]
    /\ UNCHANGED <<births, current, slots, kernel, socket, session, handlers, faults>>

OnThreadEnd(t) ==
    /\ life[t] = "up" /\ Runs(t)
    /\ life' = [life EXCEPT ![t] = "ending"]
    /\ op' = [op EXCEPT ![t] = IF current THEN [Idle EXCEPT !.pc = "next", !.todo = {t}]
                               ELSE [Idle EXCEPT !.pc = "swept"]]
    /\ UNCHANGED <<births, current, slots, kernel, socket, session, handlers, faults>>

Gone(t) ==
    /\ life[t] = "ending" /\ op[t].pc = "swept" /\ Runs(t)
    /\ life' = [life EXCEPT ![t] = "none"] /\ op' = [op EXCEPT ![t] = Idle]
    /\ armed' = armed \ {t}
    /\ UNCHANGED <<births, current, slots, kernel, socket, session, walking, faults>>

(* walk or resetBuffer, from the handler of a signal that may have been    *)
(* sent by an event of the thread destroyed since.                         *)
Walk(t) ==
    /\ life[t] # "none" /\ t \in armed /\ walking[t] = 0
    /\ lock[t] = 0 /\ lock' = [lock EXCEPT ![t] = 1] /\ walking' = [walking EXCEPT ![t] = -1]
    /\ UNCHANGED <<threads, current, fd, page, kernel, socket, op, session, armed, faults>>

WalkPage(t) ==
    /\ walking[t] = -1 /\ page[t] # 0 /\ walking' = [walking EXCEPT ![t] = page[t]]
    /\ crossed' = crossed \cup ({t} \cap InCreation)
    /\ UNCHANGED <<threads, current, slots, kernel, socket, op, session, armed, twice, overtaken, mixed>>

WalkEnd(t) ==
    /\ walking[t] > 0 \/ (walking[t] = -1 /\ page[t] = 0)
    /\ walking' = [walking EXCEPT ![t] = 0] /\ lock' = [lock EXCEPT ![t] = @ - 1]
    /\ UNCHANGED <<threads, current, fd, page, kernel, socket, op, session, armed, faults>>

-----------------------------------------------------------------------------
(* The controlling thread.                                                 *)

(* The hooks are let in before the existing threads are listed.            *)
Start ==
    /\ session = "idle" /\ session' = "list" /\ current' = TRUE
    /\ UNCHANGED <<threads, slots, kernel, socket, op, handlers, faults>>

ListThreads ==
    /\ session = "list" /\ session' = "create"
    /\ op' = [op EXCEPT ![Ctl] = [Idle EXCEPT !.todo = {t \in Tids : life[t] # "none"}]]
    /\ UNCHANGED <<threads, current, slots, kernel, socket, handlers, faults>>

(* A resource limit ends the traversal, an emergency stop or not.          *)
CreateNext ==
    /\ session = "create" /\ op[Ctl].pc \in {"idle", "created", "lost"} /\ op[Ctl].err # "limit"
    /\ \E t \in op[Ctl].todo :
          op' = [op EXCEPT ![Ctl] = [@ EXCEPT !.pc = "mark", !.tid = t, !.err = "none", !.todo = @ \ {t}]]
    /\ UNCHANGED <<threads, current, slots, kernel, socket, session, handlers, faults>>

(* Done with all threads, or at a resource limit.                          *)
Started ==
    /\ session = "create"
    /\ \/ op[Ctl].pc \in {"idle", "created", "lost"} /\ (op[Ctl].todo = {} \/ op[Ctl].err = "limit")
       \/ op[Ctl].pc = "swept"
    /\ session' = "running" /\ op' = [op EXCEPT ![Ctl] = Idle]
    /\ UNCHANGED <<threads, current, slots, kernel, socket, handlers, faults>>

(* stop, for a start that failed or a session that ends.                   *)
Stop ==
    /\ session = "running" /\ session' = "stopping" /\ current' = FALSE
    /\ op' = [op EXCEPT ![Ctl] = [Idle EXCEPT !.pc = "next", !.todo = Tids]]
    /\ UNCHANGED <<threads, slots, kernel, socket, handlers, faults>>

Stopped ==
    /\ session = "stopping" /\ op[Ctl].pc = "swept"
    /\ session' = "stopped" /\ op' = [op EXCEPT ![Ctl] = Idle]
    /\ UNCHANGED <<threads, current, slots, kernel, socket, handlers, faults>>

OpStep(a) ==
    \/ Mark(a) \/ Open(a) \/ Send(a) \/ Receive(a) \/ OpenFailed(a) \/ Map(a)
    \/ PublishFd(a) \/ PublishPage(a) \/ Setup(a)
    \/ RollbackMapping(a) \/ RollbackPage(a) \/ RollbackClose(a) \/ RollbackFd(a)
    \/ DestroyNext(a) \/ ClaimFd(a) \/ CloseFd(a) \/ LookAtPage(a) \/ LockPage(a) \/ UnmapPage(a)
ThreadStep(t) ==
    \/ Birth(t) \/ OnThreadStart(t) \/ Up(t) \/ OnThreadEnd(t) \/ Gone(t)
    \/ Walk(t) \/ WalkPage(t) \/ WalkEnd(t)

Next ==
    \/ Start \/ ListThreads \/ CreateNext \/ Started \/ Stop \/ Stopped \/ Serve
    \/ \E t \in Tids : ThreadStep(t)
    \/ \E a \in Actors : OpStep(a)

Spec == Init /\ [][Next]_vars

-----------------------------------------------------------------------------
(* Properties.                                                             *)

Quiet == \A a \in Actors : op[a].pc \in {"idle", "created", "lost", "swept"}

(* Every variable has the type of the C++ variable it stands for. The lock *)
(* of a slot that is published while it is held ends up below 0.           *)
TypeOK ==
    /\ fd \in [Tids -> -1..MaxFds] /\ page \in [Tids -> 0..MaxFds] /\ lock \in [Tids -> -2..1]
    /\ open \subseteq 1..MaxFds /\ mapped \subseteq 1..MaxFds

Holders(t) ==
    Cardinality({a \in Actors : op[a].pc = "unmap" /\ op[a].tid = t}) + (IF walking[t] = 0 THEN 0 ELSE 1)

(* A handler reads the ring buffer of its event only while it is mapped,   *)
(* whoever destroys the event meanwhile: the thread's exit hook, the sweep *)
(* of a stop or an emergency stop in another thread; and the lock is taken *)
(* exactly while one of them holds it. (Except for a thread whose event    *)
(* was destroyed or read while it was being created, or published before   *)
(* the previous event's destruction, or the last handler, was done.)       *)
PageSafe ==
    \A t \in Tids \ (overtaken \cup crossed) :
        /\ walking[t] > 0 => walking[t] \in mapped
        /\ lock[t] = Holders(t)

(* No descriptor or mapping is lost, and none is closed or unmapped twice, *)
(* as both are used again at once by others: when nothing is going on,     *)
(* each is in the slot of a thread, where the exit hook or a stop will     *)
(* find it, and it is the thread that the event counts, also when the      *)
(* server's responses reach other threads than those that asked. This does *)
(* not hold of an event destroyed while another actor is still creating    *)
(* it; its page is lost when it is created while the previous event of the *)
(* thread is still being destroyed; and a descriptor is lost when an error *)
(* reaches the wrong thread.                                               *)
EventsAccounted ==
    /\ \A t \in Tids : fd[t] > 0 => counts[fd[t]] = t
    /\ ~mixed /\ overtaken = {} =>
          /\ "fd" \notin twice
          /\ "page" \in twice => crossed # {}
    /\ ~mixed /\ Quiet /\ requests = <<>> /\ responses = <<>> =>
          /\ \A f \in open : counts[f] \in overtaken \/ fd[counts[f]] = f
          /\ \A f \in mapped : counts[f] \in overtaken \cup crossed \/ page[counts[f]] = f
          /\ \A t \in Tids \ overtaken : fd[t] > 0 => fd[t] \in open
          /\ \A t \in Tids \ (overtaken \cup crossed) : page[t] # 0 => page[t] \in mapped

(* "Mark _events[tid] early to prevent duplicates. Real fd will be put     *)
(* later": when nothing is going on, no slot is left marked, which would   *)
(* keep its thread id from ever being profiled again. "It's alright - the  *)
(* other thread(s) will finish the handling of our TID perf fd" claims the *)
(* same of responses that got mixed up.                                    *)
MarksResolved == Quiet /\ requests = <<>> /\ responses = <<>> => \A t \in Tids : fd[t] # -1

(* The same, except when a thread has taken the error of another thread's  *)
(* request, or has given up waiting for a response.                        *)
MarksResolvedUnlessMixed == mixed \/ MarksResolved
=============================================================================
