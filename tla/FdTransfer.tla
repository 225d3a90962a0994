------------------------------ MODULE FdTransfer ------------------------------
(***************************************************************************)
(* fdtransferClient_linux.cpp and main/fdtransferServer_linux.cpp: threads *)
(* of the profiled process ask a privileged server for descriptors over    *)
(* one socket. Requests and responses are queues of whole packets; nothing *)
(* in a response says who asked, and a receive gives up after 10 seconds.  *)
(***************************************************************************)
EXTENDS Integers, Sequences, FiniteSets

CONSTANTS
    Threads,          \* perf event of thread t is asked for by thread t
    Starter,          \* the thread in Profiler::start, which asks for kallsyms
    MaxSessions, MaxRequests,
    RingSize          \* pages the server keeps mapped: perf_mmap_ringbuf

VARIABLES
    session,          \* sessions started so far
    phase,            \* "idle", "starting", "running"
    asked,            \* the session was started with fdtransfer
    peer,             \* _peer is not -1
    server,           \* of this connection: "absent", "listening", "serving", "gone"
    req, resp,        \* packets on their way: [kind, tid, id], [kind, tid, error, fd]
    maps,             \* the descriptors whose pages the server keeps mapped
    r,                \* requester -> [at, fd, tid, error, id]
    requests,         \* requests begun so far; names the descriptors
    mixed,            \* history: a receive ended without a packet, or _peer changed under a request
    failed            \* history: a start returned after it had made the socket

vars == <<session, phase, asked, peer, server, req, resp, maps, r, requests, mixed, failed>>

NoFd == [id |-> 0, kind |-> "none", tid |-> Starter]
Kind(x) == IF x = Starter THEN "kallsyms" ELSE "perf"
Requesters == Threads \cup {Starter}
Open == server \in {"listening", "serving"}
Fds(q) == {q[i].fd : i \in DOMAIN q} \ {NoFd}

Init ==
    /\ session = 0 /\ phase = "idle" /\ asked = FALSE
    /\ peer = FALSE /\ server = "absent" /\ req = <<>> /\ resp = <<>> /\ maps = <<>>
    /\ r = [x \in Requesters |-> [at |-> "idle", fd |-> NoFd, tid |-> x, error |-> 0, id |-> 0]]
    /\ requests = 0 /\ mixed = FALSE /\ failed = FALSE

-----------------------------------------------------------------------------
(* What is left in a closed socket is dropped, descriptors included, and   *)
(* its server ends at the end of the stream.                               *)
NewSocket(open, state) ==
    /\ peer' = open /\ server' = state /\ req' = <<>> /\ resp' = <<>> /\ maps' = <<>>
    /\ mixed' = (mixed \/ \E x \in Requesters : r[x].at \in {"send", "recv"})

closePeer == NewSocket(FALSE, "absent")

(* A connect that fails leaves _peer at the new socket, and the start      *)
(* returns; so do the checks of the arguments that come after it.          *)
StartWithServer ==
    /\ phase = "idle" /\ session < MaxSessions
    /\ session' = session + 1 /\ asked' = TRUE
    /\ \E connected \in BOOLEAN, ok \in BOOLEAN :
          /\ NewSocket(TRUE, IF connected THEN "listening" ELSE "absent")
          /\ phase' = IF connected /\ ok THEN "starting" ELSE "idle"
          /\ failed' = (failed \/ ~connected \/ ~ok)
    /\ r' = [r EXCEPT ![Starter].at = "idle"]
    /\ UNCHANGED requests

StartWithout ==
    /\ phase = "idle" /\ session < MaxSessions
    /\ session' = session + 1 /\ asked' = FALSE /\ phase' = "starting"
    /\ r' = [r EXCEPT ![Starter].at = "idle"]
    /\ UNCHANGED <<peer, server, req, resp, maps, requests, mixed, failed>>

Started ==
    /\ phase = "starting" /\ r[Starter].at \in {"idle", "done"}
    /\ phase' = "running"
    /\ UNCHANGED <<session, asked, peer, server, req, resp, maps, r, requests, mixed, failed>>

StopKeepingPeer ==
    /\ phase = "running" /\ phase' = "idle"
    /\ UNCHANGED <<session, asked, peer, server, req, resp, maps, r, requests, mixed, failed>>

Stop ==
    /\ phase = "running" /\ phase' = "idle"
    /\ closePeer
    /\ UNCHANGED <<session, asked, r, requests, failed>>

-----------------------------------------------------------------------------
(* hasPeer, asked for by parseKernelSymbols in a start and by              *)
(* createForThread while a session runs.                                   *)
HasPeer(x) ==
    /\ r[x].at \in {"idle", "done"} /\ peer /\ requests < MaxRequests
    /\ IF x = Starter THEN phase = "starting" /\ r[x].at = "idle" ELSE phase = "running"
    /\ r' = [r EXCEPT ![x] = [at |-> "send", fd |-> NoFd, tid |-> x, error |-> 0, id |-> requests + 1]]
    /\ requests' = requests + 1
    /\ UNCHANGED <<session, phase, asked, peer, server, req, resp, maps, mixed, failed>>

Fail(x, error) == r' = [r EXCEPT ![x].at = "done", ![x].error = error]

Send(x) ==
    /\ r[x].at = "send"
    /\ IF peer /\ Open
       THEN /\ req' = Append(req, [kind |-> Kind(x), tid |-> x, id |-> r[x].id])
            /\ r' = [r EXCEPT ![x].at = "recv"]
       ELSE Fail(x, 32) /\ req' = req
    /\ UNCHANGED <<session, phase, asked, peer, server, resp, maps, requests, mixed, failed>>

TakeAnyKind(x, m) == r' = [r EXCEPT ![x].at = "done", ![x].fd = m.fd, ![x].tid = m.tid, ![x].error = m.error]

(* A packet of the other kind, or with an error, gives no descriptor; the  *)
(* error is the packet's in both cases. A perf packet names its thread.    *)
Take(x, m) ==
    IF m.kind # Kind(x) \/ m.error # 0 THEN Fail(x, m.error)
    ELSE r' = [r EXCEPT ![x].at = "done", ![x].fd = m.fd, ![x].tid = m.tid]

recvFd(x) ==
    /\ r[x].at = "recv" /\ resp # <<>>
    /\ Take(x, Head(resp))
    /\ resp' = Tail(resp)
    /\ UNCHANGED <<session, phase, asked, peer, server, req, maps, requests, mixed, failed>>

(* The timeout, a socket closed or replaced meanwhile, or the end of the   *)
(* stream: the response was never written, and its error is what the stack *)
(* held.                                                                   *)
RecvNothing(x) ==
    /\ r[x].at = "recv"
    /\ \E junk \in {0, 7} : Fail(x, junk)
    /\ mixed' = TRUE
    /\ UNCHANGED <<session, phase, asked, peer, server, req, resp, maps, requests, failed>>

-----------------------------------------------------------------------------
(* acceptPeer waits 30 seconds and refuses a process it was not started    *)
(* for; the client may send before it is accepted.                         *)
acceptPeer ==
    /\ server = "listening"
    /\ server' \in {"serving", "gone"}
    /\ UNCHANGED <<session, phase, asked, peer, req, resp, maps, r, requests, mixed, failed>>

sendFd(m, error) ==
    LET fd == IF error = 0 THEN [id |-> m.id, kind |-> m.kind, tid |-> m.tid] ELSE NoFd
    IN /\ resp' = Append(resp, [kind |-> m.kind, tid |-> m.tid, error |-> error, fd |-> fd])
       /\ maps' = IF error # 0 \/ m.kind # "perf" THEN maps
                  ELSE Append(IF Len(maps) < RingSize THEN maps ELSE Tail(maps), fd)

(* tgkill, perf_event_open or the copy of the file may fail; the           *)
(* descriptor sent is closed at once, its pages stay mapped.               *)
serveRequests ==
    /\ server = "serving" /\ req # <<>>
    /\ \E error \in {0, 3} : sendFd(Head(req), error)
    /\ req' = Tail(req)
    /\ UNCHANGED <<session, phase, asked, peer, server, r, requests, mixed, failed>>

ServerKilled ==
    /\ Open /\ server' = "gone" /\ maps' = <<>>
    /\ UNCHANGED <<session, phase, asked, peer, req, resp, r, requests, mixed, failed>>

Next ==
    \/ StartWithServer \/ StartWithout \/ Started \/ Stop
    \/ \E x \in Requesters : HasPeer(x) \/ Send(x) \/ recvFd(x) \/ RecvNothing(x)
    \/ acceptPeer \/ serveRequests \/ ServerKilled

Spec == Init /\ [][Next]_vars

-----------------------------------------------------------------------------
TypeOK ==
    /\ session \in 0..MaxSessions /\ peer \in BOOLEAN /\ requests \in 0..MaxRequests
    /\ Len(maps) <= RingSize /\ Len(req) + Len(resp) <= MaxRequests

Received(x) == r[x].at = "done" /\ r[x].fd # NoFd

(* Whatever the order of requests and however late the responses: a        *)
(* descriptor handed out is of the kind asked for and of the thread the    *)
(* caller is told, and nobody else holds it; its pages are still mapped by *)
(* a live server while it is on its way, if no more than the ring holds    *)
(* are. A failure reports an error other than 0 unless a receive ended     *)
(* without a packet before, or the socket was closed under a request. A    *)
(* session started without a server uses none unless an earlier start      *)
(* failed with its socket open.                                            *)
FdTransferSound ==
    /\ \A x \in Requesters : Received(x) => r[x].fd.kind = Kind(x) /\ r[x].fd.tid = r[x].tid
    /\ \A x, y \in Requesters : x # y /\ Received(x) /\ Received(y) => r[x].fd # r[y].fd
    /\ \A x \in Requesters : Received(x) => r[x].fd \notin Fds(resp)
    /\ Open /\ Cardinality(Fds(resp)) <= RingSize =>
          \A fd \in Fds(resp) : fd.kind = "perf" => \E i \in DOMAIN maps : maps[i] = fd
    /\ ~mixed => \A x \in Requesters : r[x].at = "done" /\ r[x].fd = NoFd => r[x].error # 0
    /\ phase = "running" /\ ~asked /\ ~failed => ~peer
=============================================================================
