----------------------------- MODULE OpenJ9Attach -----------------------------
(***************************************************************************)
(* jattach_openj9.c: a client asks an OpenJ9 VM to connect back to it. It  *)
(* leaves its port and a random key in the VM's directory, holds the       *)
(* notification file of every VM, and posts a semaphore all VMs wait on;   *)
(* each one looks for a reply file of its own and waits for its            *)
(* notification file to be released. The VMs are external.                 *)
(***************************************************************************)
EXTENDS Integers, Sequences, FiniteSets, FiniteSetsExt

CONSTANTS
    Clients, JVMs,
    Ports,            \* a port is free again once its socket is closed
    Codes,            \* what Agent_OnAttach may return
    MaxNotifFiles,    \* MAX_NOTIF_FILES
    NoOne

VARIABLES
    target,           \* client -> the VM it was asked to attach to; fixed
    attachLock,       \* the client with the lock _attachlock, or NoOne
    notif,            \* VM -> the client with its attachNotificationSync, or NoOne
    sem,              \* the semaphore of _notifier
    reply,            \* VM -> its replyInfo: {} or {[port, key]}
    c,                \* client -> [at, left, count, port, peer, result]
    wakers,           \* VM -> "wait", "look" or "sync"
    calls,            \* connections VMs are about to make: [jvm, port, key]
    backlog,          \* port -> the connections waiting to be accepted
    ran,              \* history: the commands executed: [client, jvm, code]
    crashed           \* history: a client was killed on its way

vars == <<target, attachLock, notif, sem, reply, c, wakers, calls, backlog, ran, crashed>>

Client == [at |-> "lock", left |-> {}, count |-> 0, port |-> 0, peer |-> NoOne, result |-> 0]

Init ==
    /\ target \in [Clients -> JVMs]
    /\ attachLock = NoOne /\ notif = [j \in JVMs |-> NoOne]
    /\ sem = 0 /\ reply = [j \in JVMs |-> {}]
    /\ c = [k \in Clients |-> Client]
    /\ wakers = [j \in JVMs |-> "wait"] /\ calls = {}
    /\ backlog = [p \in Ports |-> {}] /\ ran = {} /\ crashed = FALSE

Listening(p) == \E k \in Clients : c[k].port = p
Goto(k, step) == c' = [c EXCEPT ![k].at = step]
(* goto error: the same clean-up as after a connection, with result 1.     *)
Error(k) == c' = [c EXCEPT ![k].at = "close", ![k].result = 1]

-----------------------------------------------------------------------------
acquire_lock(k) ==
    /\ c[k].at = "lock"
    /\ \/ attachLock = NoOne /\ attachLock' = k /\ Goto(k, "socket")
       \/ attachLock' = attachLock /\ c' = [c EXCEPT ![k].at = "end", ![k].result = 1]
    /\ UNCHANGED <<target, notif, sem, reply, wakers, calls, backlog, ran, crashed>>

create_attach_socket(k) ==
    /\ c[k].at = "socket"
    /\ \/ \E p \in Ports : ~Listening(p) /\ c' = [c EXCEPT ![k].at = "reply", ![k].port = p]
       \/ Error(k)
    /\ UNCHANGED <<target, attachLock, notif, sem, reply, wakers, calls, backlog, ran, crashed>>

write_reply_info(k) ==
    /\ c[k].at = "reply"
    /\ \/ /\ reply' = [reply EXCEPT ![target[k]] = {[port |-> c[k].port, key |-> k]}]
          /\ c' = [c EXCEPT ![k].at = "files", ![k].left = JVMs]
       \/ reply' = reply /\ Error(k)
    /\ UNCHANGED <<target, attachLock, notif, sem, wakers, calls, backlog, ran, crashed>>

(* readdir gives the directories of the VMs in any order; a file that      *)
(* cannot be opened counts although it is not held.                        *)
lock_notification_files(k) ==
    /\ c[k].at = "files" /\ c[k].left # {} /\ c[k].count < MaxNotifFiles
    /\ \E j \in c[k].left :
          /\ \/ notif[j] = NoOne /\ notif' = [notif EXCEPT ![j] = k]
             \/ notif' = notif
          /\ c' = [c EXCEPT ![k].left = @ \ {j}, ![k].count = @ + 1]
    /\ UNCHANGED <<target, attachLock, sem, reply, wakers, calls, backlog, ran, crashed>>

(* semget may fail; the posts do not wait for one another.                 *)
NotifySemaphore(k) ==
    /\ c[k].at = "files" /\ (c[k].left = {} \/ c[k].count = MaxNotifFiles)
    /\ \/ sem' = sem + c[k].count /\ Goto(k, "accept")
       \/ sem' = sem /\ Error(k)
    /\ UNCHANGED <<target, attachLock, notif, reply, wakers, calls, backlog, ran, crashed>>

AcceptAnyKey(k, call) == c' = [c EXCEPT ![k].at = "close", ![k].peer = call.jvm]

(* A connection with another key is closed and ends the attempt.           *)
CheckKey(k, call) ==
    IF call.key = k THEN c' = [c EXCEPT ![k].at = "close", ![k].peer = call.jvm] ELSE Error(k)

accept_client(k) ==
    /\ c[k].at = "accept"
    /\ \/ Error(k) /\ backlog' = backlog
       \/ \E call \in backlog[c[k].port] :
             /\ CheckKey(k, call)
             /\ backlog' = [backlog EXCEPT ![c[k].port] = @ \ {call}]
    /\ UNCHANGED <<target, attachLock, notif, sem, reply, wakers, calls, ran, crashed>>

close_attach_socket(k) ==
    /\ c[k].at = "close"
    /\ IF c[k].port = 0 THEN UNCHANGED <<reply, backlog>>
       ELSE /\ reply' = [reply EXCEPT ![target[k]] = {}]
            /\ backlog' = [backlog EXCEPT ![c[k].port] = {}]
    /\ c' = [c EXCEPT ![k].at = "unlock", ![k].port = 0]
    /\ UNCHANGED <<target, attachLock, notif, sem, wakers, calls, ran, crashed>>

unlock_notification_files(k) ==
    /\ c[k].at = "unlock"
    /\ notif' = [j \in JVMs |-> IF notif[j] = k THEN NoOne ELSE notif[j]]
    /\ Goto(k, "take")
    /\ UNCHANGED <<target, attachLock, sem, reply, wakers, calls, backlog, ran, crashed>>

TakeOne(k) ==
    /\ c[k].at = "take"
    /\ sem' = IF sem > 0 THEN sem - 1 ELSE sem
    /\ Goto(k, "release")
    /\ UNCHANGED <<target, attachLock, notif, reply, wakers, calls, backlog, ran, crashed>>

(* What was posted and not consumed is taken back, without waiting.        *)
TakeSemaphore(k) ==
    /\ c[k].at = "take"
    /\ sem' = Max({sem - c[k].count, 0})
    /\ Goto(k, "release")
    /\ UNCHANGED <<target, attachLock, notif, reply, wakers, calls, backlog, ran, crashed>>

release_lock(k) ==
    /\ c[k].at = "release"
    /\ attachLock' = NoOne
    /\ Goto(k, IF c[k].result = 0 THEN "command" ELSE "end")
    /\ UNCHANGED <<target, notif, sem, reply, wakers, calls, backlog, ran, crashed>>

(* write_command, the execution by the VM, read_response and detach: the   *)
(* code of the agent, -1 for any other error, 1 when the connection broke  *)
(* before or after the execution.                                          *)
Command(k) ==
    /\ c[k].at = "command"
    /\ \/ /\ c' = [c EXCEPT ![k].at = "end", ![k].result = 1] /\ ran' = ran
       \/ \E code \in Codes, answer \in {"code", "none"} :
             /\ ran' = ran \cup {[client |-> k, jvm |-> c[k].peer, code |-> code]}
             /\ c' = [c EXCEPT ![k].at = "end", ![k].result = IF answer = "code" THEN code ELSE 1]
    /\ UNCHANGED <<target, attachLock, notif, sem, reply, wakers, calls, backlog, crashed>>

(* A killed client: the kernel closes its files, nobody takes back the     *)
(* reply file and the posts.                                               *)
Crash(k) ==
    /\ c[k].at \notin {"lock", "end"}
    /\ attachLock' = IF attachLock = k THEN NoOne ELSE attachLock
    /\ notif' = [j \in JVMs |-> IF notif[j] = k THEN NoOne ELSE notif[j]]
    /\ backlog' = IF c[k].port = 0 THEN backlog ELSE [backlog EXCEPT ![c[k].port] = {}]
    /\ c' = [c EXCEPT ![k] = [Client EXCEPT !.at = "end", !.result = 1]]
    /\ crashed' = TRUE
    /\ UNCHANGED <<target, sem, reply, wakers, calls, ran>>

-----------------------------------------------------------------------------
Wake(j) ==
    /\ wakers[j] = "wait" /\ sem > 0
    /\ sem' = sem - 1 /\ wakers' = [wakers EXCEPT ![j] = "look"]
    /\ UNCHANGED <<target, attachLock, notif, reply, c, calls, backlog, ran, crashed>>

Look(j) ==
    /\ wakers[j] = "look"
    /\ calls' = calls \cup {[jvm |-> j, port |-> r.port, key |-> r.key] : r \in reply[j]}
    /\ wakers' = [wakers EXCEPT ![j] = "sync"]
    /\ UNCHANGED <<target, attachLock, notif, sem, reply, c, backlog, ran, crashed>>

Sync(j) ==
    /\ wakers[j] = "sync" /\ notif[j] = NoOne
    /\ wakers' = [wakers EXCEPT ![j] = "wait"]
    /\ UNCHANGED <<target, attachLock, notif, sem, reply, c, calls, backlog, ran, crashed>>

ConnectBack(call) ==
    /\ calls' = calls \ {call}
    /\ backlog' = IF Listening(call.port) THEN [backlog EXCEPT ![call.port] = @ \cup {call}] ELSE backlog
    /\ UNCHANGED <<target, attachLock, notif, sem, reply, c, wakers, ran, crashed>>

Next ==
    \/ \E k \in Clients :
          \/ acquire_lock(k) \/ create_attach_socket(k) \/ write_reply_info(k) \/ lock_notification_files(k)
          \/ NotifySemaphore(k) \/ accept_client(k) \/ close_attach_socket(k) \/ unlock_notification_files(k)
          \/ TakeSemaphore(k) \/ release_lock(k) \/ Command(k) \/ Crash(k)
    \/ \E j \in JVMs : Wake(j) \/ Look(j) \/ Sync(j)
    \/ \E call \in calls : ConnectBack(call)

Spec == Init /\ [][Next]_vars

-----------------------------------------------------------------------------
TypeOK ==
    /\ attachLock \in Clients \cup {NoOne} /\ notif \in [JVMs -> Clients \cup {NoOne}]
    /\ sem \in 0..(Cardinality(Clients) * MaxNotifFiles)
    /\ \A k \in Clients : c[k].count \in 0..MaxNotifFiles /\ c[k].port \in Ports \cup {0}

(* A command is executed by the VM the client was asked to attach to, once,*)
(* and the client reports success only if the agent returned 0: a VM that  *)
(* wakes late, and calls a port that meanwhile is another client's, is     *)
(* told by its key. When nobody holds the attach lock, no socket is open   *)
(* and no notification file is held, and unless a client was killed the    *)
(* semaphore is at 0 and no reply file is left.                            *)
OpenJ9AttachSound ==
    /\ \A r \in ran : r.jvm = target[r.client] /\ \A q \in ran : q.client = r.client => q = r
    /\ \A k \in Clients : c[k].at = "end" /\ c[k].result = 0 => \E r \in ran : r.client = k /\ r.code = 0
    /\ attachLock = NoOne =>
          /\ \A j \in JVMs : notif[j] = NoOne
          /\ \A p \in Ports : ~Listening(p) /\ backlog[p] = {}
          /\ ~crashed => sem = 0 /\ \A j \in JVMs : reply[j] = {}
=============================================================================
