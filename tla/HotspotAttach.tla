---------------------------- MODULE HotspotAttach ----------------------------
(***************************************************************************)
(* jattach_hotspot.c: clients that make a HotSpot JVM listen, send it a    *)
(* command and read the result. The listener is started by a SIGQUIT that  *)
(* finds a trigger file; clients of one JVM share the name of that file.   *)
(* The JVM (signal dispatcher and attach listener) is external.            *)
(***************************************************************************)
EXTENDS Integers, Sequences, FiniteSets, SequencesExt

CONSTANTS
    Clients,
    Directories,      \* what /proc/<pid>/cwd may be: "ok", "denied" or "chowned"
    Responses,        \* what the JVM may answer: [text, rc], see read_response
    MaxPolls          \* polls of check_socket before a client gives up

VARIABLES
    cwd,              \* a member of Directories; fixed
    trigger,          \* directories with a .attach_pid file
    quits,            \* SIGQUITs sent and not yet handled
    jvm,              \* "quiet", "listening", "dead"
    socket,           \* the file .java_pid exists; it may outlive the JVM
    c,                \* client -> [at, path, polls, first, answer, result]
    rc,               \* history: client -> what Agent_OnAttach returned, once for every call
    dumps,            \* history: a SIGQUIT made the JVM print its threads
    crossed           \* history: clients met in start_attach_mechanism, or one gave up

vars == <<cwd, trigger, quits, jvm, socket, c, rc, dumps, crossed>>

Client == [at |-> "check", path |-> "", polls |-> 0, first |-> <<>>, answer |-> <<>>, result |-> 0]
Starting == {"create", "kill", "poll", "unlink"}

Init ==
    /\ cwd \in Directories
    /\ trigger = {} /\ quits = 0 /\ jvm = "quiet" /\ socket = FALSE
    /\ c = [k \in Clients |-> Client] /\ rc = [k \in Clients |-> <<>>]
    /\ dumps = FALSE /\ crossed = FALSE

Goto(k, step) == c' = [c EXCEPT ![k].at = step]
Return(k, result) == c' = [c EXCEPT ![k].at = "end", ![k].result = result]

-----------------------------------------------------------------------------
check_socket(k) ==
    /\ c[k].at = "check"
    /\ Goto(k, IF socket THEN "connect" ELSE "create")
    /\ crossed' = (crossed \/ (~socket /\ \E x \in Clients : c[x].at \in Starting))
    /\ UNCHANGED <<cwd, trigger, quits, jvm, socket, rc, dumps>>

(* The trigger goes to the directory of the JVM, or to /tmp when that one  *)
(* does not take it or changes its owner; there it may fail as well.       *)
CreateTrigger(k) ==
    /\ c[k].at = "create"
    /\ LET first == IF cwd = "chowned" THEN trigger \ {"cwd"} ELSE trigger
       IN \/ /\ cwd = "ok" /\ trigger' = trigger \cup {"cwd"}
             /\ c' = [c EXCEPT ![k].at = "kill", ![k].path = "cwd"]
          \/ /\ cwd # "ok" /\ trigger' = first \cup {"tmp"}
             /\ c' = [c EXCEPT ![k].at = "kill", ![k].path = "tmp"]
          \/ /\ cwd # "ok" /\ trigger' = first /\ Return(k, 1)
    /\ UNCHANGED <<cwd, quits, jvm, socket, rc, dumps, crossed>>

Kill(k) ==
    /\ c[k].at = "kill"
    /\ quits' = IF jvm = "dead" THEN quits ELSE quits + 1
    /\ Goto(k, "poll")
    /\ UNCHANGED <<cwd, trigger, jvm, socket, rc, dumps, crossed>>

Poll(k) ==
    /\ c[k].at = "poll"
    /\ LET n == c[k].polls + 1
           over == socket \/ n = MaxPolls \/ jvm = "dead"
       IN /\ c' = [c EXCEPT ![k].at = IF over THEN "unlink" ELSE "poll", ![k].polls = n,
                            ![k].result = IF socket THEN 0 ELSE 1]
          /\ crossed' = (crossed \/ (over /\ ~socket))
    /\ UNCHANGED <<cwd, trigger, quits, jvm, socket, rc, dumps>>

UnlinkLeaving(k) ==
    /\ c[k].at = "unlink"
    /\ trigger' = IF c[k].result = 0 THEN trigger \ {c[k].path} ELSE trigger
    /\ Goto(k, IF c[k].result = 0 THEN "connect" ELSE "end")
    /\ UNCHANGED <<cwd, quits, jvm, socket, rc, dumps, crossed>>

Unlink(k) ==
    /\ c[k].at = "unlink"
    /\ trigger' = trigger \ {c[k].path}
    /\ Goto(k, IF c[k].result = 0 THEN "connect" ELSE "end")
    /\ UNCHANGED <<cwd, quits, jvm, socket, rc, dumps, crossed>>

connect_socket(k) ==
    /\ c[k].at = "connect"
    /\ IF jvm = "listening" THEN Goto(k, "write") ELSE Return(k, 1)
    /\ UNCHANGED <<cwd, trigger, quits, jvm, socket, rc, dumps, crossed>>

(* The command is taken whole by the socket unless the JVM is gone.        *)
write_command(k) ==
    /\ c[k].at = "write"
    /\ IF jvm = "listening" THEN Goto(k, "wait") ELSE Return(k, 1)
    /\ UNCHANGED <<cwd, trigger, quits, jvm, socket, rc, dumps, crossed>>

(* atoi: leading digits with a sign, of a sequence of characters.          *)
Digit == [d \in {"0", "1", "2", "3", "4", "5", "6", "7", "8", "9"} |->
             CHOOSE n \in 0..9 : <<"0", "1", "2", "3", "4", "5", "6", "7", "8", "9">>[n + 1] = d]
atoi(s) ==
    LET negative == s # <<>> /\ s[1] = "-"
        t == IF negative THEN Tail(s) ELSE s
        n == FoldLeft(LAMBDA r, ch : IF r.end \/ ch \notin DOMAIN Digit THEN [r EXCEPT !.end = TRUE]
                                     ELSE [r EXCEPT !.n = 10 * @ + Digit[ch]], [n |-> 0, end |-> FALSE], t).n
    IN IF negative THEN -n ELSE n
From(s, i) == SubSeq(s, i, Len(s))
ReturnCode == <<"return code: ">>      \* one character of the model

(* The result of `load`, from the first piece read and from the whole text *)
(* of the answer: of Agent_OnAttach in JDK 9 and later, in JDK 8, or of a  *)
(* library that JDK 21 could not load.                                     *)
LoadResult(first, text) ==
    LET code == atoi(first)
        line == From(text, 3)
    IN IF code # 0 \/ Len(text) < 2 THEN code
       ELSE IF IsPrefix(ReturnCode, line) THEN atoi(Tail(line))
       ELSE IF line # <<>> /\ (line[1] \in DOMAIN Digit \/ line[1] = "-") THEN atoi(line) ELSE -1

(* The first read returns any part of the answer; the reads after it go on *)
(* to the end of the stream.                                               *)
read_response(k) ==
    /\ \/ /\ c[k].at = "wait" /\ c[k].answer # <<>>
          /\ \E n \in 1..Len(c[k].answer) :
                c' = [c EXCEPT ![k].at = "read", ![k].first = SubSeq(c[k].answer, 1, n)]
       \/ c[k].at = "wait" /\ c[k].answer = <<>> /\ jvm = "dead" /\ Return(k, 1)
       \/ c[k].at = "read" /\ Return(k, LoadResult(c[k].first, c[k].answer))
    /\ UNCHANGED <<cwd, trigger, quits, jvm, socket, rc, dumps, crossed>>

-----------------------------------------------------------------------------
(* The JVM: a SIGQUIT starts the listener when there is a trigger and none *)
(* yet; otherwise the JVM prints its threads.                              *)
HandleQuit ==
    /\ quits > 0 /\ jvm # "dead"
    /\ quits' = quits - 1
    /\ IF jvm = "quiet" /\ trigger # {} THEN jvm' = "listening" /\ socket' = TRUE /\ dumps' = dumps
       ELSE dumps' = TRUE /\ UNCHANGED <<jvm, socket>>
    /\ UNCHANGED <<cwd, trigger, c, rc, crossed>>

Execute(k, r) ==
    /\ jvm = "listening" /\ c[k].at = "wait" /\ c[k].answer = <<>>
    /\ rc' = [rc EXCEPT ![k] = Append(@, r.rc)]
    /\ c' = [c EXCEPT ![k].answer = r.text]
    /\ UNCHANGED <<cwd, trigger, quits, jvm, socket, dumps, crossed>>

Die ==
    /\ jvm # "dead" /\ jvm' = "dead" /\ quits' = 0
    /\ socket' \in {socket, FALSE}
    /\ UNCHANGED <<cwd, trigger, c, rc, dumps, crossed>>

Next ==
    \/ HandleQuit \/ Die
    \/ \E k \in Clients :
          \/ check_socket(k) \/ CreateTrigger(k) \/ Kill(k) \/ Poll(k) \/ Unlink(k) \/ connect_socket(k)
          \/ write_command(k) \/ read_response(k) \/ \E r \in Responses : Execute(k, r)

Spec == Init /\ [][Next]_vars

-----------------------------------------------------------------------------
TypeOK ==
    /\ trigger \subseteq {"cwd", "tmp"} /\ quits \in 0..Cardinality(Clients)
    /\ jvm \in {"quiet", "listening", "dead"} /\ socket \in BOOLEAN
    /\ \A k \in Clients : c[k].polls \in 0..MaxPolls /\ c[k].result \in Int

(* A client reports success exactly for a command that the JVM executed    *)
(* and whose agent returned 0, however the answer is cut into reads. The   *)
(* trigger file is gone when every client has ended. And the JVM prints    *)
(* its threads on the way only when clients started the listener at the    *)
(* same time or one of them gave up.                                       *)
HotspotAttachSound ==
    /\ \A k \in Clients : c[k].at = "end" /\ c[k].result = 0 => rc[k] = <<0>>
    /\ \A k \in Clients : c[k].at = "end" /\ rc[k] = <<0>> /\ jvm # "dead" => c[k].result = 0
    /\ (\A k \in Clients : c[k].at \notin Starting) => trigger = {}
    /\ ~crossed => ~dumps
=============================================================================
