---------------------------- MODULE CookieSignal ----------------------------
(***************************************************************************)
(* How the profiler chooses its signals (os_linux.cpp): the dedicated      *)
(* signal of cookie captures, reserved once for the life of the process,   *)
(* and the signals of the CPU and the wall clock engine, chosen anew by    *)
(* each session. Sessions start one at a time, under _state_lock, while    *)
(* the application changes its own signal dispositions at any moment.      *)
(***************************************************************************)
EXTENDS Integers, FiniteSets

CONSTANTS
    Standard,     \* the signals nextAllowedSignal goes through, by number
    Coalescing,   \* SIGSTKFLT and SIGPWR
    RealTime,     \* SIGRTMIN..SIGRTMAX
    MaxSessions,  \* bound on the sessions started
    MaxChanges    \* bound on the application's sigaction calls

Signals == Standard \cup Coalescing \cup RealTime

(* A signal's number gives its place in nextAllowedSignal's cycle.         *)
CookieSignalShape ==
    /\ Signals = 1..Cardinality(Signals) /\ Cardinality(Standard) >= 2
    /\ MaxSessions \in Nat /\ MaxChanges \in Nat

VARIABLES
    disp,       \* the disposition of each signal
    installed,  \* installed_sigaction, per signal
    reserved, reservedMode,  \* reserved_cookie_signal, 0 if none, and its mode
    preferred,  \* preferred_signals of getProfilingSignal
    start,      \* the start in progress
    engine,     \* the signals of the CPU and wall clock engine, 0 if none
    sessions, changes

vars == <<disp, installed, reserved, reservedMode, preferred, start, engine,
          sessions, changes>>

AppHandlers == {"app"}
NoStart == [pc |-> "idle"]
Modes == {"queued", "coalescing"}
Pool(mode) == IF mode = "queued" THEN RealTime ELSE Coalescing
Least(S) == CHOOSE s \in S : \A u \in S : s <= u
(* The cookie signal, if any, is settled; the engines start.               *)
EnginesOf(primary) == [pc |-> "engine", primary |-> primary]

Init ==
    /\ disp \in [Signals -> {"dfl"}] /\ installed = [s \in Signals |-> "none"]
    /\ reserved = 0 /\ reservedMode = "queued"
    /\ preferred = [m \in {0, 1} |-> m + 1]
    /\ start = NoStart /\ engine = [m \in {0, 1} |-> 0]
    /\ sessions = 0 /\ changes = 0

(* The application installs or removes a handler of its own.               *)
AppSets(s, d) ==
    /\ changes < MaxChanges /\ changes' = changes + 1
    /\ disp' = [disp EXCEPT ![s] = d]
    /\ UNCHANGED <<installed, reserved, reservedMode, preferred, start, engine, sessions>>

-----------------------------------------------------------------------------
(* A start: cookie says whether it is a cookie capture, in which mode and  *)
(* with which requested signal; primary are the signals asked for the      *)
(* engines, {} for automatic choice.                                       *)

Begin(cookie, mode, requested, primary) ==
    /\ start = NoStart /\ sessions < MaxSessions /\ sessions' = sessions + 1
    /\ start' = IF reserved # 0 /\ reserved \in primary
                THEN NoStart
                ELSE IF cookie
                THEN [pc |-> "reserve", mode |-> mode, requested |-> requested,
                      primary |-> primary, todo |-> {}, previous |-> "none"]
                ELSE EnginesOf(primary)
    /\ engine' = [m \in {0, 1} |-> 0]
    /\ UNCHANGED <<disp, installed, reserved, reservedMode, preferred, changes>>

(* cookieSignalAllowed.                                                    *)
Allowed(s) == s \in Pool(start.mode) /\ s \notin start.primary

(* The signal of an earlier capture is used again, if it still fits.       *)
ReuseReserved ==
    /\ start.pc = "reserve" /\ reserved # 0
    /\ start' = IF /\ start.mode = reservedMode
                   /\ start.requested \in {0, reserved}
                   /\ Allowed(reserved) /\ disp[reserved] = "cookie"
                THEN EnginesOf(start.primary) ELSE NoStart
    /\ UNCHANGED <<disp, installed, reserved, reservedMode, preferred, engine,
                   sessions, changes>>

(* Otherwise the candidates: the requested signal or the mode's pool.      *)
ListCandidates ==
    /\ start.pc = "reserve" /\ reserved = 0
    /\ start' = [start EXCEPT !.pc = "check",
                     !.todo = IF start.requested # 0 THEN {start.requested} ELSE Pool(start.mode)]
    /\ UNCHANGED <<disp, installed, reserved, reservedMode, preferred, engine,
                   sessions, changes>>

(* The next candidate is passed over unless it has the default action.     *)
Check ==
    /\ start.pc = "check" /\ start.todo # {}
    /\ LET s == Least(start.todo)
       IN  start' = IF Allowed(s) /\ disp[s] = "dfl"
                    THEN [start EXCEPT !.pc = "install"]
                    ELSE [start EXCEPT !.todo = @ \ {s}]
    /\ UNCHANGED <<disp, installed, reserved, reservedMode, preferred, engine,
                   sessions, changes>>

NoneFree ==
    /\ start.pc = "check" /\ start.todo = {}
    /\ start' = NoStart
    /\ UNCHANGED <<disp, installed, reserved, reservedMode, preferred, engine,
                   sessions, changes>>

(* sigaction: the handler goes in and the disposition it replaced is told; *)
(* if it fails the candidate is passed over.                               *)
Install ==
    /\ start.pc = "install"
    /\ LET s == Least(start.todo)
       IN  \/ /\ start' = [start EXCEPT !.pc = "confirm", !.previous = disp[s]]
              /\ disp' = [disp EXCEPT ![s] = "cookie"]
           \/ /\ start' = [start EXCEPT !.pc = "check", !.todo = @ \ {s}]
              /\ UNCHANGED disp
    /\ UNCHANGED <<installed, reserved, reservedMode, preferred, engine, sessions, changes>>

(* Faulty variant: what was replaced is not looked at.                     *)
ConfirmAlways ==
    /\ start.pc = "confirm"
    /\ installed' = [installed EXCEPT ![Least(start.todo)] = "cookie"]
    /\ reserved' = Least(start.todo) /\ reservedMode' = start.mode
    /\ start' = EnginesOf(start.primary)
    /\ UNCHANGED <<disp, preferred, engine, sessions, changes>>

(* If the application was quicker, its handler is put back and the search  *)
(* goes on; else the signal is reserved for good.                          *)
Confirm ==
    /\ start.pc = "confirm"
    /\ LET s == Least(start.todo)
       IN  \/ /\ start.previous # "dfl"
              /\ disp' = [disp EXCEPT ![s] = start.previous]
              /\ start' = [start EXCEPT !.pc = "check", !.todo = @ \ {s}]
              /\ UNCHANGED <<installed, reserved, reservedMode>>
           \/ /\ start.previous = "dfl"
              /\ installed' = [installed EXCEPT ![s] = "cookie"]
              /\ reserved' = s /\ reservedMode' = start.mode
              /\ start' = EnginesOf(start.primary)
              /\ UNCHANGED disp
    /\ UNCHANGED <<preferred, engine, sessions, changes>>

(* nextAllowedSignal.                                                      *)
NextAllowed(s) == (s % Cardinality(Signals)) + 1

(* Faulty variant: the cookie signal is not excepted.                      *)
UsableCookie(s, m) ==
    /\ s # preferred[1 - m]
    /\ disp[s] \in {"dfl", "ign"} \/ disp[s] = installed[s]

(* A signal that is neither the other engine's nor the cookie signal, and  *)
(* that nobody else handles.                                               *)
Usable(s, m) ==
    /\ s # preferred[1 - m] /\ s # reserved
    /\ disp[s] \in {"dfl", "ign"} \/ disp[s] = installed[s]

(* An engine starts, the wall clock engine (1) after the CPU engine (0) if *)
(* the session has both. It takes the signal it was asked to take, or goes *)
(* through the signals from the one it prefers.                            *)
StartEngine(m) ==
    /\ start.pc = "engine" /\ \A n \in m..1 : engine[n] = 0
    /\ start' = IF start.primary = {}
                THEN [pc |-> "choose", primary |-> {}, m |-> m, initial |-> preferred[m]]
                ELSE [pc |-> "handler", primary |-> start.primary, m |-> m,
                      signo |-> Least(start.primary), tested |-> "asked"]
    /\ UNCHANGED <<disp, installed, reserved, reservedMode, preferred, engine, sessions, changes>>

(* getProfilingSignal looks at the disposition of one signal after the     *)
(* other, preferred_signals being its loop variable, and comes back to the *)
(* first when there is none to use.                                        *)
TestSignal ==
    /\ start.pc = "choose"
    /\ LET m == start.m
           s == preferred[m]
           next == NextAllowed(s)
           Chosen(u, how) == [pc |-> "handler", primary |-> {}, m |-> m, signo |-> u, tested |-> how]
       IN  \/ /\ Usable(s, m)
              /\ start' = Chosen(s, disp[s])
              /\ UNCHANGED preferred
           \/ /\ ~Usable(s, m)
              /\ preferred' = [preferred EXCEPT ![m] = next]
              /\ start' = IF next = start.initial THEN Chosen(next, "fallback") ELSE start
    /\ UNCHANGED <<disp, installed, reserved, reservedMode, engine, sessions, changes>>

EngineName == [m \in {0, 1} |-> IF m = 0 THEN "cpu" ELSE "wall"]

(* installSignalHandler, whatever the signal's disposition is by then.     *)
InstallHandler ==
    /\ start.pc = "handler"
    /\ engine' = [engine EXCEPT ![start.m] = start.signo]
    /\ installed' = [installed EXCEPT ![start.signo] = EngineName[start.m]]
    /\ disp' = [disp EXCEPT ![start.signo] = EngineName[start.m]]
    /\ start' = EnginesOf(start.primary)
    /\ UNCHANGED <<reserved, reservedMode, preferred, sessions, changes>>

(* The session has its engines, and ends; handlers stay installed.         *)
Finish ==
    /\ start.pc = "engine"
    /\ start' = NoStart
    /\ UNCHANGED <<disp, installed, reserved, reservedMode, preferred, engine,
                   sessions, changes>>

Next ==
    \/ \E s \in Signals, d \in AppHandlers \cup {"dfl", "ign"} : AppSets(s, d)
    \/ \E mode \in Modes, requested \in {0} \cup Coalescing, p \in {{}} \cup {{s} : s \in Signals} :
          Begin(TRUE, mode, requested, p)
    \/ \E p \in {{}} \cup {{s} : s \in Signals} : Begin(FALSE, "queued", 0, p)
    \/ ReuseReserved \/ ListCandidates \/ Check \/ NoneFree \/ Install \/ Confirm
    \/ (\E m \in {0, 1} : StartEngine(m)) \/ TestSignal \/ InstallHandler \/ Finish

Spec == Init /\ [][Next]_vars

-----------------------------------------------------------------------------
(* Properties.                                                             *)

(* Every variable has the type of the C++ variable it stands for, and when *)
(* none is being chosen the two engines prefer different signals, as       *)
(* getProfilingSignal relies on.                                           *)
TypeOK ==
    /\ disp \in [Signals -> AppHandlers \cup {"dfl", "ign", "cookie", "cpu", "wall"}]
    /\ installed \in [Signals -> {"none", "cookie", "cpu", "wall"}]
    /\ reserved \in Signals \cup {0} /\ reservedMode \in Modes
    /\ preferred \in [{0, 1} -> Signals]
    /\ start.pc # "choose" => preferred[0] # preferred[1]
    /\ engine \in [{0, 1} -> Signals \cup {0}]

(* "Cookies use a signal of their own, which is never shared with CPU or   *)
(* wall-clock sampling": an engine takes over the reserved signal only if  *)
(* its search found every signal in use. It takes over a signal the        *)
(* application handles only then, or if it was asked to, or if the         *)
(* application put its handler in place after the search had looked, which *)
(* the code does not notice.                                               *)
SharesNoSignal ==
    \A m \in {0, 1} : engine'[m] \notin {engine[m], 0} =>
        /\ engine'[m] = reserved => start.tested = "fallback"
        /\ disp[engine'[m]] \in AppHandlers =>
              start.tested \in {"asked", "fallback"} \/ start.tested # disp[engine'[m]]

(* "The first capture in a process fixes the signal and the delivery mode",*)
(* whatever later captures ask for, and it reserves a signal with the      *)
(* default disposition from the pool of its mode: a handler the            *)
(* application installed since the check, or SIG_IGN, is replaced for a    *)
(* moment, then put back and the signal given up, before the start fails   *)
(* or goes on.                                                             *)
ReservesSoundly ==
    /\ reserved # 0 => reserved' = reserved /\ reservedMode' = reservedMode
    /\ reserved' # reserved =>
          /\ start.previous = "dfl" /\ reserved' \in Pool(reservedMode')
          /\ reserved' \notin start.primary
          /\ start.requested \in {0, reserved'}
    /\ start'.pc \in {"idle", "engine"} =>
          \A s \in Signals : disp'[s] = "cookie" => installed'[s] = "cookie"
=============================================================================
