------------------------------- MODULE Launcher -------------------------------
(***************************************************************************)
(* main/main.cpp: the asprof commands, each of which sends one or two      *)
(* agent commands to the target with jattach, prints the files the agent   *)
(* wrote for it and removes them. The agent in the target, which runs one  *)
(* profile at a time, is external here (see ProfilerSession), and so is    *)
(* the outcome of jattach (see HotspotAttach, OpenJ9Attach).               *)
(***************************************************************************)
EXTENDS Integers, FiniteSets

CONSTANTS
    Launchers,
    Actions,          \* a subset of {"collect", "start", "stop"}
    NoOne

VARIABLES
    action, use_tmp_file,   \* launcher -> its arguments; fixed
    alive,            \* the target process
    profile,          \* the launcher whose start began the running profile, or NoOne
    files,            \* <<"log" or "out", launcher>>: in /tmp
    l,                \* launcher -> [at, end_time, sigint, sigterm, exit]
    printed,          \* history: launchers that ended with the result of a stop
    caught            \* history: launchers whose handler has run

vars == <<action, use_tmp_file, alive, profile, files, l, printed, caught>>

Killed == 130

Init ==
    /\ action \in [Launchers -> Actions] /\ use_tmp_file \in [Launchers -> BOOLEAN]
    /\ alive = TRUE /\ profile = NoOne /\ files = {}
    /\ l = [k \in Launchers |-> [at |-> "fdtransfer", end_time |-> "unset", sigint |-> "default", sigterm |-> "default", exit |-> 0]]
    /\ printed = {} /\ caught = {}

Exit(k, code) == [l EXCEPT ![k].at = "exit", ![k].exit = code]

-----------------------------------------------------------------------------
(* run_fdtransfer: its child may fail, which ends the command.             *)
run_fdtransfer(k) ==
    /\ l[k].at = "fdtransfer"
    /\ \/ l' = [l EXCEPT ![k].at = IF action[k] = "stop" THEN "stop" ELSE "start"]
       \/ action[k] # "stop" /\ l' = Exit(k, 1)
    /\ UNCHANGED <<action, use_tmp_file, alive, profile, files, printed, caught>>

(* The child of run_jattach: the target may be gone or not to be attached  *)
(* to; else the agent carries the command out or refuses it, and its log   *)
(* goes to the log file of the launcher.                                   *)
JattachStart(k) ==
    /\ l[k].at = "start"
    /\ \/ l' = [l EXCEPT ![k].at = "started", ![k].exit = 1] /\ UNCHANGED <<profile, files>>
       \/ /\ alive /\ \E log \in BOOLEAN : files' = IF log THEN files \cup {<<"log", k>>} ELSE files
          /\ IF profile = NoOne
             THEN profile' = k /\ l' = [l EXCEPT ![k].at = "started"]
             ELSE l' = [l EXCEPT ![k].at = "started", ![k].exit = 100] /\ profile' = profile
    /\ UNCHANGED <<action, use_tmp_file, alive, printed, caught>>

JattachStop(k) ==
    /\ l[k].at = "stop"
    /\ \/ l' = [l EXCEPT ![k].at = "stopped", ![k].exit = 1] /\ UNCHANGED <<profile, files>>
       \/ /\ alive /\ profile # NoOne /\ profile' = NoOne
          /\ \E log \in BOOLEAN : files' = files \cup {<<"out", k>>} \cup IF log THEN {<<"log", k>>} ELSE {}
          /\ l' = [l EXCEPT ![k].at = "stopped"]
       \/ /\ alive /\ profile = NoOne /\ profile' = profile
          /\ files' = files \cup {<<"log", k>>}
          /\ l' = [l EXCEPT ![k].at = "stopped", ![k].exit = 100]
    /\ UNCHANGED <<action, use_tmp_file, alive, printed, caught>>

(* The parent of run_jattach. print_file removes what it has printed; the  *)
(* result stays when it was asked for under a name of its own.             *)
PrintedFiles(k, failed) ==
    {<<"log", k>>} \cup IF use_tmp_file[k] /\ ~failed THEN {<<"out", k>>} ELSE {}

(* The signal is caught only after the end time has been set: a signal     *)
(* that came between the two in the other order would be overwritten.      *)
AfterStart(k) ==
    /\ l[k].at = "started"
    /\ files' = files \ PrintedFiles(k, l[k].exit # 0)
    /\ l' = IF l[k].exit # 0 THEN Exit(k, l[k].exit)
            ELSE IF action[k] = "start" THEN Exit(k, 0)
            ELSE [l EXCEPT ![k].at = "set"]
    /\ UNCHANGED <<action, use_tmp_file, alive, profile, printed, caught>>


SetEndAndCatch(k) ==
    /\ \/ l[k].at = "set" /\ l' = [l EXCEPT ![k].at = "catch", ![k].end_time = "ahead"]
       \/ l[k].at = "catch" /\ l' = [l EXCEPT ![k].at = "wait", ![k].sigint = "caught", ![k].sigterm = "caught"]
    /\ UNCHANGED <<action, use_tmp_file, alive, profile, files, printed, caught>>

(* The end of a loop of sleeps of one second: the time is over (or was set *)
(* to 0 by the handler), or the target has gone.                           *)
WaitEnds(k) ==
    /\ l[k].at = "wait"
    /\ \/ l[k].end_time # "ahead" /\ l' = [l EXCEPT ![k].at = "stop", ![k].sigint = "default"] /\ files' = files
       \/ /\ ~alive /\ l' = Exit(k, 0)
          /\ files' = IF use_tmp_file[k] THEN files \ {<<"out", k>>} ELSE files
    /\ UNCHANGED <<action, use_tmp_file, alive, profile, printed, caught>>

TimePasses(k) ==
    /\ l[k].at = "wait" /\ l[k].end_time = "ahead"
    /\ l' = [l EXCEPT ![k].end_time = "over"]
    /\ UNCHANGED <<action, use_tmp_file, alive, profile, files, printed, caught>>

AfterStop(k) ==
    /\ l[k].at = "stopped"
    /\ files' = files \ PrintedFiles(k, l[k].exit # 0)
    /\ l' = Exit(k, l[k].exit)
    /\ printed' = IF l[k].exit = 0 THEN printed \cup {k} ELSE printed
    /\ UNCHANGED <<action, use_tmp_file, alive, profile, caught>>

(* sigint_handler, or the default action. SIGTERM is caught to the end.    *)
Interrupt(k) ==
    /\ l[k].at # "exit"
    /\ \E disposition \in {l[k].sigint, l[k].sigterm} :
          IF disposition = "caught"
          THEN l' = [l EXCEPT ![k].end_time = "zero"] /\ caught' = caught \cup {k}
          ELSE l' = Exit(k, Killed) /\ caught' = caught
    /\ UNCHANGED <<action, use_tmp_file, alive, profile, files, printed>>

(* A target that exits in order writes the result of its profile first.    *)
TargetExits ==
    /\ alive /\ alive' = FALSE /\ profile' = NoOne
    /\ \E orderly \in BOOLEAN :
          files' = IF orderly /\ profile # NoOne THEN files \cup {<<"out", profile>>} ELSE files
    /\ UNCHANGED <<action, use_tmp_file, l, printed, caught>>

Next ==
    \/ \E k \in Launchers :
          \/ run_fdtransfer(k) \/ JattachStart(k) \/ AfterStart(k) \/ SetEndAndCatch(k) \/ TimePasses(k)
          \/ WaitEnds(k) \/ JattachStop(k) \/ AfterStop(k) \/ Interrupt(k)
    \/ TargetExits

Spec == Init /\ [][Next]_vars

-----------------------------------------------------------------------------
TypeOK ==
    /\ profile \in Launchers \cup {NoOne} /\ files \subseteq {"log", "out"} \X Launchers
    /\ \A k \in Launchers : l[k].end_time \in {"unset", "ahead", "over", "zero"} /\ l[k].exit \in {0, 1, 100, Killed}

Ended(k, code) == l[k].at = "exit" /\ l[k].exit = code

(* A collect or a stop that exits with 0 leaves nothing behind: its own    *)
(* profile is over, it has printed a result unless the target has gone,    *)
(* and no temporary file of it remains. No command but a killed one leaves *)
(* a log file. And an interrupt that was caught ends the wait: nothing     *)
(* overwrites the time the handler has set.                                *)
LauncherSound ==
    /\ \A k \in Launchers : Ended(k, 0) /\ action[k] # "start" =>
          /\ profile # k /\ (alive => k \in printed)
          /\ use_tmp_file[k] => <<"out", k>> \notin files
    /\ \A k \in Launchers : l[k].at = "exit" /\ ~Ended(k, Killed) => <<"log", k>> \notin files
    /\ \A k \in caught : l[k].at # "exit" => l[k].end_time = "zero"
=============================================================================
