------------------------------ MODULE Arguments ------------------------------
(***************************************************************************)
(* arguments.cpp: the parser of agent arguments, the file name patterns    *)
(* and the two encodings of a timeout, with addTimeout of profiler.cpp     *)
(* that decodes them.                                                      *)
(*                                                                         *)
(* An argument is [key, text, n, unit]: text is NULL when there is no '=', *)
(* n the number strtol or atoi reads at its start (NaN when there is none) *)
(* and unit the character after that number ("" at the end).               *)
(***************************************************************************)
EXTENDS Integers, Sequences, FiniteSets, SequencesExt

CONSTANTS
    OnLinux,        \* OS::isLinux()
    IntMax,         \* limits of int and long in this instance
    LongMax,
    NANOS, BYTES, SECONDS, UNIVERSAL,   \* the tables of multipliers
    DEFAULT_LOCK_INTERVAL, DEFAULT_ALLOC_INTERVAL, DEFAULT_PROC_INTERVAL,
    Undefined       \* the byte 0xff of a packed time

NULL == "null"
NaN == -1000

Long(x) == ((x + LongMax + 1) % (2 * (LongMax + 1))) - LongMax - 1
CInt(x) == ((x + IntMax + 1) % (2 * (IntMax + 1))) - IntMax - 1

lower(c) == CASE c = "K" -> "k" [] c = "M" -> "m" [] c = "G" -> "g" [] c = "S" -> "s"
              [] c = "N" -> "n" [] c = "U" -> "u" [] c = "B" -> "b" [] c = "H" -> "h"
              [] c = "D" -> "d" [] OTHER -> c

parseUnits(v, multipliers) ==
    CASE v.n = NaN -> -1
      [] v.n # NaN /\ v.unit = "" -> v.n
      [] v.n # NaN /\ lower(v.unit) \in DOMAIN multipliers -> Long(v.n * multipliers[lower(v.unit)])
      [] OTHER -> -1

atoi(v) == IF v.n = NaN THEN 0 ELSE CInt(v.n)

-----------------------------------------------------------------------------
(* A time of day hh:mm[:ss] is three bytes under 0xff000000. Here it is    *)
(* [clock, hh, mm, ss]; a plain number of seconds is [clock |-> FALSE, s]. *)

Field(text, max) == IF text \in 0..max THEN text ELSE Undefined

parseTimeout(v) ==
    IF v.time = <<>> THEN [clock |-> FALSE, s |-> CInt(parseUnits(v, SECONDS))]
    ELSE [clock |-> TRUE, hh |-> Field(v.time[1], 29), mm |-> Field(v.time[2], 59),
          ss |-> IF Len(v.time) > 2 THEN Field(v.time[3], 59) ELSE Undefined]

(* As an int the error -1 has all bits set, and so does a time without a   *)
(* defined field.                                                          *)
InvalidTimeout(t) == IF t.clock THEN t.hh = Undefined /\ t.mm = Undefined /\ t.ss = Undefined
                     ELSE t.s = -1

Never == -1
addTimeout(start, t, Hour, Minute, Hours) ==
    LET Day == Hour * Hours
        now == [hh |-> (start \div Hour) % Hours, mm |-> (start % Hour) \div Minute, ss |-> start % Minute]
        hh == IF t.hh < Hours THEN t.hh ELSE now.hh
        mm == IF t.mm < Hour \div Minute THEN t.mm ELSE now.mm
        ss == IF t.ss < Minute THEN t.ss ELSE now.ss
        mktime == Day * (start \div Day) + hh * Hour + mm * Minute + ss
        period == IF t.hh < Hours THEN Day ELSE IF t.mm < Hour \div Minute THEN Hour ELSE Minute
    IN CASE ~t.clock /\ t.s = 0 -> Never
         [] ~t.clock /\ t.s > 0 -> start + t.s
         [] t.clock -> IF mktime <= start THEN mktime + period ELSE mktime

(* The entries of ratelimit: category and limit, in the order given. The   *)
(* separator is any character up to ';', and an empty name or one that is  *)
(* no category ends the parse with what was stored so far.                 *)
Categories == {"cpu", "alloc", "lock", "wall", "nativemem", "nativelock", "trace", "span"}
parseRateLimit(limits, entries) ==
    LET Step(r, e) ==
            IF ~r.ok \/ ~e.colon \/ e.name \notin Categories \/ e.n \notin 0..IntMax \/ ~e.sep
            THEN [r EXCEPT !.ok = FALSE]
            ELSE [r EXCEPT !.limit[e.name] = e.n]
    IN FoldLeft(Step, [ok |-> TRUE, limit |-> limits], entries)

-----------------------------------------------------------------------------
(* The fields of Arguments that decide what runs. style, flags, features   *)
(* and jfr_options are sets of bits.                                       *)

DefaultArgs ==
    [action |-> "none", counter |-> "samples", event |-> NULL, trace |-> <<>>,
     timeout |-> [clock |-> FALSE, s |-> 0], loop |-> [clock |-> FALSE, s |-> 0],
     memlimit |-> 0, interval |-> 0, alloc |-> -1, nativemem |-> -1, lock |-> -1, nativelock |-> -1,
     wall |-> -1, proc |-> -1, jstackdepth |-> 2048, truncated |-> 2048, signal |-> <<0, 0>>,
     delivery |-> "queued", cookiesignal |-> 0, signalid |-> NULL, signalepoch |-> 0,
     file |-> NULL, log |-> NULL, loglevel |-> NULL, fdpath |-> NULL, filter |-> NULL,
     include |-> <<>>, exclude |-> <<>>, mcache |-> 0, target_cpu |-> -1, flags |-> {}, style |-> {},
     features |-> {}, cstack |-> "default", clock |-> "default", output |-> "none", rate |-> [c \in Categories |-> -1],
     chunksize |-> 100, chunktime |-> 3600, jfrsync |-> NULL, jfr_options |-> {}, dump_traces |-> 0,
     dump_flat |-> 0, begin |-> NULL, end |-> NULL, title |-> NULL, minwidth |-> 0, unknown |-> NULL]

JFR_SYNC_OPTS == {"NO_SYSTEM_INFO", "NO_SYSTEM_PROPS", "NO_NATIVE_LIBS", "NO_CPU_LOAD", "NO_HEAP_SUMMARY"}

(* A handler of an argument returns the new fields and a message or NULL.  *)
OK(args) == [args |-> args, msg |-> NULL]
Fail(args, msg) == [args |-> args, msg |-> msg]
Check(ok, args, msg) == IF ok THEN OK(args) ELSE Fail(args, msg)
Empty(v) == v.text \in {NULL, ""}

Actions == {"start", "resume", "stop", "dump", "status", "metrics", "list", "version"}
Outputs == {"collapsed", "flamegraph", "tree", "jfr", "otlp"}
Flags == {"tlab", "nofree", "quiet", "threads", "sched", "record-cpu", "live", "nobatch", "alluser",
          "nostop", "reverse", "inverted"}
Styles == {"simple", "dot", "norm", "sig", "ann", "lib"}

OutputOption(a, v) ==
    CASE v.key \in Outputs -> OK([a EXCEPT !.output = v.key])
      [] v.key = "jfropts" ->
           LET b == [a EXCEPT !.output = "jfr"]
           IN IF v.text = NULL THEN Fail(b, "Invalid jfropts")
              ELSE IF v.n # NaN THEN OK([b EXCEPT !.jfr_options = {"bits"}])
              ELSE IF v.text = "mem" THEN OK([b EXCEPT !.jfr_options = @ \cup {"IN_MEMORY"}]) ELSE OK(b)
      [] v.key = "jfrsync" ->
           OK([a EXCEPT !.output = "jfr", !.jfr_options = @ \cup JFR_SYNC_OPTS,
                        !.jfrsync = IF v.text = NULL THEN "default" ELSE v.text])
      [] v.key = "traces" -> OK([a EXCEPT !.output = "text",
                                          !.dump_traces = IF v.text = NULL THEN IntMax ELSE atoi(v)])
      [] v.key = "flat" -> OK([a EXCEPT !.output = "text",
                                        !.dump_flat = IF v.text = NULL THEN IntMax ELSE atoi(v)])

(* event=: the pseudo-events of other engines only set their interval.     *)
EventOption(a, v) ==
    CASE Empty(v) -> Fail(a, "event must not be empty")
      [] v.text = "alloc" -> OK(IF a.alloc < 0 THEN [a EXCEPT !.alloc = 0] ELSE a)
      [] v.text = "nativemem" -> OK(IF a.nativemem < 0 THEN [a EXCEPT !.nativemem = 0] ELSE a)
      [] v.text = "lock" -> OK(IF a.lock < 0 THEN [a EXCEPT !.lock = DEFAULT_LOCK_INTERVAL] ELSE a)
      [] v.text = "nativelock" ->
           OK(IF a.nativelock < 0 THEN [a EXCEPT !.nativelock = DEFAULT_LOCK_INTERVAL] ELSE a)
      [] OTHER -> IF a.event # NULL /\ "all" \notin a.flags THEN Fail(a, "Duplicate event argument")
                  ELSE OK([a EXCEPT !.event = v.text])

Unset(x, d) == IF x < 0 THEN d ELSE x
AllOption(a) ==
    OK([a EXCEPT !.flags = @ \cup {"all", "live"}, !.wall = Unset(@, 0), !.alloc = Unset(@, 0),
                 !.lock = Unset(@, DEFAULT_LOCK_INTERVAL), !.nativelock = Unset(@, DEFAULT_LOCK_INTERVAL),
                 !.nativemem = Unset(@, DEFAULT_ALLOC_INTERVAL),
                 !.proc = IF OnLinux THEN Unset(@, DEFAULT_PROC_INTERVAL) ELSE @,
                 !.event = IF @ = NULL /\ OnLinux THEN "cpu" ELSE @])

IntervalOption(a, v) ==
    LET Or(d, table) == IF v.text = NULL THEN d ELSE parseUnits(v, table)
    IN CASE v.key = "memlimit" -> OK([a EXCEPT !.memlimit = Or(0, BYTES)])
         [] v.key = "alloc" -> OK([a EXCEPT !.alloc = Or(0, BYTES)])
         [] v.key = "nativemem" -> OK([a EXCEPT !.nativemem = Or(0, BYTES)])
         [] v.key = "lock" -> OK([a EXCEPT !.lock = Or(DEFAULT_LOCK_INTERVAL, NANOS)])
         [] v.key = "nativelock" -> OK([a EXCEPT !.nativelock = Or(DEFAULT_LOCK_INTERVAL, NANOS)])
         [] v.key = "wall" -> OK([a EXCEPT !.wall = Or(0, NANOS)])
         [] v.key = "proc" -> OK([a EXCEPT !.proc = Or(DEFAULT_PROC_INTERVAL, SECONDS)])
         [] v.key = "cpu" -> IF a.event # NULL THEN Fail(a, "Duplicate event argument")
                             ELSE OK([a EXCEPT !.event = "cpu"])
         [] v.key = "interval" ->
              IF v.text = NULL THEN Fail(a, "Invalid interval")
              ELSE LET n == parseUnits(v, UNIVERSAL) IN Check(n > 0, [a EXCEPT !.interval = n], "Invalid interval")
         [] v.key = "trace" -> OK([a EXCEPT !.trace = Append(@, v.text)])

LimitOption(a, v) ==
    CASE v.key = "ratelimit" ->
           IF v.text = NULL THEN Fail(a, "Invalid ratelimit")
           ELSE LET r == parseRateLimit(a.rate, v.entries) IN Check(r.ok, [a EXCEPT !.rate = r.limit], "Invalid ratelimit")
      [] v.key \in {"chunksize", "chunktime"} ->
           IF v.text = NULL THEN Fail(a, "Invalid chunk")
           ELSE LET n == parseUnits(v, IF v.key = "chunksize" THEN BYTES ELSE SECONDS)
                IN Check(n >= 0, [a EXCEPT ![v.key] = n], "Invalid chunk")
      [] v.key \in {"timeout", "loop"} ->
           IF v.text = NULL THEN Fail(a, "Invalid timeout")
           ELSE LET t == parseTimeout(v) IN Check(~InvalidTimeout(t), [a EXCEPT ![v.key] = t], "Invalid timeout")
      [] v.key = "jstackdepth" ->
           IF v.text = NULL \/ atoi(v) <= 0 THEN Fail(a, "jstackdepth must be > 0")
           ELSE OK([a EXCEPT !.jstackdepth = atoi(v), !.truncated = IF v.unit = "/" THEN v.second ELSE atoi(v)])

SignalOption(a, v) ==
    CASE v.key = "signal" ->
           IF v.text = NULL \/ atoi(v) <= 0 THEN Fail(a, "signal must be > 0")
           ELSE OK([a EXCEPT !.signal = <<atoi(v), IF v.unit = "/" THEN v.second ELSE 0>>])
      [] v.key = "signalcookie" ->
           LET b == [a EXCEPT !.flags = @ \cup {"signalcookie"}]
           IN IF v.text \in {NULL, "queued"} THEN OK([b EXCEPT !.delivery = "queued"])
              ELSE IF v.text = "coalescing" THEN OK([b EXCEPT !.delivery = "coalescing"])
              ELSE Fail(b, "signalcookie must be queued or coalescing")
      [] v.key = "cookiesignal" ->
           IF Empty(v) THEN Fail(a, "cookiesignal must not be empty")
           ELSE IF v.text = "auto" THEN OK([a EXCEPT !.cookiesignal = 0])
           ELSE IF v.n = NaN \/ v.unit # "" \/ v.n \notin 1..255
                THEN Fail(a, "cookiesignal must be a positive signal number")
                ELSE OK([a EXCEPT !.cookiesignal = v.n])
      [] v.key = "signalid" -> Check(~Empty(v), [a EXCEPT !.signalid = v.text], "signalid must not be empty")
      [] v.key = "signalepoch" ->
           IF Empty(v) THEN Fail(a, "signalepoch must not be empty")
           ELSE IF v.n = NaN \/ v.unit # "" \/ v.n = 0 THEN Fail(a, "signalepoch must be an unsigned 32-bit value")
           ELSE OK([a EXCEPT !.signalepoch = v.n])

TextOption(a, v) ==
    CASE v.key = "features" -> OK(IF v.text = NULL THEN a ELSE [a EXCEPT !.features = @ \cup {v.text}])
      [] v.key = "file" -> Check(~Empty(v), [a EXCEPT !.file = v.text], "file must not be empty")
      [] v.key = "log" -> OK([a EXCEPT !.log = IF Empty(v) THEN NULL ELSE v.text])
      [] v.key = "loglevel" -> Check(~Empty(v), [a EXCEPT !.loglevel = v.text], "loglevel must not be empty")
      [] v.key = "fdtransfer" -> Check(~Empty(v), [a EXCEPT !.flags = @ \cup {"fdtransfer"}, !.fdpath = v.text],
                                       "fdtransfer path must not be empty")
      [] v.key = "filter" -> OK([a EXCEPT !.filter = IF v.text = NULL THEN "" ELSE v.text])
      [] v.key \in {"include", "exclude"} -> OK([a EXCEPT ![v.key] = Append(@, v.text)])
      [] v.key = "cstack" -> OK(CASE v.text = NULL -> a
                                  [] v.text \in {"fp", "dwarf", "vm"} -> [a EXCEPT !.cstack = v.text]
                                  [] v.text = "vmx" -> [a EXCEPT !.cstack = "vm", !.features = @ \cup {"mixed"}]
                                  [] OTHER -> [a EXCEPT !.cstack = "no"])
      [] v.key = "clock" -> OK(IF v.text \in {"tsc", "monotonic"} THEN [a EXCEPT !.clock = v.text] ELSE a)
      [] v.key = "target-cpu" ->
           OK([a EXCEPT !.target_cpu = IF v.text = NULL \/ atoi(v) < 0 THEN -1 ELSE atoi(v)])
      [] v.key = "mcache" -> OK([a EXCEPT !.mcache = IF v.text = NULL THEN 1 ELSE atoi(v) % 256])
      [] v.key \in {"begin", "end", "title"} -> OK([a EXCEPT ![v.key] = v.text])
      [] v.key = "minwidth" -> OK(IF v.text = NULL THEN a ELSE [a EXCEPT !.minwidth = atoi(v)])
      [] v.key = "ttsp" -> Check(a.begin = NULL /\ a.end = NULL,
                                 [a EXCEPT !.begin = "SafepointSynchronize::begin",
                                           !.end = "RuntimeService::record_safepoint_synchronized"],
                                 "begin and end must both be empty when ttsp is set")

Apply(a, v) ==
    CASE v.key \in Actions -> OK([a EXCEPT !.action = v.key])
      [] v.key \in Outputs \cup {"jfropts", "jfrsync", "traces", "flat"} -> OutputOption(a, v)
      [] v.key \in {"samples", "total"} -> OK([a EXCEPT !.counter = v.key])
      [] v.key = "event" -> EventOption(a, v)
      [] v.key = "all" -> AllOption(a)
      [] v.key \in {"memlimit", "alloc", "nativemem", "lock", "nativelock", "wall", "proc", "cpu", "interval",
                    "trace"} -> IntervalOption(a, v)
      [] v.key \in {"ratelimit", "chunksize", "chunktime", "timeout", "loop", "jstackdepth"} -> LimitOption(a, v)
      [] v.key \in {"signal", "signalcookie", "cookiesignal", "signalid", "signalepoch"} -> SignalOption(a, v)
      [] v.key \in Flags -> OK([a EXCEPT !.flags = @ \cup {v.key}])
      [] v.key \in Styles -> OK([a EXCEPT !.style = @ \cup {v.key}])
      [] v.key \in {"features", "file", "log", "loglevel", "fdtransfer", "filter", "include", "exclude", "cstack",
                    "clock", "target-cpu", "mcache", "begin", "end", "title", "minwidth", "ttsp"} -> TextOption(a, v)
      [] OTHER -> OK(IF a.unknown = NULL THEN [a EXCEPT !.unknown = v.key] ELSE a)

-----------------------------------------------------------------------------
(* After the last argument: the default event, the output format and the   *)
(* action. An error is reported only here, when log is already set.        *)

detectOutputFormat(file) ==
    CASE file = "http" -> "otlp" [] file = ".html" -> "flamegraph" [] file = ".jfr" -> "jfr"
      [] file \in {".collapsed", ".folded"} -> "collapsed" [] OTHER -> "text"

Complete(a) ==
    LET b == IF /\ a.event = NULL /\ a.trace = <<>>
                /\ \A e \in {"alloc", "lock", "wall", "nativemem", "nativelock"} : a[e] < 0
             THEN [a EXCEPT !.event = "cpu"] ELSE a
        c == IF b.file # NULL /\ b.output = "none"
             THEN [b EXCEPT !.output = detectOutputFormat(b.file), !.dump_traces = 100, !.dump_flat = 200] ELSE b
    IN IF c.action = "none" /\ c.output # "none" THEN [c EXCEPT !.action = "dump"] ELSE c

parse(vs) ==
    LET Step(r, v) == LET s == Apply(r.args, v) IN [s EXCEPT !.msg = IF @ = NULL THEN r.msg ELSE @]
        end == FoldLeft(Step, OK(DefaultArgs), vs)
    IN IF end.msg # NULL THEN end ELSE OK(Complete(end.args))

eventMask(a) ==
    (IF a.event # NULL /\ ~("signalcookie" \in a.flags /\ a.event = "signal") THEN {"cpu"} ELSE {})
    \cup {e \in {"alloc", "lock", "wall", "nativemem", "nativelock"} : a[e] >= 0}
    \cup (IF a.trace # <<>> THEN {"trace"} ELSE {})

hasOutputFile(a) ==
    /\ a.file # NULL
    /\ IF a.action \in {"stop", "dump"} THEN a.output # "jfr"
       ELSE a.action \in {"status", "metrics", "list", "version"}

-----------------------------------------------------------------------------
(* expandFilePattern writes into the Size bytes before the copy of the     *)
(* arguments. A pattern is a sequence of characters and of escapes         *)
(* [esc, len]: len is the length of what the escape expands to. snprintf   *)
(* stores what fits in end - ptr, less a terminating zero, and returns the *)
(* full length. written is the highest offset stored to.                   *)

expandFilePattern(pattern, Size) ==
    LET end == Size - 1
        Step(s, p) ==
            IF s.ptr >= end \/ s.stop THEN [s EXCEPT !.stop = TRUE]
            ELSE CASE p.kind = "expand" ->
                        [s EXCEPT !.ptr = @ + p.len, !.written = IF s.ptr + p.len < end THEN s.ptr + p.len ELSE end - 1]
                   [] p.kind = "keep" -> [s EXCEPT !.ptr = @ + 2, !.written = s.ptr + 1]
                   [] p.kind = "char" -> [s EXCEPT !.ptr = @ + 1, !.written = s.ptr]
        last == FoldLeft(Step, [ptr |-> 0, written |-> -1, stop |-> FALSE], pattern)
        zero == IF last.ptr < end THEN last.ptr ELSE end
    IN [written |-> IF last.written > zero THEN last.written ELSE zero, length |-> zero, ptr |-> last.ptr]

(* save keeps one copy of the arguments for the next restart: the buffer   *)
(* of the previous one is freed, that of this one is shared.               *)
save(global, this) ==
    IF this.buf = global.buf THEN [global |-> global, this |-> this, freed |-> {}]
    ELSE [global |-> this, this |-> [this EXCEPT !.shared = TRUE], freed |-> {global.buf} \ {NULL}]
=============================================================================
