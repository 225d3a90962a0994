---------------------------- MODULE MCAlgorithms ----------------------------
(***************************************************************************)
(* The pure algorithms, for TLC: a behaviour is given one input of one of  *)
(* them, `job`, and computes what the code makes of it, `out`. The         *)
(* invariants compare that with a reference.                               *)
(***************************************************************************)
EXTENDS Integers, Sequences, FiniteSets, SequencesExt, FiniteSetsExt, TLC

VARIABLES job, out

Demangler == INSTANCE RustDemangle WITH
    SizeMax <- 100000, SmallPunycodeLen <- 4, MaxNibbles <- 3, MaxDepth <- 4, Margin <- 4,
    FirstSize <- 8, SizeLimit <- 100
Rewriter == INSTANCE ClassRewriter WITH
    W <- 65536, Byte <- 8, JumpMax <- 14, SameMax <- 5, MaxCode <- 46,
    ProfilerPackage <- <<"b", "/">>, NO_LATENCY <- -1
Units == [c \in {"k", "m", "s", "u"} |-> 4]
Args == INSTANCE Arguments WITH
    OnLinux <- TRUE, IntMax <- 127, LongMax <- 32767, NANOS <- Units, BYTES <- Units,
    SECONDS <- Units, UNIVERSAL <- Units, DEFAULT_LOCK_INTERVAL <- 10,
    DEFAULT_ALLOC_INTERVAL <- 11, DEFAULT_PROC_INTERVAL <- 30, Undefined <- 255
Unwinder == INSTANCE NativeWalk WITH
    Slot <- 2, PltExpression <- 11, MAX_FRAME_SIZE <- 8, StackSize <- 100,
    LibName <- "lib", ImportTypes <- 2, Page <- 4
Jfr == INSTANCE JfrEncoding WITH MAX_STRING_LENGTH <- 140, MAX_USER_DATA <- 132

Graph == INSTANCE FlameGraph WITH SignedChar <- FALSE, Space <- 121, MaxPrefix <- 6, Quote <- 123, Backslash <- 125
SignedGraph == INSTANCE FlameGraph WITH SignedChar <- TRUE, Space <- 121, MaxPrefix <- 6, Quote <- 123, Backslash <- 125

Protobuf == INSTANCE Otlp WITH
    NestedBytes <- 5, EngineType <- <<67>>, EngineUnits <- <<85>>, Count <- <<99>>,
    ThreadName <- <<116>>, ServiceName <- <<115, 46, 110>>, StartNanos <- <<1, 0, 0, 200, 0, 0, 0, 1>>, Duration <- 300,
    Period <- 0, MaxValue <- 6, null <- <<-1>>

Computed == out # <<>>
result == out[1]
Upto(n, S) == UNION {[1..k -> S] : k \in 0..n}

-----------------------------------------------------------------------------
(* Symbols of the beginnings below and up to three pieces: identifiers,    *)
(* back references, generic arguments, lifetimes, constants, types and     *)
(* truncated ones; symbols of the legacy form with escapes and a hash; and *)
(* strings of bytes at the limits of UTF-8.                                *)
Starts == {<<"C", "1", "a">>, <<"N", "v", "C", "1", "a">>, <<"I", "C", "1", "a">>, <<"M", "C", "1", "a">>, <<"Y">>}
Pieces ==
    {<<"1", "b">>, <<"s", "_", "1", "b">>, <<"u", "2", "f", "v">>, <<"B", "_">>, <<"B", "0", "_">>,
     <<"E">>, <<"L", "_">>, <<"L", "0", "_">>, <<"K", "h", "1", "_">>, <<"K", "B", "_">>, <<"K", "e", "4", "1", "_">>,
     <<"u">>, <<"p", "1", "b">>, <<".", "x">>, <<"K", "V">>}
Nesting == {<<"N", "C">>, <<"R">>, <<"T">>, <<"I", "C", "1", "c">>}
Binders == {<<"D">>, <<"F", "G", "_">>}
LegacyPieces ==
    {<<"1", "a">>, <<"4", "$", "L", "T", "$">>, <<"3", ".", ".", "b">>, <<"5", "$", "u", "7", "e", "$">>, <<"2", "$", "x">>,
     <<"9", "a">>, <<"3", "h", "0", "a">>, <<"E">>, <<"E", ".", "x">>}
Symbols == {<<"_", "R">> \o s \o FlattenSeq(q) : s \in Starts, q \in Upto(3, Pieces \cup Nesting)}
           \cup {<<"_", "R">> \o s \o b \o FlattenSeq(q) : s \in Starts, b \in Binders, q \in Upto(2, Pieces)}
           \cup {<<"_", "Z", "N">> \o FlattenSeq(q) : q \in Upto(4, LegacyPieces)}
LimitBytes == {65, 128, 143, 159, 160, 191, 193, 194, 224, 237, 240, 244}

Buffer == 300   \* one that every text of these fits in
Demangled(r) ==
    [res |-> r,
     shown |-> [alternate \in BOOLEAN |-> Demangler!rust_demangle_display_demangle(r, Buffer, alternate)],
     fitted |-> Demangler!demangleRust(r, TRUE),
     parsed |-> IF r.style = "v0" THEN Demangler!try_parse_path(Demangler!Parser(r.mangled, FALSE, 0, FALSE)).next
                ELSE 0]
Demangle(symbol) == Demangled(Demangler!rust_demangle_demangle(symbol))

Nibble(n) == Demangler!Chars62[n + 1]
Nibbles(bytes) == FlattenSeq([i \in DOMAIN bytes |-> <<Nibble(bytes[i] \div 16), Nibble(bytes[i] % 16)>>])

(* The strings that are encodings of code points, one after another.       *)
CodePoint(bytes) ==
    LET lead == bytes[1] % (IF Len(bytes) = 1 THEN 128 ELSE 2 ^ (7 - Len(bytes)))
    IN FoldLeft(LAMBDA x, b : x * 64 + (b % 64), lead, Tail(bytes))
RECURSIVE WellFormed(_)
WellFormed(bytes) ==
    bytes = <<>> \/ \E n \in 1..Min({4, Len(bytes)}) :
        LET first == SubSeq(bytes, 1, n)
        IN /\ Demangler!validate_char(CodePoint(first))
           /\ Demangler!code_to_utf8(CodePoint(first)) = first
           /\ WellFormed(SubSeq(bytes, n + 1, Len(bytes)))

Count(text, S) == Len(SelectSeq(text, LAMBDA c : c \in S))

(* The demangler never writes past its buffer; what it prints in the       *)
(* growing buffers of Demangle::demangleRust is what it prints in a large  *)
(* one, and the short form of a legacy symbol is the beginning of the long *)
(* one. For a symbol that the validation pass accepted, the pass that      *)
(* prints ends where that one ended, with no level or binder left open and *)
(* its brackets matched. And of the bytes of a string constant exactly the *)
(* well-formed UTF-8 is printed as text.                                   *)
DemangleSound ==
    Computed =>
      /\ job.part = "demangle" =>
           LET full == result.shown[FALSE]
           IN /\ ~full.ovf
              /\ result.fitted.ok => result.fitted.text = full.text
              /\ result.res.style = "legacy" /\ result.res.suffix = <<>> => IsPrefix(result.shown[TRUE].text, full.text)
              /\ result.res.style = "v0" =>
                   /\ full.blt = 0
                   /\ full.st = "ok" => full.depth = 0 /\ full.next = result.parsed
                   /\ full.st = "ok" /\ {"{error}", "{invalid}"} \cap ToSet(full.text) = {} =>
                        Count(full.text, {"<", "for<"}) = Count(full.text, {">", "> "})
      /\ job.part = "utf8" => (result.ok <=> WellFormed(job.in))

-----------------------------------------------------------------------------
(* Methods of three instructions, with and without a latency, and with the *)
(* tables below; and classes of two methods with targets as they are given *)
(* on the command line.                                                    *)
I(op, idx, to) == [op |-> op, idx |-> idx, to |-> to]
Instrs ==
    {I("plain", 0, <<>>), I("return", 0, <<>>), I("new", 0, <<>>), I("load_n", 1, <<>>), I("load_n", 2, <<>>),
     I("load", 5, <<>>), I("wide", 9, <<>>)}
    \cup {I(op, 0, <<t>>) : op \in {"goto", "goto_w"}, t \in 1..3} \cup {I("tableswitch", 0, <<t, 1>>) : t \in 1..3}
Frame(at, kind, locals) == [at |-> at, kind |-> kind, locals |-> locals, uninitialized |-> at]
FrameTables ==
    {<<Frame(2, "same", <<>>), Frame(3, "stack item", <<>>)>>, <<Frame(3, "full", <<"1", "2">>)>>, <<Frame(1, "chop", <<>>)>>}
Body(code, frames) ==
    [code |-> code, frames |-> frames, ranges |-> <<<<1, 3, 3>>, <<2, 4, 1>>>>, lines |-> <<1, 3>>,
     locals |-> <<[from |-> 1, to |-> 4, idx |-> 1], [from |-> 2, to |-> 3, idx |-> 2]>>]
Methods == {Body(c, f) @@ [start |-> s] : c \in [1..3 -> Instrs], f \in FrameTables, s \in {-1, 1, 2}}

(* The new address of the k-th instruction as a jump must see it: before   *)
(* the call of recordExit when it is a return.                             *)
ItemOf(r, k) == CHOOSE j \in DOMAIN r.dst : r.dst[j].src = k
Entry(m, r, k) ==
    LET end == Rewriter!Pcs(m.code)[4]
    IN IF k = 4 THEN end + r.reloc[end]
       ELSE r.dst[ItemOf(r, k) - (IF m.code[k].op = "return" /\ m.start >= 0 THEN 1 ELSE 0)].at
Indexed == {"load_n", "load", "wide"}

CodeSound(m, r) ==
    \A k \in 1..3 :
        LET new == r.dst[ItemOf(r, k)]
            old == m.code[k]
        IN /\ new.to = [t \in DOMAIN old.to |-> Entry(m, r, old.to[t])]
           /\ Rewriter!instructionBytes(old, new.at) = Rewriter!instructionBytes(old, Rewriter!Pcs(m.code)[k])
           /\ old.op = "return" /\ m.start >= 0 => r.dst[ItemOf(r, k) - 1].op = "recordExit"
           /\ new.idx = IF old.op \in Indexed /\ m.start \in 0..old.idx THEN old.idx + 2 ELSE old.idx

FramesSound(m, r) ==
    LET added == Len(r.frames) - Len(m.frames)
        at[i \in 0..Len(r.frames)] == IF i = 0 THEN -1 ELSE at[i - 1] + r.frames[i].delta + 1
    IN \A i \in DOMAIN m.frames :
           /\ at[i + added] = Entry(m, r, m.frames[i].at)
           /\ r.frames[i + added].uninitialized = Entry(m, r, m.frames[i].at)
           /\ r.frames[i + added].kind \in {"same", "stack item"} => r.frames[i + added].delta <= 5

TablesSound(m, r) ==
    /\ \A i \in DOMAIN m.ranges : r.ranges[i] = [x \in 1..3 |-> Entry(m, r, m.ranges[i][x])]
    /\ \A i \in DOMAIN m.lines : r.lines[i] = Entry(m, r, m.lines[i])
    /\ \A i \in DOMAIN m.locals :
           LET v == m.locals[i]
           IN /\ r.locals[i].from = Entry(m, r, v.from)
              /\ r.locals[i].from + r.locals[i].length = Entry(m, r, v.to)
              /\ r.locals[i].idx = IF m.start \in 0..v.idx THEN v.idx + 2 ELSE v.idx

Target(text, units) == [text |-> text, units |-> units]
TargetArgs ==
    {Target(c \o <<".">> \o m, -1) : c \in {<<"a">>, <<"a", ".", "A">>, <<"a", "*">>, <<"*">>},
                                     m \in {<<"*">>, <<"a">>, <<"a", "*">>, <<"a", "(", "J", ")", "V">>}}
    \cup {Target(<<"a", ".", "b", ":">>, 7), Target(<<"*", ".", "a", ":">>, 7), Target(<<"a", ".", "*", ":">>, 9),
          Target(<<"a", ".", "b", ":">>, -1), Target(<<"a">>, -1)}
Method(name, desc, native) ==
    [name |-> name, desc |-> desc, native |-> native, static |-> FALSE,
     body |-> Body(<<I("load_n", 1, <<>>), I("plain", 0, <<>>), I("return", 0, <<>>)>>, <<>>)]
Classes ==
    {[name |-> n, methods |-> <<Method(<<"a">>, d, FALSE), Method(<<"b">>, <<"(", ")", "V">>, native)>>] :
        n \in {<<"a">>, <<"a", "/", "A">>, <<"b", "/", "a">>}, native \in BOOLEAN,
        d \in {<<"(", ")", "V">>, <<"(", "J", ")", "V">>, <<"(", "I", "J", ")", "V">>}}
ClassJobs == {[class |-> c, args |-> a, default |-> d] : c \in Classes, a \in Upto(2, TargetArgs), d \in {-1, 0, 5}}

RewriteJob(j) ==
    LET targets == FoldLeft(LAMBDA t, a : Rewriter!addTarget(t, a.text, a.units, j.default).targets, {}, j.args)
    IN [targets |-> Rewriter!findMethodTargets(targets, j.class.name), all |-> targets,
        new |-> Rewriter!rewrite(j.class, targets)]

Matches(t, m) == Rewriter!matchesPattern(m.name \o m.desc, t.method) \/ m.name = t.method
Between(t, u, m) == Rewriter!AtMost(m.name \o m.desc, u.method) /\ Rewriter!Less(u.method, t.method)
Constant(n, targets, i) == Rewriter!PoolAt(n, targets, i)
Invoked(n, targets, i) ==
    LET m == Constant(n, targets, i)
        sig == Constant(n, targets, m.b)
    IN <<Constant(n, targets, Constant(n, targets, m.a).a).value, Constant(n, targets, sig.a).value,
         Constant(n, targets, sig.b).value>>

ClassSound(j, r) ==
    /\ IsPrefix(<<"b", "/">>, j.class.name) => r.new = <<>>
    /\ r.new # <<>> =>
         /\ \A i \in DOMAIN j.class.methods :
                LET m == j.class.methods[i]
                    fits == {t \in r.targets : Matches(t, m)}
                IN IF r.new[1].methods[i].kept
                   THEN m.native \/ \A t \in fits : Last(t.method) = "*" /\ \E u \in r.targets : Between(t, u, m)
                   ELSE \E t \in fits :
                          (t.latency >= 0) <=> (\E x \in DOMAIN r.new[1].methods[i].dst :
                                                  r.new[1].methods[i].dst[x].op = "recordExit")
         /\ \A n \in {1, 4} :
                /\ \A t \in r.targets : t.latency > 0 =>
                     Constant(n, r.targets, Rewriter!LatencyIdx(n, r.targets, t.latency)).value = t.latency
                /\ Invoked(n, r.targets, Rewriter!recordEntryIdx(n)) = <<"one/profiler/Instrument", "recordEntry", "()V">>
                /\ Invoked(n, r.targets, Rewriter!recordExitIdx(n)) = <<"one/profiler/Instrument", "recordExit", "(JJ)V">>
                /\ Invoked(n, r.targets, Rewriter!recordExit0Idx(n)) = <<"one/profiler/Instrument", "recordExit", "(J)V">>
                /\ Invoked(n, r.targets, Rewriter!nanoTimeIdx(n)) = <<"java/lang/System", "nanoTime", "()J">>


-----------------------------------------------------------------------------
(* Sets of up to four options in every order; times of day on a clock of   *)
(* three hours of four minutes of two seconds; and file name patterns      *)
(* whose escapes expand to up to five characters.                          *)
Opt(key, text, n, unit) == [key |-> key, text |-> text, n |-> n, unit |-> unit]
Word(key, text) == Opt(key, text, Args!NaN, "")
Options ==
    {Word("all", Args!NULL), Word("cpu", Args!NULL), Word("event", "cycles"), Word("event", "alloc"), Word("event", "nativelock"),
     Word("event", "nativemem"), Word("jfr", Args!NULL), Word("file", ".html"), Word("trace", "a.b"), Word("begin", "f"), Word("ttsp", Args!NULL),
     Opt("alloc", "2K", 2, "K"), Opt("wall", "5", 5, ""), Opt("nativelock", "4", 4, ""), Opt("lock", "7m", 7, "m")}
OptionSets == {S \in UNION {kSubset(k, Options) : k \in 1..4} : \A v, w \in S : v.key = w.key => v = w}
Parses(S) == {Args!parse(order) : order \in SetToSeqs(S)}

Hour == 8
Minute == 2
Hours == 3
Times == {t \in [clock : {TRUE}, hh : (0..2) \cup {255}, mm : (0..3) \cup {255}, ss : {0, 1, 255}] : ~Args!InvalidTimeout(t)}
Reading(x) == <<(x \div Hour) % Hours, (x % Hour) \div Minute, x % Minute>>
(* A field left open is that of the start when one before it is given.     *)
Shows(t, start, x) ==
    LET given == <<t.hh, t.mm, t.ss>>
    IN \A i \in 1..3 :
           IF given[i] # 255 THEN Reading(x)[i] = given[i]
           ELSE (\E j \in 1..(i - 1) : given[j] # 255) => Reading(x)[i] = Reading(start)[i]

PatternPieces == {[kind |-> "char", len |-> 1], [kind |-> "keep", len |-> 2]} \cup {[kind |-> "expand", len |-> n] : n \in {0, 1, 5}}
FullLength(pattern) == FoldLeft(LAMBDA n, p : n + p.len, 0, pattern)


-----------------------------------------------------------------------------
(* Up to two functions, in the order of their addresses, with up to three  *)
(* call frame instructions; numbers in base 128; native stacks of up to    *)
(* four calls of three functions; and libraries of up to three symbols     *)
(* that do not overlap or are nested.                                      *)
Cfi == {[op |-> "advance", n |-> 1], [op |-> "def_cfa_offset", off |-> 4], [op |-> "def_cfa_register", reg |-> "fp"],
        [op |-> "offset", reg |-> "fp", off |-> -4], [op |-> "remember_state"], [op |-> "restore_state"],
        [op |-> "restore", reg |-> "fp"], [op |-> "def_cfa_expression", len |-> 11],
        [op |-> "val_expression", reg |-> "pc", off |-> -1], [op |-> "nop"]}
Advances(code) == Len(SelectSeq(code, LAMBDA i : i.op = "advance"))
Functions(starts, n) == {f \in [start : starts, len : {2, 3}, code : Upto(n, Cfi)] : Advances(f.code) < f.len}
Libraries == {<<f>> : f \in Functions({2}, 3)}
             \cup {<<f, g>> : f \in {f \in Functions({2}, 2) : f.len = 3}, g \in {g \in Functions({5, 6}, 2) : g.len = 2}}
Covered(fdes) == UNION {f.start..(f.start + f.len - 1) : f \in ToSet(fdes)}

RECURSIVE Leb(_)
Leb(n) == IF n < 128 THEN <<n>> ELSE <<128 + (n % 128)>> \o Leb(n \div 128)
SLebs == [1..2 -> {0, 1, 63, 64, 127}]   \* values of the groups, least significant first

Calls == [pc : -3..-1, size : {2, 3}, keeps_fp : BOOLEAN]
Stacks == {c \in UNION {[1..n -> Calls] : n \in 1..4} : \A i, j \in DOMAIN c : c[i].pc = c[j].pc => c[i] = c[j]}
WalkStack(calls) ==
    LET st == Unwinder!BuildStack(calls)
        java == [pc \in -3..-1 |-> FALSE]
        desc == [pc \in {c.pc : c \in ToSet(calls)} |->
                    LET c == CHOOSE c \in ToSet(calls) : c.pc = pc
                    IN Unwinder!findFrameDesc(Unwinder!parseEhFrame(<<[start |-> 0, len |-> 2, code |-> Unwinder!CodeOf(c)]>>), {}, 1)]
    IN [fp |-> Unwinder!walkFP(st.mem, java, 3, st.regs), dwarf |-> Unwinder!walkDwarf(st.mem, java, desc, 3, st.regs)]
PcsOf(calls) == [i \in 1..Min({3, Len(calls)}) |-> calls[i].pc]

Blob(start, len) == [start |-> start, end |-> start + len, name |-> <<start, len>>]
Blobs == {Blob(s, l) : s \in {1, 3, 4}, l \in 0..3}
Nested(b, c) == b.end <= c.start \/ c.end <= b.start \/ (b.start <= c.start /\ c.end <= b.end) \/ (c.start <= b.start /\ b.end <= c.end)
BlobLists == {q \in Upto(3, Blobs) : q # <<>> /\ \A i, j \in DOMAIN q : i # j => q[i] # q[j] /\ Nested(q[i], q[j])}
Library(blobs) == Unwinder!sort(FoldLeft(LAMBDA c, b : Unwinder!add(c, b, TRUE), Unwinder!NewCache, blobs))
Disjoint(blobs) ==
    \A i, j \in DOMAIN blobs :
        i # j => /\ blobs[i].start # blobs[j].start
                 /\ blobs[i].end <= blobs[j].start \/ blobs[j].end <= blobs[i].start
Holds(b, a) == a \in b.start..(b.end - 1)

(* The unwind table built from .eh_frame gives at every address of a       *)
(* function the rule that its call frame instructions reach there, and the *)
(* default frame outside; numbers decode to what was encoded. A stack laid *)
(* out by calls is walked back to exactly those calls, by the tables       *)
(* always, by frame pointers when every call keeps one, and never deeper   *)
(* than asked. And a symbol is found at an address that only it covers,    *)
(* and no symbol that does not reach the address.                          *)
UnwindSound ==
    Computed =>
      /\ job.part = "table" =>
           \A loc \in 2..12 :
               Unwinder!findFrameDesc(result, {}, loc) =
                   IF loc \in Covered(job.in) THEN Unwinder!RowAt(job.in, {}, loc) ELSE Unwinder!DefaultRow
      /\ job.part = "leb" => result = job.in
      /\ job.part = "sleb" => result.signed \in -8192..8191 /\ (result.signed - result.unsigned) % 16384 = 0
      /\ job.part = "stack" =>
           /\ result.dwarf = PcsOf(job.in)
           /\ Len(result.fp) <= 3
           /\ (\A i \in DOMAIN job.in : job.in[i].keeps_fp) => result.fp = PcsOf(job.in)
      /\ job.part = "symbols" =>
           \A a \in 0..8 :
               LET found == Unwinder!findNativeMethod(<<result>>, a)
                   over == {b \in ToSet(job.in) : Holds(b, a)}
               IN /\ Disjoint(job.in) /\ over # {} => \E b \in over : b.name = found
                  /\ \A b \in ToSet(job.in) : b.name = found => b.start <= a /\ (b.start = b.end \/ a <= b.end)

-----------------------------------------------------------------------------
(* Events of every type with all fields at one limit but one at another.   *)
(* The fields of 32 bits are those of the structures in event.h and os.h.  *)
Fields32 == {"sampledThread", "stackTrace", "state", "eventThread", "objectClass", "monitorClass", "parkedClass", "samples",
             "type", "tag", "pid", "ppid", "uid", "threads", "gcId", "when", "id", "sockets", "cores", "hwThreads",
             "schemaVersion", "signal"}
Digits(low, n, high) == [i \in 1..10 |-> IF i < n THEN low ELSE IF i = n THEN high ELSE 0]
FieldValue(f, x) ==   \* x is one of five sizes
    CASE f[1] = "level" -> Jfr!Number(x)
      [] f[1] # "level" /\ f[2] = "number" ->
           (IF f[1] \in Fields32 THEN <<Jfr!Number(0), Jfr!Number(127), Jfr!Number(128), Digits(0, 4, 1), Digits(127, 5, 15)>>
            ELSE <<Jfr!Number(0), Digits(127, 3, 127), Digits(0, 9, 64), Jfr!MIN_JLONG, Digits(127, 10, 1)>>)[x]
      [] f[2] = "string" -> <<Jfr!null, <<>>, [i \in 1..127 |-> 7], [i \in 1..128 |-> 7], [i \in 1..150 |-> 200]>>[x]
      [] f[2] = "float" -> [i \in 1..4 |-> 60 * (x - 1)]
      [] f[2] = "byte" -> 60 * (x - 1)
(* The strings that are short in every event.                              *)
Brief == {"sessionId", "signalDelivery", "destination"}
EventJobs == UNION {[type : {t}, all : 1..5, at : DOMAIN Jfr!JfrMetadata[t], one : 1..5] : t \in DOMAIN Jfr!JfrMetadata}
EventOf(j) ==
    LET fields == Jfr!JfrMetadata[j.type]
    IN [name \in {f[1] : f \in ToSet(fields)} |->
            LET i == CHOOSE i \in DOMAIN fields : fields[i][1] = name
                x == IF i = j.at THEN j.one ELSE j.all
            IN IF name \in Brief \/ (j.type = 107 /\ name = "name") THEN [n \in 1..(5 * x) |-> 9] ELSE FieldValue(fields[i], x)]
(* Fields that the code does not take from an event, and what is cut.      *)
AsWritten(type, e) ==
    [name \in DOMAIN e |->
        CASE name \in {"method", "previousOwner", "maxSize"} -> Jfr!Number(0)
          [] name = "until" -> Jfr!MIN_JLONG
          [] name \in {"maxAge", "recordingDuration"} -> Jfr!MAX_JLONG
          [] name = "data" -> SubSeq(e[name], 1, Min({Len(e[name]), 132}))
          [] \E f \in ToSet(Jfr!JfrMetadata[type]) : f = <<name, "string">> /\ name # "data" ->
               SubSeq(e[name], 1, Min({Len(e[name]), 140}))
          [] OTHER -> e[name]]

(* Flame graphs: of up to three stacks of up to three frames, all of whose  *)
(* frames are wide enough or not; and of names that share prefixes of such *)
(* lengths that the byte of the length is a quote, a backslash or at its   *)
(* limit.                                                                  *)
Named(name, type) == [name |-> name, type |-> type]
Frames == {Named(<<97>>, 1), Named(<<97>>, 0), Named(<<97>>, 2), Named(<<98, 97, 95, 91, 106, 93>>, 3)}
Traces == Upto(2, Frames) \cup {<<f, f, g>> : f \in Frames, g \in Frames}
As(n) == [i \in 1..n |-> 97]
Names == {As(2), As(2) \o <<123>>, As(2) \o <<125, 123>>, As(4), As(4) \o <<98>>, As(7) \o <<98>>, As(7) \o <<99>>,
          <<195, 169, 97>>, <<195, 169, 98>>, <<97, 95, 91, 106, 93>>, <<97, 97, 95, 91, 106, 93>>}
OneTrace(x) == <<[frames |-> x, counter |-> 2]>>
GraphJobs ==
    [samples : {<<[frames |-> x, counter |-> 1], [frames |-> y, counter |-> 2]>> : x \in Traces, y \in Traces},
     reverse : {FALSE}, added : {0}, minwidth : {0, 50}]
    \cup [samples : {<<>>, <<[frames |-> <<Named(<<97>>, 1)>>, counter |-> 0]>>} \cup {OneTrace(x) : x \in Traces},
           reverse : {TRUE}, added : {0}, minwidth : {0}]
    \cup [samples : {OneTrace(<<Named(x, 1), Named(y, 1), Named(z, 4)>>) : x \in Names, y \in Names, z \in {As(2), As(4)}},
           reverse : {TRUE}, added : {1}, minwidth : {0}]

(* Profiles of up to two samples, at and above the limits of one byte      *)
(* and of one group of the format; and lists of attributes of which some   *)
(* only contain the key, in their key or their value.                      *)
OtlpFrame(name, thread) == [name |-> name, thread |-> thread]
OtlpTraces == {<<>>, <<OtlpFrame(<<102>>, FALSE)>>, <<OtlpFrame(<<102>>, FALSE), OtlpFrame(<<116>>, TRUE)>>,
               <<OtlpFrame(<<103>>, FALSE), OtlpFrame(As(130), FALSE), OtlpFrame(<<102>>, FALSE), OtlpFrame(As(130), TRUE)>>}
OtlpSamples == [trace : OtlpTraces, complete : {TRUE}, excluded : {FALSE}, samples : {127, 128}, counter : {16384}]
               \cup [trace : {<<OtlpFrame(<<102>>, FALSE)>>}, complete : BOOLEAN, excluded : BOOLEAN, samples : {0, 1}, counter : {5}]
Entries == {<<115, 46, 110, 61, 97>>, <<115, 46, 110, 32, 61, 32, 37, 52, 49>>, <<120, 115, 46, 110, 61, 98>>,
            <<115, 46, 110, 120, 61, 98>>, <<120, 61, 115, 46, 110, 61, 98>>, <<115, 46, 110, 61>>,
            <<115, 46, 110, 61>> \o As(8)}
ValueOf(e) ==   \* of the entries above, those of the key
    CASE e = <<115, 46, 110, 61, 97>> -> <<97>>
      [] e = <<115, 46, 110, 32, 61, 32, 37, 52, 49>> -> <<65>>
      [] e = <<115, 46, 110, 61>> -> <<>>
      [] e = <<115, 46, 110, 61>> \o As(8) -> As(6)
      [] OTHER -> <<-1>>
Lists == {<<e>> : e \in Entries} \cup {<<d, e>> : d \in Entries, e \in Entries}
Joined(list) == FoldLeft(LAMBDA s, e : s \o <<44, 32>> \o e, list[1], Tail(list))
ServiceOf(list) == LET of == SelectSeq(list, LAMBDA e : ValueOf(e) # <<-1>>)
                   IN IF of = <<>> THEN <<-1>> ELSE ValueOf(of[1])
NoSource == [property |-> <<-1>>, env |-> <<-1>>, properties |-> <<-1>>, envs |-> <<-1>>]
OtlpJobs ==
    [traces : Upto(2, OtlpSamples), samples : BOOLEAN, list : {<<>>}, over : {<<-1>>}]
    \cup [traces : {<<>>}, samples : {TRUE}, list : Lists, over : {<<-1>>, <<>>, <<111>>}]
SourcesOf(j) == [NoSource EXCEPT !.envs = IF j.list = <<>> THEN <<-1>> ELSE Joined(j.list), !.env = j.over]
ServiceExpected(j) ==
    LET name == IF j.over \notin {<<-1>>, <<>>} THEN j.over ELSE IF j.list = <<>> THEN <<-1>> ELSE ServiceOf(j.list)
    IN IF name \in {<<-1>>, <<>>} THEN <<-1>> ELSE <<<<115, 46, 110>>, name>>

(* What is written can be read back. Every event of a recording, by the    *)
(* metadata that is written before it: its type is the one meant, its size *)
(* is its length, also where the size is one byte, the fields end with the *)
(* event, and each has the value that was recorded, from zero to the       *)
(* largest number of its width. A flame graph, by the page around it: see  *)
(* GraphReadable. A profile in the OpenTelemetry format, by any reader of  *)
(* it: see OtlpReadable; its service is the first one that is given.       *)
OutputReadable ==
    Computed =>
      /\ job.part = "event" =>
           /\ result.read.type = job.in.type
           /\ result.read.size = Len(result.bytes)
           /\ result.read.read = Len(result.bytes)
           /\ result.read.event = AsWritten(job.in.type, EventOf(job.in))
      /\ job.part = "graph" =>
           /\ Graph!GraphReadable(result.unsigned, job.in.samples, job.in.reverse, job.in.added)
           /\ SignedGraph!GraphReadable(result.signed, job.in.samples, job.in.reverse, job.in.added)
      /\ job.part = "otlp" =>
           /\ Protobuf!OtlpReadable(result, job.in.traces, job.in.samples)
           /\ Protobuf!ReadService(result) = ServiceExpected(job.in)
      /\ job.part = "size" => result = (job.in + 6) \div 7

-----------------------------------------------------------------------------
Init ==
    /\ out = <<>>
    /\ \/ \E s \in Symbols : job = [part |-> "demangle", in |-> s]
       \/ \E s \in Upto(4, LimitBytes) : job = [part |-> "utf8", in |-> s]
       \/ \E m \in Methods : job = [part |-> "rewrite", in |-> m]
       \/ \E c \in ClassJobs : job = [part |-> "class", in |-> c]
       \/ \E S \in OptionSets : job = [part |-> "options", in |-> S]
       \/ \E t \in Times, start \in 0..47 : job = [part |-> "time", in |-> [t |-> t, start |-> start]]
       \/ \E q \in Upto(5, PatternPieces), size \in {6, 8} :
              job = [part |-> "pattern", in |-> [pattern |-> q, size |-> size]]
       \/ \E l \in Libraries : job = [part |-> "table", in |-> l]
       \/ \E n \in {0, 1, 127, 128, 129, 16383, 16384, 2097152} : job = [part |-> "leb", in |-> n]
       \/ \E q \in SLebs : job = [part |-> "sleb", in |-> q]
       \/ \E c \in Stacks : job = [part |-> "stack", in |-> c]
       \/ \E e \in EventJobs : job = [part |-> "event", in |-> e]
       \/ \E g \in GraphJobs : job = [part |-> "graph", in |-> g]
       \/ \E o \in OtlpJobs : job = [part |-> "otlp", in |-> o]
       \/ \E bits \in 1..64 : job = [part |-> "size", in |-> bits]
       \/ \E q \in BlobLists : job = [part |-> "symbols", in |-> q]

Next ==
    /\ out = <<>>
    /\ UNCHANGED job
    /\ out' = <<CASE job.part = "demangle" -> Demangle(job.in)
                  [] job.part = "utf8" -> Demangler!nibbles_to_string(Nibbles(job.in))
                  [] job.part = "rewrite" -> Rewriter!rewriteCode(job.in)
                  [] job.part = "class" -> RewriteJob(job.in)
                  [] job.part = "options" -> Parses(job.in)
                  [] job.part = "time" -> Args!addTimeout(job.in.start, job.in.t, Hour, Minute, Hours)
                  [] job.part = "pattern" -> Args!expandFilePattern(job.in.pattern, job.in.size)
                  [] job.part = "table" -> Unwinder!parseEhFrame(job.in)
                  [] job.part = "leb" -> Unwinder!getLeb(Leb(job.in))
                  [] job.part = "sleb" ->
                       LET bytes == <<128 + job.in[1], job.in[2]>>
                       IN [signed |-> Unwinder!getSLeb(bytes), unsigned |-> Unwinder!getLeb(bytes)]
                  [] job.part = "stack" -> WalkStack(job.in)
                  [] job.part = "event" ->
                       LET bytes == Jfr!record(job.in.type, EventOf(job.in)) IN [bytes |-> bytes, read |-> Jfr!ReadEvent(bytes)]
                  [] job.part = "graph" ->
                       [unsigned |-> Graph!dump(Graph!BuildGraph(job.in.samples, job.in.reverse, job.in.added), job.in.minwidth),
                        signed |-> SignedGraph!dump(SignedGraph!BuildGraph(job.in.samples, job.in.reverse, job.in.added),
                                                    job.in.minwidth)]
                  [] job.part = "otlp" -> Protobuf!record(job.in.traces, job.in.samples, SourcesOf(job.in))
                  [] job.part = "size" -> Protobuf!varIntSize(job.in)
                  [] job.part = "symbols" -> Library(job.in)>>

Spec == Init /\ [][Next]_<<job, out>>

-----------------------------------------------------------------------------
(* Unwind tables from .debug_frame: two or three functions in every order  *)
(* of the section.                                                         *)

(* The frame is set up after the first instruction and may be taken down   *)
(* before the last; or there is none.                                      *)
DebugPush == <<[op |-> "advance", n |-> 1], [op |-> "def_cfa_offset", off |-> 4]>>
DebugPop == <<[op |-> "advance", n |-> 2], [op |-> "def_cfa_offset", off |-> 2]>>
DebugCodes == {<<>>, DebugPush, DebugPush \o DebugPop}
DebugSections ==
    {[i \in DOMAIN order |-> [start |-> order[i], len |-> 4, code |-> code[i]]] :
        order \in UNION {{p \in [1..n -> {4, 8, 12}] : \A i, j \in 1..n : i # j => p[i] # p[j]} : n \in 2..3},
        code \in [1..3 -> DebugCodes]}

DebugInit == job \in DebugSections /\ out = <<>>
DebugNext == out = <<>> /\ out' = Unwinder!parseDebugFrame(job) /\ UNCHANGED job
DebugSpec == DebugInit /\ [][DebugNext]_<<job, out>>

(* Call stacks are reconstructed "using unwinding information embedded in  *)
(* executables (typically in the `.eh_frame` or `.debug_frame` section)"   *)
(* (docs/StackWalkingModes.md:16): at an address of a function the table   *)
(* gives the row that the function's own instructions reach there.         *)
RowsOfFunctions ==
    out # <<>> =>
        \A f \in ToSet(job) : \A loc \in f.start..(f.start + f.len - 1) :
            Unwinder!findFrameDesc(out, {}, loc) = Unwinder!RowAt(job, {}, loc)
=============================================================================
