------------------------------ MODULE JfrPools ------------------------------
(***************************************************************************)
(* The constant pools of a chunk: what the events of a recording refer to  *)
(* by number, how Lookup (lookup.cpp) turns frames into methods, classes,  *)
(* packages and symbols, and writeCpool (flightRecorder.cpp), which writes *)
(* all of that at the end of each chunk. The classes, the user event types *)
(* and the method map outlive a chunk, symbols and packages are numbered   *)
(* anew in each.                                                           *)
(*                                                                         *)
(* A sample looks its class up and stores its trace first and writes its   *)
(* event, under the lock of a slot, later; a chunk ends under all locks.   *)
(*                                                                         *)
(* Names are sequences of characters. A frame is [kind, id, name, sig,     *)
(* class]: id is the jmethodID or what stands in its place, class the      *)
(* library of a native frame. NULL stands for the null pointer.            *)
(***************************************************************************)
EXTENDS Integers, Sequences, FiniteSets, SequencesExt, TLC

CONSTANTS
    Threads,
    Traces,         \* a sequence of stack traces, which are sequences of frames
    ObjectClasses,  \* names of the classes that events refer to
    Tags,           \* tags of spans, or NULL
    EventTypes,     \* names of user event types
    MaxEvents, MaxChunks, MaxStarts

VARIABLES
    methods,    \* _method_map: from ids to [key, mark, class, name, sig, type]
    classes,    \* _class_map, a sequence of names
    traces,     \* numbers of the traces in _call_trace_storage
    types,      \* the dictionary of UserEvents
    strings,    \* _string_pool
    threads,    \* _thread_set
    stale,      \* ids of methods that were unloaded
    pending,    \* what a thread looked up for the event it is about to write
    events,     \* the events of this chunk
    count,      \* chunks of this recording, recordings
    chunk       \* the last chunk written, or <<>>

vars == <<methods, classes, traces, types, strings, threads, stale, pending, events, count, chunk>>

NULL == <<"null">>
Idle == [at |-> "idle"]
NativeSig == <<"(", ")", "L", ";">>
KernelSig == <<"(", "L", "k", ";", ")", "L", ";">>

(* Index::indexOf and Dictionary::lookup: a name is numbered when first    *)
(* seen.                                                                   *)
Looked(names, x) == IF x \in ToSet(names) THEN names ELSE Append(names, x)
Id(names, x) == SelectInSeq(names, LAMBDA y : y = x)

-----------------------------------------------------------------------------
(* Lookup. s is [methods, classes, symbols]; an Index begins with "".      *)

fillMethodInfo(s, id, class, name, sig, type) ==
    LET c == Looked(s.classes, class)
        y == Looked(Looked(s.symbols, name), sig)
    IN [methods |-> [s.methods EXCEPT ![id].class = Id(c, class), ![id].name = Id(y, name), ![id].sig = Id(y, sig),
                                      ![id].type = type],
        classes |-> c, symbols |-> y]

(* A library in brackets loses them; the suffix of a kernel function goes  *)
(* into the type.                                                          *)
LibraryClass(lib) ==
    CASE lib = NULL -> <<>>
      [] lib # NULL /\ Len(lib) > 1 /\ lib[1] = "[" -> SubSeq(lib, 2, Len(lib) - 1)
      [] OTHER -> lib
fillNativeMethodInfo(s, id, name, lib) ==
    LET kernel == IsSuffix(<<"_", "[", "k", "]">>, name)
    IN IF kernel THEN fillMethodInfo(s, id, LibraryClass(lib), SubSeq(name, 1, Len(name) - 4), KernelSig, "kernel")
       ELSE fillMethodInfo(s, id, LibraryClass(lib), name, NativeSig, "native")

(* The frame of a class names it by its number.                            *)
fillJavaClassInfo(s, id, class) ==
    LET y == Looked(Looked(s.symbols, <<>>), NativeSig)
    IN [s EXCEPT !.symbols = y,
                 !.methods = [@ EXCEPT ![id].class = class, ![id].name = Id(y, <<>>), ![id].sig = Id(y, NativeSig),
                                       ![id].type = "inlined"]]

resolveMethod(s, f, old) ==
    LET first == f.id \notin DOMAIN s.methods
        m == IF first THEN (f.id :> [key |-> Cardinality(DOMAIN s.methods) + 1, mark |-> FALSE, class |-> 0, name |-> 0,
                                     sig |-> 0, type |-> "none"]) @@ s.methods
             ELSE s.methods
        t == [s EXCEPT !.methods = [m EXCEPT ![f.id].mark = TRUE]]
    IN IF m[f.id].mark THEN s
       ELSE CASE f.id = NULL -> fillNativeMethodInfo(t, f.id, <<"u">>, NULL)
              [] f.id # NULL /\ f.kind = "java" /\ f.id \notin old ->
                   fillMethodInfo(t, f.id, f.class, f.name, f.sig, "interpreted")
              [] f.id # NULL /\ f.kind = "java" /\ f.id \in old -> fillNativeMethodInfo(t, f.id, <<"s", "t">>, NULL)
              [] f.id # NULL /\ f.kind = "native" -> fillNativeMethodInfo(t, f.id, f.name, f.class)
              [] f.id # NULL /\ f.kind \in {"address", "error", "cpu"} -> fillNativeMethodInfo(t, f.id, f.name, NULL)
              [] OTHER -> fillJavaClassInfo(t, f.id, Id(s.classes, f.class))

(* Up to the last slash; a digit after it is the mark of a hidden class,   *)
(* and an array is what follows its L. Zero is no package.                 *)
Numerals == {"0", "1"}
Package(class) ==
    LET slash == SelectLastInSeq(class, LAMBDA c : c = "/")
        hidden == slash > 0 /\ slash < Len(class) /\ class[slash + 1] \in Numerals
        end == IF hidden THEN SelectLastInSubSeq(class, 1, slash - 1, LAMBDA c : c = "/") ELSE slash
        start == IF class # <<>> /\ class[1] = "[" THEN 1 + SelectInSeq(class, LAMBDA c : c = "L") ELSE 1
    IN IF end = 0 THEN <<>> ELSE <<SubSeq(class, start, end - 1)>>
getPackage(packages, class) ==
    IF Package(class) = <<>> THEN [packages |-> packages, id |-> 0]
    ELSE LET p == Looked(packages, Package(class)[1]) IN [packages |-> p, id |-> Id(p, Package(class)[1])]

-----------------------------------------------------------------------------
(* writeCpool. Stack traces fill the method map, methods the classes,      *)
(* classes the packages and all of them the symbols, so that is the order. *)

writeStackTraces(s) ==
    LET frames == FlattenSeq([i \in 1..Len(Traces) |-> IF i \in traces THEN Traces[i] ELSE <<>>])
    IN FoldLeft(LAMBDA r, f : resolveMethod(r, f, stale), s, frames)

writeMethods(s) ==
    LET marked == {id \in DOMAIN s.methods : s.methods[id].mark}
    IN [k \in {s.methods[id].key : id \in marked} |->
            LET m == s.methods[CHOOSE id \in marked : s.methods[id].key = k]
            IN [class |-> m.class, name |-> m.name, sig |-> m.sig, type |-> m.type]]

writeClasses(s) ==
    LET Step(r, c) ==
            LET y == Looked(r.symbols, c)
                p == getPackage(r.packages, c)
            IN [symbols |-> y, packages |-> p.packages, pool |-> Append(r.pool, [name |-> Id(y, c), package |-> p.id])]
    IN FoldLeft(Step, [symbols |-> s.symbols, packages |-> <<<<>>>>, pool |-> <<>>], s.classes)

writePackages(r) ==
    LET y == FoldLeft(Looked, r.symbols, r.packages)
    IN [symbols |-> y, pool |-> [i \in DOMAIN r.packages |-> Id(y, r.packages[i])]]

Pools(s, c, p) ==
    [events |-> events, threads |-> threads, methods |-> writeMethods(s), classes |-> c.pool,
     frames |-> [i \in traces |-> [k \in DOMAIN Traces[i] |-> s.methods[Traces[i][k].id].key]],
     packages |-> p.pool, symbols |-> p.symbols, strings |-> strings, types |-> types,
     stale |-> stale, start |-> count.starts, map |-> s.methods, names |-> s.classes]
AfterClasses(s, c) == Pools(s, c, writePackages(c))
AfterTraces(s) == AfterClasses(s, writeClasses(s))
Cpool == AfterTraces(writeStackTraces([methods |-> methods, classes |-> classes, symbols |-> <<<<>>>>]))

Init ==
    /\ methods = <<>> /\ classes = <<>> /\ traces = {} /\ types = <<>> /\ strings = <<>> /\ threads = {} /\ stale = {}
    /\ pending = [t \in Threads |-> Idle]
    /\ events = {}
    /\ count = [chunks |-> 0, starts |-> 1]
    /\ chunk = <<>>

(* A thread looks up the class of its event and of the frames that stand  *)
(* for classes, and then stores its trace.                                 *)
FrameClasses(i) == {f.class : f \in {f \in ToSet(Traces[i]) : f.kind = "class"}}
LookupClass(t, i, class) ==
    /\ pending[t].at = "idle"
    /\ LET c == FoldLeft(Looked, classes, SetToSeq(FrameClasses(i)) \o <<class>>)
       IN /\ classes' = c
          /\ pending' = [pending EXCEPT ![t] = [at |-> "class", trace |-> i, class |-> Id(c, class), start |-> count.starts,
                                                meant |-> class]]
    /\ UNCHANGED <<methods, traces, types, strings, threads, stale, events, count, chunk>>
PutTrace(t) ==
    /\ pending[t].at = "class"
    /\ traces' = traces \cup {pending[t].trace}
    /\ pending' = [pending EXCEPT ![t].at = "trace"]
    /\ UNCHANGED <<methods, classes, types, strings, threads, stale, events, count, chunk>>

(* recordEvent of what was sampled, by a slot of the current recording.    *)
Event(t, trace, class, tag, type, start, meant) ==
    [thread |-> t, trace |-> trace, class |-> class, tag |-> tag, type |-> type, start |-> start, meant |-> meant]
recordEvent(t) ==
    /\ pending[t].at = "trace"
    /\ Cardinality(events) < MaxEvents
    /\ events' = events \cup {Event(t, pending[t].trace, pending[t].class, 0, 0, pending[t].start, pending[t].meant)}
    /\ threads' = threads \cup {t}
    /\ pending' = [pending EXCEPT ![t] = Idle]
    /\ UNCHANGED <<methods, classes, traces, types, strings, stale, count, chunk>>

(* A span looks its tag up in the string pool under the lock of the slot.  *)
recordSpan(t, tag) ==
    /\ Cardinality(events) < MaxEvents
    /\ strings' = IF tag = NULL THEN strings ELSE Looked(strings, tag)
    /\ events' = events \cup {Event(t, 0, 0, IF tag = NULL THEN 0 ELSE Id(strings', tag), 0, count.starts, tag)}
    /\ threads' = threads \cup {t}
    /\ UNCHANGED <<methods, classes, traces, types, stale, pending, count, chunk>>

(* asprof_register_jfr_event and asprof_emit_jfr_event with its key.       *)
registerEvent(name) ==
    /\ name \notin ToSet(types)
    /\ types' = Append(types, name)
    /\ UNCHANGED <<methods, classes, traces, strings, threads, stale, pending, events, count, chunk>>
recordUserEvent(t, key) ==
    /\ Cardinality(events) < MaxEvents
    /\ events' = events \cup {Event(t, 0, 0, 0, key, count.starts, types[key])}
    /\ threads' = threads \cup {t}
    /\ UNCHANGED <<methods, classes, traces, types, strings, stale, pending, count, chunk>>

(* The JVM unloads a class; the ids of its methods stay in the traces.     *)
Unload(id) ==
    /\ id \notin stale
    /\ stale' = stale \cup {id}
    /\ UNCHANGED <<methods, classes, traces, types, strings, threads, pending, events, count, chunk>>

Unmarked(map) == [id \in DOMAIN map |-> [map[id] EXCEPT !.mark = FALSE]]
switchChunk ==
    /\ count.chunks < MaxChunks
    /\ \E c \in {Cpool} :
        /\ chunk' = <<c>>
        /\ methods' = Unmarked(c.map)
        /\ classes' = c.names
    /\ threads' = {} /\ strings' = <<>> /\ events' = {}
    /\ count' = [count EXCEPT !.chunks = @ + 1]
    /\ UNCHANGED <<traces, types, stale, pending>>

(* stop, and start or resume: the new Recording has a method map of its    *)
(* own; a start also clears the class map and the traces, under all locks. *)
Restart(reset) ==
    /\ count.starts < MaxStarts
    /\ \E c \in {Cpool} :
        /\ chunk' = <<c>>
        /\ classes' = IF reset THEN <<>> ELSE c.names
    /\ traces' = IF reset THEN {} ELSE traces
    /\ methods' = <<>> /\ threads' = {} /\ strings' = <<>> /\ events' = {}
    /\ count' = [chunks |-> 0, starts |-> count.starts + 1]
    /\ UNCHANGED <<types, stale, pending>>

JavaIds == {f.id : f \in {f \in UNION {ToSet(Traces[i]) : i \in DOMAIN Traces} : f.kind = "java"}} \ {NULL}
Next ==
    \/ \E t \in Threads :
        \/ \E i \in DOMAIN Traces, c \in ObjectClasses : LookupClass(t, i, c)
        \/ PutTrace(t)
        \/ recordEvent(t)
        \/ \E tag \in Tags : recordSpan(t, tag)
        \/ \E k \in DOMAIN types : recordUserEvent(t, k)
    \/ \E n \in EventTypes : registerEvent(n)
    \/ \E id \in JavaIds : Unload(id)
    \/ switchChunk
    \/ \E reset \in BOOLEAN : Restart(reset)

Spec == Init /\ [][Next]_vars

-----------------------------------------------------------------------------
TypeOK ==
    /\ \A t \in Threads : pending[t].at # "idle" => pending[t].trace \in DOMAIN Traces /\ pending[t].class \in Nat
    /\ threads \subseteq Threads /\ traces \subseteq DOMAIN Traces /\ stale \subseteq JavaIds
    /\ Cardinality(events) <= MaxEvents
    /\ Len(chunk) <= 1

(* What a reader finds in a chunk.                                         *)
SymbolOf(c, i) == c.symbols[i]
ClassOf(c, i) == SymbolOf(c, c.classes[i].name)
PackageNames(c, i) == IF c.classes[i].package = 0 THEN <<>> ELSE <<SymbolOf(c, c.packages[c.classes[i].package])>>
MethodOf(c, k) == <<ClassOf(c, c.methods[k].class), SymbolOf(c, c.methods[k].name), SymbolOf(c, c.methods[k].sig)>>

(* What it should find.                                                    *)
FrameMeaning(f, old) ==
    CASE f.id = NULL -> <<<<>>, <<"u">>, NativeSig>>
      [] f.id # NULL /\ f.kind = "java" -> IF f.id \in old THEN <<<<>>, <<"s", "t">>, NativeSig>> ELSE <<f.class, f.name, f.sig>>
      [] f.id # NULL /\ f.kind = "class" -> <<f.class, <<>>, NativeSig>>
      [] OTHER -> <<IF f.kind = "native" THEN LibraryClass(f.class) ELSE <<>>,
                    SelectSeq(f.name, LAMBDA c : c \notin {"_", "[", "k", "]"}),
                    IF "k" \in ToSet(f.name) THEN KernelSig ELSE NativeSig>>

Pieces(name) ==
    LET cuts == {0, Len(name) + 1} \cup {i \in DOMAIN name : name[i] = "/"}
        ends == SetToSortSeq(cuts, <)
    IN [i \in 1..(Len(ends) - 1) |-> SubSeq(name, ends[i] + 1, ends[i + 1] - 1)]
PackageMeaning(class) ==
    LET core == IF class # <<>> /\ class[1] = "[" THEN SelectSeq(class, LAMBDA c : c \notin {"[", "L", ";"}) ELSE class
        last == Pieces(core)[Len(Pieces(core))]
        kept == Len(Pieces(core)) - (IF last # <<>> /\ Head(last) \in Numerals THEN 2 ELSE 1)
    IN IF kept <= 0 THEN <<>>
       ELSE <<SubSeq(core, 1, FoldLeft(LAMBDA n, p : n + Len(p) + 1, 0, SubSeq(Pieces(core), 1, kept)) - 1)>>

(* Every chunk explains its events: the thread, the tag and the user event *)
(* type of an event are in the pools of its chunk, and its class and each  *)
(* frame of its trace, down to class, name, signature and package, are     *)
(* there and mean what was sampled - also in a later chunk than the one    *)
(* that numbered them first, and after a method was unloaded. An event     *)
(* whose class and trace were looked up before a reset is the exception:   *)
(* it may reach the next recording with numbers of the previous one.       *)
EventExplained(c, e) ==
    /\ e.thread \in c.threads
    /\ e.tag # 0 => c.strings[e.tag] = e.meant
    /\ e.type # 0 => c.types[e.type] = e.meant
    /\ (e.trace # 0 /\ e.start = c.start) =>
          /\ ClassOf(c, e.class) = e.meant
          /\ PackageNames(c, e.class) = PackageMeaning(e.meant)
          /\ \A k \in DOMAIN Traces[e.trace] :
                MethodOf(c, c.frames[e.trace][k]) = FrameMeaning(Traces[e.trace][k], c.stale)
=============================================================================
