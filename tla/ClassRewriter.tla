---------------------------- MODULE ClassRewriter ----------------------------
(***************************************************************************)
(* The class file rewriter of instrument.cpp as functions from methods to  *)
(* methods.                                                                *)
(*                                                                         *)
(* A method m is a sequence m.code of instructions with the tables that    *)
(* refer to it. An instruction has an opcode class op, a local variable    *)
(* idx and the instructions `to` it may jump to, by number; the number     *)
(* Len(m.code) + 1 stands for the end of the code. Addresses are computed  *)
(* from the lengths, as in the class file. Words and bytes wrap at W and   *)
(* Byte (2^16 and 2^8), a narrow jump reaches JumpMax, a short stack map   *)
(* frame SameMax, and a method may have MaxCode bytes.                     *)
(*                                                                         *)
(* A class is [name, methods]; a method of it is [name, desc, native,      *)
(* static, body], its body the code and tables. A target is a pair of      *)
(* patterns for class and method and a latency; names are sequences of     *)
(* characters, which std::map orders by Ord.                               *)
(***************************************************************************)
EXTENDS Integers, Sequences, FiniteSets, SequencesExt, FiniteSetsExt, TLC

CONSTANTS W, Byte, JumpMax, SameMax, MaxCode,
          ProfilerPackage,   \* PROFILER_PACKAGE
          NO_LATENCY

ExtraSimpleEntry == 4
ExtraEntry == 8
ExtraExit == 8
ExtraIndexed == 4

alignUp4(i) == i - (i % 4) + 4

instructionBytes(ins, pc) ==
    CASE ins.op \in {"plain", "return", "load_n"} -> 1
      [] ins.op = "load" -> 2
      [] ins.op \in {"goto", "iinc", "new"} -> 3
      [] ins.op = "wide" -> 4
      [] ins.op = "goto_w" -> 5
      [] ins.op = "wide iinc" -> 6
      [] ins.op = "tableswitch" -> alignUp4(pc) - pc + 4 * (2 + Len(ins.to))
      [] ins.op = "lookupswitch" -> alignUp4(pc) - pc + 8 * Len(ins.to)

(* The address of every instruction and of the end of the code.            *)
Pcs(code) ==
    LET pc[k \in 1..(Len(code) + 1)] ==
            IF k = 1 THEN 0 ELSE pc[k - 1] + instructionBytes(code[k - 1], pc[k - 1])
    IN pc

-----------------------------------------------------------------------------
(* The code. dst is what was written: at is the address of an item in the  *)
(* new code, src the instruction it copies, or 0.                          *)

Put(r, op, idx, src, size) ==
    [r EXCEPT !.dst = Append(@, [at |-> r.len, op |-> op, idx |-> idx, src |-> src, to |-> <<>>]),
              !.len = @ + size]

(* Locals from `start` on make room for the start time, a long.            *)
ShiftLocal(ins, start) ==
    LET plus2(width) == [op |-> ins.op, idx |-> (ins.idx + 2) % width, extra |-> 0]
    IN CASE ins.op \in {"load", "iinc"} /\ ins.idx >= start -> plus2(Byte)
         [] ins.op \in {"wide", "wide iinc"} /\ ins.idx >= start -> plus2(W)
         [] ins.op = "load_n" /\ ins.idx \in start..1 -> plus2(Byte)
         [] ins.op = "load_n" /\ ins.idx >= start /\ ins.idx > 1 ->
                [op |-> "load", idx |-> ins.idx + 2, extra |-> ExtraIndexed]
         [] OTHER -> [op |-> ins.op, idx |-> ins.idx, extra |-> 0]


ScanInstruction(r, ins, k, pc, start) ==
    LET exit == ins.op = "return"
        new == ShiftLocal(ins, start)
        a == IF exit THEN Put(r, "recordExit", start, 0, ExtraExit) ELSE r
        b == Put(a, new.op, new.idx, k, instructionBytes(ins, pc) + new.extra)
    IN [b EXCEPT !.reloc = @ @@ (pc :> r.cur),
                 !.cur = (@ + new.extra + (IF exit THEN ExtraExit ELSE 0)) % W]

Scan(code, start) ==
    LET pc == Pcs(code)
        r[k \in 0..Len(code)] ==
            IF k = 0 THEN Put([dst |-> <<>>, len |-> 0, reloc |-> <<>>, cur |-> ExtraEntry],
                              "startTime", start, 0, ExtraEntry)
            ELSE ScanInstruction(r[k - 1], code[k], k, pc[k], start)
    IN r[Len(code)]

(* Second scan: an offset is patched at the address that the relocation of *)
(* the jump gives. The address that a new offset leads to is kept.         *)
Relocate(reloc, pc) == (pc + reloc[pc]) % W

NewOffsets(code, k, reloc) ==
    LET pc == Pcs(code)
    IN [t \in DOMAIN code[k].to |->
            pc[code[k].to[t]] + reloc[pc[code[k].to[t]]] - Relocate(reloc, pc[k])]

JumpOverflow(code, reloc) ==
    \E k \in DOMAIN code :
        /\ code[k].op = "goto"
        /\ NewOffsets(code, k, reloc)[1] \notin -(JumpMax + 1)..JumpMax

PatchJumps(code, r) ==
    LET pc == Pcs(code)
        jump(i) == {k \in DOMAIN code : code[k].to # <<>> /\ Relocate(r.reloc, pc[k]) = i.at}
    IN [j \in DOMAIN r.dst |->
            LET i == r.dst[j]
            IN IF jump(i) = {} THEN i
               ELSE LET k == CHOOSE k \in jump(i) : TRUE
                        offsets == NewOffsets(code, k, r.reloc)
                    IN [i EXCEPT !.to = [t \in DOMAIN offsets |-> i.at + offsets[t]]]]

Refused(status) == [st |-> status]

rewriteCodeForLatency(code, start) ==
    LET r == Scan(code, start)
        end == Pcs(code)[Len(code) + 1]
        reloc == r.reloc @@ (end :> r.cur)
    IN IF r.cur > MaxCode - end THEN Refused("METHOD_TOO_LARGE")
       ELSE IF JumpOverflow(code, r.reloc) THEN Refused("JUMP_OVERFLOW")
       ELSE [st |-> "OK", dst |-> PatchJumps(code, r), reloc |-> reloc]

(* Without a latency only an entry of four bytes is prepended.             *)
PrependEntry(code) ==
    LET pc == Pcs(code)
        entry == [at |-> 0, op |-> "recordEntry", idx |-> 0, src |-> 0, to |-> <<>>]
    IN [st |-> "OK",
        dst |-> <<entry>> \o [k \in DOMAIN code |->
            [at |-> pc[k] + ExtraSimpleEntry, op |-> code[k].op, idx |-> code[k].idx, src |-> k,
             to |-> [t \in DOMAIN code[k].to |-> pc[code[k].to[t]] + ExtraSimpleEntry]]],
        reloc |-> [a \in 0..pc[Len(code) + 1] |-> ExtraSimpleEntry]]

-----------------------------------------------------------------------------
(* The tables of a method. Locals of a full frame are "1" or "2" slots     *)
(* wide; "start" is the local that the rewriter adds.                      *)

Slots(locals, n) ==
    FoldLeft(LAMBDA sum, l : sum + (IF l = "1" THEN 1 ELSE 2), 0, SubSeq(locals, 1, n))

(* As many locals as it takes to reach the index of the new one.           *)
BeforeStart(locals, start) ==
    CHOOSE n \in 0..Len(locals) :
        /\ n = Len(locals) \/ Slots(locals, n) >= start
        /\ \A i \in 0..(n - 1) : Slots(locals, i) < start

updateCurrentFrame(f, pc, reloc) ==
    LET new == pc + reloc[pc]
    IN [old |-> pc, new |-> new, delta |-> (new - f.new - 1) % W]

(* A frame that was encoded in its type gets the extended form when its    *)
(* new offset does not fit.                                                *)
FrameKind(kind, delta) ==
    IF delta <= SameMax THEN kind
    ELSE CASE kind = "same" -> "same extended"
           [] kind = "stack item" -> "stack item extended"
           [] OTHER -> kind

(* The instruction that created an object not yet initialized, or 0.       *)
rewriteVerificationTypeInfo(at, pc, reloc) == IF at = 0 THEN 0 ELSE Relocate(reloc, pc[at])

RewriteFrame(f, frame, pc, reloc, start) ==
    LET u == updateCurrentFrame(f, pc[frame.at], reloc)
        n == BeforeStart(frame.locals, start)
        locals == IF frame.kind = "full" /\ start >= 0
                  THEN SubSeq(frame.locals, 1, n) \o <<"start">>
                       \o SubSeq(frame.locals, n + 1, Len(frame.locals))
                  ELSE frame.locals
    IN [old |-> u.old, new |-> u.new,
        bad |-> f.bad \/ (/\ frame.kind = "full" /\ start >= 0
                          /\ Slots(frame.locals, n) # start),
        out |-> Append(f.out, [kind |-> FrameKind(frame.kind, u.delta), delta |-> u.delta,
                               locals |-> locals,
                               uninitialized |-> rewriteVerificationTypeInfo(frame.uninitialized, pc, reloc)])]

rewriteStackMapTable(frames, pc, reloc, start) ==
    LET first == [kind |-> "append", delta |-> 7, locals |-> <<"start">>, uninitialized |-> 0]
        init == IF start >= 0 THEN [old |-> -1, new |-> 7, bad |-> FALSE, out |-> <<first>>]
                ELSE [old |-> -1, new |-> -1, bad |-> FALSE, out |-> <<>>]
    IN FoldLeft(LAMBDA f, frame : RewriteFrame(f, frame, pc, reloc, start), init, frames)

rewriteLineNumberTable(lines, pc, reloc) == [i \in DOMAIN lines |-> Relocate(reloc, pc[lines[i]])]

rewriteLocalVariableTable(locals, pc, reloc, start) ==
    [i \in DOMAIN locals |->
        LET v == locals[i]
            from == Relocate(reloc, pc[v.from])
        IN [from |-> from, length |-> (Relocate(reloc, pc[v.to]) - from) % W,
            idx |-> IF start >= 0 /\ v.idx >= start THEN v.idx + 2 ELSE v.idx]]

rewriteCodeAttributes(m, pc, reloc) ==
    LET f == rewriteStackMapTable(m.frames, pc, reloc, m.start)
    IN IF f.bad THEN Refused("BAD_FULL_FRAME")
       ELSE [st |-> "OK", frames |-> f.out,
             lines |-> rewriteLineNumberTable(m.lines, pc, reloc),
             locals |-> rewriteLocalVariableTable(m.locals, pc, reloc, m.start)]

(* m.start is the index of the new local, or -1 when no latency is         *)
(* measured. ranges are the entries of the exception table.                *)
WithCode(a, m, pc, r) ==
    IF a.st # "OK" THEN a
    ELSE a @@ [dst |-> r.dst, reloc |-> r.reloc,
               ranges |-> [i \in DOMAIN m.ranges |-> [x \in 1..3 |-> Relocate(r.reloc, pc[m.ranges[i][x]])]]]
WithAttributes(m, pc, r) ==
    IF r.st # "OK" THEN r ELSE WithCode(rewriteCodeAttributes(m, pc, r.reloc), m, pc, r)
rewriteCode(m) ==
    WithAttributes(m, Pcs(m.code),
                   IF m.start >= 0 THEN rewriteCodeForLatency(m.code, m.start) ELSE PrependEntry(m.code))

-----------------------------------------------------------------------------
(* Which methods are rewritten, and the constants added to their class.    *)

Ord == [c \in {"(", ")", "*", ".", "/", ":", "A", "I", "J", "V", "a", "b"} |->
          CASE c = "(" -> 40 [] c = ")" -> 41 [] c = "*" -> 42 [] c = "." -> 46 [] c = "/" -> 47
            [] c = ":" -> 58 [] c = "A" -> 65 [] c = "I" -> 73 [] c = "J" -> 74 [] c = "V" -> 86
            [] c = "a" -> 97 [] c = "b" -> 98]

Less(s, t) ==
    \/ IsStrictPrefix(s, t)
    \/ \E i \in DOMAIN s \cap DOMAIN t :
           /\ Ord[s[i]] < Ord[t[i]]
           /\ \A j \in 1..(i - 1) : s[j] = t[j]
AtMost(s, t) == s = t \/ Less(s, t)

matchesPattern(value, pattern) ==
    /\ value # <<>> /\ pattern # <<>>
    /\ \/ Last(pattern) = "*" /\ IsPrefix(Front(pattern), value)
       \/ value = pattern

(* The first class pattern in the order of the map.                        *)
findMethodTargets(targets, class) ==
    LET matching == {t \in targets : matchesPattern(class, t.class)}
    IN IF matching = {} THEN {}
       ELSE LET first == CHOOSE t \in matching : \A u \in matching : AtMost(t.class, u.class)
            IN {t \in targets : t.class = first.class}

(* The search goes down from lower_bound(name + desc), or from the last    *)
(* key when there is none.                                                 *)
findLatency(targets, name, desc) ==
    LET method == name \o desc
        upper == {t \in targets : AtMost(method, t.method)}
        start == IF upper = {} THEN CHOOSE t \in targets : \A u \in targets : AtMost(u.method, t.method)
                 ELSE CHOOSE t \in upper : \A u \in upper : AtMost(t.method, u.method)
        found == {t \in targets : /\ AtMost(t.method, start.method)
                                  /\ matchesPattern(method, t.method) \/ name = t.method}
    IN IF found = {} THEN [ok |-> FALSE]
       ELSE [ok |-> TRUE,
             latency |-> (CHOOSE t \in found : \A u \in found : AtMost(u.method, t.method)).latency]

(* An argument: class and method at the last dot, a latency after a colon  *)
(* behind that dot. units is the value of the text after the colon, or -1. *)
addTarget(targets, s, units, default) ==
    LET dot == SelectLastInSeq(s, LAMBDA c : c = ".")
        class == SubSeq(s, 1, dot - 1)
        rest == SubSeq(s, dot + 1, Len(s))
        colon == SelectInSeq(rest, LAMBDA c : c = ":")
        method == IF colon = 0 THEN rest ELSE SubSeq(rest, 1, colon - 1)
        name == ReplaceAll(class, ".", "/")
    IN IF dot = 0 \/ ToSet(class) \cap {":", "(", ")"} # {} \/ (colon > 0 /\ units < 0)
       THEN [ok |-> FALSE, targets |-> targets]
       ELSE [ok |-> TRUE,
             targets |-> {t \in targets : <<t.class, t.method>> # <<name, method>>}
                         \cup {[class |-> name, method |-> method,
                                latency |-> IF colon > 0 THEN units ELSE default]}]

(* How many local variables the parameters of a signature take.            *)
RECURSIVE SlotsFrom(_, _)
SlotsFrom(sig, i) ==
    LET End(j) == SelectInSubSeq(sig, j, Len(sig), LAMBDA c : c = ";")
        elem == SelectInSubSeq(sig, i, Len(sig), LAMBDA c : c # "[")
    IN CASE sig[i] = ")" -> 0
         [] sig[i] = "L" -> 1 + SlotsFrom(sig, End(i) + 1)
         [] sig[i] = "[" -> 1 + SlotsFrom(sig, 1 + (IF sig[elem] = "L" THEN End(elem) ELSE elem))
         [] sig[i] \in {"J", "D"} -> 2 + SlotsFrom(sig, i + 1)
         [] OTHER -> 1 + SlotsFrom(sig, i + 1)
parameterSlots(sig) == SlotsFrom(sig, 2)

-----------------------------------------------------------------------------
(* The constants that rewriteClass appends to a pool of n entries, each    *)
(* with the index it is referred to by. A latency takes two indices.       *)

Utf8(s) == [tag |-> "Utf8", value |-> s]
Ref(tag, a, b) == [tag |-> tag, a |-> a, b |-> b]

FixedConstants(n) ==
    <<Ref("Methodref", n + 1, n + 2), Ref("Class", n + 3, 0), Ref("NameAndType", n + 4, n + 5),
      Utf8("one/profiler/Instrument"), Utf8("recordEntry"), Utf8("()V"),
      Ref("Methodref", n + 1, n + 7), Ref("NameAndType", n + 8, n + 9), Utf8("recordExit"),
      Utf8("(JJ)V"),
      Ref("Methodref", n + 1, n + 11), Ref("NameAndType", n + 8, n + 12), Utf8("(J)V"),
      Ref("Methodref", n + 14, n + 15), Ref("Class", n + 16, 0), Ref("NameAndType", n + 17, n + 18),
      Utf8("java/lang/System"), Utf8("nanoTime"), Utf8("()J")>>

recordEntryIdx(n) == n
recordExitIdx(n) == n + 6
recordExit0Idx(n) == n + 10
nanoTimeIdx(n) == n + 13

(* In the order of the methods, each latency once.                         *)
Latencies(targets) ==
    FoldLeft(LAMBDA seen, t : IF t.latency <= 0 \/ t.latency \in ToSet(seen) THEN seen
                              ELSE Append(seen, t.latency),
             <<>>, SetToSortSeq(targets, LAMBDA t, u : Less(t.method, u.method)))
LatencyIdx(n, targets, latency) ==
    n + 17 + 2 * (CHOOSE i \in DOMAIN Latencies(targets) : Latencies(targets)[i] = latency)
NewPoolLength(n, targets) == n + 19 + 2 * Len(Latencies(targets))

(* The pool as the JVM reads it back.                                      *)
PoolAt(n, targets, i) ==
    IF i < n + 19 THEN FixedConstants(n)[i - n + 1]
    ELSE [tag |-> "Long", value |-> Latencies(targets)[(i - n - 19) \div 2 + 1]]

-----------------------------------------------------------------------------
(* rewriteClass: a class of the profiler itself is left alone, so is one   *)
(* that no target matches, and one method that cannot be rewritten leaves  *)
(* the whole class as it was.                                              *)

(* The new local variable comes behind the receiver and the parameters.    *)
StartIndex(m, latency) ==
    IF latency = NO_LATENCY THEN -1 ELSE parameterSlots(m.desc) + (IF m.static THEN 0 ELSE 1)
rewriteMethod(m, latency) == rewriteCode(m.body @@ [start |-> StartIndex(m, latency)])

rewriteMembers(methods, targets) ==
    [i \in DOMAIN methods |->
        LET l == findLatency(targets, methods[i].name, methods[i].desc)
        IN IF methods[i].native \/ ~l.ok THEN [st |-> "OK", kept |-> TRUE]
           ELSE rewriteMethod(methods[i], l.latency) @@ [kept |-> FALSE]]

NewMethods(out, chosen) ==
    IF \A i \in DOMAIN out : out[i].st = "OK" THEN [st |-> "OK", methods |-> out, pool |-> Latencies(chosen)]
    ELSE [st |-> out[SelectInSeq(out, LAMBDA m : m.st # "OK")].st]
rewriteMethods(methods, chosen) ==
    IF chosen = {} THEN [st |-> "ABORTED"] ELSE NewMethods(rewriteMembers(methods, chosen), chosen)
rewriteClass(class, targets) ==
    IF IsPrefix(ProfilerPackage, class.name) THEN [st |-> "PROFILER_CLASS"]
    ELSE rewriteMethods(class.methods, findMethodTargets(targets, class.name))

(* The JVM gets new class data only when all of it could be written.       *)
rewrite(class, targets) == SelectSeq(<<rewriteClass(class, targets)>>, LAMBDA r : r.st = "OK")
=============================================================================
