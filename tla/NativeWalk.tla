------------------------------ MODULE NativeWalk ------------------------------
(***************************************************************************)
(* Unwinding of native frames. dwarf.cpp: from call frame instructions to  *)
(* the table of frame descriptions, and CodeCache::findFrameDesc that      *)
(* looks an address up. And the two native stack walkers of StackWalker    *)
(* on x86-64, by frame pointers and by these tables.                       *)
(*                                                                         *)
(* A row is [reg, off, fp, pc]: the register and offset of the frame       *)
(* address and where the frame pointer and the return address were saved.  *)
(* An instruction is [op, ...] with its operands decoded and multiplied by *)
(* the alignment factors; a function is [start, len, code].                *)
(*                                                                         *)
(* Memory is a function from addresses to values in which a word takes     *)
(* Slot addresses, so that an odd address is not aligned; code addresses   *)
(* are negative to keep them apart, and 0 is the dead zone.                *)
(* SafeAccess::load of an address that is not mapped is 0.                 *)
(*                                                                         *)
(* The last part is the rest of codeCache.cpp: the symbols of one library  *)
(* as a sorted array of address ranges, the search for the symbol at an    *)
(* address, and the import slots of the library that hooks are written to. *)
(* A blob is [start, end, name]; the names of a library are model values   *)
(* or strings. Import slots are word addresses of the library's data. The  *)
(* searches over all libraries are those of profiler.cpp.                  *)
(***************************************************************************)
EXTENDS Integers, Sequences, FiniteSets, SequencesExt, FiniteSetsExt

CONSTANTS Slot,          \* DW_STACK_SLOT
          PltExpression, \* length of the expression that PLT stubs use
          MAX_FRAME_SIZE, StackSize,
          LibName,       \* stands for an address without a symbol
          ImportTypes,   \* NUM_IMPORT_TYPES
          Page           \* page size, in words

Same == 1000             \* DW_SAME_FP, no offset of a frame
PcOffset(n) == 2 * n + 1 \* DW_PC_OFFSET: the frame pointer rule of a relative return address
EmptyRow == [reg |-> "sp", off |-> Slot, fp |-> Same, pc |-> -Slot]
DefaultRow == [reg |-> "fp", off |-> 2 * Slot, fp |-> -(2 * Slot), pc |-> -Slot]

addRecordKeeping(table, loc, row) ==
    IF table # <<>> /\ Last(table).row = row THEN table ELSE Append(table, [loc |-> loc, row |-> row])
addRecord(table, loc, row) ==
    CASE table = <<>> -> <<[loc |-> loc, row |-> row]>>
      [] table # <<>> /\ Last(table).loc = loc -> Append(Front(table), [loc |-> loc, row |-> row])
      [] table # <<>> /\ Last(table).loc # loc /\ Last(table).row # row -> Append(table, [loc |-> loc, row |-> row])
      [] OTHER -> table

(* What an instruction does to a row; remembered is the one saved state.   *)
Rule(row, remembered, i) ==
    CASE i.op = "offset" -> IF i.reg \in {"fp", "pc"} THEN [row EXCEPT ![i.reg] = i.off] ELSE row
      [] i.op = "restore" -> IF i.reg = "fp" THEN [row EXCEPT !.fp = Same]
                             ELSE IF i.reg = "pc" THEN [row EXCEPT !.pc = EmptyRow.pc] ELSE row
      [] i.op = "same_value" -> IF i.reg = "fp" THEN [row EXCEPT !.fp = Same] ELSE row
      [] i.op = "restore_state" -> remembered
      [] i.op = "def_cfa" -> [row EXCEPT !.reg = i.reg, !.off = i.off]
      [] i.op = "def_cfa_register" -> [row EXCEPT !.reg = i.reg]
      [] i.op = "def_cfa_offset" -> [row EXCEPT !.off = i.off]
      [] i.op = "def_cfa_expression" ->
           [row EXCEPT !.reg = IF i.len = PltExpression THEN "plt" ELSE "invalid", !.off = Slot]
      [] i.op = "val_expression" ->
           IF i.reg = "pc" /\ i.off # 0 THEN [row EXCEPT !.fp = PcOffset(i.off)] ELSE row
      [] OTHER -> row

(* parseInstructions: nop and set_loc end the program, an unknown one      *)
(* gives up without the last row.                                          *)
Execute(s, i) ==
    CASE s.end # "no" -> s
      [] s.end = "no" /\ i.op = "nop" -> [s EXCEPT !.end = "done"]
      [] s.end = "no" /\ i.op = "unknown" -> [s EXCEPT !.end = "failed"]
      [] s.end = "no" /\ i.op = "advance" ->
           [s EXCEPT !.table = addRecord(@, s.loc, s.row), !.loc = @ + i.n]
      [] s.end = "no" /\ i.op = "remember_state" -> [s EXCEPT !.remembered = s.row]
      [] OTHER -> [s EXCEPT !.row = Rule(s.row, s.remembered, i)]

parseInstructions(table, loc, code) ==
    LET s == FoldLeft(Execute, [table |-> table, loc |-> loc, row |-> EmptyRow, remembered |-> EmptyRow,
                                end |-> "no"], code)
    IN IF s.end = "failed" THEN s.table ELSE addRecord(s.table, s.loc, s.row)

(* The functions of .eh_frame_hdr are sorted; behind each one the default  *)
(* frame applies.                                                          *)
parseFde(table, f) == addRecord(parseInstructions(table, f.start, f.code), f.start + f.len, DefaultRow)
parseEhFrame(fdes) == FoldLeft(parseFde, <<>>, fdes)

(* .debug_frame is read in the order of the section and sorted afterwards; *)
(* a function at address zero is a leftover.                               *)
parseDebugFde(table, f) == IF f.start = 0 THEN table ELSE parseInstructions(table, f.start, f.code)
parseDebugFrame(fdes) ==
    SortSeq(FoldLeft(parseDebugFde, <<>>, fdes), LAMBDA a, b : a.loc < b.loc)

(* A constant expression relative to the program counter.                  *)
parseExpression(ops) ==
    LET Step(s, o) ==
            CASE ~s.ok -> s
              [] s.ok /\ o.op = "breg_pc" -> [s EXCEPT !.off = o.n]
              [] s.ok /\ o.op = "const" -> [s EXCEPT !.tos = o.n]
              [] s.ok /\ o.op = "minus" -> [s EXCEPT !.off = @ - s.tos]
              [] s.ok /\ o.op = "plus" -> [s EXCEPT !.off = @ + s.tos]
              [] OTHER -> [s EXCEPT !.ok = FALSE]
        s == FoldLeft(Step, [ok |-> TRUE, off |-> 0, tos |-> 0], ops)
    IN IF s.ok THEN s.off ELSE 0

-----------------------------------------------------------------------------
(* Base 128 numbers as sequences of bytes, least significant first.        *)
RECURSIVE LebFrom(_, _, _)
LebFrom(bytes, i, scale) ==
    (bytes[i] % 128) * scale + (IF bytes[i] < 128 THEN 0 ELSE LebFrom(bytes, i + 1, scale * 128))
getLeb(bytes) == LebFrom(bytes, 1, 1)

LebLength(bytes) == SelectInSeq(bytes, LAMBDA b : b < 128)
getSLeb(bytes) ==
    LET n == LebLength(bytes)
    IN IF bytes[n] % 128 >= 64 THEN getLeb(bytes) - 128 ^ n ELSE getLeb(bytes)

-----------------------------------------------------------------------------
RECURSIVE SearchLoc(_, _, _, _)
SearchLoc(table, loc, low, high) ==
    LET mid == (low + high) \div 2
    IN IF low > high THEN low - 1
       ELSE IF table[mid].loc < loc THEN SearchLoc(table, loc, mid + 1, high)
       ELSE IF table[mid].loc > loc THEN SearchLoc(table, loc, low, mid - 1)
       ELSE mid

(* plt is the range of the procedure linkage table, before all functions.  *)
findFrameDesc(table, plt, loc) ==
    LET i == SearchLoc(table, loc, 1, Len(table))
    IN IF i > 0 THEN table[i].row ELSE IF loc \in plt THEN EmptyRow ELSE DefaultRow

-----------------------------------------------------------------------------
(* The meaning of the instructions: the row in force at an address of a    *)
(* function, by the state reached by the instructions up to that address.  *)

RECURSIVE RowAfter(_, _, _, _, _)
RowAfter(code, loc, target, row, remembered) ==
    IF code = <<>> THEN row
    ELSE LET i == Head(code)
         IN CASE i.op = "nop" -> row
              [] i.op = "advance" ->
                   IF loc + i.n > target THEN row ELSE RowAfter(Tail(code), loc + i.n, target, row, remembered)
              [] i.op = "remember_state" -> RowAfter(Tail(code), loc, target, row, row)
              [] OTHER -> RowAfter(Tail(code), loc, target, Rule(row, remembered, i), remembered)

RowAt(fdes, plt, loc) ==
    LET covering == {j \in DOMAIN fdes : loc \in fdes[j].start..(fdes[j].start + fdes[j].len - 1)}
    IN IF covering # {}
       THEN LET f == fdes[CHOOSE j \in covering : TRUE] IN RowAfter(f.code, f.start, loc, EmptyRow, EmptyRow)
       ELSE DefaultRow

-----------------------------------------------------------------------------
(* The walkers.                                                            *)

stackBottom == StackSize
aligned(a) == a % Slot = 0
inDeadZone(pc) == pc = 0
load(mem, a) == IF a \in DOMAIN mem THEN mem[a] ELSE 0

(* The link and the return address are the two words at the frame pointer. *)
RECURSIVE WalkFPFrom(_, _, _, _, _, _, _)
WalkFPFrom(mem, isJava, max_depth, pc, fp, sp, chain) ==
    IF Len(chain) >= max_depth \/ isJava[pc] THEN chain
    ELSE LET c == Append(chain, pc)
             caller == load(mem, fp + Slot)
         IN IF fp < sp \/ fp >= sp + MAX_FRAME_SIZE \/ fp >= stackBottom \/ ~aligned(fp) \/ inDeadZone(caller) THEN c
            ELSE WalkFPFrom(mem, isJava, max_depth, caller, load(mem, fp), fp + 2 * Slot, c)

walkFP(mem, isJava, max_depth, regs) == WalkFPFrom(mem, isJava, max_depth, regs.pc, regs.fp, regs.sp, <<>>)

(* desc[pc] is the row that findFrameDesc returns for the library of pc.   *)
CFA(d, pc, sp, fp) ==
    CASE d.reg = "sp" -> sp + d.off
      [] d.reg = "fp" -> fp + d.off
      [] d.reg = "plt" -> sp + (IF pc % 16 >= 11 THEN 2 ELSE 1) * d.off

RECURSIVE WalkDwarfFrom(_, _, _, _, _, _, _, _)
WalkDwarfFrom(mem, isJava, desc, max_depth, pc, fp, sp, chain) ==
    IF Len(chain) >= max_depth \/ isJava[pc] THEN chain
    ELSE LET c == Append(chain, pc)
             d == desc[pc]
         IN IF d.reg = "invalid" THEN c
            ELSE LET cfa == CFA(d, pc, sp, fp)
                     relative == d.fp % 2 = 1
                     caller == IF relative THEN pc + d.fp \div 2 ELSE load(mem, cfa + d.pc)
                     link == IF relative \/ d.fp = Same THEN fp ELSE load(mem, cfa + d.fp)
                 IN IF cfa < sp \/ cfa >= sp + MAX_FRAME_SIZE \/ cfa >= stackBottom \/ ~aligned(cfa)
                          \/ inDeadZone(caller) \/ (caller = pc /\ cfa = sp) THEN c
                    ELSE WalkDwarfFrom(mem, isJava, desc, max_depth, caller, link, cfa, c)

walkDwarf(mem, isJava, desc, max_depth, regs) ==
    WalkDwarfFrom(mem, isJava, desc, max_depth, regs.pc, regs.fp, regs.sp, <<>>)

-----------------------------------------------------------------------------
(* The reference: a stack built from calls, innermost first. A call has a  *)
(* frame of size words, its return address in the last one, and saves the  *)
(* frame pointer in the word before it when it has one.                    *)
RECURSIVE Cfas(_, _)
Cfas(calls, sp) == IF calls = <<>> THEN <<>>
                   ELSE LET cfa == sp + Slot * Head(calls).size IN <<cfa>> \o Cfas(Tail(calls), cfa)

(* The frame pointer while the i-th call runs: that of the nearest call    *)
(* from i outwards that set it.                                            *)
FpOf(calls, cfas, i) ==
    LET setters == {j \in i..Len(calls) : calls[j].keeps_fp}
    IN IF setters = {} THEN 0 ELSE cfas[CHOOSE j \in setters : \A k \in setters : j <= k] - 2 * Slot

BuildStack(calls) ==
    LET cfas == Cfas(calls, 0)
        n == Len(calls)
        returns == [i \in 1..n |-> IF i = n THEN 0 ELSE calls[i + 1].pc]
        Saved(i) == FpOf(calls, cfas, i + 1)
        top == cfas[n]
    IN [mem |-> [a \in 0..(top - 1) |->
                    IF \E i \in 1..n : a = cfas[i] - Slot THEN returns[CHOOSE i \in 1..n : a = cfas[i] - Slot]
                    ELSE IF \E i \in 1..n : calls[i].keeps_fp /\ a = cfas[i] - 2 * Slot
                         THEN Saved(CHOOSE i \in 1..n : calls[i].keeps_fp /\ a = cfas[i] - 2 * Slot)
                    ELSE 0],
        regs |-> [pc |-> calls[1].pc, sp |-> 0, fp |-> FpOf(calls, cfas, 1)]]

(* The call frame instructions of a call: a frame of its size from the     *)
(* start, addressed by the frame pointer once that is set.                 *)
CodeOf(call) ==
    IF call.keeps_fp
    THEN <<[op |-> "def_cfa", reg |-> "fp", off |-> 2 * Slot], [op |-> "offset", reg |-> "fp", off |-> -(2 * Slot)]>>
    ELSE <<[op |-> "def_cfa_offset", off |-> Slot * call.size]>>

-----------------------------------------------------------------------------
(* The symbols of a library.                                               *)

NoName == "none"

-----------------------------------------------------------------------------
(* add and updateBounds: symbols and the address range of the library.     *)
NewCache == [blobs |-> <<>>, min |-> -1, max |-> -1, capacity |-> 1]

expand(c) == [c EXCEPT !.capacity = 2 * @]
updateBounds(c, start, end) ==
    [c EXCEPT !.min = IF @ = -1 \/ start < @ THEN start ELSE @, !.max = IF end > @ THEN end ELSE @]
add(c, blob, update) ==
    LET d == IF Len(c.blobs) >= c.capacity THEN expand(c) ELSE c
        e == [d EXCEPT !.blobs = Append(@, blob)]
    IN IF update THEN updateBounds(e, blob.start, blob.end) ELSE e

(* By start, the longer range first.                                       *)
comparator(a, b) == a.start < b.start \/ (a.start = b.start /\ a.end > b.end)
sort(c) ==
    IF c.blobs = <<>> THEN c
    ELSE LET s == SortSeq(c.blobs, comparator)
         IN [c EXCEPT !.blobs = s, !.min = IF @ = -1 THEN s[1].start ELSE @,
                      !.max = IF @ = -1 THEN Last(s).end ELSE @]

contains(c, address) == c.min <= address /\ address < c.max

RECURSIVE SearchBlob(_, _, _, _)
SearchBlob(blobs, address, low, high) ==
    LET mid == (low + high) \div 2
    IN IF low > high THEN [found |-> FALSE, i |-> low - 1]
       ELSE IF blobs[mid].end <= address THEN SearchBlob(blobs, address, mid + 1, high)
       ELSE IF blobs[mid].start > address THEN SearchBlob(blobs, address, low, mid - 1)
       ELSE [found |-> TRUE, i |-> mid]

(* An address behind an empty symbol, or right behind the end of one, also *)
(* belongs to it.                                                          *)
binarySearch(c, address) ==
    LET r == SearchBlob(c.blobs, address, 1, Len(c.blobs))
        b == c.blobs[r.i]
    IN IF r.found \/ (r.i > 0 /\ (b.start = b.end \/ b.end = address)) THEN b.name ELSE LibName

findBlobByAddress(c, address) ==
    LET i == SelectInSeq(c.blobs, LAMBDA b : b.start <= address /\ address < b.end)
    IN IF i = 0 THEN NoName ELSE c.blobs[i].name

findSymbol(c, name) ==
    LET i == SelectInSeq(c.blobs, LAMBDA b : b.name = name) IN IF i = 0 THEN 0 ELSE c.blobs[i].start

(* A name is [stem, dot]: dot says that a suffix with a dot follows. The   *)
(* first one without a suffix wins, else the last one.                     *)
findSymbolByPrefix(c, stem) ==
    LET plain == SelectInSeq(c.blobs, LAMBDA b : b.name.stem = stem /\ ~b.name.dot)
        last == SelectLastInSeq(c.blobs, LAMBDA b : b.name.stem = stem)
    IN IF plain > 0 THEN c.blobs[plain].start ELSE IF last > 0 THEN c.blobs[last].start ELSE 0

-----------------------------------------------------------------------------
(* profiler.cpp: the first library that has the symbol or the address.     *)
FirstIn(libs, Has(_)) == SelectInSeq(libs, Has)

(* prefix: the name ends in '*', as every mangled C++ name does.           *)
resolveSymbol(libs, name, prefix) ==
    LET Find(c) == IF prefix THEN findSymbolByPrefix(c, name.stem) ELSE findSymbol(c, name)
        i == FirstIn(libs, LAMBDA c : Find(c) # 0)
    IN IF i = 0 THEN 0 ELSE Find(libs[i])
findLibraryByAddress(libs, address) == FirstIn(libs, LAMBDA c : contains(c, address))
findNativeMethod(libs, address) ==
    LET i == findLibraryByAddress(libs, address) IN IF i = 0 THEN NoName ELSE binarySearch(libs[i], address)

-----------------------------------------------------------------------------
(* Import slots: at most ImportTypes for a function, the first ones found. *)
saveImport(imports, id, entry) ==
    IF Len(imports[id]) < ImportTypes THEN [imports EXCEPT ![id] = Append(@, entry)] ELSE imports
addImport(imports, entry, name) == IF name \in DOMAIN imports THEN saveImport(imports, name, entry) ELSE imports

Slots(imports) == UNION {ToSet(imports[id]) : id \in DOMAIN imports}
PageOf(address) == address \div Page

(* One call of mprotect from the page of the lowest slot to that of the    *)
(* highest one. Returns the pages made writable.                           *)
makeImportsPatchable(imports) ==
    IF Slots(imports) = {} THEN {} ELSE PageOf(Min(Slots(imports)))..PageOf(Max(Slots(imports)))

(* patchImport stores the hook in each slot of the function.               *)
patchImport(imports, id) == ToSet(imports[id])
findImport(imports, id) == IF imports[id] = <<>> THEN 0 ELSE imports[id][1]
=============================================================================
