---------------------------- MODULE RustDemangle ----------------------------
(***************************************************************************)
(* The Rust demangler (rustDemangle.cpp) and its caller (demangle.cpp).    *)
(*                                                                         *)
(* A symbol is a sequence of characters, each a string of length one; the  *)
(* marker ".llvm." is one character of its own. The printer p carries the  *)
(* parser (sym, next, depth), the status st, and its output: out tells     *)
(* whether anything is written, text is what was written, room the space   *)
(* that is left. A literal that the C++ code prints is one element of      *)
(* text whatever its length. val is the out parameter of the last parser   *)
(* method, and ovf is OverflowOverflow, which every caller passes on.      *)
(*                                                                         *)
(* The text conversions come first: UTF-8 in both directions, the          *)
(* hexadecimal constants of a symbol and the punycode of an identifier. A  *)
(* byte or a code point is a number. size_t and uint64_t have the maximum  *)
(* SizeMax, an array for a decoded identifier has SmallPunycodeLen         *)
(* elements, and an unsigned constant of a symbol is converted when it has *)
(* at most MaxNibbles significant digits (16).                             *)
(***************************************************************************)
EXTENDS Integers, Sequences, SequencesExt

CONSTANTS SizeMax, SmallPunycodeLen, MaxNibbles, MaxDepth, Margin, FirstSize, SizeLimit

Chars62 == <<"0", "1", "2", "3", "4", "5", "6", "7", "8", "9",
             "a", "b", "c", "d", "e", "f", "g", "h", "i", "j", "k", "l", "m",
             "n", "o", "p", "q", "r", "s", "t", "u", "v", "w", "x", "y", "z",
             "A", "B", "C", "D", "E", "F", "G", "H", "I", "J", "K", "L", "M",
             "N", "O", "P", "Q", "R", "S", "T", "U", "V", "W", "X", "Y", "Z">>
Upto(n) == {Chars62[i] : i \in 1..n}
Decimal == Upto(10)
Hex == Upto(16)
Digit62s == Upto(62)
Upper == {Chars62[i] : i \in 37..62}
Lower == {Chars62[i] : i \in 11..36}
Digit(c) == (CHOOSE i \in 1..62 : Chars62[i] = c) - 1

Bad == [ok |-> FALSE]

-----------------------------------------------------------------------------
(* UTF-8. utf8_next_char returns the bytes it consumed, or 5 for SIZE_MAX. *)

IsTailLoose(b) == b >= 128
IsTail(b) == b \in 128..191
Low6(b) == b % 64
TailByte(c) == 128 + Low6(c)

code_to_utf8(c) ==
    CASE c <= 127 -> <<c>>
      [] c \in 128..2047 -> <<192 + c \div 64, TailByte(c)>>
      [] c \in 2048..65535 -> <<224 + c \div 4096, TailByte(c \div 64), TailByte(c)>>
      [] c \in 65536..1114111 ->
            <<240 + c \div 262144, TailByte(c \div 4096), TailByte(c \div 64), TailByte(c)>>
      [] OTHER -> <<>>

utf8_next_char(s) ==
    LET b == s[1]
        Tails(n) == \A i \in 2..n : IsTail(s[i])
        Code(n, lead) == FoldLeft(LAMBDA x, t : x * 64 + Low6(t), lead, SubSeq(s, 2, n))
    IN CASE b < 128 -> [consumed |-> 1, ch |-> b]
         [] b \in 194..223 /\ Tails(2) -> [consumed |-> 2, ch |-> Code(2, b - 192)]
         [] b \in 224..239 /\ Tails(3) /\ (b = 224 => s[2] >= 160) /\ (b = 237 => s[2] < 160) ->
                [consumed |-> 3, ch |-> Code(3, b - 224)]
         [] b \in 240..244 /\ Tails(4) /\ (b = 240 => s[2] >= 144) /\ (b = 244 => s[2] < 144) ->
                [consumed |-> 4, ch |-> Code(4, b - 240)]
         [] OTHER -> [consumed |-> 5, ch |-> 0]

validate_char(n) == n \in 0..55295 \/ n \in 57344..1114111

unicode_iscontrol(ch) == ch < 32 \/ ch \in 127..159

(* A printable character is itself, the five C escapes and the quote take  *)
(* two characters, and any other character is written in hexadecimal.      *)
char_to_string(ch, quote) ==
    CASE ch \in {0, 9, 10, 13, 92, quote} -> <<"\\", ToString(ch)>>
      [] ch \in 32..126 /\ ch \notin {92, quote} -> <<ToString(ch)>>
      [] OTHER -> <<"\\u", ToString(ch)>>

(* The bytes of pairs of nibbles; parser_hex_nibbles admits only Hex.      *)
dinibble2int(buf, i) == Digit(buf[2 * i - 1]) * 16 + Digit(buf[2 * i])
Bytes(buf) == [i \in 1..(Len(buf) \div 2) |-> dinibble2int(buf, i)]

(* conv is conv_buf, whose bytes beyond conv_buf_len stay from earlier     *)
(* rounds, and bytes the input that has not entered it yet.                *)
RECURSIVE ConvertChars(_, _, _, _)
TakeChar(bytes, full, len, c, text) ==
    IF c.consumed > len THEN Bad
    ELSE ConvertChars(bytes, [i \in 1..4 |-> IF i <= len - c.consumed THEN full[i + c.consumed] ELSE full[i]],
                      len - c.consumed, text \o char_to_string(c.ch, 34))
NextChar(bytes, full, len, text) == TakeChar(bytes, full, len, utf8_next_char(full), text)
Refill(bytes, conv, convLen, n, text) ==
    NextChar(SubSeq(bytes, n + 1, Len(bytes)),
             [i \in 1..4 |-> IF i \in (convLen + 1)..(convLen + n) THEN bytes[i - convLen] ELSE conv[i]],
             convLen + n, text)
ConvertChars(bytes, conv, convLen, text) ==
    IF bytes = <<>> /\ convLen = 0 THEN [ok |-> TRUE, text |-> text]
    ELSE Refill(bytes, conv, convLen, Min({Len(bytes), 4 - convLen}), text)

nibbles_to_string(buf) ==
    IF Len(buf) % 2 # 0 THEN Bad ELSE ConvertChars(Bytes(buf), <<0, 0, 0, 0>>, 0, <<>>)

(* Leading zeros do not count; a constant that is too long stays as it is. *)
try_parse_uint(buf) ==
    LET zeros == SelectInSeq(buf, LAMBDA c : c # "0")
        sig == IF zeros = 0 THEN <<>> ELSE SubSeq(buf, zeros, Len(buf))
    IN IF Len(sig) > MaxNibbles \/ \E i \in DOMAIN sig : sig[i] \notin Hex THEN Bad
       ELSE [ok |-> TRUE, val |-> FoldLeft(LAMBDA x, c : x * 16 + Digit(c), 0, sig)]

-----------------------------------------------------------------------------
(* punycode_decode (RFC 3492). Delta reads one variable-length integer,    *)
(* Adapt is the loop of the bias adaptation.                               *)

Clamp(x) == IF x < 1 THEN 1 ELSE IF x > 26 THEN 26 ELSE x

RECURSIVE Delta(_, _, _, _, _)
Delta(puny, bias, k, w, delta) ==
    IF puny = <<>> \/ Head(puny) \notin Upto(36) THEN Bad
    ELSE LET t == Clamp(k - bias)
             c == Head(puny)
             d == IF c \in Lower THEN Digit(c) - 10 ELSE 26 + Digit(c)
         IN IF w = 0 \/ d > SizeMax \div w \/ d * w > SizeMax - delta THEN Bad
            ELSE IF d < t THEN [ok |-> TRUE, rest |-> Tail(puny), delta |-> delta + d * w]
            ELSE IF 36 - t > SizeMax \div w THEN Bad
            ELSE Delta(Tail(puny), bias, k + 36, w * (36 - t), delta + d * w)

RECURSIVE Adapt(_, _)
Adapt(delta, k) ==
    IF delta > 455 THEN Adapt(delta \div 35, k + 36) ELSE k + (36 * delta) \div (delta + 38)

RECURSIVE InsertAll(_, _, _, _, _, _)
Inserted(out, rest, at, code, bias) ==
    IF rest = <<>> THEN [ok |-> TRUE, text |-> out] ELSE InsertAll(out, rest, bias, 2, at + 1, code)
Insert(out, len, d, damp, at, code) ==
    IF ~validate_char(code) \/ len > SmallPunycodeLen THEN Bad
    ELSE Inserted(InsertAt(out, at + 1, code), d.rest, at, code,
                  Adapt(d.delta \div damp + (d.delta \div damp) \div len, 0))
InsertNext(out, d, damp, i, n, len) ==
    IF ~d.ok \/ i > SizeMax - d.delta \/ n > SizeMax - (i + d.delta) \div len THEN Bad
    ELSE Insert(out, len, d, damp, (i + d.delta) % len, n + (i + d.delta) \div len)
InsertAll(out, puny, bias, damp, i, n) ==
    InsertNext(out, Delta(puny, bias, 36, 1, 0), damp, i, n, Len(out) + 1)

(* The ASCII characters get codes below 128.                               *)
Codes(ascii) == [i \in DOMAIN ascii |-> IF ascii[i] \in Digit62s THEN Digit(ascii[i]) ELSE 62]

punycode_decode(ascii, puny) ==
    IF puny = <<>> \/ Len(ascii) > SmallPunycodeLen THEN Bad
    ELSE InsertAll(Codes(ascii), puny, 72, 700, 0, 128)

-----------------------------------------------------------------------------
(* The printer and its parser.                                             *)

Parser(sym, out, room, alternate) ==
    [sym |-> sym, next |-> 0, depth |-> 0, st |-> "ok", out |-> out, text |-> <<>>, room |-> room,
     blt |-> 0, alternate |-> alternate, val |-> 0, ovf |-> FALSE]

Fail(p, status) == [p EXCEPT !.st = status]
Invalid(p) == Fail(p, "invalid")
With(p, v) == [p EXCEPT !.val = v]

-----------------------------------------------------------------------------
(* The parser: every method returns p with the status and the value.       *)

Peek(p) == IF p.next = Len(p.sym) THEN "" ELSE p.sym[p.next + 1]
Skip(p) == [p EXCEPT !.next = @ + 1]

parser_push_depth(p) ==
    [p EXCEPT !.depth = @ + 1, !.st = IF p.depth + 1 > MaxDepth THEN "recursed" ELSE @]
parser_ch(p) == IF Peek(p) = "" THEN Invalid(p) ELSE With(Skip(p), Peek(p))
DepthAndTag(p) == IF p.st = "ok" THEN parser_ch(p) ELSE p

RECURSIVE parser_hex_nibbles(_)
parser_hex_nibbles(p) ==
    IF Peek(p) = "_" THEN Skip(p)
    ELSE IF Peek(p) \in Hex THEN parser_hex_nibbles(With(Skip(p), Append(p.val, Peek(p))))
    ELSE Invalid(p)
HexNibbles(p) == parser_hex_nibbles(With(p, <<>>))

RECURSIVE Digits62(_, _)
Digits62(p, x) ==
    IF Peek(p) = "_" THEN IF x = SizeMax THEN Invalid(p) ELSE With(Skip(p), x + 1)
    ELSE IF Peek(p) \notin Digit62s \/ x > SizeMax \div 62 \/ x * 62 > SizeMax - Digit(Peek(p))
    THEN Invalid(p)
    ELSE Digits62(Skip(p), x * 62 + Digit(Peek(p)))
parser_integer_62(p) == IF Peek(p) = "_" THEN With(Skip(p), 0) ELSE Digits62(p, 0)

PlusOne(p) == IF p.st # "ok" THEN p ELSE IF p.val = SizeMax THEN Invalid(p) ELSE With(p, p.val + 1)
parser_opt_integer_62(p, tag) ==
    IF Peek(p) # tag THEN With(p, 0) ELSE PlusOne(parser_integer_62(Skip(p)))
parser_disambiguator(p) == parser_opt_integer_62(p, "s")

parser_namespace(p) ==
    IF Peek(p) \in Upper THEN With(Skip(p), Peek(p))
    ELSE IF Peek(p) \in Lower THEN With(Skip(p), "")
    ELSE Invalid(p)

(* A back reference goes strictly before the "B" that introduces it.       *)
Before(q, p) ==
    IF q.st # "ok" THEN q
    ELSE IF q.val >= p.next - 1 THEN Invalid(q)
    ELSE IF p.depth + 1 > MaxDepth THEN Fail(q, "recursed")
    ELSE q
parser_backref(p) == Before(parser_integer_62(p), p)

RECURSIVE Digits10(_, _)
Digits10(p, len) ==
    IF Peek(p) \notin Decimal THEN With(p, len)
    ELSE IF len > SizeMax \div 10 \/ len * 10 > SizeMax - Digit(Peek(p)) THEN Invalid(p)
    ELSE Digits10(Skip(p), len * 10 + Digit(Peek(p)))

(* The text of an identifier: plain, or ASCII and punycode around the last *)
(* underscore.                                                             *)
Split(ident) ==
    LET u == SelectLastInSeq(ident, LAMBDA c : c = "_")
    IN [ascii |-> SubSeq(ident, 1, u - 1), puny |-> SubSeq(ident, u + 1, Len(ident))]

IdentLength(p) ==
    IF Peek(p) \notin Decimal THEN Invalid(p)
    ELSE IF Peek(p) = "0" THEN With(Skip(p), 0)
    ELSE Digits10(p, 0)
SkipUnderscore(p) == IF p.st = "ok" /\ Peek(p) = "_" THEN Skip(p) ELSE p
IdentParts(p, puny, ident) ==
    IF ~puny THEN With(p, [ascii |-> ident, puny |-> <<>>])
    ELSE IF Split(ident).puny = <<>> THEN Invalid(With(p, Split(ident)))
    ELSE With(p, Split(ident))
IdentText(p, puny) ==
    IF p.st # "ok" THEN p
    ELSE IF Len(p.sym) - p.next < p.val THEN Invalid(p)
    ELSE IdentParts([p EXCEPT !.next = @ + p.val], puny, SubSeq(p.sym, p.next + 1, p.next + p.val))
parser_ident(p) ==
    IF Peek(p) = "u" THEN IdentText(SkipUnderscore(IdentLength(Skip(p))), TRUE)
    ELSE IdentText(SkipUnderscore(IdentLength(p)), FALSE)

-----------------------------------------------------------------------------
(* The printer. Parse is the macro PARSE: after an error it prints "?"     *)
(* and leaves the calling function, otherwise K goes on.                   *)

Put(p, text) ==
    IF p.ovf THEN p
    ELSE IF ~p.out THEN p
    ELSE IF p.room < Len(text) THEN [p EXCEPT !.ovf = TRUE]
    ELSE [p EXCEPT !.text = @ \o text, !.room = @ - Len(text)]

Lit(p, s) == Put(p, <<s>>)

INVALID(p) == Invalid(Lit(p, "{invalid}"))

Parse(p, Method(_), K(_)) ==
    LET q == Method(p)
    IN CASE p.ovf -> p
         [] ~p.ovf /\ p.st # "ok" -> Lit(p, "?")
         [] OTHER -> IF q.st = "ok" THEN K(q) ELSE Lit(q, "{error}")

printer_eat(p, c) == ~p.ovf /\ p.st = "ok" /\ Peek(p) = c
printer_pop_depth(p) == [p EXCEPT !.depth = IF p.st = "ok" THEN @ - 1 ELSE @]

(* A decoded character needs room for four bytes whatever it takes.        *)
RECURSIVE PutWide(_, _)
PutWide(p, codes) ==
    IF codes = <<>> \/ p.ovf THEN p
    ELSE IF p.room < 4 THEN [p EXCEPT !.ovf = TRUE]
    ELSE LET utf8 == code_to_utf8(Head(codes))
         IN PutWide(Put(p, [i \in DOMAIN utf8 |-> ToString(utf8[i])]), Tail(codes))

PutDecoded(p, id, wide) ==
    IF wide.ok THEN PutWide(p, wide.text)
    ELSE Put(p, <<"punycode{">> \o id.ascii \o (IF id.ascii = <<>> THEN <<>> ELSE <<"-">>)
                \o id.puny \o <<"}">>)
printer_print_ident(p, id) ==
    IF p.ovf THEN p
    ELSE IF ~p.out THEN p
    ELSE IF id.puny = <<>> THEN Put(p, id.ascii)
    ELSE PutDecoded(p, id, punycode_decode(id.ascii, id.puny))

HasText(id) == id.ascii # <<>> \/ id.puny # <<>>

printer_print_lifetime_from_index(p, lt) ==
    IF p.ovf THEN p
    ELSE IF ~p.out THEN p
    ELSE IF lt = 0 THEN Put(p, <<"'", "_">>)
    ELSE IF p.blt < lt THEN INVALID(Lit(p, "'"))
    ELSE Put(p, <<"'", ToString(p.blt - lt)>>)

WithType(p) == IF p.alternate THEN p ELSE Lit(p, "type")
printer_print_const_uint(p) ==
    Parse(p, HexNibbles, LAMBDA q :
        WithType(Put(q, IF try_parse_uint(q.val).ok THEN <<ToString(try_parse_uint(q.val).val)>>
                        ELSE <<"0x">> \o q.val)))

PutString(p, s) == IF s.ok THEN Put(p, <<"quote">> \o s.text \o <<"quote">>) ELSE INVALID(p)
printer_print_const_str_literal(p) ==
    Parse(p, HexNibbles, LAMBDA q :
        PutString(q, nibbles_to_string(q.val)))

ConstBool(p) ==
    Parse(p, HexNibbles, LAMBDA q :
        LET v == try_parse_uint(q.val)
        IN IF v.ok /\ v.val \in {0, 1} THEN Lit(q, ToString(v.val)) ELSE INVALID(q))

ConstChar(p) ==
    Parse(p, HexNibbles, LAMBDA q :
        LET v == try_parse_uint(q.val)
        IN IF v.ok /\ validate_char(v.val)
           THEN Put(q, <<"'">> \o char_to_string(v.val, 39) \o <<"'">>) ELSE INVALID(q))

BasicTypes == {"b", "c", "e", "u", "a", "s", "l", "x", "n", "i", "h", "t", "m", "y", "o", "j",
               "f", "d", "z", "p", "v"}

-----------------------------------------------------------------------------
(* The grammar of version 0, one operator per printer function. kind names *)
(* the function to call: the one for an element of a list, for the target  *)
(* of a back reference, or for a part of what is printed.                  *)

RECURSIVE Render(_, _), SepList(_, _, _), Projections(_, _)
PathKind(inValue) == IF inValue THEN "path in value" ELSE "path"
ConstKind(inValue) == IF inValue THEN "const in value" ELSE "const"

Path(p, inValue) == Render(p, PathKind(inValue))
Type(p) == Render(p, "type")
Const(p, inValue) == Render(p, ConstKind(inValue))

printer_print_generic_arg(p) ==
    IF printer_eat(p, "L")
    THEN Parse(Skip(p), parser_integer_62, LAMBDA q : printer_print_lifetime_from_index(q, q.val))
    ELSE IF printer_eat(p, "K") THEN Const(Skip(p), FALSE)
    ELSE Type(p)

printer_print_const_struct(p) ==
    Parse(p, parser_disambiguator, LAMBDA a : Parse(a, parser_ident, LAMBDA b :
        Const(Lit(printer_print_ident(b, b.val), ": "), TRUE)))

OpenProjections(p) == Projections(p, p.val)
printer_print_dyn_trait(p) == OpenProjections(Render(p, "generics"))

(* PRINT_SEP_LIST_COUNT: val is the number of elements.                    *)
SepList(p, kind, count) ==
    CASE p.ovf \/ p.st # "ok" -> With(p, count)
      [] printer_eat(p, "E") -> With(Skip(p), count)
      [] OTHER -> SepList(Render(IF count > 0 THEN Lit(p, ",") ELSE p, kind), kind, count + 1)

CloseTuple(p) == Put(p, IF p.val = 1 THEN <<",", ")">> ELSE <<")">>)

(* The target is printed by the same printer, whose parser and status are  *)
(* put back; it is not visited when printing is skipped.                   *)
printer_print_backref(p, kind) ==
    Parse(p, parser_backref, LAMBDA q :
        IF ~q.out THEN With(q, FALSE)
        ELSE [Render([q EXCEPT !.next = q.val, !.depth = @ + 1], kind)
                 EXCEPT !.next = q.next, !.depth = q.depth, !.st = q.st])

ReturnType(p) == IF printer_eat(p, "u") THEN Skip(p) ELSE Type(Lit(p, " -> "))
Signature(p, prefix) ==
    ReturnType(Lit(SepList(Put(p, prefix \o <<"fn(">>), "type", 0), ")"))

Extern(p, prefix, abi) ==
    Signature(p, prefix \o <<"extern ">> \o ReplaceAll(abi, "_", "-") \o <<"quote">>)
Abi(p, prefix) ==
    IF ~printer_eat(p, "K") THEN Signature(p, prefix)
    ELSE IF printer_eat(Skip(p), "C") THEN Extern(Skip(Skip(p)), prefix, <<"C">>)
    ELSE Parse(Skip(p), parser_ident, LAMBDA q :
             IF q.val.ascii = <<>> \/ q.val.puny # <<>> THEN INVALID(q)
             ELSE Extern(q, prefix, q.val.ascii))
printer_print_function_type(p) ==
    Abi(IF printer_eat(p, "U") THEN Skip(p) ELSE p, IF printer_eat(p, "U") THEN <<"unsafe ">> ELSE <<>>)

(* The binder's lifetimes are named by their distance from the outermost.  *)
Lifetimes(n, blt) ==
    FlattenSeq([i \in 1..n |-> (IF i = 1 THEN <<>> ELSE <<", ">>) \o <<"'", ToString(blt + i - 1)>>])
Bound(p, kind) == IF kind = "fn" THEN printer_print_function_type(p) ELSE SepList(p, "trait", 0)
InBinder(p, kind, n) ==
    [Bound(Put([p EXCEPT !.blt = @ + n],
               IF n > 0 THEN <<"for<">> \o Lifetimes(n, p.blt) \o <<"> ">> ELSE <<>>), kind)
        EXCEPT !.blt = @ - n]
printer_in_binder(p, kind) ==
    Parse(p, LAMBDA q : parser_opt_integer_62(q, "G"), LAMBDA q :
        InBinder(q, kind, IF q.out THEN q.val ELSE 0))

-----------------------------------------------------------------------------
(* Paths, constants and types. After a failure the rest of the function is *)
(* left out, so only a function that succeeds pops its depth.              *)

QSelf(p, tag) ==
    Lit(IF tag = "M" THEN Type(Lit(p, "<")) ELSE Path(Lit(Type(Lit(p, "<")), " as "), FALSE), ">")

Name(p, id, ns, disambiguator) ==
    IF ns = "" THEN IF HasText(id) THEN printer_print_ident(Lit(p, "::"), id) ELSE p
    ELSE Put(IF HasText(id) THEN printer_print_ident(Put(p, <<"::{", ns, ":">>), id)
             ELSE Put(p, <<"::{", ns>>),
             <<"#", ToString(disambiguator), "}">>)
Parent(p) == IF p.st = "ok" THEN p ELSE Lit(p, "::")
Nested(p, inValue) ==
    Parse(p, parser_namespace, LAMBDA a :
        Parse(Parent(Path(a, inValue)), parser_disambiguator, LAMBDA d :
            Parse(d, parser_ident, LAMBDA e : Name(e, e.val, a.val, d.val))))

CrateHash(p, hash) == IF hash = 0 \/ p.alternate THEN p ELSE Put(p, <<"[", ToString(hash), "]">>)
Crate(p) ==
    Parse(p, parser_disambiguator, LAMBDA a : Parse(a, parser_ident, LAMBDA b :
        CrateHash(printer_print_ident(b, b.val), a.val)))

PathTag(p, tag, inValue) ==
    CASE tag = "C" -> Crate(p)
      [] tag = "N" -> Nested(p, inValue)
      [] tag \in {"M", "X"} ->
            Parse(p, parser_disambiguator, LAMBDA a :
                QSelf([Path([a EXCEPT !.out = FALSE], FALSE) EXCEPT !.out = a.out],
                      tag))
      [] tag = "Y" -> QSelf(p, tag)
      [] tag = "I" ->
            Lit(SepList(Put(Path(p, inValue), IF inValue THEN <<"::", "<">> ELSE <<"<">>), "arg", 0), ">")
      [] tag = "B" -> printer_print_backref(p, PathKind(inValue))
      [] OTHER -> INVALID(p)

printer_print_path(p, inValue) ==
    Parse(p, LAMBDA q : DepthAndTag(parser_push_depth(q)), LAMBDA q :
        printer_pop_depth(PathTag(q, q.val, inValue)))

(* A braced constant is closed unless its variant could not be read.       *)
Variant(p, Close(_)) ==
    Parse(Path(p, TRUE), parser_ch, LAMBDA q :
        CASE q.val = "U" -> Close(q)
          [] q.val = "T" -> Close(Lit(SepList(Lit(q, "("), "const in value", 0), ")"))
          [] q.val = "S" -> Close(Lit(SepList(Lit(q, " { "), "field", 0), " }"))
          [] OTHER -> INVALID(q))

ConstTag(p, tag, inValue) ==
    LET open == IF inValue THEN p ELSE Lit(p, "{")
        Close(q) == printer_pop_depth(IF inValue THEN q ELSE Lit(q, "}"))
        str == tag = "R" /\ printer_eat(p, "e")
    IN CASE tag = "p" -> printer_pop_depth(Lit(p, "_"))
         [] tag \in {"a", "s", "l", "x", "n", "i"} ->
               printer_pop_depth(printer_print_const_uint(
                   IF printer_eat(p, "n") THEN Lit(Skip(p), "-") ELSE p))
         [] tag \in {"h", "t", "m", "y", "o", "j"} ->
               printer_pop_depth(printer_print_const_uint(p))
         [] tag = "b" -> printer_pop_depth(ConstBool(p))
         [] tag = "c" -> printer_pop_depth(ConstChar(p))
         [] tag = "e" -> Close(printer_print_const_str_literal(Lit(open, "*")))
         [] str -> printer_pop_depth(printer_print_const_str_literal(Skip(p)))
         [] tag \in {"R", "Q"} /\ ~str ->
               Close(Const(Put(open, IF tag = "R" THEN <<"&">> ELSE <<"&", "mut ">>),
                                         TRUE))
         [] tag = "A" -> Close(Lit(SepList(Lit(open, "["), "const in value", 0), "]"))
         [] tag = "T" ->
               Close(CloseTuple(SepList(Lit(open, "("), "const in value", 0)))
         [] tag = "V" -> Variant(open, Close)
         [] tag = "B" -> printer_pop_depth(printer_print_backref(p, ConstKind(inValue)))
         [] OTHER -> INVALID(p)

printer_print_const(p, inValue) ==
    Parse(p, parser_ch, LAMBDA a : Parse(a, parser_push_depth, LAMBDA b :
        ConstTag(b, a.val, inValue)))

OpenIfRead(p) == With(p, p.st = "ok" /\ ~p.ovf /\ p.val)
printer_print_maybe_open_generics(p) ==
    IF printer_eat(p, "B")
    THEN OpenIfRead(printer_print_backref(Skip(p), "generics"))
    ELSE IF printer_eat(p, "I")
    THEN With(SepList(Lit(Path(Skip(p), FALSE), "<"), "arg", 0), TRUE)
    ELSE With(Path(p, FALSE), FALSE)

Projections(p, open) ==
    IF printer_eat(p, "p")
    THEN Parse(Lit(Skip(p), IF open THEN ", " ELSE "<"), parser_ident, LAMBDA q :
             Projections(Type(Lit(printer_print_ident(q, q.val), " = ")), TRUE))
    ELSE IF open THEN Lit(p, ">") ELSE p

Reference(p, tag) ==
    LET Target(q) == Type(IF tag = "R" THEN q ELSE Lit(q, "mut "))
    IN IF ~printer_eat(p, "L") THEN Target(p)
       ELSE Parse(Skip(p), parser_integer_62, LAMBDA q :
                Target(IF q.val = 0 THEN q ELSE Lit(printer_print_lifetime_from_index(q, q.val), " ")))
DynLifetime(p) ==
    IF ~printer_eat(p, "L") THEN INVALID(p)
    ELSE Parse(Skip(p), parser_integer_62, LAMBDA q :
             IF q.val = 0 THEN q ELSE printer_print_lifetime_from_index(Lit(q, " + "), q.val))
TypeTag(p, tag) ==
    CASE tag \in {"R", "Q"} -> Reference(Lit(p, "&"), tag)
      [] tag \in {"P", "O"} ->
            Type(Put(p, <<"*", IF tag = "P" THEN "const " ELSE "mut ">>))
      [] tag = "S" -> Lit(Type(Lit(p, "[")), "]")
      [] tag = "A" ->
            Lit(Const(Lit(Type(Lit(p, "[")), "; "), TRUE), "]")
      [] tag = "T" ->
            CloseTuple(SepList(Lit(p, "("), "type", 0))
      [] tag = "F" -> printer_in_binder(p, "fn")
      [] tag = "D" ->
            DynLifetime(printer_in_binder(Lit(p, "dyn "), "bounds"))
      [] tag = "B" -> printer_print_backref(p, "type")
      [] OTHER -> Path([p EXCEPT !.next = @ - 1], FALSE)

printer_print_type(p) ==
    Parse(p, parser_ch, LAMBDA a :
        IF a.val \in BasicTypes THEN Lit(a, a.val)
        ELSE Parse(a, parser_push_depth, LAMBDA b : printer_pop_depth(TypeTag(b, a.val))))

Render(p, kind) ==
    CASE kind = "arg" -> printer_print_generic_arg(p)
      [] kind = "type" -> printer_print_type(p)
      [] kind \in {"const", "const in value"} -> printer_print_const(p, kind = "const in value")
      [] kind = "field" -> printer_print_const_struct(p)
      [] kind = "trait" -> printer_print_dyn_trait(p)
      [] kind \in {"path", "path in value"} -> printer_print_path(p, kind = "path in value")
      [] kind = "generics" -> printer_print_maybe_open_generics(p)

-----------------------------------------------------------------------------
(* Validation and display of both manglings. IsAscii holds by the alphabet *)
(* of the model's symbols.                                                 *)

Prefixed(s, prefixes) == {i \in DOMAIN prefixes : IsPrefix(prefixes[i], s)}
Strip(s, prefixes) ==
    LET i == CHOOSE i \in Prefixed(s, prefixes) : \A j \in Prefixed(s, prefixes) : i <= j
    IN SubSeq(s, Len(prefixes[i]) + 1, Len(s))

V0Prefixes == <<<<"_", "R">>, <<"R">>, <<"_", "_", "R">>>>
LegacyPrefixes == <<<<"_", "Z", "N">>, <<"Z", "N">>, <<"_", "_", "Z", "N">>>>

try_parse_path(p) == Path(p, FALSE)
WithMargin(p) == IF p.room < Margin THEN [p EXCEPT !.ovf = TRUE] ELSE p

(* next is where the suffix of the symbol begins.                          *)
V0Result(p) ==
    IF p.st # "ok" THEN Bad
    ELSE [ok |-> TRUE, mangled |-> p.sym, next |-> p.next, depth |-> p.depth, elements |-> 0]
InstantiatingCrate(p) == IF p.st = "ok" /\ Peek(p) \in Upper THEN try_parse_path(p) ELSE p
V0Paths(inner) ==
    IF inner = <<>> \/ Head(inner) \notin Upper THEN Bad
    ELSE V0Result(InstantiatingCrate(try_parse_path(Parser(inner, FALSE, 0, FALSE))))
rust_demangle_v0_demangle(s) ==
    IF Prefixed(s, V0Prefixes) = {} THEN Bad
    ELSE V0Paths(Strip(s, V0Prefixes))

rust_demangle_v0_display_demangle(inner, len, alternate) ==
    WithMargin(Path(Parser(inner, TRUE, len, alternate), TRUE))

(* The number at the start of s: how many digits it has and its value.     *)
Number(s) ==
    LET end == SelectInSeq(s, LAMBDA c : c \notin Decimal)
        digits == IF end = 0 THEN s ELSE SubSeq(s, 1, end - 1)
    IN [digits |-> Len(digits), ok |-> digits # <<>> /\ end # 0,
        val |-> FoldLeft(LAMBDA x, c : IF x > SizeMax THEN x ELSE x * 10 + Digit(c), 0, digits)]

RECURSIVE LegacyElements(_, _, _)
LegacyElements(s, at, elements) ==
    LET rest == SubSeq(s, at + 1, Len(s))
        n == Number(rest)
    IN IF Head(rest) = "E" THEN [ok |-> TRUE, mangled |-> s, next |-> at + 1, elements |-> elements]
       ELSE IF ~n.ok \/ n.val > SizeMax \/ Len(rest) - n.digits <= n.val THEN Bad
       ELSE LegacyElements(s, at + n.digits + n.val, elements + 1)

rust_demangle_legacy_demangle(s) ==
    IF Prefixed(s, LegacyPrefixes) = {} \/ Strip(s, LegacyPrefixes) = <<>> THEN Bad
    ELSE LegacyElements(Strip(s, LegacyPrefixes), 0, 0)

is_rust_hash(s) ==
    /\ s # <<>> /\ s[1] = "h"
    /\ \A i \in 2..Len(s) : s[i] \in Hex \cup {"A", "B", "C", "D", "E", "F"}

Escapes == [SP |-> "@", BP |-> "*", RF |-> "&", LT |-> "<", GT |-> ">", LP |-> "(", RP |-> ")",
            C |-> ","]
EscapeName(e) == IF Len(e) = 2 THEN e[1] \o e[2] ELSE IF Len(e) = 1 THEN e[1] ELSE ""

(* The text of $escape$, or nothing when the rest of the element is raw.   *)
EscapeText(e) ==
    IF EscapeName(e) \in DOMAIN Escapes THEN <<Escapes[EscapeName(e)]>>
    ELSE IF Len(e) > 1 /\ e[1] = "u" /\ try_parse_uint(Tail(e)).ok
    THEN LET v == try_parse_uint(Tail(e)).val
         IN IF validate_char(v) /\ ~unicode_iscontrol(v)
            THEN [i \in DOMAIN code_to_utf8(v) |-> ToString(code_to_utf8(v)[i])] ELSE <<>>
    ELSE <<>>

RECURSIVE PrintElement(_, _)
From(s, i) == SubSeq(s, i, Len(s))
Plain(p, rest, special) ==
    IF special = 0 THEN Put(p, rest)
    ELSE PrintElement(Put(p, SubSeq(rest, 1, special - 1)), From(rest, special))
Unescaped(p, rest, after, text) == IF text = <<>> THEN Put(p, rest) ELSE PrintElement(Put(p, text), after)
Escaped(p, rest, dollar) ==
    IF dollar = 0 THEN Put(p, rest)
    ELSE Unescaped(p, rest, From(rest, dollar + 1), EscapeText(SubSeq(rest, 2, dollar - 1)))
PrintElement(p, rest) ==
    IF rest = <<>> \/ p.ovf THEN p
    ELSE IF IsPrefix(<<".", ".">>, rest) THEN PrintElement(Lit(p, "::"), From(rest, 3))
    ELSE IF rest[1] = "." THEN PrintElement(Lit(p, "."), From(rest, 2))
    ELSE IF rest[1] = "$" THEN Escaped(p, rest, SelectInSubSeq(rest, 2, Len(rest), LAMBDA c : c = "$"))
    ELSE Plain(p, rest, SelectInSeq(rest, LAMBDA c : c \in {"$", "."}))

(* printed counts the elements that were reached.                          *)
RECURSIVE PrintElements(_, _, _, _)
PrintNamed(p, name, rest, element, elements) ==
    IF p.alternate /\ element + 1 = elements /\ is_rust_hash(name) THEN With(p, element)
    ELSE PrintElements(PrintElement(IF element = 0 THEN p ELSE Lit(p, "::"),
                                    IF IsPrefix(<<"_", "$">>, name) THEN Tail(name) ELSE name),
                       rest, element + 1, elements)
PrintNumbered(p, inner, n, element, elements) ==
    IF Len(inner) - n.digits < n.val THEN With(p, element)
    ELSE PrintNamed(p, SubSeq(inner, n.digits + 1, n.digits + n.val), From(inner, n.digits + n.val + 1),
                    element, elements)
PrintElements(p, inner, element, elements) ==
    IF element = elements \/ p.ovf THEN With(p, element)
    ELSE PrintNumbered(p, inner, Number(inner), element, elements)

rust_demangle_legacy_display_demangle(res, len, alternate) ==
    WithMargin(PrintElements(Parser(res.mangled, TRUE, len, alternate), res.mangled, 0, res.elements))

(* A symbol without the suffix of ThinLTO.                                 *)
StripLlvm(s) ==
    LET at == SelectInSeq(s, LAMBDA c : c = ".llvm.")
        hex == Decimal \cup {"A", "B", "C", "D", "E", "F", "@"}
    IN IF at > 0 /\ \A i \in (at + 1)..Len(s) : s[i] \in hex THEN SubSeq(s, 1, at - 1) ELSE s

Unknown(s) == [style |-> "unknown", original |-> s, suffix |-> <<>>, mangled |-> <<>>, elements |-> 0]
WithSuffix(s, style, r, suffix) ==
    LET known == \/ suffix = <<>>
                 \/ Head(suffix) \in {".", ".llvm."} /\ " " \notin ToSet(suffix)
    IN [style |-> IF known THEN style ELSE "unknown", original |-> s,
        suffix |-> IF known THEN suffix ELSE <<>>, mangled |-> r.mangled, elements |-> r.elements]
Style(s, style, r) == WithSuffix(s, style, r, SubSeq(r.mangled, r.next + 1, Len(r.mangled)))
LegacyOrV0(s, legacy, v0) ==
    IF legacy.ok THEN Style(s, "legacy", legacy)
    ELSE IF v0.ok THEN Style(s, "v0", v0)
    ELSE Unknown(s)
DemangleStripped(s) == LegacyOrV0(s, rust_demangle_legacy_demangle(s), rust_demangle_v0_demangle(s))
rust_demangle_demangle(symbol) == DemangleStripped(StripLlvm(symbol))

(* What the display writes into a buffer of len characters.                *)
Display(res, len, alternate) ==
    CASE res.style = "unknown" -> Put(Parser(<<>>, TRUE, len, alternate), res.original)
      [] res.style = "legacy" -> rust_demangle_legacy_display_demangle(res, len, alternate)
      [] res.style = "v0" -> rust_demangle_v0_display_demangle(res.mangled, len, alternate)
PutSuffix(p, suffix) ==
    IF p.ovf THEN p
    ELSE IF p.room - Len(suffix) < Margin THEN [p EXCEPT !.ovf = TRUE]
    ELSE Put(p, suffix)
rust_demangle_display_demangle(res, len, alternate) == PutSuffix(Display(res, len, alternate), res.suffix)

-----------------------------------------------------------------------------
(* Demangle: buffers of doubling size until the text fits.                 *)

RECURSIVE DemangleInto(_, _, _)
DemangledOrLarger(p, res, full, size) ==
    IF p.ovf THEN DemangleInto(res, full, 2 * size)
    ELSE [ok |-> TRUE, text |-> p.text, size |-> size]
DemangleInto(res, full, size) ==
    IF size >= SizeLimit THEN Bad
    ELSE DemangledOrLarger(rust_demangle_display_demangle(res, size, ~full), res, full, size)

demangleRust(res, full) == DemangleInto(res, full, FirstSize)

(* A symbol of version 0, or one whose last "E" ends a hash of 16 digits.  *)
isRustSymbol(s) ==
    \/ IsPrefix(<<"_", "R">>, s)
    \/ LET e == SelectLastInSeq(s, LAMBDA c : c = "E")
       IN /\ e > 23
          /\ SubSeq(s, e - 19, e - 17) = <<"1", "7", "h">>
          /\ \A i \in (e - 16)..(e - 1) : s[i] \in Hex

(* From the last ")" back to the "(" that matches it.                      *)
RECURSIVE MatchingParen(_, _, _)
MatchingParen(s, at, balance) ==
    IF at <= 1 THEN 0
    ELSE IF s[at] = "(" /\ balance = 1 THEN at
    ELSE MatchingParen(s, at - 1, IF s[at] = "(" THEN balance - 1
                                  ELSE IF s[at] = ")" THEN balance + 1 ELSE balance)
cutArguments(s) ==
    LET close == SelectLastInSeq(s, LAMBDA c : c = ")")
        open == IF close = 0 THEN 0 ELSE MatchingParen(s, close - 1, 1)
    IN IF open = 0 THEN s ELSE SubSeq(s, 1, open - 1)
=============================================================================
