------------------------------ MODULE FlameGraph ------------------------------
(***************************************************************************)
(* The flame graph: Profiler::dumpFlameGraph of profiler.cpp builds the    *)
(* trie of flameGraph.h, FlameGraph::dump writes it as a table of names    *)
(* and a list of calls, and the page of res/flame.html runs the calls.     *)
(*                                                                         *)
(* The trie is a function of paths: a path is the sequence of the keys     *)
(* <<name index, frame type>> from the root. A name is a sequence of the   *)
(* bytes of its UTF-8 form. FrameName, which makes names and types of the  *)
(* frames, is not here: a frame is its name and its type.                  *)
(***************************************************************************)
EXTENDS Integers, Sequences, FiniteSets, SequencesExt, FiniteSetsExt, TLC

CONSTANTS
    SignedChar,        \* char is signed, as on x86
    Space,             \* the byte of ' ': a length is written as the byte that far behind it
    MaxPrefix,         \* the longest prefix that is shared, 95
    Quote, Backslash   \* the bytes of ' and \, those of the lengths 7 and 60 as well

FRAME_INTERPRETED == 0
FRAME_JIT_COMPILED == 1
FRAME_INLINED == 2
FRAME_NATIVE == 3
FRAME_C1_COMPILED == 6

NewTrie == [total |-> 0, self |-> 0, inlined |-> 0, c1 |-> 0, interpreted |-> 0]
NewGraph == [trie |-> (<<>> :> NewTrie), cpool |-> <<>>]

Children(trie, path) == {q \in DOMAIN trie : Len(q) = Len(path) + 1 /\ Front(q) = path}

type(f, key) ==
    CASE f.inlined * 3 >= f.total -> FRAME_INLINED
      [] f.inlined * 3 < f.total /\ f.c1 * 2 >= f.total -> FRAME_C1_COMPILED
      [] f.inlined * 3 < f.total /\ f.c1 * 2 < f.total /\ f.interpreted * 2 >= f.total -> FRAME_INTERPRETED
      [] OTHER -> key[2]

(* The suffix "_[j]", "_[i]", ... that marks the type of a frame. *)
Stripped(name) ==
    LET n == Len(name)
    IN IF n > 4 /\ name[n - 3] = 95 /\ name[n - 2] = 91 /\ name[n] = 93
       THEN SubSeq(name, 1, n - 4) ELSE name

(* The total of the parent grows, not that of the child, which grows when  *)
(* the next frame or the sample itself is added to it.                     *)
addChild(g, path, frame, value) ==
    LET s == Stripped(frame.name)
        cpool == IF s \in Range(g.cpool) THEN g.cpool ELSE Append(g.cpool, s)
        index == CHOOSE i \in DOMAIN cpool : cpool[i] = s
        counted == frame.type \in {FRAME_INLINED, FRAME_C1_COMPILED, FRAME_INTERPRETED}
        child == Append(path, <<index, IF counted THEN FRAME_JIT_COMPILED ELSE frame.type>>)
        trie == [g.trie EXCEPT ![path].total = @ + value]
        node == IF child \in DOMAIN trie THEN trie[child] ELSE NewTrie
        By(t) == IF frame.type = t THEN value ELSE 0
    IN [graph |-> [trie |-> (child :> [node EXCEPT !.inlined = @ + By(FRAME_INLINED),
                                                   !.c1 = @ + By(FRAME_C1_COMPILED),
                                                   !.interpreted = @ + By(FRAME_INTERPRETED)]) @@ trie,
                   cpool |-> cpool],
        at |-> child]

AddStack(g, frames, value) ==
    LET last == FoldLeft(LAMBDA s, frame : addChild(s.graph, s.at, frame, value),
                         [graph |-> g, at |-> <<>>], frames)
    IN [last.graph EXCEPT !.trie[last.at].total = @ + value, !.trie[last.at].self = @ + value]

(* The frames of a trace start at the top. The `added` frames of the       *)
(* thread, the CPU and the scheduling policy are its last ones, and come   *)
(* first in a reversed graph as well.                                      *)
StackOf(frames, reverse, added) ==
    LET n == Len(frames)
        first(k) == [frames[n + 1 - k] EXCEPT !.type = FRAME_NATIVE]
    IN IF reverse THEN [k \in 1..added |-> first(k)] \o SubSeq(frames, 1, n - added)
       ELSE Reverse(frames)

BuildGraph(samples, reverse, added) ==
    FoldLeft(LAMBDA g, s : IF s.counter = 0 THEN g ELSE AddStack(g, StackOf(s.frames, reverse, added), s.counter),
             NewGraph, samples)

-----------------------------------------------------------------------------
RECURSIVE depth(_, _, _)
depth(trie, path, cutoff) ==
    1 + Max({0} \cup {depth(trie, q, cutoff) : q \in {c \in Children(trie, path) : trie[c].total >= cutoff}})

(* The names depth() marks: those of the nodes it visits. *)
RECURSIVE Marked(_, _, _)
Marked(trie, path, cutoff) ==
    UNION {{Last(q)[1]} \cup Marked(trie, q, cutoff) :
               q \in {c \in Children(trie, path) : trie[c].total >= cutoff}}

RECURSIVE Before(_, _)
Before(a, b) ==
    CASE b = <<>> -> FALSE
      [] a = <<>> /\ b # <<>> -> TRUE
      [] OTHER -> Head(a) < Head(b) \/ (Head(a) = Head(b) /\ Before(Tail(a), Tail(b)))

(* The comparison `a[i] > 127` is of a char: never true where it is signed. *)
getCommonPrefix(a, b) ==
    LET stops == {i \in 1..Min({Len(a), Len(b)}) : a[i] # b[i] \/ (~SignedChar /\ a[i] > 127)}
    IN IF stops = {} THEN Min({Len(a), Len(b)}) ELSE Min(stops) - 1

replace(s, c) == FlattenSeq([i \in DOMAIN s |-> IF s[i] = c THEN <<Backslash, c>> ELSE <<s[i]>>])
escapeQuotesFirst(s) == replace(replace(s, Quote), Backslash)
escape(s) == replace(replace(s, Backslash), Quote)

entryUncapped(prev, name) ==
    LET prefix_len == getCommonPrefix(prev, name)
    IN escape(<<prefix_len + Space>> \o SubSeq(name, prefix_len + 1, Len(name)))
entry(prev, name) ==
    LET prefix_len == Min({getCommonPrefix(prev, name), MaxPrefix})
    IN escape(<<prefix_len + Space>> \o SubSeq(name, prefix_len + 1, Len(name)))

(* The marked names in their order; `all` comes before them. *)
NameOrder(g, cutoff) ==
    SetToSortSeq({g.cpool[i] : i \in Marked(g.trie, <<>>, cutoff)}, Before)
printCpool(names) == [i \in DOMAIN names |-> entry(IF i = 1 THEN <<>> ELSE names[i - 1], names[i])]

-----------------------------------------------------------------------------
(* printFrame writes one call and remembers its level, x and total, from   *)
(* which the next call is abbreviated. A call is the letter, the name and  *)
(* type, and its arguments.                                                *)
printCallIgnoringX(last, name, t, f, level, x) ==
    LET extra == f.inlined + f.c1 + f.interpreted > 0 /\ f.inlined < f.total /\ f.interpreted < f.total
        place == CASE level = last.level + 1 -> [call |-> "u", args |-> <<>>]
                   [] level = last.level /\ x = last.x + last.total -> [call |-> "n", args |-> <<>>]
                   [] OTHER -> [call |-> "f", args |-> <<level, x - last.x>>]
    IN [call |-> place.call, name |-> name, type |-> t, place |-> place.args,
        width |-> IF f.total # last.total \/ extra THEN <<f.total>> ELSE <<>>,
        details |-> IF extra THEN <<f.inlined, f.c1, f.interpreted>> ELSE <<>>]
printCall(last, name, t, f, level, x) ==
    LET extra == f.inlined + f.c1 + f.interpreted > 0 /\ f.inlined < f.total /\ f.interpreted < f.total
        place == CASE level = last.level + 1 /\ x = last.x -> [call |-> "u", args |-> <<>>]
                   [] level = last.level /\ x = last.x + last.total -> [call |-> "n", args |-> <<>>]
                   [] OTHER -> [call |-> "f", args |-> <<level, x - last.x>>]
    IN [call |-> place.call, name |-> name, type |-> t, place |-> place.args,
        width |-> IF f.total # last.total \/ extra THEN <<f.total>> ELSE <<>>,
        details |-> IF extra THEN <<f.inlined, f.c1, f.interpreted>> ELSE <<>>]

RECURSIVE printFrame(_, _, _, _, _, _)
printFrame(s, g, names, cutoff, path, x) ==
    LET f == g.trie[path]
        Order(p) == IF p = <<>> THEN 0 ELSE LET order == {i \in DOMAIN names : names[i] = g.cpool[Last(p)[1]]}
                                            IN IF order = {} THEN 0 ELSE Min(order)
        call == printCall(s.last, Order(path), type(f, IF path = <<>> THEN <<0, FRAME_NATIVE>> ELSE Last(path)),
                          f, Len(path), x)
        printed == [calls |-> Append(s.calls, call), last |-> [level |-> Len(path), x |-> x, total |-> f.total]]
        children == SetToSortSeq(Children(g.trie, path),
                        LAMBDA p, q : Order(p) < Order(q) \/ (Order(p) = Order(q) /\ Last(p)[2] < Last(q)[2])
                                      \/ (Order(p) = Order(q) /\ Last(p)[2] = Last(q)[2] /\ Last(p)[1] < Last(q)[1]))
        Visit(acc, q) == [s |-> IF g.trie[q].total >= cutoff
                                THEN printFrame(acc.s, g, names, cutoff, q, acc.x) ELSE acc.s,
                          x |-> acc.x + g.trie[q].total]
    IN FoldLeft(Visit, [s |-> printed, x |-> x + f.self], children).s

(* minwidth is a percentage. *)
dump(g, minwidth) ==
    LET cutoff == (g.trie[<<>>].total * minwidth) \div 100
        names == NameOrder(g, cutoff)
    IN [depth |-> depth(g.trie, <<>>, cutoff), cpool |-> printCpool(names), cutoff |-> cutoff,
        calls |-> printFrame([calls |-> <<>>, last |-> [level |-> 0, x |-> 0, total |-> 0]],
                             g, names, cutoff, <<>>, 0).calls]

-----------------------------------------------------------------------------
(* The page. A string literal drops the backslash before a character, its  *)
(* text is counted in characters, not in bytes (a byte of 128 to 191 only  *)
(* continues a character, and is replaced where there is none), and        *)
(* unpack() restores the prefixes.                                         *)
RECURSIVE Literal(_)
Literal(s) == IF s = <<>> THEN <<>>
              ELSE IF Head(s) = Backslash THEN SubSeq(s, 2, 2) \o Literal(SubSeq(s, 3, Len(s)))
              ELSE <<Head(s)>> \o Literal(Tail(s))
Chars(s) ==
    FoldLeft(LAMBDA chars, b : IF b \notin 128..191 THEN Append(chars, <<b>>)
                               ELSE IF chars = <<>> THEN <<<<65533>>>>
                               ELSE Append(Front(chars), Append(Last(chars), b)), <<>>, s)

All == <<<<97>>, <<108>>, <<108>>>>
unpack(cpool) ==
    FoldLeft(LAMBDA read, e : LET chars == Chars(Literal(e))
                                  n == Head(Head(chars)) - Space
                              IN Append(read, SubSeq(Last(read), 1, Min({n, Len(Last(read))})) \o Tail(chars)),
             <<All>>, cpool)

(* f(), u() and n() of the page: left0, level0 and width0 are the place of *)
(* the last frame; `width || width0` takes the last width for none or 0.   *)
ReadCall(page, c) ==
    LET level == CASE c.call = "f" -> c.place[1] [] c.call = "u" -> page.level + 1 [] OTHER -> page.level
        step == CASE c.call = "f" -> c.place[2] [] c.call = "u" -> 0 [] OTHER -> page.width
        width == IF c.width = <<>> \/ c.width = <<0>> THEN page.width ELSE c.width[1]
    IN [level |-> level, left |-> page.left + step, width |-> width,
        frames |-> Append(page.frames, [level |-> level, left |-> page.left + step, width |-> width,
                                        name |-> c.name, type |-> c.type, details |-> c.details])]
ReadPage(calls) == FoldLeft(ReadCall, [level |-> 0, left |-> 0, width |-> 0, frames |-> <<>>], calls).frames

-----------------------------------------------------------------------------
(* What the page must show, from the samples alone. The frames of a stack  *)
(* that are the same one in the graph: same names, and types that differ   *)
(* at most in how the method was compiled.                                 *)
SameFrame(frame) ==
    <<Stripped(frame.name), IF frame.type \in {FRAME_INLINED, FRAME_C1_COMPILED, FRAME_INTERPRETED}
                            THEN FRAME_JIT_COMPILED ELSE frame.type>>
Stacks(samples, reverse, added) ==
    [i \in DOMAIN samples |-> LET stack == StackOf(samples[i].frames, reverse, added)
                              IN [k \in DOMAIN stack |-> SameFrame(stack[k])]]
Width(samples, stacks, p) ==
    MapThenSumSet(LAMBDA i : IF IsPrefix(p, stacks[i]) THEN samples[i].counter ELSE 0, DOMAIN samples)

(* The path of names of the k-th frame of the page: its ancestors are the  *)
(* last frames before it of each lower level.                              *)
PathShown(frames, titles, k) ==
    [l \in 1..frames[k].level |->
        titles[1 + frames[Max({j \in 1..k : frames[j].level = l})].name]]

(* The page shows the profile the samples make: every stack of frames at   *)
(* least as wide as the cutoff, once, under its names and with its number  *)
(* of samples; a frame lies within its parent and beside its siblings, and *)
(* all of them, when none is cut off, behind the samples of the parent     *)
(* itself; on one of the `depth` levels the page has room for. Where char  *)
(* is signed, the names are right only when they are in ASCII.             *)
GraphReadable(d, samples, reverse, added) ==
    LET titles == unpack(d.cpool)
        frames == ReadPage(d.calls)
        stacks == Stacks(samples, reverse, added)
        paths == {p \in UNION {{SubSeq(stacks[i], 1, n) : n \in 0..Len(stacks[i])} : i \in DOMAIN stacks} :
                      Width(samples, stacks, p) >= d.cutoff /\ Width(samples, stacks, p) > 0}
        NamesOf(p) == [l \in DOMAIN p |-> Chars(p[l][1])]
        expected == [p \in paths |-> <<NamesOf(p), Width(samples, stacks, p)>>]
        shown == [k \in DOMAIN frames |-> <<PathShown(frames, titles, k), frames[k].width>>]
        Times(h, v) == Cardinality({x \in DOMAIN h : h[x] = v})
        Ascii == \A i \in DOMAIN stacks : \A k \in DOMAIN stacks[i] : \A b \in Range(stacks[i][k][1]) : b < 128
    IN /\ paths # {} /\ (SignedChar => Ascii) =>
              \A v \in Range(expected) \cup Range(shown) : Times(expected, v) = Times(shown, v)
       /\ \A k \in DOMAIN frames : frames[k].level < d.depth
       /\ \A k \in 2..Len(frames) :
              LET parent == frames[Max({j \in 1..k : frames[j].level = frames[k].level - 1})]
                  beside == {j \in 1..(k - 1) : frames[j].level = frames[k].level}
              IN /\ frames[k].left >= parent.left
                 /\ frames[k].left + frames[k].width <= parent.left + parent.width
                 /\ \A j \in beside : frames[j].left + frames[j].width <= frames[k].left
       /\ d.cutoff = 0 => \A k \in DOMAIN frames :
              LET after == {j \in DOMAIN frames : j > k /\ frames[j].level <= frames[k].level}
                  below == {j \in DOMAIN frames : j > k /\ frames[j].level = frames[k].level + 1
                                                  /\ \A a \in after : j < a}
                  total == MapThenSumSet(LAMBDA j : frames[j].width, below)
              IN below # {} => Min({frames[j].left : j \in below}) + total = frames[k].left + frames[k].width
=============================================================================
