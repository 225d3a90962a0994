------------------------------ MODULE Counting ------------------------------
(***************************************************************************)
(* How many threads are at given places: the count that a gate, a shared   *)
(* lock or a size keeps in a variable, and how one thread's step changes   *)
(* it. The proofs about those variables rest on these lemmas.              *)
(***************************************************************************)
EXTENDS FiniteSetTheorems, TLAPS

(* The members of D that f puts at one of the places in S.                 *)
At(D, f, S) == {x \in D : f[x] \in S}
Count(D, f, S) == Cardinality(At(D, f, S))

(* A count is a natural number.                                            *)
LEMMA CountNat ==
    ASSUME NEW D, IsFiniteSet(D), NEW f, NEW S
    PROVE  IsFiniteSet(At(D, f, S)) /\ Count(D, f, S) \in Nat
<1>1. At(D, f, S) \in SUBSET D  BY DEF At
<1> QED  BY <1>1, FS_Subset, FS_CardinalityType DEF Count

(* When the count is zero, nobody is at such a place.                      *)
LEMMA CountZero ==
    ASSUME NEW D, IsFiniteSet(D), NEW f, NEW S, Count(D, f, S) = 0, NEW x \in D
    PROVE  f[x] \notin S
<1>1. At(D, f, S) = {}  BY CountNat, FS_EmptySet DEF Count
<1> QED  BY <1>1 DEF At

(* When nobody is at such a place, the count is zero.                      *)
LEMMA CountNone ==
    ASSUME NEW D, NEW f, NEW S, \A x \in D : f[x] \notin S
    PROVE  Count(D, f, S) = 0
<1>1. At(D, f, S) = {}  BY DEF At
<1> QED  BY <1>1, FS_EmptySet DEF Count

(* From f to g only x moves.                                               *)
OnlyMoves(D, f, g, x) == x \in D /\ \A y \in D \ {x} : g[y] = f[y]

(* When it moves into S, that adds one to the count.                       *)
LEMMA CountEnter ==
    ASSUME NEW D, IsFiniteSet(D), NEW f, NEW g, NEW x, OnlyMoves(D, f, g, x), NEW S,
           f[x] \notin S, g[x] \in S
    PROVE  Count(D, g, S) = Count(D, f, S) + 1
<1>1. At(D, g, S) = At(D, f, S) \cup {x} /\ x \notin At(D, f, S)  BY DEF At, OnlyMoves
<1> QED  BY <1>1, CountNat, FS_AddElement, ZenonT(30) DEF Count

(* When it moves out of S, that takes one off the count.                   *)
LEMMA CountLeave ==
    ASSUME NEW D, IsFiniteSet(D), NEW f, NEW g, NEW x, OnlyMoves(D, f, g, x), NEW S,
           f[x] \in S, g[x] \notin S
    PROVE  Count(D, g, S) = Count(D, f, S) - 1 /\ Count(D, f, S) # 0
<1>1. At(D, g, S) = At(D, f, S) \ {x} /\ x \in At(D, f, S)  BY DEF At, OnlyMoves
<1>2. Count(D, g, S) = Count(D, f, S) - 1
  BY <1>1, CountNat, FS_RemoveElement, ZenonT(30) DEF Count
<1> QED  BY <1>1, <1>2, CountZero DEF OnlyMoves

(* When it stays in S, the count stays.                                    *)
LEMMA CountStayIn ==
    ASSUME NEW D, NEW f, NEW g, NEW x, OnlyMoves(D, f, g, x), NEW S, f[x] \in S, g[x] \in S
    PROVE  Count(D, g, S) = Count(D, f, S)
<1>1. At(D, g, S) = At(D, f, S)  BY DEF At, OnlyMoves
<1> QED  BY <1>1 DEF Count

(* When it stays out of S, the count stays too.                            *)
LEMMA CountStayOut ==
    ASSUME NEW D, NEW f, NEW g, NEW x, OnlyMoves(D, f, g, x), NEW S, f[x] \notin S, g[x] \notin S
    PROVE  Count(D, g, S) = Count(D, f, S)
<1>1. At(D, g, S) = At(D, f, S)  BY DEF At, OnlyMoves
<1> QED  BY <1>1 DEF Count
=============================================================================
