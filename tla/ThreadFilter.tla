------------------------------ MODULE ThreadFilter ------------------------------
(***************************************************************************)
(* The set of threads to profile: a table of bitmaps that are allocated on *)
(* first use and never released while the filter lives. The thread API     *)
(* adds and removes from any thread, and a wall clock engine collects.     *)
(***************************************************************************)
EXTENDS Integers, Counting

CONSTANTS
    Callers,            \* threads that call the filter
    Ids,                \* thread ids; id \div Capacity is its bitmap
    Capacity,           \* BITMAP_CAPACITY
    MaxCalls            \* bound on calls

ThreadFilterShape == IsFiniteSet(Callers) /\ IsFiniteSet(Ids) /\ MaxCalls \in Nat

VARIABLES
    bits,               \* ids whose bit is set
    bitmaps,            \* bitmaps installed
    memory,             \* bitmaps allocated in all
    _size,
    c,                  \* caller -> [at, id]
    calls,
    torn                \* history: the filter was cleared under a call

vars == <<bits, bitmaps, memory, _size, c, calls, torn>>

BitmapOf(id) == id \div Capacity
Resting == [at |-> "run", id |-> 0]

(* The constructor allocates the first bitmap.                             *)
Init ==
    /\ bits = {} /\ bitmaps = {0} /\ memory = 1 /\ _size = 0
    /\ c = [k \in Callers |-> Resting] /\ calls = 0 /\ torn = FALSE

Step(k, s) == c' = [c EXCEPT ![k].at = s]

(* init adds the ids of the filter the same way.                           *)
BeginAdd(k, id) ==
    /\ c[k].at = "run" /\ calls < MaxCalls
    /\ calls' = calls + 1
    /\ IF BitmapOf(id) \in bitmaps
       THEN c' = [c EXCEPT ![k] = [at |-> "or", id |-> id]] /\ memory' = memory
       ELSE c' = [c EXCEPT ![k] = [at |-> "install", id |-> id]] /\ memory' = memory + 1
    /\ UNCHANGED <<bits, bitmaps, _size, torn>>

Install(k) ==
    /\ c[k].at = "install"
    /\ IF BitmapOf(c[k].id) \in bitmaps THEN memory' = memory - 1 /\ bitmaps' = bitmaps
       ELSE memory' = memory /\ bitmaps' = bitmaps \cup {BitmapOf(c[k].id)}
    /\ Step(k, "or")
    /\ UNCHANGED <<bits, _size, calls, torn>>

OrBit(k) ==
    /\ c[k].at = "or"
    /\ bits' = bits \cup {c[k].id}
    /\ Step(k, IF c[k].id \in bits THEN "run" ELSE "inc")
    /\ UNCHANGED <<bitmaps, memory, _size, calls, torn>>

AndBit(k, id) ==
    /\ c[k].at = "run" /\ calls < MaxCalls
    /\ calls' = calls + 1
    /\ BitmapOf(id) \in bitmaps
    /\ bits' = bits \ {id}
    /\ c' = [c EXCEPT ![k] = IF id \in bits THEN [at |-> "dec", id |-> id] ELSE @]
    /\ UNCHANGED <<bitmaps, memory, _size, torn>>

CountBit(k) ==
    /\ c[k].at \in {"inc", "dec"}
    /\ _size' = IF c[k].at = "inc" THEN _size + 1 ELSE _size - 1
    /\ c' = [c EXCEPT ![k] = Resting]
    /\ UNCHANGED <<bits, bitmaps, memory, calls, torn>>

(* clear empties the bitmaps before a session. It is not synchronised with *)
(* the thread API: a call that has changed its bit counts it afterwards.   *)
Clear ==
    /\ bits' = {} /\ _size' = 0
    /\ torn' = (torn \/ \E k \in Callers : c[k].at \in {"inc", "dec"})
    /\ UNCHANGED <<bitmaps, memory, c, calls>>

Next ==
    \/ Clear
    \/ \E k \in Callers :
          \/ \E id \in Ids : BeginAdd(k, id) \/ AndBit(k, id)
          \/ Install(k) \/ OrBit(k) \/ CountBit(k)

Spec == Init /\ [][Next]_vars

accept(id) == BitmapOf(id) \in bitmaps /\ id \in bits
collect == {id \in Ids : accept(id)}
usedMemory == Cardinality(bitmaps)

-----------------------------------------------------------------------------
TypeOK == bits \subseteq Ids /\ _size \in Int /\ memory \in Nat /\ calls \in 0..MaxCalls

(* The size the wall clock engine divides by is the number of threads it   *)
(* collects once every caller has counted, unless a session cleared the    *)
(* filter under a call; a set bit has a bitmap, and a bitmap that lost the *)
(* race to be installed is freed.                                          *)
FilterCounted ==
    /\ ~torn => _size = Cardinality(collect) - Cardinality({k \in Callers : c[k].at = "inc"})
                                             + Cardinality({k \in Callers : c[k].at = "dec"})
    /\ collect = bits
    /\ memory = usedMemory + Cardinality({k \in Callers : c[k].at = "install"})
-----------------------------------------------------------------------------
(* Proofs, for any number of callers and ids, and any size of a bitmap.    *)

Places == {"run", "install", "or", "inc", "dec"}
place == [k \in Callers |-> c[k].at]
HowMany(p) == Count(Callers, place, {p})

(* A bit is set, or about to be, only in a bitmap that is installed.       *)
BitsInv ==
    /\ TypeOK /\ torn \in BOOLEAN /\ IsFiniteSet(bitmaps)
    /\ c \in [Callers -> [at : Places, id : Ids \cup {0}]]
    /\ \A k \in Callers : c[k].at # "run" => c[k].id \in Ids
    /\ \A k \in Callers : c[k].at = "or" => BitmapOf(c[k].id) \in bitmaps
    /\ \A id \in bits : BitmapOf(id) \in bitmaps

(* The size lags behind the bits by the callers that have yet to count.    *)
SizeInv == ~torn => _size = Cardinality(bits) - HowMany("inc") + HowMany("dec")

(* Every bitmap allocated is installed or about to be.                     *)
MemoryInv == memory = Cardinality(bitmaps) + HowMany("install")

(* The counts are numbers, and a caller is at one place.                   *)
LEMMA Numbers ==
    ASSUME ThreadFilterShape, BitsInv
    PROVE  /\ IsFiniteSet(bits) /\ Cardinality(bits) \in Nat /\ Cardinality(bitmaps) \in Nat
           /\ \A p : HowMany(p) \in Nat
<1>1. IsFiniteSet(bits) /\ Cardinality(bits) \in Nat
  BY FS_Subset, FS_CardinalityType DEF ThreadFilterShape, BitsInv, TypeOK
<1>2. Cardinality(bitmaps) \in Nat
  BY FS_CardinalityType DEF BitsInv
<1>3. \A p : HowMany(p) \in Nat
  BY CountNat DEF HowMany, ThreadFilterShape
<1> QED  BY <1>1, <1>2, <1>3

(* How one caller's step from place to place changes the counts.           *)
LEMMA CallerMoves ==
    ASSUME ThreadFilterShape, NEW k \in Callers, NEW p, c \in [Callers -> [at : Places, id : Ids \cup {0}]],
           DOMAIN c' = Callers, \A j \in Callers \ {k} : c'[j] = c[j]
    PROVE  /\ c[k].at # p /\ c'[k].at = p => HowMany(p)' = HowMany(p) + 1
           /\ c[k].at = p /\ c'[k].at # p => HowMany(p)' = HowMany(p) - 1
           /\ (c[k].at = p <=> c'[k].at = p) => HowMany(p)' = HowMany(p)
<1>0. IsFiniteSet(Callers)  BY DEF ThreadFilterShape
<1>1. OnlyMoves(Callers, place, place', k) /\ place[k] = c[k].at /\ place'[k] = c'[k].at
  BY DEF OnlyMoves, place
<1>2. HowMany(p) = Count(Callers, place, {p}) /\ HowMany(p)' = Count(Callers, place', {p})
  BY DEF HowMany
<1> HIDE DEF place
<1>3. ASSUME c[k].at # p, c'[k].at = p  PROVE HowMany(p)' = HowMany(p) + 1
  <2>1. place[k] \notin {p} /\ place'[k] \in {p}  BY <1>1, <1>3
  <2> QED  BY <1>0, <1>1, <1>2, <2>1, CountEnter
<1>4. ASSUME c[k].at = p, c'[k].at # p  PROVE HowMany(p)' = HowMany(p) - 1
  <2>1. place[k] \in {p} /\ place'[k] \notin {p}  BY <1>1, <1>4
  <2> QED  BY <1>0, <1>1, <1>2, <2>1, CountLeave
<1>5. ASSUME c[k].at = p, c'[k].at = p  PROVE HowMany(p)' = HowMany(p)
  <2>1. place[k] \in {p} /\ place'[k] \in {p}  BY <1>1, <1>5
  <2> QED  BY <1>0, <1>1, <1>2, <2>1, CountStayIn
<1>6. ASSUME c[k].at # p, c'[k].at # p  PROVE HowMany(p)' = HowMany(p)
  <2>1. place[k] \notin {p} /\ place'[k] \notin {p}  BY <1>1, <1>6
  <2> QED  BY <1>0, <1>1, <1>2, <2>1, CountStayOut
<1> QED  BY <1>3, <1>4, <1>5, <1>6

(* Every step keeps the bits in installed bitmaps.                         *)
LEMMA BitsStep ==
    ASSUME ThreadFilterShape, BitsInv, MemoryInv, [Next]_vars
    PROVE  BitsInv'
<1> USE DEF ThreadFilterShape, BitsInv, TypeOK, Places
<1>1. ASSUME NEW k \in Callers, NEW id \in Ids, BeginAdd(k, id)  PROVE BitsInv'
  BY <1>1 DEF BeginAdd
<1>2. ASSUME NEW k \in Callers, NEW id \in Ids, AndBit(k, id)  PROVE BitsInv'
  BY <1>2 DEF AndBit
<1>3. ASSUME NEW k \in Callers, Install(k)  PROVE BitsInv'
  <2>1. CASE BitmapOf(c[k].id) \in bitmaps
    <3>1. memory - 1 \in Nat
      <4>1. c' = [c EXCEPT ![k].at = "or"] /\ c[k].at = "install"
        BY <1>3 DEF Install, Step
      <4>2. HowMany("install")' = HowMany("install") - 1
        BY <4>1, CallerMoves
      <4>3. HowMany("install")' \in Nat
        BY CountNat DEF HowMany
      <4> QED  BY <4>2, <4>3, Numbers DEF MemoryInv
    <3> QED  BY <1>3, <2>1, <3>1 DEF Install, Step
  <2>2. CASE BitmapOf(c[k].id) \notin bitmaps
    <3>1. IsFiniteSet(bitmaps \cup {BitmapOf(c[k].id)})
      BY FS_AddElement
    <3> QED  BY <1>3, <2>2, <3>1, Zenon DEF Install, Step
  <2> QED  BY <2>1, <2>2
<1>4. ASSUME NEW k \in Callers, OrBit(k)  PROVE BitsInv'
  BY <1>4 DEF OrBit, Step
<1>5. ASSUME NEW k \in Callers, CountBit(k)  PROVE BitsInv'
  BY <1>5 DEF CountBit, Resting
<1>6. CASE Clear
  BY <1>6 DEF Clear
<1>7. CASE UNCHANGED vars
  BY <1>7 DEF vars
<1> QED  BY <1>1, <1>2, <1>3, <1>4, <1>5, <1>6, <1>7 DEF Next

(* Every step keeps the count of the bitmaps.                              *)
LEMMA MemoryStep ==
    ASSUME ThreadFilterShape, BitsInv, MemoryInv, [Next]_vars
    PROVE  MemoryInv'
<1> USE DEF BitsInv, TypeOK, MemoryInv
<1>1. ASSUME NEW k \in Callers, NEW id \in Ids, BeginAdd(k, id)  PROVE MemoryInv'
  <2>1. /\ DOMAIN c' = Callers /\ \A j \in Callers \ {k} : c'[j] = c[j]
        /\ c[k].at = "run" /\ bitmaps' = bitmaps
        /\ \/ c'[k].at = "or" /\ memory' = memory
           \/ c'[k].at = "install" /\ memory' = memory + 1
    BY <1>1 DEF BeginAdd
  <2> QED  BY <2>1, CallerMoves, Numbers
<1>2. ASSUME NEW k \in Callers, NEW id \in Ids, AndBit(k, id)  PROVE MemoryInv'
  <2>1. /\ DOMAIN c' = Callers /\ \A j \in Callers \ {k} : c'[j] = c[j]
        /\ c[k].at = "run" /\ c'[k].at \in {"run", "dec"} /\ bitmaps' = bitmaps /\ memory' = memory
    BY <1>2 DEF AndBit
  <2> QED  BY <2>1, CallerMoves, Numbers
<1>3. ASSUME NEW k \in Callers, Install(k)  PROVE MemoryInv'
  <2>1. /\ DOMAIN c' = Callers /\ \A j \in Callers \ {k} : c'[j] = c[j]
        /\ c[k].at = "install" /\ c'[k].at = "or"
    BY <1>3 DEF Install, Step
  <2>2. HowMany("install")' = HowMany("install") - 1
    BY <2>1, CallerMoves
  <2>3. \/ bitmaps' = bitmaps /\ memory' = memory - 1
        \/ memory' = memory /\ Cardinality(bitmaps') = Cardinality(bitmaps) + 1
    BY <1>3, FS_AddElement DEF Install
  <2> QED  BY <2>2, <2>3, Numbers
<1>4. ASSUME NEW k \in Callers, OrBit(k)  PROVE MemoryInv'
  <2>1. /\ DOMAIN c' = Callers /\ \A j \in Callers \ {k} : c'[j] = c[j]
        /\ c[k].at = "or" /\ c'[k].at \in {"run", "inc"} /\ bitmaps' = bitmaps /\ memory' = memory
    BY <1>4 DEF OrBit, Step
  <2> QED  BY <2>1, CallerMoves, Numbers
<1>5. ASSUME NEW k \in Callers, CountBit(k)  PROVE MemoryInv'
  <2>1. /\ DOMAIN c' = Callers /\ \A j \in Callers \ {k} : c'[j] = c[j]
        /\ c[k].at \in {"inc", "dec"} /\ c'[k].at = "run" /\ bitmaps' = bitmaps /\ memory' = memory
    BY <1>5 DEF CountBit, Resting
  <2> QED  BY <2>1, CallerMoves, Numbers
<1>6. CASE Clear \/ UNCHANGED vars
  <2>1. UNCHANGED <<c, bitmaps, memory>>
    BY <1>6 DEF Clear, vars
  <2> QED  BY <2>1 DEF HowMany, place
<1> QED  BY <1>1, <1>2, <1>3, <1>4, <1>5, <1>6 DEF Next

(* Every step keeps the lag of the size.                                   *)
LEMMA SizeStep ==
    ASSUME ThreadFilterShape, BitsInv, SizeInv, [Next]_vars
    PROVE  SizeInv'
<1> SUFFICES ASSUME ~torn'  PROVE _size' = Cardinality(bits') - HowMany("inc")' + HowMany("dec")'
  BY DEF SizeInv
<1> USE DEF BitsInv, TypeOK
<1>1. ASSUME NEW k \in Callers, NEW id \in Ids, BeginAdd(k, id)  PROVE SizeInv'
  <2>1. /\ DOMAIN c' = Callers /\ \A j \in Callers \ {k} : c'[j] = c[j]
        /\ c[k].at = "run" /\ c'[k].at \in {"or", "install"} /\ UNCHANGED <<bits, _size, torn>>
    BY <1>1 DEF BeginAdd
  <2>2. HowMany("inc")' = HowMany("inc") /\ HowMany("dec")' = HowMany("dec")
    BY <2>1, CallerMoves
  <2> QED  BY <2>1, <2>2 DEF SizeInv
<1>2. ASSUME NEW k \in Callers, NEW id \in Ids, AndBit(k, id)  PROVE SizeInv'
  <2>1. /\ DOMAIN c' = Callers /\ \A j \in Callers \ {k} : c'[j] = c[j]
        /\ c[k].at = "run" /\ UNCHANGED <<_size, torn>>
    BY <1>2 DEF AndBit
  <2>2. CASE id \in bits
    <3>1. c'[k].at = "dec" /\ Cardinality(bits') = Cardinality(bits) - 1
      BY <1>2, <2>2, Numbers, FS_RemoveElement, Zenon DEF AndBit
    <3>2. HowMany("inc")' = HowMany("inc") /\ HowMany("dec")' = HowMany("dec") + 1
      BY <2>1, <3>1, CallerMoves
    <3> QED  BY <2>1, <3>1, <3>2, Numbers DEF SizeInv
  <2>3. CASE id \notin bits
    <3>1. c'[k].at = "run" /\ bits' = bits
      BY <1>2, <2>3 DEF AndBit
    <3>2. HowMany("inc")' = HowMany("inc") /\ HowMany("dec")' = HowMany("dec")
      BY <2>1, <3>1, CallerMoves
    <3> QED  BY <2>1, <3>1, <3>2 DEF SizeInv
  <2> QED  BY <2>2, <2>3
<1>3. ASSUME NEW k \in Callers, Install(k)  PROVE SizeInv'
  <2>1. /\ DOMAIN c' = Callers /\ \A j \in Callers \ {k} : c'[j] = c[j]
        /\ c[k].at = "install" /\ c'[k].at = "or" /\ UNCHANGED <<bits, _size, torn>>
    BY <1>3 DEF Install, Step
  <2>2. HowMany("inc")' = HowMany("inc") /\ HowMany("dec")' = HowMany("dec")
    BY <2>1, CallerMoves
  <2> QED  BY <2>1, <2>2 DEF SizeInv
<1>4. ASSUME NEW k \in Callers, OrBit(k)  PROVE SizeInv'
  <2>1. /\ DOMAIN c' = Callers /\ \A j \in Callers \ {k} : c'[j] = c[j]
        /\ c[k].at = "or" /\ UNCHANGED <<_size, torn>>
    BY <1>4 DEF OrBit, Step
  <2>2. CASE c[k].id \in bits
    <3>1. c'[k].at = "run" /\ bits' = bits
      BY <1>4, <2>2 DEF OrBit, Step
    <3>2. HowMany("inc")' = HowMany("inc") /\ HowMany("dec")' = HowMany("dec")
      BY <2>1, <3>1, CallerMoves
    <3> QED  BY <2>1, <3>1, <3>2 DEF SizeInv
  <2>3. CASE c[k].id \notin bits
    <3>0. c'[k].at = "inc" /\ bits' = bits \cup {c[k].id}
      BY <1>4, <2>3 DEF OrBit, Step
    <3>1. c'[k].at = "inc" /\ Cardinality(bits') = Cardinality(bits) + 1
      BY <2>3, <3>0, Numbers, FS_AddElement, Zenon
    <3>2. HowMany("inc")' = HowMany("inc") + 1 /\ HowMany("dec")' = HowMany("dec")
      BY <2>1, <3>1, CallerMoves
    <3> QED  BY <2>1, <3>1, <3>2, Numbers DEF SizeInv
  <2> QED  BY <2>2, <2>3
<1>5. ASSUME NEW k \in Callers, CountBit(k)  PROVE SizeInv'
  <2>1. /\ DOMAIN c' = Callers /\ \A j \in Callers \ {k} : c'[j] = c[j]
        /\ c'[k].at = "run" /\ UNCHANGED <<bits, torn>>
        /\ \/ c[k].at = "inc" /\ _size' = _size + 1
           \/ c[k].at = "dec" /\ _size' = _size - 1
    BY <1>5 DEF CountBit, Resting
  <2>2. CASE c[k].at = "inc"
    <3>1. HowMany("inc")' = HowMany("inc") - 1 /\ HowMany("dec")' = HowMany("dec")
      BY <2>1, <2>2, CallerMoves
    <3> QED  BY <2>1, <2>2, <3>1, Numbers DEF SizeInv
  <2>3. CASE c[k].at = "dec"
    <3>1. HowMany("inc")' = HowMany("inc") /\ HowMany("dec")' = HowMany("dec") - 1
      BY <2>1, <2>3, CallerMoves
    <3> QED  BY <2>1, <2>3, <3>1, Numbers DEF SizeInv
  <2> QED  BY <2>1, <2>2, <2>3
<1>6. CASE Clear
  <2>1. \A k \in Callers : place'[k] \notin {"inc"} /\ place'[k] \notin {"dec"}
    BY <1>6, Zenon DEF Clear, place
  <2>2. HowMany("inc")' = 0 /\ HowMany("dec")' = 0
    BY <2>1, CountNone DEF HowMany
  <2> QED  BY <1>6, <2>2, FS_EmptySet DEF Clear, SizeInv
<1>7. CASE UNCHANGED vars
  BY <1>7 DEF vars, HowMany, place, SizeInv
<1> QED  BY <1>1, <1>2, <1>3, <1>4, <1>5, <1>6, <1>7 DEF Next, SizeInv

(* The size, the bits and the memory of the filter agree for any number of *)
(* callers of the thread API, whatever their ids and bitmaps.              *)
THEOREM FilterIsCounted == ThreadFilterShape => (Spec => [](TypeOK /\ FilterCounted))
<1> SUFFICES ASSUME ThreadFilterShape  PROVE Spec => [](TypeOK /\ FilterCounted)
  OBVIOUS
<1> DEFINE Inv == BitsInv /\ MemoryInv /\ SizeInv
<1>1. Init => Inv
  <2> SUFFICES ASSUME Init  PROVE Inv
    OBVIOUS
  <2>1. \A p : (\A k \in Callers : place[k] \notin {p}) => HowMany(p) = 0
    BY CountNone DEF HowMany
  <2>2. \A k \in Callers : place[k] = "run"
    BY DEF Init, Resting, place
  <2>3. HowMany("inc") = 0 /\ HowMany("dec") = 0 /\ HowMany("install") = 0
    BY <2>1, <2>2
  <2>4. IsFiniteSet({0}) /\ Cardinality({0}) = 1 /\ Cardinality({}) = 0
    BY FS_Singleton, FS_EmptySet, Zenon
  <2>5. c \in [Callers -> [at : Places, id : Ids \cup {0}]] /\ \A k \in Callers : c[k].at = "run"
    BY DEF Init, Resting, Places
  <2>6. BitsInv
    <3>1. bits \subseteq Ids /\ _size \in Int /\ memory \in Nat /\ calls \in 0..MaxCalls
      BY DEF Init, ThreadFilterShape
    <3> QED  BY <2>4, <2>5, <3>1, Zenon DEF Init, BitsInv, TypeOK
  <2> QED  BY <2>3, <2>4, <2>6 DEF Init, MemoryInv, SizeInv
<1>2. Inv /\ [Next]_vars => Inv'
  BY BitsStep, MemoryStep, SizeStep
<1>3. Inv => TypeOK /\ FilterCounted
  <2> SUFFICES ASSUME Inv  PROVE FilterCounted
    BY DEF BitsInv
  <2>1. \A p : HowMany(p) = Cardinality({k \in Callers : c[k].at = p})
    <3> TAKE p
    <3>1. At(Callers, place, {p}) = {k \in Callers : c[k].at = p}
      BY DEF At, place
    <3> QED  BY <3>1 DEF HowMany, Count
  <2>2. collect = bits
    BY DEF collect, accept, BitsInv, TypeOK
  <2> QED  BY <2>1, <2>2 DEF FilterCounted, MemoryInv, SizeInv, usedMemory
<1> QED  BY <1>1, <1>2, <1>3, PTL DEF Spec
=============================================================================
