----------------------- MODULE LinearAllocatorProofs -----------------------
(***************************************************************************)
(* Proofs about LinearAllocator, for any number of threads and chunks and  *)
(* any sizes.                                                              *)
(*                                                                         *)
(* That blocks are disjoint and no chunk leaks rests on knowing whose each *)
(* live chunk is: it is in the chain of the tail, it is the reserve behind *)
(* the tail, or one thread has just allocated it and nobody else knows it. *)
(***************************************************************************)
EXTENDS LinearAllocator, Counting

Chain == ChunkChain(tail)
Live == {c \in Chunks : mem[c].live}

(* The thread has a chunk of its own, allocated and not yet offered.       *)
HoldingPCs == {"offer", "compete"}
Holders == {t \in Allocators : at[t] \in HoldingPCs}
Held == {mine[t] : t \in Holders}

ChunkType == [live : BOOLEAN, prev : Chunks \cup {Null}, offs : 0..ChunkSize]
BlockType == [chunk : Chunks, from : Nat, to : Nat, by : Allocators]

(* Types, and what the threads carry.                                      *)
TypeInv ==
    /\ AllocTypeOK /\ blocks \subseteq BlockType
    /\ \A t \in Allocators :
          /\ at[t] # "idle" => askedSize[t] \in Sizes
          /\ at[t] = "bump" => offs[t] + askedSize[t] <= ChunkSize

(* Chunk 1 is the first of the chain and every other one is linked to an   *)
(* older chunk of it.                                                      *)
LinkInv ==
    /\ mem[1].live /\ mem[1].prev = Null
    /\ \A c \in Live :
          /\ c <= last /\ Header <= mem[c].offs
          /\ c # 1 => mem[c].prev \in Chain /\ mem[c].prev < c

(* Whose each chunk is.                                                    *)
OwnerInv ==
    /\ Live = Chain \cup {reserve} \cup Held
    /\ reserve # tail => mem[reserve].prev = tail /\ reserve \notin Chain
    /\ \A t \in Holders :
          /\ mine[t] \notin Chain /\ mine[t] # reserve
          /\ mem[mine[t]].prev = cur[t]
          /\ \A u \in Holders : u # t => mine[u] # mine[t]

(* A thread works on a chunk of the chain; the one it is about to install  *)
(* behind the tail is the reserve.                                         *)
ThreadInv ==
    \A t \in Allocators :
        /\ at[t] # "idle" => cur[t] \in Chain
        /\ at[t] = "switch" => mine[t] \in Chunks
        /\ at[t] = "switch" /\ tail = cur[t] => mine[t] = reserve /\ reserve # tail

(* The memory reported lacks the chunks that are yet to be accounted for.  *)
UsedInv == used + ChunkSize * Count(Allocators, at, {"account"}) = ChunkSize * Cardinality(Chain)

(* Blocks are in the chain, below the offset of their chunk.               *)
BlocksInv ==
    /\ \A b \in blocks :
          b.chunk \in Chain /\ Header <= b.from /\ b.from < b.to /\ b.to <= mem[b.chunk].offs
    /\ \A b, d \in blocks : d # b /\ d.chunk = b.chunk => d.to <= b.from \/ b.to <= d.from

IInv == TypeInv /\ LinkInv /\ OwnerInv /\ ThreadInv /\ UsedInv /\ BlocksInv

-----------------------------------------------------------------------------
(* Chains of chunks.                                                       *)

(* A chain is made of chunks.                                              *)
LEMMA ChainOfChunks == ASSUME NEW f, NEW c PROVE ChainOf(f, c) \in SUBSET Chunks
BY Zenon DEF ChainOf

(* A chain is in every linked set that holds its first chunk.              *)
LEMMA ChainMeans ==
    ASSUME NEW f, NEW c \in Chunks
    PROVE  ChainOf(f, c) = {d \in Chunks : \A S \in SUBSET Chunks : c \in S /\ Linked(f, S) => d \in S}
<1>1. ASSUME NEW d \in ChainOf(f, c), NEW S \in SUBSET Chunks, c \in S, Linked(f, S), d \notin S  PROVE FALSE
  <2>1. S \ {c} \in SUBSET (Chunks \ {c, d}) /\ (S \ {c}) \cup {c} = S  BY <1>1, Zenon
  <2>2. d # c  BY <1>1, Zenon
  <2> QED  BY <1>1, <2>1, <2>2, Zenon DEF ChainOf
<1>2. ASSUME NEW d \in Chunks, d # c, \A S \in SUBSET Chunks : c \in S /\ Linked(f, S) => d \in S,
             NEW S \in SUBSET (Chunks \ {c, d}), Linked(f, S \cup {c})
      PROVE  FALSE
  <2>1. S \cup {c} \in SUBSET Chunks /\ c \in S \cup {c} /\ d \notin S \cup {c}  BY <1>2, Zenon
  <2> QED  BY <1>2, <2>1, Zenon
<1>3. ChainOf(f, c) \subseteq Chunks  BY ChainOfChunks, Zenon
<1>4. \A d \in Chunks : (\A S \in SUBSET Chunks : c \in S /\ Linked(f, S) => d \in S) => d \in ChainOf(f, c)
  BY <1>2, Zenon DEF ChainOf
<1> QED  BY <1>1, <1>3, <1>4, Zenon

(* A chain holds the chunk it starts at, and lies in any linked set that   *)
(* holds it.                                                               *)
LEMMA ChainLeast ==
    ASSUME NEW f, NEW c \in Chunks
    PROVE  /\ c \in ChainOf(f, c)
           /\ \A S \in SUBSET Chunks : c \in S /\ Linked(f, S) => ChainOf(f, c) \subseteq S
BY ChainMeans

(* A chain is linked itself.                                               *)
LEMMA ChainLinked ==
    ASSUME NEW f, NEW c \in Chunks, \A d \in Chunks : f[d].prev \in Chunks \cup {Null}
    PROVE  Linked(f, ChainOf(f, c))
<1> SUFFICES ASSUME NEW d \in ChainOf(f, c), f[d].prev # Null
             PROVE  f[d].prev \in ChainOf(f, c)
  BY Zenon DEF Linked
<1>1. d \in Chunks /\ f[d].prev \in Chunks  BY ChainOfChunks, Zenon
<1>2. ASSUME NEW S \in SUBSET Chunks, c \in S, Linked(f, S)  PROVE f[d].prev \in S
  <2>1. d \in S  BY <1>2, ChainLeast, Zenon
  <2> QED  BY <1>2, <2>1, Zenon DEF Linked
<1> QED  BY <1>1, <1>2, ChainMeans

(* Changes that keep the links of a chain keep the chain.                  *)
LEMMA ChainSame ==
    ASSUME NEW f, NEW g, NEW c \in Chunks,
           \A d \in Chunks : f[d].prev \in Chunks \cup {Null} /\ g[d].prev \in Chunks \cup {Null},
           \A d \in ChainOf(f, c) : g[d].prev = f[d].prev
    PROVE  ChainOf(g, c) = ChainOf(f, c)
<1>1. ChainOf(f, c) \in SUBSET Chunks /\ ChainOf(g, c) \in SUBSET Chunks  BY ChainOfChunks, Zenon
<1>2. Linked(g, ChainOf(f, c))  BY ChainLinked, Zenon DEF Linked
<1>3. ChainOf(g, c) \subseteq ChainOf(f, c)  BY <1>1, <1>2, ChainLeast, Zenon
<1>4. Linked(f, ChainOf(g, c))  BY <1>3, ChainLinked, Zenon DEF Linked
<1> QED  BY <1>1, <1>3, <1>4, ChainLeast, Zenon

(* A chunk linked to c has the chain of c behind it.                       *)
LEMMA ChainExtend ==
    ASSUME NEW f, NEW c \in Chunks, NEW m \in Chunks, f[m].prev = c,
           \A d \in Chunks : f[d].prev \in Chunks \cup {Null}
    PROVE  ChainOf(f, m) = ChainOf(f, c) \cup {m}
<1>1. ChainOf(f, c) \in SUBSET Chunks /\ ChainOf(f, m) \in SUBSET Chunks  BY ChainOfChunks, Zenon
<1>2. Linked(f, ChainOf(f, c) \cup {m})  BY ChainLinked, ChainLeast, Zenon DEF Linked
<1>3. ChainOf(f, m) \subseteq ChainOf(f, c) \cup {m}  BY <1>1, <1>2, ChainLeast
<1>4. c \in ChainOf(f, m)  BY ChainLinked, ChainLeast DEF Linked, Chunks, Null
<1>5. ChainOf(f, c) \subseteq ChainOf(f, m)  BY <1>1, <1>4, ChainLinked, ChainLeast, Zenon
<1> QED  BY <1>3, <1>5, ChainLeast

(* A chunk without a link is a chain by itself.                            *)
LEMMA ChainAlone ==
    ASSUME NEW f, NEW c \in Chunks, f[c].prev = Null
    PROVE  ChainOf(f, c) = {c}
<1>1. Linked(f, {c})  BY Zenon DEF Linked
<1> QED  BY <1>1, ChainLeast

(* A chain is finite.                                                      *)
LEMMA ChainFinite ==
    ASSUME NEW f, NEW c
    PROVE  IsFiniteSet(ChainOf(f, c)) /\ Cardinality(ChainOf(f, c)) \in Nat
<1>1. IsFiniteSet(Chunks)  BY SizesFit, FS_Interval DEF Chunks
<1>2. ChainOf(f, c) \in SUBSET Chunks  BY ChainOfChunks, Zenon
<1> QED  BY <1>1, <1>2, FS_Subset, FS_CardinalityType, Zenon

(* A set of natural numbers has a least one.                               *)
LEMMA LeastNat ==
    ASSUME NEW T \in SUBSET Nat, T # {}
    PROVE  \E m \in T : \A n \in T : m <= n
<1>1. PICK m \in T : \A n \in T : <<n, m>> \notin OpToRel(<, Nat)  BY WFMin, NatLessThanWellFounded, Zenon
<1>2. \A n \in T : ~(n < m)  BY <1>1, Zenon DEF OpToRel
<1> QED  BY <1>2

(* clear() ends at chunk 1: the oldest of the chain is the only one that   *)
(* is not linked to another.                                               *)
LEMMA FirstIsOne ==
    ASSUME TypeInv, LinkInv, OwnerInv
    PROVE  First(tail) = 1 /\ 1 \in Chain
<1>1. Chain \in SUBSET Nat /\ Chain \subseteq Live /\ tail \in Chain
  <2>1. tail \in Chunks /\ Chunks \subseteq Nat  BY SizesFit DEF TypeInv, AllocTypeOK, Chunks
  <2>2. Chain \subseteq Chunks /\ tail \in Chain  BY <2>1, ChainOfChunks, ChainLeast, Zenon DEF Chain, ChunkChain
  <2> QED  BY <2>1, <2>2, Zenon DEF OwnerInv
<1>2. PICK m \in Chain : \A n \in Chain : m <= n  BY <1>1, LeastNat, Zenon
<1>3. m = 1
  <2> SUFFICES ASSUME m # 1 PROVE FALSE  BY Zenon
  <2> DEFINE p == mem[m].prev
  <2>1. p \in Chain /\ p < m  BY <1>1, Zenon DEF LinkInv
  <2>2. m <= p  BY <1>2, <2>1, Zenon
  <2>3. m \in Nat /\ p \in Nat  BY <1>1, <2>1, Zenon
  <2> HIDE DEF p
  <2> QED  BY <2>1, <2>2, <2>3
<1>4. \A d \in Chain : mem[d].prev = Null <=> d = 1
  <2>1. \A d \in Chain : d # 1 => mem[d].prev \in Chain  BY <1>1, Zenon DEF LinkInv
  <2>2. Chain \subseteq Chunks /\ Null \notin Chunks  BY ChainOfChunks DEF Chain, ChunkChain, Chunks, Null
  <2> QED  BY <2>1, <2>2, Zenon DEF LinkInv
<1> QED  BY <1>2, <1>3, <1>4, Zenon DEF First, Chain

-----------------------------------------------------------------------------
(* The invariant is inductive.                                             *)

(* What every proof about a step of thread t starts from.                  *)
LEMMA Basics ==
    ASSUME IInv
    PROVE  /\ 1 \in Chunks /\ Chunks \subseteq Nat \ {0} /\ Null \notin Chunks
           /\ Chain \subseteq Chunks /\ Chain \subseteq Live /\ tail \in Chain
           /\ \A d \in Chunks : mem[d].prev \in Chunks \cup {Null}
           /\ last + 1 \notin Live /\ last + 1 \notin Chain
           /\ \A t \in Holders : mine[t] \in Live /\ mine[t] \in Chunks
<1>1. 1 \in Chunks /\ Chunks \subseteq Nat \ {0} /\ Null \notin Chunks
  BY SizesFit DEF Chunks, Null
<1>2. Chain \subseteq Chunks /\ Chain \subseteq Live /\ tail \in Chain
  BY ChainLeast, ChainOfChunks, Zenon DEF Chain, ChunkChain, IInv, OwnerInv, TypeInv, AllocTypeOK
<1>3. \A d \in Chunks : mem[d].prev \in Chunks \cup {Null}
  BY Zenon DEF IInv, TypeInv, AllocTypeOK
<1>4. last \in Nat /\ \A c \in Live : c <= last  BY <1>1, Zenon DEF IInv, TypeInv, AllocTypeOK, LinkInv
<1>5. last + 1 \notin Live  BY <1>4
<1>6. \A t \in Holders : mine[t] \in Live  BY Zenon DEF IInv, OwnerInv, Held
<1> QED  BY <1>1, <1>2, <1>3, <1>5, <1>6, Zenon DEF Live

(* The steps that keep the links of the chain, and its tail.               *)
LEMMA ChainKept ==
    ASSUME IInv, tail' = tail, NEW g, mem' = g,
           \A d \in Chunks : g[d].prev \in Chunks \cup {Null},
           \A d \in Chain : g[d].prev = mem[d].prev
    PROVE  Chain' = Chain
BY Basics, ChainSame DEF Chain, ChunkChain, IInv, TypeInv, AllocTypeOK

(* What an allocation changes: one more live chunk, outside the chain.     *)
LEMMA AllocateFrame ==
    ASSUME IInv, NEW p \in Chain, AllocateChunk(p), tail' = tail
    PROVE  /\ mem' \in [Chunks -> ChunkType] /\ last' = last + 1 /\ last' \in Chunks
           /\ mem'[last + 1] = NewChunk(p)
           /\ \A c \in Chunks \ {last + 1} : mem'[c] = mem[c]
           /\ Live' = Live \cup {last + 1} /\ Chain' = Chain
<1> USE SizesFit, Basics
<1>1. last + 1 \in Chunks /\ last' = last + 1
  BY DEF AllocateChunk, Chunks, IInv, TypeInv, AllocTypeOK
<1>2. NewChunk(p) \in ChunkType
  <2>1. Header \in 0..ChunkSize  BY DEF IInv, LinkInv, TypeInv, AllocTypeOK, Live, Chunks
  <2> QED  BY <2>1, Zenon DEF NewChunk, ChunkType
<1>3. mem \in [Chunks -> ChunkType] /\ mem' = [mem EXCEPT ![last + 1] = NewChunk(p)]
  BY Zenon DEF AllocateChunk, IInv, TypeInv, AllocTypeOK, ChunkType
<1>4. mem' \in [Chunks -> ChunkType] /\ mem'[last + 1] = NewChunk(p)
      /\ \A c \in Chunks \ {last + 1} : mem'[c] = mem[c]
  BY <1>1, <1>2, <1>3, Zenon
<1>5. Live' = Live \cup {last + 1}  BY <1>1, <1>4 DEF Live, NewChunk
<1>6. Chain' = Chain  BY <1>4, ChainKept, Zenon DEF ChunkType
<1> QED  BY <1>1, <1>4, <1>5, <1>6, Zenon

(* What freeing a chunk changes: it is no longer live.                     *)
LEMMA FreeFrame ==
    ASSUME IInv, NEW m, mem' = Freed({m}), tail' = tail
    PROVE  /\ mem' \in [Chunks -> ChunkType]
           /\ \A c \in Chunks : mem'[c].prev = mem[c].prev /\ mem'[c].offs = mem[c].offs
           /\ Live' = Live \ {m} /\ Chain' = Chain
<1>1. mem \in [Chunks -> ChunkType]  BY Zenon DEF IInv, TypeInv, AllocTypeOK, ChunkType
<1>2. /\ mem' \in [Chunks -> ChunkType]
      /\ \A c \in Chunks : mem'[c].prev = mem[c].prev /\ mem'[c].offs = mem[c].offs
                           /\ mem'[c].live = (mem[c].live /\ c # m)
  BY <1>1, ZenonT(60) DEF Freed, ChunkType
<1>3. Live' = Live \ {m}  BY <1>2, Zenon DEF Live
<1>4. \A c \in Chunks : mem'[c].prev \in Chunks \cup {Null}  BY <1>2, Zenon DEF ChunkType
<1>5. \A c \in Chain : mem'[c].prev = mem[c].prev  BY <1>2, Basics, Zenon
<1>6. Chain' = Chain  BY <1>4, <1>5, ChainKept, Zenon
<1> QED  BY <1>2, <1>3, <1>6, Zenon

(* What moving the offset of a chunk changes.                              *)
LEMMA OffsetFrame ==
    ASSUME IInv, NEW d \in Chunks, NEW n \in 0..ChunkSize,
           mem' = [mem EXCEPT ![d].offs = n], tail' = tail
    PROVE  /\ mem' \in [Chunks -> ChunkType]
           /\ \A c \in Chunks : mem'[c].prev = mem[c].prev
           /\ \A c \in Chunks \ {d} : mem'[c].offs = mem[c].offs
           /\ mem'[d].offs = n
           /\ Live' = Live /\ Chain' = Chain
<1>1. mem \in [Chunks -> ChunkType]  BY Zenon DEF IInv, TypeInv, AllocTypeOK, ChunkType
<1>2. /\ mem' \in [Chunks -> ChunkType]
      /\ \A c \in Chunks : mem'[c].prev = mem[c].prev /\ mem'[c].live = mem[c].live
      /\ \A c \in Chunks \ {d} : mem'[c].offs = mem[c].offs
      /\ mem'[d].offs = n
  BY <1>1, Zenon DEF ChunkType
<1>3. Live' = Live  BY <1>2, Zenon DEF Live
<1>4. \A c \in Chunks : mem'[c].prev \in Chunks \cup {Null}  BY <1>2, Basics, Zenon
<1>5. \A c \in Chain : mem'[c].prev = mem[c].prev  BY <1>2, Basics, Zenon
<1>6. Chain' = Chain  BY <1>4, <1>5, ChainKept, Zenon
<1> QED  BY <1>2, <1>3, <1>6, Zenon

(* A step of the allocator keeps the types.                                *)
LEMMA TypeStep ==
    ASSUME IInv, NEW t \in Allocators, (\E n \in Sizes : Alloc(t, n)) \/ ThreadStep(t)
    PROVE  TypeInv'
<1> USE SizesFit, Basics DEF IInv, TypeInv, AllocTypeOK
<1>1. ASSUME NEW n \in Sizes, Alloc(t, n)  PROVE TypeInv'
  BY <1>1, Zenon DEF Alloc, AllocGoto, sharedVars
<1>2. CASE Load(t)
  BY <1>2, Zenon DEF Load, AllocGoto, sharedVars, ThreadInv
<1>3. CASE Bump(t)
  <2>1. /\ cur[t] \in Chunks /\ offs[t] \in Nat /\ askedSize[t] \in Nat
        /\ offs[t] + askedSize[t] \in 0..ChunkSize
    BY <1>3 DEF Bump, ThreadInv
  <2>2. mem' \in [Chunks -> ChunkType]
    <3>1. CASE mem' = mem  BY <3>1, Zenon DEF ChunkType
    <3>2. CASE mem' # mem  BY <1>3, <2>1, <3>2, OffsetFrame, Zenon DEF Bump
    <3> QED  BY <3>1, <3>2, Zenon
  <2>3. blocks' \subseteq BlockType  BY <1>3, <2>1 DEF Bump, BlockType
  <2> QED  BY <1>3, <2>2, <2>3 DEF Bump, AllocGoto, Return, ChunkType
<1>4. CASE Prepare(t)
  <2>1. mem' \in [Chunks -> ChunkType] /\ last' = last + 1 /\ last' \in Chunks
    BY <1>4, AllocateFrame, Zenon DEF Prepare, ThreadInv
  <2> QED  BY <1>4, <2>1, Zenon DEF Prepare, AllocGoto, ChunkType
<1>5. CASE PrepareFails(t)
  BY <1>5 DEF PrepareFails, Return, AllocGoto, sharedVars
<1>6. CASE Offer(t)
  <2>1. mem' \in [Chunks -> ChunkType]
    <3>1. CASE mem' = mem  BY <3>1, Zenon DEF ChunkType
    <3>2. CASE mem' # mem  BY <1>6, <3>2, FreeFrame, Zenon DEF Offer
    <3> QED  BY <3>1, <3>2, Zenon
  <2>2. mine[t] \in Chunks  BY <1>6, Zenon DEF Offer, Holders, HoldingPCs
  <2> QED  BY <1>6, <2>1, <2>2 DEF Offer, Return, AllocGoto, ChunkType
<1>7. CASE TakeReserve(t)
  BY <1>7, Zenon DEF TakeReserve, AllocGoto, sharedVars
<1>8. CASE Provide(t)
  <2>1. mem' \in [Chunks -> ChunkType] /\ last' = last + 1 /\ last' \in Chunks
    BY <1>8, AllocateFrame, Zenon DEF Provide, ThreadInv
  <2> QED  BY <1>8, <2>1, Zenon DEF Provide, AllocGoto, ChunkType
<1>9. CASE ProvideFails(t)
  BY <1>9 DEF ProvideFails, Return, AllocGoto, sharedVars
<1>10. CASE Compete(t)
  <2>1. mem' \in [Chunks -> ChunkType]
    <3>1. CASE mem' = mem  BY <3>1, Zenon DEF ChunkType
    <3>2. CASE mem' # mem  BY <1>10, <3>2, FreeFrame, Zenon DEF Compete
    <3> QED  BY <3>1, <3>2, Zenon
  <2>2. mine[t] \in Chunks  BY <1>10, Zenon DEF Compete, Holders, HoldingPCs
  <2> QED  BY <1>10, <2>1, <2>2 DEF Compete, AllocGoto, ChunkType
<1>11. CASE Switch(t)
  BY <1>11 DEF Switch, AllocGoto, ThreadInv
<1>12. CASE Account(t)
  BY <1>12 DEF Account, AllocGoto
<1> QED  BY <1>1, <1>2, <1>3, <1>4, <1>5, <1>6, <1>7, <1>8, <1>9, <1>10, <1>11, <1>12, Zenon DEF ThreadStep

(* A step of t changes the locals of t only.                               *)
OthersStay(t) == \A u \in Allocators \ {t} : at'[u] = at[u] /\ cur'[u] = cur[u] /\ mine'[u] = mine[u]

(* As every action of the allocator does.                                  *)
LEMMA Others ==
    ASSUME IInv, NEW t \in Allocators, (\E n \in Sizes : Alloc(t, n)) \/ ThreadStep(t)
    PROVE  OthersStay(t)
<1> USE DEF IInv, TypeInv, AllocTypeOK, OthersStay, AllocGoto
<1>1. CASE \E n \in Sizes : Alloc(t, n)  BY <1>1, Zenon DEF Alloc
<1>2. CASE Load(t) \/ Bump(t) \/ Prepare(t) \/ PrepareFails(t)
  BY <1>2, Zenon DEF Load, Bump, Prepare, PrepareFails, Return
<1>3. CASE Offer(t) \/ TakeReserve(t) \/ Provide(t) \/ ProvideFails(t)
  BY <1>3, Zenon DEF Offer, TakeReserve, Provide, ProvideFails, Return
<1>4. CASE Compete(t) \/ Switch(t) \/ Account(t)
  BY <1>4, Zenon DEF Compete, Switch, Account
<1> QED  BY <1>1, <1>2, <1>3, <1>4, Zenon DEF ThreadStep

(* The winner of the switch adds the reserve to the chain.                 *)
LEMMA SwitchFrame ==
    ASSUME IInv, NEW t \in Allocators, Switch(t), tail = cur[t]
    PROVE  /\ tail' = reserve /\ reserve \in Chunks \ Chain
           /\ Live' = Live /\ Chain' = Chain \cup {reserve}
<1> USE Basics
<1>1. tail' = reserve /\ reserve # tail  BY Zenon DEF Switch, IInv, ThreadInv
<1>2. reserve \in Chunks \ Chain /\ mem[reserve].prev = tail
  BY <1>1, Zenon DEF IInv, OwnerInv, TypeInv, AllocTypeOK
<1>3. mem' = mem  BY Zenon DEF Switch
<1>4. Chain' = Chain \cup {reserve}
  BY <1>1, <1>2, <1>3, ChainExtend DEF Chain, ChunkChain
<1>5. Live' = Live  BY <1>3, Zenon DEF Live
<1> QED  BY <1>1, <1>2, <1>4, <1>5, Zenon

(* A successful bump moves the offset from where the new block begins to   *)
(* where it ends.                                                          *)
LEMMA BumpFrame ==
    ASSUME IInv, NEW t \in Allocators, Bump(t), mem[cur[t]].offs = offs[t]
    PROVE  /\ cur[t] \in Chain /\ tail' = tail
           /\ offs[t] \in Nat /\ askedSize[t] \in Nat \ {0} /\ Header <= offs[t]
           /\ offs[t] + askedSize[t] \in 0..ChunkSize /\ Header <= offs[t] + askedSize[t]
           /\ \A c \in Chunks : mem'[c].prev = mem[c].prev
           /\ \A c \in Chunks \ {cur[t]} : mem'[c].offs = mem[c].offs
           /\ mem'[cur[t]].offs = offs[t] + askedSize[t]
           /\ Live' = Live /\ Chain' = Chain
<1>1. /\ cur[t] \in Chain /\ tail' = tail
      /\ mem' = [mem EXCEPT ![cur[t]].offs = offs[t] + askedSize[t]]
  BY Zenon DEF Bump, IInv, ThreadInv
<1>2. /\ offs[t] \in Nat /\ askedSize[t] \in Nat \ {0} /\ offs[t] + askedSize[t] \in 0..ChunkSize
  BY SizesFit DEF Bump, IInv, TypeInv, AllocTypeOK
<1>3. cur[t] \in Chunks /\ Header <= offs[t]  BY <1>1, Basics, Zenon DEF IInv, LinkInv
<1>4. Header <= offs[t] + askedSize[t]  BY <1>2, <1>3, SizesFit
<1>5. /\ \A c \in Chunks : mem'[c].prev = mem[c].prev
      /\ \A c \in Chunks \ {cur[t]} : mem'[c].offs = mem[c].offs
      /\ mem'[cur[t]].offs = offs[t] + askedSize[t]
      /\ Live' = Live /\ Chain' = Chain
  BY <1>1, <1>2, <1>3, OffsetFrame, Zenon
<1> QED  BY <1>1, <1>2, <1>3, <1>4, <1>5, Zenon

(* The steps that leave the chunks and the tail alone.                     *)
LEMMA ChunksStay ==
    ASSUME UNCHANGED <<mem, tail>>
    PROVE  Live' = Live /\ Chain' = Chain
BY Zenon DEF Live, Chain, ChunkChain

(* Every live chunk stays linked to an older one of the chain.             *)
LEMMA LinkStep ==
    ASSUME IInv, NEW t \in Allocators, (\E n \in Sizes : Alloc(t, n)) \/ ThreadStep(t)
    PROVE  LinkInv'
<1> USE SizesFit, Basics DEF IInv
<1>1. CASE UNCHANGED <<mem, tail, last>>
  BY <1>1, ChunksStay, Zenon DEF LinkInv
<1>2. CASE Bump(t) /\ mem[cur[t]].offs = offs[t]
  <2> DEFINE n == offs[t] + askedSize[t]
  <2>1. /\ cur[t] \in Chain /\ Header <= n /\ last' = last
        /\ \A c \in Chunks : mem'[c].prev = mem[c].prev
        /\ \A c \in Chunks \ {cur[t]} : mem'[c].offs = mem[c].offs
        /\ mem'[cur[t]].offs = n
        /\ Live' = Live /\ Chain' = Chain
    BY <1>2, BumpFrame, Zenon DEF Bump
  <2> HIDE DEF n
  <2> QED  BY <2>1, Zenon DEF LinkInv, Live
<1>3. CASE Prepare(t) \/ Provide(t)
  <2>1. /\ cur[t] \in Chain /\ cur[t] <= last /\ AllocateChunk(cur[t]) /\ tail' = tail
    BY <1>3, Zenon DEF Prepare, Provide, ThreadInv, LinkInv
  <2>2. /\ last' = last + 1 /\ last' \in Chunks
        /\ mem'[last + 1] = NewChunk(cur[t])
        /\ \A c \in Chunks \ {last + 1} : mem'[c] = mem[c]
        /\ Live' = Live \cup {last + 1} /\ Chain' = Chain
    BY <2>1, AllocateFrame, Zenon
  <2>3. last \in Nat /\ cur[t] \in Nat /\ last # 0  BY <2>1, Zenon DEF TypeInv, AllocTypeOK, Chunks
  <2>4. mem'[1].live /\ mem'[1].prev = Null  BY <2>2, <2>3 DEF LinkInv
  <2>5. ASSUME NEW c \in Live'
        PROVE  /\ c <= last' /\ Header <= mem'[c].offs
               /\ c # 1 => mem'[c].prev \in Chain' /\ mem'[c].prev < c
    <3>1. CASE c = last + 1  BY <2>1, <2>2, <2>3, <3>1 DEF NewChunk
    <3>2. CASE c # last + 1
      <4>1. c \in Live /\ c \in Nat /\ mem'[c] = mem[c]  BY <2>2, <2>5, <3>2, Zenon DEF Live
      <4> QED  BY <2>2, <2>3, <4>1 DEF LinkInv
    <3> QED  BY <3>1, <3>2, Zenon
  <2> QED  BY <2>4, <2>5, Zenon DEF LinkInv
<1>4. CASE (Offer(t) \/ Compete(t)) /\ mem' # mem
  <2>1. mem' = Freed({mine[t]}) /\ tail' = tail /\ last' = last /\ t \in Holders
    BY <1>4, Zenon DEF Offer, Compete, Holders, HoldingPCs
  <2>2. mine[t] # 1  BY <2>1, FirstIsOne, Zenon DEF OwnerInv
  <2>3. /\ \A c \in Chunks : mem'[c].prev = mem[c].prev /\ mem'[c].offs = mem[c].offs
        /\ Live' = Live \ {mine[t]} /\ Chain' = Chain
    BY <2>1, FreeFrame, Zenon
  <2>4. mem'[1].live  BY <2>2, <2>3, Zenon DEF LinkInv, Live
  <2> QED  BY <2>1, <2>3, <2>4, Zenon DEF LinkInv, Live
<1>5. CASE Switch(t)
  <2>1. CASE tail = cur[t]
    BY <1>5, <2>1, SwitchFrame, Zenon DEF Switch, LinkInv
  <2>2. CASE tail # cur[t]
    BY <1>1, <1>5, <2>2, Zenon DEF Switch
  <2> QED  BY <2>1, <2>2, Zenon
<1>6. CASE Bump(t) /\ mem[cur[t]].offs # offs[t]  BY <1>1, <1>6, Zenon DEF Bump
<1>7. CASE (Offer(t) \/ Compete(t)) /\ mem' = mem  BY <1>1, <1>7, Zenon DEF Offer, Compete
<1>8. CASE (\E n \in Sizes : Alloc(t, n)) \/ Load(t) \/ PrepareFails(t) \/ TakeReserve(t)
           \/ ProvideFails(t) \/ Account(t)
  BY <1>1, <1>8, Zenon DEF Alloc, Load, PrepareFails, TakeReserve, ProvideFails, Account, sharedVars
<1> QED  BY <1>2, <1>3, <1>4, <1>5, <1>6, <1>7, <1>8, Zenon DEF ThreadStep

(* How a step of t changes the chunks that threads hold.                   *)
LEMMA HeldFrame ==
    ASSUME IInv, NEW t \in Allocators, OthersStay(t)
    PROVE  /\ at[t] \notin HoldingPCs /\ at'[t] \notin HoldingPCs => Holders' = Holders /\ Held' = Held
           /\ at[t] \notin HoldingPCs /\ at'[t] \in HoldingPCs =>
                 Holders' = Holders \cup {t} /\ t \notin Holders /\ Held' = Held \cup {mine'[t]}
           /\ at[t] \in HoldingPCs /\ at'[t] \notin HoldingPCs =>
                 Holders' = Holders \ {t} /\ t \in Holders /\ Held' = Held \ {mine[t]}
           /\ \A u \in Holders \ {t} : mine'[u] = mine[u] /\ cur'[u] = cur[u]
<1> USE DEF Holders, Held, OthersStay
<1>1. CASE at[t] \notin HoldingPCs /\ at'[t] \notin HoldingPCs
  <2>1. Holders' = Holders /\ t \notin Holders  BY <1>1, Zenon
  <2>2. \A u \in Holders : mine'[u] = mine[u] /\ cur'[u] = cur[u]  BY <2>1, Zenon
  <2>3. Held' = Held  BY <2>1, <2>2
  <2> QED  BY <1>1, <2>1, <2>2, <2>3, Zenon
<1>2. CASE at[t] \notin HoldingPCs /\ at'[t] \in HoldingPCs
  <2>1. Holders' = Holders \cup {t} /\ t \notin Holders  BY <1>2, Zenon
  <2> QED  BY <1>2, <2>1
<1>3. CASE at[t] \in HoldingPCs /\ at'[t] \notin HoldingPCs
  <2>1. Holders' = Holders \ {t} /\ t \in Holders  BY <1>3, Zenon
  <2> QED  BY <1>3, <2>1 DEF IInv, OwnerInv
<1> QED  BY <1>1, <1>2, <1>3, Zenon

(* Every live chunk still has one owner.                                   *)
LEMMA OwnerStep ==
    ASSUME IInv, NEW t \in Allocators, (\E n \in Sizes : Alloc(t, n)) \/ ThreadStep(t)
    PROVE  OwnerInv'
<1> USE Basics, Others DEF IInv, HoldingPCs
<1>0. reserve \in Chunks /\ t \in DOMAIN at /\ t \in DOMAIN mine  BY Zenon DEF TypeInv, AllocTypeOK
<1>1. CASE Holders' = Holders /\ Held' = Held /\ (\A u \in Holders : mine'[u] = mine[u] /\ cur'[u] = cur[u])
           /\ Live' = Live /\ Chain' = Chain /\ UNCHANGED <<tail, reserve>>
           /\ \A c \in Chunks : mem'[c].prev = mem[c].prev
  <2>1. Live' = Chain' \cup {reserve'} \cup Held'  BY <1>1, Zenon DEF OwnerInv
  <2>2. reserve' # tail' => mem'[reserve'].prev = tail' /\ reserve' \notin Chain'
    BY <1>0, <1>1, Zenon DEF OwnerInv
  <2>3. ASSUME NEW u \in Holders'
        PROVE  /\ mine'[u] \notin Chain' /\ mine'[u] # reserve' /\ mem'[mine'[u]].prev = cur'[u]
               /\ \A v \in Holders' : v # u => mine'[v] # mine'[u]
    BY <1>1, <2>3 DEF OwnerInv
  <2> QED  BY <2>1, <2>2, <2>3, Zenon DEF OwnerInv
<1>2. CASE Bump(t)
  <2>1. at[t] \notin HoldingPCs /\ at'[t] \notin HoldingPCs
    BY <1>0, <1>2, Zenon DEF Bump, AllocGoto, Return
  <2>2. Holders' = Holders /\ Held' = Held /\ t \notin Holders
        /\ (\A u \in Holders : mine'[u] = mine[u] /\ cur'[u] = cur[u])
    BY <1>2, <2>1, HeldFrame, Zenon DEF Holders
  <2>3. Live' = Live /\ Chain' = Chain /\ UNCHANGED <<tail, reserve>>
        /\ \A c \in Chunks : mem'[c].prev = mem[c].prev
    <3>1. CASE mem[cur[t]].offs # offs[t]  BY <1>2, <3>1, ChunksStay, Zenon DEF Bump
    <3>2. CASE mem[cur[t]].offs = offs[t]  BY <1>2, <3>2, BumpFrame, Zenon DEF Bump
    <3> QED  BY <3>1, <3>2, Zenon
  <2> QED  BY <1>1, <2>2, <2>3, Zenon
<1>3. CASE (\E n \in Sizes : Alloc(t, n)) \/ Load(t) \/ PrepareFails(t) \/ TakeReserve(t)
           \/ ProvideFails(t) \/ Account(t) \/ (Switch(t) /\ tail # cur[t])
  <2>1. at[t] \notin HoldingPCs /\ at'[t] \notin HoldingPCs /\ UNCHANGED <<mem, tail, reserve>>
    BY <1>0, <1>3, Zenon DEF Alloc, Load, PrepareFails, TakeReserve, ProvideFails, Account, Switch, sharedVars,
                      AllocGoto, Return
  <2>2. Holders' = Holders /\ Held' = Held /\ t \notin Holders
        /\ (\A u \in Holders : mine'[u] = mine[u] /\ cur'[u] = cur[u])
    BY <1>3, <2>1, HeldFrame, Zenon DEF Holders
  <2> QED  BY <1>1, <2>1, <2>2, ChunksStay, Zenon
<1>4. CASE Prepare(t) \/ Provide(t)
  <2>1. /\ at[t] \notin HoldingPCs /\ at'[t] \in HoldingPCs /\ mine'[t] = last + 1
        /\ cur' = cur /\ cur[t] \in Chain /\ AllocateChunk(cur[t]) /\ UNCHANGED <<tail, reserve>>
    BY <1>0, <1>4, Zenon DEF Prepare, Provide, AllocGoto, ThreadInv
  <2>2. Holders' = Holders \cup {t} /\ t \notin Holders /\ Held' = Held \cup {last + 1}
        /\ (\A u \in Holders : mine'[u] = mine[u] /\ cur'[u] = cur[u])
    BY <1>4, <2>1, HeldFrame, Zenon
  <2>3. /\ mem'[last + 1].prev = cur[t]
        /\ \A c \in Chunks \ {last + 1} : mem'[c] = mem[c]
        /\ Live' = Live \cup {last + 1} /\ Chain' = Chain
    <3>1. /\ mem'[last + 1] = NewChunk(cur[t])
          /\ \A c \in Chunks \ {last + 1} : mem'[c] = mem[c]
          /\ Live' = Live \cup {last + 1} /\ Chain' = Chain
      BY <2>1, AllocateFrame, Zenon
    <3> QED  BY <3>1 DEF NewChunk
  <2>4. Held \subseteq Live /\ reserve \in Live /\ last + 1 \notin Live  BY Zenon DEF OwnerInv
  <2>5. \A u \in Holders : mine[u] \in Chunks \ {last + 1}  BY <2>4, Zenon DEF Held
  <2> HIDE DEF IInv
  <2>6. OwnerInv  BY Zenon DEF IInv
  <2>7. Live' = Chain' \cup {reserve'} \cup Held'  BY <2>1, <2>2, <2>3, <2>6, Zenon DEF OwnerInv
  <2>8. reserve' # tail' => mem'[reserve'].prev = tail' /\ reserve' \notin Chain'
    BY <1>0, <2>1, <2>3, <2>4, <2>6, Zenon DEF OwnerInv
  <2>9. ASSUME NEW u \in Holders'
        PROVE  /\ mine'[u] \notin Chain' /\ mine'[u] # reserve'
               /\ mem'[mine'[u]].prev = cur'[u]
               /\ \A v \in Holders' : v # u => mine'[v] # mine'[u]
    <3>1. CASE u = t  BY <2>1, <2>2, <2>3, <2>4, <2>5, <3>1, Zenon
    <3>2. CASE u # t
      <4>1. u \in Holders /\ mine[u] \in Chunks \ {last + 1}  BY <2>2, <2>5, <2>9, <3>2, Zenon
      <4> QED  BY <2>1, <2>2, <2>3, <2>6, <4>1 DEF OwnerInv
    <3> QED  BY <3>1, <3>2, Zenon
  <2> QED  BY <2>7, <2>8, <2>9, Zenon DEF OwnerInv
<1>5. CASE Offer(t) \/ Compete(t)
  <2>1. at[t] \in HoldingPCs /\ at'[t] \notin HoldingPCs /\ tail' = tail
    BY <1>0, <1>5, Zenon DEF Offer, Compete, AllocGoto, Return
  <2>2. Holders' = Holders \ {t} /\ t \in Holders /\ Held' = Held \ {mine[t]}
        /\ (\A u \in Holders' : mine'[u] = mine[u] /\ cur'[u] = cur[u])
    BY <1>5, <2>1, HeldFrame, Zenon
  <2>5. /\ mine[t] \notin Chain /\ mine[t] # reserve /\ mine[t] \in Held
        /\ mem[mine[t]].prev = cur[t] /\ mine[t] \in Chunks
        /\ Live = Chain \cup {reserve} \cup Held
        /\ \A u \in Holders' : mine[u] # mine[t] /\ mine[u] \in Chunks
    BY <2>2, Zenon DEF OwnerInv, Held
  <2>6. ASSUME NEW u \in Holders'
        PROVE  /\ mine'[u] \notin Chain /\ mine'[u] # reserve
               /\ mem[mine'[u]].prev = cur'[u]
               /\ \A v \in Holders' : v # u => mine'[v] # mine'[u]
    BY <2>2, <2>6, Zenon DEF OwnerInv
  <2>3. CASE reserve = cur[t]
    <3>1. mem' = mem /\ reserve' = mine[t]  BY <1>5, <2>3, Zenon DEF Offer, Compete
    <3>2. Live' = Live /\ Chain' = Chain  BY <2>1, <3>1, ChunksStay, Zenon
    <3>3. reserve \in Chain
      <4>1. cur[t] \in Chain  BY <1>5, Zenon DEF Offer, Compete, ThreadInv
      <4> QED  BY <2>3, <4>1, Zenon
    <3>4. reserve = tail  BY <3>3, Zenon DEF OwnerInv
    <3>5. Live' = Chain' \cup {reserve'} \cup Held'  BY <2>2, <2>5, <3>1, <3>2, <3>3, Zenon
    <3>6. mem'[reserve'].prev = tail' /\ reserve' \notin Chain'
      BY <2>1, <2>3, <2>5, <3>1, <3>2, <3>4, Zenon
    <3>7. \A u \in Holders' : mine'[u] \notin Chain' /\ mine'[u] # reserve' /\ mem'[mine'[u]].prev = cur'[u]
      BY <2>2, <2>5, <2>6, <3>1, <3>2, Zenon
    <3> QED  BY <2>6, <3>5, <3>6, <3>7, Zenon DEF OwnerInv
  <2>4. CASE reserve # cur[t]
    <3>1. mem' = Freed({mine[t]}) /\ reserve' = reserve  BY <1>5, <2>4, Zenon DEF Offer, Compete
    <3>2. /\ \A c \in Chunks : mem'[c].prev = mem[c].prev
          /\ Live' = Live \ {mine[t]} /\ Chain' = Chain
      BY <2>1, <3>1, FreeFrame, Zenon
    <3>3. Live' = Chain' \cup {reserve'} \cup Held'  BY <2>2, <2>5, <3>1, <3>2, Zenon
    <3>4. reserve' # tail' => mem'[reserve'].prev = tail' /\ reserve' \notin Chain'
      BY <1>0, <2>1, <3>1, <3>2, Zenon DEF OwnerInv
    <3>5. \A u \in Holders' : mine'[u] \notin Chain' /\ mine'[u] # reserve' /\ mem'[mine'[u]].prev = cur'[u]
      BY <2>2, <2>5, <2>6, <3>1, <3>2, Zenon
    <3> QED  BY <2>6, <3>3, <3>4, <3>5, Zenon DEF OwnerInv
  <2> QED  BY <2>3, <2>4, Zenon
<1>6. CASE Switch(t) /\ tail = cur[t]
  <2>1. /\ tail' = reserve /\ Live' = Live /\ Chain' = Chain \cup {reserve}
    BY <1>6, SwitchFrame, Zenon
  <2>2. at[t] \notin HoldingPCs /\ at'[t] \notin HoldingPCs /\ UNCHANGED <<mem, reserve>>
    BY <1>0, <1>6, Zenon DEF Switch, AllocGoto
  <2>3. Holders' = Holders /\ Held' = Held /\ t \notin Holders
        /\ (\A u \in Holders : mine'[u] = mine[u] /\ cur'[u] = cur[u])
    BY <1>6, <2>2, HeldFrame, Zenon DEF Holders
  <2> QED  BY <2>1, <2>2, <2>3 DEF OwnerInv
<1> QED  BY <1>2, <1>3, <1>4, <1>5, <1>6, Zenon DEF ThreadStep

(* Every thread still works on a chunk of the chain.                       *)
LEMMA CurrentStep ==
    ASSUME IInv, NEW t \in Allocators, (\E n \in Sizes : Alloc(t, n)) \/ ThreadStep(t)
    PROVE  Chain \subseteq Chain' /\ ThreadInv'
<1> USE Basics DEF IInv
<1>0. /\ reserve \in Chunks /\ t \in DOMAIN at /\ t \in DOMAIN mine /\ t \in DOMAIN cur
      /\ at[t] # "idle" => cur[t] \in Chain
      /\ OthersStay(t)
  BY Others, Zenon DEF TypeInv, AllocTypeOK, ThreadInv
<1>1. ASSUME Chain \subseteq Chain',
             \A u \in Allocators \ {t} : at[u] = "switch" /\ tail' = cur[u] =>
                                            mine[u] = reserve' /\ reserve' # tail',
             at'[t] # "idle" => cur'[t] \in Chain',
             at'[t] = "switch" => mine'[t] \in Chunks,
             at'[t] = "switch" /\ tail' = cur'[t] => mine'[t] = reserve' /\ reserve' # tail'
      PROVE  Chain \subseteq Chain' /\ ThreadInv'
  BY <1>0, <1>1, Zenon DEF ThreadInv, OthersStay
<1>2. CASE Bump(t)
  <2>1. Chain' = Chain /\ UNCHANGED <<tail, reserve>>
    <3>1. CASE mem[cur[t]].offs # offs[t]  BY <1>2, <3>1, ChunksStay, Zenon DEF Bump
    <3>2. CASE mem[cur[t]].offs = offs[t]  BY <1>2, <3>2, BumpFrame, Zenon DEF Bump
    <3> QED  BY <3>1, <3>2, Zenon
  <2>2. at'[t] # "switch" /\ (at'[t] # "idle" => cur'[t] = cur[t] /\ at[t] # "idle")
    BY <1>0, <1>2, Zenon DEF Bump, AllocGoto, Return
  <2> QED  BY <1>0, <1>1, <2>1, <2>2, Zenon DEF ThreadInv
<1>3. CASE (\E n \in Sizes : Alloc(t, n)) \/ Load(t) \/ PrepareFails(t) \/ ProvideFails(t) \/ Account(t)
           \/ (Switch(t) /\ tail # cur[t])
  <2>1. UNCHANGED <<mem, tail, reserve>> /\ at'[t] # "switch"
        /\ (at'[t] # "idle" => cur'[t] \in Chain)
    BY <1>0, <1>3, Zenon DEF Alloc, Load, PrepareFails, ProvideFails, Account, Switch, sharedVars,
                      AllocGoto, Return
  <2>2. Chain' = Chain  BY <2>1, ChunksStay, Zenon
  <2> QED  BY <1>0, <1>1, <2>1, <2>2, Zenon DEF ThreadInv
<1>4. CASE TakeReserve(t)
  <2>1. /\ UNCHANGED <<mem, tail, reserve>> /\ mine'[t] = reserve /\ cur' = cur /\ reserve # cur[t]
        /\ at[t] # "idle"
    BY <1>0, <1>4, Zenon DEF TakeReserve, sharedVars, AllocGoto
  <2>2. Chain' = Chain  BY <2>1, ChunksStay, Zenon
  <2> QED  BY <1>0, <1>1, <2>1, <2>2, Zenon DEF ThreadInv
<1>5. CASE Prepare(t) \/ Provide(t)
  <2>1. /\ cur[t] \in Chain /\ AllocateChunk(cur[t]) /\ UNCHANGED <<tail, reserve, cur>>
        /\ at'[t] # "switch"
    BY <1>0, <1>5, Zenon DEF Prepare, Provide, AllocGoto
  <2>2. Chain' = Chain  BY <2>1, AllocateFrame, Zenon
  <2> QED  BY <1>0, <1>1, <2>1, <2>2, Zenon DEF ThreadInv
<1>6. CASE Offer(t) \/ Compete(t)
  <2>1. /\ tail' = tail /\ cur[t] \in Chain /\ t \in Holders
        /\ at'[t] = "idle" \/ (at'[t] = "switch" /\ cur' = cur /\ mine'[t] = reserve')
    BY <1>0, <1>6, Zenon DEF Offer, Compete, AllocGoto, Return, Holders, HoldingPCs
  <2>2. mine[t] \in Chunks \ Chain  BY <2>1, Zenon DEF OwnerInv
  <2>3. CASE reserve = cur[t]
    <3>1. mem' = mem /\ reserve' = mine[t]  BY <1>6, <2>3, Zenon DEF Offer, Compete
    <3>2. Chain' = Chain  BY <2>1, <3>1, ChunksStay, Zenon
    <3>3. reserve = tail /\ reserve' # tail  BY <2>1, <2>2, <2>3, <3>1, Zenon DEF OwnerInv
    <3> QED  BY <1>0, <1>1, <2>1, <2>2, <3>1, <3>2, <3>3, Zenon DEF ThreadInv
  <2>4. CASE reserve # cur[t]
    <3>1. mem' = Freed({mine[t]}) /\ reserve' = reserve  BY <1>6, <2>4, Zenon DEF Offer, Compete
    <3>2. Chain' = Chain  BY <2>1, <3>1, FreeFrame, Zenon
    <3> QED  BY <1>0, <1>1, <2>1, <2>4, <3>1, <3>2, Zenon DEF ThreadInv
  <2> QED  BY <2>3, <2>4, Zenon
<1>7. CASE Switch(t) /\ tail = cur[t]
  <2>1. /\ tail' = reserve /\ reserve \notin Chain /\ Chain' = Chain \cup {reserve}
    BY <1>7, SwitchFrame, Zenon
  <2>2. at'[t] # "switch" /\ cur'[t] = reserve /\ \A u \in Allocators : at[u] # "idle" => cur[u] \in Chain
    BY <1>0, <1>7, <2>1, Zenon DEF Switch, AllocGoto, ThreadInv
  <2> QED  BY <1>1, <2>1, <2>2, Zenon
<1> QED  BY <1>2, <1>3, <1>4, <1>5, <1>6, <1>7, Zenon DEF ThreadStep

(* Arithmetic of the memory reported.                                      *)
LEMMA OneMore ==
    ASSUME NEW a \in Nat, NEW n \in Nat
    PROVE  a * (n + 1) = a * n + a /\ a * n \in Int
OBVIOUS

(* The memory reported still lacks the chunks to be accounted for.         *)
LEMMA UsedStep ==
    ASSUME IInv, NEW t \in Allocators, (\E n \in Sizes : Alloc(t, n)) \/ ThreadStep(t)
    PROVE  UsedInv'
<1> DEFINE waiting == Count(Allocators, at, {"account"})
           length == Cardinality(Chain)
<1>0. /\ IsFiniteSet(Allocators) /\ ChunkSize \in Nat /\ used \in Nat /\ t \in DOMAIN at
      /\ waiting \in Nat /\ length \in Nat /\ OnlyMoves(Allocators, at, at', t)
      /\ used + ChunkSize * waiting = ChunkSize * length
  BY SizesFit, CountNat, ChainFinite, Others, Zenon
     DEF IInv, TypeInv, AllocTypeOK, UsedInv, Chain, ChunkChain, OnlyMoves, OthersStay
<1>a. IsFiniteSet(Allocators) /\ OnlyMoves(Allocators, at, at', t)  BY <1>0, Zenon
<1>1. ASSUME at[t] # "account", at'[t] # "account", used' = used, Chain' = Chain  PROVE UsedInv'
  <2>1. at[t] \notin {"account"} /\ at'[t] \notin {"account"}  BY <1>1, Zenon
  <2>2. waiting' = waiting  BY <1>a, <2>1, CountStayOut
  <2> QED  BY <1>0, <1>1, <2>2, Zenon DEF UsedInv
<1>2. CASE Bump(t)
  <2>1. Chain' = Chain
    <3>1. CASE mem[cur[t]].offs # offs[t]  BY <1>2, <3>1, ChunksStay, Zenon DEF Bump
    <3>2. CASE mem[cur[t]].offs = offs[t]  BY <1>2, <3>2, BumpFrame, Zenon DEF Bump
    <3> QED  BY <3>1, <3>2, Zenon
  <2> QED  BY <1>0, <1>1, <1>2, <2>1, Zenon DEF Bump, AllocGoto, Return
<1>3. CASE (\E n \in Sizes : Alloc(t, n)) \/ Load(t) \/ PrepareFails(t) \/ TakeReserve(t)
           \/ ProvideFails(t) \/ (Switch(t) /\ tail # cur[t])
  <2>1. UNCHANGED <<mem, tail, used>> /\ at[t] # "account" /\ at'[t] # "account"
    BY <1>0, <1>3, Zenon DEF Alloc, Load, PrepareFails, TakeReserve, ProvideFails, Switch, sharedVars,
                      AllocGoto, Return
  <2> QED  BY <1>1, <2>1, ChunksStay, Zenon
<1>4. CASE Prepare(t) \/ Provide(t)
  <2>1. /\ cur[t] \in Chain /\ AllocateChunk(cur[t]) /\ UNCHANGED <<tail, used>>
        /\ at[t] # "account" /\ at'[t] # "account"
    BY <1>0, <1>4, Zenon DEF Prepare, Provide, AllocGoto, IInv, ThreadInv
  <2> QED  BY <1>1, <2>1, AllocateFrame, Zenon
<1>5. CASE Offer(t) \/ Compete(t)
  <2>1. UNCHANGED <<tail, used>> /\ at[t] # "account" /\ at'[t] # "account"
    BY <1>0, <1>5, Zenon DEF Offer, Compete, AllocGoto, Return
  <2>2. mem' = mem \/ mem' = Freed({mine[t]})  BY <1>5, Zenon DEF Offer, Compete
  <2> QED  BY <1>1, <2>1, <2>2, ChunksStay, FreeFrame, Zenon
<1>6. CASE Switch(t) /\ tail = cur[t]
  <2>1. reserve \notin Chain /\ Chain' = Chain \cup {reserve}  BY <1>6, SwitchFrame, Zenon
  <2>2. length' = length + 1
    BY <2>1, ChainFinite, FS_AddElement, Zenon DEF Chain, ChunkChain
  <2>3. used' = used  BY <1>6, Zenon DEF Switch
  <2>4. waiting' = waiting + 1
    <3>1. at[t] \notin {"account"} /\ at'[t] \in {"account"}  BY <1>0, <1>6, Zenon DEF Switch, AllocGoto
    <3> QED  BY <1>a, <3>1, CountEnter
  <2> HIDE DEF waiting, length
  <2>5. used' + ChunkSize * waiting' = ChunkSize * length'
    BY <1>0, <2>2, <2>3, <2>4, OneMore
  <2> QED  BY <2>5, Zenon DEF UsedInv, waiting, length
<1>7. CASE Account(t)
  <2>1. used' = used + ChunkSize /\ UNCHANGED <<mem, tail>>  BY <1>7, Zenon DEF Account
  <2>2. waiting' = waiting - 1 /\ waiting # 0
    <3>1. at[t] \in {"account"} /\ at'[t] \notin {"account"}  BY <1>0, <1>7, Zenon DEF Account, AllocGoto
    <3> QED  BY <1>a, <3>1, CountLeave
  <2>3. length' = length  BY <2>1, ChunksStay, Zenon
  <2> HIDE DEF waiting, length
  <2>4. waiting' \in Nat /\ waiting = waiting' + 1  BY <1>0, <2>2
  <2>5. used' + ChunkSize * waiting' = ChunkSize * length'
    <3>1. ChunkSize * waiting = ChunkSize * waiting' + ChunkSize  BY <1>0, <2>4, OneMore, Zenon
    <3>2. ChunkSize * waiting' \in Int  BY <1>0, <2>4, OneMore, Zenon
    <3> QED  BY <1>0, <2>1, <2>3, <3>1, <3>2
  <2> QED  BY <2>5, Zenon DEF UsedInv, waiting, length
<1> QED  BY <1>2, <1>3, <1>4, <1>5, <1>6, <1>7, Zenon DEF ThreadStep

(* A new block begins where the others of its chunk end.                   *)
LEMMA BlocksStep ==
    ASSUME IInv, NEW t \in Allocators, (\E n \in Sizes : Alloc(t, n)) \/ ThreadStep(t)
    PROVE  BlocksInv'
<1> USE Basics DEF IInv
<1>0. Chain \subseteq Chain' /\ \A b \in blocks : b.chunk \in Chunks /\ b.from \in Nat /\ b.to \in Nat
  BY CurrentStep, Zenon DEF TypeInv, BlockType
<1>1. ASSUME blocks' = blocks, \A c \in Chain : mem'[c].offs = mem[c].offs  PROVE BlocksInv'
  BY <1>0, <1>1, Zenon DEF BlocksInv
<1>2. CASE Bump(t) /\ mem[cur[t]].offs = offs[t]
  <2> DEFINE from == offs[t]
             to == offs[t] + askedSize[t]
             new == [chunk |-> cur[t], from |-> from, to |-> to, by |-> t]
  <2>1. /\ cur[t] \in Chain /\ from \in Nat /\ to \in Nat /\ from < to /\ Header <= from
        /\ Header \in Nat
        /\ \A c \in Chunks \ {cur[t]} : mem'[c].offs = mem[c].offs
        /\ mem'[cur[t]].offs = to /\ mem[cur[t]].offs = from
    <3>1. Header \in Nat  BY SizesFit
    <3>2. /\ cur[t] \in Chain /\ offs[t] \in Nat /\ askedSize[t] \in Nat \ {0} /\ Header <= offs[t]
          /\ \A c \in Chunks \ {cur[t]} : mem'[c].offs = mem[c].offs
          /\ mem'[cur[t]].offs = to
      BY <1>2, BumpFrame, Zenon
    <3> QED  BY <1>2, <3>1, <3>2
  <2>2. blocks' = blocks \cup {new}  BY <1>2, Zenon DEF Bump
  <2>3. new.chunk = cur[t] /\ new.from = from /\ new.to = to  BY Zenon
  <2> HIDE DEF from, to, new
  <2>4. \A b \in blocks : b.chunk = cur[t] => b.to <= from  BY <2>1, Zenon DEF BlocksInv
  <2>5. ASSUME NEW b \in blocks'
        PROVE  b.chunk \in Chain' /\ Header <= b.from /\ b.from < b.to /\ b.to <= mem'[b.chunk].offs
    <3>1. CASE b = new  BY <1>0, <2>1, <2>3, <3>1
    <3>2. CASE b # new /\ b.chunk = cur[t]
      <4>1. b \in blocks /\ b.to <= from  BY <2>2, <2>4, <2>5, <3>2, Zenon
      <4> QED  BY <1>0, <2>1, <3>2, <4>1 DEF BlocksInv
    <3>3. CASE b # new /\ b.chunk # cur[t]
      <4>1. b \in blocks  BY <2>2, <2>5, <3>3, Zenon
      <4> QED  BY <1>0, <2>1, <3>3, <4>1, Zenon DEF BlocksInv
    <3> QED  BY <3>1, <3>2, <3>3, Zenon
  <2>6. ASSUME NEW b \in blocks', NEW d \in blocks', d # b, d.chunk = b.chunk
        PROVE  d.to <= b.from \/ b.to <= d.from
    <3>1. CASE b \in blocks /\ d \in blocks  BY <2>6, <3>1, Zenon DEF BlocksInv
    <3>2. CASE b = new  BY <2>2, <2>3, <2>4, <2>6, <3>2, Zenon
    <3>3. CASE d = new  BY <2>2, <2>3, <2>4, <2>6, <3>3, Zenon
    <3> QED  BY <2>2, <3>1, <3>2, <3>3, Zenon
  <2> QED  BY <2>5, <2>6, Zenon DEF BlocksInv
<1>3. CASE Prepare(t) \/ Provide(t)
  <2>1. cur[t] \in Chain /\ AllocateChunk(cur[t]) /\ UNCHANGED <<tail, blocks>>
    BY <1>3, Zenon DEF Prepare, Provide, ThreadInv
  <2>2. \A c \in Chunks \ {last + 1} : mem'[c] = mem[c]  BY <2>1, AllocateFrame, Zenon
  <2> QED  BY <1>1, <2>1, <2>2, Zenon
<1>4. CASE Offer(t) \/ Compete(t)
  <2>1. UNCHANGED <<tail, blocks>> /\ (mem' = mem \/ mem' = Freed({mine[t]}))
    BY <1>4, Zenon DEF Offer, Compete
  <2>2. \A c \in Chunks : mem'[c].offs = mem[c].offs  BY <2>1, FreeFrame, Zenon
  <2> QED  BY <1>1, <2>1, <2>2, Zenon
<1>5. CASE (\E n \in Sizes : Alloc(t, n)) \/ Load(t) \/ PrepareFails(t) \/ TakeReserve(t)
           \/ ProvideFails(t) \/ Switch(t) \/ Account(t) \/ (Bump(t) /\ mem[cur[t]].offs # offs[t])
  BY <1>1, <1>5, Zenon DEF Alloc, Load, PrepareFails, TakeReserve, ProvideFails, Switch, Account, Bump, sharedVars
<1> QED  BY <1>2, <1>3, <1>4, <1>5, Zenon DEF ThreadStep

(* clear() leaves the first chunk, empty: everything else was in the chain *)
(* or the reserve.                                                         *)
LEMMA ClearStep ==
    ASSUME IInv, ClearChunks
    PROVE  IInv'
<1> USE SizesFit, Basics DEF IInv
<1>1. First(tail) = 1 /\ 1 \in Chain  BY FirstIsOne, Zenon
<1>2. /\ \A t \in Allocators : at[t] = "idle"
      /\ tail' = 1 /\ reserve' = 1 /\ used' = ChunkSize /\ blocks' = {} /\ UNCHANGED <<last, localVars>>
  BY <1>1, Zenon DEF ClearChunks
<1>3. PICK cs : /\ cs = (IF mem[reserve].prev = tail THEN {reserve} ELSE {}) \cup (Chain \ {1})
                /\ mem' = [Freed(cs) EXCEPT ![1].offs = Header]
  BY <1>1, Zenon DEF ClearChunks, Chain
<1>4. Header \in 0..ChunkSize  BY SizesFit
<1>5. mem \in [Chunks -> ChunkType]  BY Zenon DEF TypeInv, AllocTypeOK, ChunkType
<1>6. /\ mem' \in [Chunks -> ChunkType]
      /\ \A c \in Chunks : mem'[c].prev = mem[c].prev /\ mem'[c].live = (mem[c].live /\ c \notin cs)
      /\ mem'[1].offs = Header
  <2>1. /\ Freed(cs) \in [Chunks -> ChunkType]
        /\ \A c \in Chunks : /\ Freed(cs)[c].prev = mem[c].prev
                              /\ Freed(cs)[c].live = (mem[c].live /\ c \notin cs)
    BY <1>5, ZenonT(120) DEF Freed, ChunkType
  <2> DEFINE g == Freed(cs)
  <2>2. g \in [Chunks -> ChunkType] /\ mem' = [g EXCEPT ![1].offs = Header]  BY <1>3, <2>1, Zenon
  <2> HIDE DEF g
  <2>3. /\ mem' \in [Chunks -> ChunkType] /\ mem'[1].offs = Header
        /\ \A c \in Chunks : mem'[c].prev = g[c].prev /\ mem'[c].live = g[c].live
    BY <1>4, <2>2 DEF ChunkType
  <2> QED  BY <2>1, <2>3, Zenon DEF g
<1>7. 1 \notin cs /\ Live \ cs = {1}
  <2>1. Held = {}  BY <1>2, Zenon DEF Held, Holders, HoldingPCs
  <2>2. Live = Chain \cup {reserve}  BY <2>1, Zenon DEF OwnerInv
  <2>3. reserve \in Chain => reserve = tail  BY Zenon DEF OwnerInv
  <2>4. reserve # tail => mem[reserve].prev = tail /\ reserve # 1  BY <1>1, <2>3, Zenon DEF OwnerInv
  <2>5. mem[tail].prev # tail  BY DEF LinkInv, Live
  <2> QED  BY <1>1, <1>3, <2>2, <2>3, <2>4, <2>5
<1>8. Live' = {1}  BY <1>6, <1>7, Zenon DEF Live
<1>9. Chain' = {1}  BY <1>2, <1>6, ChainAlone, Zenon DEF Chain, ChunkChain, LinkInv
<1>10. TypeInv'
  BY <1>2, <1>6, Zenon DEF TypeInv, AllocTypeOK, ChunkType, localVars
<1>11. LinkInv'
  <2>1. mem'[1].live /\ mem'[1].prev = Null  BY <1>6, <1>8, Zenon DEF LinkInv, Live
  <2>2. 1 <= last' /\ Header <= mem'[1].offs
    <3>1. last' = last /\ mem'[1].offs = Header  BY <1>2, <1>6, Zenon
    <3>2. last \in Nat /\ last # 0 /\ Header \in Nat
      BY DEF SizesFit, TypeInv, AllocTypeOK, Chunks
    <3> HIDE DEF IInv
    <3> QED  BY <3>1, <3>2
  <2> QED  BY <1>8, <2>1, <2>2, Zenon DEF LinkInv
<1>12. Held' = {} /\ Holders' = {}  BY <1>2, Zenon DEF Held, Holders, HoldingPCs, localVars
<1>13. OwnerInv'  BY <1>2, <1>8, <1>9, <1>12, Zenon DEF OwnerInv
<1>14. ThreadInv'  BY <1>2, Zenon DEF ThreadInv, localVars
<1>15. UsedInv'
  <2>1. Count(Allocators, at', {"account"}) = 0  BY <1>2, CountNone, Zenon DEF localVars
  <2>2. Cardinality(Chain') = 1  BY <1>9, FS_Singleton, Zenon
  <2> QED  BY <1>2, <2>1, <2>2 DEF UsedInv
<1>16. BlocksInv'  BY <1>2, Zenon DEF BlocksInv
<1> QED  BY <1>10, <1>11, <1>13, <1>14, <1>15, <1>16, Zenon

(* The invariant holds when the allocator is created.                      *)
LEMMA InitInv == AllocInit => IInv
<1> SUFFICES ASSUME AllocInit PROVE IInv  BY Zenon
<1> USE SizesFit
<1>1. 1 \in Chunks /\ Chunks \subseteq Nat \ {0}  BY DEF Chunks
<1>2. Chain = {1}  BY <1>1, ChainAlone, Zenon DEF Chain, ChunkChain, AllocInit, NewChunk
<1>3. Live = {1}  BY <1>1, Zenon DEF Live, AllocInit, NewChunk
<1>4. Held = {} /\ Holders = {}  BY Zenon DEF Held, Holders, HoldingPCs, AllocInit
<1>5. TypeInv
  <2>1. mem \in [Chunks -> ChunkType]  BY <1>1 DEF AllocInit, NewChunk, Null, ChunkType
  <2> QED  BY <1>1, <2>1 DEF TypeInv, AllocTypeOK, AllocInit, Null, ChunkType
<1>6. LinkInv /\ OwnerInv /\ ThreadInv /\ BlocksInv
  BY <1>1, <1>2, <1>3, <1>4 DEF LinkInv, OwnerInv, ThreadInv, BlocksInv, AllocInit, NewChunk
<1>7. UsedInv
  <2>1. Count(Allocators, at, {"account"}) = 0  BY CountNone, Zenon DEF AllocInit
  <2>2. Cardinality(Chain) = 1  BY <1>2, FS_Singleton, Zenon
  <2> QED  BY <2>1, <2>2 DEF UsedInv, AllocInit
<1> QED  BY <1>5, <1>6, <1>7, Zenon DEF IInv

(* Every step keeps it.                                                    *)
LEMMA NextInv == IInv /\ [AllocNext]_allocVars => IInv'
<1>1. ASSUME IInv, NEW t \in Allocators, (\E n \in Sizes : Alloc(t, n)) \/ ThreadStep(t)  PROVE IInv'
  <2>1. TypeInv'  BY <1>1, TypeStep, Zenon
  <2>2. LinkInv'  BY <1>1, LinkStep, Zenon
  <2>3. OwnerInv'  BY <1>1, OwnerStep, Zenon
  <2>4. ThreadInv'  BY <1>1, CurrentStep, Zenon
  <2>5. UsedInv'  BY <1>1, UsedStep, Zenon
  <2>6. BlocksInv'  BY <1>1, BlocksStep, Zenon
  <2> QED  BY <2>1, <2>2, <2>3, <2>4, <2>5, <2>6, Zenon DEF IInv
<1>2. ASSUME IInv, UNCHANGED allocVars  PROVE IInv'
  <2> USE <1>2 DEF allocVars, sharedVars, localVars, IInv
  <2>1. Live' = Live /\ Chain' = Chain /\ Held' = Held /\ Holders' = Holders
    BY Zenon DEF Live, Held, Holders, Chain, ChunkChain
  <2>2. TypeInv'  BY Zenon DEF TypeInv, AllocTypeOK
  <2>3. LinkInv' /\ OwnerInv'  BY <2>1, Zenon DEF LinkInv, OwnerInv
  <2>4. ThreadInv' /\ UsedInv' /\ BlocksInv'  BY <2>1, Zenon DEF ThreadInv, UsedInv, BlocksInv
  <2> QED  BY <2>2, <2>3, <2>4, Zenon
<1> QED  BY <1>1, <1>2, ClearStep, Zenon DEF AllocNext

-----------------------------------------------------------------------------
(* The allocator's variables keep their types, whatever the threads do.    *)
THEOREM AllocTypesCorrect == AllocSpec => []AllocTypeOK
<1>1. IInv => AllocTypeOK  BY Zenon DEF IInv, TypeInv
<1> QED  BY <1>1, InitInv, NextInv, PTL DEF AllocSpec

(* LinearAllocator::alloc never hands out overlapping blocks, nor one of a *)
(* chunk that has been freed, for any number of threads.                   *)
THEOREM BlocksAreDisjoint == AllocSpec => []BlocksDisjoint
<1>1. IInv => BlocksDisjoint
  <2> SUFFICES ASSUME IInv, NEW b \in blocks
               PROVE  mem[b.chunk].live /\ b.from >= Header /\ b.to <= ChunkSize
    BY Zenon DEF BlocksDisjoint, IInv, BlocksInv
  <2>1. b.chunk \in Live /\ Header <= b.from /\ b.to <= mem[b.chunk].offs
    BY Basics, Zenon DEF IInv, BlocksInv
  <2>2. b.to \in Nat /\ b.from \in Nat /\ mem[b.chunk].offs \in 0..ChunkSize
    BY <2>1, Zenon DEF IInv, TypeInv, AllocTypeOK, BlockType, Live
  <2> QED  BY <2>1, <2>2, SizesFit DEF Live
<1> QED  BY <1>1, InitInv, NextInv, PTL DEF AllocSpec

(* Between calls no chunk is leaked: the live ones are those of the chain  *)
(* and the reserve, and usedMemory() is the size of the chain.             *)
THEOREM NoChunkIsLeaked == AllocSpec => []NoChunkLeak
<1>1. IInv => NoChunkLeak
  <2> SUFFICES ASSUME IInv, \A t \in Allocators : at[t] = "idle"
               PROVE  /\ Live = Chain \cup {reserve}
                      /\ used = ChunkSize * Cardinality(Chain)
                      /\ reserve = tail \/ mem[reserve].prev = tail
    BY Zenon DEF NoChunkLeak, Live, Chain
  <2>1. Held = {}  BY Zenon DEF Held, Holders, HoldingPCs
  <2>2. Count(Allocators, at, {"account"}) = 0  BY CountNone, Zenon
  <2>3. used \in Nat /\ ChunkSize \in Nat  BY SizesFit, Zenon DEF IInv, TypeInv, AllocTypeOK
  <2>4. used = ChunkSize * Cardinality(Chain)  BY <2>2, <2>3 DEF IInv, UsedInv
  <2> QED  BY <2>1, <2>4, Zenon DEF IInv, OwnerInv
<1> QED  BY <1>1, InitInv, NextInv, PTL DEF AllocSpec

(* Both: what the trace storage relies on when it keeps its traces in      *)
(* blocks of LinearAllocator.                                              *)
THEOREM BlocksAreSound == AllocSpec => []BlocksSound
BY BlocksAreDisjoint, NoChunkIsLeaked, PTL DEF BlocksSound
=============================================================================
