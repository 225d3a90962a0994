-------------------------- MODULE LinearAllocator --------------------------
(***************************************************************************)
(* The lock-free allocator of call traces (linearAllocator.cpp).           *)
(*                                                                         *)
(* Threads bump the offset of the tail chunk with compare-and-swap. The    *)
(* one that steps over the middle of a chunk prepares the next, _reserve;  *)
(* the ones that find the chunk full compete to install it as _tail.       *)
(* Chunks are numbered; a number is used once.                             *)
(***************************************************************************)
EXTENDS Integers, FiniteSets

CONSTANTS
    Allocators, \* the threads
    ChunkSize,  \* _chunk_size
    Header,     \* sizeof(Chunk)
    Sizes,      \* the sizes asked for
    MaxHeapChunks,  \* bound on the chunks ever allocated
    MaxAllocs,  \* bound on the allocations
    MaxChunkClears  \* bound on the calls of clear()

ASSUME SizesFit ==
    /\ IsFiniteSet(Allocators)
    /\ ChunkSize \in Nat /\ Header \in 1..ChunkSize /\ Sizes \subseteq Nat \ {0}
    /\ \A n \in Sizes : Header + n <= ChunkSize
    /\ MaxHeapChunks \in Nat \ {0} /\ MaxAllocs \in Nat /\ MaxChunkClears \in Nat

Chunks == 1..MaxHeapChunks
Null == 0

VARIABLES
    mem,      \* each chunk: live, prev, offs
    tail,     \* _tail
    reserve,  \* _reserve
    used,     \* _used_memory
    last,     \* the last chunk number used
    at,       \* where each thread is
    cur,      \* chunk in alloc, current in the helpers
    offs,     \* offs in alloc
    askedSize, \* the size asked for
    mine,     \* reserve in the helpers
    blocks,   \* history: the blocks handed out since the last clear
    asked,    \* allocations begun
    chunkClears

sharedVars == <<mem, tail, reserve, used, last>>
localVars == <<at, cur, offs, askedSize, mine>>
allocVars == <<sharedVars, localVars, blocks, asked, chunkClears>>

NewChunk(prev) == [live |-> TRUE, prev |-> prev, offs |-> Header]

AllocInit ==
    /\ mem = [c \in Chunks |-> IF c = 1 THEN NewChunk(Null)
                                 ELSE [live |-> FALSE, prev |-> Null, offs |-> 0]]
    /\ tail = 1 /\ reserve = 1 /\ last = 1
    /\ used = ChunkSize
    /\ at = [t \in Allocators |-> "idle"]
    /\ cur = [t \in Allocators |-> Null]
    /\ offs = [t \in Allocators |-> 0]
    /\ askedSize = [t \in Allocators |-> 0]
    /\ mine = [t \in Allocators |-> Null]
    /\ blocks = {} /\ asked = 0 /\ chunkClears = 0

AllocGoto(t, place) == at' = [at EXCEPT ![t] = place]

(* The thread returns from alloc.                                          *)
Return(t) ==
    /\ AllocGoto(t, "idle")
    /\ cur' = [cur EXCEPT ![t] = Null]
    /\ offs' = [offs EXCEPT ![t] = 0]
    /\ askedSize' = [askedSize EXCEPT ![t] = 0]
    /\ mine' = [mine EXCEPT ![t] = Null]

(* allocateChunk and freeChunk. Allocation fails when memory is exhausted. *)
AllocateChunk(prev) ==
    /\ last < MaxHeapChunks
    /\ last' = last + 1
    /\ mem' = [mem EXCEPT ![last + 1] = NewChunk(prev)]
Freed(cs) == [c \in Chunks |-> IF c \in cs THEN [mem[c] EXCEPT !.live = FALSE] ELSE mem[c]]

-----------------------------------------------------------------------------
(* alloc.                                                                  *)

Alloc(t, n) ==
    /\ at[t] = "idle" /\ asked < MaxAllocs
    /\ asked' = asked + 1
    /\ askedSize' = [askedSize EXCEPT ![t] = n]
    /\ cur' = [cur EXCEPT ![t] = tail]
    /\ AllocGoto(t, "load")
    /\ UNCHANGED <<sharedVars, offs, mine, blocks, chunkClears>>

Load(t) ==
    /\ at[t] = "load"
    /\ offs' = [offs EXCEPT ![t] = mem[cur[t]].offs]
    /\ AllocGoto(t, IF mem[cur[t]].offs + askedSize[t] <= ChunkSize THEN "bump" ELSE "next")
    /\ UNCHANGED <<sharedVars, cur, askedSize, mine, blocks, asked, chunkClears>>

(* Steps over the middle of the chunk: the subtraction is unsigned, so a   *)
(* block that begins past the middle does not.                             *)
CrossesMiddle(from, n) == from <= ChunkSize \div 2 /\ ChunkSize \div 2 - from < n

(* Faulty variant: the offset is stored without comparing it.              *)
BumpBlindly(t) ==
    /\ at[t] = "bump"
    /\ mem' = [mem EXCEPT ![cur[t]].offs = offs[t] + askedSize[t]]
    /\ blocks' = blocks \cup {[chunk |-> cur[t], from |-> offs[t],
                               to |-> offs[t] + askedSize[t], by |-> t]}
    /\ IF CrossesMiddle(offs[t], askedSize[t])
       THEN AllocGoto(t, "prepare") /\ UNCHANGED <<cur, offs, askedSize, mine>>
       ELSE Return(t)
    /\ UNCHANGED <<tail, reserve, used, last, asked, chunkClears>>

Bump(t) ==
    /\ at[t] = "bump"
    /\ IF mem[cur[t]].offs = offs[t]
       THEN /\ mem' = [mem EXCEPT ![cur[t]].offs = offs[t] + askedSize[t]]
            /\ blocks' = blocks \cup {[chunk |-> cur[t], from |-> offs[t],
                                       to |-> offs[t] + askedSize[t], by |-> t]}
            /\ IF CrossesMiddle(offs[t], askedSize[t])
               THEN AllocGoto(t, "prepare") /\ UNCHANGED <<cur, offs, askedSize, mine>>
               ELSE Return(t)
       ELSE /\ AllocGoto(t, "load")
            /\ UNCHANGED <<mem, blocks, cur, offs, askedSize, mine>>
    /\ UNCHANGED <<tail, reserve, used, last, asked, chunkClears>>

(* reserveChunk(current): allocate, then offer.                            *)
Prepare(t) ==
    /\ at[t] = "prepare"
    /\ AllocateChunk(cur[t])
    /\ mine' = [mine EXCEPT ![t] = last + 1]
    /\ AllocGoto(t, "offer")
    /\ UNCHANGED <<tail, reserve, used, cur, offs, askedSize, blocks, asked, chunkClears>>

PrepareFails(t) ==
    /\ at[t] = "prepare"
    /\ Return(t)
    /\ UNCHANGED <<sharedVars, blocks, asked, chunkClears>>

Offer(t) ==
    /\ at[t] = "offer"
    /\ IF reserve = cur[t]
       THEN reserve' = mine[t] /\ UNCHANGED mem
       ELSE mem' = Freed({mine[t]}) /\ UNCHANGED reserve
    /\ Return(t)
    /\ UNCHANGED <<tail, used, last, blocks, asked, chunkClears>>

(* getNextChunk(current): take the reserve, or compete to provide it.      *)
TakeReserve(t) ==
    /\ at[t] = "next"
    /\ reserve # cur[t]
    /\ mine' = [mine EXCEPT ![t] = reserve]
    /\ AllocGoto(t, "switch")
    /\ UNCHANGED <<sharedVars, cur, offs, askedSize, blocks, asked, chunkClears>>

Provide(t) ==
    /\ at[t] = "next"
    /\ reserve = cur[t]
    /\ AllocateChunk(cur[t])
    /\ mine' = [mine EXCEPT ![t] = last + 1]
    /\ AllocGoto(t, "compete")
    /\ UNCHANGED <<tail, reserve, used, cur, offs, askedSize, blocks, asked, chunkClears>>

(* Out of memory: alloc returns NULL.                                      *)
ProvideFails(t) ==
    /\ at[t] = "next"
    /\ reserve = cur[t]
    /\ Return(t)
    /\ UNCHANGED <<sharedVars, blocks, asked, chunkClears>>

(* Faulty variant: the loser keeps its chunk.                              *)
CompeteKeepsChunk(t) ==
    /\ at[t] = "compete"
    /\ IF reserve = cur[t]
       THEN reserve' = mine[t] /\ UNCHANGED mine
       ELSE mine' = [mine EXCEPT ![t] = reserve] /\ UNCHANGED reserve
    /\ AllocGoto(t, "switch")
    /\ UNCHANGED <<mem, tail, used, last, cur, offs, askedSize, blocks, asked, chunkClears>>

Compete(t) ==
    /\ at[t] = "compete"
    /\ IF reserve = cur[t]
       THEN reserve' = mine[t] /\ UNCHANGED <<mem, mine>>
       ELSE /\ mem' = Freed({mine[t]})
            /\ mine' = [mine EXCEPT ![t] = reserve]
            /\ UNCHANGED reserve
    /\ AllocGoto(t, "switch")
    /\ UNCHANGED <<tail, used, last, cur, offs, askedSize, blocks, asked, chunkClears>>

(* The winner accounts for the new chunk; the others follow to the tail.   *)
Switch(t) ==
    /\ at[t] = "switch"
    /\ IF tail = cur[t]
       THEN tail' = mine[t] /\ cur' = [cur EXCEPT ![t] = mine[t]] /\ AllocGoto(t, "account")
       ELSE cur' = [cur EXCEPT ![t] = tail] /\ AllocGoto(t, "load") /\ UNCHANGED tail
    /\ UNCHANGED <<mem, reserve, used, last, offs, askedSize, mine, blocks, asked, chunkClears>>

Account(t) ==
    /\ at[t] = "account"
    /\ used' = used + ChunkSize
    /\ AllocGoto(t, "load")
    /\ UNCHANGED <<mem, tail, reserve, last, cur, offs, askedSize, mine, blocks, asked, chunkClears>>

-----------------------------------------------------------------------------
(* The chunks linked from c: c, and those that no set with c and closed    *)
(* under prev can do without.                                              *)
Linked(f, S) == \A d \in S : f[d].prev \in S \cup {Null}
ChainOf(f, c) ==
    {d \in Chunks : d = c \/ \A S \in SUBSET (Chunks \ {c, d}) : ~Linked(f, S \cup {c})}
ChunkChain(c) == ChainOf(mem, c)

First(c) == CHOOSE d \in ChunkChain(c) : mem[d].prev = Null

(* clear(): called under lockAll, when no thread is in alloc. It frees the *)
(* reserve if that comes after the tail, and every chunk but the first.    *)
ClearChunks ==
    /\ \A t \in Allocators : at[t] = "idle"
    /\ chunkClears < MaxChunkClears /\ chunkClears' = chunkClears + 1
    /\ LET spare == IF mem[reserve].prev = tail THEN {reserve} ELSE {}
       IN  mem' = [Freed(spare \cup (ChunkChain(tail) \ {First(tail)}))
                        EXCEPT ![First(tail)].offs = Header]
    /\ tail' = First(tail) /\ reserve' = First(tail)
    /\ used' = ChunkSize
    /\ blocks' = {}
    /\ UNCHANGED <<last, localVars, asked>>

ThreadStep(t) ==
    \/ Load(t) \/ Bump(t) \/ Prepare(t) \/ PrepareFails(t) \/ Offer(t)
    \/ TakeReserve(t) \/ Provide(t) \/ ProvideFails(t) \/ Compete(t)
    \/ Switch(t) \/ Account(t)

AllocNext ==
    \/ \E t \in Allocators : (\E n \in Sizes : Alloc(t, n)) \/ ThreadStep(t)
    \/ ClearChunks

AllocSpec == AllocInit /\ [][AllocNext]_allocVars

-----------------------------------------------------------------------------
(* Properties.                                                             *)

(* Every variable has the type of the C++ variable it stands for.          *)
AllocTypeOK ==
    /\ mem \in [Chunks -> [live : BOOLEAN, prev : Chunks \cup {Null}, offs : 0..ChunkSize]]
    /\ tail \in Chunks /\ reserve \in Chunks /\ last \in Chunks
    /\ used \in Nat
    /\ at \in [Allocators -> {"idle", "load", "bump", "prepare", "offer", "next", "compete",
                           "switch", "account"}]
    /\ cur \in [Allocators -> Chunks \cup {Null}] /\ mine \in [Allocators -> Chunks \cup {Null}]
    /\ offs \in [Allocators -> 0..ChunkSize] /\ askedSize \in [Allocators -> Sizes \cup {0}]

(* Two blocks never overlap, and a block lies behind the header and inside *)
(* a chunk that has not been freed.                                        *)
BlocksDisjoint ==
    \A b \in blocks :
        /\ mem[b.chunk].live /\ b.from >= Header /\ b.to <= ChunkSize
        /\ \A d \in blocks : d # b /\ d.chunk = b.chunk => d.to <= b.from \/ b.to <= d.from

(* No chunk is leaked and none is used after it was freed: between calls   *)
(* the live chunks are those of the chain and the reserve, the memory      *)
(* reported is the size of the chain, and the reserve is the tail or the   *)
(* chunk linked behind it, as clear() needs to free it.                    *)
NoChunkLeak ==
    (\A t \in Allocators : at[t] = "idle") =>
        LET chain == ChunkChain(tail)
        IN  /\ {c \in Chunks : mem[c].live} = chain \cup {reserve}
            /\ used = ChunkSize * Cardinality(chain)
            /\ reserve = tail \/ mem[reserve].prev = tail

(* Blocks do not overlap, and no chunk leaks.                              *)
BlocksSound == BlocksDisjoint /\ NoChunkLeak
=============================================================================
