----------------------------- MODULE Dictionary -----------------------------
(***************************************************************************)
(* The append-only concurrent dictionary of class names, strings and user  *)
(* event types (dictionary.cpp): a tree of tables of ROWS rows with CELLS  *)
(* cells; a full row leads to a table of its own. lookup() maps a key to   *)
(* the index of its cell, inserting the key if it is new, without a lock.  *)
(*                                                                         *)
(* A key is a model value; its hash is the sequence of the rows it takes   *)
(* in the successive tables (h % ROWS, with h rotated at every level).     *)
(***************************************************************************)
EXTENDS Integers, FiniteSets, Sequences

CONSTANTS
    Readers,            \* the threads that call lookup()
    Keys,
    Rows, CellsPerRow,  \* ROWS and CELLS
    RowAt(_, _),        \* the row of a key at a level of the tree, from 0
    MaxDepth,           \* levels of the tree the keys can reach
    MaxDictTables,      \* bound on the tables allocated
    MaxLookups, MaxDictClears,
    NoKey, NoTable

DictionaryShape ==
    /\ Rows \in Nat \ {0} /\ CellsPerRow \in Nat \ {0}
    /\ MaxDictTables \in Nat /\ MaxLookups \in Nat /\ MaxDictClears \in Nat
    /\ \A k \in Keys, d \in 0..MaxDepth : RowAt(k, d) \in 0..(Rows - 1)

(* A table is named by the order of its allocation; 0 is the root.         *)
DictTables == 0..MaxDictTables
TableCapacity == Rows * CellsPerRow

VARIABLES
    cells,      \* the key in each cell of each table
    next,       \* the table each full row leads to
    base,       \* base_index of each table
    baseIndex,  \* _base_index
    live,       \* the tables allocated and not freed
    allocs,     \* tables allocated so far
    lookup,     \* lookup() on each thread
    answers,    \* history: <<key, index>> returned since the last clear
    lookups, dictClears

dictVars == <<cells, next, base, baseIndex, live, allocs, lookup, answers, lookups, dictClears>>

RowSet == 0..(Rows - 1)
ColSet == 0..(CellsPerRow - 1)
Empty == [r \in RowSet |-> [c \in ColSet |-> NoKey]]
Leaf == [r \in RowSet |-> NoTable]
NoLookup == [pc |-> "idle"]

(* table->index: cells of one column are adjacent.                         *)
Index(t, r, c) == base[t] + c * Rows + r

DictInit ==
    /\ cells = [t \in DictTables |-> Empty] /\ next = [t \in DictTables |-> Leaf]
    /\ base = [t \in DictTables |-> IF t = 0 THEN 1 ELSE 0] /\ baseIndex = 1
    /\ live = {0} /\ allocs = 0
    /\ lookup = [p \in Readers |-> NoLookup]
    /\ answers = {} /\ lookups = 0 /\ dictClears = 0

Row(p) == RowAt(lookup[p].key, lookup[p].depth)
CellAt(p) == cells[lookup[p].table][Row(p)][lookup[p].col]

Answer(p) ==
    /\ answers' = answers \cup {<<lookup[p].key, Index(lookup[p].table, Row(p), lookup[p].col)>>}
    /\ lookup' = [lookup EXCEPT ![p] = NoLookup]

-----------------------------------------------------------------------------
(* lookup.                                                                 *)

Lookup(p, k) ==
    /\ lookup[p] = NoLookup /\ lookups < MaxLookups
    /\ lookups' = lookups + 1
    /\ lookup' = [lookup EXCEPT ![p] = [pc |-> "look", key |-> k, depth |-> 0, table |-> 0, col |-> 0,
                                made |-> NoTable]]
    /\ UNCHANGED <<cells, next, base, baseIndex, live, allocs, answers, dictClears>>

(* An empty cell is to be claimed, another key's cell is passed over; past *)
(* the last cell, the row's next table is needed.                          *)
LookAt(p) ==
    /\ lookup[p].pc = "look" /\ lookup[p].col \in ColSet
    /\ \/ /\ CellAt(p) = NoKey
          /\ lookup' = [lookup EXCEPT ![p].pc = "claim"]
          /\ UNCHANGED answers
       \/ /\ CellAt(p) = lookup[p].key
          /\ Answer(p)
       \/ /\ CellAt(p) \notin {NoKey, lookup[p].key}
          /\ lookup' = [lookup EXCEPT ![p].col = @ + 1]
          /\ UNCHANGED answers
    /\ UNCHANGED <<cells, next, base, baseIndex, live, allocs, lookups, dictClears>>

(* Faulty variant: a lost race moves on without comparing the winner.      *)
ClaimSkipsWinner(p) ==
    /\ lookup[p].pc = "claim"
    /\ \/ /\ CellAt(p) = NoKey
          /\ cells' = [cells EXCEPT ![lookup[p].table][Row(p)][lookup[p].col] = lookup[p].key]
          /\ Answer(p)
       \/ /\ CellAt(p) # NoKey
          /\ lookup' = [lookup EXCEPT ![p].pc = "look", ![p].col = @ + 1]
          /\ UNCHANGED <<cells, answers>>
    /\ UNCHANGED <<next, base, baseIndex, live, allocs, lookups, dictClears>>

(* Compare and swap of the new key. Whoever loses frees its copy and       *)
(* compares the winner's key with its own.                                 *)
ClaimCell(p) ==
    /\ lookup[p].pc = "claim"
    /\ \/ /\ CellAt(p) = NoKey
          /\ cells' = [cells EXCEPT ![lookup[p].table][Row(p)][lookup[p].col] = lookup[p].key]
          /\ Answer(p)
       \/ /\ CellAt(p) = lookup[p].key
          /\ Answer(p)
          /\ UNCHANGED cells
       \/ /\ CellAt(p) \notin {NoKey, lookup[p].key}
          /\ lookup' = [lookup EXCEPT ![p].pc = "look", ![p].col = @ + 1]
          /\ UNCHANGED <<cells, answers>>
    /\ UNCHANGED <<next, base, baseIndex, live, allocs, lookups, dictClears>>

(* The row is full: follow it, or allocate the table it lacks.             *)
RowFull(p) ==
    /\ lookup[p].pc = "look" /\ lookup[p].col \notin ColSet
    /\ lookup' = [lookup EXCEPT ![p].pc = IF next[lookup[p].table][Row(p)] = NoTable THEN "alloc" ELSE "descend"]
    /\ UNCHANGED <<cells, next, base, baseIndex, live, allocs, answers, lookups, dictClears>>

(* calloc, and the next range of indices by an atomic add.                 *)
Allocate(p) ==
    /\ lookup[p].pc = "alloc" /\ allocs < MaxDictTables
    /\ allocs' = allocs + 1
    /\ live' = live \cup {allocs'}
    /\ baseIndex' = baseIndex + TableCapacity
    /\ base' = [base EXCEPT ![allocs'] = baseIndex + TableCapacity]
    /\ lookup' = [lookup EXCEPT ![p].pc = "attach", ![p].made = allocs']
    /\ UNCHANGED <<cells, next, answers, lookups, dictClears>>

(* Compare and swap of the row's next table; the loser's table is freed    *)
(* and its range of indices stays unused.                                  *)
Attach(p) ==
    /\ lookup[p].pc = "attach"
    /\ IF next[lookup[p].table][Row(p)] = NoTable
       THEN /\ next' = [next EXCEPT ![lookup[p].table][Row(p)] = lookup[p].made]
            /\ UNCHANGED live
       ELSE /\ live' = live \ {lookup[p].made}
            /\ UNCHANGED next
    /\ lookup' = [lookup EXCEPT ![p].pc = "descend", ![p].made = NoTable]
    /\ UNCHANGED <<cells, base, baseIndex, allocs, answers, lookups, dictClears>>

(* On to the row's next table with the hash rotated.                       *)
Descend(p) ==
    /\ lookup[p].pc = "descend"
    /\ lookup' = [lookup EXCEPT ![p].pc = "look", ![p].table = next[lookup[p].table][Row(p)],
                        ![p].depth = @ + 1, ![p].col = 0]
    /\ UNCHANGED <<cells, next, base, baseIndex, live, allocs, answers, lookups, dictClears>>

LookupStep(p) == LookAt(p) \/ ClaimCell(p) \/ RowFull(p) \/ Allocate(p) \/ Attach(p) \/ Descend(p)

(* The tables reached from the root.                                       *)
Reachable ==
    LET level[d \in 0..MaxDepth] ==
            IF d = 0 THEN {0}
            ELSE LET above == level[d - 1]
                 IN  above \cup ({next[t][r] : t \in above, r \in RowSet} \ {NoTable})
    IN  level[MaxDepth]

(* clear: every table but the root is freed, with no lookup in progress.   *)
ClearTables ==
    /\ \A p \in Readers : lookup[p] = NoLookup
    /\ dictClears < MaxDictClears /\ dictClears' = dictClears + 1
    /\ live' = (live \ Reachable) \cup {0}
    /\ cells' = [t \in DictTables |-> Empty] /\ next' = [t \in DictTables |-> Leaf]
    /\ base' = [t \in DictTables |-> IF t = 0 THEN 1 ELSE 0] /\ baseIndex' = 1
    /\ answers' = {}
    /\ UNCHANGED <<allocs, lookup, lookups>>

DictNext ==
    \/ \E p \in Readers : (\E k \in Keys : Lookup(p, k)) \/ LookupStep(p)
    \/ ClearTables

DictSpec == DictInit /\ [][DictNext]_dictVars

(* collect: every key with its index.                                      *)
Collected ==
    UNION {{<<cells[t][r][c], Index(t, r, c)>> : c \in {d \in ColSet : cells[t][r][d] # NoKey}} :
              t \in Reachable, r \in RowSet}

-----------------------------------------------------------------------------
(* Properties.                                                             *)

(* Every variable has the type of the C++ variable it stands for, and a    *)
(* lookup only ever stands in a table that is allocated.                   *)
DictTypeOK ==
    /\ \A t \in DictTables, r \in RowSet :
          /\ next[t][r] \in (DictTables \ {0}) \cup {NoTable}
          /\ \A c \in ColSet : cells[t][r][c] \in Keys \cup {NoKey}
    /\ baseIndex \in Nat /\ base \in [DictTables -> Nat] /\ live \subseteq DictTables
    /\ \A p \in Readers : lookup[p] # NoLookup =>
          /\ lookup[p].table \in live /\ lookup[p].depth <= MaxDepth /\ lookup[p].col \in 0..CellsPerRow
          /\ lookup[p].made \in live \cup {NoTable}

(* A key has one index for as long as the dictionary is not cleared, no    *)
(* matter how many threads inserted it at once, two keys never share one,  *)
(* and collect() lists every index handed out with its key: the constant   *)
(* pool gives each id in the events one name.                              *)
OneIndexPerKey ==
    LET collected == Collected
    IN  /\ answers \subseteq collected
        /\ \A a, b \in collected : a[1] = b[1] <=> a[2] = b[2]

(* A table that is not in the tree is held by the one thread about to      *)
(* attach it: tables that lose the race, and all tables on clear, are      *)
(* freed.                                                                  *)
NoTableLeak ==
    live = Reachable \cup {lookup[p].made : p \in {q \in Readers : lookup[q].pc = "attach"}}
=============================================================================
