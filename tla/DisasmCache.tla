---------------------------- MODULE DisasmCache ----------------------------
(***************************************************************************)
(* The set-associative cache of disassembled instructions of EastTrace.cpp *)
(* (class DisasmCache): every set holds Ways entries, the most recently    *)
(* used first.  An instruction is a cell of the heap: capstone allocates   *)
(* it, the cache owns it and frees it when the entry is evicted, trimmed   *)
(* or cleared, and the code outside keeps bare pointers to it.             *)
(***************************************************************************)
EXTENDS Naturals, FiniteSets

CONSTANTS
    Addrs,      \* addresses of instructions, a set of positive numbers
    Cells,      \* heap cells an instruction can be allocated in, positive too
    Ways,       \* WAYS, entries of a set
    NumSets     \* NUM_SETS

ASSUME DisasmCacheAssumption ==
    /\ Addrs \subseteq Nat \ {0} /\ Cells \subseteq Nat \ {0}
    /\ Ways \in Nat \ {0}
    /\ NumSets \in Nat \ {0}

NoCell == 0     \* nullptr

\* An entry; `regs` is the address whose register accesses are cached with it, 0
\* if none are (regAccessCached).
Entry == [addr : Addrs \cup {0}, cell : Cells \cup {NoCell}, regs : Addrs \cup {0}]
EmptyEntry == [addr |-> 0, cell |-> NoCell, regs |-> 0]

Sets == 0 .. NumSets - 1
Positions == 1 .. Ways
hashAddr(a) == a % NumSets

EmptyCache == [s \in Sets |-> [w \in Positions |-> EmptyEntry]]
EmptyHeap  == [c \in Cells |-> 0]       \* the address a cell decodes, 0 when it is free

Hits(cache, a, w) ==
    LET e == cache[hashAddr(a)][w] IN e.cell # NoCell /\ e.addr = a

Cached(cache, a) == \E w \in Positions : Hits(cache, a, w)

\* get(): the entry hit moves to the front, those before it move back by one.
get(cache, a) ==
    LET s == hashAddr(a)
        w == CHOOSE i \in Positions : Hits(cache, a, i) /\ \A j \in 1 .. i - 1 : ~Hits(cache, a, j)
    IN  [cache EXCEPT ![s] = [i \in Positions |-> IF i = 1 THEN cache[s][w]
                                                  ELSE IF i <= w THEN cache[s][i - 1]
                                                  ELSE cache[s][i]]]

\* Mutant of Evicted: the front entry is freed.
EvictedFront(cache, a) == cache[hashAddr(a)][1].cell

\* put(): the last entry is freed, all move back by one, the new one is in front.
Evicted(cache, a) == cache[hashAddr(a)][Ways].cell

put(cache, a, c) ==
    LET s == hashAddr(a)
    IN  [cache EXCEPT ![s] = [i \in Positions |->
            IF i = 1 THEN [addr |-> a, cell |-> c, regs |-> 0] ELSE cache[s][i - 1]]]

\* getRegAccess(): only the front entry is looked at.
RegsCached(cache, a) ==
    LET e == cache[hashAddr(a)][1] IN e.addr = a /\ e.regs # 0

putRegAccess(cache, a) ==
    LET s == hashAddr(a)
    IN  IF cache[s][1].addr = a THEN [cache EXCEPT ![s][1].regs = a] ELSE cache

\* trimCold(): the entries of the second half are freed.
Cold == {w \in Positions : w > Ways \div 2}
ColdCells(cache) == {cache[s][w].cell : s \in Sets, w \in Cold} \ {NoCell}
trimCold(cache) ==
    [s \in Sets |-> [w \in Positions |-> IF w \in Cold THEN EmptyEntry ELSE cache[s][w]]]

\* cs_free() of a set of cells, and the allocation of one by cs_disasm_iter_wrapper().
cs_free(heap, dead) == [c \in Cells |-> IF c \in dead THEN 0 ELSE heap[c]]
FreeCells(heap) == {c \in Cells : heap[c] = 0}

CellsOf(cache) == {cache[s][w].cell : s \in Sets, w \in Positions} \ {NoCell}

\* What the cache must be for the code outside: every entry decodes its own
\* address, has the register accesses of it if any and lies in its set, no address and no cell is there twice, and
\* the cells in use are exactly those of the entries (none leaks, none is freed
\* under an entry).
CacheSound(cache, heap) ==
    /\ \A s \in Sets, w \in Positions :
          LET e == cache[s][w]
          IN  /\ e.cell # NoCell => heap[e.cell] = e.addr /\ e.addr # 0 /\ hashAddr(e.addr) = s
                                 /\ e.regs \in {0, e.addr}
              /\ \A v \in Positions : v # w /\ e.cell # NoCell =>
                    cache[s][v].addr # e.addr /\ cache[s][v].cell # e.cell
    /\ CellsOf(cache) = {c \in Cells : heap[c] # 0}

=============================================================================
