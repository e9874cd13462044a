-------------------------- MODULE InsnTraceProofs --------------------------
(***************************************************************************)
(* The bare pointer in pendingAccess never dangles as long as one thread   *)
(* traces at a time: CacheKeepsPending, for every program, cache size,     *)
(* cleanup interval and number of runs.  The inductive invariant IInv says *)
(* that a pending access is that of the front entry of its set, and that   *)
(* none is pending where code runs that fetches nothing.  It rests on what *)
(* get, put, putRegAccess, trimCold and clear do to a sound cache (Good).  *)
(*                                                                         *)
(* An annotation is printed after the line it is about: whatever is owed   *)
(* for a call is printed by the next callback, as that one shows an        *)
(* instruction.                                                            *)
(***************************************************************************)
EXTENDS InsnTrace, Integers, TLAPS

-----------------------------------------------------------------------------
(* The disassembly cache, for every number of sets and ways.               *)

\* A sound cache of the right type, whose unused entries are blank.
Good(ch, hp) ==
  /\ ch \in [Sets -> [Positions -> Entry]]
  /\ hp \in [Cells -> Addrs \cup {0}]
  /\ CacheSound(ch, hp)
  /\ \A s \in Sets, w \in Positions : ch[s][w].cell = NoCell => ch[s][w].addr = 0

\* The front entry of the set of an address.
Front1(ch, a) == ch[hashAddr(a)][1]

LEMMA HashInSets ==
  ASSUME NEW a \in Addrs
  PROVE  hashAddr(a) \in Sets
  BY DisasmCacheAssumption DEF hashAddr, Sets

LEMMA CellsArePositive == NoCell \notin Cells /\ 0 \notin Addrs /\ 1 \in Positions
  BY DisasmCacheAssumption DEF NoCell, Positions

\* The entries of a good cache, one fact at a time.
LEMMA GoodFacts ==
  ASSUME NEW ch, NEW hp, Good(ch, hp), NEW s \in Sets, NEW w \in Positions
  PROVE  /\ ch[s] \in [Positions -> Entry]
         /\ ch[s][w] \in Entry
         /\ ch[s][w].cell # NoCell =>
              /\ ch[s][w].cell \in Cells /\ ch[s][w].addr \in Addrs
              /\ hp[ch[s][w].cell] = ch[s][w].addr
              /\ hashAddr(ch[s][w].addr) = s
              /\ ch[s][w].regs \in {0, ch[s][w].addr}
              /\ \A v \in Positions \ {w} : /\ ch[s][v].addr # ch[s][w].addr
                                            /\ ch[s][v].cell # ch[s][w].cell
  <1>1. ch[s] \in [Positions -> Entry] /\ ch[s][w] \in Entry
    BY DEF Good
  <1>2. QED
    BY <1>1 DEF Good, CacheSound, Entry

\* Two entries with the same instruction are one entry.
LEMMA CellsDistinct ==
  ASSUME NEW ch, NEW hp, Good(ch, hp),
         NEW s \in Sets, NEW w \in Positions, NEW u \in Sets, NEW v \in Positions,
         ch[s][w].cell # NoCell, ch[s][w].cell = ch[u][v].cell
  PROVE  s = u /\ w = v
  <1>1. s = hashAddr(ch[s][w].addr) /\ u = hashAddr(ch[u][v].addr)
        /\ ch[s][w].addr = hp[ch[s][w].cell] /\ ch[u][v].addr = hp[ch[u][v].cell]
    BY GoodFacts
  <1>2. s = u
    BY <1>1
  <1>3. QED
    BY <1>2, GoodFacts

\* How soundness is shown for a changed cache.
LEMMA GoodIntro ==
  ASSUME NEW ch \in [Sets -> [Positions -> Entry]],
         NEW hp \in [Cells -> Addrs \cup {0}],
         \A s \in Sets, w \in Positions :
           /\ ch[s][w].cell = NoCell => ch[s][w].addr = 0
           /\ ch[s][w].cell # NoCell =>
                /\ ch[s][w].addr # 0
                /\ hp[ch[s][w].cell] = ch[s][w].addr
                /\ hashAddr(ch[s][w].addr) = s
                /\ ch[s][w].regs \in {0, ch[s][w].addr}
                /\ \A v \in Positions \ {w} : /\ ch[s][v].addr # ch[s][w].addr
                                              /\ ch[s][v].cell # ch[s][w].cell,
         \A c \in Cells : hp[c] # 0 => \E s \in Sets, w \in Positions : ch[s][w].cell = c
  PROVE  Good(ch, hp)
  <1>1. \A s \in Sets, w \in Positions : ch[s][w] \in Entry
    OBVIOUS
  <1>2. \A s \in Sets, w \in Positions : ch[s][w].cell # NoCell => ch[s][w].cell \in Cells
    BY <1>1 DEF Entry
  <1>3. CellsOf(ch) = {c \in Cells : hp[c] # 0}
    <2>1. ASSUME NEW c \in CellsOf(ch) PROVE c \in Cells /\ hp[c] # 0
      BY <1>2 DEF CellsOf
    <2>2. ASSUME NEW c \in Cells, hp[c] # 0 PROVE c \in CellsOf(ch)
      BY <2>2, CellsArePositive DEF CellsOf
    <2>3. QED
      BY <2>1, <2>2
  <1>4. CacheSound(ch, hp)
    BY <1>3 DEF CacheSound
  <1>5. QED
    BY <1>4 DEF Good

\* clear()
LEMMA ClearGood == Good(EmptyCache, EmptyHeap)
  <1>1. EmptyEntry \in Entry /\ EmptyEntry.cell = NoCell /\ EmptyEntry.addr = 0
    BY DEF EmptyEntry, Entry
  <1>2. EmptyCache \in [Sets -> [Positions -> Entry]] /\ EmptyHeap \in [Cells -> Addrs \cup {0}]
    BY <1>1 DEF EmptyCache, EmptyHeap
  <1>3. \A s \in Sets, w \in Positions : EmptyCache[s][w] = EmptyEntry
    BY DEF EmptyCache
  <1>4. \A c \in Cells : EmptyHeap[c] = 0
    BY DEF EmptyHeap
  <1>5. QED
    BY <1>1, <1>2, <1>3, <1>4, GoodIntro

\* Every cell in use belongs to an entry.
LEMMA GoodUsed ==
  ASSUME NEW ch, NEW hp, Good(ch, hp), NEW c \in Cells, hp[c] # 0
  PROVE  \E s \in Sets, w \in Positions : ch[s][w].cell = c
  BY DEF Good, CacheSound, CellsOf

\* trimCold() keeps the front half and frees exactly the rest.
LEMMA TrimGood ==
  ASSUME NEW ch, NEW hp, Good(ch, hp)
  PROVE  Good(trimCold(ch), cs_free(hp, ColdCells(ch)))
  <1> DEFINE c2 == trimCold(ch)
             h2 == cs_free(hp, ColdCells(ch))
  <1>1. \A s \in Sets, w \in Positions :
          c2[s][w] = IF w \in Cold THEN EmptyEntry ELSE ch[s][w]
    BY DEF trimCold
  <1>2. EmptyEntry \in Entry /\ EmptyEntry.cell = NoCell /\ EmptyEntry.addr = 0
    BY DEF EmptyEntry, Entry
  <1>3. c2 \in [Sets -> [Positions -> Entry]]
    BY <1>2, GoodFacts DEF trimCold
  <1>4. \A c \in Cells : h2[c] = IF c \in ColdCells(ch) THEN 0 ELSE hp[c]
    BY DEF cs_free
  <1>5. h2 \in [Cells -> Addrs \cup {0}]
    BY DEF cs_free, Good
  <1> HIDE DEF c2, h2
  <1>6. ASSUME NEW s \in Sets, NEW w \in Positions
        PROVE  /\ c2[s][w].cell = NoCell => c2[s][w].addr = 0
               /\ c2[s][w].cell # NoCell =>
                    /\ c2[s][w].addr # 0
                    /\ h2[c2[s][w].cell] = c2[s][w].addr
                    /\ hashAddr(c2[s][w].addr) = s
                    /\ c2[s][w].regs \in {0, c2[s][w].addr}
                    /\ \A v \in Positions \ {w} : /\ c2[s][v].addr # c2[s][w].addr
                                                  /\ c2[s][v].cell # c2[s][w].cell
    <2>1. CASE w \in Cold
      BY <1>1, <1>2, <2>1
    <2>2. CASE w \notin Cold
      <3>1. c2[s][w] = ch[s][w]
        BY <1>1, <2>2
      <3>2. ch[s][w].cell = NoCell => ch[s][w].addr = 0
        BY DEF Good
      <3>3. ASSUME ch[s][w].cell # NoCell
            PROVE  /\ ch[s][w].addr # 0
                   /\ h2[ch[s][w].cell] = ch[s][w].addr
                   /\ hashAddr(ch[s][w].addr) = s
                   /\ ch[s][w].regs \in {0, ch[s][w].addr}
                   /\ \A v \in Positions \ {w} : /\ c2[s][v].addr # ch[s][w].addr
                                                 /\ c2[s][v].cell # ch[s][w].cell
        <4>1. /\ ch[s][w].cell \in Cells /\ ch[s][w].addr \in Addrs
              /\ hp[ch[s][w].cell] = ch[s][w].addr
              /\ hashAddr(ch[s][w].addr) = s
              /\ ch[s][w].regs \in {0, ch[s][w].addr}
              /\ \A v \in Positions \ {w} : /\ ch[s][v].addr # ch[s][w].addr
                                            /\ ch[s][v].cell # ch[s][w].cell
          BY <3>3, GoodFacts
        <4>2. ch[s][w].cell \notin ColdCells(ch)
          BY <2>2, <3>3, CellsDistinct DEF ColdCells, Cold
        <4>3. ch[s][w].addr # 0
          BY <4>1, CellsArePositive
        <4>4. QED
          BY <1>1, <1>2, <1>4, <3>3, <4>1, <4>2, <4>3
      <3>4. QED
        BY <3>1, <3>2, <3>3
    <2>3. QED
      BY <2>1, <2>2
  <1>7. ASSUME NEW c \in Cells, h2[c] # 0
        PROVE  \E s \in Sets, w \in Positions : c2[s][w].cell = c
    <2>1. hp[c] # 0 /\ c \notin ColdCells(ch)
      BY <1>4, <1>7
    <2>2. PICK s \in Sets, w \in Positions : ch[s][w].cell = c
      BY <2>1, GoodUsed
    <2>3. w \notin Cold
      BY <2>1, <2>2, CellsArePositive DEF ColdCells
    <2>4. QED
      BY <1>1, <2>2, <2>3
  <1>8. QED
    BY <1>3, <1>5, <1>6, <1>7, GoodIntro DEF c2, h2

\* The front entry survives trimCold() when a set has more than one way.
LEMMA TrimKeepsFront ==
  ASSUME NEW ch, NEW a \in Addrs, Ways > 1
  PROVE  Front1(trimCold(ch), a) = Front1(ch, a)
  <1>1. 1 \notin Cold
    <2>1. Ways \div 2 \in Int /\ Ways \div 2 >= 1
      BY DisasmCacheAssumption
    <2>2. QED
      BY <2>1 DEF Cold
  <1>2. QED
    BY <1>1, HashInSets, CellsArePositive DEF trimCold, Front1

\* What is allocated when the instruction in cell c is put into the cache.
HeapAfterPut(ch, hp, a, c) == cs_free([hp EXCEPT ![c] = a], {Evicted(ch, a)})

\* The new entry is in front, and the front entry of every set is still allocated.
PutOK(ch, hp, a, c, c2, h2) ==
  /\ Good(c2, h2)
  /\ Front1(c2, a).addr = a /\ Front1(c2, a).cell = c
  /\ Ways > 1 => \A b \in Addrs : Front1(ch, b).cell # NoCell =>
                                   h2[Front1(ch, b).cell] = Front1(ch, b).addr

\* put() of an address that is not cached, in a cell that was free.
LEMMA PutGood ==
  ASSUME NEW ch, NEW hp, Good(ch, hp), NEW a \in Addrs, ~Cached(ch, a),
         NEW c \in FreeCells(hp)
  PROVE  PutOK(ch, hp, a, c, put(ch, a, c), HeapAfterPut(ch, hp, a, c))
  <1> DEFINE s0 == hashAddr(a)
             ev == Evicted(ch, a)
             e0 == [addr |-> a, cell |-> c, regs |-> 0]
             c2 == put(ch, a, c)
             h2 == HeapAfterPut(ch, hp, a, c)
  <1>1. s0 \in Sets /\ Ways \in Positions /\ c \in Cells /\ hp[c] = 0
    BY HashInSets, DisasmCacheAssumption DEF Positions, FreeCells
  <1>2. \A s \in Sets, w \in Positions :
          c2[s][w] = IF s = s0 THEN IF w = 1 THEN e0 ELSE ch[s0][w - 1] ELSE ch[s][w]
    BY <1>1 DEF put, Good
  <1>3. e0 \in Entry /\ e0.addr = a /\ e0.cell = c /\ e0.regs = 0
    BY <1>1 DEF Entry
  <1>4. \A w \in Positions \ {1} : w - 1 \in Positions /\ w - 1 # Ways
    BY DisasmCacheAssumption DEF Positions
  <1>5. [i \in Positions |-> IF i = 1 THEN e0 ELSE ch[s0][i - 1]] \in [Positions -> Entry]
    BY <1>1, <1>3, <1>4, GoodFacts
  <1>6. c2 \in [Sets -> [Positions -> Entry]]
    BY <1>1, <1>5 DEF put, Good
  <1>7. \A d \in Cells : h2[d] = IF d = ev THEN 0 ELSE IF d = c THEN a ELSE hp[d]
    BY DEF HeapAfterPut, cs_free, Good
  <1>8. h2 \in [Cells -> Addrs \cup {0}]
    BY DEF HeapAfterPut, cs_free, Good
  <1>9. ev = ch[s0][Ways].cell
    BY DEF Evicted
  <1>10. c # NoCell /\ a # 0
    BY <1>1, CellsArePositive
  <1>11. c # ev
    BY <1>1, <1>9, <1>10, GoodFacts, CellsArePositive
  <1> HIDE DEF s0, ev, e0, c2, h2
  <1>12. ASSUME NEW s \in Sets, NEW w \in Positions, ch[s][w].cell # NoCell
         PROVE  /\ ch[s][w].cell # c /\ ch[s][w].addr # a
                /\ s # s0 \/ w # Ways => h2[ch[s][w].cell] = ch[s][w].addr
    <2>1. /\ ch[s][w].cell \in Cells /\ ch[s][w].addr \in Addrs
          /\ hp[ch[s][w].cell] = ch[s][w].addr
          /\ hashAddr(ch[s][w].addr) = s
          /\ ch[s][w].regs \in {0, ch[s][w].addr}
      BY <1>12, GoodFacts
    <2>2. ch[s][w].cell # c
      BY <1>1, <2>1, CellsArePositive
    <2>3. ch[s][w].addr # a
      BY <1>12, <2>1 DEF Cached, Hits
    <2>4. s # s0 \/ w # Ways => ch[s][w].cell # ev
      BY <1>1, <1>9, <1>12, CellsDistinct
    <2>5. QED
      BY <1>7, <2>1, <2>2, <2>3, <2>4
  <1>13. ASSUME NEW s \in Sets, NEW w \in Positions
         PROVE  /\ c2[s][w].cell = NoCell => c2[s][w].addr = 0
                /\ c2[s][w].cell # NoCell =>
                     /\ c2[s][w].addr # 0
                     /\ h2[c2[s][w].cell] = c2[s][w].addr
                     /\ hashAddr(c2[s][w].addr) = s
                     /\ c2[s][w].regs \in {0, c2[s][w].addr}
                     /\ \A v \in Positions \ {w} : /\ c2[s][v].addr # c2[s][w].addr
                                                   /\ c2[s][v].cell # c2[s][w].cell
    <2>0. \A u \in Sets, v \in Positions : ch[u][v].cell = NoCell => ch[u][v].addr = 0
      BY DEF Good
    <2>1. CASE s # s0
      <3>1. \A v \in Positions : c2[s][v] = ch[s][v]
        BY <1>2, <2>1
      <3>2. QED
        BY <2>0, <2>1, <3>1, <1>12, GoodFacts, CellsArePositive
    <2>2. CASE s = s0 /\ w = 1
      <3>1. c2[s][w] = e0
        BY <1>2, <2>2
      <3>2. h2[c] = a /\ hashAddr(a) = s0
        BY <1>1, <1>7, <1>11 DEF s0
      <3>3. \A v \in Positions \ {1} : ch[s0][v - 1].addr # a /\ ch[s0][v - 1].cell # c
        BY <1>1, <1>4, <1>10, <1>12, <2>0
      <3>4. QED
        BY <1>1, <1>2, <1>3, <1>10, <2>2, <3>1, <3>2, <3>3
    <2>3. CASE s = s0 /\ w # 1
      <3>1. c2[s][w] = ch[s0][w - 1] /\ w - 1 \in Positions /\ w - 1 # Ways
        BY <1>2, <1>4, <2>3
      <3>2. ASSUME ch[s0][w - 1].cell # NoCell
            PROVE  /\ ch[s0][w - 1].addr # 0
                   /\ h2[ch[s0][w - 1].cell] = ch[s0][w - 1].addr
                   /\ hashAddr(ch[s0][w - 1].addr) = s0
                   /\ ch[s0][w - 1].regs \in {0, ch[s0][w - 1].addr}
                   /\ ch[s0][w - 1].addr # a /\ ch[s0][w - 1].cell # c
                   /\ \A v \in Positions \ {w - 1} :
                        /\ ch[s0][v].addr # ch[s0][w - 1].addr
                        /\ ch[s0][v].cell # ch[s0][w - 1].cell
        BY <1>1, <1>12, <3>1, <3>2, GoodFacts, CellsArePositive
      <3>3. ASSUME ch[s0][w - 1].cell # NoCell, NEW v \in Positions \ {w}
            PROVE  /\ c2[s][v].addr # ch[s0][w - 1].addr
                   /\ c2[s][v].cell # ch[s0][w - 1].cell
        <4>1. CASE v = 1
          BY <1>2, <1>3, <2>3, <3>2, <3>3, <4>1
        <4>2. CASE v # 1
          <5>1. c2[s][v] = ch[s0][v - 1] /\ v - 1 \in Positions /\ v - 1 # w - 1
            BY <1>2, <1>4, <2>3, <4>2 DEF Positions
          <5>2. QED
            BY <3>2, <3>3, <5>1
        <4>3. QED
          BY <4>1, <4>2
      <3>4. QED
        BY <1>1, <2>0, <2>3, <3>1, <3>2, <3>3
    <2>4. QED
      BY <2>1, <2>2, <2>3
  <1>14. ASSUME NEW d \in Cells, h2[d] # 0
         PROVE  \E s \in Sets, w \in Positions : c2[s][w].cell = d
    <2>1. CASE d = c
      BY <1>1, <1>2, <1>3, <2>1, CellsArePositive
    <2>2. CASE d # c
      <3>1. hp[d] # 0 /\ d # ev
        BY <1>7, <1>14, <2>2
      <3>2. PICK s \in Sets, w \in Positions : ch[s][w].cell = d
        BY <3>1, GoodUsed
      <3>3. CASE s # s0
        BY <1>2, <3>2, <3>3
      <3>4. CASE s = s0
        <4>1. w # Ways /\ w + 1 \in Positions /\ w + 1 # 1 /\ (w + 1) - 1 = w
          BY <1>9, <3>1, <3>2, <3>4, DisasmCacheAssumption DEF Positions
        <4>2. c2[s0][w + 1] = ch[s0][w]
          BY <1>1, <1>2, <4>1
        <4>3. QED
          BY <1>1, <3>2, <3>4, <4>1, <4>2
      <3>5. QED
        BY <3>3, <3>4
    <2>3. QED
      BY <2>1, <2>2
  <1>15. Good(c2, h2)
    BY <1>6, <1>8, <1>13, <1>14, GoodIntro
  <1>16. Front1(c2, a) = e0
    BY <1>1, <1>2, CellsArePositive DEF Front1, s0
  <1>17. ASSUME Ways > 1, NEW b \in Addrs, Front1(ch, b).cell # NoCell
         PROVE  h2[Front1(ch, b).cell] = Front1(ch, b).addr
    BY <1>12, <1>17, HashInSets, CellsArePositive DEF Front1
  <1>18. QED
    BY <1>3, <1>15, <1>16, <1>17 DEF c2, h2, PutOK

\* get() of a cached address brings it to the front.
LEMMA GetGood ==
  ASSUME NEW ch, NEW hp, Good(ch, hp), NEW a \in Addrs, Cached(ch, a)
  PROVE  /\ Good(get(ch, a), hp)
         /\ Front1(get(ch, a), a).addr = a /\ Front1(get(ch, a), a).cell # NoCell
  <1> DEFINE s0 == hashAddr(a)
             W(i) == Hits(ch, a, i) /\ \A j \in 1 .. i - 1 : ~Hits(ch, a, j)
             w0 == CHOOSE i \in Positions : W(i)
             p(i) == IF i = 1 THEN w0 ELSE IF i <= w0 THEN i - 1 ELSE i
             c2 == get(ch, a)
  <1>1. s0 \in Sets /\ 1 \in Positions
    BY HashInSets, CellsArePositive
  <1>2. PICK i0 \in Positions : Hits(ch, a, i0)
    BY DEF Cached
  <1>3. \A i \in Positions : Hits(ch, a, i) => i = i0
    BY <1>1, <1>2, GoodFacts DEF Hits
  <1>4. \A j \in 1 .. i0 - 1 : j \in Positions /\ j # i0
    BY DisasmCacheAssumption DEF Positions
  <1>5. W(i0)
    BY <1>2, <1>3, <1>4
  <1>6. w0 \in Positions /\ W(w0)
    BY <1>5, SMTT(60)
  <1>7. ch[s0][w0].cell # NoCell /\ ch[s0][w0].addr = a
    BY <1>6 DEF Hits
  <1>8. \A i \in Positions : p(i) \in Positions
    BY <1>6, DisasmCacheAssumption DEF Positions
  <1>9. \A i, j \in Positions : i # j => p(i) # p(j)
    BY <1>6, DisasmCacheAssumption DEF Positions
  <1>10. \A j \in Positions : \E i \in Positions : p(i) = j
    <2>1. ASSUME NEW j \in Positions PROVE \E i \in Positions : p(i) = j
      <3>1. CASE j = w0
        BY <1>1, <3>1
      <3>2. CASE j < w0
        <4>1. j + 1 \in Positions /\ p(j + 1) = j
          BY <1>6, <3>2, DisasmCacheAssumption DEF Positions
        <4>2. QED
          BY <4>1
      <3>3. CASE j > w0
        <4>1. p(j) = j
          BY <1>6, <3>3, DisasmCacheAssumption DEF Positions
        <4>2. QED
          BY <4>1
      <3>4. QED
        BY <1>6, <3>1, <3>2, <3>3, DisasmCacheAssumption DEF Positions
    <2>2. QED
      BY <2>1
  <1>11. c2 = [ch EXCEPT ![s0] = [i \in Positions |-> IF i = 1 THEN ch[s0][w0]
                                                        ELSE IF i <= w0 THEN ch[s0][i - 1]
                                                        ELSE ch[s0][i]]]
    BY DEF get
  <1> HIDE DEF c2, w0
  <1>12. \A s \in Sets, i \in Positions :
           c2[s][i] = IF s = s0 THEN ch[s0][p(i)] ELSE ch[s][i]
    BY <1>1, <1>11 DEF Good
  <1>13. c2 \in [Sets -> [Positions -> Entry]]
    <2>1. \A s \in Sets, i \in Positions : ch[s][i] \in Entry /\ ch[s][p(i)] \in Entry
      BY <1>8, GoodFacts
    <2>2. [i \in Positions |-> IF i = 1 THEN ch[s0][w0]
                               ELSE IF i <= w0 THEN ch[s0][i - 1]
                               ELSE ch[s0][i]] \in [Positions -> Entry]
      BY <1>1, <2>1
    <2>3. QED
      BY <1>11, <2>2 DEF Good
  <1> HIDE DEF p, s0
  <1>14. ASSUME NEW s \in Sets, NEW w \in Positions
         PROVE  /\ c2[s][w].cell = NoCell => c2[s][w].addr = 0
                /\ c2[s][w].cell # NoCell =>
                     /\ c2[s][w].addr # 0
                     /\ hp[c2[s][w].cell] = c2[s][w].addr
                     /\ hashAddr(c2[s][w].addr) = s
                     /\ c2[s][w].regs \in {0, c2[s][w].addr}
                     /\ \A v \in Positions \ {w} : /\ c2[s][v].addr # c2[s][w].addr
                                                   /\ c2[s][v].cell # c2[s][w].cell
    <2>1. \A u \in Sets, v \in Positions : ch[u][v].cell = NoCell => ch[u][v].addr = 0
      BY DEF Good
    <2>2. CASE s # s0
      BY <1>12, <2>1, <2>2, GoodFacts, CellsArePositive
    <2>3. CASE s = s0
      <3>1. c2[s][w] = ch[s0][p(w)] /\ p(w) \in Positions
        BY <1>8, <1>12, <2>3
      <3>2. \A v \in Positions \ {w} : /\ c2[s][v] = ch[s0][p(v)]
                                      /\ p(v) \in Positions \ {p(w)}
        BY <1>8, <1>9, <1>12, <2>3
      <3>3. QED
        BY <1>1, <2>1, <2>3, <3>1, <3>2, GoodFacts, CellsArePositive
    <2>4. QED
      BY <2>2, <2>3
  <1>15. ASSUME NEW d \in Cells, hp[d] # 0
         PROVE  \E s \in Sets, w \in Positions : c2[s][w].cell = d
    <2>1. PICK s \in Sets, j \in Positions : ch[s][j].cell = d
      BY <1>15, GoodUsed
    <2>2. PICK i \in Positions : p(i) = j
      BY <1>10
    <2>3. QED
      BY <1>12, <2>1, <2>2
  <1>16. hp \in [Cells -> Addrs \cup {0}]
    BY DEF Good
  <1>17. Good(c2, hp)
    BY <1>13, <1>14, <1>15, <1>16, GoodIntro
  <1>18. Front1(c2, a) = ch[s0][w0]
    BY <1>1, <1>12 DEF Front1, p, s0
  <1>19. QED
    BY <1>7, <1>17, <1>18 DEF c2

\* putRegAccess() changes no cell and no address, and caches what belongs to it.
LEMMA RegsGood ==
  ASSUME NEW ch, NEW hp, Good(ch, hp), NEW a \in Addrs
  PROVE  /\ Good(putRegAccess(ch, a), hp)
         /\ Front1(putRegAccess(ch, a), a).addr = Front1(ch, a).addr
         /\ Front1(putRegAccess(ch, a), a).cell = Front1(ch, a).cell
  <1> DEFINE s0 == hashAddr(a)
             c2 == putRegAccess(ch, a)
  <1>1. s0 \in Sets /\ 1 \in Positions
    BY HashInSets, CellsArePositive
  <1>2. ch \in [Sets -> [Positions -> Entry]] /\ hp \in [Cells -> Addrs \cup {0}]
    BY DEF Good
  <1>3. c2 \in [Sets -> [Positions -> Entry]]
    <2>1. ch[s0] \in [Positions -> Entry] /\ ch[s0][1] \in Entry
      BY <1>1, <1>2
    <2>2. CASE c2 = ch
      BY <1>2, <2>2
    <2>3. CASE c2 # ch
      <3>1. [ch[s0][1] EXCEPT !.regs = a] \in Entry
        BY <2>1 DEF Entry
      <3>2. c2 = [ch EXCEPT ![s0] = [ch[s0] EXCEPT ![1] = [ch[s0][1] EXCEPT !.regs = a]]]
        BY <2>3 DEF putRegAccess
      <3>3. [ch[s0] EXCEPT ![1] = [ch[s0][1] EXCEPT !.regs = a]] \in [Positions -> Entry]
        BY <1>1, <2>1, <3>1
      <3>4. QED
        BY <1>1, <1>2, <3>2, <3>3
    <2>4. QED
      BY <2>2, <2>3
  <1>4. \A s \in Sets, w \in Positions :
          /\ c2[s][w].addr = ch[s][w].addr
          /\ c2[s][w].cell = ch[s][w].cell
          /\ c2[s][w].regs \in {ch[s][w].regs, ch[s][w].addr}
    <2>1. ASSUME NEW s \in Sets, NEW w \in Positions
          PROVE  /\ c2[s][w].addr = ch[s][w].addr
                 /\ c2[s][w].cell = ch[s][w].cell
                 /\ c2[s][w].regs \in {ch[s][w].regs, ch[s][w].addr}
      <3>1. ch[s0] \in [Positions -> Entry] /\ ch[s0][1] \in Entry
        BY <1>1, <1>2
      <3>2. CASE c2 = ch
        BY <3>2
      <3>3. CASE c2 # ch
        <4>1. ch[s0][1].addr = a /\ c2 = [ch EXCEPT ![s0] = [ch[s0] EXCEPT ![1] = [ch[s0][1] EXCEPT !.regs = a]]]
          BY <3>3 DEF putRegAccess
        <4>2. c2[s][w] = IF s = s0 /\ w = 1 THEN [ch[s0][1] EXCEPT !.regs = a]
                                            ELSE ch[s][w]
          BY <1>1, <1>2, <3>1, <4>1
        <4>3. QED
          BY <3>1, <4>1, <4>2 DEF Entry
      <3>4. QED
        BY <3>2, <3>3
    <2>2. QED
      BY <2>1
  <1> HIDE DEF c2
  <1>5. \A s \in Sets, w \in Positions : ch[s][w].cell = NoCell => ch[s][w].addr = 0
    BY DEF Good
  <1>6. ASSUME NEW s \in Sets, NEW w \in Positions
        PROVE  /\ c2[s][w].cell = NoCell => c2[s][w].addr = 0
               /\ c2[s][w].cell # NoCell =>
                    /\ c2[s][w].addr # 0
                    /\ hp[c2[s][w].cell] = c2[s][w].addr
                    /\ hashAddr(c2[s][w].addr) = s
                    /\ c2[s][w].regs \in {0, c2[s][w].addr}
                    /\ \A v \in Positions \ {w} : /\ c2[s][v].addr # c2[s][w].addr
                                                  /\ c2[s][v].cell # c2[s][w].cell
    BY <1>4, <1>5, GoodFacts, CellsArePositive
  <1>7. ASSUME NEW d \in Cells, hp[d] # 0
        PROVE  \E s \in Sets, w \in Positions : c2[s][w].cell = d
    BY <1>4, <1>7, GoodUsed
  <1>8. QED
    BY <1>1, <1>2, <1>3, <1>4, <1>6, <1>7, GoodIntro, ZenonT(60) DEF c2, Front1

-----------------------------------------------------------------------------
(* The pending access.                                                     *)

\* The fields of a TraceInfo the argument is about.
Shaped(s) ==
  /\ {"pend", "pltSkip", "wrapRet", "counter", "jniRet", "jniCall", "out", "sb", "lastWrite",
      "call", "callRet", "fdCall", "svc", "svcLine", "fdSvc"} \subseteq DOMAIN s
  /\ {"has", "mem", "cell", "addr", "line"} \subseteq DOMAIN s.pend

Pending(s) == s.pend.has /\ s.pend.mem

\* r differs from s in what it shows only ...
Kept(s, r) ==
  /\ Shaped(r) /\ r.pend = s.pend /\ r.pltSkip = s.pltSkip /\ r.wrapRet = s.wrapRet

\* ... or has lost the pending access as well.
KeptOrCut(s, r) ==
  /\ Shaped(r) /\ r.pltSkip = s.pltSkip /\ r.wrapRet = s.wrapRet
  /\ r.pend = s.pend \/ r.pend.has = FALSE

\* The access to be shown is that of the front entry of its set.
PendFront(s, ch) ==
  Pending(s) => /\ s.pend.addr \in Addrs /\ s.pend.cell # NoCell
                /\ Front1(ch, s.pend.addr).addr = s.pend.addr
                /\ Front1(ch, s.pend.addr).cell = s.pend.cell

\* An access is pending only before an instruction that is shown.
PendShown(s, where) ==
  Pending(s) => where \in Addrs /\ s.pltSkip = FALSE /\ s.wrapRet = 0

IInv ==
  /\ code \in Programs
  /\ Shaped(t)
  /\ Good(cache, heap)
  /\ PendFront(t, cache)
  /\ PendShown(t, pc)

-----------------------------------------------------------------------------
(* The cache.                                                              *)

\* Fetching an instruction leaves a good cache with it in front; an entry that
\* was in front before keeps its cell, even when another one is evicted.
LEMMA FetchGood ==
  ASSUME NEW a \in Addrs, Good(cache, heap), Allocates(a)
  PROVE  /\ Good(Fetched(a), HeapAfter(a))
         /\ Front1(Fetched(a), a).addr = a /\ Front1(Fetched(a), a).cell # NoCell
         /\ \A b \in Addrs : Front1(cache, b).addr = b /\ Front1(cache, b).cell # NoCell =>
              HeapAfter(a)[Front1(cache, b).cell] = b
  <1>1. CASE Cached(cache, a)
    <2>1. /\ Fetched(a) \in {get(cache, a), putRegAccess(get(cache, a), a)}
          /\ HeapAfter(a) = heap
      BY <1>1 DEF Fetched, HeapAfter
    <2>2. /\ Good(get(cache, a), heap)
          /\ Front1(get(cache, a), a).addr = a /\ Front1(get(cache, a), a).cell # NoCell
      BY <1>1, GetGood
    <2>3. \A b \in Addrs : Front1(cache, b).addr = b /\ Front1(cache, b).cell # NoCell =>
              heap[Front1(cache, b).cell] = b
      BY HashInSets, CellsArePositive, GoodFacts DEF Front1
    <2>4. QED
      BY <2>1, <2>2, <2>3, RegsGood
  <1>2. CASE ~Cached(cache, a)
    <2> DEFINE c == NewCell(heap)
    <2>1. c \in FreeCells(heap)
      BY <1>2 DEF Allocates, NewCell
    <2>2. /\ Fetched(a) \in {put(cache, a, c), putRegAccess(put(cache, a, c), a)}
          /\ HeapAfter(a) = cs_free([heap EXCEPT ![c] = a], {Evicted(cache, a)})
      BY <1>2 DEF Fetched, HeapAfter
    <2> HIDE DEF c
    <2>3. c # NoCell
      BY <2>1, CellsArePositive DEF FreeCells
    <2>4. Ways > 1
      BY InsnAssumption
    <2>5. PutOK(cache, heap, a, c, put(cache, a, c), HeapAfter(a))
      BY <1>2, <2>1, <2>2, PutGood DEF HeapAfterPut
    <2>6. QED
      BY <2>2, <2>3, <2>4, <2>5, RegsGood, ZenonT(60) DEF PutOK
  <1>3. QED
    BY <1>1, <1>2

-----------------------------------------------------------------------------
(* The parts of trace_code.                                                *)

LEMMA KeptTrans ==
  ASSUME NEW s, NEW r, NEW q, Kept(s, r), Kept(r, q)
  PROVE  Kept(s, q)
  BY DEF Kept

LEMMA ShowKept == ASSUME NEW s, NEW tok, Shaped(s) PROVE Kept(s, Show(s, tok))
  BY DEF Shaped, Kept, Show

LEMMA WriteKept == ASSUME NEW s, NEW tok, Shaped(s) PROVE Kept(s, Write(s, tok))
  BY DEF Shaped, Kept, Write

LEMMA WriteSbKept == ASSUME NEW s, Shaped(s) PROVE Kept(s, WriteSb(s))
  BY DEF Shaped, Kept, WriteSb

LEMMA CutLineCuts ==
  ASSUME NEW s, Shaped(s)
  PROVE  KeptOrCut(s, CutLine(s)) /\ ~Pending(CutLine(s))
  BY WriteSbKept DEF Shaped, Kept, KeptOrCut, Pending, CutLine

LEMMA JniOnCallKept ==
  ASSUME NEW s, NEW a, Shaped(s)
  PROVE  Kept(s, jni_on_call(s, a))
  BY DEF Shaped, Kept, jni_on_call

LEMMA JniOnReturnKept ==
  ASSUME NEW s, Shaped(s)
  PROVE  KeptOrCut(s, jni_on_return(s))
  <1>1. CASE s.jniRet = pc
    <2> DEFINE q == [CutLine(s) EXCEPT !.jniRet = 0]
    <2>1. KeptOrCut(s, CutLine(s)) /\ ~Pending(CutLine(s))
      BY CutLineCuts
    <2>2. KeptOrCut(s, q)
      BY <2>1 DEF KeptOrCut, Shaped
    <2>3. jni_on_return(s) = Write(q, Tok("jni", s.jniCall, x0.by))
      BY <1>1 DEF jni_on_return
    <2> HIDE DEF q
    <2>4. Shaped(q)
      BY <2>2 DEF KeptOrCut
    <2>5. QED
      BY <2>2, <2>3, <2>4, WriteKept DEF Kept, KeptOrCut
  <1>2. CASE s.jniRet # pc
    BY <1>2 DEF jni_on_return, KeptOrCut
  <1>3. QED
    BY <1>1, <1>2

LEMMA SetupKept ==
  ASSUME NEW s, NEW kind, Shaped(s)
  PROVE  Kept(s, setupPending(s, kind))
  BY DEF Shaped, Kept, setupPending

LEMMA EmitCallKept ==
  ASSUME NEW s, NEW f, Shaped(s)
  PROVE  Kept(s, EmitCall(s, f))
  BY WriteKept, SetupKept DEF Kept, EmitCall

LEMMA ReturnSeenKept ==
  ASSUME NEW s, Shaped(s)
  PROVE  Kept(s, ReturnSeen(s))
  <1> DEFINE known == IF s.call.type = "open" THEN [s EXCEPT !.fdCall = Add(@, s.call.path)] ELSE s
             q == [known EXCEPT !.call = NoCall, !.callRet = 0]
  <1>1. Kept(s, known)
    BY DEF Shaped, Kept
  <1> HIDE DEF known
  <1>2. Kept(s, q)
    BY <1>1 DEF Shaped, Kept
  <1>3. EmitReturn(s) = Write(q, Tok("ret", x0.by, s.call.type))
    BY DEF EmitReturn, known
  <1> HIDE DEF q
  <1>4. Kept(s, EmitReturn(s))
    BY <1>2, <1>3, WriteKept DEF Kept
  <1>5. QED
    BY <1>4 DEF ReturnSeen, Kept

LEMMA SvcHandleKept ==
  ASSUME NEW s, Shaped(s)
  PROVE  Kept(s, svc_handle(s))
  <1> DEFINE q == Show(s, Tok("svc", n, 0))
             shown == [q EXCEPT !.svcLine = n]
  <1>1. Kept(s, q)
    BY ShowKept
  <1> HIDE DEF q
  <1>2. Kept(s, shown)
    BY <1>1 DEF Kept, Shaped
  <1>3. svc_handle(s) = CASE insn.arg = "openat" -> [shown EXCEPT !.svc = [type |-> "open", path |-> n]]
                          [] insn.arg = "close"  -> [shown EXCEPT !.svc = [type |-> "any", path |-> 0],
                                                                  !.fdSvc = Closed(@)]
                          [] OTHER               -> [shown EXCEPT !.svc = [type |-> "any", path |-> 0]]
    BY DEF svc_handle, q
  <1> HIDE DEF shown
  <1>4. QED
    BY <1>2, <1>3 DEF Kept, Shaped

LEMMA SvcFlushKept ==
  ASSUME NEW s, Shaped(s)
  PROVE  Kept(s, svc_flush_pending(s))
  <1> DEFINE named == IF s.svc.type = "open" THEN [s EXCEPT !.fdSvc = Add(@, s.svc.path)] ELSE s
             q == [named EXCEPT !.svc = NoCall]
  <1>1. Kept(s, named)
    BY DEF Shaped, Kept
  <1> HIDE DEF named
  <1>2. Kept(s, q)
    BY <1>1 DEF Shaped, Kept
  <1>3. s.svc.type # "none" => svc_flush_pending(s) = Show(q, Tok("svcret", s.svcLine, x0.by))
    BY DEF svc_flush_pending, named
  <1> HIDE DEF q
  <1>4. CASE s.svc.type # "none"
    BY <1>2, <1>3, <1>4, ShowKept DEF Kept
  <1>5. CASE s.svc.type = "none"
    BY <1>5 DEF svc_flush_pending, Kept
  <1>6. QED
    BY <1>4, <1>5

LEMMA ShowWritesKept ==
  ASSUME NEW s, Shaped(s)
  PROVE  Kept(s, ShowWrites(s))
  <1> DEFINE q == Show(s, Tok("wr", s.lastWrite, step))
             q2 == [q EXCEPT !.lastWrite = 0]
  <1>1. Kept(s, q)
    BY ShowKept
  <1>2. ShowWrites(s) = IF s.lastWrite # 0 THEN WriteSb(q2) ELSE WriteSb(s)
    BY DEF ShowWrites
  <1> HIDE DEF q
  <1>3. Kept(s, q2)
    BY <1>1 DEF Shaped, Kept
  <1> HIDE DEF q2
  <1>4. QED
    BY <1>2, <1>3, WriteSbKept DEF Kept

\* The access of the instruction before is shown once.
LEMMA ShowAccessClears ==
  ASSUME NEW s, NEW hp, Shaped(s)
  PROVE  LET r == ShowAccess(s, hp) IN
         Shaped(r) /\ r.pend.has = FALSE /\ r.pltSkip = s.pltSkip /\ r.wrapRet = s.wrapRet
  <1> DEFINE q == [s EXCEPT !.pend.has = FALSE]
  <1>1. Shaped(q) /\ q.pend.has = FALSE /\ q.pltSkip = s.pltSkip /\ q.wrapRet = s.wrapRet
    BY DEF Shaped
  <1>2. ShowAccess(s, hp) = IF s.pend.has /\ s.pend.mem
                            THEN Show(q, Tok("mem", s.pend.line, hp[s.pend.cell])) ELSE q
    BY DEF ShowAccess
  <1> HIDE DEF q
  <1>3. QED
    BY <1>1, <1>2, ShowKept DEF Kept

-----------------------------------------------------------------------------
(* The whole callback for an instruction that is shown.                    *)

\* What is pending is the access of the instruction at pc, in cell c.
OwnAccess(s, c) ==
  /\ Shaped(s) /\ s.pltSkip = FALSE /\ s.wrapRet = 0
  /\ Pending(s) => Accesses(insn.op)
  /\ s.pend.cell = c /\ s.pend.addr = pc

LEMMA ShowInsnOwn ==
  ASSUME NEW s, NEW c, NEW hp, Shaped(s), s.pltSkip = FALSE, s.wrapRet = 0
  PROVE  OwnAccess(ShowInsn(s, c, hp), c)
  <1> DEFINE q == Show(s, Tok("insn", n, hp[c]))
             line == [q EXCEPT !.lastWrite = IF WritesRegs(insn.op) THEN n ELSE @,
                               !.pend = [has |-> TRUE, mem |-> Accesses(insn.op), cell |-> c,
                                         addr |-> pc, line |-> n]]
             answered == svc_flush_pending(line)
  <1>1. Kept(s, q)
    BY ShowKept
  <1>2. ShowInsn(s, c, hp) = CASE insn.op = "svc" -> svc_handle(answered)
                               [] insn.op = "ret" -> [WriteSb(answered) EXCEPT !.lastWrite = 0]
                               [] OTHER           -> answered
    BY DEF ShowInsn
  <1> HIDE DEF q
  <1>3. OwnAccess(line, c)
    BY <1>1 DEF Kept, Shaped, OwnAccess, Pending
  <1> HIDE DEF line
  <1>4. Kept(line, answered)
    BY <1>3, SvcFlushKept DEF OwnAccess
  <1>5. OwnAccess(answered, c)
    BY <1>3, <1>4 DEF OwnAccess, Kept, Pending
  <1> HIDE DEF answered
  <1>6. Shaped(answered)
    BY <1>5 DEF OwnAccess
  <1>7. OwnAccess(svc_handle(answered), c)
    BY <1>5, <1>6, SvcHandleKept DEF OwnAccess, Kept, Pending
  <1>8. Kept(answered, [WriteSb(answered) EXCEPT !.lastWrite = 0])
    BY <1>6, WriteSbKept DEF Kept, Shaped
  <1>9. OwnAccess([WriteSb(answered) EXCEPT !.lastWrite = 0], c)
    BY <1>5, <1>8 DEF OwnAccess, Kept, Pending
  <1>10. QED
    BY <1>2, <1>5, <1>7, <1>9

\* A branch into a stub cuts the line.
LEMMA ToPltCuts ==
  ASSUME NEW s, Shaped(s)
  PROVE  Shaped(ToPlt(s)) /\ ~Pending(ToPlt(s))
  <1> DEFINE cl == CutLine(s)
             cut == [cl EXCEPT !.pltSkip = TRUE]
             f == Got[insn.arg]
             named == Write(cut, Tok("name", n, f))
             jni == jni_on_call(cut, Next4(pc))
             emitted == EmitCall(cut, f)
  <1>1. Shaped(cl) /\ ~Pending(cl)
    BY CutLineCuts DEF KeptOrCut
  <1>2. ToPlt(s) = CASE insn.arg \in Unresolved -> cut
                     [] f \in Wrappers -> [named EXCEPT !.wrapRet = Next4(pc)]
                     [] f \in Addrs \ Wrappers -> named
                     [] f \in JniTable -> [jni EXCEPT !.wrapRet = Next4(pc)]
                     [] OTHER -> [emitted EXCEPT !.callRet = Next4(pc)]
    BY DEF ToPlt
  <1> HIDE DEF cl
  <1>3. Shaped(cut) /\ ~Pending(cut)
    BY <1>1 DEF Shaped, Pending
  <1> HIDE DEF cut
  <1>4. Kept(cut, named) /\ Kept(cut, jni) /\ Kept(cut, emitted)
    BY <1>3, WriteKept, JniOnCallKept, EmitCallKept
  <1> HIDE DEF named, jni, emitted
  <1>5. /\ Shaped(named) /\ ~Pending(named) /\ Shaped(jni) /\ ~Pending(jni)
        /\ Shaped(emitted) /\ ~Pending(emitted)
    BY <1>3, <1>4 DEF Kept, Pending
  <1>6. /\ Shaped([named EXCEPT !.wrapRet = Next4(pc)]) /\ ~Pending([named EXCEPT !.wrapRet = Next4(pc)])
        /\ Shaped([jni EXCEPT !.wrapRet = Next4(pc)]) /\ ~Pending([jni EXCEPT !.wrapRet = Next4(pc)])
    BY <1>5 DEF Shaped, Pending
  <1>7. Shaped([emitted EXCEPT !.callRet = Next4(pc)]) /\ ~Pending([emitted EXCEPT !.callRet = Next4(pc)])
    BY <1>5 DEF Shaped, Pending
  <1>8. QED
    BY <1>2, <1>3, <1>5, <1>6, <1>7

\* After the callback an access is pending only if the instruction makes one.
LEMMA BranchOutOwn ==
  ASSUME NEW s, NEW c, OwnAccess(s, c)
  PROVE  /\ Shaped(BranchOut(s))
         /\ Pending(BranchOut(s)) => Accesses(insn.op) /\ OwnAccess(BranchOut(s), c)
  <1>1. CASE insn.op \in {"bl", "b"} /\ insn.arg \in Plt
    <2>1. BranchOut(s) = ToPlt(s)
      BY <1>1 DEF BranchOut
    <2>2. QED
      BY <2>1, ToPltCuts DEF OwnAccess
  <1>2. CASE insn.op \in {"blr", "br"} /\ insn.arg \notin Addrs
    <2>1. BranchOut(s) = CutLine(s)
      BY <1>2 DEF BranchOut
    <2>2. QED
      BY <2>1, CutLineCuts DEF OwnAccess, KeptOrCut
  <1>3. CASE BranchOut(s) = s
    BY <1>3 DEF OwnAccess
  <1>4. QED
    BY <1>1, <1>2, <1>3 DEF BranchOut

-----------------------------------------------------------------------------
(* The actions.                                                            *)

LEMMA InitIInv == Init => IInv
  <1>1. Shaped(NewTraceInfo) /\ ~Pending(NewTraceInfo)
    BY DEF NewTraceInfo, NoPend, Shaped, Pending
  <1>2. QED
    BY <1>1, ClearGood DEF Init, IInv, PendFront, PendShown

LEMMA StubKeeps == IInv /\ StubInsn => IInv'
  <1> SUFFICES ASSUME IInv, StubInsn PROVE IInv'
    OBVIOUS
  <1>1. t.pltSkip /\ t' = jni_on_return(t) /\ UNCHANGED <<code, cache, heap>>
    BY DEF StubInsn, Skipping
  <1>2. ~Pending(t) /\ KeptOrCut(t, t')
    BY <1>1, JniOnReturnKept DEF IInv, PendShown
  <1>3. Shaped(t') /\ ~Pending(t')
    BY <1>2 DEF KeptOrCut, Pending
  <1>4. QED
    BY <1>1, <1>3 DEF IInv, PendFront, PendShown, Pending

LEMMA WrapperKeeps == IInv /\ WrapperInsn => IInv'
  <1> SUFFICES ASSUME IInv, WrapperInsn PROVE IInv'
    OBVIOUS
  <1> DEFINE r == jni_on_return(t)
             s == [r EXCEPT !.pltSkip = FALSE]
  <1>1. /\ t.wrapRet # 0 /\ UNCHANGED <<code, cache, heap>>
        /\ \/ t' = s
           \/ \E a : t' = jni_on_call(s, a)
    BY DEF WrapperInsn, InWrapper, Execute
  <1>2. ~Pending(t) /\ KeptOrCut(t, r)
    BY <1>1, JniOnReturnKept DEF IInv, PendShown
  <1> HIDE DEF r
  <1>3. Shaped(s) /\ ~Pending(s)
    BY <1>2 DEF KeptOrCut, Pending, Shaped
  <1> HIDE DEF s
  <1>4. Shaped(t') /\ ~Pending(t')
    BY <1>1, <1>3, JniOnCallKept DEF Kept, Pending
  <1>5. QED
    BY <1>1, <1>4 DEF IInv, PendFront, PendShown, Pending

LEMMA TracedKeeps == IInv /\ TracedInsn => IInv'
  <1> SUFFICES ASSUME IInv, TracedInsn PROVE IInv'
    OBVIOUS
  <1> DEFINE r  == jni_on_return(t)
             s  == [r EXCEPT !.pltSkip = FALSE, !.wrapRet = 0]
             ch == Fetched(pc)
             hp == HeapAfter(pc)
             s1 == ReturnSeen(s)
             s2 == ShowWrites(s1)
             s3 == ShowAccess(s2, hp)
             shown == ShowInsn(s3, FrontCell(ch, pc), hp)
             s4 == [shown EXCEPT !.counter = IF Cleans THEN 0 ELSE @ + 1,
                                 !.sb = IF Cleans /\ LongLines THEN <<>> ELSE @]
  <1>1. /\ pc \in Addrs /\ Allocates(pc) /\ Execute
        /\ t' = BranchOut(s4)
        /\ cache' = IF Cleans THEN trimCold(ch) ELSE ch
        /\ heap'  = IF Cleans THEN cs_free(hp, ColdCells(ch)) ELSE hp
    BY DEF TracedInsn, InSo, printAssemble2
  <1>2. Shaped(r)
    BY JniOnReturnKept DEF IInv, KeptOrCut
  <1>3. /\ Good(ch, hp) /\ Front1(ch, pc).addr = pc /\ Front1(ch, pc).cell # NoCell
    BY <1>1, FetchGood DEF IInv
  <1> HIDE DEF r, ch, hp
  <1>4. Shaped(s) /\ s.pltSkip = FALSE /\ s.wrapRet = 0
    BY <1>2 DEF Shaped
  <1> HIDE DEF s
  <1>5. Shaped(s1) /\ s1.pltSkip = FALSE /\ s1.wrapRet = 0
    BY <1>4, ReturnSeenKept DEF Kept
  <1> HIDE DEF s1
  <1>6. Shaped(s2) /\ s2.pltSkip = FALSE /\ s2.wrapRet = 0
    BY <1>5, ShowWritesKept DEF Kept
  <1> HIDE DEF s2
  <1>7. Shaped(s3) /\ s3.pltSkip = FALSE /\ s3.wrapRet = 0
    BY <1>6, ShowAccessClears
  <1> HIDE DEF s3
  <1>8. OwnAccess(shown, FrontCell(ch, pc))
    BY <1>7, ShowInsnOwn
  <1> HIDE DEF shown
  <1>9. OwnAccess(s4, FrontCell(ch, pc))
    BY <1>8 DEF OwnAccess, Shaped, Pending
  <1> HIDE DEF s4
  <1>10. /\ Shaped(t')
         /\ Pending(t') => Accesses(insn.op) /\ OwnAccess(t', FrontCell(ch, pc))
    BY <1>1, <1>9, BranchOutOwn
  <1>11. Good(cache', heap') /\ Front1(cache', pc) = Front1(ch, pc)
    BY <1>1, <1>3, InsnAssumption, TrimGood, TrimKeepsFront
  <1>12. Pending(t') => pc + 1 \in Addrs /\ pc' = pc + 1
    BY <1>1, <1>10, InsnAssumption DEF IInv, Accesses, Execute, insn, Next4
  <1>13. PendFront(t', cache')
    BY <1>1, <1>3, <1>10, <1>11 DEF PendFront, OwnAccess, FrontCell, Front1
  <1>14. PendShown(t', pc')
    BY <1>10, <1>12 DEF PendShown, OwnAccess
  <1>15. code' = code
    BY <1>1 DEF Execute
  <1>16. QED
    BY <1>10, <1>11, <1>13, <1>14, <1>15 DEF IInv, Shaped, PendFront, PendShown, Pending, Good, Front1

\* What happens outside the SO finds nothing pending.
LEMMA OutsideKeeps == IInv /\ (HostCall \/ Call \/ Done \/ UNCHANGED vars) => IInv'
  <1> SUFFICES ASSUME IInv PROVE (HostCall \/ Call \/ Done \/ UNCHANGED vars) => IInv'
    OBVIOUS
  <1>1. ASSUME HostCall PROVE IInv'
    <2>1. ~Pending(t) /\ UNCHANGED <<code, t, cache, heap>>
      BY <1>1 DEF HostCall, InSo, IInv, PendShown
    <2>2. QED
      BY <2>1 DEF IInv, PendFront, PendShown, Pending
  <1>2. ASSUME Call PROVE IInv'
    <2>1. /\ ~Pending(t) /\ UNCHANGED <<code, cache, heap>>
          /\ t' = [t EXCEPT !.sb = <<>>]
      BY <1>2, CellsArePositive DEF Call, IInv, PendShown
    <2>2. Shaped(t') /\ ~Pending(t')
      BY <2>1 DEF IInv, Shaped, Pending
    <2>3. QED
      BY <2>1, <2>2 DEF IInv, PendFront, PendShown, Pending
  <1>3. ASSUME Done \/ UNCHANGED vars PROVE IInv'
    BY <1>3 DEF Done, vars, guestVars, IInv
  <1>4. QED
    BY <1>1, <1>2, <1>3

\* With one thread at a time the other sessions run between two runs only.
LEMMA OthersKeep == ASSUME ~Shared, IInv, OtherInsn \/ OtherFreeTrace PROVE IInv'
  <1>1. ~Pending(t) /\ UNCHANGED <<code, pc, t>>
    BY CellsArePositive DEF OtherInsn, OtherFreeTrace, guestVars, IInv, PendShown
  <1>2. Good(cache', heap')
    <2>1. CASE OtherInsn
      BY <2>1, FetchGood DEF OtherInsn, IInv
    <2>2. CASE OtherFreeTrace
      BY <2>2, ClearGood DEF OtherFreeTrace
    <2>3. QED
      BY <2>1, <2>2
  <1>3. QED
    BY <1>1, <1>2 DEF IInv, PendFront, PendShown, Pending

LEMMA NextKeeps == ASSUME ~Shared, IInv, [Next]_vars PROVE IInv'
  BY StubKeeps, WrapperKeeps, TracedKeeps, OutsideKeeps, OthersKeep DEF Next

\* The invariant is enough: the cell of the pending access is the one of a front
\* entry, which fetching the next instruction does not evict.
LEMMA IInvImplies == IInv => CacheKeepsPending
  <1> SUFFICES ASSUME IInv PROVE CacheKeepsPending
    OBVIOUS
  <1>1. CacheSound(cache, heap)
    BY DEF IInv, Good
  <1>2. ASSUME Pending(t)
        PROVE  /\ heap[t.pend.cell] = t.pend.addr
               /\ Allocates(pc) => HeapAfter(pc)[t.pend.cell] = t.pend.addr
    <2>1. /\ pc \in Addrs /\ t.pend.addr \in Addrs /\ t.pend.cell # NoCell
          /\ Front1(cache, t.pend.addr).addr = t.pend.addr
          /\ Front1(cache, t.pend.addr).cell = t.pend.cell
      BY <1>2 DEF IInv, PendShown, PendFront
    <2>2. heap[t.pend.cell] = t.pend.addr
      BY <2>1, HashInSets, CellsArePositive, GoodFacts DEF IInv, Front1
    <2>3. ASSUME Allocates(pc) PROVE HeapAfter(pc)[t.pend.cell] = t.pend.addr
      BY <2>1, <2>3, FetchGood DEF IInv
    <2>4. QED
      BY <2>2, <2>3
  <1>3. QED
    BY <1>1, <1>2 DEF CacheKeepsPending, Pending

\* As long as no two threads trace at the same time, the cache and the allocator
\* of EastTrace.cpp agree in every state, and the instruction pendingAccess.insn
\* points to is neither freed by trimCold() or an eviction nor replaced before the next
\* callback has read it: for every program, number of sets and
\* ways (above one), cleanup interval and number of runs.
THEOREM CacheKeepsPendingAlways ==
  ASSUME ~Shared
  PROVE  Spec => []CacheKeepsPending
  <1>1. IInv /\ [Next]_vars => IInv'
    BY NextKeeps
  <1>2. QED
    BY <1>1, InitIInv, IInvImplies, PTL DEF Spec

-----------------------------------------------------------------------------
(* What is printed a callback late stands on the line it is about.         *)

\* The kinds of annotations that are printed late.
Notes == {"wr", "mem", "svcret"}

\* What AnnotationsOfOwnLine asks of a late annotation and the line it is on.
Agrees(head, tok) ==
  CASE tok.t = "wr"     -> head.k = tok.k /\ tok.v = tok.k
    [] tok.t = "mem"    -> head.k = tok.k /\ tok.v = head.v
    [] tok.t = "svcret" -> head.k = tok.k + 1 /\ tok.v = tok.k
    [] OTHER            -> TRUE

\* Token i of the trace stands on the line that token j starts.
OnLine(tr, j, i) ==
  /\ j \in 1 .. Len(tr) /\ j <= i /\ tr[j].t = "insn"
  /\ \A l \in j + 1 .. i : tr[l].t # "insn"

\* Every late annotation stands on the line it is about.
Own(tr) ==
  \A i \in 1 .. Len(tr) : tr[i].t \in Notes =>
    \E j \in 1 .. Len(tr) : OnLine(tr, j, i) /\ Agrees(tr[j], tr[i])

\* The last line of the trace is that of instruction k, at v.
LastLine(tr, k, v) == \E j \in 1 .. Len(tr) : OnLine(tr, j, Len(tr)) /\ tr[j].k = k /\ tr[j].v = v
LastLineOf(tr, k) == \E j \in 1 .. Len(tr) : OnLine(tr, j, Len(tr)) /\ tr[j].k = k

\* A sequence, of whatever.
IsSeq(tr) == \E S : tr \in Seq(S)

\* The trace of a TraceInfo.
Text(s) == s.out \o s.sb

LEMMA SeqFacts ==
  ASSUME NEW a, IsSeq(a)
  PROVE  /\ Len(a) \in Nat /\ DOMAIN a = 1 .. Len(a)
  <1>1. PICK S : a \in Seq(S)
    BY DEF IsSeq
  <1>2. QED
    BY <1>1

LEMMA NothingIsSeq == IsSeq(<<>>)
  <1>1. <<>> \in Seq(Nat)
    OBVIOUS
  <1>2. QED
    BY <1>1 DEF IsSeq

LEMMA AppendFacts ==
  ASSUME NEW a, IsSeq(a), NEW tok
  PROVE  /\ IsSeq(Append(a, tok)) /\ Len(Append(a, tok)) = Len(a) + 1
         /\ Append(a, tok)[Len(a) + 1] = tok
         /\ \A i \in 1 .. Len(a) : Append(a, tok)[i] = a[i]
  <1>1. PICK S : a \in Seq(S)
    BY DEF IsSeq
  <1> DEFINE T == S \cup {tok}
  <1>2. a \in Seq(T) /\ tok \in T
    <2>1. \A i \in 1 .. Len(a) : a[i] \in T
      BY <1>1
    <2>2. QED
      BY <1>1, <2>1
  <1> HIDE DEF T
  <1>3. Append(a, tok) \in Seq(T)
    BY <1>2
  <1>4. QED
    BY <1>2, <1>3 DEF IsSeq

LEMMA CatFacts ==
  ASSUME NEW a, IsSeq(a), NEW b, IsSeq(b)
  PROVE  /\ IsSeq(a \o b) /\ Len(a \o b) = Len(a) + Len(b)
         /\ \A i \in 1 .. Len(a) : (a \o b)[i] = a[i]
         /\ \A i \in 1 .. Len(b) : (a \o b)[Len(a) + i] = b[i]
  <1>1. PICK S : a \in Seq(S)
    BY DEF IsSeq
  <1>2. PICK R : b \in Seq(R)
    BY DEF IsSeq
  <1> DEFINE T == S \cup R
  <1>3. a \in Seq(T) /\ b \in Seq(T)
    <2>1. \A i \in 1 .. Len(a) : a[i] \in T
      BY <1>1
    <2>2. \A i \in 1 .. Len(b) : b[i] \in T
      BY <1>2
    <2>3. QED
      BY <1>1, <1>2, <2>1, <2>2
  <1> HIDE DEF T
  <1>4. a \o b \in Seq(T)
    BY <1>3
  <1>5. QED
    BY <1>3, <1>4 DEF IsSeq

\* A line taken out of the string builder is in the file, and the trace is the same.
LEMMA CatEmpty ==
  ASSUME NEW a, IsSeq(a)
  PROVE  a \o <<>> = a
  <1>1. PICK S : a \in Seq(S)
    BY DEF IsSeq
  <1>2. QED
    BY <1>1

\* A token that starts no line and is no late annotation may stand anywhere: the
\* annotations after it and the last line are what they were.
LEMMA InsertNeutral ==
  ASSUME NEW a, IsSeq(a), NEW b, IsSeq(b), NEW tok, tok.t \notin Notes \cup {"insn"}
  PROVE  /\ Own(a \o b) => Own(Append(a, tok) \o b)
         /\ \A k, v : LastLine(a \o b, k, v) => LastLine(Append(a, tok) \o b, k, v)
         /\ \A k : LastLineOf(a \o b, k) => LastLineOf(Append(a, tok) \o b, k)
  <1> DEFINE m == Len(a)
             d == a \o b
             c == Append(a, tok) \o b
             to(i) == IF i <= m THEN i ELSE i + 1
             from(i) == IF i <= m THEN i ELSE i - 1
  <1>1. m \in Nat /\ Len(b) \in Nat
    BY SeqFacts
  <1>2. /\ Len(d) = m + Len(b) /\ Len(c) = m + 1 + Len(b)
        /\ \A i \in 1 .. m : c[i] = a[i] /\ d[i] = a[i]
        /\ c[m + 1] = tok
        /\ \A i \in 1 .. Len(b) : c[m + 1 + i] = b[i] /\ d[m + i] = b[i]
    <2>1. IsSeq(Append(a, tok)) /\ Len(Append(a, tok)) = m + 1
      BY AppendFacts
    <2>2. QED
      BY <1>1, <2>1, AppendFacts, CatFacts
  <1> HIDE DEF c, d, m
  <1>3. Len(d) \in Nat /\ Len(c) = Len(d) + 1 /\ m <= Len(d)
    BY <1>1, <1>2
  <1>4. ASSUME NEW i \in 1 .. Len(d)
        PROVE  to(i) \in 1 .. Len(c) /\ c[to(i)] = d[i]
    <2>1. CASE i <= m
      BY <1>1, <1>2, <1>3, <2>1
    <2>2. CASE i > m
      <3>1. i - m \in 1 .. Len(b) /\ i = m + (i - m) /\ i + 1 = m + 1 + (i - m)
        BY <1>1, <1>2, <2>2
      <3>2. d[i] = b[i - m] /\ c[i + 1] = b[i - m]
        BY <1>2, <3>1
      <3>3. i + 1 \in 1 .. Len(c) /\ to(i) = i + 1
        BY <1>1, <1>3, <2>2
      <3>4. QED
        BY <3>2, <3>3
    <2>3. QED
      BY <1>1, <2>1, <2>2
  <1>5. ASSUME NEW i \in 1 .. Len(c), i # m + 1
        PROVE  from(i) \in 1 .. Len(d) /\ to(from(i)) = i
    BY <1>1, <1>2, <1>3, <1>5
  <1>6. ASSUME NEW j, NEW i \in 1 .. Len(d), OnLine(d, j, i)
        PROVE  OnLine(c, to(j), to(i)) /\ c[to(j)] = d[j]
    <2>1. j \in 1 .. Len(d) /\ j <= i /\ d[j].t = "insn"
      BY <1>6 DEF OnLine
    <2>2. to(j) \in 1 .. Len(c) /\ c[to(j)] = d[j] /\ to(i) \in 1 .. Len(c) /\ to(j) <= to(i)
      BY <1>1, <1>3, <1>4, <2>1
    <2>3. ASSUME NEW l \in to(j) + 1 .. to(i) PROVE c[l].t # "insn"
      <3>1. CASE l = m + 1
        BY <1>2, <3>1
      <3>2. CASE l # m + 1
        <4>1. l \in 1 .. Len(c)
          BY <1>3, <2>2, <2>3
        <4>2. from(l) \in 1 .. Len(d) /\ to(from(l)) = l
          BY <1>5, <3>2, <4>1
        <4>3. from(l) \in j + 1 .. i
          BY <1>1, <2>1, <2>3, <3>2, <4>1
        <4>4. d[from(l)].t # "insn"
          BY <1>6, <4>3 DEF OnLine
        <4>5. QED
          BY <1>4, <4>2, <4>4
      <3>3. QED
        BY <3>1, <3>2
    <2>4. QED
      BY <2>1, <2>2, <2>3 DEF OnLine
  <1>7. ASSUME NEW j, Len(d) # 0, OnLine(d, j, Len(d))
        PROVE  OnLine(c, to(j), Len(c)) /\ c[to(j)] = d[j] /\ to(j) \in 1 .. Len(c)
    <2>1. OnLine(c, to(j), to(Len(d))) /\ c[to(j)] = d[j]
      BY <1>3, <1>6, <1>7
    <2>2. to(j) \in 1 .. Len(c)
      BY <2>1 DEF OnLine
    <2>3. CASE m < Len(d)
      BY <1>1, <1>3, <2>1, <2>2, <2>3
    <2>4. CASE m = Len(d)
      <3>1. to(Len(d)) = m /\ Len(c) = m + 1
        BY <1>3, <2>4
      <3>2. \A l \in to(j) + 1 .. m + 1 : l \in to(j) + 1 .. m \/ l = m + 1
        BY <1>1, <2>2
      <3>3. QED
        BY <1>1, <1>2, <2>1, <2>2, <3>1, <3>2 DEF OnLine
    <2>5. QED
      BY <1>1, <1>3, <2>3, <2>4
  <1>8. ASSUME Own(d) PROVE Own(c)
    <2> SUFFICES ASSUME NEW i \in 1 .. Len(c), c[i].t \in Notes
                 PROVE  \E j \in 1 .. Len(c) : OnLine(c, j, i) /\ Agrees(c[j], c[i])
      BY DEF Own
    <2>1. i # m + 1
      BY <1>2
    <2>2. from(i) \in 1 .. Len(d) /\ to(from(i)) = i
      BY <1>5, <2>1
    <2>3. c[i] = d[from(i)]
      BY <1>4, <2>2
    <2>4. PICK j \in 1 .. Len(d) : OnLine(d, j, from(i)) /\ Agrees(d[j], d[from(i)])
      BY <1>8, <2>2, <2>3 DEF Own
    <2>5. OnLine(c, to(j), i) /\ c[to(j)] = d[j] /\ to(j) \in 1 .. Len(c)
      BY <1>4, <1>6, <2>2, <2>4
    <2>6. QED
      BY <2>3, <2>4, <2>5
  <1>9. Own(d) => Own(c)
    BY <1>8
  <1>10. \A k, v : LastLine(d, k, v) => LastLine(c, k, v)
    BY <1>3, <1>7 DEF LastLine
  <1>11. \A k : LastLineOf(d, k) => LastLineOf(c, k)
    BY <1>3, <1>7 DEF LastLineOf
  <1>12. QED
    BY <1>9, <1>10, <1>11 DEF c, d

\* A token added at the end starts no line ...
LEMMA AppendToLine ==
  ASSUME NEW tr, IsSeq(tr), Own(tr), NEW tok, tok.t # "insn",
         tok.t \in Notes => \E j \in 1 .. Len(tr) : OnLine(tr, j, Len(tr)) /\ Agrees(tr[j], tok)
  PROVE  /\ Own(Append(tr, tok))
         /\ \A k, v : LastLine(tr, k, v) => LastLine(Append(tr, tok), k, v)
         /\ \A k : LastLineOf(tr, k) => LastLineOf(Append(tr, tok), k)
  <1> DEFINE c == Append(tr, tok)
             m == Len(tr)
  <1>1. m \in Nat /\ Len(c) = m + 1 /\ c[m + 1] = tok /\ \A i \in 1 .. m : c[i] = tr[i]
    BY AppendFacts, SeqFacts
  <1> HIDE DEF c
  <1>2. ASSUME NEW j, NEW i \in 1 .. m, OnLine(tr, j, i)
        PROVE  OnLine(c, j, i) /\ c[j] = tr[j] /\ j \in 1 .. Len(c)
    BY <1>1, <1>2 DEF OnLine
  <1>3. ASSUME NEW j, OnLine(tr, j, m)
        PROVE  OnLine(c, j, m + 1) /\ c[j] = tr[j] /\ j \in 1 .. Len(c)
    <2>1. j \in 1 .. m /\ tr[j].t = "insn" /\ \A l \in j + 1 .. m : tr[l].t # "insn"
      BY <1>3 DEF OnLine
    <2>2. \A l \in j + 1 .. m + 1 : c[l].t # "insn"
      BY <1>1, <2>1
    <2>3. QED
      BY <1>1, <2>1, <2>2 DEF OnLine
  <1>4. Own(c)
    <2> SUFFICES ASSUME NEW i \in 1 .. Len(c), c[i].t \in Notes
                 PROVE  \E j \in 1 .. Len(c) : OnLine(c, j, i) /\ Agrees(c[j], c[i])
      BY DEF Own
    <2>1. CASE i \in 1 .. m
      <3>1. PICK j \in 1 .. Len(tr) : OnLine(tr, j, i) /\ Agrees(tr[j], tr[i])
        BY <1>1, <2>1 DEF Own
      <3>2. QED
        BY <1>1, <1>2, <2>1, <3>1
    <2>2. CASE i = m + 1
      BY <1>1, <1>3, <2>2
    <2>3. QED
      BY <1>1, <2>1, <2>2
  <1>5. QED
    BY <1>1, <1>3, <1>4 DEF c, LastLine, LastLineOf

\* ... or it starts one, which is then the last.
LEMMA AppendLine ==
  ASSUME NEW tr, IsSeq(tr), Own(tr), NEW k, NEW v
  PROVE  /\ Own(Append(tr, Tok("insn", k, v)))
         /\ LastLine(Append(tr, Tok("insn", k, v)), k, v)
  <1> DEFINE tok == Tok("insn", k, v)
             c == Append(tr, tok)
             m == Len(tr)
  <1>1. /\ m \in Nat /\ Len(c) = m + 1 /\ c[m + 1] = tok /\ \A i \in 1 .. m : c[i] = tr[i]
        /\ tok.t = "insn" /\ tok.k = k /\ tok.v = v
    BY AppendFacts, SeqFacts DEF Tok
  <1> HIDE DEF c, tok
  <1>2. Own(c)
    <2> SUFFICES ASSUME NEW i \in 1 .. Len(c), c[i].t \in Notes
                 PROVE  \E j \in 1 .. Len(c) : OnLine(c, j, i) /\ Agrees(c[j], c[i])
      BY DEF Own
    <2>1. i \in 1 .. m
      BY <1>1 DEF Notes
    <2>2. PICK j \in 1 .. Len(tr) : OnLine(tr, j, i) /\ Agrees(tr[j], tr[i])
      BY <1>1, <2>1 DEF Own
    <2>3. OnLine(c, j, i)
      BY <1>1, <2>1, <2>2 DEF OnLine
    <2>4. QED
      BY <1>1, <2>1, <2>2, <2>3
  <1>3. OnLine(c, m + 1, Len(c))
    BY <1>1 DEF OnLine
  <1>4. QED
    BY <1>1, <1>2, <1>3 DEF LastLine, c, tok

\* A trace that loses its end keeps the annotations where they were.
LEMMA PrefixOwn ==
  ASSUME NEW a, IsSeq(a), NEW b, IsSeq(b), Own(a \o b)
  PROVE  Own(a)
  <1>1. /\ Len(a) \in Nat /\ Len(b) \in Nat
        /\ Len(a \o b) = Len(a) + Len(b) /\ \A i \in 1 .. Len(a) : (a \o b)[i] = a[i]
    BY SeqFacts, CatFacts
  <1> SUFFICES ASSUME NEW i \in 1 .. Len(a), a[i].t \in Notes
               PROVE  \E j \in 1 .. Len(a) : OnLine(a, j, i) /\ Agrees(a[j], a[i])
    BY DEF Own
  <1>2. PICK j \in 1 .. Len(a \o b) : OnLine(a \o b, j, i) /\ Agrees((a \o b)[j], (a \o b)[i])
    BY <1>1 DEF Own
  <1>3. j \in 1 .. Len(a) /\ \A l \in j + 1 .. i : l \in 1 .. Len(a)
    BY <1>1, <1>2 DEF OnLine
  <1>4. QED
    BY <1>1, <1>2, <1>3 DEF OnLine


\* The annotations are where they belong, and what is still to be printed will
\* be: the registers are those after instruction k, whose line is the last; so is
\* the line of the access, which the heap still decodes; X0 is the answer of the
\* system call.
Placed(s, k, by, hp) ==
  /\ IsSeq(s.out) /\ IsSeq(s.sb) /\ Own(Text(s))
  /\ s.lastWrite # 0 => s.lastWrite = k /\ LastLineOf(Text(s), k)
  /\ Pending(s) => LastLine(Text(s), s.pend.line, hp[s.pend.cell])
  /\ s.svc.type # "none" => s.svcLine = k /\ by = k

\* Something is still to be printed.
Owes(s) == Pending(s) \/ s.lastWrite # 0 \/ s.svc.type # "none"

\* r owes nothing that s does not owe ...
Less(s, r) ==
  /\ r.lastWrite \in {0, s.lastWrite} /\ (r.pend = s.pend \/ r.pend.has = FALSE)
  /\ r.svc = s.svc /\ r.svcLine = s.svcLine

\* ... and is a TraceInfo with its annotations in place if s is one.
Fine(s, r) ==
  /\ Shaped(r) /\ Less(s, r)
  /\ \A k, by, hp : Placed(s, k, by, hp) => Placed(r, k, by, hp)

LEMMA FineTrans ==
  ASSUME NEW s, NEW r, NEW q, Fine(s, r), Fine(r, q)
  PROVE  Fine(s, q)
  BY DEF Fine, Less

\* Fields the annotations do not depend on may change.
LEMMA SameText ==
  ASSUME NEW s, NEW r, Shaped(r), Less(s, r), Text(r) = Text(s),
         IsSeq(s.out) /\ IsSeq(s.sb) => IsSeq(r.out) /\ IsSeq(r.sb)
  PROVE  Fine(s, r)
  BY DEF Fine, Less, Placed, Pending

LEMMA WriteFine ==
  ASSUME NEW s, Shaped(s), NEW tok, tok.t \notin Notes \cup {"insn"}
  PROVE  Fine(s, Write(s, tok))
  <1> DEFINE r == Write(s, tok)
  <1>1. /\ Shaped(r) /\ Less(s, r) /\ r.pend = s.pend /\ r.lastWrite = s.lastWrite
        /\ r.out = Append(s.out, tok) /\ r.sb = s.sb
    BY DEF Write, Shaped, Less
  <1> HIDE DEF r
  <1>2. ASSUME NEW k, NEW by, NEW hp, Placed(s, k, by, hp)
        PROVE  Placed(r, k, by, hp)
    <2>1. IsSeq(s.out) /\ IsSeq(s.sb) /\ IsSeq(r.out)
      BY <1>1, <1>2, AppendFacts DEF Placed
    <2>2. /\ Own(Text(s)) => Own(Text(r))
          /\ \A l, v : LastLine(Text(s), l, v) => LastLine(Text(r), l, v)
          /\ \A l : LastLineOf(Text(s), l) => LastLineOf(Text(r), l)
      BY <1>1, <2>1, InsertNeutral DEF Text
    <2>3. QED
      BY <1>1, <1>2, <2>1, <2>2 DEF Placed, Pending, Less
  <1>3. QED
    BY <1>1, <1>2 DEF Fine, r

LEMMA CatAppend ==
  ASSUME NEW a, IsSeq(a), NEW b, IsSeq(b), NEW tok
  PROVE  a \o Append(b, tok) = Append(a \o b, tok)
  <1>1. PICK S : a \in Seq(S)
    BY DEF IsSeq
  <1>2. PICK R : b \in Seq(R)
    BY DEF IsSeq
  <1> DEFINE T == (S \cup R) \cup {tok}
  <1>3. a \in Seq(T) /\ b \in Seq(T) /\ tok \in T
    <2>1. \A i \in 1 .. Len(a) : a[i] \in T
      BY <1>1
    <2>2. \A i \in 1 .. Len(b) : b[i] \in T
      BY <1>2
    <2>3. QED
      BY <1>1, <1>2, <2>1, <2>2
  <1> HIDE DEF T
  <1>4. QED
    BY <1>3

LEMMA AppendToText ==
  ASSUME NEW s, IsSeq(s.out), IsSeq(s.sb), NEW tok
  PROVE  s.out \o Append(s.sb, tok) = Append(Text(s), tok)
  <1> DEFINE a == s.out
             b == s.sb
  <1>1. IsSeq(a) /\ IsSeq(b) /\ Text(s) = a \o b
    BY DEF Text
  <1> HIDE DEF a, b
  <1>2. a \o Append(b, tok) = Append(a \o b, tok)
    BY <1>1, CatAppend
  <1>3. QED
    BY <1>1, <1>2 DEF a, b

\* What is shown at the end of the line: the annotation has to belong there.
LEMMA ShowPlaced ==
  ASSUME NEW s, Shaped(s), NEW tok, tok.t # "insn", NEW k, NEW by, NEW hp, Placed(s, k, by, hp),
         tok.t \in Notes => \E j \in 1 .. Len(Text(s)) :
                              OnLine(Text(s), j, Len(Text(s))) /\ Agrees(Text(s)[j], tok)
  PROVE  Shaped(Show(s, tok)) /\ Less(s, Show(s, tok)) /\ Placed(Show(s, tok), k, by, hp)
  <1> DEFINE r == Show(s, tok)
  <1>1. /\ Shaped(r) /\ Less(s, r) /\ r.pend = s.pend /\ r.lastWrite = s.lastWrite
        /\ r.out = s.out /\ r.sb = Append(s.sb, tok)
    BY DEF Show, Shaped, Less
  <1> HIDE DEF r
  <1>2. IsSeq(s.out) /\ IsSeq(s.sb) /\ IsSeq(r.sb) /\ Own(Text(s))
    BY <1>1, AppendFacts DEF Placed
  <1>3. Text(r) = Append(Text(s), tok) /\ IsSeq(Text(s))
    <2>1. Text(r) = s.out \o Append(s.sb, tok)
      BY <1>1 DEF Text
    <2>2. IsSeq(Text(s))
      BY <1>2, CatFacts DEF Text
    <2>3. QED
      BY <1>2, <2>1, <2>2, AppendToText
  <1>4. /\ Own(Text(r))
        /\ \A l, v : LastLine(Text(s), l, v) => LastLine(Text(r), l, v)
        /\ \A l : LastLineOf(Text(s), l) => LastLineOf(Text(r), l)
    BY <1>2, <1>3, AppendToLine
  <1>5. Placed(r, k, by, hp)
    BY <1>1, <1>2, <1>4 DEF Placed, Pending, Less
  <1>6. QED
    BY <1>1, <1>5 DEF r

LEMMA WriteSbFine ==
  ASSUME NEW s, Shaped(s), IsSeq(s.out), IsSeq(s.sb)
  PROVE  Fine(s, WriteSb(s)) /\ Text(WriteSb(s)) = Text(s)
  <1> DEFINE r == WriteSb(s)
  <1>1. /\ Shaped(r) /\ Less(s, r) /\ r.out = s.out \o s.sb /\ r.sb = <<>>
    BY DEF WriteSb, Shaped, Less
  <1>2. IsSeq(s.out \o s.sb) /\ Text(r) = Text(s)
    BY <1>1, CatFacts, CatEmpty DEF Text
  <1> HIDE DEF r
  <1>3. Fine(s, r)
    BY <1>1, <1>2, NothingIsSeq, SameText
  <1>4. QED
    BY <1>2, <1>3 DEF r

LEMMA CutFine ==
  ASSUME NEW s, Shaped(s), IsSeq(s.out), IsSeq(s.sb)
  PROVE  Fine(s, CutLine(s)) /\ CutLine(s).lastWrite = 0 /\ ~Pending(CutLine(s))
  <1> DEFINE w == WriteSb(s)
             r == [w EXCEPT !.lastWrite = 0, !.pend.has = FALSE]
  <1>1. Fine(s, w) /\ Shaped(w)
    BY WriteSbFine DEF Fine
  <1>2. CutLine(s) = r
    BY DEF CutLine
  <1> HIDE DEF w
  <1>3. /\ Shaped(r) /\ Less(w, r) /\ Text(r) = Text(w) /\ r.out = w.out /\ r.sb = w.sb
        /\ r.lastWrite = 0 /\ ~Pending(r)
    BY <1>1 DEF Shaped, Less, Text, Pending
  <1> HIDE DEF r
  <1>4. Fine(w, r)
    BY <1>3, SameText
  <1>5. QED
    BY <1>1, <1>2, <1>3, <1>4, FineTrans

LEMMA JniOnCallFine ==
  ASSUME NEW s, Shaped(s), NEW a
  PROVE  Fine(s, jni_on_call(s, a))
  <1> DEFINE r == jni_on_call(s, a)
  <1>1. Shaped(r) /\ Less(s, r) /\ r.out = s.out /\ r.sb = s.sb
    BY DEF jni_on_call, Shaped, Less
  <1> HIDE DEF r
  <1>2. Fine(s, r)
    BY <1>1, SameText DEF Text
  <1>3. QED
    BY <1>2 DEF r

LEMMA JniOnReturnFine ==
  ASSUME NEW s, Shaped(s), IsSeq(s.out), IsSeq(s.sb)
  PROVE  Fine(s, jni_on_return(s))
  <1>1. CASE s.jniRet = pc
    <2> DEFINE c == CutLine(s)
               q == [c EXCEPT !.jniRet = 0]
               tok == Tok("jni", s.jniCall, x0.by)
    <2>1. Fine(s, c) /\ Shaped(c)
      BY CutFine DEF Fine
    <2>2. jni_on_return(s) = Write(q, tok)
      BY <1>1 DEF jni_on_return
    <2>3. tok.t \notin Notes \cup {"insn"}
      BY DEF Tok, Notes
    <2> HIDE DEF c, tok
    <2>4. Shaped(q) /\ Less(c, q) /\ q.out = c.out /\ q.sb = c.sb
      BY <2>1 DEF Shaped, Less
    <2> HIDE DEF q
    <2>5. Fine(c, q)
      BY <2>4, SameText DEF Text
    <2>6. Fine(q, Write(q, tok))
      BY <2>3, <2>4, WriteFine
    <2>7. QED
      BY <2>1, <2>2, <2>5, <2>6, FineTrans
  <1>2. CASE s.jniRet # pc
    <2>1. jni_on_return(s) = s
      BY <1>2 DEF jni_on_return
    <2>2. QED
      BY <2>1, SameText DEF Less
  <1>3. QED
    BY <1>1, <1>2

LEMMA SetupFine ==
  ASSUME NEW s, Shaped(s), NEW kind
  PROVE  Fine(s, setupPending(s, kind))
  <1> DEFINE r == setupPending(s, kind)
  <1>1. Shaped(r) /\ Less(s, r) /\ r.out = s.out /\ r.sb = s.sb
    BY DEF setupPending, Shaped, Less
  <1> HIDE DEF r
  <1>2. Fine(s, r)
    BY <1>1, SameText DEF Text
  <1>3. QED
    BY <1>2 DEF r

LEMMA EmitCallFine ==
  ASSUME NEW s, Shaped(s), NEW f
  PROVE  Fine(s, EmitCall(s, f))
  <1> DEFINE tok == Tok("call", n, f)
             w == Write(s, tok)
  <1>1. tok.t \notin Notes \cup {"insn"}
    BY DEF Tok, Notes
  <1>2. EmitCall(s, f) = setupPending(w, Kind[f])
    BY DEF EmitCall
  <1> HIDE DEF tok
  <1>3. Fine(s, w) /\ Shaped(w)
    BY <1>1, WriteFine DEF Fine
  <1> HIDE DEF w
  <1>4. QED
    BY <1>2, <1>3, SetupFine, FineTrans

LEMMA ReturnSeenFine ==
  ASSUME NEW s, Shaped(s)
  PROVE  Fine(s, ReturnSeen(s))
  <1> DEFINE known == IF s.call.type = "open" THEN [s EXCEPT !.fdCall = Add(@, s.call.path)] ELSE s
             q == [known EXCEPT !.call = NoCall, !.callRet = 0]
             tok == Tok("ret", x0.by, s.call.type)
  <1>1. Shaped(known) /\ Less(s, known) /\ known.out = s.out /\ known.sb = s.sb
    BY DEF Shaped, Less
  <1>2. EmitReturn(s) = Write(q, tok)
    BY DEF EmitReturn
  <1> HIDE DEF known
  <1>3. Shaped(q) /\ Less(s, q) /\ q.out = s.out /\ q.sb = s.sb
    BY <1>1 DEF Shaped, Less
  <1>4. tok.t \notin Notes \cup {"insn"}
    BY DEF Tok, Notes
  <1> HIDE DEF q, tok
  <1>5. Fine(s, q)
    BY <1>3, SameText DEF Text
  <1>6. Fine(s, EmitReturn(s))
    BY <1>2, <1>3, <1>4, <1>5, WriteFine, FineTrans
  <1>7. Fine(s, s)
    BY SameText DEF Less
  <1>8. QED
    BY <1>6, <1>7 DEF ReturnSeen

\* The registers shown are those of the last line, and shown once.
LEMMA ShowWritesPlaced ==
  ASSUME NEW s, Shaped(s), NEW by, NEW hp, Placed(s, step, by, hp)
  PROVE  LET r == ShowWrites(s) IN
         /\ Shaped(r) /\ r.lastWrite = 0 /\ r.svc = s.svc /\ Placed(r, step, by, hp)
         /\ r.pend = s.pend \/ r.pend.has = FALSE
  <1>1. CASE s.lastWrite # 0
    <2> DEFINE tok == Tok("wr", s.lastWrite, step)
               q == Show(s, tok)
               q2 == [q EXCEPT !.lastWrite = 0]
    <2>1. tok.t = "wr" /\ tok.k = step /\ tok.v = step
      BY <1>1 DEF Tok, Placed
    <2>2. ShowWrites(s) = WriteSb(q2)
      BY <1>1 DEF ShowWrites
    <2> HIDE DEF tok
    <2>3. LastLineOf(Text(s), step)
      BY <1>1 DEF Placed
    <2>4. \E j \in 1 .. Len(Text(s)) :
            OnLine(Text(s), j, Len(Text(s))) /\ Agrees(Text(s)[j], tok)
      BY <2>1, <2>3 DEF LastLineOf, Agrees
    <2>5. Shaped(q) /\ Less(s, q) /\ Placed(q, step, by, hp)
      BY <2>1, <2>4, ShowPlaced
    <2> HIDE DEF q
    <2>6. /\ Shaped(q2) /\ Less(q, q2) /\ q2.lastWrite = 0 /\ q2.out = q.out /\ q2.sb = q.sb
          /\ q2.svc = q.svc /\ q2.pend = q.pend
      BY <2>5 DEF Shaped, Less
    <2> HIDE DEF q2
    <2>7. Placed(q2, step, by, hp)
      BY <2>5, <2>6, SameText DEF Text, Fine
    <2>8. Fine(q2, WriteSb(q2))
      BY <2>6, <2>7, WriteSbFine DEF Placed
    <2>9. QED
      BY <2>2, <2>5, <2>6, <2>7, <2>8 DEF Fine, Less
  <1>2. CASE s.lastWrite = 0
    <2>1. ShowWrites(s) = WriteSb(s)
      BY <1>2 DEF ShowWrites
    <2>2. Fine(s, WriteSb(s))
      BY WriteSbFine DEF Placed
    <2>3. QED
      BY <1>2, <2>1, <2>2 DEF Fine, Less
  <1>3. QED
    BY <1>1, <1>2

\* The access shown is that of the last line.
LEMMA ShowAccessPlaced ==
  ASSUME NEW s, Shaped(s), NEW k, NEW by, NEW hp, Placed(s, k, by, hp), s.lastWrite = 0
  PROVE  LET r == ShowAccess(s, hp) IN
         Shaped(r) /\ r.lastWrite = 0 /\ r.pend.has = FALSE /\ Placed(r, k, by, hp)
  <1> DEFINE q == [s EXCEPT !.pend.has = FALSE]
             tok == Tok("mem", s.pend.line, hp[s.pend.cell])
  <1>1. /\ Shaped(q) /\ Less(s, q) /\ q.lastWrite = 0 /\ q.pend.has = FALSE
        /\ q.out = s.out /\ q.sb = s.sb
    BY DEF Shaped, Less
  <1>2. ShowAccess(s, hp) = IF Pending(s) THEN Show(q, tok) ELSE q
    BY DEF ShowAccess, Pending
  <1>3. tok.t = "mem" /\ tok.k = s.pend.line /\ tok.v = hp[s.pend.cell]
    BY DEF Tok
  <1> HIDE DEF q, tok
  <1>4. Text(q) = Text(s) /\ Placed(q, k, by, hp)
    BY <1>1, SameText DEF Fine, Text
  <1>5. CASE Pending(s)
    <2>1. LastLine(Text(q), s.pend.line, hp[s.pend.cell])
      BY <1>4, <1>5 DEF Placed
    <2>2. \E j \in 1 .. Len(Text(q)) :
            OnLine(Text(q), j, Len(Text(q))) /\ Agrees(Text(q)[j], tok)
      BY <1>3, <2>1 DEF LastLine, Agrees
    <2>3. Shaped(Show(q, tok)) /\ Less(q, Show(q, tok)) /\ Placed(Show(q, tok), k, by, hp)
      BY <1>1, <1>3, <1>4, <2>2, ShowPlaced
    <2>4. QED
      BY <1>1, <1>2, <1>5, <2>3 DEF Less
  <1>6. CASE ~Pending(s)
    BY <1>1, <1>2, <1>4, <1>6
  <1>7. QED
    BY <1>5, <1>6

\* The answer of a system call stands on the line after its own.
LEMMA SvcFlushPlaced ==
  ASSUME NEW s, Shaped(s), NEW hp,
         IsSeq(s.out), IsSeq(s.sb), Own(Text(s)), LastLineOf(Text(s), n),
         s.lastWrite \in {0, n}, Pending(s) => LastLine(Text(s), s.pend.line, hp[s.pend.cell]),
         s.svc.type # "none" => s.svcLine = step /\ x0.by = step, step \in Nat
  PROVE  LET r == svc_flush_pending(s) IN
         /\ Shaped(r) /\ r.svc.type = "none" /\ Placed(r, n, n, hp)
         /\ r.lastWrite \in {0, s.lastWrite}
  <1>1. CASE s.svc.type # "none"
    <2> DEFINE named == IF s.svc.type = "open" THEN [s EXCEPT !.fdSvc = Add(@, s.svc.path)] ELSE s
               q == [named EXCEPT !.svc = NoCall]
               tok == Tok("svcret", s.svcLine, x0.by)
    <2>1. /\ Shaped(named) /\ named.out = s.out /\ named.sb = s.sb /\ named.pend = s.pend
          /\ named.lastWrite = s.lastWrite
      BY DEF Shaped
    <2>2. svc_flush_pending(s) = Show(q, tok)
      BY <1>1 DEF svc_flush_pending
    <2>3. tok.t = "svcret" /\ tok.k = step /\ tok.v = step
      BY <1>1 DEF Tok
    <2> HIDE DEF named, tok
    <2>4. /\ Shaped(q) /\ q.out = s.out /\ q.sb = s.sb /\ q.pend = s.pend
          /\ q.lastWrite = s.lastWrite /\ q.svc.type = "none"
      BY <2>1 DEF Shaped, NoCall
    <2> HIDE DEF q
    <2>5. Text(q) = Text(s) /\ Placed(q, n, n, hp)
      BY <2>4 DEF Text, Placed, Pending
    <2>6. \E j \in 1 .. Len(Text(q)) :
            OnLine(Text(q), j, Len(Text(q))) /\ Agrees(Text(q)[j], tok)
      BY <2>3, <2>5 DEF LastLineOf, Agrees, n
    <2>7. Shaped(Show(q, tok)) /\ Less(q, Show(q, tok)) /\ Placed(Show(q, tok), n, n, hp)
      BY <2>3, <2>4, <2>5, <2>6, ShowPlaced
    <2>8. QED
      BY <2>2, <2>4, <2>7 DEF Less
  <1>2. CASE s.svc.type = "none"
    BY <1>2 DEF svc_flush_pending, Placed
  <1>3. QED
    BY <1>1, <1>2

LEMMA SvcHandlePlaced ==
  ASSUME NEW s, Shaped(s), NEW hp, Placed(s, n, n, hp)
  PROVE  LET r == svc_handle(s) IN
         Shaped(r) /\ Placed(r, n, n, hp) /\ r.lastWrite = s.lastWrite
  <1> DEFINE tok == Tok("svc", n, 0)
             q == Show(s, tok)
             shown == [q EXCEPT !.svcLine = n]
  <1>1. tok.t \notin Notes \cup {"insn"}
    BY DEF Tok, Notes
  <1>2. svc_handle(s) = CASE insn.arg = "openat" -> [shown EXCEPT !.svc = [type |-> "open", path |-> n]]
                          [] insn.arg = "close"  -> [shown EXCEPT !.svc = [type |-> "any", path |-> 0],
                                                                  !.fdSvc = Closed(@)]
                          [] OTHER               -> [shown EXCEPT !.svc = [type |-> "any", path |-> 0]]
    BY DEF svc_handle
  <1>3. q.lastWrite = s.lastWrite
    BY DEF Show, Shaped
  <1> HIDE DEF tok
  <1>4. Shaped(q) /\ Placed(q, n, n, hp)
    BY <1>1, ShowPlaced
  <1> HIDE DEF q
  <1>5. /\ Shaped(shown) /\ shown.out = q.out /\ shown.sb = q.sb /\ shown.pend = q.pend
        /\ shown.lastWrite = q.lastWrite /\ shown.svcLine = n
    BY <1>4 DEF Shaped
  <1> HIDE DEF shown
  <1> DEFINE r == svc_handle(s)
  <1>6. /\ Shaped(r) /\ r.out = q.out /\ r.sb = q.sb /\ r.pend = q.pend
        /\ r.lastWrite = q.lastWrite /\ r.svcLine = n
    BY <1>2, <1>5 DEF Shaped
  <1> HIDE DEF r
  <1>7. Placed(r, n, n, hp)
    BY <1>4, <1>6 DEF Placed, Text, Pending
  <1>8. QED
    BY <1>3, <1>6, <1>7 DEF r


\* The line of the instruction at pc is the last, and all that is owed is its own.
LEMMA ShowInsnPlaced ==
  ASSUME NEW s, Shaped(s), NEW c, NEW hp, step \in Nat, Placed(s, step, x0.by, hp),
         s.lastWrite = 0
  PROVE  LET r == ShowInsn(s, c, hp) IN
         /\ Shaped(r) /\ Placed(r, n, n, hp)
         /\ r.lastWrite # 0 => WritesRegs(insn.op)
         /\ r.svc.type # "none" => insn.op = "svc"
  <1> DEFINE tok == Tok("insn", n, hp[c])
             q == Show(s, tok)
             line == [q EXCEPT !.lastWrite = IF WritesRegs(insn.op) THEN n ELSE @,
                               !.pend = [has |-> TRUE, mem |-> Accesses(insn.op), cell |-> c,
                                         addr |-> pc, line |-> n]]
             answered == svc_flush_pending(line)
             ended == WriteSb(answered)
  <1>1. ShowInsn(s, c, hp) = CASE insn.op = "svc" -> svc_handle(answered)
                               [] insn.op = "ret" -> [ended EXCEPT !.lastWrite = 0]
                               [] OTHER           -> answered
    BY DEF ShowInsn
  <1>2. /\ Shaped(q) /\ q.out = s.out /\ q.sb = Append(s.sb, tok) /\ q.svc = s.svc
        /\ q.svcLine = s.svcLine /\ q.lastWrite = 0
    BY DEF Show, Shaped
  <1> HIDE DEF q
  <1>3. /\ Shaped(line) /\ line.out = q.out /\ line.sb = q.sb /\ line.svc = q.svc
        /\ line.svcLine = q.svcLine
        /\ line.lastWrite = IF WritesRegs(insn.op) THEN n ELSE 0
        /\ line.pend.line = n /\ line.pend.cell = c
    BY <1>2 DEF Shaped
  <1> HIDE DEF line
  <1>4. IsSeq(s.out) /\ IsSeq(s.sb) /\ IsSeq(q.sb) /\ IsSeq(Text(s)) /\ Own(Text(s))
    BY <1>2, AppendFacts, CatFacts DEF Placed, Text
  <1>5. Text(line) = Append(Text(s), tok)
    <2>1. line.out = s.out /\ line.sb = Append(s.sb, tok)
      BY <1>2, <1>3
    <2>2. Text(line) = s.out \o Append(s.sb, tok)
      BY <2>1 DEF Text
    <2>3. QED
      BY <1>4, <2>2, AppendToText
  <1>6. Own(Text(line)) /\ LastLine(Text(line), n, hp[c]) /\ LastLineOf(Text(line), n)
    <2>1. Own(Text(line)) /\ LastLine(Text(line), n, hp[c])
      BY <1>4, <1>5, AppendLine
    <2>2. QED
      BY <2>1 DEF LastLine, LastLineOf
  <1>7. s.svc.type # "none" => s.svcLine = step /\ x0.by = step
    BY DEF Placed
  <1> HIDE DEF tok
  <1>8. /\ Shaped(answered) /\ answered.svc.type = "none" /\ Placed(answered, n, n, hp)
        /\ answered.lastWrite \in {0, line.lastWrite}
    BY <1>2, <1>3, <1>4, <1>6, <1>7, SvcFlushPlaced
  <1> HIDE DEF answered
  <1>9. answered.lastWrite # 0 => WritesRegs(insn.op)
    BY <1>3, <1>8
  <1>10. CASE insn.op = "svc"
    BY <1>1, <1>8, <1>10, SvcHandlePlaced DEF WritesRegs
  <1>11. CASE insn.op = "ret"
    <2> DEFINE r == [ended EXCEPT !.lastWrite = 0]
    <2>1. Fine(answered, ended) /\ Shaped(ended)
      BY <1>8, WriteSbFine DEF Placed, Fine
    <2> HIDE DEF ended
    <2>2. /\ Shaped(r) /\ Less(ended, r) /\ r.out = ended.out /\ r.sb = ended.sb
          /\ r.lastWrite = 0
      BY <2>1 DEF Shaped, Less
    <2>3. ShowInsn(s, c, hp) = r
      BY <1>1, <1>11
    <2> HIDE DEF r
    <2>4. Fine(ended, r)
      BY <2>2, SameText DEF Text
    <2>5. Fine(answered, r)
      BY <2>1, <2>4, FineTrans
    <2>6. QED
      BY <1>8, <2>2, <2>3, <2>5 DEF Fine, Less
  <1>12. CASE insn.op \notin {"svc", "ret"}
    BY <1>1, <1>8, <1>9, <1>12
  <1>13. QED
    BY <1>10, <1>11, <1>12

\* A branch into a stub cuts the line; what it writes then are whole lines.
LEMMA ToPltFine ==
  ASSUME NEW s, Shaped(s), IsSeq(s.out), IsSeq(s.sb)
  PROVE  Fine(s, ToPlt(s)) /\ ToPlt(s).lastWrite = 0 /\ ~Pending(ToPlt(s))
  <1> DEFINE cl == CutLine(s)
             cut == [cl EXCEPT !.pltSkip = TRUE]
             f == Got[insn.arg]
             tok == Tok("name", n, f)
             named == Write(cut, tok)
             jni == jni_on_call(cut, Next4(pc))
             emitted == EmitCall(cut, f)
             named2 == [named EXCEPT !.wrapRet = Next4(pc)]
             jni2 == [jni EXCEPT !.wrapRet = Next4(pc)]
             emitted2 == [emitted EXCEPT !.callRet = Next4(pc)]
  <1>1. ToPlt(s) \in {cut, named2, named, jni2, emitted2}
    BY DEF ToPlt
  <1>2. Fine(s, cl) /\ Shaped(cl) /\ cl.lastWrite = 0 /\ ~Pending(cl)
    BY CutFine DEF Fine
  <1>3. tok.t \notin Notes \cup {"insn"}
    BY DEF Tok, Notes
  <1> HIDE DEF cl, tok
  <1>4. /\ Shaped(cut) /\ Less(cl, cut) /\ cut.out = cl.out /\ cut.sb = cl.sb
        /\ cut.lastWrite = 0 /\ ~Pending(cut)
    BY <1>2 DEF Shaped, Less, Pending
  <1> HIDE DEF cut
  <1>5. Fine(s, cut)
    BY <1>2, <1>4, SameText, FineTrans DEF Text
  <1>6. Fine(cut, named) /\ Fine(cut, jni) /\ Fine(cut, emitted)
    BY <1>3, <1>4, WriteFine, JniOnCallFine, EmitCallFine
  <1> HIDE DEF named, jni, emitted
  <1>7. Shaped(named) /\ Shaped(jni) /\ Shaped(emitted)
    BY <1>6 DEF Fine
  <1>8. Shaped(named2) /\ Less(named, named2) /\ named2.out = named.out /\ named2.sb = named.sb
    BY <1>7 DEF Shaped, Less
  <1>9. Shaped(jni2) /\ Less(jni, jni2) /\ jni2.out = jni.out /\ jni2.sb = jni.sb
    BY <1>7 DEF Shaped, Less
  <1>10. /\ Shaped(emitted2) /\ Less(emitted, emitted2) /\ emitted2.out = emitted.out
         /\ emitted2.sb = emitted.sb
    BY <1>7 DEF Shaped, Less
  <1> HIDE DEF named2, jni2, emitted2
  <1>11. Fine(named, named2) /\ Fine(jni, jni2) /\ Fine(emitted, emitted2)
    BY <1>8, <1>9, <1>10, SameText DEF Text
  <1>12. Fine(cut, named2) /\ Fine(cut, jni2) /\ Fine(cut, emitted2)
    BY <1>6, <1>11, FineTrans
  <1>13. CASE ToPlt(s) = cut
    BY <1>4, <1>5, <1>13
  <1>14. CASE ToPlt(s) # cut
    <2>1. Fine(cut, ToPlt(s))
      BY <1>1, <1>6, <1>12, <1>14
    <2>. QED
      BY <1>4, <1>5, <2>1, FineTrans DEF Fine, Less, Pending
  <1>15. QED
    BY <1>13, <1>14

LEMMA BranchOutFine ==
  ASSUME NEW s, Shaped(s), IsSeq(s.out), IsSeq(s.sb)
  PROVE  LET r == BranchOut(s) IN
         /\ Fine(s, r)
         /\ \/ r = s /\ ~(insn.op \in {"bl", "b"} /\ insn.arg \in Plt)
                     /\ ~(insn.op \in {"blr", "br"} /\ insn.arg \notin Addrs)
            \/ r.lastWrite = 0 /\ ~Pending(r)
  <1>1. CASE insn.op \in {"bl", "b"} /\ insn.arg \in Plt
    <2>1. BranchOut(s) = ToPlt(s)
      BY <1>1 DEF BranchOut
    <2>2. QED
      BY <2>1, ToPltFine
  <1>2. CASE insn.op \in {"blr", "br"} /\ insn.arg \notin Addrs
    <2>1. BranchOut(s) = CutLine(s)
      BY <1>2 DEF BranchOut
    <2>2. QED
      BY <2>1, CutFine
  <1>3. CASE /\ ~(insn.op \in {"bl", "b"} /\ insn.arg \in Plt)
             /\ ~(insn.op \in {"blr", "br"} /\ insn.arg \notin Addrs)
    <2>1. BranchOut(s) = s
      BY <1>3 DEF BranchOut
    <2>2. Fine(s, s)
      BY SameText DEF Less
    <2>3. QED
      BY <1>3, <2>1, <2>2
  <1>4. QED
    BY <1>1, <1>2, <1>3

\* The annotations are in place, and whatever is owed is printed by the next
\* callback, for that is one of an instruction that is shown.
NInv ==
  /\ step \in Nat
  /\ Placed(t, step, x0.by, heap)
  /\ Owes(t) => pc \in Addrs /\ t.pltSkip = FALSE /\ t.wrapRet = 0

LEMMA InitNInv == Init => NInv
  <1>1. IsSeq(NewTraceInfo.out) /\ IsSeq(NewTraceInfo.sb) /\ ~Owes(NewTraceInfo)
    BY NothingIsSeq DEF NewTraceInfo, NoPend, NoCall, Owes, Pending
  <1>2. Text(NewTraceInfo) = <<>>
    BY DEF NewTraceInfo, Text
  <1>3. Own(<<>>)
    BY DEF Own
  <1>4. QED
    BY <1>1, <1>2, <1>3 DEF Init, NInv, Placed, Owes

LEMMA StubPlaces == IInv /\ NInv /\ StubInsn => NInv'
  <1> SUFFICES ASSUME IInv, NInv, StubInsn PROVE NInv'
    OBVIOUS
  <1>1. t.pltSkip /\ t' = jni_on_return(t) /\ UNCHANGED <<step, x0, heap>>
    BY DEF StubInsn, Skipping
  <1>2. ~Owes(t) /\ Shaped(t) /\ IsSeq(t.out) /\ IsSeq(t.sb) /\ Placed(t, step, x0.by, heap)
    BY <1>1 DEF NInv, IInv, Placed
  <1>3. Fine(t, t')
    BY <1>1, <1>2, JniOnReturnFine
  <1>4. QED
    BY <1>1, <1>2, <1>3 DEF NInv, Fine, Less, Owes, Pending

LEMMA WrapperPlaces == IInv /\ NInv /\ WrapperInsn => NInv'
  <1> SUFFICES ASSUME IInv, NInv, WrapperInsn PROVE NInv'
    OBVIOUS
  <1> DEFINE r == jni_on_return(t)
             s == [r EXCEPT !.pltSkip = FALSE]
  <1>1. /\ t.wrapRet # 0 /\ heap' = heap /\ step' = step + 1
        /\ \/ t' = s
           \/ \E a : t' = jni_on_call(s, a)
    BY DEF WrapperInsn, InWrapper, Execute, n
  <1>2. ~Owes(t) /\ Shaped(t) /\ IsSeq(t.out) /\ IsSeq(t.sb) /\ Placed(t, step, x0.by, heap)
    BY <1>1 DEF NInv, IInv, Placed
  <1>3. Fine(t, r) /\ Shaped(r)
    BY <1>2, JniOnReturnFine DEF Fine
  <1> HIDE DEF r
  <1>4. Shaped(s) /\ Less(r, s) /\ s.out = r.out /\ s.sb = r.sb
    BY <1>3 DEF Shaped, Less
  <1> HIDE DEF s
  <1>5. Fine(r, s)
    BY <1>4, SameText DEF Text
  <1>6. Fine(t, s)
    BY <1>3, <1>5, FineTrans
  <1>7. Fine(t, t')
    BY <1>1, <1>4, <1>6, JniOnCallFine, FineTrans
  <1>8. Placed(t', step, x0.by, heap) /\ ~Owes(t')
    BY <1>2, <1>7 DEF Fine, Less, Owes, Pending
  <1>9. Placed(t', step', x0'.by, heap')
    BY <1>8 DEF Placed, Owes
  <1>10. step' \in Nat
    BY <1>1 DEF NInv
  <1>11. QED
    BY <1>8, <1>9, <1>10 DEF NInv, Owes, Pending

\* Where control goes after an instruction that is shown and still owes something.
LEMMA GoesOn ==
  ASSUME IInv, pc \in Addrs, Execute,
         \/ Accesses(insn.op)
         \/ insn.op = "svc"
         \/ /\ WritesRegs(insn.op)
            /\ ~(insn.op = "blr" /\ insn.arg \notin Addrs)
  PROVE  pc' \in Addrs
  <1>1. code \in Programs
    BY DEF IInv
  <1>2. /\ insn.op \notin {"b", "br", "ret"} => pc + 1 \in Addrs
        /\ insn.op = "bl" => insn.arg \in Addrs
    BY <1>1, InsnAssumption DEF insn
  <1>3. CASE insn.op \in {"bl", "blr"}
    BY <1>2, <1>3 DEF Execute, Accesses
  <1>4. CASE insn.op \notin {"bl", "blr"}
    BY <1>2, <1>4 DEF Execute, Accesses, WritesRegs, Next4
  <1>5. QED
    BY <1>3, <1>4

LEMMA TracedPlaces == IInv /\ NInv /\ TracedInsn /\ ~LongLines => NInv'
  <1> SUFFICES ASSUME IInv, NInv, TracedInsn, ~LongLines PROVE NInv'
    OBVIOUS
  <1> DEFINE r  == jni_on_return(t)
             s  == [r EXCEPT !.pltSkip = FALSE, !.wrapRet = 0]
             ch == Fetched(pc)
             hp == HeapAfter(pc)
             c  == FrontCell(ch, pc)
             s1 == ReturnSeen(s)
             s2 == ShowWrites(s1)
             s3 == ShowAccess(s2, hp)
             shown == ShowInsn(s3, c, hp)
             s4 == [shown EXCEPT !.counter = IF Cleans THEN 0 ELSE @ + 1,
                                 !.sb = IF Cleans /\ LongLines THEN <<>> ELSE @]
  <1>1. /\ pc \in Addrs /\ Allocates(pc) /\ Execute
        /\ t' = BranchOut(s4)
        /\ cache' = IF Cleans THEN trimCold(ch) ELSE ch
        /\ heap'  = IF Cleans THEN cs_free(hp, ColdCells(ch)) ELSE hp
    BY DEF TracedInsn, InSo, printAssemble2
  <1>2. Shaped(t) /\ IsSeq(t.out) /\ IsSeq(t.sb) /\ Placed(t, step, x0.by, heap) /\ step \in Nat
    BY DEF NInv, IInv, Placed
  <1>3. Placed(t, step, x0.by, hp)
    <2>1. ASSUME Pending(t) PROVE hp[t.pend.cell] = heap[t.pend.cell]
      <3>1. /\ t.pend.addr \in Addrs /\ t.pend.cell # NoCell
            /\ Front1(cache, t.pend.addr).addr = t.pend.addr
            /\ Front1(cache, t.pend.addr).cell = t.pend.cell
        BY <2>1 DEF IInv, PendFront
      <3>2. heap[t.pend.cell] = t.pend.addr
        BY <3>1, HashInSets, CellsArePositive, GoodFacts DEF IInv, Front1
      <3>3. hp[t.pend.cell] = t.pend.addr
        BY <1>1, <3>1, FetchGood DEF IInv
      <3>4. QED
        BY <3>2, <3>3
    <2> HIDE DEF hp
    <2>2. QED
      BY <1>2, <2>1 DEF Placed
  <1>4. /\ Good(ch, hp) /\ Front1(ch, pc).addr = pc /\ Front1(ch, pc).cell # NoCell
    BY <1>1, FetchGood DEF IInv
  <1>5. Fine(t, r) /\ Shaped(r)
    BY <1>2, JniOnReturnFine DEF Fine
  <1> HIDE DEF r, ch, hp
  <1>6. /\ Shaped(s) /\ Less(r, s) /\ s.out = r.out /\ s.sb = r.sb
        /\ s.pltSkip = FALSE /\ s.wrapRet = 0
    BY <1>5 DEF Shaped, Less
  <1> HIDE DEF s
  <1>7. Placed(s, step, x0.by, hp)
    BY <1>3, <1>5, <1>6, SameText DEF Fine, Text
  <1>8. /\ Shaped(s1) /\ Placed(s1, step, x0.by, hp)
        /\ s1.pltSkip = FALSE /\ s1.wrapRet = 0
    BY <1>6, <1>7, ReturnSeenFine, ReturnSeenKept DEF Fine, Kept
  <1> HIDE DEF s1
  <1>9. /\ Shaped(s2) /\ s2.lastWrite = 0 /\ Placed(s2, step, x0.by, hp)
        /\ s2.pltSkip = FALSE /\ s2.wrapRet = 0
    BY <1>8, ShowWritesPlaced, ShowWritesKept DEF Kept
  <1> HIDE DEF s2
  <1>10. /\ Shaped(s3) /\ s3.lastWrite = 0 /\ Placed(s3, step, x0.by, hp)
         /\ s3.pltSkip = FALSE /\ s3.wrapRet = 0
    BY <1>9, ShowAccessPlaced, ShowAccessClears
  <1> HIDE DEF s3
  <1>11. /\ Shaped(shown) /\ Placed(shown, n, n, hp)
         /\ shown.lastWrite # 0 => WritesRegs(insn.op)
         /\ shown.svc.type # "none" => insn.op = "svc"
         /\ OwnAccess(shown, c)
    BY <1>2, <1>10, ShowInsnPlaced, ShowInsnOwn
  <1> HIDE DEF shown, c
  <1>12. /\ Shaped(s4) /\ Less(shown, s4) /\ s4.out = shown.out /\ s4.sb = shown.sb
         /\ s4.pend = shown.pend /\ s4.pltSkip = shown.pltSkip /\ s4.wrapRet = shown.wrapRet
    BY <1>11 DEF Shaped, Less
  <1> HIDE DEF s4
  <1>13. Placed(s4, n, n, hp) /\ OwnAccess(s4, c)
    BY <1>11, <1>12, SameText DEF Fine, Text, OwnAccess, Pending
  <1>14. /\ s4.lastWrite # 0 => WritesRegs(insn.op)
         /\ s4.svc.type # "none" => insn.op = "svc"
    BY <1>11, <1>12 DEF Less
  <1>15. /\ Fine(s4, t')
         /\ \/ t' = s4 /\ ~(insn.op \in {"bl", "b"} /\ insn.arg \in Plt)
                       /\ ~(insn.op \in {"blr", "br"} /\ insn.arg \notin Addrs)
            \/ t'.lastWrite = 0 /\ ~Pending(t')
    BY <1>1, <1>12, <1>13, BranchOutFine DEF Placed
  <1>16. step' = n /\ n \in Nat /\ (insn.op = "svc" => x0'.by = n)
    BY <1>1, <1>2 DEF Execute, System, n
  <1>17. Placed(t', step', x0'.by, heap')
    <2>1. Placed(t', n, n, hp) /\ Less(s4, t')
      BY <1>13, <1>15 DEF Fine
    <2>2. t'.svc.type # "none" => x0'.by = n
      BY <1>14, <1>16, <2>1 DEF Less
    <2>3. ASSUME Pending(t') PROVE heap'[t'.pend.cell] = hp[t'.pend.cell]
      <3>1. t'.pend.cell = c
        BY <1>13, <1>15, <2>3 DEF OwnAccess
      <3>2. Good(cache', heap') /\ Front1(cache', pc) = Front1(ch, pc)
        BY <1>1, <1>4, InsnAssumption, TrimGood, TrimKeepsFront
      <3>3. Front1(ch, pc).cell = c
        BY DEF c, FrontCell, Front1
      <3>4. hp[c] = pc /\ heap'[c] = pc
        BY <1>1, <1>4, <3>2, <3>3, HashInSets, CellsArePositive, GoodFacts DEF Front1
      <3>5. QED
        BY <3>1, <3>4
    <2>4. QED
      BY <1>16, <2>1, <2>2, <2>3 DEF Placed
  <1>18. ASSUME Owes(t') PROVE pc' \in Addrs /\ t'.pltSkip = FALSE /\ t'.wrapRet = 0
    <2>1. CASE t' = s4 /\ ~(insn.op \in {"blr", "br"} /\ insn.arg \notin Addrs)
      <3>1. \/ Accesses(insn.op)
            \/ insn.op = "svc"
            \/ WritesRegs(insn.op) /\ ~(insn.op = "blr" /\ insn.arg \notin Addrs)
        BY <1>13, <1>14, <1>18, <2>1 DEF Owes, OwnAccess
      <3>2. QED
        BY <1>1, <1>13, <2>1, <3>1, GoesOn DEF OwnAccess
    <2>2. CASE t'.lastWrite = 0 /\ ~Pending(t')
      <3>1. insn.op = "svc"
        BY <1>14, <1>15, <1>18, <2>2 DEF Owes, Fine, Less
      <3>2. t' = s4
        BY <1>1, <3>1 DEF BranchOut
      <3>3. QED
        BY <1>1, <1>13, <3>1, <3>2, GoesOn DEF OwnAccess
    <2>3. QED
      BY <1>15, <2>1, <2>2
  <1>19. QED
    BY <1>16, <1>17, <1>18 DEF NInv, Owes, Pending

\* Outside the SO and between two runs nothing is owed; a new run drops what is
\* in the string builder.
LEMMA OutsidePlaces == IInv /\ NInv /\ (HostCall \/ Call \/ Done \/ UNCHANGED vars) => NInv'
  <1> SUFFICES ASSUME IInv, NInv PROVE (HostCall \/ Call \/ Done \/ UNCHANGED vars) => NInv'
    OBVIOUS
  <1>1. ASSUME HostCall PROVE NInv'
    <2>1. ~Owes(t) /\ UNCHANGED <<step, t, heap>>
      BY <1>1 DEF HostCall, InSo, NInv
    <2>2. QED
      BY <2>1 DEF NInv, Placed, Owes, Pending
  <1>2. ASSUME Call PROVE NInv'
    <2>1. /\ ~Owes(t) /\ UNCHANGED <<step, x0, heap>>
          /\ t' = [t EXCEPT !.sb = <<>>]
      BY <1>2, CellsArePositive DEF Call, NInv
    <2>2. IsSeq(t.out) /\ IsSeq(t.sb) /\ Own(Text(t)) /\ Shaped(t)
      BY DEF NInv, IInv, Placed
    <2>3. t'.out = t.out /\ t'.sb = <<>> /\ ~Owes(t')
      BY <2>1, <2>2 DEF Shaped, Owes, Pending
    <2>4. Text(t') = t.out
      BY <2>2, <2>3, CatEmpty DEF Text
    <2>5. Own(Text(t'))
      BY <2>2, <2>4, PrefixOwn DEF Text
    <2>6. QED
      BY <2>1, <2>2, <2>3, <2>5, NothingIsSeq DEF NInv, Placed, Owes, Text, Pending
  <1>3. ASSUME Done \/ UNCHANGED vars PROVE NInv'
    BY <1>3 DEF Done, vars, guestVars, NInv, Placed, Owes, Pending, Text
  <1>4. QED
    BY <1>1, <1>2, <1>3

LEMMA OthersPlace == ASSUME ~Shared, NInv, OtherInsn \/ OtherFreeTrace PROVE NInv'
  <1>1. ~Owes(t) /\ UNCHANGED <<step, x0, pc, t>>
    BY CellsArePositive DEF OtherInsn, OtherFreeTrace, guestVars, NInv
  <1>2. QED
    BY <1>1 DEF NInv, Placed, Owes, Pending, Text

LEMMA NextPlaces == ASSUME ~Shared, ~LongLines, IInv, NInv, [Next]_vars PROVE NInv'
  BY StubPlaces, WrapperPlaces, TracedPlaces, OutsidePlaces, OthersPlace DEF Next

\* The last line before a token is unique, so LineOf finds it.
LEMMA NInvImplies == NInv => AnnotationsOfOwnLine
  <1> SUFFICES ASSUME NInv, NEW i \in 1 .. Len(Trace), Trace[i].t \in Notes
               PROVE  Agrees(Trace[LineOf(i)], Trace[i])
    BY DEF AnnotationsOfOwnLine, Agrees, Notes
  <1>1. Own(Trace) /\ IsSeq(Trace)
    BY CatFacts DEF NInv, Placed, Text, Trace
  <1>2. PICK j \in 1 .. Len(Trace) : OnLine(Trace, j, i) /\ Agrees(Trace[j], Trace[i])
    BY <1>1 DEF Own
  <1> DEFINE heads == {l \in 1 .. i : Trace[l].t = "insn"}
  <1>3. Len(Trace) \in Nat
    BY <1>1, SeqFacts
  <1>4. j \in heads /\ \A l \in heads : l <= j
    BY <1>2, <1>3 DEF OnLine
  <1>5. \A l \in heads : (\A k \in heads : k <= l) => l = j
    BY <1>3, <1>4
  <1>6. LineOf(i) = j
    BY <1>4, <1>5 DEF LineOf
  <1>7. QED
    BY <1>2, <1>6

\* With one thread tracing at a time and no line long enough for the clean-up of
\* trace_code to drop it, whatever is printed a callback late in EastTrace.cpp and
\* svc_handler.cpp stands where it belongs: registers and memory access on the line
\* of the instruction they are of, read before anything else has changed them, the
\* answer of a system call on the line after its own. For every program, every
\* way through stubs, wrappers and JNI functions, and any number of runs.
THEOREM AnnotationsOfOwnLineAlways ==
  ASSUME ~Shared, ~LongLines
  PROVE  Spec => []AnnotationsOfOwnLine
  <1>1. Init => IInv /\ NInv
    BY InitIInv, InitNInv
  <1>2. (IInv /\ NInv) /\ [Next]_vars => (IInv /\ NInv)'
    BY NextKeeps, NextPlaces
  <1>3. IInv /\ NInv => AnnotationsOfOwnLine
    BY NInvImplies
  <1>4. QED
    BY <1>1, <1>2, <1>3, PTL DEF Spec


=============================================================================
