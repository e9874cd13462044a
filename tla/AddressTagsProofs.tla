------------------------- MODULE AddressTagsProofs -------------------------
(***************************************************************************)
(* Theorems about AddressTags, for any number of threads, segments,        *)
(* libraries and layouts: no copy of the memory map hides a change of it   *)
(* from an annotation, but for one that could not be renewed.              *)
(***************************************************************************)
EXTENDS AddressTags, TLAPS

Copies == Layouts \cup {Empty}
Asked == {"tag", "ptr", "call", "module"}
Points == {"idle", "lock", "rebuild", "find", "table", "tag", "demangle", "shown"}

TypeOK ==
  /\ Now \in Layouts /\ recent \subseteq Layouts /\ left \subseteq Copies
  /\ version \in Nat /\ gen \in Nat /\ built_gen \in Int
  /\ regions \in Copies /\ libs \in Copies
  /\ lock \in Threads \cup {"free"}
  /\ DOMAIN tl = Threads
  /\ \A t \in Threads : tl[t] = [gen |-> tl[t].gen, region |-> tl[t].region, tbl |-> tl[t].tbl]
  /\ \A t \in Threads : tl[t].gen \in Int
  /\ pc \in [Threads -> Points]
  /\ DOMAIN req = Threads
  /\ \A t \in Threads :
       req[t] \in [kind : Asked, addr : Addresses, gen : Int, since : SUBSET Copies] \cup {NoReq}
  /\ DOMAIN ans = Threads
  /\ \A t \in Threads : ans[t] = [region |-> ans[t].region, name |-> ans[t].name]
  /\ DOMAIN ptr = Threads

\* The engine's generation stands for the maps in "recent", which Known adds to.
Generations ==
  /\ Now \in recent
  /\ gen <= version /\ built_gen <= gen
  /\ \A t \in Threads : tl[t].gen <= gen /\ req[t].gen <= gen

\* The lock keeps the shared table to its holder.
Locked == \A t \in Threads : pc[t] \in {"rebuild", "find"} <=> lock = t

\* The table of the current generation is a map known in it.
TableRecent ==
  built_gen = gen /\ (\A t \in Threads : pc[t] # "rebuild") => regions \in Known

\* So is the one which a thread's last hit of the current generation is of.
HitsRecent ==
  \A t \in Threads :
    tl[t].gen = gen /\ tl[t].region # NoRegion =>
      \E m \in Known, a \in Addresses :
        m[SegOf(a)] # NoMap /\ tl[t].region = Region(m, SegOf(a))

\* What a lookup under way may answer, and what it has so far.
Under(t) == pc[t] # "idle"
Windows ==
  \A t \in Threads : Under(t) =>
    /\ req[t] # NoReq /\ Now \in req[t].since
    /\ req[t].kind \in {"tag", "ptr"} =>
         /\ Known \subseteq req[t].since
         /\ req[t].gen = gen => req[t].since \subseteq Known
    /\ pc[t] \in {"lock", "rebuild", "find"} => req[t].kind \in {"tag", "ptr"}
    /\ pc[t] = "find" => regions \in req[t].since
    /\ pc[t] \in {"table", "tag"} =>
         /\ req[t].kind = "tag"
         /\ \E m \in req[t].since : tl[t].region = Region(m, SegOf(req[t].addr))
    /\ pc[t] = "demangle" =>
         /\ req[t].kind = "call"
         /\ \E m \in req[t].since : ans[t].region = Region(m, SegOf(req[t].addr))
Idle == \A t \in Threads : pc[t] = "idle" => req[t] = NoReq

IInv ==
  /\ TypeOK /\ Generations /\ Locked /\ TableRecent /\ HitsRecent
  /\ Windows /\ Idle

-----------------------------------------------------------------------------

\* An address lies in some segment.
LEMMA SegOfIn == ASSUME NEW a \in Addresses PROVE SegOf(a) \in Segs
<1>1. PICK s \in Segs : a \in Segment(s)
  BY DEF Addresses
<1>. QED
  BY <1>1 DEF SegOf

\* What is known of the map are copies of it.
LEMMA KnownTyped == IInv => Known \in SUBSET Copies
  BY DEF IInv, TypeOK, Known, Copies

\* A hit of the current generation is a region of a known map.
LEMMA HitIsRecent ==
  ASSUME IInv, NEW t \in Threads, NEW a \in Addresses, Hit(t, a)
  PROVE  \E m \in Known : tl[t].region = Region(m, SegOf(a))
<1>1. tl[t].region.seg \in Segs /\ tl[t].region # NoRegion
  BY SegOfIn, TagsAssumption DEF Hit, NoRegion
<1>2. PICK m \in Known, b \in Addresses :
        m[SegOf(b)] # NoMap /\ tl[t].region = Region(m, SegOf(b))
  BY <1>1 DEF IInv, HitsRecent, Hit
<1>3. tl[t].region.seg = SegOf(b)
  BY <1>2 DEF Region
<1>. QED
  BY <1>2, <1>3 DEF Hit

\* The invariant holds initially.
LEMMA InitIInv == Init => IInv /\ RegionsTrue
<1>. SUFFICES ASSUME Init PROVE IInv /\ RegionsTrue
  OBVIOUS
<1>1. TypeOK
  BY DEF Init, TypeOK, Copies, NoHit, NoReq, NoAns, Points
<1>2. Generations /\ Locked /\ Idle
  BY TagsAssumption DEF Init, Generations, Locked, Idle, NoHit, NoReq
<1>3. TableRecent /\ HitsRecent /\ Windows /\ RegionsTrue
  BY DEF Init, TableRecent, HitsRecent, Windows, Under, RegionsTrue, NoHit
<1>. QED
  BY <1>1, <1>2, <1>3 DEF IInv

\* The map changes: the windows open to the new one.
LEMMA RemapStep == IInv /\ Remap => IInv' /\ (RegionsTrue => RegionsTrue')
<1>. SUFFICES ASSUME IInv, Remap PROVE IInv' /\ (RegionsTrue => RegionsTrue')
  OBVIOUS
<1>. USE DEF IInv, Remap, shared, tables
<1>1. PICK new \in Layouts :
        /\ Now' = new /\ recent' = recent \cup {new}
        /\ req' = [t \in Threads |-> IF req[t] = NoReq THEN NoReq
                                     ELSE [req[t] EXCEPT !.since = @ \cup {new}]]
  OBVIOUS
<1>2. \A t \in Threads :
        \/ req[t] = NoReq /\ req'[t] = NoReq
        \/ /\ req[t] # NoReq /\ req'[t] # NoReq
           /\ req'[t].kind = req[t].kind /\ req'[t].addr = req[t].addr
           /\ req'[t].gen = req[t].gen /\ req'[t].since = req[t].since \cup {new}
           /\ req'[t] \in [kind : Asked, addr : Addresses, gen : Int, since : SUBSET Copies]
  <2>1. new \in Copies
    BY DEF Copies
  <2>. QED
    BY <1>1, <2>1 DEF TypeOK, NoReq, Asked
<1>3. TypeOK'
  BY <1>1, <1>2, SMTT(60) DEF TypeOK
<1>4. Generations'
  BY <1>1, <1>2 DEF Generations, TypeOK
<1>5. Locked' /\ Idle'
  BY <1>2 DEF Locked, Idle
<1>6. TableRecent' /\ HitsRecent'
  BY <1>1 DEF TableRecent, HitsRecent, Known
<1>7. Windows'
  BY <1>1, <1>2 DEF Windows, Under, Known
<1>8. RegionsTrue => RegionsTrue'
  BY <1>1, <1>2 DEF RegionsTrue, Windows, Under
<1>. QED
  BY <1>3, <1>4, <1>5, <1>6, <1>7, <1>8

\* The engine notices: every copy is of an earlier generation until it is renewed.
LEMMA NoticeStep == IInv /\ Notice => IInv' /\ (RegionsTrue => RegionsTrue')
<1>. SUFFICES ASSUME IInv, Notice PROVE IInv' /\ (RegionsTrue => RegionsTrue')
  OBVIOUS
<1>. USE DEF IInv, Notice, shared, tables, local
<1>1. TypeOK'
  BY DEF TypeOK
<1>2. Generations'
  <2>1. version \in Int /\ gen \in Int /\ built_gen \in Int
    BY DEF TypeOK
  <2>2. \A t \in Threads : tl[t].gen \in Int /\ req[t].gen \in Int
    BY DEF TypeOK, NoReq
  <2>. QED
    BY <2>1, <2>2 DEF Generations
<1>6. Locked' /\ Idle'
  BY DEF Locked, Idle
<1>3. TableRecent' /\ HitsRecent'
  BY DEF TableRecent, HitsRecent, Known, Generations, TypeOK
<1>4. Windows'
  BY DEF Windows, Under, Known, Generations, TypeOK
<1>5. RegionsTrue => RegionsTrue'
  BY DEF RegionsTrue
<1>. QED
  BY <1>1, <1>2, <1>6, <1>3, <1>4, <1>5

\* A new lookup, whatever its kind, opens its window at the present map.
LEMMA AskStep ==
  ASSUME IInv, NEW t \in Threads, NEW kind \in Asked, NEW a \in Addresses,
         NEW since \in SUBSET Copies, Ask(t, kind, a, since)
  PROVE  /\ DOMAIN req' = Threads
         /\ \A u \in Threads : u # t => req'[u] = req[u]
         /\ req'[t] = [kind |-> kind, addr |-> a, gen |-> gen, since |-> since]
         /\ req'[t] \in [kind : Asked, addr : Addresses, gen : Int, since : SUBSET Copies]
         /\ req'[t] # NoReq
  BY DEF Ask, IInv, TypeOK, NoReq, Asked

\* appendRegionTag begins, with the last hit or without.
LEMMA BeginTagStep ==
  ASSUME IInv, NEW t \in Threads, NEW a \in Addresses, BeginTag(t, a)
  PROVE  IInv' /\ (RegionsTrue => RegionsTrue')
<1>. USE DEF IInv, BeginTag, maps, shared, tables
<1>1. /\ DOMAIN req' = Threads
      /\ \A u \in Threads : u # t => req'[u] = req[u]
      /\ req'[t] = [kind |-> "tag", addr |-> a, gen |-> gen, since |-> Known]
      /\ req'[t] \in [kind : Asked, addr : Addresses, gen : Int, since : SUBSET Copies]
      /\ req'[t] # NoReq
  BY KnownTyped, AskStep DEF Asked
<1>2. pc[t] = "idle" /\ pc' \in [Threads -> Points]
      /\ pc'[t] = (IF Hit(t, a) THEN "tag" ELSE "lock")
      /\ \A u \in Threads : u # t => pc'[u] = pc[u]
  BY DEF TypeOK, Ask, Points
<1>3. TypeOK'
  BY <1>1, <1>2 DEF TypeOK
<1>4. Generations' /\ Locked' /\ Idle'
  BY <1>1, <1>2 DEF Generations, Locked, Idle, TypeOK
<1>5. TableRecent' /\ HitsRecent'
  BY <1>2 DEF TableRecent, HitsRecent, Known
<1>6. Windows'
  <2>1. Hit(t, a) => \E m \in Known : tl[t].region = Region(m, SegOf(a))
    BY HitIsRecent
  <2>. QED
    BY <1>1, <1>2, <2>1 DEF Windows, Under, Known, Generations
<1>7. RegionsTrue => RegionsTrue'
  BY <1>1, <1>2 DEF RegionsTrue
<1>. QED
  BY <1>3, <1>4, <1>5, <1>6, <1>7

\* appendPtrAnnotation begins.
LEMMA BeginPtrStep ==
  ASSUME IInv, NEW t \in Threads, NEW a \in Addresses, BeginPtr(t, a)
  PROVE  IInv' /\ (RegionsTrue => RegionsTrue')
<1>. USE DEF IInv, BeginPtr, maps, shared, tables
<1>1. /\ DOMAIN req' = Threads
      /\ \A u \in Threads : u # t => req'[u] = req[u]
      /\ req'[t] = [kind |-> "ptr", addr |-> a, gen |-> gen, since |-> Known]
      /\ req'[t] \in [kind : Asked, addr : Addresses, gen : Int, since : SUBSET Copies]
      /\ req'[t] # NoReq
  BY KnownTyped, AskStep DEF Asked
<1>2. pc[t] = "idle" /\ pc' \in [Threads -> Points]
      /\ pc'[t] = "lock" /\ \A u \in Threads : u # t => pc'[u] = pc[u]
  BY DEF TypeOK, Ask, Points
<1>3. TypeOK'
  BY <1>1, <1>2 DEF TypeOK
<1>4. Generations' /\ Locked' /\ Idle'
  BY <1>1, <1>2 DEF Generations, Locked, Idle, TypeOK
<1>5. TableRecent' /\ HitsRecent'
  BY <1>2 DEF TableRecent, HitsRecent, Known
<1>6. Windows'
  BY <1>1, <1>2 DEF Windows, Under, Known, Generations
<1>7. RegionsTrue => RegionsTrue'
  BY <1>1, <1>2 DEF RegionsTrue
<1>. QED
  BY <1>3, <1>4, <1>5, <1>6, <1>7

\* The generation is read under the lock.
LEMMA LockStep ==
  ASSUME IInv, NEW t \in Threads, LockRegions(t) PROVE IInv' /\ (RegionsTrue => RegionsTrue')
<1>. USE DEF IInv, LockRegions, maps, tables
<1>1. pc' \in [Threads -> Points]
      /\ pc'[t] = (IF Stale THEN "rebuild" ELSE "find")
      /\ \A u \in Threads : u # t => pc'[u] = pc[u]
  BY DEF TypeOK, Points
<1>2. \A u \in Threads : pc[u] \notin {"rebuild", "find"}
  BY TagsAssumption DEF Locked
<1>3. TypeOK'
  BY <1>1 DEF TypeOK
<1>4. Generations' /\ Locked' /\ Idle'
  BY <1>1, <1>2, TagsAssumption DEF Generations, Locked, Idle, TypeOK
<1>5. TableRecent' /\ HitsRecent'
  BY <1>1, <1>2 DEF TableRecent, HitsRecent, Known, Stale
<1>6. ~Stale => regions \in Known
  BY <1>2 DEF Stale, TableRecent
<1>7. Windows'
  BY <1>1, <1>6 DEF Windows, Under, Known
<1>8. RegionsTrue => RegionsTrue'
  BY <1>1 DEF RegionsTrue
<1>. QED
  BY <1>3, <1>4, <1>5, <1>7, <1>8

\* The table is made from the present map.
LEMMA RebuildStep ==
  ASSUME IInv, NEW t \in Threads, rebuildPtrRegions(t)
  PROVE  IInv' /\ (RegionsTrue => RegionsTrue')
<1>. USE DEF IInv, rebuildPtrRegions, maps, tables
<1>1. pc' \in [Threads -> Points]
      /\ pc'[t] = "find" /\ \A u \in Threads : u # t => pc'[u] = pc[u]
  BY DEF TypeOK, Points
<1>2. lock = t /\ \A u \in Threads : u # t => pc[u] \notin {"rebuild", "find"}
  BY DEF Locked
<1>3. TypeOK'
  BY <1>1 DEF TypeOK, Copies
<1>4. Generations' /\ Locked' /\ Idle'
  BY <1>1, <1>2 DEF Generations, Locked, Idle, TypeOK
<1>5. TableRecent' /\ HitsRecent'
  BY <1>1 DEF TableRecent, HitsRecent, Known, Generations
<1>6. Windows'
  BY <1>1, <1>2 DEF Windows, Under, Known
<1>7. RegionsTrue => RegionsTrue'
  BY <1>1 DEF RegionsTrue
<1>. QED
  BY <1>3, <1>4, <1>5, <1>6, <1>7

\* The map cannot be read: the windows open to the table that is left.
LEMMA UnreadStep ==
  ASSUME IInv, NEW t \in Threads, rebuildUnread(t)
  PROVE  IInv' /\ (RegionsTrue => RegionsTrue')
<1>. USE DEF IInv, rebuildUnread, tables, shared
<1>1. pc' \in [Threads -> Points]
      /\ pc'[t] = "find" /\ \A u \in Threads : u # t => pc'[u] = pc[u]
  BY DEF TypeOK, Points
<1>2. lock = t /\ \A u \in Threads : u # t => pc[u] \notin {"rebuild", "find"}
  BY DEF Locked
<1>3. DOMAIN req' = Threads /\ regions \in Copies /\ Known' = Known \cup {regions}
  BY DEF TypeOK, Known
<1>4. \A u \in Threads :
        IF req[u].kind \in {"tag", "ptr"}
        THEN /\ req'[u] = [req[u] EXCEPT !.since = @ \cup {regions}]
             /\ req[u] # NoReq
        ELSE req'[u] = req[u]
  BY DEF TypeOK, NoReq
<1>5. \A u \in Threads :
        \/ req'[u] = req[u] /\ req[u].kind \notin {"tag", "ptr"}
        \/ /\ req[u] # NoReq /\ req'[u] # NoReq
           /\ req'[u].kind = req[u].kind /\ req'[u].addr = req[u].addr
           /\ req'[u].gen = req[u].gen /\ req'[u].since = req[u].since \cup {regions}
           /\ req'[u] \in [kind : Asked, addr : Addresses, gen : Int, since : SUBSET Copies]
  BY <1>3, <1>4 DEF TypeOK, NoReq, Asked
<1>6. TypeOK'
  BY <1>1, <1>3, <1>5, SMTT(60) DEF TypeOK
<1>7. Generations' /\ Locked' /\ Idle'
  BY <1>1, <1>2, <1>5 DEF Generations, Locked, Idle, TypeOK
<1>8. TableRecent' /\ HitsRecent'
  BY <1>1, <1>3 DEF TableRecent, HitsRecent
<1>9. Windows'
  BY <1>1, <1>2, <1>3, <1>5 DEF Windows, Under
<1>10. RegionsTrue => RegionsTrue'
  BY <1>1, <1>5 DEF RegionsTrue
<1>. QED
  BY <1>6, <1>7, <1>8, <1>9, <1>10

\* The region found becomes the last hit, or the answer.
LEMMA FindStep ==
  ASSUME IInv, NEW t \in Threads, findPtrRegion(t)
  PROVE  IInv' /\ (RegionsTrue => RegionsTrue')
<1>. USE DEF IInv, findPtrRegion, maps, tables
<1>. DEFINE r == Region(regions, SegOf(req[t].addr))
            tagged == req[t].kind = "tag" /\ r # NoRegion
<1>1. pc' \in [Threads -> Points]
      /\ pc'[t] = (IF tagged THEN "table" ELSE "shown")
      /\ \A u \in Threads : u # t => pc'[u] = pc[u]
  BY DEF TypeOK, Points
<1>2. /\ lock = t /\ \A u \in Threads : u # t => pc[u] \notin {"rebuild", "find"}
      /\ req[t].addr \in Addresses /\ req[t].kind \in {"tag", "ptr"}
      /\ regions \in req[t].since
  BY DEF Locked, Windows, Under, TypeOK
<1>3. /\ DOMAIN tl' = Threads /\ \A u \in Threads : u # t => tl'[u] = tl[u]
      /\ tagged => tl'[t] = [gen |-> req[t].gen, region |-> r, tbl |-> tl[t].tbl]
      /\ ~tagged => tl'[t] = tl[t]
  BY DEF TypeOK
<1>4. /\ DOMAIN ans' = Threads /\ \A u \in Threads : u # t => ans'[u] = ans[u]
      /\ tagged => ans'[t] = ans[t]
      /\ ~tagged => ans'[t] = [region |-> r, name |-> ans[t].name]
  BY DEF TypeOK
<1>5. TypeOK'
  BY <1>1, <1>2, <1>3, <1>4 DEF TypeOK, Windows, Under
<1>6. Generations' /\ Locked' /\ Idle'
  BY <1>1, <1>2, <1>3, TagsAssumption DEF Generations, Locked, Idle, TypeOK
<1>7. TableRecent'
  BY <1>1, <1>2 DEF TableRecent, Known
<1>8. HitsRecent'
  <2>1. tagged /\ req[t].gen = gen => regions \in Known /\ regions[SegOf(req[t].addr)] # NoMap
    BY <1>2 DEF Windows, Under, Known, Region
  <2>. QED
    BY <1>2, <1>3, <2>1 DEF HitsRecent, Known
<1>9. Windows'
  BY <1>1, <1>2, <1>3, <1>4 DEF Windows, Under, Known
<1>10. RegionsTrue => RegionsTrue'
  BY <1>1, <1>2, <1>4 DEF RegionsTrue
<1>. QED
  BY <1>5, <1>6, <1>7, <1>8, <1>9, <1>10

\* The symbol table leaves the region of the last hit alone.
LEMMA TableStep ==
  ASSUME IInv, NEW t \in Threads, TableOfHit(t) PROVE IInv' /\ (RegionsTrue => RegionsTrue')
<1>. USE DEF IInv, TableOfHit, maps, shared
<1>1. pc' \in [Threads -> Points]
      /\ pc'[t] = "tag" /\ \A u \in Threads : u # t => pc'[u] = pc[u]
  BY DEF TypeOK, Points
<1>2. PICK c : tl' = [tl EXCEPT ![t].tbl = c]
  OBVIOUS
<1>3. /\ DOMAIN tl' = Threads /\ \A u \in Threads : u # t => tl'[u] = tl[u]
      /\ tl'[t] = [gen |-> tl[t].gen, region |-> tl[t].region, tbl |-> c]
  BY <1>2 DEF TypeOK
<1>4. TypeOK'
  <2>1. \A u \in Threads :
          tl'[u] = [gen |-> tl'[u].gen, region |-> tl'[u].region, tbl |-> tl'[u].tbl]
    BY <1>3 DEF TypeOK
  <2>2. \A u \in Threads : tl'[u].gen \in Int
    BY <1>3 DEF TypeOK
  <2>. QED
    BY <1>1, <1>3, <2>1, <2>2 DEF TypeOK
<1>5. Generations' /\ Locked' /\ Idle'
  BY <1>1, <1>3 DEF Generations, Locked, Idle
<1>6. TableRecent' /\ HitsRecent'
  BY <1>1, <1>3 DEF TableRecent, HitsRecent, Known
<1>7. Windows'
  BY <1>1, <1>3 DEF Windows, Under, Known
<1>8. RegionsTrue => RegionsTrue'
  BY <1>1 DEF RegionsTrue
<1>. QED
  BY <1>4, <1>5, <1>6, <1>7, <1>8

\* The tag shows the region of the last hit.
LEMMA AppendStep ==
  ASSUME IInv, NEW t \in Threads, AppendTag(t) PROVE IInv' /\ (RegionsTrue => RegionsTrue')
<1>. USE DEF IInv, AppendTag, maps, shared, tables
<1>1. pc' \in [Threads -> Points]
      /\ pc'[t] = "shown" /\ \A u \in Threads : u # t => pc'[u] = pc[u]
  BY DEF TypeOK, Points
<1>2. PICK name : ans' = [ans EXCEPT ![t] = [region |-> tl[t].region, name |-> name]]
  OBVIOUS
<1>3. /\ DOMAIN ans' = Threads /\ \A u \in Threads : u # t => ans'[u] = ans[u]
      /\ ans'[t] = [region |-> tl[t].region, name |-> name]
  BY <1>2 DEF TypeOK
<1>4. TypeOK'
  BY <1>1, <1>3 DEF TypeOK
<1>5. Generations' /\ Locked' /\ Idle'
  BY <1>1 DEF Generations, Locked, Idle
<1>6. TableRecent' /\ HitsRecent'
  BY <1>1 DEF TableRecent, HitsRecent, Known
<1>7. Windows'
  BY <1>1, <1>3 DEF Windows, Under, Known
<1>8. RegionsTrue => RegionsTrue'
  BY <1>1, <1>3 DEF RegionsTrue, Windows, Under
<1>. QED
  BY <1>4, <1>5, <1>6, <1>7, <1>8

\* dladdr() reads the present map.
LEMMA CallStep ==
  ASSUME IInv, NEW t \in Threads, NEW a \in Addresses, lookupSymbolExact(t, a)
  PROVE  IInv' /\ (RegionsTrue => RegionsTrue')
<1>0. Ask(t, "call", a, {Now}) /\ "call" \in Asked /\ {Now} \in SUBSET Copies
  BY DEF lookupSymbolExact, IInv, TypeOK, Asked, Copies
<1>1. /\ DOMAIN req' = Threads
      /\ \A u \in Threads : u # t => req'[u] = req[u]
      /\ req'[t] = [kind |-> "call", addr |-> a, gen |-> gen, since |-> {Now}]
      /\ req'[t] \in [kind : Asked, addr : Addresses, gen : Int, since : SUBSET Copies]
      /\ req'[t] # NoReq
  BY <1>0, AskStep
<1>. USE DEF IInv, lookupSymbolExact, maps, shared
<1>2. pc[t] = "idle" /\ pc' \in [Threads -> Points]
      /\ pc'[t] = "demangle" /\ \A u \in Threads : u # t => pc'[u] = pc[u]
  BY DEF TypeOK, Ask, Points
<1>3. /\ DOMAIN ans' = Threads /\ \A u \in Threads : u # t => ans'[u] = ans[u]
      /\ ans'[t] = [region |-> Region(Now, SegOf(a)), name |-> ans[t].name]
  BY DEF TypeOK
<1>4. TypeOK'
  BY <1>1, <1>2, <1>3 DEF TypeOK
<1>5. Generations' /\ Locked' /\ Idle'
  BY <1>1, <1>2 DEF Generations, Locked, Idle, TypeOK
<1>6. TableRecent' /\ HitsRecent'
  BY <1>2 DEF TableRecent, HitsRecent, Known
<1>7. Windows'
  BY <1>1, <1>2, <1>3 DEF Windows, Under, Known
<1>8. RegionsTrue => RegionsTrue'
  BY <1>1, <1>2, <1>3 DEF RegionsTrue
<1>. QED
  BY <1>4, <1>5, <1>6, <1>7, <1>8

\* A demangled name leaves the region alone.
LEMMA DemangleStep ==
  ASSUME IInv, NEW t \in Threads, demangleSymbol(t)
  PROVE  IInv' /\ (RegionsTrue => RegionsTrue')
<1>. USE DEF IInv, demangleSymbol, maps, shared
<1>1. pc' \in [Threads -> Points]
      /\ pc'[t] = "shown" /\ \A u \in Threads : u # t => pc'[u] = pc[u]
  BY DEF TypeOK, Points
<1>2. /\ DOMAIN ans' = Threads /\ \A u \in Threads : u # t => ans'[u] = ans[u]
      /\ ans'[t] = [region |-> ans[t].region, name |-> ans'[t].name]
  BY DEF TypeOK
<1>3. TypeOK'
  BY <1>1, <1>2 DEF TypeOK
<1>4. Generations' /\ Locked' /\ Idle'
  BY <1>1 DEF Generations, Locked, Idle
<1>5. TableRecent' /\ HitsRecent'
  BY <1>1 DEF TableRecent, HitsRecent, Known
<1>6. Windows'
  BY <1>1, <1>2 DEF Windows, Under, Known
<1>7. RegionsTrue => RegionsTrue'
  BY <1>1, <1>2 DEF RegionsTrue, Windows, Under
<1>. QED
  BY <1>3, <1>4, <1>5, <1>6, <1>7

\* The list of libraries is asked for modules only.
LEMMA ModuleStep ==
  ASSUME IInv, NEW t \in Threads, NEW a \in Addresses,
         findModuleByAddressExact(t, a)
  PROVE  IInv' /\ (RegionsTrue => RegionsTrue')
<1>0. Ask(t, "module", a, {Now}) /\ "module" \in Asked /\ {Now} \in SUBSET Copies
  BY DEF findModuleByAddressExact, IInv, TypeOK, Asked, Copies
<1>1. /\ DOMAIN req' = Threads
      /\ \A u \in Threads : u # t => req'[u] = req[u]
      /\ req'[t] = [kind |-> "module", addr |-> a, gen |-> gen, since |-> {Now}]
      /\ req'[t] \in [kind : Asked, addr : Addresses, gen : Int, since : SUBSET Copies]
      /\ req'[t] # NoReq
  BY <1>0, AskStep
<1>. USE DEF IInv, findModuleByAddressExact, maps, tables
<1>2. pc[t] = "idle" /\ pc' \in [Threads -> Points]
      /\ pc'[t] = "shown" /\ \A u \in Threads : u # t => pc'[u] = pc[u]
  BY DEF TypeOK, Ask, Points
<1>3. /\ DOMAIN ans' = Threads /\ \A u \in Threads : u # t => ans'[u] = ans[u]
      /\ ans'[t] = [region |-> ans'[t].region, name |-> ans[t].name]
  BY DEF TypeOK
<1>5. libs' \in Copies
  BY DEF TypeOK, Copies
<1>6. TypeOK'
  BY <1>1, <1>2, <1>3, <1>5 DEF TypeOK
<1>7. Generations' /\ Locked' /\ Idle'
  BY <1>1, <1>2 DEF Generations, Locked, Idle, TypeOK
<1>8. TableRecent' /\ HitsRecent'
  BY <1>2 DEF TableRecent, HitsRecent, Known
<1>9. Windows'
  BY <1>1, <1>2, <1>3 DEF Windows, Under, Known
<1>10. RegionsTrue => RegionsTrue'
  BY <1>1, <1>2, <1>3 DEF RegionsTrue
<1>. QED
  BY <1>6, <1>7, <1>8, <1>9, <1>10

\* A lookup ends.
LEMMA EndStep ==
  ASSUME IInv, NEW t \in Threads, EndLookup(t) PROVE IInv' /\ (RegionsTrue => RegionsTrue')
<1>. USE DEF IInv, EndLookup, maps, shared, tables
<1>1. pc' \in [Threads -> Points]
      /\ pc'[t] = "idle" /\ \A u \in Threads : u # t => pc'[u] = pc[u]
  BY DEF TypeOK, Points
<1>2. /\ DOMAIN req' = Threads /\ req'[t] = NoReq
      /\ \A u \in Threads : u # t => req'[u] = req[u]
      /\ DOMAIN ans' = Threads /\ ans'[t] = NoAns
      /\ \A u \in Threads : u # t => ans'[u] = ans[u]
  BY DEF TypeOK
<1>3. TypeOK'
  BY <1>1, <1>2 DEF TypeOK, NoAns
<1>4. Generations'
  <2>1. gen \in Int /\ 0 <= gen
    BY DEF TypeOK
  <2>. QED
    BY <1>2, <2>1 DEF Generations, NoReq
<1>5. Locked' /\ Idle'
  BY <1>1, <1>2 DEF Locked, Idle
<1>6. TableRecent' /\ HitsRecent'
  BY <1>1 DEF TableRecent, HitsRecent, Known
<1>7. Windows'
  BY <1>1, <1>2 DEF Windows, Under, Known
<1>8. RegionsTrue => RegionsTrue'
  BY <1>1, <1>2 DEF RegionsTrue
<1>. QED
  BY <1>3, <1>4, <1>5, <1>6, <1>7, <1>8

-----------------------------------------------------------------------------

\* IInv is inductive, and keeps RegionsTrue.
LEMMA NextIInv ==
  IInv /\ [Next]_vars => IInv' /\ (RegionsTrue => RegionsTrue')
<1>. DEFINE Kept == IInv' /\ (RegionsTrue => RegionsTrue')
<1>. SUFFICES ASSUME IInv, [Next]_vars PROVE Kept
  OBVIOUS
<1>1. CASE Remap
  BY <1>1, RemapStep
<1>2. CASE Notice
  BY <1>2, NoticeStep
<1>3. UNCHANGED <<maps, shared, local>> => Kept
  BY DEF IInv, maps, shared, local, TypeOK, Generations, Locked, TableRecent, HitsRecent,
         Windows, Under, Idle, RegionsTrue, Known
<1>4. CASE FreeTrace
  BY <1>3, <1>4 DEF FreeTrace
<1>5. CASE Terminated \/ UNCHANGED vars
  BY <1>3, <1>5 DEF Terminated, vars
<1>6. ASSUME NEW t \in Threads, ThreadStep(t) PROVE Kept
  <2>1. ASSUME NEW a \in Addresses,
               BeginTag(t, a) \/ BeginPtr(t, a)
                 \/ lookupSymbolExact(t, a) \/ findModuleByAddressExact(t, a)
        PROVE  Kept
    BY <2>1, BeginTagStep, BeginPtrStep, CallStep, ModuleStep
  <2>2. CASE LockRegions(t) \/ rebuildPtrRegions(t) \/ rebuildUnread(t) \/ findPtrRegion(t)
    BY <2>2, LockStep, RebuildStep, UnreadStep, FindStep
  <2>3. CASE TableOfHit(t) \/ AppendTag(t) \/ demangleSymbol(t) \/ EndLookup(t)
    BY <2>3, TableStep, AppendStep, DemangleStep, EndStep
  <2>. QED
    BY <1>6, <2>1, <2>2, <2>3 DEF ThreadStep
<1>. QED
  BY <1>1, <1>2, <1>4, <1>5, <1>6 DEF Next

\* In every reachable state IInv holds: the shared table is guarded by its
\* lock and its generation, a thread's last hit by its own generation.
THEOREM Invariance == Spec => []IInv
<1>1. IInv /\ [Next]_vars => IInv'
  BY NextIInv
<1>. QED
  BY InitIInv, <1>1, PTL DEF Spec

\* A region that is shown is one of a memory map that was current after the last
\* change the engine had noticed when the lookup began, or of the copy left when
\* the map could not be read (appendRegionTag, appendPtrAnnotation).
THEOREM RegionsTrueAlways == Spec => []RegionsTrue
<1>1. IInv /\ RegionsTrue /\ [Next]_vars => RegionsTrue'
  BY NextIInv
<1>. QED
  BY InitIInv, Invariance, <1>1, PTL DEF Spec
=============================================================================
