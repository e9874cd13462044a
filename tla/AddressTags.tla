---------------------------- MODULE AddressTags ----------------------------
(***************************************************************************)
(* Whose address is this?  The caches behind the names a trace line gives  *)
(* to addresses: the table of memory regions, rebuilt when the engine's    *)
(* generation of /proc/self/maps has moved, with the last hit of each      *)
(* thread in front of it (FuncCallTrace.cpp); the list of libraries        *)
(* (LibraryUtils.cpp); the symbol tables by load address, which every      *)
(* freeTrace() throws away (SymbolTable.cpp); and the demangled names by   *)
(* the pointer to the mangled one (EastTrace.cpp).  The memory map changes *)
(* under all of them.                                                      *)
(*                                                                         *)
(* A segment holds SegSize addresses; a library is the segments mapped     *)
(* from its file.  Its symbols are given by offset and size.               *)
(***************************************************************************)
EXTENDS Integers

CONSTANTS
  Threads,      \* traced threads
  Libs,         \* library files
  Anon,         \* an anonymous mapping
  NoMap,        \* nothing is mapped
  Segs,         \* segments of the address space
  SegSize,      \* addresses in a segment
  Layouts,      \* what the memory map may look like
  Symbols,      \* the .dynsym of each library: a set of records [off, size]
  DefaultSize,  \* how far a symbol of size 0 is believed to reach
  Cells,        \* where the allocator may put a table; cells are numbers
  ReuseCells,   \* may it use a cell again?
  QuietFrees,   \* is freeTrace() only called when no lookup is under way?
  MaxVersion,   \* bound: changes of the memory map
  MaxFrees,     \* bound: calls of freeTrace()
  MaxLookups    \* bound: addresses looked up

ASSUME TagsAssumption ==
  /\ "free" \notin Threads
  /\ Segs \subseteq Nat /\ SegSize \in Nat \ {0}
  /\ Anon \notin Libs /\ NoMap \notin Libs \cup {Anon}
  /\ Layouts \subseteq [Segs -> Libs \cup {Anon, NoMap}]
  /\ Cells \subseteq Nat \ {0}
  /\ ReuseCells \in BOOLEAN /\ QuietFrees \in BOOLEAN
  /\ MaxVersion \in Nat /\ MaxFrees \in Nat /\ MaxLookups \in Nat

Segment(s) == (s * SegSize)..(s * SegSize + SegSize - 1)
Addresses == UNION {Segment(s) : s \in Segs}
SegOf(a) == CHOOSE s \in Segs : a \in Segment(s)
Offset(a, base) == a - base * SegSize

VARIABLES
  Now,        \* the memory map
  version,    \* changes of it so far
  gen,        \* g_maps_generation: the last change the engine has noticed
  recent,     \* the maps there have been since it noticed
  left,       \* copies left in place since then, as the map could not be read
  regions,    \* g_ptr_regions: a copy of the map
  built_gen,  \* g_regions_built_gen, -1 before the first build
  lock,       \* g_ptr_regions_lock: its holder, or "free"
  libs,       \* LibraryUtils' copy of the map
  g_sym_cache,\* load address -> cell of its symbol table, 0 if none
  heap,       \* cell -> the file its table is of, and is it freed?
  demangled,  \* pairs of a name pointer and the name cached for it
  frees,      \* calls of freeTrace() so far
  lookups,    \* addresses looked up so far
  tl,         \* appendRegionTag's thread-local copy of the last hit
  pc,
  req,        \* what the thread looks up: kind and address, the generation it
              \* has read, and the maps the answer may be from
  ans,        \* what it shows: a region and a name
  ptr         \* the pointer lookupSymbolExact returned: <<cell, symbol>>

maps == <<Now, version, gen, recent, left>>
shared == <<regions, built_gen, lock, libs>>
tables == <<g_sym_cache, heap, demangled, frees>>
local == <<tl, pc, lookups, req, ans, ptr>>
vars == <<maps, shared, tables, local>>

\* What a copy of the map may be of that was made since the engine noticed.
Known == recent \cup left

Empty == [s \in Segs |-> NoMap]
Free == [lib |-> Anon, freed |-> TRUE]   \* a cell nothing was put in
NoPtr == <<0, 0>>
NoName == <<NoMap, 0>>
NoRegion == [seg |-> -1, path |-> NoMap, base |-> -1]
NoHit == [gen |-> -1, region |-> NoRegion, tbl |-> 0]
NoAns == [region |-> NoRegion, name |-> NoName]
NoReq == [kind |-> "none", addr |-> 0, gen |-> 0, since |-> {}]

\* The lowest segment mapped from the same file is its load address; an
\* anonymous segment stands for itself.
Base(map, s) ==
  IF map[s] \in Libs
  THEN CHOOSE b \in Segs : map[b] = map[s] /\ \A c \in Segs : map[c] = map[s] => b <= c
  ELSE s

Region(map, s) ==
  IF map[s] = NoMap THEN NoRegion
  ELSE [seg |-> s, path |-> map[s], base |-> Base(map, s)]

\* The same for files only.
Module(map, s) == IF map[s] \in Libs THEN Region(map, s) ELSE NoRegion

-----------------------------------------------------------------------------
(* Symbol tables                                                           *)

\* SymbolTable::findContaining: the last symbol that starts at or before the
\* address, if it reaches that far.
findContaining(lib, off) ==
  {e \in Symbols[lib] :
     /\ e.off <= off /\ \A f \in Symbols[lib] : f.off <= off => f.off <= e.off
     /\ off < e.off + (IF e.size > 0 THEN e.size ELSE DefaultSize)}

\* SymbolTable::findExact
findExact(lib, off) == {e \in Symbols[lib] : e.off = off}

\* Cells operator new may return for a table: the next fresh one, or one that
\* has been freed.
Vacant == {c \in Cells :
  \/ heap[c] = Free /\ \A d \in Cells : heap[d] = Free => c <= d
  \/ heap[c].freed /\ heap[c] # Free /\ ReuseCells}

\* SymbolTable::load: what the table of an address may be of.  Only the load
\* address of a library shows the ELF magic; the file may be unreadable.
load(base) ==
  {NoMap} \cup IF Now[base] \in Libs /\ Base(Now, base) = base THEN {Now[base]} ELSE {}

\* Under g_sym_mutex: the table of a load address, loaded now if the cache has
\* none; one without symbols is kept as well.
TableAt(base, cell) ==
  IF g_sym_cache[base] # 0
  THEN cell = g_sym_cache[base] /\ UNCHANGED <<g_sym_cache, heap>>
  ELSE /\ cell \in Vacant
       /\ g_sym_cache' = [g_sym_cache EXCEPT ![base] = cell]
       /\ \E lib \in load(base) : heap' = [heap EXCEPT ![cell] = [lib |-> lib, freed |-> FALSE]]

\* Names are pairs of a library and the offset of the symbol.
NameIn(lib, found) == IF found = {} THEN NoName ELSE <<lib, (CHOOSE e \in found : TRUE).off>>

\* What reading a table finds: it may be wiped if it has been freed.
Readable(cell) == {heap[cell].lib} \cup (IF heap[cell].freed THEN {NoMap} ELSE {})

-----------------------------------------------------------------------------
(* The process: the map changes, and the engine notices.                   *)

\* What a thread has just accessed or runs in is not unmapped meanwhile.
Pinned(new) ==
  \A t \in Threads : pc[t] # "idle" /\ req[t].kind # "ptr" =>
    LET p == Now[SegOf(req[t].addr)]
    IN \A s \in Segs : Now[s] = p \/ new[s] = p => Now[s] = new[s]

\* mmap, munmap, dlopen, dlclose
Remap ==
  /\ version < MaxVersion
  /\ \E new \in Layouts :
       /\ new # Now /\ Pinned(new)
       /\ Now' = new
       /\ recent' = recent \cup {new}
       /\ req' = [t \in Threads |-> IF req[t] = NoReq THEN NoReq
                                    ELSE [req[t] EXCEPT !.since = @ \cup {new}]]
  /\ version' = version + 1
  /\ UNCHANGED <<gen, left, shared, tables, tl, pc, ans, ptr, lookups>>

\* vc_maps_generation moves when the engine reads the map again.
Notice ==
  /\ gen < version
  /\ gen' = version
  /\ recent' = {Now} /\ left' = {}
  /\ UNCHANGED <<Now, version, shared, tables, local>>

-----------------------------------------------------------------------------
(* appendRegionTag and appendPtrAnnotation                                 *)

Ask(t, kind, a, since) ==
  /\ pc[t] = "idle"
  /\ lookups < MaxLookups
  /\ lookups' = lookups + 1
  /\ req' = [req EXCEPT ![t] = [kind |-> kind, addr |-> a, gen |-> gen, since |-> since]]

\* Mutant of Hit: the generation is not compared.
HitAnyGen(t, a) == SegOf(a) = tl[t].region.seg

\* The thread's last hit still stands for this address.
Hit(t, a) == gen = tl[t].gen /\ SegOf(a) = tl[t].region.seg

\* appendRegionTag: an address that an instruction has just accessed.
BeginTag(t, a) ==
  /\ Now[SegOf(a)] # NoMap
  /\ Ask(t, "tag", a, Known)
  /\ pc' = [pc EXCEPT ![t] = IF Hit(t, a) THEN "tag" ELSE "lock"]
  /\ UNCHANGED <<maps, shared, tables, tl, ans, ptr>>

\* appendPtrAnnotation: an argument that may be a pointer.
BeginPtr(t, a) ==
  /\ Ask(t, "ptr", a, Known)
  /\ pc' = [pc EXCEPT ![t] = "lock"]
  /\ UNCHANGED <<maps, shared, tables, tl, ans, ptr>>

\* The regions are older than the generation, or there are none.
Stale == built_gen # gen \/ regions = Empty

\* ensureRegionsFresh_locked: the generation is read first ...
LockRegions(t) ==
  /\ pc[t] = "lock" /\ lock = "free"
  /\ lock' = t
  /\ pc' = [pc EXCEPT ![t] = IF Stale THEN "rebuild" ELSE "find"]
  /\ built_gen' = gen
  /\ UNCHANGED <<maps, regions, libs, tables, tl, req, ans, ptr, lookups>>

\* ... and the map after it.
rebuildPtrRegions(t) ==
  /\ pc[t] = "rebuild"
  /\ regions' = Now
  /\ pc' = [pc EXCEPT ![t] = "find"]
  /\ UNCHANGED <<maps, built_gen, lock, libs, tables, tl, req, ans, ptr, lookups>>

\* It cannot be read: the regions stay what they are, and count as rebuilt.
rebuildUnread(t) ==
  /\ pc[t] = "rebuild"
  /\ left' = left \cup {regions}
  /\ req' = [u \in Threads |-> IF req[u].kind \in {"tag", "ptr"}
                               THEN [req[u] EXCEPT !.since = @ \cup {regions}] ELSE req[u]]
  /\ pc' = [pc EXCEPT ![t] = "find"]
  /\ UNCHANGED <<Now, version, gen, recent, shared, tables, tl, ans, ptr, lookups>>

\* findPtrRegion, then unlock.  An address it does not know gets no tag and
\* leaves the last hit alone.
findPtrRegion(t) ==
  /\ pc[t] = "find"
  /\ lock' = "free"
  /\ LET r == Region(regions, SegOf(req[t].addr))
         tagged == req[t].kind = "tag" /\ r # NoRegion
     IN /\ tl' = IF tagged THEN [tl EXCEPT ![t] = [gen |-> req[t].gen, region |-> r, tbl |-> @.tbl]]
                   ELSE tl
        /\ ans' = IF tagged THEN ans ELSE [ans EXCEPT ![t].region = r]
        /\ pc' = [pc EXCEPT ![t] = IF tagged THEN "table" ELSE "shown"]
  /\ UNCHANGED <<maps, regions, built_gen, libs, tables, req, ptr, lookups>>

\* The symbol table goes with the region: loadSymbolTableForSo(tl_base).
TableOfHit(t) ==
  /\ pc[t] = "table"
  /\ pc' = [pc EXCEPT ![t] = "tag"]
  /\ IF tl[t].region.path \in Libs
     THEN \E c \in Cells : TableAt(tl[t].region.base, c) /\ tl' = [tl EXCEPT ![t].tbl = c]
     ELSE tl' = [tl EXCEPT ![t].tbl = 0] /\ UNCHANGED <<g_sym_cache, heap>>
  /\ UNCHANGED <<maps, shared, demangled, frees, req, ans, ptr, lookups>>

\* The tag: region, offset, and the symbol the address is in.
AppendTag(t) ==
  /\ pc[t] = "tag"
  /\ pc' = [pc EXCEPT ![t] = "shown"]
  /\ \E lib \in IF tl[t].tbl = 0 THEN {NoMap} ELSE Readable(tl[t].tbl) :
       ans' = [ans EXCEPT ![t] =
         [region |-> tl[t].region,
          name |-> IF lib \in Libs
                   THEN NameIn(lib, findContaining(lib, Offset(req[t].addr, tl[t].region.base)))
                   ELSE NoName]]
  /\ UNCHANGED <<maps, shared, tables, tl, req, ptr, lookups>>

-----------------------------------------------------------------------------
(* lookupSymbolExact with demangleSymbol, findModuleByAddressExact         *)

\* The target of a call through a stub: its library by dladdr(), that
\* library's table, the symbol that starts there.
lookupSymbolExact(t, a) ==
  /\ Now[SegOf(a)] \in Libs
  /\ Ask(t, "call", a, {Now})
  /\ LET r == Region(Now, SegOf(a))
     IN \E c \in Cells :
          /\ TableAt(r.base, c)
          /\ LET lib == heap'[c].lib
                 found == IF lib \in Libs THEN findExact(lib, Offset(a, r.base)) ELSE {}
             IN ptr' = [ptr EXCEPT ![t] =
                  IF found = {} THEN NoPtr ELSE <<c, (CHOOSE e \in found : TRUE).off>>]
          /\ ans' = [ans EXCEPT ![t].region = r]
  /\ pc' = [pc EXCEPT ![t] = "demangle"]
  /\ UNCHANGED <<maps, shared, demangled, frees, tl>>

\* The cache is asked by pointer, not by name.
CachedName(p) == {d[2] : d \in {e \in demangled : e[1] = p}}

demangleSymbol(t) ==
  /\ pc[t] = "demangle"
  /\ pc' = [pc EXCEPT ![t] = "shown"]
  /\ IF ptr[t] = NoPtr THEN UNCHANGED <<demangled, ans>>
     ELSE \E text \in IF CachedName(ptr[t]) # {} THEN CachedName(ptr[t])
                       ELSE {IF lib \in Libs THEN NameIn(lib, findExact(lib, ptr[t][2]))
                             ELSE NoName : lib \in Readable(ptr[t][1])} :
            /\ demangled' = demangled \cup {<<ptr[t], text>>}
            /\ ans' = [ans EXCEPT ![t].name = text]
  /\ UNCHANGED <<maps, shared, g_sym_cache, heap, frees, tl, req, ptr, lookups>>

\* The module of code that runs: dladdr(), or LibraryUtils' list, which is
\* read again when it does not have the address, and empty if it cannot be.
findModuleByAddressExact(t, a) ==
  /\ Now[SegOf(a)] # NoMap
  /\ Ask(t, "module", a, {Now})
  /\ libs' \in IF Module(libs, SegOf(a)) = NoRegion THEN {Now, Empty} ELSE {libs}
  /\ ans' = [ans EXCEPT ![t].region = IF Now[SegOf(a)] \in Libs THEN Module(Now, SegOf(a))
                                                               ELSE Module(libs', SegOf(a))]
  /\ pc' = [pc EXCEPT ![t] = "shown"]
  /\ UNCHANGED <<maps, regions, built_gen, lock, tables, tl, ptr>>

\* The annotation is written.
EndLookup(t) ==
  /\ pc[t] = "shown"
  /\ pc' = [pc EXCEPT ![t] = "idle"]
  /\ req' = [req EXCEPT ![t] = NoReq]
  /\ ans' = [ans EXCEPT ![t] = NoAns]
  /\ ptr' = [ptr EXCEPT ![t] = NoPtr]
  /\ UNCHANGED <<maps, shared, tables, tl, lookups>>

\* clearSymbolCache(), when some session, not necessarily one of these
\* threads', is freed.
FreeTrace ==
  /\ frees < MaxFrees
  /\ QuietFrees => \A t \in Threads : pc[t] = "idle"
  /\ frees' = frees + 1
  /\ g_sym_cache' = [b \in Segs |-> 0]
  /\ heap' = [c \in Cells |-> [heap[c] EXCEPT !.freed = TRUE]]
  /\ UNCHANGED <<maps, shared, demangled, local>>

-----------------------------------------------------------------------------

Init ==
  /\ Now \in Layouts /\ recent = {Now} /\ left = {}
  /\ version = 0 /\ gen = 0
  /\ regions = Empty /\ libs = Empty
  /\ built_gen = -1 /\ lock = "free"
  /\ g_sym_cache = [b \in Segs |-> 0]
  /\ heap = [c \in Cells |-> Free]
  /\ demangled = {} /\ frees = 0 /\ lookups = 0
  /\ tl = [t \in Threads |-> NoHit]
  /\ pc = [t \in Threads |-> "idle"]
  /\ req = [t \in Threads |-> NoReq]
  /\ ans = [t \in Threads |-> NoAns]
  /\ ptr = [t \in Threads |-> NoPtr]

ThreadStep(t) ==
  \/ \E a \in Addresses :
       \/ BeginTag(t, a) \/ BeginPtr(t, a)
       \/ lookupSymbolExact(t, a) \/ findModuleByAddressExact(t, a)
  \/ LockRegions(t) \/ rebuildPtrRegions(t) \/ rebuildUnread(t) \/ findPtrRegion(t)
  \/ TableOfHit(t) \/ AppendTag(t) \/ demangleSymbol(t) \/ EndLookup(t)

\* The app may stop when no lookup is under way.
Terminated == (\A t \in Threads : pc[t] = "idle") /\ UNCHANGED vars

Next == Remap \/ Notice \/ FreeTrace \/ Terminated \/ \E t \in Threads : ThreadStep(t)

Spec == Init /\ [][Next]_vars

-----------------------------------------------------------------------------
(* Properties.                                                             *)

\* A region that is shown is one the memory map had since the last change the
\* engine had noticed when the thread asked, or one of the copy it is left with
\* if the map could not be read then: neither the thread's last hit nor the
\* shared table hides a change, whoever rebuilds it meanwhile.
RegionsTrue ==
  \A t \in Threads : pc[t] = "shown" /\ req[t].kind # "module" =>
    \E map \in req[t].since : ans[t].region = Region(map, SegOf(req[t].addr))

\* "The table is only rebuilt when memory has really changed" (FuncCallTrace.cpp):
\* a thread that does not rebuild it finds one that memory has not changed since.
\* It does not when the last one to rebuild could not read the map.
SkippedIfCurrent ==
  [][\A t \in Threads : pc[t] = "lock" /\ pc'[t] = "find" => regions \in recent]_vars

\* "Generated code is not taken for a module" (LibraryUtils.cpp): a module that is
\* shown for code is the one it is in.  The list of libraries is not told of one
\* that is unloaded, and shows it for anonymous memory in its place.
ModulesTrue ==
  \A t \in Threads : pc[t] = "shown" /\ req[t].kind = "module" =>
    \E map \in req[t].since : ans[t].region \in {NoRegion, Module(map, SegOf(req[t].addr))}

\* "The symbol is one of the SO it is shown with" (FuncCallTrace.cpp), and "the
\* pointer to a name can be the key of it" (EastTrace.cpp): a name that is shown is
\* that of a symbol of the library shown with it, which covers (for a call: starts
\* at) the address.  It is not when a library is loaded where another one was, nor
\* when a table is allocated where one of the last session was.
NamesTrue ==
  \A t \in Threads : pc[t] = "shown" /\ ans[t].name # NoName =>
    LET lib == ans[t].region.path
        off == Offset(req[t].addr, ans[t].region.base)
    IN /\ lib \in Libs /\ ans[t].name[1] = lib
       /\ \E e \in Symbols[lib] :
            /\ e.off = ans[t].name[2]
            /\ IF req[t].kind = "call" THEN e.off = off
               ELSE e.off <= off /\ off < e.off + (IF e.size > 0 THEN e.size ELSE DefaultSize)

\* No thread follows a pointer into a symbol table that has been freed
\* ("SymbolTable* in g_sym_cache is stable", FuncCallTrace.cpp).
TablesAlive ==
  \A t \in Threads :
    /\ pc[t] = "tag" /\ tl[t].tbl # 0 => ~heap[tl[t].tbl].freed
    /\ pc[t] = "demangle" /\ ptr[t] # NoPtr => ~heap[ptr[t][1]].freed
=============================================================================
