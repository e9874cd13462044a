----------------------------- MODULE UnidbgDump -----------------------------
(***************************************************************************)
(* trace_unidbg_dump() of TraceUnidbgDump.cpp: a function is run in the VM *)
(* and the memory it starts with is written to dumpDir/tid{N}/, one dump   *)
(* per thread, so that it can be replayed from its entry.  Registers are   *)
(* those of the entry; a page is saved before its first write in the VM,   *)
(* or read when the call returns.  Memory is also written behind the back  *)
(* of the hooks: by functions that run on the host, by other threads.      *)
(***************************************************************************)
EXTENDS Integers, FiniteSets

CONSTANTS
  Threads,
  Addrs,      \* heap addresses of master sessions
  Pages,      \* page numbers
  Segment,    \* the mapping of /proc/self/maps each page belongs to
  HugeSegments, \* those above VMA_EXPAND_CAP
  StackPages, \* of each thread: STACK_BELOW and STACK_ABOVE around SP
  SoPages,    \* the pages of the SO of the target
  Paths, MappedPaths, \* regular files; those that are mapped anyway
  NoThread,
  MaxMasters, MaxCalls, MaxWrites \* bounds

ASSUME DumpAssumption ==
  /\ Pages \subseteq Nat /\ SoPages \subseteq Pages /\ MappedPaths \subseteq Paths
  /\ \A th \in Threads : StackPages[th] \subseteq Pages
  /\ {MaxMasters, MaxCalls, MaxWrites} \subseteq Nat /\ NoThread \notin Threads
  /\ Addrs # {}

VARIABLES
  mem,        \* what each page holds: the number of its last write
  writes, calls, masters, \* counted for the bounds; `masters` numbers the sessions
  master,     \* [id, addr] of the session in g_sessions, id 0 if there is none
  finisher,   \* who finished each session
  tls,        \* tls_dump_sessions of each thread: the id found under an address
  inside,     \* threads inside the wrapper
  sess,       \* the DumpSession of each thread (of `master`, or freed)
  stale       \* [thread, id] of hooks that have found a session that is freed

vars == <<mem, writes, calls, masters, master, finisher, tls, inside, sess, stale>>

NoMaster == [id |-> 0, addr |-> CHOOSE a \in Addrs : TRUE]
NotDumped == -1

\* A DumpSession; `dumped` are the contents of the files.  `entry`, `foreign`,
\* `returned` and `lost` are not in the code: memory when the registers were
\* taken, the pages others wrote since, while this thread had no snapshot of
\* them, whether the dump was written after the last call, and the pages whose
\* file could not be created.
NewSession(id) ==
  [id |-> id, entry_captured |-> FALSE, any_finalized |-> FALSE,
   pages |-> {}, written |-> [p \in {} |-> 0], opened_files |-> {},
   dumped_pages |-> {}, dumped |-> [p \in Pages |-> NotDumped], rootfs |-> {},
   lost |-> {}, entry |-> [p \in Pages |-> 0], foreign |-> {}, returned |-> FALSE]

\* getOrCreatePerThreadSession(): what this thread finds for the master.
Found(th) == tls[th][master.addr]
Session(th) == IF Found(th) = 0 THEN NewSession(master.id) ELSE sess[th]
Remember(th) == tls' = [tls EXCEPT ![th][master.addr] = master.id]

-----------------------------------------------------------------------------
(* The hooks, as functions of the session s.                               *)

\* on_entry(): only the first entry of a session counts.
on_entry(s) ==
  IF s.entry_captured THEN [s EXCEPT !.returned = FALSE]
  ELSE [s EXCEPT !.entry_captured = TRUE, !.entry = mem, !.returned = FALSE]

\* Mutant of on_mem: a page that was read before is not saved.
on_mem_once(s, ps, isWrite) ==
  LET new == IF isWrite THEN ps \ s.pages ELSE {}
  IN [s EXCEPT !.pages = @ \cup ps,
               !.written = [p \in DOMAIN s.written \cup new |->
                              IF p \in new THEN mem[p] ELSE s.written[p]]]

\* on_mem(): note the pages, save those about to be written for the first time.
on_mem(s, ps, isWrite) ==
  LET new == IF isWrite THEN ps \ DOMAIN s.written ELSE {}
  IN [s EXCEPT !.pages = @ \cup ps,
               !.written = [p \in DOMAIN s.written \cup new |->
                              IF p \in new THEN mem[p] ELSE s.written[p]]]

\* on_jump() and on_svc() for open and openat.
on_open(s, path) == [s EXCEPT !.opened_files = @ \cup {path}]

\* Mutant of Expanded: only the mappings of pages written.
ExpandedWritten(s) == {p \in Pages : \E q \in DOMAIN s.written :
                  Segment[p] = Segment[q] /\ Segment[q] \notin HugeSegments}

\* The pages of do_finalize(): touched ones with their mapping unless it is
\* huge, the stack around the entry, the SO.
Expanded(s) == {p \in Pages : \E q \in s.pages :
                  Segment[p] = Segment[q] /\ Segment[q] \notin HugeSegments}
ToDump(th, s) == s.pages \cup Expanded(s) \cup SoPages
                 \cup (IF s.entry_captured THEN StackPages[th] ELSE {})

PageNow(s, p) == IF p \in DOMAIN s.written THEN s.written[p] ELSE mem[p]

\* Files that were opened and whose contents no mapping brings along.
Rootfs(s) == s.opened_files \ MappedPaths

\* The pages that are not entered in dumped_pages yet.
Fresh(th, s) == ToDump(th, s) \ s.dumped_pages

\* coalesce(): runs of adjacent pages; each becomes a file of its own.
coalesce(ps) == {{q \in ps : (p..q) \cup (q..p) \subseteq ps} : p \in ps}

\* do_finalize(): all fresh pages are entered in dumped_pages, then written, run
\* by run; open() fails for the runs of `failed`, which are skipped.
do_finalize(th, s, failed) ==
  [s EXCEPT !.any_finalized = TRUE,
            !.dumped_pages = @ \cup ToDump(th, s),
            !.dumped = [p \in Pages |-> IF p \in Fresh(th, s) \ UNION failed
                                        THEN PageNow(s, p) ELSE @[p]],
            !.rootfs = Rootfs(s),
            !.lost = @ \cup UNION failed]

-----------------------------------------------------------------------------

\* trace_unidbg_dump()
Start(a) ==
  /\ master.id = 0 /\ masters < MaxMasters
  /\ masters' = masters + 1
  /\ master' = [id |-> masters + 1, addr |-> a]
  /\ sess' = [th \in Threads |-> NewSession(0)]
  /\ UNCHANGED <<mem, writes, calls, finisher, tls, inside, stale>>

\* A thread calls the wrapper.
Enter(th) ==
  /\ master.id # 0 /\ th \notin inside /\ calls < MaxCalls
  /\ Found(th) \in {0, master.id}
  /\ calls' = calls + 1
  /\ inside' = inside \cup {th}
  /\ sess' = [sess EXCEPT ![th] = on_entry(Session(th))]
  /\ Remember(th)
  /\ UNCHANGED <<mem, writes, masters, master, finisher, stale>>

\* It does so and finds a deleted session; what happens then is undefined.
EnterStale(th) ==
  /\ master.id # 0 /\ th \notin inside /\ calls < MaxCalls
  /\ Found(th) \notin {0, master.id}
  /\ calls' = calls + 1
  /\ stale' = stale \cup {<<th, Found(th)>>}
  /\ UNCHANGED <<mem, writes, masters, master, finisher, tls, inside, sess>>

\* Pages of one access: it may lie across a page boundary.
Accesses == {ps \in SUBSET Pages : \E p \in Pages : ps \in {{p}, {p, p + 1}}}

\* A write of thread th (or of nobody the hooks know) is foreign to the others.
Others(th, ps) ==
  [u \in Threads |->
     IF u = th THEN sess[u]
     ELSE [sess[u] EXCEPT !.foreign =
             @ \cup (IF sess[u].entry_captured THEN ps \ DOMAIN sess[u].written ELSE {})]]

Read(th, ps) ==
  /\ th \in inside
  /\ ~(ps \subseteq sess[th].pages)
  /\ sess' = [sess EXCEPT ![th] = on_mem(@, ps, FALSE)]
  /\ UNCHANGED <<mem, writes, calls, masters, master, finisher, tls, inside, stale>>

Write(th, ps) ==
  /\ th \in inside /\ writes < MaxWrites
  /\ writes' = writes + 1
  /\ sess' = [Others(th, ps) EXCEPT ![th] = on_mem(@, ps, TRUE)]
  /\ mem' = [p \in Pages |-> IF p \in ps THEN writes + 1 ELSE mem[p]]
  /\ UNCHANGED <<calls, masters, master, finisher, tls, inside, stale>>

\* A write the hooks do not see: a function on the host, a thread of the app.
HostWrite(p) ==
  /\ writes < MaxWrites
  /\ writes' = writes + 1
  /\ mem' = [mem EXCEPT ![p] = writes + 1]
  /\ sess' = [u \in Threads |-> [sess[u] EXCEPT !.foreign =
                @ \cup (IF sess[u].entry_captured THEN {p} \ DOMAIN sess[u].written ELSE {})]]
  /\ UNCHANGED <<calls, masters, master, finisher, tls, inside, stale>>

Open(th, path) ==
  /\ th \in inside /\ path \notin sess[th].opened_files
  /\ sess' = [sess EXCEPT ![th] = on_open(@, path)]
  /\ UNCHANGED <<mem, writes, calls, masters, master, finisher, tls, inside, stale>>

\* The target returns: on_emu_stop().
Return(th) ==
  /\ th \in inside
  /\ inside' = inside \ {th}
  /\ \E failed \in SUBSET coalesce(Fresh(th, sess[th])) :
       sess' = [sess EXCEPT ![th] = [do_finalize(th, @, failed) EXCEPT !.returned = TRUE]]
  /\ UNCHANGED <<mem, writes, calls, masters, master, finisher, tls, stale>>

\* It is left by longjmp or an exception: no on_emu_stop().
Leave(th) ==
  /\ th \in inside
  /\ inside' = inside \ {th}
  /\ UNCHANGED <<mem, writes, calls, masters, master, finisher, tls, sess, stale>>

\* Mutant of Forget: tls_dump_sessions is left alone.
ForgetNot(th) == tls' = tls

\* The map of the thread that finishes; those of other threads stay.
Forget(th) == tls' = [tls EXCEPT ![th][master.addr] = 0]

OfMaster(u) == sess[u].id = master.id

\* The files of all threads.
Files == UNION {{u} \X coalesce(Fresh(u, sess[u])) : u \in Threads}

\* trace_unidbg_dump_finish() on thread th: dumps that were never written are
\* written now, every session is deleted, the map entry of this thread erased.
Finish(th) ==
  /\ master.id # 0 /\ inside = {}
  /\ \E bad \in SUBSET Files :
       sess' = [u \in Threads |->
                  IF OfMaster(u) /\ ~sess[u].any_finalized
                  THEN [do_finalize(u, sess[u], {f[2] : f \in {g \in bad : g[1] = u}})
                          EXCEPT !.returned = TRUE]
                  ELSE sess[u]]
  /\ Forget(th)
  /\ master' = NoMaster
  /\ finisher' = [finisher EXCEPT ![master.id] = th]
  /\ UNCHANGED <<mem, writes, calls, masters, inside, stale>>

Init ==
  /\ mem = [p \in Pages |-> 0]
  /\ writes = 0 /\ calls = 0 /\ masters = 0 /\ master = NoMaster
  /\ finisher = [id \in 1..MaxMasters |-> NoThread]
  /\ tls = [th \in Threads |-> [a \in Addrs |-> 0]]
  /\ inside = {} /\ sess = [th \in Threads |-> NewSession(0)] /\ stale = {}

\* No handle is left and the app makes no more.
Terminated == inside = {} /\ master.id = 0 /\ UNCHANGED vars

Next ==
  \/ \E a \in Addrs : Start(a)
  \/ \E p \in Pages : HostWrite(p)
  \/ \E th \in Threads :
       \/ Enter(th) \/ EnterStale(th) \/ Return(th) \/ Leave(th) \/ Finish(th)
       \/ \E ps \in Accesses : Read(th, ps) \/ Write(th, ps)
       \/ \E path \in Paths : Open(th, path)
  \/ Terminated

Spec == Init /\ [][Next]_vars

-----------------------------------------------------------------------------
(* Properties.                                                             *)

\* "The dump is the memory of the entry, and goes with its registers": over any
\* number of calls that add to it, a dumped page holds what it held when the
\* registers were taken, unless somebody whom the hooks do not see (or another
\* thread) wrote it before this thread wrote it first.
DumpIsEntry ==
  \A th \in Threads : LET s == sess[th] IN
    \A p \in Pages : s.dumped[p] # NotDumped /\ p \notin s.foreign => s.dumped[p] = s.entry[p]

\* Every page the thread touched is dumped, in a mapping that is not huge as a
\* whole (the checksums of libc cover whole ones), and so is every unmapped file
\* it opened; the pages of `missing` excepted.
Complete(s, missing) ==
  LET Written(p) == s.dumped[p] # NotDumped \/ p \in missing
  IN /\ \A q \in s.pages :
          /\ Written(q)
          /\ Segment[q] \notin HugeSegments =>
               \A p \in Pages : Segment[p] = Segment[q] => Written(p)
     /\ s.opened_files \subseteq s.rootfs \cup MappedPaths

\* A dump is complete when a call has returned, however many calls add to it, but
\* for the pages whose file could not be created; and no session of a finished
\* handle is left without one.
DumpComplete ==
  \A th \in Threads : LET s == sess[th] IN
    /\ s.returned => Complete(s, s.lost)
    /\ s.id \notin {0, master.id} => s.any_finalized

\* "Calls add to the dump; pages that are dumped are skipped" (do_finalize()):
\* after a call whose files can all be created, the dump is complete.  It is not
\* when an earlier call could not write a page: pages are entered in dumped_pages
\* before their file is created.
LostIsRetried ==
  [][\A th \in inside \ inside' :
       LET s == sess'[th]
       IN s.returned /\ s.lost = sess[th].lost => Complete(s, {})]_vars

\* "finish() has erased the entry of this thread, so an address that is used
\* again is not found": no thread that finished a session finds it later.
NoStaleSession == \A e \in stale : finisher[e[2]] # e[1]

\* "The entries of other threads are not used again once the handle is released"
\* (trace_unidbg_dump_finish()): no thread finds a session that is freed.  They
\* are, when a new handle gets the address of the old one.
OtherEntriesUnused == stale = {}

=============================================================================
