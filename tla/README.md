# TLA+ models of AndroidPrybar's trace library

AndroidPrybar runs ARM64 functions of an Android app inside a VCPU and writes a
text trace of every instruction.  The VCPU itself (`libvcpu`) is a closed-source
library; the repository's own program is the trace library `src/trace/`
(`EastTrace.cpp` and around it) and the PC tools `src/tools/trace_receiver.py`
and `src/tools/build_calltree.py`.  These modules model its core logic: how the
text of each traced thread is buffered, compressed, sent or written, shared
between threads, saved in a crash, received and decoded.

## The system: components, state, operations

| component | source | state | operations |
|---|---|---|---|
| **DirectWriteBuf** | `trace/include/DirectWriteBuf.h` | two buffers, `pos`, `active`, in TCP mode a worker thread with `bg_mtx`, `bg_cv`, `bg_pending`, `bg_idle`, `bg_shutdown` | `write`, `flush`, `destroy`, `init_tcp`, `init_lz4`, `bg_worker`, `send_end_frame`, `flushFromSignal`, `closeFromSignal` |
| **Trace sessions** | `EastTrace.cpp` 1213-1250, 1349-1566 | `traceContextMap`, the shared socket `g_shared_tcp_fd` with its count and spin lock, masters on the heap | `trace`, `freeTrace`, `destroyPreviousTraceSession` |
| **Clones** | `EastTrace.cpp` 240-500 | `tls_trace_clones` (one map per thread), `g_trace_all_clones`, the file and the string builder of each clone | `getOrCreatePerThreadTrace`, `openNextTraceFile` |
| **Automatic thread tracing** | `EastTrace.cpp` 1289-1347, 1624-1650 | `g_thread_wrappers` | `thread_create_wrap_hook`, `vc_set_auto_trace_threads` |
| **Instruction pipeline** | `EastTrace.cpp` 580-1120 | the pending line, `entryLr`, PLT and JNI skipping, counters for periodic flush and memory cleanup | `trace_code`, `printAssemble2` |
| **Crash handler** | `EastTrace.cpp` 1568-1622 | the handlers installed before | `trace_crash_handler`, `trace_salvage_all_best_effort` |
| **Wire and receiver** | `DirectWriteBuf.h` 106-135, `trace_receiver.py` | `g_tcp_send_mutex`, the socket; `tid_files` and the logs on the PC | frames, end frame, `cmd_receive`, `find_next_index` |
| **Decoder** | `trace_receiver.py` | none | `decode_frames`, `cmd_decode` |
| **Disassembly cache** | `EastTrace.cpp` 110-240 | one global set-associative table, most recently used entry first | `get`, `put`, `getRegAccess`, `putRegAccess`, `trimCold`, `clear` |
| **Call annotations** | `FuncCallTrace.cpp`, `svc_handler.cpp`, `JniTrace.cpp` | pending external call, SVC and JNI call, two descriptor tables | begin, return, per-function formatters |
| **JNI helpers** | `JniTrace.cpp` | the app's pending exception and local frames, caches of method and field signatures | a handler per JNI function, `JniExceptionGuard`, `JniLocalFrame`, resolution by reflection |
| **Address names** | `SymbolTable.cpp`, `FuncCallTrace.cpp` 340-545, `LibraryUtils.cpp`, `EastTrace.cpp` 38-61 | the table of memory regions with its generation, each thread's last hit, the list of libraries, the symbol tables by load address, the demangled names | `appendRegionTag`, `appendPtrAnnotation`, `lookupSymbolExact`, `demangleSymbol`, `findModuleByAddressExact`, `clearSymbolCache` |
| **Unidbg dump** | `TraceUnidbgDump.cpp` | per thread: entry registers, pages touched, first-write snapshots, files opened | `on_entry`, `on_mem`, `on_jump`, `on_svc`, `on_emu_stop`, finish |
| **Memory hook** | `TraceMemoryHook.cpp` | which contexts have a hook | register, report |
| **LZ4** | `lz4_block.h`, `trace_receiver.py` | hash table of the compressor | compress, decompress |
| **Call tree** | `build_calltree.py` | stack of frames, edges | `parse_file`, `write_outputs` |

How they interact.  The app calls `trace(f)`, gets a wrapper and calls it on any
of its threads; the VCPU calls `trace_code` for every instruction, which looks
up the clone of its thread through TLS and appends to the clone's buffer.  In
file mode the buffer writes frames to a file of its own, a new one on every call
of the target.  In TCP mode each clone's worker thread sends frames over the one
shared socket; the first session accepts the receiver, the last `freeTrace()`
sends the end frame.  With automatic tracing `pthread_create` in traced code
enters `thread_create_wrap_hook`, which calls `trace()` from inside a running
session.  A signal runs the crash handler, which uses the same buffers without
locks.

What is hard here: two threads and one condition variable with two predicates
(DirectWriteBuf); sessions, clones and TLS entries with different owners and
lifetimes (a heap address may come back); a spin lock held across `accept()`;
a hook that calls back into `trace()`; header and body of a frame as separate
writes (tearing between threads, in a kill, in a signal); a handler that
re-enters the code it interrupted; file names that run out; a receiver that
gives up.  `PROJECT.json` lists each hazard at its line, with the property that
covers it or the reason why none does.

## Modules

| module | role |
|---|---|
| `DoubleBuffer` | abstract: bytes in order, at most one buffer in flight, nothing left at close |
| `DirectWriteBuf` | the two threads of a TCP-mode buffer; implements `DoubleBuffer` |
| `DirectWriteBufProofs` | theorems about it |
| `SharedConnection` | abstract: a stream lives while somebody holds it |
| `TraceSession` | trace(), freeTrace(), clones, TLS, reference counting, the pthread hook; implements `SharedConnection` |
| `TraceSessionProofs` | theorems about it without automatic thread tracing |
| `TraceWire` | frames of several clones on one socket, and the receiver |
| `TraceWireProofs` | frames are never interleaved, logs hold the first lines, the end frame means complete |
| `FileTrace` | one traced thread: pending line, buffer, files, crash handler, decoder |
| `FileTraceProofs` | what the files decode to after a crash and after a return to the first call site |
| `InsnTrace` | `trace_code`: lines, annotations one callback late, calls out of the SO, against an ideal trace |
| `DisasmCache` | the cache of decoded instructions and its allocator, used by `InsnTrace` |
| `InsnTraceProofs` | lemmas about the cache; the pending access is never freed; an annotation follows its own line |
| `JniGuard` | what the JNI handlers do to the app's exception, references and the signature caches |
| `JniGuardProofs` | they leave exception and references alone; chained helpers call nothing under an exception; a signature is partial only after a throw |
| `UnidbgDump` | per-thread memory dumps of a function's entry |
| `UnidbgDumpProofs` | theorems about it |
| `AddressTags` | the caches behind the names of addresses, under a changing memory map and freeTrace() |
| `AddressTagsProofs` | the regions shown are true |
| `Lz4Block` | compressor of `lz4_block.h` against the Python decompressor |
| `CallTree` | `build_calltree.py` beside the program whose trace it reads |
| `MC*` | instances for TLC; `MCFileTools` runs `FileTrace`, `Lz4Block` and `CallTree` |

They meet at a few seams.  `TraceWire` uses the buffer as `DoubleBuffer`
describes it (lines handed over as one range, one frame in flight), which
`DirectWriteBuf` is proved to implement, and takes a frame to decode to the lines
it was made of, which is `RoundTrip` of `Lz4Block`.  `TraceSession` treats "the clone's text
is on the socket" as one step of its worker (`SendFrames`) and of `destroy()`
(`FreeDestroy`); that `destroy()` really drains is `DestroyDrains` of the buffer.
`SendEndFrame` in `TraceWire` waits for all clones to be destroyed, which is
what `ClonesOnOpenSocket` of `TraceSession` establishes.  `FileTrace` knows a
line as a number; what is in the line is `InsnTrace`.  `InsnTrace` takes
`jni_on_call` to leave the app's JNI environment alone, which is `JniGuard`, and an
address to be annotated as `AddressTags` says.

### DirectWriteBuf

Every statement of `write`, `flush`, `destroy` and `bg_worker` that touches shared
state is an action; a thread's program counter (`pc`, `wpc`) names the point
between two of them.  `bg_mtx` has a holder, `bg_cv` a set of sleepers;
`wait` releases and sleeps in one step and re-acquires in another, wake-ups may
be spurious.  Bytes are numbers, byte k of the text being k, so a lost, repeated
or reordered byte is visible.  `write` of a text that does not fit flushes first
and is cut into chunks when it is longer than a buffer.  Compression is a copy (the
frame it makes decodes to the same bytes: `Lz4Block`).  The mutants in
the module are plausible slips (an off-by-one, a missing wait, a missing
notification, a flush left out).

### TraceSession

The masters live on a `heap` of addresses; a session has a number that is never
reused beside its address, so that "the entry is of an earlier session" can be
said.  `tls`, `clones`, `traceContextMap`, `wrappers`, `fd`, `refcount`, `tcpLock` are
the variables of the code; connections are numbered where the code has
descriptors.  Each critical section and each stretch between them is an action;
the insertion of a clone under
`g_trace_clone_lock` is one step.  The loop of freeTrace() over its clones is one step per statement:
`FreeLock`, then for each clone `FreeWrite` (its pending line, `pend`, goes to the buffer) and `FreeDestroy`
(`destroy()` waits for the worker, the clone is deleted), then `FreeUnlock` and `FreeRelease` (the reference, the end frame),
with other threads' calls and workers in between.  The app keeps a contract,
operators `Quiet` and `NoCallOn`: it traces a function again or frees it only
while no thread is inside the wrapper, and does not use a wrapper while somebody
makes or frees it.  Anything else is a use of freed memory by the app.
`SetAutoTrace` and the hook are enabled by `AutoTrace`, addresses come back, and `HookTraces` keeps
some of the bounded calls for the hook.
File-mode sessions, the template arguments and the recheck after fork (its flag
is never set in this repository) are left out.

### TraceWire

A clone's text is lines 1, 2, 3, ...; a frame is a range of lines, sent as two
pieces.  `worker[c]` follows `bg_worker` from compression through
`g_tcp_send_mutex` to the two sends.  A send to a receiver that has gone is
lost.  The app may be killed at any point (`Kill`), what is on the wire still
arrives.  `RecvHeader` and `RecvBody` are the loop of `cmd_receive`; a body that is
not the one of its header makes the receiver "corrupt".  Logs are opened on the
first frame of a thread with the index `find_next_index` returns.

### FileTrace

The k-th traced instruction's line is the number k.  `stringBuilder` is the
pending line: `trace_code` writes it when the next instruction comes.  `flush()`
is five steps: compress, header, body, reset of `pos`, return.  `Reopen` is
`openNextTraceFile`: a new file, in file mode with a reset string builder.  A RET
writes its line at once, and flushes when it returns to `entryLr`.  The handler is a second
actor that runs while the tracer is suspended: it writes the pending line, then
`flushFromSignal`, `closeFromSignal`, then the handler installed before.  In TCP mode
(`bg_running`) flush() takes `bg_mtx` and the worker sends the frame whole.
`decode_frames` reads each file up to the first frame that does not decode.
Abstractions: a line takes one unit; a file-mode destroy() followed by open() is one step;
one clone; the signal hits the traced thread (on another thread the handler
would race with a thread that still traces: undefined, listed as a hazard); the
early write of BL/BLR lines is left out, so every line but a RET's is pending until
the next instruction.

### DisasmCache and InsnTrace

`InsnTrace` runs a small program of the traced SO and makes the callbacks libvcpu
would make.  `code`, `pc`, `stack`, `x0`, `files` are the guest; `t` is the
`TraceInfo`, `cache` and `heap` are `disassembleCache` and capstone's allocations.
An action is one callback and the instruction after it: `StubInsn` (step A of
`trace_code`, inside `.plt`), `WrapperInsn` (inside a JNI wrapper),
`TracedInsn` (everything else, through `printAssemble2`, steps B to D and the periodic
clean-up), `HostCall` (the function outside the SO), `Call` (the target is
called: `openNextTraceFile`).  What `trace_code` calls is translated as
functions of the `TraceInfo`, in the order of the code.  `OtherInsn` and `OtherFreeTrace` are callbacks
of other sessions, which share the cache.

A line is a sequence of tokens with the number of the instruction they are about,
so that "the register values printed here are those after instruction k" can be
said.  `ideal` is the trace written by what the program does (`Wanted`, `HostCall`); nothing
of the tracer's memory enters it, and it has an annotation for every call out of the SO, by whatever branch.
`TraceIsIdeal` compares the two and is violated; `BlCallsShown` compares what the code does show: every
visible instruction, every call by BL through a stub that can be resolved, every JNI call in a hidden wrapper, each with its own
result, while calls by register and unresolved stubs happen in between.  `Unresolved` are the stubs for which
`resolvePltTarget` returns 0.
`AnnotationsOfOwnLine` looks at what is printed a callback late,
`FdTablesTrue` relates the tracer's names to the kernel's descriptors, and
`CacheKeepsPending` says that `pendingAccess.insn`, a bare pointer into the cache,
still points to its instruction when it is used.  Left out: an instruction
capstone cannot decode, a change of SO in the middle, nested JNI calls, the
`b.cond` forms, `formatFdWithPath` on negative numbers, a failing allocation (the callback waits for a cell).

### JniGuard

To print a JNI call the handlers call JNI themselves, on the app's `JNIEnv`.  A
helper (`getJClassName`, `print_jobject_or_string`, `resolveMethodByReflection`, ...) is
translated to its sequence of JNI calls with the null checks that guard each; a
statement runs if the handles it needs are there, and any call of `MayFail` may throw.
`scopes` are the activations under way, innermost first, each with its program, its next statement, the handles it
has and (history) the environment it found; a loop over parameters jumps back to its head.
`Guard` and `Unguard` are constructor and destructor of `JniExceptionGuard`, `LocalFrame` is
`JniLocalFrame`.  `tableInit` gives each JNI function its handler; functions whose
handlers run the same helpers (one per primitive type) share a name.  The app
(`jni_on_call`, `HostCall`) makes any calls ART allows it, with exceptions of its own.
`oom` lets every call of the tracer fail; otherwise those of `MayFail` may: in the run, the
`CallObjectMethod` of the reflection helpers (`getParameterTypes`, `getReturnType` and `getType` throw for a type that cannot be
resolved, with memory to spare) and the `hashCode()` of the app's objects.  After such a throw the reflection helpers go on calling JNI
(`NoCallUnderException`, violated) and may cache a partial signature (`CachedInfoComplete`, violated).
What holds is `ChainedCallsClean`, of the helpers in which each call needs the result of the one before it, and
`PartialOnlyAfterThrow`, that nothing but a throw makes a signature partial.  A cache entry is a number of pieces, `NotCached` if there
is none, so that a signature of no pieces is an entry.  Left out: texts, decoding of
varargs, and the nesting of one JNI call in another.

### UnidbgDump

Memory is a number per page, the number of its last write.  A thread enters the
wrapper (`on_entry` takes the registers, once per session), reads and writes pages
through `on_mem`, opens files, and returns (`on_emu_stop`) or is left by a longjmp.  `HostWrite` is a
write no hook sees.  `entry`, `foreign`, `returned` are history variables: memory at the entry,
the pages somebody else wrote before this thread saved them, whether
the dump was written after the last call.  `tls` holds, per thread and heap
address, the session found there, so that a handle made again at the same
address can be told apart.  The app's contract: finish() is called when no thread is
inside.  `do_finalize` enters the pages in `dumped_pages` (`Fresh`), makes ranges of them
(`coalesce`) and writes a file for each; any of the files may fail to open, and then the pages of its range are
`lost` (history): entered and not written.  Left out: the text of the manifest, the ELF files copied, writes that fail later.

### AddressTags

The address space is a few segments; a layout says which library's file, or anonymous
memory, each is mapped from, and `Remap` changes it (mmap, dlclose) under every
lookup, except for the mapping an instruction has just accessed or runs in.
`Notice` is libvcpu reading the map again, which moves `gen`
(`vc_maps_generation()`).  A lookup of `appendRegionTag` is up to six actions: the
comparison with the thread's last hit (`BeginTag`), the lock and the generation
(`LockRegions`), the table (`rebuildPtrRegions`), the search and the copy (`findPtrRegion`),
the symbol table that goes with it (`TableOfHit`), the tag (`AppendTag`).  `FreeTrace`, a
freeTrace() of any session, marks every table in `heap` as freed; reading a freed table
may show what it held or nothing (`Readable`).  `ReuseCells` lets the allocator
give such a table's memory to a new one, `QuietFrees` lets freeTrace() come
only when no lookup is under way.  `rebuildUnread` is a rebuild that cannot open the map: the table stays, its
generation moves on.  A library may be unreadable too, and its table is then empty.
`recent` and the `since` of a request are history:
the maps there have been since the engine noticed the last change, and while the
lookup was under way; `left` is what an unread rebuild left in the table.  Left out: the parsing of `/proc/self/maps` and of ELF, permissions and labels of
segments, addresses too small to be pointers, the lock-free use of `libs`.

### Lz4Block, CallTree, MCFileTools

`Lz4Block` is the compressor probe by probe, with the per-thread hash table that
is never cleared, and `_lz4_decompress_block_py` as a recursive operator.  The
numbers of the format (15, 255, 5, 12, 64, ...) are constants, small in the instance so that length
extensions, the window and the end-of-block rules are all met in ten bytes.
`CallTree` is `parse_file` fed by a program that calls, returns, ends in tail calls, leaves the library, is
called back from there and is called again; `tree` is `pr` of `write_outputs`, each line with its kind.  `made` is history:
who entered what, by call or branch.  `FileTrace`, `Lz4Block` and `CallTree`, the making and reading of a trace file,
share no state; `MCFileTools` lets TLC check them in one run, each behaviour being of one of them.

## Runs

| run | shows | instance |
|---|---|---|
| `buffer` | no byte lost, torn or overwritten; no lost wake-up; destroy() drains; refinement of `DoubleBuffer`; calls return | 2-byte buffers, texts of 1, 2 and 5 bytes (fits twice, fills it, needs three chunks), 7 bytes, two lives, one spurious wake-up |
| `session` | exact reference count; no clone on a closed socket or of a dead session; text complete at freeTrace(), over its separate steps; refinement of `SharedConnection` | 2 app threads, 2 functions, 3 sessions |
| `session_hooks` | two threads whose hooks race: no session left on a closed socket; calls return, while another thread waits in accept() | 2 + 1 threads, 1 function and 1 start routine, 3 sessions |
| `wire` | frames intact, logs are prefixes, the end frame means complete, receiver ends, flushed lines arrive | 2 clones of 2 threads, 2 lines each, 2 connections |
| `file` | a crash between callbacks keeps everything, one inside a callback leaves no hole; a return to the first call site flushes; both modes.  Compressed texts decode to themselves within the bound.  Each direct call is counted for its callee, and nothing more often than entered; the tree is the graph | 2-line buffer, 7 instructions, two call sites; texts of 4, 5, 6, 9 and 10 symbols of 2, two blocks; 3 functions and foreign code, 6 lines, depth 3, cut at 2 |
| `insn` | every instruction and every BL call is shown with its own result; late annotations stand by their instruction; the cache keeps the pending access | every program of 3 instructions over four menus (libc; system calls; JNI; calls by BLR, BR and an unresolved stub among the others), 8 stubs, 2 wrappers, run twice; 2 sets of 2 ways; one callback of another session between the runs |
| `jni` | exception and local references as before; chained helpers make no forbidden call; signatures partial only after a throw | 5 members, one of each sort; a function for each family of handlers; 2 local frames |
| `unidbg` | dumped pages are those of the entry; dumps complete but for files that cannot be created; the finisher finds no stale session | 2 threads, 3 pages (a mapping of two, a huge one), 2 handles at one address, 2 calls, 2 writes |
| `tags` | regions shown are of a map current since the last noticed change, or since the table was last read, whatever freeTrace() drops meanwhile | 2 threads, 3 segments, two layouts (a library of two segments; another loaded where it was), 2 changes, 1 freeTrace(), 3 lookups, memory of freed tables reused |

Expected to be violated are `tags_stale` (`TablesAlive`), `session_stale` (`NoStaleClone`) and `file_lock` (`CrashProceeds`),
each on the smallest instance that meets the case; Findings says what they show, and how TLC shows the rest.

Why the bounds are enough.  The buffer protocol's behaviours depend on which
buffer is out and on whether a text fits, fills or overflows: two bytes show all
three, seven bytes alternate the buffers several times, and the theorems cover
every size.  Two sessions on a connection, a third that re-opens it, and one
address more than live sessions are what the reference count and the stale entries need.  A frame
mix-up needs two clones; a file-name clash two connections.  Two lines fill the buffer of
`FileTrace`, so seven instructions give a full buffer, a call, a return, a second
call and a crash at each point.  What an annotation could be confused with is the
one before or after it, so three instructions with a helper, stubs and wrappers behind
them, over every combination of a menu, put each kind next to each other; a second run meets what the first left in the
`TraceInfo` and the cache.  With two ways and two sets the 16 addresses evict each other all the time
(`CleanInterval = 5` adds clean-ups); the theorem covers every geometry.  A JNI handler's effects
end with the handler: one call from each state of exception and frames decides.
Two threads, two handles at one address and two writes are what a stale entry and a
page saved too late need.  A last hit that hides a change needs one lookup before
and one after it, and a rebuild by another thread in between: two threads, two changes, three lookups; `AddressTagsProofs` covers every number of them.  The format's numbers in `file` are scaled so that `MFLimit`,
`LastLits`, `RunMask`, `ByteMax` and `Window` are all passed by texts of ten symbols; 5 and 6 are
the longest text that is not searched and the shortest that is (12 and 13 in the code).
Names like `MaxBytes`, `MaxInits`, `MaxSpurious`,
`MaxTraces`, `MaxLines`, `MaxRounds`, `MaxInsns`, `MaxSignals`, `MaxRuns`, `MaxOthers`, `MaxRefs`,
`MaxFrames`, `MaxMasters`, `MaxCalls`, `MaxWrites`, `MaxBlocks`, `MaxDepth`, `MaxVersion`, `MaxFrees`, `MaxLookups` are bounds of the model,
not of the code; `MaxIndex` stands for the 10000 of `find_next_index`.  With
`MaxSignals = 1` the runs look at the first signal; a handler that survives it
(`Recovers`) leaves a closed file behind.

Symmetry is used in safety runs only.  Deadlock is checked in every passing run.  `Terminated` or `Done` is the
one way to stop, but for `Stuck` in `MCFileTools`: in TCP mode handler and traced thread really can stop for ever on `bg_mtx` (`file_lock`).

Fairness.  `DirectWriteBuf`: weak fairness of the owner inside a call and of the
worker, since the kernel schedules both; which call comes next is free.
`TraceSession`: calls of trace() and freeTrace() under way go on, an `accept()`
ends (the receiver connects, or it fails); without this `CallsReturn` is false by
design, for the spin lock is held meanwhile.  `TraceWire`: workers, a freeTrace()
under way and the receiver go on.  `FileTrace`: code inside trace_code and in the
handler goes on, guest code and signals are left alone.  The other modules state
safety only: their code runs to the end on one thread.

## Proofs

`DirectWriteBufProofs` proves, for every buffer size, every set of text lengths
and every bound:

* `TypeCorrect`, `Invariance` (the inductive invariant), and from it
  `NoOverlapAlways`, `NoLostWakeup`, `DestroyDrainsAlways`, `StreamIntactAlways`;
* `Refinement`: `Spec => ImplementsDoubleBuffer`, the threads implement `DoubleBuffer`.

The properties are not inductive by themselves.  `IInv` adds: who holds the mutex
at which point (`LockInv`); that a buffer is out exactly from the hand-over to the end
of the worker's loop body, that it is the one the owner does not fill, and that shutdown is raised
only when nothing is out (`ProtocolInv`); who may sleep (`SleepersHaveNoWork`, part of it because
the one notify would otherwise be lost in the induction); and which
byte is where (`DataInv`, a formula about indices, from which the sequence
equation of `StreamIntact` is derived).  The refinement needs the same invariant: a
step of the hand-over is a `Handoff` because `Handed` is empty when `bg_idle` holds.
The only assumptions are those named in the module: a positive
buffer size, positive text lengths and natural bounds.

`UnidbgDumpProofs` proves `TypeCorrect`, `Invariance`, `DumpIsEntryAlways`, `DumpCompleteAlways` and
`NoStaleSessionAlways` for any set of threads, pages, mappings and any bounds.
`DumpIsEntry` alone is not inductive: it says what has been dumped, not what will be.  `IInv` adds
`Faithful` (in every session, each page in memory, in the snapshot or in the dump holds the entry value unless
it is foreign, and a session without an entry has none of them), `UpToDate` (somebody is inside only while
there is a handle, and who is inside has the entry captured and no dump marked as returned), and
for stale sessions `TlsInv`: an entry of a thread names a session that was made, and one under an address of a
finished handle is never the finisher's.

`InsnTraceProofs` first shows that `get`, `put`, `putRegAccess`, `trimCold` and `clear` keep a cache `Good`
(`CacheSound`, typed, blank entries blank), that the front entry survives `trimCold`, and that an eviction never frees
the front entry of a set of more than one way.  On these it proves `CacheKeepsPendingAlways`: the instruction whose
access is pending is in front of its set until the next instruction has been
fetched (`PendFront` in `IInv`), and what is put then evicts the last way.  It assumes `Ways > 1` (the code has 4) and
`~Shared`: with another thread tracing at the same time the property is false (see
Findings), as the code has one cache without a lock.

`AnnotationsOfOwnLineAlways` says that what is printed a callback late (a call, its return, a system call) stands
behind the line of its own instruction.  Its invariant `NInv` says that the annotations printed so far do, and that
while one is owed (`Owes`) the next callback is one of an instruction that is shown, and so prints it: the tracer is
not skipping a stub and not inside a wrapper.  It assumes `~Shared` and `~LongLines` (the clean-up of a long
builder drops the pending line, see Findings), and of programs that they do not run off their end and branch to
addresses they have (`InsnAssumption`).

`AddressTagsProofs` proves `Invariance` and `RegionsTrueAlways` for any number of threads, segments, libraries,
symbols and layouts, without a bound on lookups, changes or calls of freeTrace() other than that the bounds are numbers.
`RegionsTrue` speaks of what is shown; `IInv` adds how it gets there: the lock is held exactly between `LockRegions`
and `findPtrRegion` (`Locked`), no copy is of a later generation than the engine's (`Generations`), a table of the
present generation is a recent map unless its rebuild is under way (`TableRecent`), so is the last hit of a thread
(`HitsRecent`), and what a lookup has found so far is a map of its own window (`Windows`).  The order in
the code carries it: the generation is read before the map, so a copy can be newer than its generation
says but never older; an unread rebuild breaks that, and then the copy is in `left`.  Nothing is assumed of the layouts, of when freeTrace()
is called or of the allocator.  `NamesTrue` and `ModulesTrue` are violated and not proved of anything less.

`TraceSessionProofs` proves, for any number of threads, functions, addresses and sessions and with reuse of
addresses, `Invariance`, `RefcountExactAlways`, `ClonesOnOpenSocketAlways`, `FreedSessionsCompleteAlways` and
`Refinement` (the sessions implement `SharedConnection`).  Each assumes `~AutoTrace`: with hooks on two
threads `TraceReuse` overwrites the socket of a master that has one, and a reference is lost (see Findings), so
the count is not exact.  The count changes in one step and the set it counts in another place (a `pc`, the `fd`
of a master), so `IInv` says where each call is: what a thread is doing (`Control`), that numbers are used
once and a master sits where it was put (`Numbers`), what the map of functions points to (`Mapped`), that one call
at a time is busy with a function and nobody runs in its session (`Alone`, the contract `Quiet` carried
through the call), who has the lock and the socket, and that only a master about to be
deleted is without one (`Connected`), and that clones belong to live sessions that are not past their
loop (`Cloned`).  Every step then leaves the set of users alone, lets one session join or lets
one leave (`ConnectionStep`), and a step that leaves nobody puts the end frame: these are the
steps of `SharedConnection`.

`FreedSessionsCompleteAlways` follows where text can be (`TextInv`): text that is pending or buffered belongs to a clone that
exists; g_trace_clone_lock is held exactly from `FreeLock` to `FreeUnlock`; between `FreeWrite` and `FreeDestroy` the clone in hand is one of
the session being freed and has nothing pending any more; an entry of a thread-local table names a session that was put at that address.
That no thread appends meanwhile is the contract `Quiet`; that no thread of another session
finds the clone is `FoundIs`.  `SocketOutlivesSessionsAlways` follows from `IInv`.

`TraceWireProofs` proves `Invariance` and `FramesIntactAlways` for any number of clones, lines and connections.
Header and body are two sends; `IInv` says that the mutex is held exactly from before the one until after the
other (`LockInv`), that at most the last frame on the wire is without its body, and then it is the
one whose sender holds the mutex, or the app has been killed (`OpenEnd`), and that what the receiver
has read ends at the piece the wire starts with (`Framed`).  It uses no more of the
constants' assumptions than that bounds are numbers and "free" names no clone.

`LogsArePrefixesAlways` and `EndMeansCompleteAlways` follow a line further, with `LogInv` over `IInv`: what
the logs of a thread hold is the first `Got` lines of its clone, each at one position (`Ordered`); the frame the receiver has
the header of, the frames on the wire, the one being sent and the buffer continue it without a gap (`Journey`,
`Buffers`), as long as nobody has been killed and the receiver listens; and a thread's log is the
one its index names (`LogTyped`).  The argument about a log is one about the positions in it
(`LinesOf`) and their number, so that no induction over sequences is needed.

`FileTraceProofs` proves `Invariance`, `CrashKeepsTraceAlways`, `FirstSiteFlushesAlways` and `NoHolesAlways` for
every buffer size, number of instructions and set of call sites, in file mode and in TCP mode.  It has two parts.
The first is about files as data: what `FlattenSeq` does to one more text (`FlattenAppend`), what `decode_frames`
reads (`DecodeReads`), and what one more piece does to a file of whole frames, to one that
ends in a header, and to one that is torn (`HeaderAppended`, `BodyAppended`, `HeaderTwice`, `TornAppended`).  Where
that needs an induction it takes the least index for which the claim fails (`LeastNat`, from the library's
`WFMin`).  The second is the invariant.  Until the first signal, and in the handler of a signal that hit traced code,
files, buffer and pending line are the text in this order, whoever of the two actors is at work and
wherever in flush() it is (`Exact`; between body and reset of `pos` the buffer is in the file as well).  After a signal inside
trace_code the buffer may be in the file already and the pending line in the buffer, so `Saved` says less: lines 1 to n decode,
and what is in memory joins them without a gap, or the file ends in the header of the frame
that was interrupted, and nothing the handler appends is read.  `Call` keeps what happens at
a call and a return of the target: nothing is pending outside of it, and after its first line `entryLr` is one of the call sites.
The assumptions are those without which the properties are false (see Findings): the target does not call itself
(`~Recursive`); for `CrashKeepsTraceAlways` and `NoHolesAlways` also that only one signal
is survived (`OneCrash`), for the handler closes the file.  Nothing is assumed of the call sites.

`JniGuardProofs` proves `Invariance` and `HandlersTransparentAlways` with no assumption on the constants: whichever calls
fail, in memory shortage too.  Its first part is about the helpers as data: each is `Balanced` (a reference it makes is
deleted further on, before its variable is used again and before the loop turns), `Framed` (nothing but the guard is outside
its local frame, and in there nothing runs without the frame) or `Calm` (it runs helpers only).  The second is the invariant.
`Sees` says of an activation at any of its statements what it owes: as many references in the top frame as it holds,
one more for the exception the guard saved, or a frame; `Chain` says that the innermost one sees the present
environment and every other one the environment that the helper it runs has found.  So a
helper that ends, in whatever way, has changed nothing for its caller, by induction on the steps and not on the
nesting.

`ChainedCallsCleanAlways` adds `Safe`, inductive over it, also while memory is short.  `Ready`: in a
`Chained` helper each call that ART would refuse needs the result of an earlier one, and the results of the calls to come
are not known yet; so when a call throws, none of the later ones has its handles (`Dead`), up to the guard that clears.
It covers `getJClassName`, `print_jstring`, `print_jobject_safe`, `print_jobject_or_string` and `getMethodInfoResolved`.

`PartialOnlyAfterThrowAlways` rests on `CInv`, once more inductive over `IInv`.  What the two reflection helpers do is listed in
`MethodRows` and `FieldRows`, statement by statement.  From the lists follows what each statement finds if no call fails
(`Finds`): all it needs of the handles that the member's sort has (`Found`: a constructor has no `getName` and no
return type) was given by an earlier statement, and by one outside the loop unless it is in the loop itself.
So a reflection has a call of its own that threw, has found nothing but its frame, or it `Gathers`: it has what its statements
gave, and its place in the program, the parameter it is at and the number of pieces agree (`SigOf`).
The last gets to the write with a signature that has all its pieces.  The other helpers
never write what they found, and run the reflection that fits the member (`Asks`).  `CInv` was checked by TLC on
the instance of `MCJniGuard` before it was proved.  Neither theorem assumes anything of the constants.

Only model-checked: liveness (fairness and ENABLED are out of the prover's
reach); `SocketOutlivesSessions` with hooks; `BlCallsShown` of `InsnTrace`.  `Lz4Block` and `CallTree` have RECURSIVE operators, and what
a recursive definition computes for every input is an induction over data,
which the installed provers cannot do.

## Findings

Each contradicts a comment or a document.  The first three are runs.  For the others TLC finds the property named in
brackets violated when it is checked alone on the instance named after it: the cfg of a passing run, with the constants given changed.

1. `tags_stale`: `appendRegionTag` keeps the symbol table of a thread's last hit as a bare pointer, and
   renews it only when the region or the generation changes.  freeTrace() frees all tables
   (`clearSymbolCache`, `EastTrace.cpp:1537`), so the first data address of the next session in the same region
   is looked up in freed memory, although `FuncCallTrace.cpp:520` calls the pointer stable (`TablesAlive`).
2. `session_stale`: freeTrace() clears the TLS entry of the calling thread only.  A thread that ran the
   freed session keeps a pointer to its deleted clone, and finds it if a new session is allocated at the same address
   (`NoStaleClone`; `EastTrace.cpp:1508`).
3. `file_lock`: in TCP mode the crash handler can wait for the
   mutex its own thread holds, although the comment says it takes no lock (`CrashProceeds`; `EastTrace.cpp` 1573, 1579).
4. The demangle caches (`EastTrace.cpp` 38-61, `FuncCallTrace.cpp` 32-56) are keyed by
   the address of a mangled name, and `clearSymbolCache()` frees it; another name
   allocated there is shown as the old one (`NamesTrue`; `EastTrace.cpp:39`).
   Instance: `MCAddressTags.cfg`, `Layouts <- MCApart`.
5. The symbol tables are keyed by load address, so a library loaded where another was gets its names
   (`NamesTrue`; `FuncCallTrace.cpp:519`).
   Instance: `MCAddressTags.cfg`, `MaxFrees = 0`.
6. Code in anonymous memory where a library was is shown as the library, for the list of libraries is read
   again only for an address it does not have (`ModulesTrue`; `LibraryUtils.cpp:89`).
   Instance: `MCAddressTags.cfg`, `Layouts <- MCUnloaded`.
7. When `/proc/self/maps` cannot be opened the table stays but its generation moves on, and
   the change is not looked at again (`SkippedIfCurrent`; `FuncCallTrace.cpp` 382, 433, 440).
   Instance: `MCAddressTags.cfg`.
8. A second round of automatic tracing, while a
   thread of the first still runs, wraps the same start routine again, and
   `destroyPreviousTraceSession()` frees the session that thread executes in
   (`RunsLiveSession`; `EastTrace.cpp:1350` says rounds are independent).
   Instance: `MCTraceSessionHooks.cfg`.
9. Hooks on two threads wrap one start routine twice, as the cache is looked up and filled in two critical
   sections (`WrappedOnce`; `EastTrace.cpp` 1292, 1331, 1339).  The second wrapping overwrites the socket of the master the first has
   made (`TraceReuse`), whose reference is then never dropped.
   Instance: `MCTraceSessionHooks.cfg`.
10. `entryLr` is set once per clone, so a target called from a
   second place does not flush when it returns (`ReturnFlushes`; `EastTrace.cpp:777`).  `FirstSiteFlushes` is what holds.
   Instance: `MCFileTools.cfg`.
11. The line of a recursive call instruction is in neither
   file, for `openNextTraceFile()` resets the builder (`CrashKeepsTrace`; `docs/TRACE.md:71`).
   Instance: `MCFileTools.cfg`, `Recursive = TRUE`.
12. A call by BLR or BR of libc or JNI is not annotated, for the block hook the comments speak of is gone
   (`TraceIsIdeal`; `EastTrace.cpp:1195`, `docs/TRACE.md:175`).
   Instance: `MCInsnTrace.cfg`, `Programs <- MCByRegister`.
13. After a tail call (B instead of BL) into a stub the tracer waits for
   a return to the next instruction, which never comes, and takes a later visit of it for the
   return (`TraceIsIdeal`; `EastTrace.cpp` 1104-1106, 1183).
   Instance: `MCInsnTrace.cfg`, `Programs <- MCTailCalls`.
14. The periodic clean-up frees a builder of more than 8 KB with the
   pending line in it (`BlCallsShown`; `EastTrace.cpp:1098`).
   Instance: `MCInsnTrace.cfg`, `LongLines = TRUE`.
15. A file opened by libc and closed by a system call, or the
   other way round, keeps its name in the other table (`FdTablesTrue`); `svc_handler.h:27` says the
   table is shared by [CALL] and [SVC], but [CALL] uses the master's and [SVC] the clone's.
   Instance: `MCInsnTrace.cfg`, `Programs <- MCMixed`.
16. Another thread's eviction or freeTrace() frees the instruction
   a pending access points to (`CacheKeepsPending`; `docs/TRACE.md:11` says several threads are supported).
   Instance: `MCInsnTrace.cfg`, `Programs <- MCLoads`, `Shared = TRUE`, `MaxOthers = 4`.
17. After a throw of `getParameterTypes` and the like the reflection helper calls on with the
   exception pending (`NoCallUnderException`; `JniTrace.cpp` 108, 689), and caches what it has as the signature
   (`CachedInfoComplete`; `JniTrace.cpp:815`).
   Instance: `MCJniGuard.cfg`.
18. Pages whose file cannot be created count as dumped and are never written (`LostIsRetried`;
   `TraceUnidbgDump.cpp` 407, 489, 501).
   Instance: `MCUnidbgDump.cfg`.
19. A thread other than the finisher keeps its TLS entry, and uses the deleted session through a new handle at the same address
   (`OtherEntriesUnused`; `TraceUnidbgDump.cpp:691`).
   Instance: `MCUnidbgDump.cfg`.
20. After a call of code without lines the script takes the return address for a function, whose entry stays on
   its stack; a tail call is not counted, and its callee's calls go to the function that left (`EdgesAreCalls`; `docs/TRACE.md:249`).
   `CallsCounted` is what holds.
   Instance: `MCFileTools.cfg`, `Which = {"tree"}`, `Leaves = FALSE` or `TailCalls = FALSE`, `MaxLines = 7`.
21. A function first met where the tree is cut counts as expanded, so later lines refer to a
   line that shows nothing (`SeeShowsCallees`; `build_calltree.py` 71, 86).
   Instance: `MCFileTools.cfg`, `Which = {"tree"}`, `Leaves = FALSE`, `TailCalls = FALSE`, `MaxLines = 9`.

Read in the code and not modelled: sessions the hook makes are never freed, so with automatic tracing
the stream is not ended by the app's last `freeTrace()` (docs/TRACE.md:225 says it
is); they have automatic tracing off, so grandchildren run untraced
(docs/TRACE.md:63 says they are traced); `find_next_index` returns 0 when all
names are taken and log 0 is overwritten (docs/TRACE.md:238); the receiver ends
after 30 s of silence though the trace goes on; `ownedFd` is stale after
`closeFromSignal()`; SIGTERM inside flush() loses or repeats text around the
interrupted frame, so inside a callback `file` checks `NoHoles` and not
`CrashKeepsTrace`.

JNI: the handlers of `Release*Critical` (`JniTrace.cpp` 2805, 2874) call JNI inside the critical
region; printing an object runs the app's `hashCode()`, also on the unconstructed
object of `AllocObject` and under the app's monitors; `NewObjectV` and `ToReflected*` resolve
the class of the class object (the name `java/lang/Class` is cached and not
printed); `print_va_args_from_sig` takes a general register for F and D parameters; one
`g_jni_oss` serves nested JNI calls, so the inner one overwrites the outer.

Dump: a second call that is left without `on_emu_stop()` is never dumped; old `.bin` files in the
directory stay.  Call tree: `retaa` and `blraa` are not recognised.

Memory and threads: the memory hook, on a context that traces nothing, writes through
`tls_trace_active_dwbuf`, which another session's freeTrace() may have left dangling (`TraceMemoryHook.cpp:51`); `pthread_create` of
the worker is not checked (`DirectWriteBuf.h:170`); the vector `libs` of `LibraryUtils.cpp` has no lock;
`loadSymbolTableForSo` reads the ELF magic at a base that may have been unmapped.

Symbols and printers: `findContaining` misses an enclosing symbol when a nested or empty one
precedes the address; `appendMemoryHexdump` ignores shift and extension of an
index register and prints the whole register for byte, halfword and `w` stores; operands of the form `[xN]` are never
annotated (docs/TRACE.md 167-171 shows one); `regAccessPrinterImpl` stops at the first register that points to unmapped memory.

## Plan

Written: the buffer, the sessions, the wire, the crash path; the instruction
pipeline with its cache; the JNI handlers; the dump; the names of addresses; compressor and call tree.
Left, in this order:

1. Proofs: `BlCallsShown` of `InsnTrace`; `SocketOutlivesSessions` with hooks.
2. The memory hook.
3. File-mode sessions: several clones in the crash handler and in freeTrace().

## Not modelled

Formatting of lines, registers, strings and hexdumps, the tables of argument
formats of libc functions and system calls: wording.  ELF and
`/proc/self/maps` parsing, safe reads: I/O without state.  libvcpu: closed, its
callbacks appear as external actions.  Demo, Dobby, capstone, unicorn, dlfc: third
party.  Some 18,000 of the repository's 29,000 lines are vendored headers; they have no behaviour of
this program in them and no definition maps to them.
