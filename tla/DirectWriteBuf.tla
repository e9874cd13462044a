--------------------------- MODULE DirectWriteBuf ---------------------------
(***************************************************************************)
(* One DirectWriteBuf in TCP mode (trace/include/DirectWriteBuf.h): the    *)
(* traced thread ("owner") fills bufs[active] and hands full buffers to a  *)
(* background thread ("worker") that compresses them and sends one frame   *)
(* per buffer.  The two meet at bg_mtx and at the single condition         *)
(* variable bg_cv, on which both wait, for different predicates.           *)
(*                                                                         *)
(* The k-th byte the owner ever puts in the buffer is the number k, so the *)
(* memory of a buffer tells exactly which bytes it holds; 0 is a byte of   *)
(* fresh zero-filled mmap memory.                                          *)
(***************************************************************************)
EXTENDS Integers, Sequences

CONSTANTS
  BufSize,      \* DW_BUF_SIZE, in bytes
  Lens,         \* lengths of the pieces of text passed to write()
  MaxBytes,     \* bound: bytes written over all the lives of the buffer
  MaxInits,     \* bound: calls of init_tcp (openNextTraceFile re-creates it)
  MaxSpurious   \* bound: spurious wake-ups of bg_cv

ASSUME BufAssumption ==
  /\ BufSize \in Nat \ {0}
  /\ Lens \subseteq Nat \ {0}
  /\ MaxBytes \in Nat
  /\ MaxInits \in Nat \ {0}
  /\ MaxSpurious \in Nat

VARIABLES
  mem,          \* bufs[0], bufs[1]: their contents
  pos, active,  \* fill level and index of the buffer being filled
  bg_mtx,       \* holder of bg_mtx, or "free"
  sleepers,     \* threads blocked in bg_cv.wait
  bg_pending, bg_shutdown, bg_idle, bg_buf_idx, bg_size,
  pc, after,    \* the owner: where it is, where the flush in progress returns
  todo,         \* len - off: bytes of the current write() not yet copied
  wpc,          \* the worker: where it is
  idx, size,    \* the worker's locals
  comp_buf,     \* what the compressed frame decodes to
  written,      \* bytes copied into the buffer so far
  sent,         \* the bytes of all frames given to the socket, in order
  inits, spurious

ownerVars == <<pc, after, todo, written, mem, pos, active, inits>>
bgVars == <<bg_pending, bg_shutdown, bg_idle, bg_buf_idx, bg_size>>
workerVars == <<wpc, idx, size, comp_buf, sent>>
vars == <<ownerVars, bg_mtx, sleepers, bgVars, workerVars, spurious>>

Threads == {"owner", "worker"}
OwnerPCs == {"run", "flush", "flush_locked", "flush_asleep", "flush_unlock",
             "rest", "chunk", "dst", "dst_locked", "dst_asleep",
             "dst_notify", "dst_join", "gone"}
WorkerPCs == {"lock", "locked", "asleep", "compress", "send", "relock",
              "relocked", "exited"}

-----------------------------------------------------------------------------
(* Operators shared by the actions.                                        *)

\* Mutant of CopyIn: the copy starts on the last byte already there.
CopyInOverlapping(b, at, n) ==
  mem' = [mem EXCEPT ![b] = [i \in 1..BufSize |->
            IF i \in at..at+n-1 THEN written + (i - at) + 1 ELSE mem[b][i]]]

\* inline_memcpy / memcpy of the next n bytes to bufs[b] + at.
CopyIn(b, at, n) ==
  mem' = [mem EXCEPT ![b] = [i \in 1..BufSize |->
            IF i \in at+1..at+n THEN written + (i - at) ELSE mem[b][i]]]

\* write(): is there room for the text behind pos?
Fits(len) == pos + len <= BufSize

\* bg_mtx.lock() succeeds for thread t.
Lock(t) == bg_mtx = "free" /\ bg_mtx' = t

\* bg_cv.wait: atomically release bg_mtx and block.
Sleep(t) == bg_mtx' = "free" /\ sleepers' = sleepers \cup {t}

\* Mutant of NotifyOne and NotifyAll: the notify is forgotten.
NotifyNobody == sleepers' = sleepers

\* flush(): bg_cv.notify_one() wakes one of the blocked threads, whichever.
NotifyOne == IF sleepers = {} THEN sleepers' = sleepers
             ELSE \E t \in sleepers : sleepers' = sleepers \ {t}

\* bg_worker(), destroy(): bg_cv.notify_all().
NotifyAll == sleepers' = {}

\* Mutant of OwnerMayGo: the buffer counts as free once the worker took it.
OwnerMayGoEarly == ~bg_pending

\* The predicates of the two waits.
WorkerCalled == bg_pending \/ bg_shutdown
OwnerMayGo == bg_idle

-----------------------------------------------------------------------------
(* The owner: write(), flush(), destroy(), init_tcp().                     *)

\* write(): the text fits behind pos.
WriteFits(len) ==
  /\ pc = "run" /\ written + len <= MaxBytes
  /\ Fits(len)
  /\ CopyIn(active, pos, len)
  /\ pos' = pos + len
  /\ written' = written + len
  /\ UNCHANGED <<pc, after, todo, active, inits, bg_mtx, sleepers, bgVars,
                 workerVars, spurious>>

\* write(): the text does not fit, flush() comes first (a no-op if pos = 0).
WriteOverflows(len) ==
  /\ pc = "run" /\ written + len <= MaxBytes
  /\ ~Fits(len)
  /\ todo' = len
  /\ after' = "rest"
  /\ pc' = IF pos = 0 THEN "rest" ELSE "flush"
  /\ UNCHANGED <<written, mem, pos, active, inits, bg_mtx, sleepers, bgVars,
                 workerVars, spurious>>

\* write(), after the flush: a text of at most one buffer is copied whole.
WriteRest ==
  /\ pc = "rest" /\ todo <= BufSize
  /\ CopyIn(active, 0, todo)
  /\ pos' = todo
  /\ written' = written + todo
  /\ todo' = 0
  /\ pc' = "run"
  /\ UNCHANGED <<after, active, inits, bg_mtx, sleepers, bgVars, workerVars,
                 spurious>>

\* write(), after the flush: a longer text goes chunk by chunk, each flushed.
WriteChunk ==
  /\ \/ pc = "rest" /\ todo > BufSize
     \/ pc = "chunk" /\ todo > 0
  /\ LET chunk == IF todo > BufSize THEN BufSize ELSE todo
     IN /\ CopyIn(active, 0, chunk)
        /\ pos' = chunk
        /\ written' = written + chunk
        /\ todo' = todo - chunk
  /\ pc' = "flush"
  /\ after' = "chunk"
  /\ UNCHANGED <<active, inits, bg_mtx, sleepers, bgVars, workerVars, spurious>>

\* write(), the last chunk is flushed: return.
WriteDone ==
  /\ pc = "chunk" /\ todo = 0
  /\ pc' = "run"
  /\ UNCHANGED <<after, todo, written, mem, pos, active, inits, bg_mtx,
                 sleepers, bgVars, workerVars, spurious>>

\* A periodic flush(), or the one openNextTraceFile makes before destroy().
CallFlush ==
  /\ pc = "run" /\ pos > 0
  /\ pc' = "flush"
  /\ after' = "run"
  /\ UNCHANGED <<todo, written, mem, pos, active, inits, bg_mtx, sleepers,
                 bgVars, workerVars, spurious>>

\* Mutant of CallDestroy: what is left in the buffer is not flushed.
CallDestroyUnflushed ==
  /\ pc = "run"
  /\ after' = "dst"
  /\ pc' = "dst"
  /\ UNCHANGED <<todo, written, mem, pos, active, inits, bg_mtx, sleepers,
                 bgVars, workerVars, spurious>>

\* destroy(): flush what is left, then stop the worker.
CallDestroy ==
  /\ pc = "run"
  /\ after' = "dst"
  /\ pc' = IF pos > 0 THEN "flush" ELSE "dst"
  /\ UNCHANGED <<todo, written, mem, pos, active, inits, bg_mtx, sleepers,
                 bgVars, workerVars, spurious>>

\* flush() or destroy() takes bg_mtx, the first time or out of bg_cv.wait.
OwnerLock ==
  /\ \/ pc \in {"flush", "dst"}
     \/ pc \in {"flush_asleep", "dst_asleep"} /\ "owner" \notin sleepers
  /\ Lock("owner")
  /\ pc' = IF pc \in {"flush", "flush_asleep"} THEN "flush_locked"
                                               ELSE "dst_locked"
  /\ UNCHANGED <<after, todo, written, mem, pos, active, inits, sleepers,
                 bgVars, workerVars, spurious>>

\* The worker is still busy: bg_cv.wait blocks.
OwnerSleep ==
  /\ pc \in {"flush_locked", "dst_locked"} /\ ~OwnerMayGo
  /\ Sleep("owner")
  /\ pc' = IF pc = "flush_locked" THEN "flush_asleep" ELSE "dst_asleep"
  /\ UNCHANGED <<after, todo, written, mem, pos, active, inits, bgVars,
                 workerVars, spurious>>

\* flush(): hand bufs[active] over and switch to the other buffer.
FlushHandoff ==
  /\ pc = "flush_locked" /\ OwnerMayGo
  /\ bg_buf_idx' = active
  /\ bg_size' = pos
  /\ bg_idle' = FALSE
  /\ bg_pending' = TRUE
  /\ active' = 1 - active
  /\ pos' = 0
  /\ NotifyOne
  /\ pc' = "flush_unlock"
  /\ UNCHANGED <<after, todo, written, mem, inits, bg_mtx, bg_shutdown,
                 workerVars, spurious>>

\* flush() returns: bg_mtx is released.
FlushUnlock ==
  /\ pc = "flush_unlock"
  /\ bg_mtx' = "free"
  /\ pc' = after
  /\ UNCHANGED <<after, todo, written, mem, pos, active, inits, sleepers,
                 bgVars, workerVars, spurious>>

\* destroy(): all frames are out; raise bg_shutdown and release bg_mtx.
DestroyShutdown ==
  /\ pc = "dst_locked" /\ OwnerMayGo
  /\ bg_shutdown' = TRUE
  /\ bg_mtx' = "free"
  /\ pc' = "dst_notify"
  /\ UNCHANGED <<after, todo, written, mem, pos, active, inits, sleepers,
                 bg_pending, bg_idle, bg_buf_idx, bg_size, workerVars, spurious>>

\* destroy(): notify_all, outside the critical section.
DestroyNotify ==
  /\ pc = "dst_notify"
  /\ NotifyAll
  /\ pc' = "dst_join"
  /\ UNCHANGED <<after, todo, written, mem, pos, active, inits, bg_mtx,
                 bgVars, workerVars, spurious>>

\* destroy(): pthread_join returns, the buffers are unmapped.
DestroyJoin ==
  /\ pc = "dst_join" /\ wpc = "exited"
  /\ pc' = "gone"
  /\ UNCHANGED <<after, todo, written, mem, pos, active, inits, bg_mtx,
                 sleepers, bgVars, workerVars, spurious>>

\* init_tcp() on the destroyed buffer: fresh memory, flags and worker.
InitTcp ==
  /\ pc = "gone" /\ inits < MaxInits
  /\ inits' = inits + 1
  /\ mem' = [b \in {0, 1} |-> [i \in 1..BufSize |-> 0]]
  /\ pos' = 0
  /\ active' = 0
  /\ bg_pending' = FALSE
  /\ bg_shutdown' = FALSE
  /\ bg_idle' = TRUE
  /\ pc' = "run"
  /\ wpc' = "lock"
  /\ UNCHANGED <<after, todo, written, bg_mtx, sleepers, bg_buf_idx, bg_size,
                 idx, size, comp_buf, sent, spurious>>

-----------------------------------------------------------------------------
(* The worker: bg_worker().                                                *)

\* Top of the loop, or out of bg_cv.wait: take bg_mtx.
WorkerLock ==
  /\ wpc = "lock" \/ (wpc = "asleep" /\ "worker" \notin sleepers)
  /\ Lock("worker")
  /\ wpc' = "locked"
  /\ UNCHANGED <<ownerVars, sleepers, bgVars, idx, size, comp_buf, sent, spurious>>

\* Nothing to do: bg_cv.wait blocks.
WorkerSleep ==
  /\ wpc = "locked" /\ ~WorkerCalled
  /\ Sleep("worker")
  /\ wpc' = "asleep"
  /\ UNCHANGED <<ownerVars, bgVars, idx, size, comp_buf, sent, spurious>>

\* Shut down with nothing pending: leave the loop.
WorkerExit ==
  /\ wpc = "locked" /\ bg_shutdown /\ ~bg_pending
  /\ bg_mtx' = "free"
  /\ wpc' = "exited"
  /\ UNCHANGED <<ownerVars, sleepers, bgVars, idx, size, comp_buf, sent, spurious>>

\* Take the handed-over buffer and release bg_mtx.
WorkerTake ==
  /\ wpc = "locked" /\ bg_pending
  /\ idx' = bg_buf_idx
  /\ size' = bg_size
  /\ bg_pending' = FALSE
  /\ bg_mtx' = "free"
  /\ wpc' = "compress"
  /\ UNCHANGED <<ownerVars, sleepers, bg_shutdown, bg_idle, bg_buf_idx,
                 bg_size, comp_buf, sent, spurious>>

\* lz4_compress_block reads bufs[idx] without any lock.
WorkerCompress ==
  /\ wpc = "compress"
  /\ comp_buf' = [i \in 1..size |-> mem[idx][i]]
  /\ wpc' = "send"
  /\ UNCHANGED <<ownerVars, bg_mtx, sleepers, bgVars, idx, size, sent, spurious>>

\* send_all of header and body, under g_tcp_send_mutex.
WorkerSend ==
  /\ wpc = "send"
  /\ sent' = sent \o comp_buf
  /\ wpc' = "relock"
  /\ UNCHANGED <<ownerVars, bg_mtx, sleepers, bgVars, idx, size, comp_buf, spurious>>

\* lk.lock() after the send.
WorkerRelock ==
  /\ wpc = "relock"
  /\ Lock("worker")
  /\ wpc' = "relocked"
  /\ UNCHANGED <<ownerVars, sleepers, bgVars, idx, size, comp_buf, sent, spurious>>

\* The buffer is free again: bg_idle, notify_all, end of the loop body.
WorkerIdle ==
  /\ wpc = "relocked"
  /\ bg_idle' = TRUE
  /\ NotifyAll
  /\ bg_mtx' = "free"
  /\ wpc' = "lock"
  /\ UNCHANGED <<ownerVars, bg_pending, bg_shutdown, bg_buf_idx, bg_size, idx,
                 size, comp_buf, sent, spurious>>

\* bg_cv.wait may return without any notify.
SpuriousWakeup ==
  /\ spurious < MaxSpurious
  /\ spurious' = spurious + 1
  /\ \E t \in sleepers : sleepers' = sleepers \ {t}
  /\ UNCHANGED <<ownerVars, bg_mtx, bgVars, workerVars>>

-----------------------------------------------------------------------------

Init ==
  /\ mem = [b \in {0, 1} |-> [i \in 1..BufSize |-> 0]]
  /\ pos = 0 /\ active = 0
  /\ bg_mtx = "free" /\ sleepers = {}
  /\ bg_pending = FALSE /\ bg_shutdown = FALSE /\ bg_idle = TRUE
  /\ bg_buf_idx = 0 /\ bg_size = 0
  /\ pc = "run" /\ after = "run" /\ todo = 0
  /\ wpc = "lock" /\ idx = 0 /\ size = 0 /\ comp_buf = <<>>
  /\ written = 0 /\ sent = <<>>
  /\ inits = 1 /\ spurious = 0

\* Steps a running owner is bound to take once it is inside a call.
OwnerStep ==
  \/ WriteRest \/ WriteChunk \/ WriteDone
  \/ OwnerLock \/ OwnerSleep \/ FlushHandoff \/ FlushUnlock
  \/ DestroyShutdown \/ DestroyNotify \/ DestroyJoin

\* Calls the trace pipeline decides to make.
OwnerCall ==
  \/ \E len \in Lens : WriteFits(len) \/ WriteOverflows(len)
  \/ CallFlush \/ CallDestroy \/ InitTcp

WorkerStep ==
  \/ WorkerLock \/ WorkerSleep \/ WorkerExit \/ WorkerTake \/ WorkerCompress
  \/ WorkerSend \/ WorkerRelock \/ WorkerIdle

\* The buffer is destroyed for good.
Terminated == pc = "gone" /\ inits = MaxInits /\ UNCHANGED vars

Next == OwnerStep \/ OwnerCall \/ WorkerStep \/ SpuriousWakeup \/ Terminated

Spec == Init /\ [][Next]_vars

\* Both threads are scheduled by the kernel and none is ever descheduled for
\* good; the calls themselves are the program's choice and get no fairness.
FairSpec == Spec /\ WF_vars(OwnerStep) /\ WF_vars(WorkerStep)

-----------------------------------------------------------------------------
(* Properties.                                                             *)

TypeOK ==
  /\ mem \in [{0, 1} -> [1..BufSize -> Nat]]
  /\ pos \in 0..BufSize /\ active \in {0, 1}
  /\ bg_mtx \in Threads \cup {"free"}
  /\ sleepers \subseteq Threads
  /\ bg_pending \in BOOLEAN /\ bg_shutdown \in BOOLEAN /\ bg_idle \in BOOLEAN
  /\ bg_buf_idx \in {0, 1} /\ bg_size \in 0..BufSize
  /\ pc \in OwnerPCs /\ after \in {"run", "rest", "chunk", "dst"}
  /\ todo \in Nat
  /\ wpc \in WorkerPCs /\ idx \in {0, 1} /\ size \in 0..BufSize
  /\ comp_buf \in Seq(Nat)
  /\ written \in Nat /\ sent \in Seq(Nat)
  /\ inits \in Nat /\ spurious \in Nat

\* The worker reads bufs[idx] outside every lock (lz4_compress_block in
\* bg_worker): it is never the buffer write() is filling at that time.
NoOverlap == wpc = "compress" => idx # active

\* bg_cv serves two predicates and flush() notifies only one sleeper: whoever
\* sleeps unnotified has nothing to do. The worker may sleep over bg_shutdown
\* only until destroy() has made its notify_all.
SleepersHaveNoWork ==
  /\ "worker" \in sleepers => ~bg_pending /\ (bg_shutdown => pc = "dst_notify")
  /\ "owner" \in sleepers => ~bg_idle

\* The buffer handed over and not yet on the socket.
InFlight == ~bg_idle /\ wpc \notin {"relock", "relocked"}
Handed == IF InFlight THEN [i \in 1..bg_size |-> mem[bg_buf_idx][i]] ELSE <<>>
Filling == [i \in 1..pos |-> mem[active][i]]

\* No byte is lost, duplicated, reordered or overwritten on its way through
\* write(), flush() and bg_worker(): the socket, the buffer in flight and the
\* buffer being filled hold the text written so far, in this order.
StreamIntact == sent \o Handed \o Filling = [i \in 1..written |-> i]

\* destroy() returns only after all text is on the socket, so the buffers it
\* unmaps are empty and no worker is left to read them.
DestroyDrains == pc = "gone" => Len(sent) = written /\ wpc = "exited"

\* A call of write(), flush() or destroy() returns: no lost wake-up of bg_cv
\* leaves owner and worker waiting for each other.
CallsReturn == pc \notin {"run", "gone"} ~> pc \in {"run", "gone"}

\* What flush() handed over reaches the socket even if the traced thread never
\* calls again: the worker needs no further prodding.
FlushedBytesArrive ==
  \A n \in 1..MaxBytes :
    (pc = "flush_unlock" /\ written = n) ~> Len(sent) >= n

\* The thread protocol implements the abstract double buffer.
DB == INSTANCE DoubleBuffer WITH
        Capacity <- BufSize,
        produced <- written,
        filling <- Filling,
        inFlight <- Handed,
        onSocket <- sent,
        closed <- pc \in {"dst_notify", "dst_join", "gone"}
ImplementsDoubleBuffer == DB!DBSpec
=============================================================================
