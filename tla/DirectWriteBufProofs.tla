------------------------ MODULE DirectWriteBufProofs ------------------------
(***************************************************************************)
(* Proofs about DirectWriteBuf for every buffer size, every set of text    *)
(* lengths and every bound.  The inductive invariant IInv adds to TypeOK   *)
(* the lock discipline (LockInv), the meaning of the flags that owner and  *)
(* worker exchange (ProtocolInv), who may sleep (SleepersHaveNoWork) and   *)
(* which bytes each buffer holds (DataInv).                                *)
(***************************************************************************)
EXTENDS DirectWriteBuf, SequenceTheorems, TLAPS

\* bg_mtx is held exactly inside the critical sections; only a thread inside
\* bg_cv.wait sleeps.
LockInv ==
  /\ bg_mtx = "owner" <=> pc \in {"flush_locked", "flush_unlock", "dst_locked"}
  /\ bg_mtx = "worker" <=> wpc \in {"locked", "relocked"}
  /\ "owner" \in sleepers => pc \in {"flush_asleep", "dst_asleep"}
  /\ "worker" \in sleepers => wpc = "asleep"

\* A buffer is out (~bg_idle) from the hand-over to the end of the worker's
\* loop body, and it is the one the owner does not fill; bg_shutdown is raised
\* only when nothing is out and nothing is left.
ProtocolInv ==
  /\ ~bg_idle <=> bg_pending \/ wpc \in {"compress", "send", "relock", "relocked"}
  /\ bg_pending => wpc \notin {"compress", "send", "relock", "relocked"}
  /\ ~bg_idle => bg_buf_idx = 1 - active /\ bg_size > 0
  /\ wpc \in {"compress", "send"} => idx = bg_buf_idx /\ size = bg_size
  /\ bg_shutdown <=> pc \in {"dst_notify", "dst_join", "gone"}
  /\ bg_shutdown => bg_idle
  /\ wpc = "exited" => bg_shutdown
  /\ pc = "gone" => wpc = "exited"
  /\ pc \in {"flush_unlock", "rest", "chunk", "dst", "dst_locked", "dst_asleep",
             "dst_notify", "dst_join", "gone"} => pos = 0
  /\ pc \in {"flush", "flush_locked", "flush_asleep"} => pos > 0

HandedLen == IF InFlight THEN bg_size ELSE 0

\* Where each byte of the stream is.
DataInv ==
  /\ written = Len(sent) + HandedLen + pos
  /\ \A i \in 1..Len(sent) : sent[i] = i
  /\ InFlight => \A i \in 1..bg_size : mem[bg_buf_idx][i] = Len(sent) + i
  /\ \A i \in 1..pos : mem[active][i] = Len(sent) + HandedLen + i
  /\ wpc = "send" => /\ Len(comp_buf) = bg_size
                     /\ \A i \in 1..bg_size : comp_buf[i] = Len(sent) + i

IInv == TypeOK /\ LockInv /\ ProtocolInv /\ SleepersHaveNoWork /\ DataInv

-----------------------------------------------------------------------------
(* Operators on the buffers.                                               *)

\* inline_memcpy writes n bytes of one buffer and leaves the rest alone.
LEMMA CopyInEffect ==
  ASSUME TypeOK, NEW b \in {0, 1}, NEW at \in Nat, NEW n \in Nat, CopyIn(b, at, n)
  PROVE  /\ mem' \in [{0, 1} -> [1..BufSize -> Nat]]
         /\ mem'[1 - b] = mem[1 - b]
         /\ \A i \in 1..BufSize :
              mem'[b][i] = IF i \in at+1..at+n THEN written + (i - at)
                                               ELSE mem[b][i]
  <1> DEFINE new == [i \in 1..BufSize |->
               IF i \in at+1..at+n THEN written + (i - at) ELSE mem[b][i]]
  <1>1. mem \in [{0, 1} -> [1..BufSize -> Nat]] /\ written \in Nat
    BY DEF TypeOK
  <1>2. mem' = [mem EXCEPT ![b] = new]
    BY DEF CopyIn
  <1>3. mem[b] \in [1..BufSize -> Nat]
    BY <1>1
  <1>4. new \in [1..BufSize -> Nat]
    <2>1. ASSUME NEW i \in 1..BufSize
          PROVE (IF i \in at+1..at+n THEN written + (i - at) ELSE mem[b][i]) \in Nat
      BY <1>1, <1>3, BufAssumption
    <2>2. QED
      BY <2>1
  <1>5. \A i \in 1..BufSize :
          new[i] = IF i \in at+1..at+n THEN written + (i - at) ELSE mem[b][i]
    OBVIOUS
  <1>6. 1 - b \in {0, 1} /\ 1 - b # b
    OBVIOUS
  <1> HIDE DEF new
  <1>7. mem'[b] = new /\ mem'[1 - b] = mem[1 - b]
    BY <1>1, <1>2, <1>6
  <1>8. mem' \in [{0, 1} -> [1..BufSize -> Nat]]
    BY <1>1, <1>2, <1>4
  <1>9. QED
    BY <1>5, <1>7, <1>8

\* The bytes a compressed frame decodes to form a sequence.
LEMMA FrameType ==
  ASSUME NEW n \in 0..BufSize, NEW f \in [1..BufSize -> Nat]
  PROVE  /\ [i \in 1..n |-> f[i]] \in Seq(Nat)
         /\ Len([i \in 1..n |-> f[i]]) = n
  <1>1. n \in Nat /\ 1..n \subseteq 1..BufSize
    BY BufAssumption
  <1>2. \A i \in 1..n : f[i] \in Nat
    BY <1>1
  <1>3. [i \in 1..n |-> f[i]] \in [1..n -> Nat]
    BY <1>2
  <1>4. QED
    BY <1>1, <1>3, SeqDef

-----------------------------------------------------------------------------
\* Every variable keeps its type, whatever the sizes and bounds.
THEOREM TypeCorrect == Spec => []TypeOK
  <1>1. Init => TypeOK
    BY SMTT(60) DEF Init
  <1>2. TypeOK /\ [Next]_vars => TypeOK'
  <2> SUFFICES ASSUME TypeOK, [Next]_vars PROVE TypeOK'
    OBVIOUS
  <2>1. ASSUME NEW len \in Lens, WriteFits(len) PROVE TypeOK'
    <3>1. len \in Nat /\ active \in {0, 1} /\ pos \in Nat /\ CopyIn(active, pos, len)
      BY <2>1, BufAssumption DEF WriteFits, Fits, TypeOK
    <3>2. mem' \in [{0, 1} -> [1..BufSize -> Nat]]
      BY <3>1, CopyInEffect
    <3>3. QED
      BY <2>1, <3>1, <3>2 DEF WriteFits, Fits, TypeOK, bgVars, workerVars
  <2>2. ASSUME NEW len \in Lens, WriteOverflows(len) PROVE TypeOK'
    BY <2>2, BufAssumption
      DEF WriteOverflows, Fits, TypeOK, OwnerPCs, bgVars, workerVars
  <2>3. CASE WriteRest
    <3>1. active \in {0, 1} /\ todo \in Nat /\ CopyIn(active, 0, todo)
      BY <2>3 DEF WriteRest, TypeOK
    <3>2. mem' \in [{0, 1} -> [1..BufSize -> Nat]]
      BY <3>1, CopyInEffect
    <3>3. QED
      BY <2>3, <3>1, <3>2 DEF WriteRest, TypeOK, OwnerPCs, bgVars, workerVars
  <2>4. CASE WriteChunk
    <3> DEFINE chunk == IF todo > BufSize THEN BufSize ELSE todo
    <3>1. active \in {0, 1} /\ chunk \in Nat /\ CopyIn(active, 0, chunk)
      BY <2>4, BufAssumption DEF WriteChunk, TypeOK
    <3>2. mem' \in [{0, 1} -> [1..BufSize -> Nat]]
      BY <3>1, CopyInEffect
    <3>3. QED
      BY <2>4, <3>2, BufAssumption
        DEF WriteChunk, TypeOK, OwnerPCs, bgVars, workerVars
  <2>5. CASE WriteDone
    BY <2>5 DEF WriteDone, TypeOK, OwnerPCs, bgVars, workerVars
  <2>6. CASE OwnerLock
    BY <2>6 DEF OwnerLock, TypeOK, Threads, OwnerPCs, bgVars, workerVars, Lock
  <2>7. CASE OwnerSleep
    BY <2>7, BufAssumption, SMTT(60)
      DEF OwnerSleep, TypeOK, Threads, WorkerPCs, bgVars, workerVars, Sleep,
          OwnerMayGo
  <2>8. CASE FlushHandoff
    <3>1. sleepers' \subseteq Threads
      BY <2>8 DEF FlushHandoff, TypeOK, NotifyOne
    <3>2. 1 - active \in {0, 1}
      BY DEF TypeOK
    <3>3. bg_idle' \in BOOLEAN /\ bg_pending' \in BOOLEAN
      BY <2>8 DEF FlushHandoff
    <3>4. /\ active' \in {0, 1} /\ bg_buf_idx' \in {0, 1}
          /\ pos' \in 0..BufSize /\ bg_size' \in 0..BufSize
      BY <2>8, <3>2, BufAssumption DEF FlushHandoff, TypeOK
    <3>5. pc' \in OwnerPCs
      BY <2>8 DEF FlushHandoff, OwnerPCs
    <3>6. QED
      BY <2>8, <3>1, <3>3, <3>4, <3>5 DEF FlushHandoff, TypeOK, workerVars
  <2>9. CASE FlushUnlock
    BY <2>9 DEF FlushUnlock, TypeOK, OwnerPCs, bgVars, workerVars
  <2>10. CASE DestroyShutdown
    BY <2>10 DEF DestroyShutdown, TypeOK, OwnerPCs, workerVars, OwnerMayGo
  <2>11. CASE DestroyNotify
    BY <2>11 DEF DestroyNotify, TypeOK, OwnerPCs, bgVars, workerVars, NotifyAll
  <2>12. CASE DestroyJoin
    BY <2>12 DEF DestroyJoin, TypeOK, OwnerPCs, bgVars, workerVars
  <2>13. CASE CallFlush
    BY <2>13 DEF CallFlush, TypeOK, OwnerPCs, bgVars, workerVars
  <2>14. CASE CallDestroy
    BY <2>14 DEF CallDestroy, TypeOK, OwnerPCs, bgVars, workerVars
  <2>15. CASE InitTcp
    <3>1. mem' \in [{0, 1} -> [1..BufSize -> Nat]]
      BY <2>15 DEF InitTcp
    <3>2. pos' \in 0..BufSize /\ active' \in {0, 1}
      BY <2>15, BufAssumption DEF InitTcp
    <3>3. bg_pending' \in BOOLEAN /\ bg_shutdown' \in BOOLEAN /\ bg_idle' \in BOOLEAN
      BY <2>15 DEF InitTcp
    <3>4. pc' \in OwnerPCs /\ wpc' \in WorkerPCs /\ inits' \in Nat
      BY <2>15 DEF InitTcp, TypeOK, OwnerPCs, WorkerPCs
    <3>5. QED
      BY <2>15, <3>1, <3>2, <3>3, <3>4 DEF InitTcp, TypeOK
  <2>16. CASE WorkerLock
    BY <2>16 DEF WorkerLock, TypeOK, Threads, WorkerPCs, ownerVars, bgVars, Lock
  <2>17. CASE WorkerSleep
    BY <2>17
      DEF WorkerSleep, TypeOK, Threads, WorkerPCs, ownerVars, bgVars, Sleep,
          WorkerCalled
  <2>18. CASE WorkerExit
    BY <2>18 DEF WorkerExit, TypeOK, WorkerPCs, ownerVars, bgVars
  <2>19. CASE WorkerTake
    BY <2>19 DEF WorkerTake, TypeOK, WorkerPCs, ownerVars
  <2>20. CASE WorkerCompress
    <3>1. mem[idx] \in [1..BufSize -> Nat] /\ size \in 0..BufSize
      BY DEF TypeOK
    <3>2. comp_buf' \in Seq(Nat)
      BY <2>20, <3>1, FrameType DEF WorkerCompress
    <3>3. QED
      BY <2>20, <3>2 DEF WorkerCompress, TypeOK, WorkerPCs, ownerVars, bgVars
  <2>21. CASE WorkerSend
    BY <2>21 DEF WorkerSend, TypeOK, WorkerPCs, ownerVars, bgVars
  <2>22. CASE WorkerRelock
    BY <2>22
      DEF WorkerRelock, TypeOK, Threads, WorkerPCs, ownerVars, bgVars, Lock
  <2>23. CASE WorkerIdle
    BY <2>23 DEF WorkerIdle, TypeOK, WorkerPCs, ownerVars, NotifyAll
  <2>24. CASE SpuriousWakeup
    BY <2>24 DEF SpuriousWakeup, TypeOK, ownerVars, bgVars, workerVars
  <2>25. CASE UNCHANGED vars
    BY <2>25 DEF TypeOK, vars, ownerVars, bgVars, workerVars
  <2>26. QED
    BY <2>1, <2>2, <2>3, <2>4, <2>5, <2>6, <2>7, <2>8, <2>9, <2>10, <2>11,
       <2>12, <2>13, <2>14, <2>15, <2>16, <2>17, <2>18, <2>19, <2>20, <2>21,
       <2>22, <2>23, <2>24, <2>25
    DEF Next, OwnerStep, OwnerCall, WorkerStep, Terminated
  <1>3. QED
    BY <1>1, <1>2, PTL DEF Spec

\* The lock discipline, the flags and the sleepers protect one another.
LEMMA ProtocolInductive ==
  TypeOK /\ LockInv /\ ProtocolInv /\ SleepersHaveNoWork /\ [Next]_vars
    => LockInv' /\ ProtocolInv' /\ SleepersHaveNoWork'
  <1> SUFFICES ASSUME TypeOK, LockInv, ProtocolInv, SleepersHaveNoWork,
                      [Next]_vars
               PROVE  (LockInv /\ ProtocolInv /\ SleepersHaveNoWork)'
    OBVIOUS
  <1>1. ASSUME NEW len \in Lens, WriteFits(len)
        PROVE  (LockInv /\ ProtocolInv /\ SleepersHaveNoWork)'
    BY <1>1
      DEF WriteFits, Fits, LockInv, ProtocolInv, SleepersHaveNoWork, bgVars,
          workerVars
  <1>2. ASSUME NEW len \in Lens, WriteOverflows(len)
        PROVE  (LockInv /\ ProtocolInv /\ SleepersHaveNoWork)'
    BY <1>2
      DEF WriteOverflows, Fits, TypeOK, LockInv, ProtocolInv,
          SleepersHaveNoWork, bgVars, workerVars
  <1>3. CASE WriteRest
    BY <1>3
      DEF WriteRest, LockInv, ProtocolInv, SleepersHaveNoWork, bgVars,
          workerVars
  <1>4. CASE WriteChunk
    BY <1>4, BufAssumption
      DEF WriteChunk, LockInv, ProtocolInv, SleepersHaveNoWork, bgVars,
          workerVars
  <1>5. CASE WriteDone
    BY <1>5
      DEF WriteDone, LockInv, ProtocolInv, SleepersHaveNoWork, bgVars,
          workerVars
  <1>6. CASE OwnerLock
    BY <1>6
      DEF OwnerLock, LockInv, ProtocolInv, SleepersHaveNoWork, bgVars,
          workerVars, Lock
  <1>7. CASE OwnerSleep
    BY <1>7
      DEF OwnerSleep, LockInv, ProtocolInv, SleepersHaveNoWork, bgVars,
          workerVars, Sleep, OwnerMayGo
  <1>8. CASE FlushHandoff
    <2>1. pc = "flush_locked" /\ bg_mtx = "owner" /\ bg_idle
      BY <1>8 DEF FlushHandoff, LockInv, OwnerMayGo
    <2>2. sleepers \subseteq {"worker"}
      BY <2>1 DEF LockInv, TypeOK, Threads
    <2>3. sleepers' = {}
      BY <1>8, <2>2 DEF FlushHandoff, NotifyOne
    <2>3a. pos > 0 /\ bg_size' = pos
      BY <1>8, <2>1 DEF FlushHandoff, ProtocolInv
    <2>4. wpc \notin {"compress", "send", "relock", "relocked", "exited"} /\ ~bg_shutdown
      BY <2>1 DEF ProtocolInv
    <2>5. LockInv'
      BY <1>8, <2>1, <2>3 DEF FlushHandoff, LockInv, workerVars
    <2>6. SleepersHaveNoWork'
      BY <2>3 DEF SleepersHaveNoWork
    <2>7. /\ bg_idle' = FALSE /\ bg_pending' = TRUE /\ bg_shutdown' = bg_shutdown
          /\ wpc' = wpc /\ pc' = "flush_unlock" /\ pos' = 0
      BY <1>8 DEF FlushHandoff, workerVars
    <2>8. bg_buf_idx' = 1 - active'
      BY <1>8 DEF FlushHandoff, TypeOK
    <2>9. ProtocolInv'
      BY <2>3a, <2>4, <2>7, <2>8 DEF ProtocolInv
    <2>10. QED
      BY <2>5, <2>6, <2>9
  <1>9. CASE FlushUnlock
    BY <1>9
      DEF FlushUnlock, TypeOK, LockInv, ProtocolInv, SleepersHaveNoWork, bgVars,
          workerVars
  <1>10. CASE DestroyShutdown
    BY <1>10
      DEF DestroyShutdown, LockInv, ProtocolInv, SleepersHaveNoWork, workerVars,
          OwnerMayGo
  <1>11. CASE DestroyNotify
    BY <1>11
      DEF DestroyNotify, LockInv, ProtocolInv, SleepersHaveNoWork, bgVars,
          workerVars, NotifyAll
  <1>12. CASE DestroyJoin
    BY <1>12
      DEF DestroyJoin, LockInv, ProtocolInv, SleepersHaveNoWork, bgVars,
          workerVars
  <1>13. CASE CallFlush
    BY <1>13
      DEF CallFlush, LockInv, ProtocolInv, SleepersHaveNoWork, bgVars,
          workerVars
  <1>14. CASE CallDestroy
    BY <1>14
      DEF CallDestroy, TypeOK, LockInv, ProtocolInv, SleepersHaveNoWork, bgVars,
          workerVars
  <1>15. CASE InitTcp
    BY <1>15 DEF InitTcp, LockInv, ProtocolInv, SleepersHaveNoWork
  <1>16. CASE WorkerLock
    BY <1>16
      DEF WorkerLock, LockInv, ProtocolInv, SleepersHaveNoWork, ownerVars,
          bgVars, Lock
  <1>17. CASE WorkerSleep
    BY <1>17
      DEF WorkerSleep, LockInv, ProtocolInv, SleepersHaveNoWork, ownerVars,
          bgVars, Sleep, WorkerCalled
  <1>18. CASE WorkerExit
    BY <1>18
      DEF WorkerExit, LockInv, ProtocolInv, SleepersHaveNoWork, ownerVars,
          bgVars
  <1>19. CASE WorkerTake
    BY <1>19 DEF WorkerTake, LockInv, ProtocolInv, SleepersHaveNoWork, ownerVars
  <1>20. CASE WorkerCompress
    BY <1>20
      DEF WorkerCompress, LockInv, ProtocolInv, SleepersHaveNoWork, ownerVars,
          bgVars
  <1>21. CASE WorkerSend
    BY <1>21
      DEF WorkerSend, LockInv, ProtocolInv, SleepersHaveNoWork, ownerVars,
          bgVars
  <1>22. CASE WorkerRelock
    BY <1>22
      DEF WorkerRelock, LockInv, ProtocolInv, SleepersHaveNoWork, ownerVars,
          bgVars, Lock
  <1>23. CASE WorkerIdle
    BY <1>23
      DEF WorkerIdle, LockInv, ProtocolInv, SleepersHaveNoWork, ownerVars,
          NotifyAll
  <1>24. CASE SpuriousWakeup
    BY <1>24
      DEF SpuriousWakeup, LockInv, ProtocolInv, SleepersHaveNoWork, ownerVars,
          bgVars, workerVars
  <1>25. CASE UNCHANGED vars
    BY <1>25
      DEF LockInv, ProtocolInv, SleepersHaveNoWork, vars, ownerVars, bgVars,
          workerVars
  <1>26. QED
    BY <1>1, <1>2, <1>3, <1>4, <1>5, <1>6, <1>7, <1>8, <1>9, <1>10, <1>11,
       <1>12, <1>13, <1>14, <1>15, <1>16, <1>17, <1>18, <1>19, <1>20, <1>21,
       <1>22, <1>23, <1>24, <1>25
    DEF Next, OwnerStep, OwnerCall, WorkerStep, Terminated

\* A step that moves no byte keeps DataInv.
LEMMA DataFrame ==
  ASSUME DataInv, UNCHANGED <<mem, pos, active, written, sent, bg_buf_idx, bg_size,
                              comp_buf>>,
         InFlight' = InFlight, wpc' = "send" => wpc = "send"
  PROVE  DataInv'
  BY DEF DataInv, HandedLen

\* write() appends to the buffer being filled and touches nothing else.
LEMMA DataAppend ==
  ASSUME IInv, NEW n \in Nat, pos + n <= BufSize,
         CopyIn(active, pos, n), pos' = pos + n, written' = written + n,
         UNCHANGED <<active, bgVars, workerVars>>
  PROVE  DataInv'
  <1>1. TypeOK /\ DataInv
    BY DEF IInv
  <1>2. active \in {0, 1} /\ pos \in Nat /\ written \in Nat /\ Len(sent) \in Nat
    BY <1>1 DEF TypeOK
  <1>3. /\ mem'[1 - active] = mem[1 - active]
        /\ \A i \in 1..BufSize :
              mem'[active][i] = IF i \in pos+1..pos+n THEN written + (i - pos)
                                                      ELSE mem[active][i]
    BY <1>1, <1>2, CopyInEffect, SMTT(60)
  <1>4. InFlight' = InFlight /\ HandedLen' = HandedLen /\ HandedLen \in Nat
    BY <1>1 DEF InFlight, HandedLen, bgVars, workerVars, TypeOK
  <1>5. InFlight => mem'[bg_buf_idx] = mem[bg_buf_idx]
    BY <1>3 DEF InFlight, IInv, ProtocolInv
  <1>6. written = Len(sent) + HandedLen + pos
    BY <1>1 DEF DataInv
  <1>7. ASSUME NEW i \in 1..pos'
        PROVE  mem'[active][i] = Len(sent) + HandedLen + i
    <2>1. i \in 1..BufSize /\ i \in Int
      BY <1>2, BufAssumption
    <2>2. CASE i <= pos
      BY <2>1, <2>2, <1>1, <1>2, <1>3 DEF DataInv
    <2>3. CASE i > pos
      <3>1. i \in pos+1..pos+n
        BY <2>1, <2>3, <1>2
      <3>2. mem'[active][i] = written + (i - pos)
        BY <2>1, <3>1, <1>3
      <3>. QED
        BY <2>1, <3>2, <1>2, <1>4, <1>6
    <2>4. QED
      BY <2>1, <2>2, <2>3, <1>2
  <1>8. written' = Len(sent) + HandedLen + pos'
    BY <1>2, <1>4, <1>6
  <1>9. sent' = sent /\ bg_size' = bg_size /\ bg_buf_idx' = bg_buf_idx
        /\ wpc' = wpc /\ comp_buf' = comp_buf /\ active' = active
    BY DEF bgVars, workerVars
  <1>10. QED
    BY <1>1, <1>4, <1>5, <1>7, <1>8, <1>9 DEF DataInv

\* No step of either thread loses, repeats or reorders a byte.
LEMMA DataInductive == IInv /\ [Next]_vars => DataInv'
  <1> SUFFICES ASSUME IInv, [Next]_vars PROVE DataInv'
    OBVIOUS
  <1>1. ASSUME NEW len \in Lens, WriteFits(len) PROVE DataInv'
    <2>1. len \in Nat
      BY BufAssumption
    <2>2. QED
      BY <1>1, <2>1, DataAppend DEF WriteFits, Fits
  <1>2. ASSUME NEW len \in Lens, WriteOverflows(len) PROVE DataInv'
    BY <1>2, DataFrame
      DEF WriteOverflows, Fits, IInv, InFlight, bgVars, workerVars
  <1>3. CASE WriteRest
    <2>1. pos = 0 /\ todo \in Nat
      BY <1>3 DEF WriteRest, IInv, ProtocolInv, TypeOK
    <2>2. pos + todo <= BufSize /\ pos' = pos + todo
      BY <1>3, <2>1 DEF WriteRest
    <2>3. QED
      BY <1>3, <2>1, <2>2, DataAppend DEF WriteRest
  <1>4. CASE WriteChunk
    <2> DEFINE chunk == IF todo > BufSize THEN BufSize ELSE todo
    <2>1. pos = 0 /\ todo \in Nat /\ chunk \in Nat
      BY <1>4, BufAssumption DEF WriteChunk, IInv, ProtocolInv, TypeOK
    <2>2. /\ CopyIn(active, pos, chunk) /\ pos' = pos + chunk
          /\ written' = written + chunk /\ pos + chunk <= BufSize
      BY <1>4, <2>1, BufAssumption DEF WriteChunk
    <2>3. QED
      BY <1>4, <2>1, <2>2, DataAppend DEF WriteChunk
  <1>5. CASE WriteDone
    BY <1>5, DataFrame DEF WriteDone, IInv, InFlight, bgVars, workerVars
  <1>6. CASE OwnerLock
    BY <1>6, DataFrame DEF OwnerLock, IInv, InFlight, bgVars, workerVars, Lock
  <1>7. CASE OwnerSleep
    BY <1>7, DataFrame
      DEF OwnerSleep, IInv, InFlight, bgVars, workerVars, Sleep, OwnerMayGo
  <1>8. CASE FlushHandoff
    <2>1. bg_idle /\ ~InFlight /\ HandedLen = 0
      BY <1>8 DEF FlushHandoff, OwnerMayGo, InFlight, HandedLen
    <2>2. wpc \notin {"send", "relock", "relocked"}
      BY <2>1 DEF IInv, ProtocolInv
    <2>3. InFlight' /\ HandedLen' = pos
      BY <1>8, <2>2 DEF FlushHandoff, InFlight, HandedLen, workerVars
    <2>4. /\ written' = written /\ sent' = sent /\ mem' = mem /\ pos' = 0
          /\ bg_size' = pos /\ bg_buf_idx' = active /\ wpc' = wpc
      BY <1>8 DEF FlushHandoff, workerVars
    <2>5. pos \in Nat /\ Len(sent) \in Nat
      BY DEF IInv, TypeOK
    <2>6. QED
      BY <2>1, <2>2, <2>3, <2>4, <2>5 DEF IInv, DataInv
  <1>9. CASE FlushUnlock
    BY <1>9, DataFrame DEF FlushUnlock, IInv, InFlight, bgVars, workerVars
  <1>10. CASE DestroyShutdown
    BY <1>10, DataFrame
      DEF DestroyShutdown, IInv, InFlight, workerVars, OwnerMayGo
  <1>11. CASE DestroyNotify
    BY <1>11, DataFrame
      DEF DestroyNotify, IInv, InFlight, bgVars, workerVars, NotifyAll
  <1>12. CASE DestroyJoin
    BY <1>12, DataFrame DEF DestroyJoin, IInv, InFlight, bgVars, workerVars
  <1>13. CASE CallFlush
    BY <1>13, DataFrame DEF CallFlush, IInv, InFlight, bgVars, workerVars
  <1>14. CASE CallDestroy
    BY <1>14, DataFrame DEF CallDestroy, IInv, InFlight, bgVars, workerVars
  <1>15. CASE InitTcp
    <2>1. ~InFlight /\ pos = 0 /\ wpc = "exited"
      BY <1>15 DEF InitTcp, InFlight, IInv, ProtocolInv
    <2>2. ~InFlight' /\ pos' = 0 /\ sent' = sent /\ written' = written /\ wpc' = "lock"
      BY <1>15 DEF InitTcp, InFlight
    <2>3. QED
      BY <2>1, <2>2 DEF IInv, DataInv, HandedLen
  <1>16. CASE WorkerLock
    BY <1>16, DataFrame DEF WorkerLock, IInv, InFlight, ownerVars, bgVars, Lock
  <1>17. CASE WorkerSleep
    BY <1>17, DataFrame
      DEF WorkerSleep, IInv, InFlight, ownerVars, bgVars, Sleep, WorkerCalled
  <1>18. CASE WorkerExit
    BY <1>18, DataFrame DEF WorkerExit, IInv, InFlight, ownerVars, bgVars
  <1>19. CASE WorkerTake
    BY <1>19, DataFrame DEF WorkerTake, IInv, InFlight, ownerVars
  <1>20. CASE WorkerCompress
    <2>1. InFlight /\ idx = bg_buf_idx /\ size = bg_size
      BY <1>20 DEF WorkerCompress, InFlight, IInv, ProtocolInv
    <2>2. comp_buf' = [i \in 1..bg_size |-> mem[bg_buf_idx][i]] /\ wpc' = "send"
      BY <1>20, <2>1 DEF WorkerCompress
    <2>3. mem[bg_buf_idx] \in [1..BufSize -> Nat] /\ bg_size \in 0..BufSize
      BY DEF IInv, TypeOK
    <2>4. Len(comp_buf') = bg_size
      BY <2>2, <2>3, FrameType
    <2>5. \A i \in 1..bg_size : comp_buf'[i] = Len(sent) + i
      BY <2>1, <2>2 DEF IInv, DataInv
    <2>6. InFlight' = InFlight /\ HandedLen' = HandedLen
      BY <1>20, <2>1 DEF WorkerCompress, InFlight, HandedLen, bgVars
    <2>7. QED
      BY <1>20, <2>4, <2>5, <2>6, ZenonT(60)
        DEF WorkerCompress, ownerVars, bgVars, IInv, DataInv
  <1>21. CASE WorkerSend
    <2>1. InFlight /\ HandedLen = bg_size /\ bg_size \in Nat
      BY <1>21 DEF WorkerSend, InFlight, HandedLen, IInv, ProtocolInv, TypeOK
    <2>2. ~InFlight' /\ HandedLen' = 0 /\ wpc' = "relock"
      BY <1>21 DEF WorkerSend, InFlight, HandedLen
    <2>3. sent \in Seq(Nat) /\ comp_buf \in Seq(Nat) /\ sent' = sent \o comp_buf
      BY <1>21 DEF WorkerSend, IInv, TypeOK
    <2>4. Len(comp_buf) = bg_size /\ \A i \in 1..bg_size : comp_buf[i] = Len(sent) + i
      BY <1>21 DEF WorkerSend, IInv, DataInv
    <2>5. /\ Len(sent') = Len(sent) + bg_size
          /\ \A i \in 1..Len(sent) + bg_size :
               sent'[i] = IF i <= Len(sent) THEN sent[i] ELSE comp_buf[i - Len(sent)]
      BY <2>3, <2>4, ConcatProperties, ZenonT(60)
    <2>6. ASSUME NEW i \in 1..Len(sent')
          PROVE  sent'[i] = i
      <3>1. Len(sent) \in Nat
        BY <2>3
      <3>2. CASE i <= Len(sent)
        BY <3>1, <3>2, <2>5, <2>1 DEF IInv, DataInv
      <3>3. CASE i > Len(sent)
        <4>1. i - Len(sent) \in 1..bg_size
          BY <3>1, <3>3, <2>1, <2>5
        <4>2. comp_buf[i - Len(sent)] = Len(sent) + (i - Len(sent))
          BY <4>1, <2>4
        <4>3. sent'[i] = comp_buf[i - Len(sent)]
          BY <3>1, <3>3, <2>1, <2>5
        <4>4. QED
          BY <3>1, <4>2, <4>3
      <3>4. QED
        BY <3>1, <3>2, <3>3, <2>1, <2>5
    <2>7. /\ mem' = mem /\ pos' = pos /\ active' = active /\ written' = written
          /\ bg_buf_idx' = bg_buf_idx /\ bg_size' = bg_size
      BY <1>21 DEF WorkerSend, ownerVars, bgVars
    <2>8. pos \in Nat /\ Len(sent) \in Nat
      BY DEF IInv, TypeOK
    <2>9. written' = Len(sent') + HandedLen' + pos'
      BY <2>1, <2>2, <2>5, <2>7, <2>8 DEF IInv, DataInv
    <2>10. \A i \in 1..pos' : mem'[active'][i] = Len(sent') + HandedLen' + i
      BY <2>1, <2>2, <2>5, <2>7, <2>8 DEF IInv, DataInv
    <2>11. QED
      BY <2>2, <2>6, <2>9, <2>10 DEF DataInv
  <1>22. CASE WorkerRelock
    BY <1>22, DataFrame
      DEF WorkerRelock, IInv, InFlight, ownerVars, bgVars, Lock
  <1>23. CASE WorkerIdle
    <2>1. InFlight' = InFlight /\ wpc' = "lock"
      BY <1>23 DEF WorkerIdle, InFlight
    <2>2. QED
      BY <1>23, <2>1, DataFrame DEF WorkerIdle, ownerVars, IInv
  <1>24. CASE SpuriousWakeup
    BY <1>24, DataFrame
      DEF SpuriousWakeup, IInv, InFlight, ownerVars, bgVars, workerVars
  <1>25. CASE UNCHANGED vars
    BY <1>25, DataFrame DEF IInv, InFlight, ownerVars, bgVars, workerVars, vars
  <1>26. QED
    BY <1>1, <1>2, <1>3, <1>4, <1>5, <1>6, <1>7, <1>8, <1>9, <1>10, <1>11,
       <1>12, <1>13, <1>14, <1>15, <1>16, <1>17, <1>18, <1>19, <1>20, <1>21,
       <1>22, <1>23, <1>24, <1>25
    DEF Next, OwnerStep, OwnerCall, WorkerStep, Terminated

\* The strengthening is inductive.
THEOREM Invariance == Spec => []IInv
  <1>1. Init => IInv
    <2>1. Init => TypeOK
      BY DEF Init
    <2>2. Init => LockInv /\ ProtocolInv /\ SleepersHaveNoWork
      BY SMTT(60) DEF Init
    <2>3. Init => DataInv
      BY DEF Init, HandedLen
    <2>4. QED
      BY <2>1, <2>2, <2>3 DEF IInv
  <1>2. IInv /\ [Next]_vars => (LockInv /\ ProtocolInv /\ SleepersHaveNoWork /\ DataInv)'
    BY ProtocolInductive, DataInductive DEF IInv
  <1>3. TypeOK /\ (LockInv /\ ProtocolInv /\ SleepersHaveNoWork /\ DataInv) => IInv
    BY DEF IInv
  <1>4. IInv => LockInv /\ ProtocolInv /\ SleepersHaveNoWork /\ DataInv
    BY DEF IInv
  <1>5. QED
    BY <1>1, <1>2, <1>3, <1>4, TypeCorrect, PTL DEF Spec

\* lz4_compress_block never reads the buffer that write() is filling.
THEOREM NoOverlapAlways == Spec => []NoOverlap
  <1>1. IInv => NoOverlap
    BY DEF IInv, TypeOK, ProtocolInv, NoOverlap
  <1>2. QED
    BY <1>1, Invariance, PTL

\* One condition variable with two predicates and notify_one loses no wake-up.
THEOREM NoLostWakeup == Spec => []SleepersHaveNoWork
  <1>1. IInv => SleepersHaveNoWork
    BY DEF IInv
  <1>2. QED
    BY <1>1, Invariance, PTL

\* destroy() leaves no byte behind and no worker running.
THEOREM DestroyDrainsAlways == Spec => []DestroyDrains
  <1>1. IInv => DestroyDrains
    BY DEF IInv, ProtocolInv, DataInv, HandedLen, InFlight, DestroyDrains
  <1>2. QED
    BY <1>1, Invariance, PTL

-----------------------------------------------------------------------------
(* The bytes: StreamIntact and the refinement of DoubleBuffer.             *)

LEMMA EmptyBytes == ASSUME NEW f PROVE [i \in 1..0 |-> f[i]] = <<>>
  <1>1. [i \in 1..0 |-> f[i]] \in Seq(Nat)
    BY SeqDef
  <1>2. Len([i \in 1..0 |-> f[i]]) = 0
    OBVIOUS
  <1>3. QED
    BY <1>1, <1>2, EmptySeq

\* The two buffers read as sequences.
LEMMA BufferContents ==
  ASSUME TypeOK
  PROVE  /\ Filling \in Seq(Nat) /\ Len(Filling) = pos
         /\ \A i \in 1..pos : Filling[i] = mem[active][i]
         /\ Handed \in Seq(Nat) /\ Len(Handed) = HandedLen
         /\ \A i \in 1..HandedLen : Handed[i] = mem[bg_buf_idx][i]
  <1>1. /\ mem[active] \in [1..BufSize -> Nat] /\ mem[bg_buf_idx] \in [1..BufSize -> Nat]
        /\ pos \in 0..BufSize /\ bg_size \in 0..BufSize
    BY DEF TypeOK
  <1>2. Filling \in Seq(Nat) /\ Len(Filling) = pos
    BY <1>1, FrameType DEF Filling
  <1>3. \A i \in 1..pos : Filling[i] = mem[active][i]
    BY DEF Filling
  <1>4. CASE InFlight
    <2>1. Handed = [i \in 1..bg_size |-> mem[bg_buf_idx][i]] /\ HandedLen = bg_size
      BY <1>4 DEF Handed, HandedLen
    <2>2. QED
      BY <1>1, <1>2, <1>3, <2>1, FrameType
  <1>5. CASE ~InFlight
    <2>1. Handed = <<>> /\ HandedLen = 0
      BY <1>5 DEF Handed, HandedLen
    <2>2. QED
      BY <1>2, <1>3, <2>1, EmptySeq
  <1>6. QED
    BY <1>4, <1>5

\* Socket, buffer in flight and buffer being filled hold exactly the text
\* written so far, in order.
THEOREM StreamIntactAlways == Spec => []StreamIntact
  <1>1. ASSUME IInv PROVE StreamIntact
    <2> DEFINE s1 == sent \o Handed
               s2 == s1 \o Filling
               t == [i \in 1..written |-> i]
    <2>1. TypeOK /\ DataInv
      BY <1>1 DEF IInv
    <2>2. /\ Filling \in Seq(Nat) /\ Len(Filling) = pos
          /\ \A i \in 1..pos : Filling[i] = mem[active][i]
          /\ Handed \in Seq(Nat) /\ Len(Handed) = HandedLen
          /\ \A i \in 1..HandedLen : Handed[i] = mem[bg_buf_idx][i]
      BY <2>1, BufferContents
    <2>3. sent \in Seq(Nat) /\ Len(sent) \in Nat /\ pos \in Nat /\ HandedLen \in Nat
      BY <2>1 DEF TypeOK, HandedLen
    <2>4. /\ s1 \in Seq(Nat) /\ Len(s1) = Len(sent) + HandedLen
          /\ \A i \in 1..Len(sent) + HandedLen :
               s1[i] = IF i <= Len(sent) THEN sent[i] ELSE Handed[i - Len(sent)]
      BY <2>2, <2>3, ConcatProperties, ZenonT(60)
    <2> HIDE DEF s1
    <2>5a. /\ s1 \o Filling \in Seq(Nat)
           /\ Len(s1 \o Filling) = Len(s1) + Len(Filling)
           /\ \A i \in 1..Len(s1) + Len(Filling) : (s1 \o Filling)[i] =
                 IF i <= Len(s1) THEN s1[i] ELSE Filling[i - Len(s1)]
      <3>1. s1 \in Seq(Nat) /\ Filling \in Seq(Nat)
        BY <2>2, <2>4
      <3>2. QED
        BY <3>1, ConcatProperties
    <2>5. /\ s2 \in Seq(Nat) /\ Len(s2) = Len(s1) + pos
          /\ \A i \in 1..Len(s1) + pos :
               s2[i] = IF i <= Len(s1) THEN s1[i] ELSE Filling[i - Len(s1)]
      BY <2>2, <2>5a
    <2> HIDE DEF s2
    <2>6. written = Len(sent) + HandedLen + pos /\ Len(s2) = written /\ written \in Nat
      BY <2>1, <2>3, <2>4, <2>5 DEF DataInv
    <2>7. t \in Seq(Nat) /\ Len(t) = written
      <3>1. t \in [1..written -> Nat]
        BY <2>6
      <3>2. QED
        BY <2>6, <3>1, SeqDef
    <2>8. ASSUME NEW i \in 1..written PROVE s2[i] = i
      <3>1. CASE i <= Len(sent)
        <4>1. s2[i] = s1[i] /\ s1[i] = sent[i]
          BY <3>1, <2>3, <2>4, <2>5, <2>6, SMTT(60)
        <4>2. sent[i] = i
          BY <3>1, <2>1, <2>3 DEF DataInv
        <4>3. QED
          BY <4>1, <4>2
      <3>2. CASE i > Len(sent) /\ i <= Len(s1)
        <4>1. i - Len(sent) \in 1..HandedLen
          BY <3>2, <2>3, <2>4
        <4>2. Handed[i - Len(sent)] = Len(sent) + (i - Len(sent))
          <5>1. InFlight /\ HandedLen = bg_size
            BY <4>1 DEF HandedLen
          <5>2. QED
            BY <4>1, <5>1, <2>1, <2>2 DEF DataInv
        <4>3. s2[i] = Handed[i - Len(sent)]
          BY <3>2, <2>3, <2>4, <2>5, <2>6, SMTT(60)
        <4>4. QED
          BY <4>2, <4>3, <2>3
      <3>3. CASE i > Len(s1)
        <4>1. i - Len(s1) \in 1..pos
          BY <3>3, <2>3, <2>4, <2>5, <2>6
        <4>2. Filling[i - Len(s1)] = Len(sent) + HandedLen + (i - Len(s1))
          BY <4>1, <2>1, <2>2 DEF DataInv
        <4>3. s2[i] = Filling[i - Len(s1)]
          BY <3>3, <2>3, <2>4, <2>5, <2>6
        <4>4. QED
          BY <4>2, <4>3, <2>3, <2>4
      <3>4. QED
        BY <3>1, <3>2, <3>3, <2>3, <2>4
    <2>9. s2 = t
      BY <2>5, <2>6, <2>7, <2>8, SeqEqual
    <2>10. QED
      BY <2>9 DEF StreamIntact, s1, s2
  <1>2. QED
    BY <1>1, Invariance, PTL

\* What a step must do to stutter at the abstract level.
LEMMA AbstractStutter ==
  ASSUME UNCHANGED <<mem, pos, active, written, sent, bg_buf_idx, bg_size>>,
         InFlight' = InFlight,
         (pc' \in {"dst_notify", "dst_join", "gone"})
           <=> (pc \in {"dst_notify", "dst_join", "gone"})
  PROVE  UNCHANGED DB!dbVars
  <1>1. Filling' = Filling /\ Handed' = Handed
    BY DEF Filling, Handed
  <1>2. (pc \in {"dst_notify", "dst_join", "gone"})'
          = (pc \in {"dst_notify", "dst_join", "gone"})
    OBVIOUS
  <1>3. QED
    BY <1>1, <1>2 DEF DB!dbVars

\* A copy of n bytes into the buffer being filled is the abstract Put(n).
LEMMA AppendIsPut ==
  ASSUME IInv, IInv', NEW n \in Nat, pos + n <= BufSize, pc' \in OwnerPCs,
         CopyIn(active, pos, n), pos' = pos + n, written' = written + n,
         UNCHANGED <<active, bgVars, workerVars>>,
         pc \notin {"dst_notify", "dst_join", "gone"},
         pc' \notin {"dst_notify", "dst_join", "gone"}
  PROVE  [DB!DBNext]_DB!dbVars
  <1>1. TypeOK /\ TypeOK'
    BY DEF IInv
  <1>2. active \in {0, 1} /\ pos \in Nat /\ written \in Nat /\ pos \in 0..BufSize
    BY <1>1 DEF TypeOK
  <1>3. /\ mem'[1 - active] = mem[1 - active]
        /\ \A i \in 1..BufSize :
              mem'[active][i] = IF i \in pos+1..pos+n THEN written + (i - pos)
                                                      ELSE mem[active][i]
    BY <1>1, <1>2, CopyInEffect, ZenonT(60)
  <1>4. InFlight' = InFlight /\ bg_buf_idx' = bg_buf_idx /\ bg_size' = bg_size
        /\ sent' = sent /\ active' = active
    BY DEF InFlight, bgVars, workerVars
  <1>5. InFlight => mem'[bg_buf_idx] = mem[bg_buf_idx]
    BY <1>3 DEF InFlight, IInv, ProtocolInv
  <1>6. Handed' = Handed
    BY <1>4, <1>5 DEF Handed
  <1> DEFINE new == [i \in 1..n |-> written + i]
  <1>7. new \in Seq(Nat) /\ Len(new) = n /\ \A i \in 1..n : new[i] = written + i
    <2>1. new \in [1..n -> Nat]
      BY <1>2
    <2>2. QED
      BY <2>1, SeqDef
  <1> HIDE DEF new
  <1>8. /\ Filling \in Seq(Nat) /\ Len(Filling) = pos
        /\ \A i \in 1..pos : Filling[i] = mem[active][i]
    BY <1>1, BufferContents
  <1>9. /\ Filling' \in Seq(Nat) /\ Len(Filling') = pos'
        /\ \A i \in 1..pos' : Filling'[i] = mem'[active'][i]
    <2>1. mem'[active'] \in [1..BufSize -> Nat] /\ pos' \in 0..BufSize
      BY <1>1 DEF TypeOK
    <2>2. QED
      BY <2>1, FrameType DEF Filling
  <1>10. /\ Filling \o new \in Seq(Nat)
         /\ Len(Filling \o new) = Len(Filling) + Len(new)
         /\ \A i \in 1..Len(Filling) + Len(new) : (Filling \o new)[i] =
              IF i <= Len(Filling) THEN Filling[i] ELSE new[i - Len(Filling)]
    BY <1>7, <1>8, ConcatProperties, ZenonT(60)
  <1>11. ASSUME NEW i \in 1..pos + n PROVE Filling'[i] = (Filling \o new)[i]
    <2>1. i \in 1..BufSize /\ Filling'[i] = mem'[active][i]
      BY <1>2, <1>4, <1>9, BufAssumption
    <2>2. CASE i <= pos
      <3>1. mem'[active][i] = mem[active][i]
        BY <2>1, <2>2, <1>2, <1>3
      <3>2. i \in 1..pos /\ (Filling \o new)[i] = Filling[i]
        BY <2>1, <2>2, <1>2, <1>7, <1>8, <1>10
      <3>3. QED
        BY <2>1, <3>1, <3>2, <1>8
    <2>3. CASE i > pos
      <3>1. mem'[active][i] = written + (i - pos)
        BY <2>1, <2>3, <1>2, <1>3
      <3>2. i - pos \in 1..n /\ (Filling \o new)[i] = new[i - pos]
        BY <2>3, <1>2, <1>7, <1>8, <1>10
      <3>3. QED
        BY <2>1, <3>1, <3>2, <1>7
    <2>4. i \in Int /\ pos \in Int
      BY <1>2
    <2>5. i <= pos \/ i > pos
      BY <2>4
    <2>6. QED
      BY <2>2, <2>3, <2>5
  <1>12. Filling' = Filling \o new
    <2>1. Len(Filling') = Len(Filling \o new) /\ Len(Filling') = pos + n
      BY <1>7, <1>8, <1>9, <1>10
    <2>2. QED
      BY <2>1, <1>9, <1>10, <1>11, SeqEqual
  <1>13. (pc \in {"dst_notify", "dst_join", "gone"}) = FALSE
         /\ (pc \in {"dst_notify", "dst_join", "gone"})' = FALSE
    OBVIOUS
  <1>14. CASE n = 0
    <2>1. new = <<>>
      BY <1>7, <1>14, EmptySeq
    <2>2. Filling' = Filling /\ written' = written
      BY <2>1, <1>2, <1>8, <1>12, <1>14, ConcatEmptySeq
    <2>3. QED
      BY <2>2, <1>4, <1>6, <1>13 DEF DB!dbVars
  <1>15. CASE n # 0
    <2>1. n \in 1..BufSize /\ Len(Filling) + n <= BufSize
      BY <1>2, <1>8, <1>15, BufAssumption
    <2>2. DB!Put(n)
      BY <2>1, <1>4, <1>6, <1>12, <1>13 DEF DB!Put, DB!NextBytes, new
    <2>3. QED
      BY <2>1, <2>2 DEF DB!DBNext
  <1>16. QED
    BY <1>14, <1>15

\* Every step of the two threads is a step of the double buffer or none.
LEMMA StepRefines ==
  IInv /\ IInv' /\ [Next]_vars => [DB!DBNext]_DB!dbVars
  <1> SUFFICES ASSUME IInv, IInv', [Next]_vars PROVE [DB!DBNext]_DB!dbVars
    OBVIOUS
  <1>1. ASSUME NEW len \in Lens, WriteFits(len) PROVE [DB!DBNext]_DB!dbVars
    <2>1. len \in Nat /\ pc' = pc /\ pc = "run"
      BY <1>1, BufAssumption DEF WriteFits, Fits
    <2>2. QED
      BY <1>1, <2>1, AppendIsPut DEF WriteFits, Fits, OwnerPCs
  <1>2. ASSUME NEW len \in Lens, WriteOverflows(len) PROVE [DB!DBNext]_DB!dbVars
    BY <1>2, AbstractStutter
      DEF WriteOverflows, Fits, InFlight, bgVars, workerVars
  <1>3. CASE WriteRest
    <2>1. pos = 0 /\ todo \in Nat
      BY <1>3 DEF WriteRest, IInv, ProtocolInv, TypeOK
    <2>2. pos + todo <= BufSize /\ pos' = pos + todo /\ pc = "rest" /\ pc' = "run"
      BY <1>3, <2>1 DEF WriteRest
    <2>3. QED
      BY <1>3, <2>1, <2>2, AppendIsPut DEF WriteRest, OwnerPCs
  <1>4. CASE WriteChunk
    <2> DEFINE chunk == IF todo > BufSize THEN BufSize ELSE todo
    <2>1. pos = 0 /\ todo \in Nat /\ chunk \in Nat
      BY <1>4 DEF WriteChunk, IInv, ProtocolInv, TypeOK
    <2>2. /\ CopyIn(active, pos, chunk) /\ pos' = pos + chunk
          /\ written' = written + chunk /\ pos + chunk <= BufSize
          /\ pc \in {"rest", "chunk"} /\ pc' = "flush"
      BY <1>4, <2>1, BufAssumption DEF WriteChunk
    <2>3. QED
      BY <1>4, <2>1, <2>2, AppendIsPut DEF WriteChunk, OwnerPCs
  <1>5. CASE WriteDone
    BY <1>5, AbstractStutter DEF WriteDone, InFlight, bgVars, workerVars
  <1>6. CASE OwnerLock
    BY <1>6, AbstractStutter DEF OwnerLock, InFlight, bgVars, workerVars, Lock
  <1>7. CASE OwnerSleep
    BY <1>7, AbstractStutter
      DEF OwnerSleep, InFlight, bgVars, workerVars, Sleep, OwnerMayGo
  <1>8. CASE FlushHandoff
    <2>1. bg_idle /\ ~InFlight /\ wpc \notin {"relock", "relocked"}
      BY <1>8 DEF FlushHandoff, OwnerMayGo, InFlight, IInv, ProtocolInv
    <2>2. InFlight' /\ Handed = <<>> /\ Handed' = Filling
      BY <1>8, <2>1 DEF FlushHandoff, InFlight, Handed, Filling, workerVars
    <2>3. Filling' = <<>>
      BY <1>8, EmptyBytes DEF FlushHandoff, Filling
    <2>4. Filling # <<>>
      <3>1. pos > 0 /\ TypeOK
        BY <1>8 DEF FlushHandoff, IInv, ProtocolInv
      <3>2. Len(Filling) # 0
        BY <3>1, BufferContents
      <3>3. QED
        BY <3>2, EmptySeq
    <2>5. /\ (pc \in {"dst_notify", "dst_join", "gone"}) = FALSE
          /\ (pc \in {"dst_notify", "dst_join", "gone"})' = FALSE
          /\ written' = written /\ sent' = sent
      BY <1>8 DEF FlushHandoff, workerVars
    <2>6. DB!Handoff
      BY <2>2, <2>3, <2>4, <2>5 DEF DB!Handoff
    <2>7. QED
      BY <2>6 DEF DB!DBNext
  <1>9. CASE FlushUnlock
    BY <1>9, AbstractStutter
      DEF FlushUnlock, IInv, ProtocolInv, InFlight, bgVars, workerVars
  <1>10. CASE DestroyShutdown
    <2>1. ~InFlight /\ ~InFlight' /\ pos = 0 /\ pos' = 0
      BY <1>10 DEF DestroyShutdown, OwnerMayGo, InFlight, IInv, ProtocolInv
    <2>2. Handed = <<>> /\ Handed' = <<>>
      BY <2>1 DEF Handed
    <2>3. Filling = <<>> /\ Filling' = <<>>
      BY <2>1, EmptyBytes DEF Filling
    <2>4. /\ (pc \in {"dst_notify", "dst_join", "gone"}) = FALSE
          /\ (pc \in {"dst_notify", "dst_join", "gone"})' = TRUE
          /\ written' = written /\ sent' = sent
      BY <1>10 DEF DestroyShutdown, workerVars
    <2>5. DB!Close
      BY <2>2, <2>3, <2>4 DEF DB!Close
    <2>6. QED
      BY <2>5 DEF DB!DBNext
  <1>11. CASE DestroyNotify
    BY <1>11, AbstractStutter
      DEF DestroyNotify, InFlight, bgVars, workerVars, NotifyAll
  <1>12. CASE DestroyJoin
    BY <1>12, AbstractStutter DEF DestroyJoin, InFlight, bgVars, workerVars
  <1>13. CASE CallFlush
    BY <1>13, AbstractStutter DEF CallFlush, InFlight, bgVars, workerVars
  <1>14. CASE CallDestroy
    BY <1>14, AbstractStutter DEF CallDestroy, InFlight, bgVars, workerVars
  <1>15. CASE InitTcp
    <2>1. ~InFlight /\ ~InFlight' /\ pos = 0 /\ pos' = 0
      BY <1>15 DEF InitTcp, InFlight, IInv, ProtocolInv
    <2>2. Handed = <<>> /\ Handed' = <<>>
      BY <2>1 DEF Handed
    <2>3. Filling = <<>> /\ Filling' = <<>>
      BY <2>1, EmptyBytes DEF Filling
    <2>4. /\ (pc \in {"dst_notify", "dst_join", "gone"}) = TRUE
          /\ (pc \in {"dst_notify", "dst_join", "gone"})' = FALSE
          /\ written' = written /\ sent' = sent
      BY <1>15 DEF InitTcp
    <2>5. DB!Reopen
      BY <2>2, <2>3, <2>4 DEF DB!Reopen
    <2>6. QED
      BY <2>5 DEF DB!DBNext
  <1>16. CASE WorkerLock
    BY <1>16, AbstractStutter DEF WorkerLock, InFlight, ownerVars, bgVars, Lock
  <1>17. CASE WorkerSleep
    BY <1>17, AbstractStutter
      DEF WorkerSleep, InFlight, ownerVars, bgVars, Sleep, WorkerCalled
  <1>18. CASE WorkerExit
    BY <1>18, AbstractStutter DEF WorkerExit, InFlight, ownerVars, bgVars
  <1>19. CASE WorkerTake
    BY <1>19, AbstractStutter DEF WorkerTake, InFlight, ownerVars
  <1>20. CASE WorkerCompress
    BY <1>20, AbstractStutter
      DEF WorkerCompress, IInv, ProtocolInv, InFlight, ownerVars
  <1>21. CASE WorkerSend
    <2>1. InFlight /\ ~InFlight' /\ TypeOK
      BY <1>21 DEF WorkerSend, InFlight, IInv, ProtocolInv
    <2>2. Handed' = <<>>
      BY <2>1 DEF Handed
    <2>3. Handed \in Seq(Nat) /\ Len(Handed) = HandedLen /\ HandedLen = bg_size
      BY <2>1, BufferContents DEF HandedLen
    <2>4. \A i \in 1..bg_size : Handed[i] = mem[bg_buf_idx][i]
      BY <2>1, <2>3, BufferContents
    <2>5. /\ comp_buf \in Seq(Nat) /\ Len(comp_buf) = bg_size
          /\ \A i \in 1..bg_size : comp_buf[i] = Len(sent) + i
          /\ \A i \in 1..bg_size : mem[bg_buf_idx][i] = Len(sent) + i
      BY <1>21, <2>1 DEF WorkerSend, IInv, DataInv, TypeOK
    <2>6. \A i \in 1..Len(comp_buf) : comp_buf[i] = Handed[i]
      BY <2>4, <2>5
    <2>7. comp_buf = Handed
      BY <2>3, <2>5, <2>6, SeqEqual
    <2>8. bg_size > 0 /\ Handed # <<>>
      <3>1. HandedLen # 0
        BY <2>1, <2>3 DEF IInv, ProtocolInv, InFlight
      <3>2. QED
        BY <3>1, <2>1, <2>3, EmptySeq
    <2>9. sent' = sent \o Handed /\ Filling' = Filling /\ written' = written /\ pc' = pc
      BY <1>21, <2>7 DEF WorkerSend, Filling, ownerVars
    <2>10. DB!Transmit
      BY <2>2, <2>8, <2>9 DEF DB!Transmit
    <2>11. QED
      BY <2>10 DEF DB!DBNext
  <1>22. CASE WorkerRelock
    BY <1>22, AbstractStutter
      DEF WorkerRelock, InFlight, ownerVars, bgVars, Lock
  <1>23. CASE WorkerIdle
    BY <1>23, AbstractStutter DEF WorkerIdle, InFlight, ownerVars, NotifyAll
  <1>24. CASE SpuriousWakeup
    BY <1>24, AbstractStutter
      DEF SpuriousWakeup, InFlight, ownerVars, bgVars, workerVars
  <1>25. CASE UNCHANGED vars
    BY <1>25, AbstractStutter DEF InFlight, ownerVars, bgVars, workerVars, vars
  <1>26. QED
    BY <1>1, <1>2, <1>3, <1>4, <1>5, <1>6, <1>7, <1>8, <1>9, <1>10, <1>11,
       <1>12, <1>13, <1>14, <1>15, <1>16, <1>17, <1>18, <1>19, <1>20, <1>21,
       <1>22, <1>23, <1>24, <1>25
    DEF Next, OwnerStep, OwnerCall, WorkerStep, Terminated

\* The two threads with their mutex and condition variable implement the
\* abstract double buffer.
THEOREM Refinement == Spec => ImplementsDoubleBuffer
  <1>1. Init => DB!DBInit
    <2>1. Init => Filling = <<>> /\ Handed = <<>>
      BY EmptyBytes DEF Init, Filling, Handed
    <2>2. Init => (pc \in {"dst_notify", "dst_join", "gone"}) = FALSE
      BY DEF Init
    <2>3. QED
      BY <2>1, <2>2 DEF Init, DB!DBInit
  <1>2. IInv /\ IInv' /\ [Next]_vars => [DB!DBNext]_DB!dbVars
    BY StepRefines
  <1>3. QED
    BY <1>1, <1>2, Invariance, PTL DEF Spec, ImplementsDoubleBuffer, DB!DBSpec

=============================================================================
