----------------------------- MODULE FileTrace -----------------------------
(***************************************************************************)
(* Text of one traced thread on its way to its .lz4 file, and the crash    *)
(* handler that saves what is still in memory (vc_set_trace_crash_flush).  *)
(* trace_code and printAssemble2 keep the line of the current instruction  *)
(* in stringBuilder until the next one, DirectWriteBuf collects lines and  *)
(* writes them as frames (header, body), openNextTraceFile starts a new    *)
(* file on each call of the target, and trace_crash_handler runs the same  *)
(* code once more, without locks, in a signal handler on the traced thread *)
(* or from exit().  tools/trace_receiver.py (decode_frames) reads the files.*)
(*                                                                         *)
(* The line of the k-th instruction is the number k and takes one unit of  *)
(* the buffer (DirectWriteBuf.tla has the long texts).                     *)
(***************************************************************************)
EXTENDS Naturals, Sequences, SequencesExt

CONSTANTS
  BufLines,   \* DW_BUF_SIZE, in lines
  CallSites,  \* places the wrapper is called from: values of x30 at entry
  NoSite,     \* entryLrSet is false
  Recursive,  \* may the target call itself?
  Where,      \* where a signal may hit the traced thread: "guest" (a fault or
              \* exit() in the traced code), "tracer" (anywhere)
  Recovers,   \* may the handler installed before ours return?
  Modes,      \* values of bg_running: TRUE in TCP mode
  MaxInsns,   \* bound: instructions
  MaxSignals  \* bound: signals

ASSUME FileAssumption ==
  /\ BufLines \in Nat \ {0} /\ MaxInsns \in Nat /\ MaxSignals \in Nat
  /\ NoSite \notin CallSites
  /\ Where \subseteq {"guest", "tracer"}
  /\ Recursive \in BOOLEAN /\ Recovers \in BOOLEAN
  /\ Modes \subseteq BOOLEAN

VARIABLES
  bg_running,\* do frames go through the background thread?
  insns,     \* instructions traced so far
  kind,      \* the one trace_code is called for: the "entry" or the "ret" of
             \* the target, a "return" of a function it calls, "plain" ones
  depth, lr, \* calls of the target under way, x30 of the outermost one
  entryLr,   \* TraceInfo::entryLr
  stringBuilder, \* the pending line, 0 if there is none
  bufs,      \* bufs[0] up to pos
  comp_buf, frame, \* comp_buf, and what each actor compressed into it
  bg_mtx,    \* TCP mode: its holder, or "free"
  fd,        \* is DirectWriteBuf::fd a descriptor (and not -1)?
  files,     \* the pieces of each file of this thread; the last is the open one
  pc, back,  \* of tracer and handler; where the flush in progress returns to
  hit,       \* where the signal in progress hit, or "none"
  signals,
  dead       \* the process is gone

insnVars == <<insns, kind, depth, lr, entryLr>>
bufVars == <<bg_running, bufs, comp_buf, frame, bg_mtx>>
fileVars == <<fd, files>>
sigVars == <<hit, signals, dead>>
vars == <<insnVars, stringBuilder, bufVars, fileVars, pc, back, sigVars>>

Kinds == {"entry", "plain", "return", "ret"}
Actors == {"tracer", "handler"}

\* The signal suspends the traced thread.
Running(a) == ~dead /\ (a = "tracer" => hit = "none")

At(a, label) == Running(a) /\ pc[a] = label
Goto(a, label) == pc' = [pc EXCEPT ![a] = label]
Return(a, label) == back' = [back EXCEPT ![a] = label]

\* write_all to the file: it fails on descriptor -1, and nobody looks.
Emit(piece) ==
  files' = IF fd THEN [files EXCEPT ![Len(files)] = Append(@, piece)] ELSE files

-----------------------------------------------------------------------------
(* DirectWriteBuf: write(), flush(), flushFromSignal(), closeFromSignal(). *)

\* Is there room for one more line?
HasRoom == Len(bufs) < BufLines

\* write() of the pending line: it fits, or flush() comes first.
Write(a) ==
  /\ Running(a) /\ pc[a] \in {"write", "write_ret"}
  /\ IF HasRoom
     THEN /\ bufs' = IF stringBuilder = 0 THEN bufs ELSE Append(bufs, stringBuilder)
          /\ Goto(a, IF pc[a] = "write" THEN "reset" ELSE "reset_ret")
          /\ back' = back
     ELSE /\ bufs' = bufs
          /\ Goto(a, "flush")
          /\ Return(a, pc[a])
  /\ UNCHANGED <<bg_running, insnVars, stringBuilder, comp_buf, frame, bg_mtx,
                 fileVars, sigVars>>

\* resetStringBuilder (in the handler: stringBuilder.length = 0).
ResetBuilder(a) ==
  /\ Running(a) /\ pc[a] \in {"reset", "reset_ret"}
  /\ stringBuilder' = 0
  /\ Goto(a, IF a = "handler" THEN "salvage"
             ELSE IF pc[a] = "reset" THEN "append" ELSE "ret")
  /\ UNCHANGED <<insnVars, bufVars, fileVars, back, sigVars>>

\* flush() begins: nothing to do, or compress bufs[0] into comp_buf.
Compress(a) ==
  /\ At(a, "flush") /\ (bufs = <<>> \/ ~bg_running)
  /\ IF bufs = <<>>
     THEN Goto(a, back[a]) /\ UNCHANGED <<comp_buf, frame>>
     ELSE /\ comp_buf' = bufs
          /\ frame' = [frame EXCEPT ![a] = bufs]
          /\ Goto(a, "header")
  /\ UNCHANGED <<bg_running, insnVars, stringBuilder, bufs, bg_mtx, fileVars,
                 back, sigVars>>

\* The header: comp_size, which stands for the frame, and pos.
WriteHeader(a) ==
  /\ At(a, "header")
  /\ Emit([kind |-> "header", frame |-> frame[a], orig |-> Len(bufs)])
  /\ Goto(a, "body")
  /\ UNCHANGED <<insnVars, stringBuilder, bufVars, fd, back, sigVars>>

WriteBody(a) ==
  /\ At(a, "body")
  /\ Emit([kind |-> "body", frame |-> comp_buf, orig |-> 0])
  /\ Goto(a, "pos")
  /\ UNCHANGED <<insnVars, stringBuilder, bufVars, fd, back, sigVars>>

\* pos = 0.
EmptyBuf == bufs' = <<>>

\* flush() ends.
ResetPos(a) ==
  /\ At(a, "pos")
  /\ EmptyBuf
  /\ Goto(a, back[a])
  /\ UNCHANGED <<bg_running, insnVars, stringBuilder, comp_buf, frame, bg_mtx,
                 fileVars, back, sigVars>>

\* TCP mode: flush() takes bg_mtx ...
FlushLock(a) ==
  /\ bg_running /\ At(a, "flush") /\ bufs # <<>> /\ bg_mtx = "free"
  /\ bg_mtx' = a
  /\ Goto(a, "handoff")
  /\ UNCHANGED <<bg_running, insnVars, stringBuilder, bufs, comp_buf, frame,
                 fileVars, back, sigVars>>

\* ... and hands the buffer to the background thread, which sends it whole.
FlushHandoff(a) ==
  /\ At(a, "handoff")
  /\ files' = [files EXCEPT ![Len(files)] = @ \o
                 << [kind |-> "header", frame |-> bufs, orig |-> Len(bufs)],
                    [kind |-> "body", frame |-> bufs, orig |-> 0] >>]
  /\ EmptyBuf
  /\ bg_mtx' = "free"
  /\ Goto(a, back[a])
  /\ UNCHANGED <<bg_running, insnVars, stringBuilder, comp_buf, frame, fd,
                 back, sigVars>>

-----------------------------------------------------------------------------
(* The traced thread: trace_code, printAssemble2, openNextTraceFile.       *)

\* Mutant of FirstStep: the line before is not written.
FirstStepAppend(pending) == "append"

\* printAssemble2 begins with the line of the instruction before.
FirstStep(pending) == IF pending # 0 THEN "write" ELSE "append"

\* The next instruction of the target, called from the app, by itself or
\* already running. Its first one begins a new file: flush() the old one.
NextInsn(k) ==
  /\ At("tracer", "guest") /\ insns < MaxInsns
  /\ IF k = "entry" THEN depth = 0 \/ Recursive ELSE depth > 0
  /\ kind' = k
  /\ depth' = IF k = "entry" THEN depth + 1 ELSE depth
  /\ IF k = "entry" /\ depth = 0 THEN lr' \in CallSites ELSE lr' = lr
  /\ IF k = "entry" /\ insns > 0
     THEN Goto("tracer", "flush") /\ Return("tracer", "reopen")
     ELSE Goto("tracer", FirstStep(stringBuilder)) /\ back' = back
  /\ UNCHANGED <<insns, entryLr, stringBuilder, bufVars, fileVars, sigVars>>

\* openNextTraceFile, after its flush(): destroy() has nothing left to flush,
\* the old file is closed and the next one opened. In file mode the string
\* builder is reset.
Reopen ==
  /\ At("tracer", "reopen")
  /\ files' = Append(files, <<>>)
  /\ bufs' = <<>>
  /\ fd' = TRUE
  /\ stringBuilder' = IF bg_running THEN stringBuilder ELSE 0
  /\ Goto("tracer", FirstStep(stringBuilder'))
  /\ UNCHANGED <<bg_running, insnVars, comp_buf, frame, bg_mtx, back,
                 sigVars>>

\* The line of this instruction; a RET writes it at once.
AppendLine ==
  /\ At("tracer", "append")
  /\ insns' = insns + 1
  /\ stringBuilder' = insns + 1
  /\ entryLr' = IF entryLr = NoSite THEN lr ELSE entryLr
  /\ Goto("tracer", IF kind \in {"ret", "return"} THEN "write_ret" ELSE "interval")
  /\ UNCHANGED <<kind, depth, lr, bufVars, fileVars, back, sigVars>>

\* Mutant of LeavesTarget: the comparison with entryLr is inverted.
LeavesTargetNot == depth = 1 /\ lr # entryLr

\* x30 of a RET is entryLr: the target returns to where it was first called.
LeavesTarget == depth = 1 /\ lr = entryLr

\* The RET line is out; flush() if the target returns.
AfterRet ==
  /\ At("tracer", "ret")
  /\ depth' = IF kind = "ret" THEN depth - 1 ELSE depth
  /\ IF kind = "ret" /\ LeavesTarget
     THEN Goto("tracer", "flush") /\ Return("tracer", "interval")
     ELSE Goto("tracer", "interval") /\ back' = back
  /\ UNCHANGED <<insns, kind, lr, entryLr, stringBuilder, bufVars, fileVars,
                 sigVars>>

\* Every FLUSH_INTERVAL instructions trace_code flushes, whenever that is here.
Interval ==
  /\ At("tracer", "interval")
  /\ \/ Goto("tracer", "guest") /\ back' = back
     \/ Goto("tracer", "flush") /\ Return("tracer", "guest")
  /\ UNCHANGED <<insnVars, stringBuilder, bufVars, fileVars, sigVars>>

-----------------------------------------------------------------------------
(* trace_crash_handler and trace_salvage_all_best_effort.                  *)

\* A signal arrives, or exit() runs the same code.
Signal(where) ==
  /\ ~dead /\ hit = "none" /\ signals < MaxSignals /\ where \in Where
  /\ where = "guest" => pc["tracer"] = "guest"
  /\ hit' = where
  /\ signals' = signals + 1
  /\ Goto("handler", IF stringBuilder # 0 THEN "write" ELSE "salvage")
  /\ UNCHANGED <<insnVars, stringBuilder, bufVars, fileVars, back, dead>>

\* Mutant of Salvage: flushFromSignal is not called.
SalvageNot ==
  /\ At("handler", "salvage")
  /\ Goto("handler", "close") /\ back' = back
  /\ UNCHANGED <<insnVars, stringBuilder, bufVars, fileVars, sigVars>>

\* flushFromSignal is flush() without the background thread.
Salvage ==
  /\ At("handler", "salvage")
  /\ IF bg_running \/ ~fd
     THEN Goto("handler", "close") /\ back' = back
     ELSE Goto("handler", "flush") /\ Return("handler", "close")
  /\ UNCHANGED <<insnVars, stringBuilder, bufVars, fileVars, sigVars>>

\* closeFromSignal
CloseFd ==
  /\ At("handler", "close")
  /\ fd' = (fd /\ bg_running)
  /\ Goto("handler", "chain")
  /\ UNCHANGED <<insnVars, stringBuilder, bufVars, files, back, sigVars>>

\* The handler installed before is called: the process dies, or goes on.
Chain ==
  /\ At("handler", "chain")
  /\ \/ dead' = TRUE
     \/ Recovers /\ dead' = FALSE
  /\ hit' = "none"
  /\ Goto("handler", "off")
  /\ UNCHANGED <<insnVars, stringBuilder, bufVars, fileVars, back, signals>>

-----------------------------------------------------------------------------

Init ==
  /\ insns = 0 /\ kind = "plain" /\ depth = 0 /\ lr = NoSite /\ entryLr = NoSite
  /\ stringBuilder = 0
  /\ bufs = <<>> /\ comp_buf = <<>> /\ frame = [a \in Actors |-> <<>>]
  /\ bg_running \in Modes /\ bg_mtx = "free"
  /\ fd = TRUE /\ files = << <<>> >>
  /\ pc = [a \in Actors |-> IF a = "tracer" THEN "guest" ELSE "off"]
  /\ back = [a \in Actors |-> "off"]
  /\ hit = "none" /\ signals = 0 /\ dead = FALSE

BufferStep(a) ==
  \/ Write(a) \/ ResetBuilder(a) \/ Compress(a) \/ WriteHeader(a) \/ WriteBody(a)
  \/ ResetPos(a) \/ FlushLock(a) \/ FlushHandoff(a)

HandlerStep == BufferStep("handler") \/ Salvage \/ CloseFd \/ Chain

TracerStep == BufferStep("tracer") \/ Reopen \/ AppendLine \/ AfterRet \/ Interval

\* The process is dead, or the traced code has nothing more to do.
Terminated ==
  /\ dead \/ (hit = "none" /\ pc["tracer"] = "guest" /\ insns = MaxInsns)
  /\ UNCHANGED vars

Next ==
  \/ \E k \in Kinds : NextInsn(k)
  \/ TracerStep \/ HandlerStep
  \/ \E where \in Where : Signal(where)
  \/ Terminated

Spec == Init /\ [][Next]_vars

\* Threads inside trace_code and in a handler keep running; guest code and
\* signals are left alone.
FairSpec == Spec /\ WF_vars(TracerStep) /\ WF_vars(HandlerStep)

-----------------------------------------------------------------------------
(* What decode_frames makes of a file: the frames up to the first one whose *)
(* body is missing or is not what the header says.                          *)

GoodFrame(file, n) ==
  /\ 2*n <= Len(file)
  /\ file[2*n-1].kind = "header" /\ file[2*n].kind = "body"
  /\ file[2*n-1].frame = file[2*n].frame
  /\ file[2*n-1].orig = Len(file[2*n].frame)

decode_frames(file) ==
  LET good == {n \in 1..Len(file) : \A m \in 1..n : GoodFrame(file, m)}
  IN FlattenSeq([n \in good |-> file[2*n].frame])

\* The text of all files of the thread, in their order.
Decoded == FlattenSeq([i \in 1..Len(files) |-> decode_frames(files[i])])

Upto(n) == [i \in 1..n |-> i]

-----------------------------------------------------------------------------
(* Properties.                                                             *)

\* docs/TRACE.md on vc_set_trace_crash_flush: everything before the point of
\* the crash is kept (in file mode). When the handler of a fault in traced code or
\* of exit() is about to pass the signal on, the files decode to the line of every
\* instruction traced, each once and in order.
CrashKeepsTrace ==
  (pc["handler"] = "chain" /\ hit = "guest" /\ ~bg_running) => Decoded = Upto(insns)

\* When the target has returned to the app its trace is in the file, whether
\* or not the process lives to flush again: printAssemble2 compares x30 of the RET
\* with "the VM exit address" and forces the flush.
\* Violated: see Findings in the README.
ReturnFlushes ==
  (depth = 0 /\ pc["tracer"] = "guest" /\ signals = 0) => Decoded = Upto(insns)

\* What holds of it, since entryLr is taken once: when the target has returned to the
\* place its first call came from, the files decode to this call and to all calls
\* before it, those from other places and their unfinished buffers included.
FirstSiteFlushes ==
  (depth = 0 /\ lr = entryLr /\ pc["tracer"] = "guest" /\ signals = 0) =>
    Decoded = Upto(insns)

\* A signal in the middle of flush() costs at most the end of the text and may
\* repeat some lines, but leaves no hole: a line decodes only if all before do.
\* (A process that survives the signal goes on without its file.)
Survived == signals > 0 /\ hit = "none" /\ ~dead
NoHoles == Survived \/ \E n \in 0..insns : ToSet(Decoded) = 1..n

\* The handler gets through and passes the signal on, wherever it struck: it
\* waits for no lock ("don't touch free or locks in a crash").
CrashProceeds == hit # "none" ~> hit = "none"
=============================================================================
