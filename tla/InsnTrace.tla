----------------------------- MODULE InsnTrace -----------------------------
(***************************************************************************)
(* trace_code() of EastTrace.cpp: the callback libvcpu makes before every  *)
(* instruction of the traced SO, on one thread.  It shows the instruction, *)
(* one callback later what the instruction wrote, and the calls that leave *)
(* the SO: [CALL] with => (FuncCallTrace.cpp), >>> for JNI (JniTrace.cpp), *)
(* [SVC] with => (svc_handler.cpp), while the instructions of PLT stubs    *)
(* and JNI wrappers stay hidden.  `ideal` is the trace a reader is to get, *)
(* written by what the program does, not by what the tracer remembers.     *)
(*                                                                         *)
(* One instruction is one address, and so is a PLT stub.  A line is a      *)
(* sequence of tokens: its kind, the number of the executed instruction it *)
(* is about, and a value.                                                  *)
(***************************************************************************)
EXTENDS DisasmCache, Integers, Sequences, SequencesExt

CONSTANTS
  Programs,   \* code of the SO: functions from Addrs to instructions
  Target,     \* the traced function
  Plt,        \* the stubs, addresses of the SO
  Got,        \* where a stub jumps to
  Unresolved, \* stubs of a form that resolvePltTarget() does not know (BTI, say)
  Wrappers,   \* functions of the SO named _JNIEnv::...
  JniTable,   \* addresses of JNI functions
  Kind,       \* of the other addresses outside the SO: what they do
  Fds,        \* descriptors
  Shared,     \* do other threads run traced code at the same time?
  CleanInterval, \* MEM_CLEANUP_INTERVAL
  LongLines,  \* has a line grown the string builder past 8192 bytes?
  MaxRuns,    \* bound: calls of the traced function
  MaxOthers   \* bound: callbacks of other sessions

ASSUME InsnAssumption ==
  /\ Target \in Addrs /\ Unresolved \subseteq Plt /\ Plt \subseteq Addrs /\ Wrappers \subseteq Addrs
  /\ Fds \subseteq Nat /\ {Shared, LongLines} \subseteq BOOLEAN
  /\ {CleanInterval, MaxRuns, MaxOthers} \subseteq Nat
  /\ Ways > 1
  \* The code does not run off its end, and direct branches stay in it.
  /\ \A p \in Programs, a \in Addrs :
        /\ p[a].op \notin {"b", "br", "ret"} => a + 1 \in Addrs
        /\ p[a].op \in {"b", "bl", "cbz"} => p[a].arg \in Addrs

VARIABLES
  code, pc, stack,  \* the program, 0 when it does not run, return addresses
  x0,         \* who set X0, and the descriptor in it (-1 if none)
  step,       \* instructions of the SO executed, stubs not counted
  via,        \* the one that left the SO or entered a stub, and what is due for it
  hide,       \* length of `stack` in the hidden wrapper, -1 outside
  files,      \* who opened each descriptor: -1 free, 0 a thing without a path
  runs, others,
  ideal,      \* the trace as it should be
  t,          \* TraceInfo of the thread, with the FuncCallTraceCtx of it
  cache, heap \* disassembleCache

guestVars == <<code, pc, stack, x0, step, via, hide, files>>
vars == <<guestVars, runs, others, ideal, t, cache, heap>>

insn == code[pc]
n == step + 1           \* the number of the instruction at pc
Next4(a) == a + 1       \* address + 4
Tok(kind, k, v) == [t |-> kind, k |-> k, v |-> v]

NoCall == [type |-> "none", path |-> 0]
NoPend == [has |-> FALSE, mem |-> FALSE, cell |-> NoCell, addr |-> 0, line |-> 0]

\* A new TraceInfo.
NewTraceInfo ==
  [out |-> <<>>, sb |-> <<>>,   \* what is written, stringBuilder
   lastWrite |-> 0,             \* whose registers lastWritePrinter shows, 0 if none
   pend |-> NoPend,             \* hasPendingAccess, pendingAccess
   pltSkip |-> FALSE, wrapRet |-> 0, \* jniWrapperSkip with jniWrapperReturnAddr
   jniRet |-> 0, jniCall |-> 0, \* g_jni_pending_ret, the call it belongs to
   callRet |-> 0, call |-> NoCall, fdCall |-> [f \in Fds |-> 0],
   svc |-> NoCall, svcLine |-> 0, fdSvc |-> [f \in Fds |-> 0],
   counter |-> 0]               \* memCleanupCounter

-----------------------------------------------------------------------------
(* Parts of trace_code, as functions of the TraceInfo s.                   *)

Show(s, tok) == [s EXCEPT !.sb = Append(@, tok)]
Write(s, tok) == [s EXCEPT !.out = Append(@, tok)]
WriteSb(s) == [s EXCEPT !.out = @ \o s.sb, !.sb = <<>>]

\* Mutant of CutLine: the line is dropped.
CutLineUnwritten(s) == [s EXCEPT !.sb = <<>>, !.lastWrite = 0, !.pend.has = FALSE]

\* The line goes out before its time; nothing more is added to it.
CutLine(s) == [WriteSb(s) EXCEPT !.lastWrite = 0, !.pend.has = FALSE]

jni_on_call(s, retAddr) == [s EXCEPT !.jniRet = retAddr, !.jniCall = n]

jni_on_return(s) ==
  IF s.jniRet = pc
  THEN Write([CutLine(s) EXCEPT !.jniRet = 0], Tok("jni", s.jniCall, x0.by))
  ELSE s

\* FdTracker: add() and remove() of what X0 holds.
Add(table, path) == [f \in Fds |-> IF f = x0.fd THEN path ELSE table[f]]

Closed(table) == Add(table, 0)

\* setupPendingAndEnhance(): only a function with a signature sets it.
setupPending(s, kind) ==
  CASE kind = "open"  -> [s EXCEPT !.call = [type |-> "open", path |-> n]]
    [] kind = "close" -> [s EXCEPT !.call = [type |-> "int", path |-> 0],
                                   !.fdCall = Closed(@)]
    [] kind = "read"  -> [s EXCEPT !.call = [type |-> "read", path |-> 0]]
    [] OTHER          -> s

\* funcCallTraceEmit() before the call ...
EmitCall(s, f) == setupPending(Write(s, Tok("call", n, f)), Kind[f])

\* ... and after it: flushPendingReturn(), or the plain X0.
EmitReturn(s) ==
  LET known == IF s.call.type = "open" THEN [s EXCEPT !.fdCall = Add(@, s.call.path)] ELSE s
  IN Write([known EXCEPT !.call = NoCall, !.callRet = 0], Tok("ret", x0.by, s.call.type))

ReturnSeen(s) == IF s.callRet = pc THEN EmitReturn(s) ELSE s

\* svc_handle() and svc_flush_pending().
svc_handle(s) ==
  LET shown == [Show(s, Tok("svc", n, 0)) EXCEPT !.svcLine = n]
  IN CASE insn.arg = "openat" -> [shown EXCEPT !.svc = [type |-> "open", path |-> n]]
       [] insn.arg = "close"  -> [shown EXCEPT !.svc = [type |-> "any", path |-> 0],
                                               !.fdSvc = Closed(@)]
       [] OTHER               -> [shown EXCEPT !.svc = [type |-> "any", path |-> 0]]

svc_flush_pending(s) ==
  IF s.svc.type = "none" THEN s
  ELSE LET named == IF s.svc.type = "open" THEN [s EXCEPT !.fdSvc = Add(@, s.svc.path)] ELSE s
       IN Show([named EXCEPT !.svc = NoCall], Tok("svcret", s.svcLine, x0.by))

\* Mutant of ShowWrites: lastWritePrinter is not reset.
ShowWritesAgain(s) ==
  IF s.lastWrite # 0 THEN WriteSb(Show(s, Tok("wr", s.lastWrite, step))) ELSE WriteSb(s)

\* visitLastImpl() with the registers as they are now; then the line goes out.
ShowWrites(s) ==
  IF s.lastWrite # 0
  THEN WriteSb([Show(s, Tok("wr", s.lastWrite, step)) EXCEPT !.lastWrite = 0])
  ELSE WriteSb(s)

\* The access of the instruction before, decoded from the heap as it is now.
ShowAccess(s, hp) ==
  IF s.pend.has /\ s.pend.mem
  THEN Show([s EXCEPT !.pend.has = FALSE], Tok("mem", s.pend.line, hp[s.pend.cell]))
  ELSE [s EXCEPT !.pend.has = FALSE]

WritesRegs(op) == op \in {"mov", "ldr", "bl", "blr", "svc"}
Accesses(op) == op \in {"ldr", "str"}

\* The line of this instruction: visitImpl(), its access, the system call, RET.
ShowInsn(s, c, hp) ==
  LET line == [Show(s, Tok("insn", n, hp[c])) EXCEPT
                 !.lastWrite = IF WritesRegs(insn.op) THEN n ELSE @,
                 !.pend = [has |-> TRUE, mem |-> Accesses(insn.op), cell |-> c,
                           addr |-> pc, line |-> n]]
      answered == svc_flush_pending(line)
  IN CASE insn.op = "svc" -> svc_handle(answered)
       [] insn.op = "ret" -> [WriteSb(answered) EXCEPT !.lastWrite = 0]
       [] OTHER           -> answered

printAssemble2(s, c, hp) == ShowInsn(ShowAccess(ShowWrites(s), hp), c, hp)

\* Step C: BL or B into .plt. The line is cut and the stub skipped in any case.
ToPlt(s) ==
  LET cut == [CutLine(s) EXCEPT !.pltSkip = TRUE]
      f == Got[insn.arg]
      named == Write(cut, Tok("name", n, f))
  IN CASE insn.arg \in Unresolved -> cut
       [] f \in Wrappers -> [named EXCEPT !.wrapRet = Next4(pc)]
       [] f \in Addrs \ Wrappers -> named
       [] f \in JniTable -> [jni_on_call(cut, Next4(pc)) EXCEPT !.wrapRet = Next4(pc)]
       [] OTHER -> [EmitCall(cut, f) EXCEPT !.callRet = Next4(pc)]

\* Steps C and D: the branches that leave what is shown.
BranchOut(s) ==
  CASE insn.op \in {"bl", "b"} /\ insn.arg \in Plt -> ToPlt(s)
    [] insn.op \in {"blr", "br"} /\ insn.arg \notin Addrs -> CutLine(s)
    [] OTHER -> s

-----------------------------------------------------------------------------
(* disassembleCache during a callback for address a: get() or disassemble  *)
(* and put(); the register accesses are cached too.                        *)

NewCell(hp) == CHOOSE c \in FreeCells(hp) : TRUE

\* There is memory for an instruction that has to be disassembled.
Allocates(a) == Cached(cache, a) \/ FreeCells(heap) # {}

Fetched(a) ==
  LET ch == IF Cached(cache, a) THEN get(cache, a) ELSE put(cache, a, NewCell(heap))
  IN IF RegsCached(ch, a) THEN ch ELSE putRegAccess(ch, a)

HeapAfter(a) ==
  IF Cached(cache, a) THEN heap
  ELSE cs_free([heap EXCEPT ![NewCell(heap)] = a], {Evicted(cache, a)})

FrontCell(ch, a) == ch[hashAddr(a)][1].cell

-----------------------------------------------------------------------------
(* The program.  Its instructions: [op, arg], with the target of a branch. *)

Hidden == hide # -1 /\ Len(stack) >= hide

\* What a reader wants to see when a call out of visible or hidden code returns:
\* >>> of a JNI function, => of another one called from visible code.
Due(f) == IF f \in JniTable THEN "jni" ELSE IF Hidden THEN "none" ELSE "ret"

Left(f) == via' = [by |-> n, due |-> Due(f)]

\* What the line of the instruction should be, and of the call it makes: a branch of
\* any kind, through a stub or not, to a function outside the SO, or to one of
\* the SO through a stub.
Wanted ==
  LET f == IF insn.arg \in Plt THEN Got[insn.arg] ELSE insn.arg
      note == CASE f \in JniTable -> <<>>
                [] f \in Addrs /\ insn.arg \in Plt -> <<Tok("name", n, f)>>
                [] f \in Addrs /\ insn.arg \notin Plt -> <<>>
                [] OTHER -> <<Tok("call", n, f)>>
  IN IF Hidden THEN <<>>
     ELSE <<Tok("insn", n, pc)>> \o (IF insn.op \in {"bl", "b", "blr", "br"} THEN note ELSE <<>>)

\* The kernel: what open and close do to the descriptors, and what they return.
LowestFree == {f \in Fds : files[f] = -1 /\ \A g \in Fds : files[g] = -1 => f <= g}

System(kind, by, path) ==
  CASE kind \in {"open", "pipe"} ->
         \E fd \in LowestFree \cup {-1} :
            /\ files' = IF fd = -1 THEN files
                        ELSE [files EXCEPT ![fd] = IF kind = "open" THEN path ELSE 0]
            /\ x0' = [by |-> by, fd |-> fd]
    [] kind = "close" ->
         /\ files' = IF x0.fd \in Fds THEN [files EXCEPT ![x0.fd] = -1] ELSE files
         /\ x0' = [by |-> by, fd |-> -1]
    [] OTHER -> files' = files /\ x0' = [by |-> by, fd |-> -1]

NoSystem == UNCHANGED <<x0, files>>

\* Where control goes after a return; the run is over when nobody called.
Returned ==
  IF stack = <<>> THEN pc' = 0 /\ stack' = stack
  ELSE pc' = Last(stack) /\ stack' = Front(stack)

\* The instruction at pc, which is not a stub.
Execute ==
  /\ step' = n /\ ideal' = ideal \o Wanted
  /\ CASE insn.op \in {"bl", "blr"} ->
            /\ pc' = insn.arg /\ stack' = Append(stack, Next4(pc))
            /\ Left(IF insn.arg \in Plt THEN Got[insn.arg] ELSE insn.arg) /\ NoSystem
       [] insn.op \in {"b", "br"} ->
            /\ pc' = insn.arg /\ stack' = stack
            /\ Left(IF insn.arg \in Plt THEN Got[insn.arg] ELSE insn.arg) /\ NoSystem
       [] insn.op = "ret" -> Returned /\ NoSystem /\ UNCHANGED via
       [] insn.op = "cbz" -> pc' \in {Next4(pc), insn.arg} /\ NoSystem /\ UNCHANGED <<stack, via>>
       [] insn.op = "svc" ->
            /\ pc' = Next4(pc) /\ UNCHANGED <<stack, via>>
            /\ System(IF insn.arg = "openat" THEN "open" ELSE insn.arg, n, n)
       [] insn.op \in {"mov", "ldr"} ->
            /\ pc' = Next4(pc) /\ x0' = [by |-> n, fd |-> -1] /\ UNCHANGED <<files, stack, via>>
       [] OTHER -> pc' = Next4(pc) /\ NoSystem /\ UNCHANGED <<stack, via>>
  /\ hide' = IF Hidden THEN hide ELSE -1
  /\ UNCHANGED code

-----------------------------------------------------------------------------
(* Steps: one callback, then the instruction.                              *)

InSo == pc \in Addrs
Skipping == t.pltSkip /\ pc \in Plt
InWrapper == t.wrapRet \notin {0, pc}

\* Step A: an instruction of a stub, which jumps.
StubInsn ==
  /\ InSo /\ Skipping
  /\ t' = jni_on_return(t)
  /\ pc' = Got[pc]
  /\ hide' = IF Got[pc] \in Wrappers /\ ~Hidden THEN Len(stack) ELSE hide
  /\ UNCHANGED <<code, stack, x0, step, via, files, runs, others, ideal, cache, heap>>

\* In a wrapper: BLR and BR to a JNI function are recognized, nothing is shown.
WrapperInsn ==
  /\ InSo /\ ~Skipping /\ InWrapper
  /\ LET s == [jni_on_return(t) EXCEPT !.pltSkip = FALSE]
     IN t' = IF insn.op \in {"blr", "br"} /\ insn.arg \in JniTable
             THEN jni_on_call(s, IF insn.op = "blr" THEN Next4(pc) ELSE s.wrapRet)
             ELSE s
  /\ Execute
  /\ UNCHANGED <<runs, others, cache, heap>>

\* Is this the callback that cleans up?
Cleans == t.counter + 1 >= CleanInterval

\* An instruction that is shown.
TracedInsn ==
  /\ InSo /\ ~Skipping /\ ~InWrapper /\ Allocates(pc)
  /\ LET s  == [jni_on_return(t) EXCEPT !.pltSkip = FALSE, !.wrapRet = 0]
         ch == Fetched(pc)
         hp == HeapAfter(pc)
         shown == printAssemble2(ReturnSeen(s), FrontCell(ch, pc), hp)
     IN /\ t' = BranchOut([shown EXCEPT !.counter = IF Cleans THEN 0 ELSE @ + 1,
                                         !.sb = IF Cleans /\ LongLines THEN <<>> ELSE @])
        /\ cache' = IF Cleans THEN trimCold(ch) ELSE ch
        /\ heap'  = IF Cleans THEN cs_free(hp, ColdCells(ch)) ELSE hp
  /\ Execute
  /\ UNCHANGED <<runs, others>>

\* libvcpu runs a function outside the SO on the host; it returns.
HostCall ==
  /\ pc # 0 /\ ~InSo
  /\ LET kind == IF pc \in JniTable THEN "jni" ELSE Kind[pc]
         type == CASE kind \in {"open", "read"} -> kind
                   [] kind = "close" -> "int"
                   [] OTHER -> "none"
     IN /\ System(kind, via.by, via.by)
        /\ ideal' = CASE via.due = "jni" -> Append(ideal, Tok("jni", via.by, via.by))
                      [] via.due = "ret" -> Append(ideal, Tok("ret", via.by, type))
                      [] OTHER -> ideal
  /\ Returned
  /\ UNCHANGED <<code, step, via, hide, runs, others, t, cache, heap>>

\* The app calls the traced function: openNextTraceFile() drops the pending line.
Call ==
  /\ pc = 0 /\ runs < MaxRuns
  /\ runs' = runs + 1
  /\ pc' = Target /\ hide' = -1
  /\ t' = [t EXCEPT !.sb = <<>>]
  /\ UNCHANGED <<code, stack, x0, step, via, files, others, ideal, cache, heap>>

\* The cache is one for all sessions: another one traces an instruction ...
OtherInsn ==
  /\ (pc = 0 /\ runs > 0) \/ Shared
  /\ others < MaxOthers /\ others' = others + 1
  /\ \E a \in Addrs : Allocates(a) /\ cache' = Fetched(a) /\ heap' = HeapAfter(a)
  /\ UNCHANGED <<guestVars, runs, ideal, t>>

\* ... or is freed, and clears it.
OtherFreeTrace ==
  /\ (pc = 0 /\ runs > 0) \/ Shared
  /\ others < MaxOthers /\ others' = others + 1
  /\ cache' = EmptyCache /\ heap' = EmptyHeap
  /\ UNCHANGED <<guestVars, runs, ideal, t>>

Init ==
  /\ code \in Programs
  /\ pc = 0 /\ stack = <<>> /\ x0 = [by |-> 0, fd |-> -1] /\ step = 0
  /\ via = [by |-> 0, due |-> "none"] /\ hide = -1
  /\ files = [f \in Fds |-> -1]
  /\ runs = 0 /\ others = 0 /\ ideal = <<>>
  /\ t = NewTraceInfo
  /\ cache = EmptyCache /\ heap = EmptyHeap

Done == pc = 0 /\ runs = MaxRuns /\ UNCHANGED vars

Next == StubInsn \/ WrapperInsn \/ TracedInsn \/ HostCall \/ Call
        \/ OtherInsn \/ OtherFreeTrace \/ Done

Spec == Init /\ [][Next]_vars

-----------------------------------------------------------------------------
(* Properties.                                                             *)

Trace == t.out \o t.sb
Shown == SelectSeq(Trace, LAMBDA tok : tok.t \in {"insn", "call", "ret", "jni", "name"})

\* The tokens of `wanted` are shown, in this order; only the last may be missing
\* until the next callback.
Shows(wanted) ==
  /\ IsPrefix(Shown, wanted)
  /\ Len(wanted) <= Len(Shown) + 1
  /\ pc = 0 => Shown = wanted

\* The reader gets the ideal trace: every instruction outside stubs and wrappers once
\* and in order, every call out of the SO after its line and its result before the
\* next one, a result being the one of that call (docs/TRACE.md shows [CALL] after
\* BL and >>> after BLR; steps C and D cut the line so that both come after it).
\* Violated: see Findings in the README.
TraceIsIdeal == Shows(ideal)

\* Instruction k, if visible, called with BL through a stub that can be resolved.
ByBl(k) ==
  \A i \in 1..Len(ideal) : ideal[i].t = "insn" /\ ideal[i].k = k =>
    LET called == code[ideal[i].v] IN called.op = "bl" /\ called.arg \notin Unresolved

\* What the code shows of it: every visible instruction, every call by BL through a
\* stub and every JNI call made in a hidden wrapper, all in order and with their own
\* results, while calls by BLR or BR to libc, JNI or the SO itself, and by BL through
\* stubs that cannot be resolved, happen in between and leave just their line.
BlCallsShown == Shows(SelectSeq(ideal, LAMBDA tok : tok.t = "insn" \/ ByBl(tok.k)))

\* The instruction whose line a token stands on.
LineOf(i) == LET heads == {j \in 1..i : Trace[j].t = "insn"}
             IN CHOOSE j \in heads : \A l \in heads : l <= j

\* Registers written, memory accessed and the answer of a system call, all
\* printed a callback later, are those of the instruction they stand by: the
\* registers as it left them, the access of its decoding; the answer of a
\* system call stands on the next line.
AnnotationsOfOwnLine ==
  \A i \in 1..Len(Trace) :
    LET tok == Trace[i] IN
    CASE tok.t = "wr"     -> Trace[LineOf(i)].k = tok.k /\ tok.v = tok.k
      [] tok.t = "mem"    -> Trace[LineOf(i)].k = tok.k /\ tok.v = Trace[LineOf(i)].v
      [] tok.t = "svcret" -> Trace[LineOf(i)].k = tok.k + 1 /\ tok.v = tok.k
      [] OTHER            -> TRUE

\* The cache and the allocator agree, and the instruction whose access is still
\* to be shown is not freed: not meanwhile, and not by the eviction that fetching
\* the next instruction may cause (pendingAccess.insn is a bare pointer).
CacheKeepsPending ==
  /\ CacheSound(cache, heap)
  /\ t.pend.has /\ t.pend.mem =>
       /\ heap[t.pend.cell] = t.pend.addr
       /\ Allocates(pc) => HeapAfter(pc)[t.pend.cell] = t.pend.addr

\* A path shown beside a descriptor is the path of the file that it is now,
\* whichever way the file was opened and closed: [CALL] and [SVC] are to share one
\* table.
\* Violated: see Findings in the README.
FdTablesTrue ==
  \A f \in Fds : /\ t.fdCall[f] # 0 => t.fdCall[f] = files[f]
                 /\ t.fdSvc[f] # 0 => t.fdSvc[f] = files[f]

=============================================================================
