------------------------------ MODULE TraceWire ------------------------------
(***************************************************************************)
(* The TCP stream of a trace, end to end: the background threads of        *)
(* several clones send compressed frames over one socket under             *)
(* g_tcp_send_mutex (DirectWriteBuf::bg_worker, send_end_frame), and       *)
(* tools/trace_receiver.py splits them into one log per thread             *)
(* (cmd_receive, recv_exact, find_next_index).                             *)
(*                                                                         *)
(* A clone's text is the lines 1, 2, 3, ...; a frame is a range of them,   *)
(* sent as two pieces, header and body.  The buffer of a clone is the      *)
(* double buffer of module DoubleBuffer: one frame in flight while the     *)
(* next lines are collected.  "Round" is one connection of one receiver.   *)
(***************************************************************************)
EXTENDS Naturals, Sequences, FiniteSets

CONSTANTS
  Clones, Tids,
  TidOf,       \* the thread of each clone
  MaxIndex,    \* find_next_index tries 0 .. MaxIndex-1 (10000 in the code)
  TimedOut,    \* may the device be silent for RECV_TIMEOUT?
  MaxLines,    \* bound: lines of a clone in a round
  MaxRounds    \* bound: connections

ASSUME WireAssumption ==
  /\ TidOf \in [Clones -> Tids] /\ "free" \notin Clones
  /\ MaxIndex \in Nat \ {0} /\ MaxLines \in Nat /\ MaxRounds \in Nat
  /\ TimedOut \in BOOLEAN

VARIABLES
  device,   \* "down", "up", "ended" (end frame sent, socket closed), "killed"
  round,
  written, flushed, sent,  \* lines written, handed over, put on the socket
  worker,   \* the background thread of each clone
  mutex,    \* g_tcp_send_mutex: the clone whose worker holds it, or "free"
  wire,     \* pieces on their way
  receiver, \* "off", "header", "body", "done" (end frame), "lost", "corrupt"
  header,   \* the header cmd_receive has read
  tid_files,\* tid -> index of the log opened in this round, or NoFile
  files     \* the logs on the PC: tid -> index -> round and text

deviceVars == <<device, round, written, flushed, sent, worker, mutex>>
receiverVars == <<receiver, header, tid_files, files>>
vars == <<deviceVars, wire, receiverVars>>

NoFile == MaxIndex
Absent == [round |-> 0, text |-> <<>>]

\* Mutant of Frame: it starts with the last line of the frame before.
FrameOverlapping(c) ==
  [clone |-> c, lo |-> IF sent[c] = 0 THEN 1 ELSE sent[c], hi |-> flushed[c]]

\* The frame in flight of a clone: the lines handed over and not yet sent.
Frame(c) == [clone |-> c, lo |-> sent[c] + 1, hi |-> flushed[c]]
Piece(kind, c) == [kind |-> kind, frame |-> Frame(c)]
EndPiece == [kind |-> "end"]

\* send_all: nobody reads any more once the receiver has closed its socket;
\* the error is ignored and the piece is lost.
Send(piece) == wire' = IF receiver \in {"header", "body"} THEN Append(wire, piece)
                                                          ELSE wire

-----------------------------------------------------------------------------
(* The device.                                                             *)

\* init_tcp: nothing is handed over or sent yet.
EmptyBuffers ==
  /\ flushed' = [c \in Clones |-> 0]
  /\ sent' = [c \in Clones |-> 0]

\* trace("tcp:...") accepts a receiver.
Connect ==
  /\ device # "up" /\ receiver \notin {"header", "body"} /\ round < MaxRounds
  /\ device' = "up"
  /\ round' = round + 1
  /\ written' = [c \in Clones |-> 0]
  /\ EmptyBuffers
  /\ worker' = [c \in Clones |-> "idle"]
  /\ mutex' = "free"
  /\ wire' = <<>>
  /\ receiver' = "header"
  /\ tid_files' = [t \in Tids |-> NoFile]
  /\ UNCHANGED <<header, files>>

\* The clone writes a line to the buffer it fills.
WriteLine(c) ==
  /\ device = "up" /\ worker[c] # "joined" /\ written[c] < MaxLines
  /\ written' = [written EXCEPT ![c] = @ + 1]
  /\ UNCHANGED <<device, round, flushed, sent, worker, mutex, wire, receiverVars>>

\* flush() waits for an idle worker and hands the lines over.
Flush(c) ==
  /\ device = "up" /\ worker[c] = "idle" /\ written[c] > flushed[c]
  /\ flushed' = [flushed EXCEPT ![c] = written[c]]
  /\ worker' = [worker EXCEPT ![c] = "compress"]
  /\ UNCHANGED <<device, round, written, sent, mutex, wire, receiverVars>>

\* Mutant of WorkerLock: the frame is sent without g_tcp_send_mutex.
WorkerLockNot(c) ==
  /\ device = "up" /\ worker[c] = "compress"
  /\ worker' = [worker EXCEPT ![c] = "header"]
  /\ UNCHANGED <<device, round, written, flushed, sent, mutex, wire, receiverVars>>

\* bg_worker has compressed the buffer and takes g_tcp_send_mutex.
WorkerLock(c) ==
  /\ device = "up" /\ worker[c] = "compress" /\ mutex = "free"
  /\ mutex' = c
  /\ worker' = [worker EXCEPT ![c] = "header"]
  /\ UNCHANGED <<device, round, written, flushed, sent, wire, receiverVars>>

SendHeader(c) ==
  /\ device = "up" /\ worker[c] = "header"
  /\ Send(Piece("header", c))
  /\ worker' = [worker EXCEPT ![c] = "body"]
  /\ UNCHANGED <<device, round, written, flushed, sent, mutex, receiverVars>>

\* Mutant of Unlock: the mutex stays taken.
UnlockNot == mutex' = mutex

\* The lock_guard of g_tcp_send_mutex ends.
Unlock == mutex' = "free"

\* The body follows; the mutex is released and the worker is idle again.
SendBody(c) ==
  /\ device = "up" /\ worker[c] = "body"
  /\ Send(Piece("body", c))
  /\ sent' = [sent EXCEPT ![c] = flushed[c]]
  /\ Unlock
  /\ worker' = [worker EXCEPT ![c] = "idle"]
  /\ UNCHANGED <<device, round, written, flushed, receiverVars>>

\* Mutant of Drained: the lines still in the buffer are forgotten.
DrainedWorker(c) == worker[c] = "idle"

\* destroy() has flushed, and its worker is idle.
Drained(c) == worker[c] = "idle" /\ written[c] = flushed[c]

\* freeTrace destroys the clone: destroy() joins the worker.
Destroy(c) ==
  /\ device = "up" /\ Drained(c)
  /\ worker' = [worker EXCEPT ![c] = "joined"]
  /\ UNCHANGED <<device, round, written, flushed, sent, mutex, wire, receiverVars>>

AllDestroyed == \A c \in Clones : worker[c] = "joined"

\* The last freeTrace sends the end frame and closes the socket.
SendEndFrame ==
  /\ device = "up" /\ AllDestroyed /\ mutex = "free"
  /\ Send(EndPiece)
  /\ device' = "ended"
  /\ UNCHANGED <<round, written, flushed, sent, worker, mutex, receiverVars>>

\* The app is killed: what the kernel has still reaches the receiver.
Kill ==
  /\ device = "up"
  /\ device' = "killed"
  /\ UNCHANGED <<round, written, flushed, sent, worker, mutex, wire, receiverVars>>

-----------------------------------------------------------------------------
(* The receiver.                                                           *)

\* recv_exact of a header: end frame, frame header, or bytes of something else.
RecvHeader ==
  /\ receiver = "header" /\ wire # <<>>
  /\ wire' = Tail(wire)
  /\ \/ /\ Head(wire).kind = "end"
        /\ receiver' = "done" /\ header' = header
     \/ /\ Head(wire).kind = "header"
        /\ receiver' = "body" /\ header' = Head(wire).frame
     \/ /\ Head(wire).kind = "body"
        /\ receiver' = "corrupt" /\ header' = header
  /\ UNCHANGED <<deviceVars, tid_files, files>>

\* The first index whose file does not exist; 0 when all names are taken.
find_next_index(t) ==
  LET free == {i \in 0..MaxIndex-1 : files[t][i] = Absent}
  IN IF free = {} THEN 0 ELSE CHOOSE i \in free : \A j \in free : i <= j

\* recv_exact of the body: decompress, open the thread's log on its first
\* frame (truncating it), append.
RecvBody ==
  /\ receiver = "body" /\ wire # <<>>
  /\ wire' = Tail(wire)
  /\ \/ /\ Head(wire) = [kind |-> "body", frame |-> header]
        /\ LET t == TidOf[header.clone]
               i == IF tid_files[t] = NoFile THEN find_next_index(t) ELSE tid_files[t]
               old == IF tid_files[t] = NoFile THEN <<>> ELSE files[t][i].text
               lines == [n \in 1..(header.hi + 1 - header.lo) |->
                           <<header.clone, header.lo + n - 1>>]
           IN /\ files' = [files EXCEPT ![t][i] =
                             [round |-> round, text |-> old \o lines]]
              /\ tid_files' = [tid_files EXCEPT ![t] = i]
        /\ receiver' = "header"
     \/ /\ Head(wire) # [kind |-> "body", frame |-> header]
        /\ receiver' = "corrupt"
        /\ UNCHANGED <<files, tid_files>>
  /\ UNCHANGED <<deviceVars, header>>

\* Mutant of Closed: only an orderly end is noticed.
ClosedInOrder == device = "ended"

Closed == device # "up"

\* The socket is closed and empty: ConnectionError, also inside a frame.
RecvClosed ==
  /\ receiver \in {"header", "body"} /\ wire = <<>> /\ Closed
  /\ receiver' = "lost"
  /\ UNCHANGED <<deviceVars, wire, header, tid_files, files>>

\* Nothing came for RECV_TIMEOUT: the receiver gives up.
RecvTimeout ==
  /\ TimedOut
  /\ receiver \in {"header", "body"} /\ wire = <<>> /\ device = "up"
  /\ receiver' = "lost"
  /\ UNCHANGED <<deviceVars, wire, header, tid_files, files>>

-----------------------------------------------------------------------------

Init ==
  /\ device = "down" /\ round = 0
  /\ written = [c \in Clones |-> 0]
  /\ flushed = [c \in Clones |-> 0]
  /\ sent = [c \in Clones |-> 0]
  /\ worker = [c \in Clones |-> "joined"]
  /\ mutex = "free"
  /\ wire = <<>>
  /\ receiver = "off"
  /\ header = [clone |-> CHOOSE c \in Clones : TRUE, lo |-> 1, hi |-> 0]
  /\ tid_files = [t \in Tids |-> NoFile]
  /\ files = [t \in Tids |-> [i \in 0..MaxIndex-1 |-> Absent]]

WorkerStep(c) == WorkerLock(c) \/ SendHeader(c) \/ SendBody(c)
RecvStep == RecvHeader \/ RecvBody \/ RecvClosed

Terminated ==
  /\ device # "up" /\ receiver \notin {"header", "body"}
  /\ UNCHANGED vars

Next ==
  \/ Connect \/ SendEndFrame \/ Kill
  \/ \E c \in Clones : WriteLine(c) \/ Flush(c) \/ Destroy(c) \/ WorkerStep(c)
  \/ RecvStep \/ RecvTimeout
  \/ Terminated

Spec == Init /\ [][Next]_vars

\* Workers are scheduled and the kernel delivers; freeTrace, once begun, goes
\* through its flush, its joins and the end frame. WF of the worker is enough:
\* each of them takes the mutex a bounded number of times.
FairSpec ==
  /\ Spec
  /\ \A c \in Clones : WF_vars(WorkerStep(c)) /\ WF_vars(Flush(c) \/ Destroy(c))
  /\ WF_vars(SendEndFrame) /\ WF_vars(RecvStep)

-----------------------------------------------------------------------------
(* Properties.                                                             *)

\* Workers of different clones never mix their pieces: the receiver never takes
\* a body for a header, nor the body of one frame for that of another.
FramesIntact == receiver # "corrupt"

\* Where the lines of c are in a log.
LinesOf(c, text) == {p \in 1..Len(text) : text[p][1] = c}

\* The log of this round, if it is open.
Log(t) == IF tid_files[t] = NoFile THEN <<>> ELSE files[t][tid_files[t]].text

\* Every log holds a prefix of the text of each clone of its thread, in order
\* and without holes, and nothing of another thread: whatever was received
\* before a kill or a timeout is good.
LogsArePrefixes ==
  \A t \in Tids :
    /\ \A c \in Clones : \A p \in LinesOf(c, Log(t)) :
         Log(t)[p][2] = Cardinality({q \in LinesOf(c, Log(t)) : q <= p})
    /\ \A p \in 1..Len(Log(t)) : TidOf[Log(t)[p][1]] = t

\* When the receiver reports the end frame, its logs hold every line written.
EndMeansComplete ==
  receiver = "done" =>
    \A c \in Clones : Cardinality(LinesOf(c, Log(TidOf[c]))) = written[c]

\* Once the stream is ended, or the app is gone, the receiver ends too.
ReceiverEnds == device \in {"ended", "killed"} ~> receiver \notin {"header", "body"}

\* Every line a running trace has flushed gets into a log of the receiver.
FlushedLinesArrive ==
  \A c \in Clones : \A n \in 1..MaxLines :
    (receiver \in {"header", "body"} /\ flushed[c] >= n)
      ~> (receiver \in {"done", "lost"} \/ Cardinality(LinesOf(c, Log(TidOf[c]))) >= n)
=============================================================================
