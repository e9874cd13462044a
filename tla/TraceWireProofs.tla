--------------------------- MODULE TraceWireProofs ---------------------------
(***************************************************************************)
(* Theorems about TraceWire: whatever the workers of the clones do, the    *)
(* stream they send over one socket splits into the frames they made.      *)
(***************************************************************************)
EXTENDS TraceWire, SequenceTheorems, FiniteSetTheorems, WellFoundedInduction, TLAPS

Frames == [clone : Clones, lo : Nat, hi : Nat]
Pieces == [kind : {"header", "body"}, frame : Frames] \cup {EndPiece}

TypeOK ==
  /\ device \in {"down", "up", "ended", "killed"}
  /\ round \in Nat
  /\ written \in [Clones -> Nat] /\ flushed \in [Clones -> Nat] /\ sent \in [Clones -> Nat]
  /\ worker \in [Clones -> {"idle", "compress", "header", "body", "joined"}]
  /\ mutex \in Clones \cup {"free"}
  /\ wire \in Seq(Pieces)
  /\ receiver \in {"off", "header", "body", "done", "lost", "corrupt"}

\* g_tcp_send_mutex is held exactly while a frame is sent.
Sending(c) == device = "up" /\ worker[c] \in {"header", "body"}
LockInv == \A c \in Clones : Sending(c) => mutex = c

Reading == receiver \in {"header", "body"}

\* The header is on its way, or read, and its body has not been sent.
HeaderOut(c) ==
  IF wire = <<>> THEN receiver = "body" /\ header = Frame(c)
                 ELSE wire[Len(wire)] = Piece("header", c)

\* Nothing on its way is half a frame.
WholeFrames ==
  IF wire = <<>> THEN receiver = "header"
                 ELSE wire[Len(wire)].kind # "header"

\* While somebody reads, the last frame lacks its body exactly if a worker is
\* about to send it; nothing is said of an app that has been killed.
OpenEnd ==
  device # "killed" /\ Reading =>
    \/ \E c \in Clones : Sending(c) /\ worker[c] = "body" /\ HeaderOut(c)
    \/ WholeFrames /\ \A c \in Clones : Sending(c) => worker[c] = "header"

\* After a header comes its body, before a body its header; the end frame
\* is the last piece.
Framed ==
  Reading =>
    /\ \A n \in 1..Len(wire) :
         /\ wire[n].kind = "end" => n = Len(wire) /\ device = "ended"
         /\ wire[n].kind = "body" =>
              IF n = 1 THEN receiver = "body" /\ header = wire[n].frame
              ELSE wire[n - 1] = [kind |-> "header", frame |-> wire[n].frame]
         /\ wire[n].kind # "body" =>
              IF n = 1 THEN receiver = "header" ELSE wire[n - 1].kind = "body"

IInv == TypeOK /\ LockInv /\ OpenEnd /\ Framed /\ FramesIntact

-----------------------------------------------------------------------------

\* Another piece on the wire.
LEMMA Sent ==
  ASSUME TypeOK, NEW p \in Pieces, Send(p), Reading
  PROVE  /\ wire' \in Seq(Pieces) /\ Len(wire) \in Nat /\ Len(wire') = Len(wire) + 1
         /\ wire'[Len(wire) + 1] = p /\ \A n \in 1..Len(wire) : wire'[n] = wire[n]
         /\ wire' # <<>>
<1>1. wire' = Append(wire, p) /\ wire \in Seq(Pieces)
  BY DEF Send, Reading, TypeOK
<1>. QED
  BY <1>1, AppendProperties

\* One piece less.
LEMMA Taken ==
  ASSUME TypeOK, wire # <<>>, wire' = Tail(wire)
  PROVE  /\ wire' \in Seq(Pieces) /\ Len(wire) \in Nat \ {0} /\ Len(wire') = Len(wire) - 1
         /\ \A n \in 1..(Len(wire) - 1) : wire'[n] = wire[n + 1]
         /\ wire' = <<>> <=> Len(wire) = 1
         /\ Head(wire) = wire[1] /\ wire[1] \in Pieces
<1>1. wire \in Seq(Pieces)
  BY DEF TypeOK
<1>2. wire' \in Seq(Pieces) /\ Len(wire') = Len(wire) - 1
      /\ \A n \in 1..Len(wire') : wire'[n] = wire[n + 1]
  BY <1>1, HeadTailProperties
<1>3. Len(wire) \in Nat \ {0}
  BY <1>1, EmptySeq
<1>4. wire' = <<>> <=> Len(wire') = 0
  BY <1>2, EmptySeq
<1>5. Head(wire) = wire[1] /\ wire[1] \in Pieces
  BY <1>1, <1>3
<1>. QED
  BY <1>2, <1>3, <1>4, <1>5

\* The pieces of a clone.
LEMMA PieceTyped ==
  ASSUME TypeOK, NEW c \in Clones
  PROVE  Piece("header", c) \in Pieces /\ Piece("body", c) \in Pieces
  BY DEF TypeOK, Piece, Pieces, Frame, Frames

\* A piece has one of three kinds.
LEMMA Kinds ==
  ASSUME NEW p \in Pieces
  PROVE  p.kind \in {"header", "body", "end"} /\ (p.kind = "end" => p = EndPiece)
         /\ (p.kind # "end" => p = [kind |-> p.kind, frame |-> p.frame])
  BY DEF Pieces, EndPiece

\* IInv holds initially.
LEMMA InitIInv == Init => IInv
<1>. SUFFICES ASSUME Init PROVE IInv
  OBVIOUS
<1>1. TypeOK
  BY DEF Init, TypeOK
<1>. QED
  BY <1>1 DEF Init, IInv, LockInv, Sending, OpenEnd, Framed, Reading, FramesIntact

\* A new connection starts with an empty wire.
LEMMA ConnectStep == IInv /\ Connect => IInv'
<1>. SUFFICES ASSUME IInv, Connect PROVE IInv'
  OBVIOUS
<1>. USE DEF IInv, Connect, EmptyBuffers
<1>1. TypeOK'
  BY DEF TypeOK
<1>2. worker' = [c \in Clones |-> "idle"] /\ wire' = <<>> /\ receiver' = "header"
  OBVIOUS
<1>3. LockInv' /\ OpenEnd' /\ FramesIntact'
  BY <1>2 DEF LockInv, Sending, OpenEnd, WholeFrames, FramesIntact
<1>4. Framed'
  BY <1>2 DEF Framed
<1>. QED
  BY <1>1, <1>3, <1>4

\* Steps of a clone that send nothing.
LEMMA QuietStep ==
  ASSUME IInv, NEW c \in Clones,
         WriteLine(c) \/ Flush(c) \/ Destroy(c) \/ WorkerLock(c)
  PROVE  IInv'
<1>. USE DEF IInv, receiverVars
<1>1. TypeOK'
  <2>1. CASE WriteLine(c)
    BY <2>1, SMTT(60) DEF TypeOK, WriteLine
  <2>2. CASE Flush(c)
    BY <2>2 DEF TypeOK, Flush
  <2>3. CASE Destroy(c) \/ WorkerLock(c)
    BY <2>3 DEF TypeOK, Destroy, WorkerLock
  <2>. QED
    BY <2>1, <2>2, <2>3
<1>2. /\ device = "up" /\ UNCHANGED <<device, wire, receiver, header, sent>>
      /\ \A d \in Clones : Sending(d)' /\ worker'[d] = "body" <=> Sending(d) /\ worker[d] = "body"
      /\ \A d \in Clones : worker[d] = "body" => Frame(d)' = Frame(d)
  BY DEF TypeOK, WriteLine, Flush, Destroy, Drained, WorkerLock, Sending, Frame
<1>3. LockInv'
  BY WireAssumption DEF TypeOK, LockInv, Sending, WriteLine, Flush, Destroy, Drained, WorkerLock
<1>4. OpenEnd'
  <2>1. \A d \in Clones : worker[d] = "body" => HeaderOut(d)' = HeaderOut(d)
    BY <1>2 DEF HeaderOut, Piece
  <2>. QED
    BY <1>2, <2>1 DEF OpenEnd, Reading, WholeFrames, Sending
<1>5. Framed' /\ FramesIntact'
  BY <1>2 DEF Framed, Reading, FramesIntact
<1>. QED
  BY <1>1, <1>3, <1>4, <1>5

\* The header goes out: no other frame is open, for the mutex is held.
LEMMA HeaderStep ==
  ASSUME IInv, NEW c \in Clones, SendHeader(c) PROVE IInv'
<1>. USE DEF IInv, SendHeader, receiverVars
<1>1. wire' \in Seq(Pieces)
  BY PieceTyped, Sent DEF TypeOK, Send, Reading
<1>2. TypeOK'
  BY <1>1 DEF TypeOK
<1>3. LockInv'
  BY DEF TypeOK, LockInv, Sending
<1>4. FramesIntact'
  BY DEF FramesIntact
<1>5. CASE ~Reading
  BY <1>2, <1>3, <1>4, <1>5 DEF OpenEnd, Framed, Reading
<1>6. CASE Reading
  <2>1. WholeFrames /\ \A d \in Clones : Sending(d) => d = c
    BY <1>6 DEF OpenEnd, LockInv, Sending
  <2>2. /\ Len(wire) \in Nat /\ Len(wire') = Len(wire) + 1 /\ wire' # <<>>
        /\ wire'[Len(wire) + 1] = Piece("header", c) /\ \A n \in 1..Len(wire) : wire'[n] = wire[n]
    BY <1>6, PieceTyped, Sent
  <2>3. Frame(c)' = Frame(c)
    BY DEF Frame
  <2>4. OpenEnd'
    <3>1. Sending(c)' /\ worker'[c] = "body"
      BY DEF Sending, TypeOK
    <3>2. HeaderOut(c)'
      BY <2>2, <2>3 DEF HeaderOut, Piece
    <3>. QED
      BY <3>1, <3>2 DEF OpenEnd
  <2>5. Framed'
    <3>. SUFFICES ASSUME NEW n \in 1..Len(wire')
         PROVE  /\ wire'[n].kind = "end" => n = Len(wire') /\ device' = "ended"
                /\ wire'[n].kind = "body" =>
                     IF n = 1 THEN receiver' = "body" /\ header' = wire'[n].frame
                     ELSE wire'[n - 1] = [kind |-> "header", frame |-> wire'[n].frame]
                /\ wire'[n].kind # "body" =>
                     IF n = 1 THEN receiver' = "header" ELSE wire'[n - 1].kind = "body"
      BY DEF Framed
    <3>1. CASE n \in 1..Len(wire)
      BY <1>6, <2>2, <3>1, SMTT(60) DEF Framed
    <3>2. CASE n = Len(wire) + 1
      <4>1. wire'[n].kind = "header"
        BY <2>2, <3>2 DEF Piece
      <4>2. CASE wire = <<>>
        BY <2>1, <3>2, <4>1, <4>2 DEF WholeFrames
      <4>3. CASE wire # <<>>
        <5>1. Len(wire) \in 1..Len(wire) /\ wire[Len(wire)] \in Pieces
          BY <2>2, <4>3 DEF TypeOK
        <5>2. wire[Len(wire)].kind = "body"
          BY <1>6, <2>1, <4>3, <5>1, Kinds DEF WholeFrames, Framed
        <5>. QED
          BY <2>2, <3>2, <4>1, <4>3, <5>1, <5>2
      <4>. QED
        BY <4>2, <4>3
    <3>. QED
      BY <2>2, <3>1, <3>2
  <2>. QED
    BY <1>2, <1>3, <1>4, <2>4, <2>5
<1>. QED
  BY <1>5, <1>6

\* The body follows its header.
LEMMA BodyStep ==
  ASSUME IInv, NEW c \in Clones, SendBody(c) PROVE IInv'
<1>. USE DEF IInv, SendBody, Unlock, receiverVars
<1>1. wire' \in Seq(Pieces)
  BY PieceTyped, Sent DEF TypeOK, Send, Reading
<1>2. TypeOK'
  BY <1>1 DEF TypeOK
<1>0. \A d \in Clones : Sending(d) => d = c
  BY DEF LockInv, Sending
<1>3. \A d \in Clones : ~Sending(d)'
  BY <1>0 DEF Sending, TypeOK
<1>4. LockInv' /\ FramesIntact'
  BY <1>3 DEF LockInv, FramesIntact
<1>5. CASE ~Reading
  BY <1>2, <1>4, <1>5 DEF OpenEnd, Framed, Reading
<1>6. CASE Reading
  <2>1. HeaderOut(c)
    BY <1>0, <1>6 DEF OpenEnd, Sending
  <2>2. /\ Len(wire) \in Nat /\ Len(wire') = Len(wire) + 1 /\ wire' # <<>>
        /\ wire'[Len(wire) + 1] = Piece("body", c) /\ \A n \in 1..Len(wire) : wire'[n] = wire[n]
    BY <1>6, PieceTyped, Sent
  <2>3. OpenEnd'
    BY <1>3, <2>2 DEF OpenEnd, WholeFrames, Piece
  <2>4. Framed'
    <3>. SUFFICES ASSUME NEW n \in 1..Len(wire')
         PROVE  /\ wire'[n].kind = "end" => n = Len(wire') /\ device' = "ended"
                /\ wire'[n].kind = "body" =>
                     IF n = 1 THEN receiver' = "body" /\ header' = wire'[n].frame
                     ELSE wire'[n - 1] = [kind |-> "header", frame |-> wire'[n].frame]
                /\ wire'[n].kind # "body" =>
                     IF n = 1 THEN receiver' = "header" ELSE wire'[n - 1].kind = "body"
      BY DEF Framed
    <3>1. CASE n \in 1..Len(wire)
      <4>1. device = "up" /\ device' = device /\ receiver' = receiver /\ header' = header
        OBVIOUS
      <4>2. /\ wire[n].kind # "end"
            /\ wire[n].kind = "body" =>
                 IF n = 1 THEN receiver = "body" /\ header = wire[n].frame
                 ELSE wire[n - 1] = [kind |-> "header", frame |-> wire[n].frame]
            /\ wire[n].kind # "body" =>
                 IF n = 1 THEN receiver = "header" ELSE wire[n - 1].kind = "body"
        BY <1>6, <3>1, <4>1 DEF Framed
      <4>3. wire'[n] = wire[n] /\ (n # 1 => wire'[n - 1] = wire[n - 1])
        BY <2>2, <3>1
      <4>. HIDE DEF IInv, SendBody
      <4>. QED
        BY <4>1, <4>2, <4>3
    <3>2. CASE n = Len(wire) + 1
      <4>1. wire'[n].kind = "body" /\ wire'[n].frame = Frame(c)
        BY <2>2, <3>2 DEF Piece
      <4>2. CASE wire = <<>>
        BY <2>1, <3>2, <4>1, <4>2 DEF HeaderOut
      <4>3. CASE wire # <<>>
        <5>1. Len(wire) \in 1..Len(wire)
          BY <2>2, <4>3 DEF TypeOK
        <5>2. wire'[n - 1] = Piece("header", c)
          BY <2>1, <2>2, <3>2, <4>3, <5>1 DEF HeaderOut
        <5>. QED
          BY <3>2, <4>1, <5>1, <5>2 DEF Piece
      <4>. QED
        BY <4>2, <4>3
    <3>. QED
      BY <2>2, <3>1, <3>2
  <2>. QED
    BY <1>2, <1>4, <2>3, <2>4
<1>. QED
  BY <1>5, <1>6

\* The end frame goes out when no worker is left.
LEMMA EndStep == IInv /\ SendEndFrame => IInv'
<1>. SUFFICES ASSUME IInv, SendEndFrame PROVE IInv'
  OBVIOUS
<1>. USE DEF IInv, SendEndFrame, AllDestroyed, receiverVars
<1>0. EndPiece \in Pieces /\ EndPiece.kind = "end"
  BY DEF Pieces, EndPiece
<1>1. wire' \in Seq(Pieces)
  BY <1>0, Sent DEF TypeOK, Send, Reading
<1>2. TypeOK'
  BY <1>1 DEF TypeOK
<1>3. \A d \in Clones : ~Sending(d) /\ ~Sending(d)'
  BY DEF Sending
<1>4. LockInv' /\ FramesIntact'
  BY <1>3 DEF LockInv, FramesIntact
<1>5. CASE ~Reading
  BY <1>2, <1>4, <1>5 DEF OpenEnd, Framed, Reading
<1>6. CASE Reading
  <2>1. WholeFrames
    BY <1>3, <1>6 DEF OpenEnd
  <2>2. /\ Len(wire) \in Nat /\ Len(wire') = Len(wire) + 1 /\ wire' # <<>>
        /\ wire'[Len(wire) + 1] = EndPiece /\ \A n \in 1..Len(wire) : wire'[n] = wire[n]
    BY <1>0, <1>6, Sent
  <2>3. OpenEnd'
    BY <1>0, <1>3, <2>2 DEF OpenEnd, WholeFrames
  <2>4. Framed'
    <3>. SUFFICES ASSUME NEW n \in 1..Len(wire')
         PROVE  /\ wire'[n].kind = "end" => n = Len(wire') /\ device' = "ended"
                /\ wire'[n].kind = "body" =>
                     IF n = 1 THEN receiver' = "body" /\ header' = wire'[n].frame
                     ELSE wire'[n - 1] = [kind |-> "header", frame |-> wire'[n].frame]
                /\ wire'[n].kind # "body" =>
                     IF n = 1 THEN receiver' = "header" ELSE wire'[n - 1].kind = "body"
      BY DEF Framed
    <3>1. CASE n \in 1..Len(wire)
      BY <1>6, <2>2, <3>1, SMTT(60) DEF Framed
    <3>2. CASE n = Len(wire) + 1
      <4>2. CASE wire = <<>>
        BY <1>0, <2>1, <2>2, <3>2, <4>2 DEF WholeFrames
      <4>3. CASE wire # <<>>
        <5>1. Len(wire) \in 1..Len(wire) /\ wire[Len(wire)] \in Pieces
          BY <2>2, <4>3 DEF TypeOK
        <5>2. wire[Len(wire)].kind = "body"
          BY <1>6, <2>1, <4>3, <5>1, Kinds DEF WholeFrames, Framed
        <5>. QED
          BY <1>0, <2>2, <3>2, <4>3, <5>1, <5>2
      <4>. QED
        BY <4>2, <4>3
    <3>. QED
      BY <2>2, <3>1, <3>2
  <2>. QED
    BY <1>2, <1>4, <2>3, <2>4
<1>. QED
  BY <1>5, <1>6

\* What a killed app has sent is still in order.
LEMMA KillStep == IInv /\ Kill => IInv'
<1>. SUFFICES ASSUME IInv, Kill PROVE IInv'
  OBVIOUS
<1>1. TypeOK' /\ LockInv' /\ OpenEnd' /\ FramesIntact'
  BY DEF IInv, Kill, receiverVars, TypeOK, LockInv, Sending, OpenEnd, FramesIntact
<1>2. Framed'
  BY DEF IInv, Kill, receiverVars, Framed, Reading
<1>. QED
  BY <1>1, <1>2 DEF IInv

\* The receiver takes a header, or the end frame.
LEMMA RecvHeaderStep == IInv /\ RecvHeader => IInv'
<1>. SUFFICES ASSUME IInv, RecvHeader PROVE IInv'
  OBVIOUS
<1>. USE DEF IInv, RecvHeader, deviceVars
<1>1. /\ wire' \in Seq(Pieces) /\ Len(wire) \in Nat \ {0} /\ Len(wire') = Len(wire) - 1
      /\ \A n \in 1..(Len(wire) - 1) : wire'[n] = wire[n + 1]
      /\ wire' = <<>> <=> Len(wire) = 1
      /\ Head(wire) = wire[1] /\ wire[1] \in Pieces
  BY Taken
<1>2. wire[1].kind # "body" /\ 1 \in 1..Len(wire)
  <2>1. receiver = "header" /\ Framed
    OBVIOUS
  <2>2. 1 \in 1..Len(wire)
    BY <1>1
  <2>. HIDE DEF IInv, RecvHeader
  <2>3. wire[1].kind = "body" => IF 1 = 1 THEN receiver = "body" /\ header = wire[1].frame
                                ELSE wire[1 - 1] = [kind |-> "header", frame |-> wire[1].frame]
    BY <2>1, <2>2, Zenon DEF Framed, Reading
  <2>. QED
    BY <2>1, <2>2, <2>3
<1>3. TypeOK' /\ LockInv' /\ FramesIntact'
  BY <1>1, <1>2 DEF TypeOK, LockInv, Sending, FramesIntact
<1>4. CASE wire[1].kind = "end"
  BY <1>1, <1>3, <1>4, Zenon DEF OpenEnd, Framed, Reading
<1>5. CASE wire[1].kind = "header"
  <2>1. receiver' = "body" /\ header' = wire[1].frame
    BY <1>1, <1>5
  <2>2. wire[1] = [kind |-> "header", frame |-> wire[1].frame]
    BY <1>1, <1>5, Kinds
  <2>3. Framed'
    <3>. SUFFICES ASSUME NEW n \in 1..Len(wire')
         PROVE  /\ wire'[n].kind = "end" => n = Len(wire') /\ device' = "ended"
                /\ wire'[n].kind = "body" =>
                     IF n = 1 THEN receiver' = "body" /\ header' = wire'[n].frame
                     ELSE wire'[n - 1] = [kind |-> "header", frame |-> wire'[n].frame]
                /\ wire'[n].kind # "body" =>
                     IF n = 1 THEN receiver' = "header" ELSE wire'[n - 1].kind = "body"
      BY DEF Framed
    <3>1. /\ n + 1 \in 1..Len(wire) /\ n + 1 # 1 /\ wire'[n] = wire[n + 1] /\ (n + 1) - 1 = n
          /\ n # 1 => n - 1 \in 1..(Len(wire) - 1) /\ wire'[n - 1] = wire[n] /\ (n - 1) + 1 = n
      BY <1>1
    <3>2. /\ wire[n + 1].kind = "end" => n + 1 = Len(wire) /\ device = "ended"
          /\ wire[n + 1].kind = "body" => wire[n] = [kind |-> "header", frame |-> wire[n + 1].frame]
          /\ wire[n + 1].kind # "body" => wire[n].kind = "body"
      BY <3>1 DEF Framed, Reading
    <3>3. Len(wire) \in Nat /\ Len(wire') = Len(wire) - 1 /\ device' = device
      BY <1>1
    <3>. HIDE DEF IInv, RecvHeader
    <3>4. CASE n = 1
      BY <1>5, <2>1, <2>2, <3>1, <3>2, <3>3, <3>4
    <3>5. CASE n # 1
      BY <3>1, <3>2, <3>3, <3>5
    <3>. QED
      BY <3>4, <3>5
  <2>4. OpenEnd'
    <3>. SUFFICES ASSUME device # "killed"
         PROVE  \/ \E c \in Clones : Sending(c)' /\ worker'[c] = "body" /\ HeaderOut(c)'
                \/ WholeFrames' /\ \A c \in Clones : Sending(c)' => worker'[c] = "header"
      BY DEF OpenEnd
    <3>1. wire # <<>> /\ Reading
      BY DEF Reading
    <3>2. CASE \E c \in Clones : Sending(c) /\ worker[c] = "body" /\ HeaderOut(c)
      <4>1. PICK c \in Clones : Sending(c) /\ worker[c] = "body" /\ HeaderOut(c)
        BY <3>2
      <4>2. wire[Len(wire)] = Piece("header", c)
        BY <3>1, <4>1 DEF HeaderOut
      <4>3. HeaderOut(c)'
        <5>1. CASE wire' = <<>>
          BY <1>1, <2>1, <4>2, <5>1 DEF HeaderOut, Piece, Frame
        <5>2. CASE wire' # <<>>
          <6>1. Len(wire') \in 1..(Len(wire) - 1) /\ Len(wire') + 1 = Len(wire)
            BY <1>1, <5>2
          <6>2. wire'[Len(wire')] = wire[Len(wire)]
            BY <1>1, <6>1
          <6>. QED
            BY <4>2, <5>2, <6>2 DEF HeaderOut, Piece, Frame
        <5>. QED
          BY <5>1, <5>2
      <4>. QED
        BY <4>1, <4>3 DEF Sending
    <3>3. CASE WholeFrames /\ \A c \in Clones : Sending(c) => worker[c] = "header"
      <4>1. wire[Len(wire)].kind # "header"
        BY <3>1, <3>3 DEF WholeFrames
      <4>2. wire' # <<>> /\ Len(wire') \in 1..(Len(wire) - 1) /\ Len(wire') + 1 = Len(wire)
        BY <1>1, <1>5, <4>1
      <4>3. WholeFrames'
        BY <1>1, <4>1, <4>2 DEF WholeFrames
      <4>. QED
        BY <3>3, <4>3 DEF Sending
    <3>. QED
      BY <3>1, <3>2, <3>3 DEF OpenEnd
  <2>. QED
    BY <1>3, <2>3, <2>4
<1>. QED
  BY <1>1, <1>2, <1>4, <1>5, Kinds

\* The receiver takes the body of the header it has read.
LEMMA RecvBodyStep == IInv /\ RecvBody => IInv'
<1>. SUFFICES ASSUME IInv, RecvBody PROVE IInv'
  OBVIOUS
<1>1. /\ wire' \in Seq(Pieces) /\ Len(wire) \in Nat \ {0} /\ Len(wire') = Len(wire) - 1
      /\ \A n \in 1..(Len(wire) - 1) : wire'[n] = wire[n + 1]
      /\ wire' = <<>> <=> Len(wire) = 1
      /\ Head(wire) = wire[1] /\ wire[1] \in Pieces /\ receiver = "body" /\ wire # <<>>
  BY Taken, Zenon DEF IInv, RecvBody
<1>2. wire[1].kind = "body" /\ header = wire[1].frame
  <2>1. 1 \in 1..Len(wire)
    BY <1>1
  <2>. QED
    BY <1>1, <2>1, Zenon DEF IInv, Framed, Reading
<1>3. wire[1] = [kind |-> "body", frame |-> header]
  BY <1>1, <1>2, Kinds
<1>4. receiver' = "header" /\ UNCHANGED <<device, worker, mutex, flushed, sent, written, round, header>>
  BY <1>1, <1>3, Zenon DEF RecvBody, deviceVars
<1>5. TypeOK' /\ LockInv' /\ FramesIntact'
  BY <1>1, <1>4 DEF IInv, TypeOK, LockInv, Sending, FramesIntact
<1>6. Framed'
  <2>. SUFFICES ASSUME NEW n \in 1..Len(wire')
       PROVE  /\ wire'[n].kind = "end" => n = Len(wire') /\ device' = "ended"
              /\ wire'[n].kind = "body" =>
                   IF n = 1 THEN receiver' = "body" /\ header' = wire'[n].frame
                   ELSE wire'[n - 1] = [kind |-> "header", frame |-> wire'[n].frame]
              /\ wire'[n].kind # "body" =>
                   IF n = 1 THEN receiver' = "header" ELSE wire'[n - 1].kind = "body"
    BY DEF Framed
  <2>1. /\ n + 1 \in 1..Len(wire) /\ n + 1 # 1 /\ wire'[n] = wire[n + 1] /\ (n + 1) - 1 = n
        /\ n # 1 => n - 1 \in 1..(Len(wire) - 1) /\ wire'[n - 1] = wire[n] /\ (n - 1) + 1 = n
    BY <1>1
  <2>2. /\ wire[n + 1].kind = "end" => n + 1 = Len(wire) /\ device = "ended"
        /\ wire[n + 1].kind = "body" => wire[n] = [kind |-> "header", frame |-> wire[n + 1].frame]
        /\ wire[n + 1].kind # "body" => wire[n].kind = "body"
    BY <1>1, <2>1 DEF IInv, Framed, Reading
  <2>. QED
    BY <1>1, <1>2, <1>4, <2>1, <2>2
<1>7. OpenEnd'
  <2>. SUFFICES ASSUME device # "killed"
       PROVE  \/ \E c \in Clones : Sending(c)' /\ worker'[c] = "body" /\ HeaderOut(c)'
              \/ WholeFrames' /\ \A c \in Clones : Sending(c)' => worker'[c] = "header"
    BY <1>4 DEF OpenEnd
  <2>1. CASE wire' = <<>>
    <3>1. wire[Len(wire)].kind = "body"
      BY <1>1, <1>2, <2>1
    <3>2. WholeFrames'
      BY <1>4, <2>1 DEF WholeFrames
    <3>3. \A c \in Clones : ~HeaderOut(c)
      BY <1>1, <3>1 DEF HeaderOut, Piece
    <3>. QED
      BY <1>1, <1>4, <3>2, <3>3 DEF IInv, OpenEnd, Reading, Sending
  <2>2. CASE wire' # <<>>
    <3>1. Len(wire') \in 1..(Len(wire) - 1) /\ Len(wire') + 1 = Len(wire)
      BY <1>1, <2>2
    <3>2. wire'[Len(wire')] = wire[Len(wire)]
      BY <1>1, <3>1
    <3>3. WholeFrames' <=> WholeFrames
      BY <1>1, <2>2, <3>2 DEF WholeFrames
    <3>4. \A c \in Clones : HeaderOut(c)' <=> HeaderOut(c)
      BY <1>1, <1>4, <2>2, <3>2 DEF HeaderOut, Piece, Frame
    <3>. QED
      BY <1>1, <1>4, <3>3, <3>4 DEF IInv, OpenEnd, Reading, Sending
  <2>. QED
    BY <2>1, <2>2
<1>. QED
  BY <1>5, <1>6, <1>7, SMTT(40) DEF IInv

\* The receiver gives up.
LEMMA GiveUpStep == IInv /\ (RecvClosed \/ RecvTimeout) => IInv'
<1>. SUFFICES ASSUME IInv, RecvClosed \/ RecvTimeout PROVE IInv'
  OBVIOUS
<1>1. receiver' = "lost" /\ UNCHANGED <<deviceVars, wire>>
  BY DEF RecvClosed, RecvTimeout
<1>. QED
  BY <1>1 DEF IInv, deviceVars, TypeOK, LockInv, Sending, OpenEnd, Framed, Reading, FramesIntact

\* IInv is inductive.
LEMMA NextIInv == IInv /\ [Next]_vars => IInv'
<1>. SUFFICES ASSUME IInv, [Next]_vars PROVE IInv'
  OBVIOUS
<1>1. CASE Connect \/ SendEndFrame \/ Kill
  BY <1>1, ConnectStep, EndStep, KillStep
<1>2. ASSUME NEW c \in Clones,
             WriteLine(c) \/ Flush(c) \/ Destroy(c) \/ WorkerStep(c)
      PROVE  IInv'
  BY <1>2, QuietStep, HeaderStep, BodyStep DEF WorkerStep
<1>3. CASE RecvStep \/ RecvTimeout
  BY <1>3, RecvHeaderStep, RecvBodyStep, GiveUpStep DEF RecvStep
<1>4. CASE Terminated \/ UNCHANGED vars
  <2>1. UNCHANGED vars
    BY <1>4 DEF Terminated
  <2>. QED
    BY <2>1, ZenonT(60) DEF vars, deviceVars, receiverVars, IInv, TypeOK, LockInv, Sending, OpenEnd, HeaderOut,
         Piece, Frame, WholeFrames, Framed, Reading, FramesIntact
<1>. QED
  BY <1>1, <1>2, <1>3, <1>4 DEF Next

\* In every reachable state IInv holds: the mutex keeps header and body
\* together, so that at most the last frame on the wire is open.
THEOREM Invariance == Spec => []IInv
<1>. QED
  BY InitIInv, NextIInv, PTL DEF Spec

\* The receiver never loses the frame boundaries, for any number of clones,
\* lines and connections, with the app killed or the receiver gone at any point
\* (bg_worker and send_end_frame; cmd_receive).
THEOREM FramesIntactAlways == Spec => []FramesIntact
<1>1. IInv => FramesIntact
  BY DEF IInv
<1>. QED
  BY Invariance, <1>1, PTL
-----------------------------------------------------------------------------

(* What the receiver has written.                                          *)

Line == Clones \X Nat
LogTyped ==
  /\ files \in [Tids -> [0..MaxIndex-1 -> [round : Nat, text : Seq(Line)]]]
  /\ tid_files \in [Tids -> 0..MaxIndex]

\* The lines of c that have reached the PC in this round.
Got(c) == Cardinality(LinesOf(c, Log(TidOf[c])))

\* The lines of c in a text are its first lines, in order.
Ordered(c, text) ==
  \A p \in LinesOf(c, text) :
    text[p][2] = Cardinality({q \in LinesOf(c, text) : q <= p})

\* An idle worker has sent what was handed over, a joined one all there is.
Buffers ==
  \A c \in Clones :
    /\ sent[c] <= flushed[c]
    /\ worker[c] \in {"idle", "joined"} => sent[c] = flushed[c]
    /\ worker[c] = "joined" => written[c] = flushed[c]
    /\ device = "ended" => worker[c] = "joined"

\* The frames of c on the wire lead from what has arrived to what was sent:
\* h[n] is the last line of c that is in a log or before piece n.
Journey(c) ==
  \E h \in [1..Len(wire)+1 -> Nat] :
    /\ h[1] = Got(c) /\ h[Len(wire)+1] = sent[c]
    /\ \A n \in 1..Len(wire) :
         IF wire[n].kind = "body" /\ wire[n].frame.clone = c
         THEN wire[n].frame.lo = h[n] + 1 /\ wire[n].frame.hi = h[n+1] /\ h[n] <= h[n+1]
         ELSE h[n+1] = h[n]

LogInv ==
  /\ LogTyped /\ Buffers /\ LogsArePrefixes
  /\ Reading => \A c \in Clones : Journey(c)
  /\ receiver = "done" => device = "ended" /\ \A c \in Clones : Got(c) = written[c]

-----------------------------------------------------------------------------

\* A non-empty set of naturals has a least element.
LEMMA LeastNat ==
  ASSUME NEW S \in SUBSET Nat, S # {}
  PROVE  \E i \in S : \A j \in S : i <= j
<1>1. PICK i \in S : \A j \in S : ~(<<j, i>> \in OpToRel(<, Nat))
  BY NatLessThanWellFounded, WFMin
<1>2. ASSUME NEW j \in S PROVE i <= j
  <2>1. i \in Nat /\ j \in Nat
    OBVIOUS
  <2>2. ~(j < i)
    BY <1>1, <2>1 DEF OpToRel
  <2>. QED
    BY <2>1, <2>2
<1>. QED
  BY <1>2

\* find_next_index always names one of the logs.
LEMMA IndexExists ==
  ASSUME LogTyped, NEW t \in Tids
  PROVE  find_next_index(t) \in 0..MaxIndex-1
<1>. DEFINE free == {i \in 0..MaxIndex-1 : files[t][i] = Absent}
<1>1. MaxIndex \in Nat \ {0}
  BY WireAssumption
<1>2. free \in SUBSET Nat
  BY <1>1
<1>3. free # {} => \E i \in free : \A j \in free : i <= j
  BY <1>2, LeastNat
<1>. QED
  BY <1>1, <1>3 DEF find_next_index

\* The open log of a thread is a sequence of lines.
LEMMA LogIsText ==
  ASSUME LogTyped, NEW t \in Tids
  PROVE  Log(t) \in Seq(Line) /\ Len(Log(t)) \in Nat
<1>1. MaxIndex \in Nat \ {0}
  BY WireAssumption
<1>2. Log(t) \in Seq(Line)
  <2>1. CASE tid_files[t] = NoFile
    BY <2>1 DEF Log
  <2>2. CASE tid_files[t] # NoFile
    <3>1. tid_files[t] \in 0..MaxIndex-1
      BY <1>1, <2>2 DEF LogTyped, NoFile
    <3>. QED
      BY <2>2, <3>1 DEF LogTyped, Log
  <2>. QED
    BY <2>1, <2>2
<1>. QED
  BY <1>2

\* The lines of a clone in a log can be counted.
LEMMA LinesFinite ==
  ASSUME NEW text \in Seq(Line), NEW c
  PROVE  /\ LinesOf(c, text) \subseteq 1..Len(text)
         /\ IsFiniteSet(LinesOf(c, text)) /\ Cardinality(LinesOf(c, text)) \in Nat
<1>1. LinesOf(c, text) \subseteq 1..Len(text)
  BY DEF LinesOf
<1>2. IsFiniteSet(1..Len(text))
  BY FS_Interval
<1>. QED
  BY <1>1, <1>2, FS_Subset, FS_CardinalityType

\* So many lines more.
LEMMA LinesAdded ==
  ASSUME NEW S, IsFiniteSet(S), NEW a \in Nat, NEW b \in Nat, S \subseteq 1..a
  PROVE  Cardinality(S \cup (a+1)..(a+b)) = Cardinality(S) + b
<1>. DEFINE T == (a+1)..(a+b)
<1>1. IsFiniteSet(T) /\ Cardinality(T) = b
  BY FS_Interval
<1>2. S \cap T = {}
  OBVIOUS
<1>. HIDE DEF T
<1>3. Cardinality(S \cap T) = 0
  BY <1>2, FS_EmptySet
<1>4. Cardinality(S) \in Nat
  BY FS_CardinalityType
<1>5. Cardinality(S \cup T) = Cardinality(S) + Cardinality(T) - Cardinality(S \cap T)
  BY <1>1, FS_Union
<1>6. Cardinality(S \cup T) = Cardinality(S) + b
  BY <1>1, <1>3, <1>4, <1>5
<1>. QED
  BY <1>6 DEF T

\* The text after a frame has been appended.
LEMMA AppendedText ==
  ASSUME NEW text \in Seq(Line), NEW c \in Clones, NEW lo \in Nat \ {0}, NEW k \in Nat
  PROVE  LET new == text \o [n \in 1..k |-> <<c, lo + n - 1>>]
         IN /\ new \in Seq(Line) /\ Len(new) = Len(text) + k
            /\ \A p \in 1..Len(text) : new[p] = text[p]
            /\ \A p \in Len(text)+1..Len(text)+k : new[p] = <<c, lo + (p - Len(text)) - 1>>
<1>. DEFINE add == [n \in 1..k |-> <<c, lo + n - 1>>]
            a   == Len(text)
<1>1. /\ add \in Seq(Line) /\ Len(add) = k
      /\ \A n \in 1..k : add[n] = <<c, lo + n - 1>>
  BY DEF Line
<1>. HIDE DEF add
<1>2. /\ text \o add \in Seq(Line) /\ Len(text \o add) = a + k /\ a \in Nat
      /\ \A p \in 1..a+k : (text \o add)[p] = IF p <= a THEN text[p] ELSE add[p - a]
  <2>1. /\ text \o add \in Seq(Line) /\ Len(text \o add) = Len(text) + Len(add)
        /\ \A p \in 1..Len(text)+Len(add) :
             (text \o add)[p] = IF p <= Len(text) THEN text[p] ELSE add[p - Len(text)]
    BY <1>1, ConcatProperties
  <2>2. Len(text) \in Nat
    OBVIOUS
  <2>. QED
    BY <1>1, <2>1, <2>2
<1>. DEFINE new == text \o add
<1>. HIDE DEF new, a
<1>3. ASSUME NEW p \in a+1..a+k PROVE new[p] = <<c, lo + (p - a) - 1>>
  <2>1. p \in 1..a+k /\ ~(p <= a) /\ p - a \in 1..k
    BY <1>2
  <2>. QED
    BY <1>1, <1>2, <2>1 DEF new
<1>4. \A p \in 1..a : new[p] = text[p]
  BY <1>1, <1>2 DEF new
<1>. QED
  BY <1>2, <1>3, <1>4 DEF new, a, add

\* A frame appended to a log.  Its lines come right after those that the log
\* has of its clone, and no line of another clone moves.
LEMMA FrameAppended ==
  ASSUME NEW text \in Seq(Line), NEW c \in Clones,
         NEW new \in Seq(Line), Len(text) <= Len(new),
         \A p \in 1..Len(text) : new[p] = text[p],
         \A p \in Len(text)+1..Len(new) :
           new[p] = <<c, Cardinality(LinesOf(c, text)) + (p - Len(text))>>
  PROVE  /\ Cardinality(LinesOf(c, new)) = Cardinality(LinesOf(c, text)) + (Len(new) - Len(text))
         /\ \A d \in Clones \ {c} : LinesOf(d, new) = LinesOf(d, text)
         /\ \A d \in Clones : Ordered(d, text) => Ordered(d, new)
<1>. DEFINE a   == Len(text)
            k   == Len(new) - a
            old == LinesOf(c, text)
<1>1. a \in Nat /\ k \in Nat /\ Len(new) = a + k
  OBVIOUS
<1>2. /\ \A p \in 1..a : new[p] = text[p]
      /\ \A p \in a+1..a+k : new[p] = <<c, Cardinality(old) + (p - a)>>
  BY <1>1
<1>3. \A p \in a+1..a+k : new[p] = <<c, Cardinality(old) + (p - a)>> /\ new[p][1] = c
  BY <1>2
<1>4. \A p \in 1..a : new[p] = text[p]
  BY <1>2
<1>. HIDE DEF a, k
<1>5. old \subseteq 1..a /\ IsFiniteSet(old) /\ Cardinality(old) \in Nat
  BY LinesFinite DEF a
<1>6. LinesOf(c, new) = old \cup (a+1)..(a+k)
  <2>1. 1..Len(new) = 1..a \cup (a+1)..(a+k)
    BY <1>1
  <2>2. old = {p \in 1..a : text[p][1] = c}
    BY DEF LinesOf, a
  <2>. HIDE DEF old
  <2>. QED
    BY <1>3, <1>4, <2>1, <2>2 DEF LinesOf
<1>7. Cardinality(LinesOf(c, new)) = Cardinality(old) + k
  <2>1. Cardinality(old \cup (a+1)..(a+k)) = Cardinality(old) + k
    BY <1>1, <1>5, LinesAdded, Zenon
  <2>. QED
    BY <1>6, <2>1
<1>8. ASSUME NEW d \in Clones \ {c} PROVE LinesOf(d, new) = LinesOf(d, text)
  <2>1. 1..Len(new) = 1..a \cup (a+1)..(a+k)
    BY <1>1
  <2>2. \A p \in a+1..a+k : new[p][1] # d
    BY <1>3
  <2>3. LinesOf(d, new) = {p \in 1..a : text[p][1] = d}
    BY <1>4, <2>1, <2>2 DEF LinesOf
  <2>. QED
    BY <2>3 DEF LinesOf, a
<1>9. ASSUME Ordered(c, text), NEW p \in LinesOf(c, new)
      PROVE  new[p][2] = Cardinality({q \in LinesOf(c, new) : q <= p})
  <2>. \A q \in old : text[q][2] = Cardinality({r \in old : r <= q})
    BY <1>9 DEF Ordered
  <2>1. CASE p \in old
    <3>1. p \in 1..a
      BY <1>5, <2>1
    <3>2. {q \in LinesOf(c, new) : q <= p} = {q \in old : q <= p}
      BY <1>1, <1>6, <3>1
    <3>. QED
      BY <1>4, <2>1, <3>1, <3>2
  <2>2. CASE p \in a+1..a+k
    <3>1. p - a \in Nat /\ a + (p - a) = p
      BY <1>1, <2>2
    <3>2. {q \in LinesOf(c, new) : q <= p} = old \cup (a+1)..(a+(p-a))
      BY <1>1, <1>5, <1>6, <2>2
    <3>3. Cardinality({q \in LinesOf(c, new) : q <= p}) = Cardinality(old) + (p - a)
      <4>1. Cardinality(old \cup (a+1)..(a+(p-a))) = Cardinality(old) + (p - a)
        BY <1>1, <1>5, <3>1, LinesAdded, Zenon
      <4>. QED
        BY <3>2, <4>1
    <3>4. new[p][2] = Cardinality(old) + (p - a)
      BY <1>3, <2>2
    <3>. QED
      BY <1>1, <1>5, <3>1, <3>3, <3>4
  <2>. QED
    BY <1>6, <1>9, <2>1, <2>2
<1>10. Ordered(c, text) => Ordered(c, new)
  BY <1>9 DEF Ordered
<1>11. ASSUME NEW d \in Clones \ {c}, Ordered(d, text) PROVE Ordered(d, new)
  <2>1. LinesOf(d, new) = LinesOf(d, text) /\ LinesOf(d, text) \subseteq 1..a
    BY <1>8 DEF LinesOf, a
  <2>2. \A p \in LinesOf(d, text) : new[p] = text[p]
    BY <1>4, <2>1
  <2>. QED
    BY <1>11, <2>1, <2>2 DEF Ordered
<1>. QED
  BY <1>7, <1>8, <1>10, <1>11 DEF k, a

\* The lines that have arrived are counted by a number.
LEMMA GotTyped ==
  ASSUME LogTyped, NEW c \in Clones
  PROVE  Got(c) \in Nat /\ TidOf[c] \in Tids
<1>1. TidOf[c] \in Tids
  BY WireAssumption
<1>. QED
  BY <1>1, LogIsText, LinesFinite DEF Got

\* No step of the device but Connect touches the logs.
LEMMA LogsKept ==
  ASSUME UNCHANGED <<files, tid_files>>
  PROVE  /\ \A c : Got(c)' = Got(c)
         /\ LogTyped => LogTyped'
         /\ LogsArePrefixes => LogsArePrefixes'
<1>1. \A t : Log(t)' = Log(t)
  BY DEF Log
<1>2. \A c : Got(c)' = Got(c)
  BY <1>1 DEF Got
<1>3. LogTyped => LogTyped'
  BY DEF LogTyped
<1>4. LogsArePrefixes => LogsArePrefixes'
  BY <1>1 DEF LogsArePrefixes
<1>. QED
  BY <1>2, <1>3, <1>4

\* A piece is put on the wire: the journey of a clone gets one stage longer.
LEMMA JourneyAppend ==
  ASSUME TypeOK, Reading, NEW p \in Pieces, Send(p), NEW c \in Clones, Journey(c),
         Got(c)' = Got(c), sent'[c] \in Nat,
         IF p.kind = "body" /\ p.frame.clone = c
         THEN p.frame.lo = sent[c] + 1 /\ p.frame.hi = sent'[c] /\ sent[c] <= sent'[c]
         ELSE sent'[c] = sent[c]
  PROVE  Journey(c)'
<1>1. PICK h \in [1..Len(wire)+1 -> Nat] :
        /\ h[1] = Got(c) /\ h[Len(wire)+1] = sent[c]
        /\ \A n \in 1..Len(wire) :
             IF wire[n].kind = "body" /\ wire[n].frame.clone = c
             THEN wire[n].frame.lo = h[n] + 1 /\ wire[n].frame.hi = h[n+1] /\ h[n] <= h[n+1]
             ELSE h[n+1] = h[n]
  BY DEF Journey
<1>2. /\ Len(wire) \in Nat /\ Len(wire') = Len(wire) + 1
      /\ wire'[Len(wire) + 1] = p /\ \A n \in 1..Len(wire) : wire'[n] = wire[n]
  BY Sent
<1>. DEFINE g == [n \in 1..Len(wire')+1 |-> IF n <= Len(wire) + 1 THEN h[n] ELSE sent'[c]]
<1>3. g \in [1..Len(wire')+1 -> Nat]
  BY <1>2
<1>4. /\ g[1] = h[1] /\ g[Len(wire')] = sent[c] /\ g[Len(wire')+1] = sent'[c]
      /\ \A n \in 1..Len(wire) : g[n] = h[n] /\ g[n+1] = h[n+1]
  BY <1>1, <1>2
<1>. HIDE DEF g
<1>5. ASSUME NEW n \in 1..Len(wire')
      PROVE  IF wire'[n].kind = "body" /\ wire'[n].frame.clone = c
             THEN wire'[n].frame.lo = g[n] + 1 /\ wire'[n].frame.hi = g[n+1] /\ g[n] <= g[n+1]
             ELSE g[n+1] = g[n]
  <2>1. CASE n \in 1..Len(wire)
    BY <1>1, <1>2, <1>4, <2>1
  <2>2. CASE n = Len(wire')
    BY <1>2, <1>4, <2>2
  <2>. QED
    BY <1>2, <2>1, <2>2
<1>. QED
  BY <1>1, <1>3, <1>4, <1>5 DEF Journey

\* A piece is taken off the wire.
LEMMA JourneyTail ==
  ASSUME TypeOK, wire # <<>>, wire' = Tail(wire), NEW c \in Clones, Journey(c), sent' = sent,
         Got(c)' = IF wire[1].kind = "body" /\ wire[1].frame.clone = c
                   THEN wire[1].frame.hi ELSE Got(c)
  PROVE  Journey(c)'
<1>1. PICK h \in [1..Len(wire)+1 -> Nat] :
        /\ h[1] = Got(c) /\ h[Len(wire)+1] = sent[c]
        /\ \A n \in 1..Len(wire) :
             IF wire[n].kind = "body" /\ wire[n].frame.clone = c
             THEN wire[n].frame.lo = h[n] + 1 /\ wire[n].frame.hi = h[n+1] /\ h[n] <= h[n+1]
             ELSE h[n+1] = h[n]
  BY DEF Journey
<1>2. /\ Len(wire) \in Nat \ {0} /\ Len(wire') = Len(wire) - 1
      /\ \A n \in 1..(Len(wire) - 1) : wire'[n] = wire[n + 1]
  BY Taken
<1>. DEFINE g == [n \in 1..Len(wire')+1 |-> h[n+1]]
<1>3. g \in [1..Len(wire')+1 -> Nat]
  BY <1>2
<1>4. /\ g[1] = h[2] /\ g[Len(wire')+1] = h[Len(wire)+1]
      /\ \A n \in 1..Len(wire') : n + 1 \in 1..Len(wire) /\ g[n] = h[n+1] /\ g[n+1] = h[(n+1)+1]
  BY <1>2
<1>. HIDE DEF g
<1>5. Got(c)' = h[2]
  BY <1>1, <1>2
<1>6. ASSUME NEW n \in 1..Len(wire')
      PROVE  IF wire'[n].kind = "body" /\ wire'[n].frame.clone = c
             THEN wire'[n].frame.lo = g[n] + 1 /\ wire'[n].frame.hi = g[n+1] /\ g[n] <= g[n+1]
             ELSE g[n+1] = g[n]
  <2>1. n + 1 \in 1..Len(wire) /\ wire'[n] = wire[n+1] /\ g[n] = h[n+1] /\ g[n+1] = h[(n+1)+1]
    BY <1>2, <1>4
  <2>. QED
    BY <1>1, <2>1
<1>. QED
  BY <1>1, <1>3, <1>4, <1>5, <1>6, ZenonT(60) DEF Journey

\* LogInv holds initially.
LEMMA InitLog == Init => LogInv
<1>. SUFFICES ASSUME Init PROVE LogInv
  OBVIOUS
<1>1. LogTyped
  BY WireAssumption DEF Init, LogTyped, NoFile, Absent
<1>2. \A t \in Tids : Log(t) = <<>>
  BY DEF Init, Log
<1>3. LogsArePrefixes
  BY <1>2 DEF LogsArePrefixes, LinesOf
<1>. QED
  BY <1>1, <1>3 DEF Init, LogInv, Buffers, Reading

\* A new connection: every thread gets a new log.
LEMMA ConnectLog == IInv /\ LogInv /\ Connect => LogInv'
<1>. SUFFICES ASSUME IInv, LogInv, Connect PROVE LogInv'
  OBVIOUS
<1>1. /\ wire' = <<>> /\ receiver' = "header" /\ device' = "up" /\ files' = files
      /\ tid_files' = [t \in Tids |-> NoFile]
      /\ written' = [c \in Clones |-> 0] /\ flushed' = [c \in Clones |-> 0]
      /\ sent' = [c \in Clones |-> 0] /\ worker' = [c \in Clones |-> "idle"]
  BY DEF Connect, EmptyBuffers
<1>2. LogTyped'
  BY <1>1, WireAssumption DEF LogInv, LogTyped, NoFile
<1>3. \A t \in Tids : Log(t)' = <<>>
  BY <1>1 DEF Log
<1>4. LogsArePrefixes'
  BY <1>3 DEF LogsArePrefixes, LinesOf
<1>5. Buffers'
  BY <1>1 DEF Buffers
<1>6. ASSUME NEW c \in Clones PROVE Journey(c)'
  <2>1. Got(c)' = 0
    <3>1. LinesOf(c, <<>>) = {}
      BY DEF LinesOf
    <3>. QED
      BY <1>3, <3>1, WireAssumption, FS_EmptySet DEF Got
  <2>. DEFINE h == [n \in 1..Len(<<>>)+1 |-> 0]
  <2>2. Len(<<>>) = 0 /\ h \in [1..Len(<<>>)+1 -> Nat] /\ h[1] = 0
    OBVIOUS
  <2>. HIDE DEF h
  <2>. QED
    BY <1>1, <2>1, <2>2 DEF Journey
<1>. QED
  BY <1>1, <1>2, <1>4, <1>5, <1>6 DEF LogInv

\* Steps of a clone that send nothing, and the kill.
LEMMA QuietLog ==
  ASSUME IInv, LogInv,
         Kill \/ \E c \in Clones : WriteLine(c) \/ Flush(c) \/ Destroy(c) \/ WorkerLock(c)
  PROVE  LogInv'
<1>1. device = "up" /\ UNCHANGED <<wire, sent, receiverVars>>
  BY DEF Kill, WriteLine, Flush, Destroy, WorkerLock
<1>2. Buffers'
  <2>1. CASE Kill
    BY <2>1 DEF Kill, LogInv, Buffers
  <2>2. ASSUME NEW c \in Clones, WriteLine(c) PROVE Buffers'
    BY <2>2 DEF WriteLine, LogInv, Buffers, IInv, TypeOK
  <2>3. ASSUME NEW c \in Clones, Flush(c) PROVE Buffers'
    BY <2>3 DEF Flush, LogInv, Buffers, IInv, TypeOK
  <2>4. ASSUME NEW c \in Clones, Destroy(c) \/ WorkerLock(c) PROVE Buffers'
    BY <2>4 DEF Destroy, Drained, WorkerLock, LogInv, Buffers, IInv, TypeOK
  <2>. QED
    BY <2>1, <2>2, <2>3, <2>4
<1>3. UNCHANGED <<wire, sent, receiver, files, tid_files>>
  BY <1>1 DEF receiverVars
<1>4. /\ \A c : Got(c)' = Got(c)
      /\ LogTyped' /\ LogsArePrefixes' /\ receiver # "done"
  BY <1>1, <1>3, LogsKept DEF LogInv
<1>5. \A c \in Clones : Journey(c) => Journey(c)'
  BY <1>3, <1>4, ZenonT(60) DEF Journey
<1>. QED
  BY <1>2, <1>3, <1>4, <1>5 DEF LogInv, Reading

\* A header tells nothing new.
LEMMA HeaderLog ==
  ASSUME IInv, LogInv, NEW c \in Clones, SendHeader(c) PROVE LogInv'
<1>1. /\ Send(Piece("header", c)) /\ Piece("header", c).kind = "header" /\ device = "up"
      /\ UNCHANGED <<device, written, flushed, sent, receiver, files, tid_files>>
  BY DEF SendHeader, receiverVars, Piece
<1>2. Buffers'
  BY DEF SendHeader, LogInv, Buffers, IInv, TypeOK
<1>3. Reading => \A d \in Clones : Journey(d)'
  BY <1>1, PieceTyped, JourneyAppend, LogsKept DEF IInv, LogInv, TypeOK
<1>4. LogTyped' /\ LogsArePrefixes' /\ receiver # "done"
  BY <1>1, LogsKept DEF LogInv
<1>. QED
  BY <1>1, <1>2, <1>3, <1>4 DEF LogInv, Reading

\* A body takes the journey of its clone up to what was handed over.
LEMMA BodyLog ==
  ASSUME IInv, LogInv, NEW c \in Clones, SendBody(c) PROVE LogInv'
<1>1. /\ Send(Piece("body", c)) /\ device = "up" /\ sent' = [sent EXCEPT ![c] = flushed[c]]
      /\ UNCHANGED <<device, written, flushed, receiver, files, tid_files>>
  BY DEF SendBody, receiverVars
<1>2. Buffers'
  BY DEF SendBody, LogInv, Buffers, IInv, TypeOK
<1>3. ASSUME Reading, NEW d \in Clones PROVE Journey(d)'
  <2>1. /\ Piece("body", c) \in Pieces /\ Piece("body", c).kind = "body"
        /\ Piece("body", c).frame.clone = c /\ Piece("body", c).frame.lo = sent[c] + 1
        /\ Piece("body", c).frame.hi = flushed[c]
    BY PieceTyped DEF IInv, Piece, Frame
  <2>2. sent'[d] = (IF d = c THEN flushed[c] ELSE sent[d]) /\ sent'[d] \in Nat
        /\ sent[c] <= flushed[c]
    BY <1>1 DEF IInv, TypeOK, LogInv, Buffers
  <2>3. TypeOK /\ Journey(d) /\ Got(d)' = Got(d)
    BY <1>1, <1>3, LogsKept DEF IInv, LogInv
  <2>. HIDE DEF Piece
  <2>. QED
    BY <1>1, <1>3, <2>1, <2>2, <2>3, JourneyAppend
<1>4. LogTyped' /\ LogsArePrefixes' /\ receiver # "done"
  BY <1>1, LogsKept DEF LogInv
<1>. QED
  BY <1>1, <1>2, <1>3, <1>4 DEF LogInv, Reading

\* The end frame.
LEMMA EndLog == IInv /\ LogInv /\ SendEndFrame => LogInv'
<1>. SUFFICES ASSUME IInv, LogInv, SendEndFrame PROVE LogInv'
  OBVIOUS
<1>1. /\ Send(EndPiece) /\ EndPiece \in Pieces /\ EndPiece.kind = "end" /\ device = "up"
      /\ UNCHANGED <<written, flushed, sent, worker, receiver, files, tid_files>>
  BY DEF SendEndFrame, receiverVars, EndPiece, Pieces
<1>2. Buffers'
  BY <1>1 DEF SendEndFrame, AllDestroyed, LogInv, Buffers
<1>3. Reading => \A d \in Clones : Journey(d)'
  BY <1>1, JourneyAppend, LogsKept DEF IInv, LogInv, TypeOK
<1>4. LogTyped' /\ LogsArePrefixes' /\ receiver # "done"
  BY <1>1, LogsKept DEF LogInv
<1>. QED
  BY <1>1, <1>2, <1>3, <1>4 DEF LogInv, Reading

\* The receiver takes a header, or learns that this was all.
LEMMA RecvHeaderLog == IInv /\ LogInv /\ RecvHeader => LogInv'
<1>. SUFFICES ASSUME IInv, LogInv, RecvHeader PROVE LogInv'
  OBVIOUS
<1>1. /\ Reading /\ wire # <<>> /\ wire' = Tail(wire)
      /\ UNCHANGED <<device, written, flushed, sent, worker, files, tid_files>>
  BY DEF RecvHeader, Reading, deviceVars
<1>2. Len(wire) \in Nat \ {0} /\ Head(wire) = wire[1] /\ wire[1] \in Pieces /\ 1 \in 1..Len(wire)
  BY <1>1, Taken DEF IInv
<1>3. /\ wire[1].kind # "body" /\ receiver' # "corrupt"
      /\ receiver' = "done" => wire[1].kind = "end"
  BY <1>2, RecvHeaderStep DEF RecvHeader, IInv, FramesIntact
<1>4. \A c \in Clones : Journey(c)'
  BY <1>1, <1>2, <1>3, JourneyTail, LogsKept DEF IInv, LogInv
<1>5. Buffers'
  BY <1>1 DEF LogInv, Buffers
<1>6. ASSUME receiver' = "done" PROVE device = "ended" /\ \A c \in Clones : Got(c) = written[c]
  <2>1. wire[1].kind = "end" /\ Len(wire) = 1 /\ device = "ended"
    BY <1>1, <1>2, <1>3, <1>6 DEF IInv, Framed
  <2>2. ASSUME NEW c \in Clones PROVE Got(c) = sent[c]
    <3>1. PICK h \in [1..Len(wire)+1 -> Nat] :
            /\ h[1] = Got(c) /\ h[Len(wire)+1] = sent[c]
            /\ \A n \in 1..Len(wire) :
                 IF wire[n].kind = "body" /\ wire[n].frame.clone = c
                 THEN wire[n].frame.lo = h[n] + 1 /\ wire[n].frame.hi = h[n+1] /\ h[n] <= h[n+1]
                 ELSE h[n+1] = h[n]
      BY <1>1 DEF LogInv, Journey
    <3>. QED
      BY <1>2, <1>3, <2>1, <3>1
  <2>. QED
    BY <2>1, <2>2 DEF LogInv, Buffers
<1>7. /\ \A c : Got(c)' = Got(c)
      /\ LogTyped' /\ LogsArePrefixes'
  BY <1>1, LogsKept DEF LogInv
<1>. QED
  BY <1>1, <1>4, <1>5, <1>6, <1>7 DEF LogInv

\* The receiver appends a frame to the log of its thread: by the journey of
\* its clone it starts right after the last line that has arrived.
LEMMA RecvBodyLog == IInv /\ LogInv /\ RecvBody => LogInv'
<1>. SUFFICES ASSUME IInv, LogInv, RecvBody PROVE LogInv'
  OBVIOUS
<1>1. /\ Reading /\ receiver = "body" /\ wire # <<>> /\ wire' = Tail(wire)
      /\ UNCHANGED <<device, written, flushed, sent, worker, header>>
  BY Zenon DEF RecvBody, Reading, deviceVars
<1>2. Len(wire) \in Nat \ {0} /\ Head(wire) = wire[1] /\ wire[1] \in Pieces
  BY <1>1, Taken DEF IInv
<1>3. wire[1] = [kind |-> "body", frame |-> header]
  <2>1. receiver' # "corrupt"
    BY RecvBodyStep DEF IInv, FramesIntact
  <2>. QED
    BY <1>2, <2>1, Zenon DEF RecvBody
<1>4. header \in Frames
  <2>1. wire[1].kind = "body" /\ wire[1].frame = header
    BY <1>3
  <2>. QED
    BY <1>2, <2>1 DEF Pieces, EndPiece
<1>5. PICK c \in Clones : c = header.clone
  BY <1>4 DEF Frames
<1>6. PICK t \in Tids : t = TidOf[c]
  BY GotTyped DEF LogInv
<1>7. PICK i \in 0..MaxIndex-1 :
        i = IF tid_files[t] = NoFile THEN find_next_index(t) ELSE tid_files[t]
  BY IndexExists, WireAssumption DEF LogInv, LogTyped, NoFile
<1>8. PICK k \in Nat : /\ k = header.hi + 1 - header.lo /\ header.lo \in Nat
                       /\ Got(c) \in Nat /\ header.lo = Got(c) + 1 /\ header.hi = Got(c) + k
  <2>1. PICK h \in [1..Len(wire)+1 -> Nat] :
          /\ h[1] = Got(c)
          /\ \A n \in 1..Len(wire) :
               IF wire[n].kind = "body" /\ wire[n].frame.clone = c
               THEN wire[n].frame.lo = h[n] + 1 /\ wire[n].frame.hi = h[n+1] /\ h[n] <= h[n+1]
               ELSE h[n+1] = h[n]
    BY <1>1 DEF LogInv, Journey
  <2>2. wire[1].kind = "body" /\ wire[1].frame = header /\ 1 \in 1..Len(wire)
    BY <1>2, <1>3
  <2>3. header.lo = h[1] + 1 /\ header.hi = h[1+1] /\ h[1] <= h[1+1]
    BY <1>5, <2>1, <2>2
  <2>4. h[1] \in Nat /\ h[1+1] \in Nat
    BY <1>2, <2>1
  <2>. QED
    BY <2>1, <2>3, <2>4, SMTT(40)
<1>9. PICK new : new = Log(t) \o [n \in 1..k |-> <<c, header.lo + n - 1>>]
  OBVIOUS
<1>10. /\ receiver' = "header" /\ tid_files' = [tid_files EXCEPT ![t] = i]
       /\ files' = [files EXCEPT ![t][i] = [round |-> round, text |-> new]]
  <2>1. /\ receiver' = "header"
        /\ files' = [files EXCEPT ![t][i] = [round |-> round, text |->
             (IF tid_files[t] = NoFile THEN <<>> ELSE files[t][i].text)
               \o [n \in 1..k |-> <<c, header.lo + n - 1>>]]]
        /\ tid_files' = [tid_files EXCEPT ![t] = i]
    BY <1>1, <1>2, <1>3, <1>5, <1>6, <1>7, <1>8, ZenonT(60) DEF RecvBody
  <2>2. (IF tid_files[t] = NoFile THEN <<>> ELSE files[t][i].text) = Log(t)
    BY <1>7 DEF Log
  <2>. QED
    BY <1>9, <2>1, <2>2
<1>11. Log(t) \in Seq(Line) /\ Len(Log(t)) \in Nat
  BY LogIsText DEF LogInv
<1>12. /\ new \in Seq(Line) /\ Len(new) = Len(Log(t)) + k
       /\ \A p \in 1..Len(Log(t)) : new[p] = Log(t)[p]
       /\ \A p \in Len(Log(t))+1..Len(Log(t))+k : new[p][1] = c
       /\ Cardinality(LinesOf(c, new)) = Got(c) + k
       /\ \A d \in Clones \ {c} : LinesOf(d, new) = LinesOf(d, Log(t))
       /\ \A d \in Clones : Ordered(d, Log(t)) => Ordered(d, new)
  <2>1. Got(c) = Cardinality(LinesOf(c, Log(t)))
    BY <1>6 DEF Got
  <2>2. header.lo = Cardinality(LinesOf(c, Log(t))) + 1
    BY <1>8, <2>1
  <2>3. header.lo \in Nat \ {0}
    BY <1>8
  <2>4. /\ new \in Seq(Line) /\ Len(new) = Len(Log(t)) + k
        /\ \A p \in 1..Len(Log(t)) : new[p] = Log(t)[p]
        /\ \A p \in Len(Log(t))+1..Len(Log(t))+k :
             new[p] = <<c, header.lo + (p - Len(Log(t))) - 1>>
    <3>. DEFINE x == Log(t) \o [n \in 1..k |-> <<c, header.lo + n - 1>>]
    <3>1. /\ x \in Seq(Line) /\ Len(x) = Len(Log(t)) + k
          /\ \A p \in 1..Len(Log(t)) : x[p] = Log(t)[p]
          /\ \A p \in Len(Log(t))+1..Len(Log(t))+k :
               x[p] = <<c, header.lo + (p - Len(Log(t))) - 1>>
      BY <1>11, <2>3, AppendedText, ZenonT(60)
    <3>2. x = new
      BY <1>9
    <3>. HIDE DEF x
    <3>. QED
      BY <3>1, <3>2
  <2>5. \A p \in Len(Log(t))+1..Len(Log(t))+k : new[p][1] = c
    BY <2>4
  <2>. QED
    <3>1. Len(Log(t)) <= Len(new) /\ Len(new) - Len(Log(t)) = k
      BY <1>11, <2>4
    <3>2. \A p \in Len(Log(t))+1..Len(new) :
             new[p] = <<c, Cardinality(LinesOf(c, Log(t))) + (p - Len(Log(t)))>>
      <4>1. ASSUME NEW p \in Len(Log(t))+1..Len(Log(t))+k
            PROVE  header.lo + (p - Len(Log(t))) - 1 = Cardinality(LinesOf(c, Log(t))) + (p - Len(Log(t)))
        BY <1>8, <1>11, <2>1, <2>2
      <4>. QED
        BY <2>4, <4>1
    <3>3. /\ Cardinality(LinesOf(c, new)) = Cardinality(LinesOf(c, Log(t))) + (Len(new) - Len(Log(t)))
          /\ \A d \in Clones \ {c} : LinesOf(d, new) = LinesOf(d, Log(t))
          /\ \A d \in Clones : Ordered(d, Log(t)) => Ordered(d, new)
      BY <1>11, <2>4, <3>1, <3>2, FrameAppended
    <3>. QED
      BY <2>1, <2>4, <2>5, <3>1, <3>3
<1>13. LogTyped'
  <2>1. round \in Nat
    BY DEF IInv, TypeOK
  <2>2. files' \in [Tids -> [0..MaxIndex-1 -> [round : Nat, text : Seq(Line)]]]
    BY <1>10, <1>12, <2>1 DEF LogInv, LogTyped
  <2>3. tid_files' \in [Tids -> 0..MaxIndex]
    BY <1>10, WireAssumption DEF LogInv, LogTyped
  <2>. QED
    BY <2>2, <2>3 DEF LogTyped
<1>14. Log(t)' = new /\ \A u \in Tids \ {t} : Log(u)' = Log(u)
  <2>1. tid_files'[t] = i /\ files'[t][i].text = new
    BY <1>10 DEF LogInv, LogTyped
  <2>2. \A u \in Tids \ {t} : tid_files'[u] = tid_files[u] /\ files'[u] = files[u]
    BY <1>10 DEF LogInv, LogTyped
  <2>3. i # NoFile
    BY WireAssumption DEF NoFile
  <2>. QED
    BY <2>1, <2>2, <2>3 DEF Log
<1>15. LogsArePrefixes'
  <2>1. \A u \in Tids : \A d \in Clones : Ordered(d, Log(u))
    BY DEF LogInv, LogsArePrefixes, Ordered
  <2>2. ASSUME NEW p \in 1..Len(new) PROVE TidOf[new[p][1]] = t
    <3>1. CASE p \in 1..Len(Log(t))
      BY <1>12, <3>1 DEF LogInv, LogsArePrefixes
    <3>2. CASE p \in Len(Log(t))+1..Len(Log(t))+k
      BY <1>6, <1>12, <3>2
    <3>. QED
      BY <1>11, <1>12, <3>1, <3>2
  <2>3. ASSUME NEW u \in Tids
        PROVE  /\ \A d \in Clones : Ordered(d, Log(u)')
               /\ \A p \in 1..Len(Log(u)') : TidOf[Log(u)'[p][1]] = u
    <3>1. CASE u = t
      BY <1>12, <1>14, <2>1, <2>2, <3>1
    <3>2. CASE u # t
      BY <1>14, <2>1, <3>2 DEF LogInv, LogsArePrefixes
    <3>. QED
      BY <3>1, <3>2
  <2>. QED
    BY <2>3 DEF LogsArePrefixes, Ordered
<1>16. ASSUME NEW d \in Clones
       PROVE  Got(d)' = IF d = c THEN header.hi ELSE Got(d)
  <2>1. CASE d = c
    BY <1>6, <1>8, <1>14, <1>12, <2>1 DEF Got
  <2>2. CASE d # c /\ TidOf[d] = t
    BY <1>14, <1>12, <2>2 DEF Got
  <2>3. CASE TidOf[d] # t
    <3>1. TidOf[d] \in Tids \ {t}
      BY <2>3, GotTyped DEF LogInv
    <3>2. Log(TidOf[d])' = Log(TidOf[d]) /\ d # c
      BY <1>6, <1>14, <2>3, <3>1
    <3>. QED
      BY <3>2 DEF Got
  <2>. QED
    BY <2>1, <2>2, <2>3
<1>17. ASSUME NEW d \in Clones PROVE Journey(d)'
  <2>1. Journey(d) /\ TypeOK
    BY <1>1 DEF LogInv, IInv
  <2>2. Got(d)' = IF wire[1].kind = "body" /\ wire[1].frame.clone = d
                  THEN wire[1].frame.hi ELSE Got(d)
    BY <1>3, <1>5, <1>16
  <2>. QED
    BY <1>1, <2>1, <2>2, JourneyTail
<1>18. Buffers'
  BY <1>1 DEF LogInv, Buffers
<1>. QED
  <2>1. receiver' # "done"
    BY <1>10, Zenon
  <2>. QED
    BY <1>13, <1>15, <1>17, <1>18, <2>1 DEF LogInv

\* The receiver gives up: what it has written is on the PC.
LEMMA GiveUpLog == IInv /\ LogInv /\ (RecvClosed \/ RecvTimeout) => LogInv'
<1>. SUFFICES ASSUME LogInv, RecvClosed \/ RecvTimeout PROVE LogInv'
  OBVIOUS
<1>1. receiver' = "lost" /\ UNCHANGED <<deviceVars, wire, files, tid_files>>
  BY DEF RecvClosed, RecvTimeout
<1>2. LogTyped' /\ LogsArePrefixes'
  BY <1>1, LogsKept DEF LogInv
<1>. QED
  BY <1>1, <1>2 DEF LogInv, deviceVars, Buffers, Reading

\* LogInv is inductive relative to IInv.
LEMMA NextLog == IInv /\ LogInv /\ [Next]_vars => LogInv'
<1>. SUFFICES ASSUME IInv, LogInv, [Next]_vars PROVE LogInv'
  OBVIOUS
<1>1. CASE Connect \/ SendEndFrame \/ Kill
  BY <1>1, ConnectLog, EndLog, QuietLog
<1>2. ASSUME NEW c \in Clones,
             WriteLine(c) \/ Flush(c) \/ Destroy(c) \/ WorkerStep(c)
      PROVE  LogInv'
  BY <1>2, QuietLog, HeaderLog, BodyLog DEF WorkerStep
<1>3. CASE RecvStep \/ RecvTimeout
  BY <1>3, RecvHeaderLog, RecvBodyLog, GiveUpLog DEF RecvStep
<1>4. CASE Terminated \/ UNCHANGED vars
  <2>1. UNCHANGED <<device, written, flushed, sent, worker, wire, receiver, files, tid_files>>
    BY <1>4 DEF Terminated, vars, deviceVars, receiverVars
  <2>2. /\ \A c : Got(c)' = Got(c)
        /\ LogTyped' /\ LogsArePrefixes'
    BY <2>1, LogsKept DEF LogInv
  <2>3. \A c \in Clones : Journey(c) => Journey(c)'
    BY <2>1, <2>2 DEF Journey
  <2>. QED
    BY <2>1, <2>2, <2>3 DEF LogInv, Buffers, Reading
<1>. QED
  BY <1>1, <1>2, <1>3, <1>4 DEF Next

\* In every reachable state the frames on the wire continue what the logs hold
\* and end with what was sent.
THEOREM LogInvariance == Spec => []LogInv
<1>1. IInv /\ LogInv /\ [Next]_vars => LogInv'
  BY NextLog
<1>. QED
  BY InitLog, Invariance, <1>1, PTL DEF Spec

\* Every log holds a prefix of the text of each clone of its thread, and
\* nothing of another thread, whenever the app is killed or the receiver stops
\* (cmd_receive, find_next_index).
THEOREM LogsArePrefixesAlways == Spec => []LogsArePrefixes
<1>1. LogInv => LogsArePrefixes
  BY DEF LogInv
<1>. QED
  BY LogInvariance, <1>1, PTL

\* A receiver that reports the end frame has every line that was written
\* (freeTrace drains all clones before the last one sends it).
THEOREM EndMeansCompleteAlways == Spec => []EndMeansComplete
<1>1. LogInv => EndMeansComplete
  BY DEF LogInv, Got, EndMeansComplete
<1>. QED
  BY LogInvariance, <1>1, PTL
=============================================================================
