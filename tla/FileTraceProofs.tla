--------------------------- MODULE FileTraceProofs ---------------------------
(***************************************************************************)
(* Theorems about FileTrace: what the files of a thread decode to after a  *)
(* crash and after a return, for a target that does not call itself.       *)
(***************************************************************************)
EXTENDS FileTrace, SequenceTheorems, WellFoundedInduction, TLAPS

Pieces == [kind : {"header", "body"}, frame : Seq(Nat), orig : Nat]

FlushLabels == {"flush", "header", "body", "pos", "handoff"}
TracerLabels ==
  {"guest", "write", "write_ret", "reset", "reset_ret", "append", "ret", "interval", "reopen"}
HandlerLabels == {"off", "write", "reset", "salvage", "close", "chain"}

TypeOK ==
  /\ bg_running \in BOOLEAN /\ fd \in BOOLEAN /\ dead \in BOOLEAN
  /\ insns \in Nat /\ depth \in Nat /\ signals \in Nat /\ stringBuilder \in Nat
  /\ kind \in Kinds
  /\ lr \in CallSites \cup {NoSite} /\ entryLr \in CallSites \cup {NoSite}
  /\ bufs \in Seq(Nat) /\ comp_buf \in Seq(Nat) /\ frame \in [Actors -> Seq(Nat)]
  /\ files \in Seq(Seq(Pieces)) /\ files # <<>>
  /\ hit \in {"none", "guest", "tracer"}

\* pc and back are defined on both actors and name places of theirs.
Places ==
  /\ DOMAIN pc = Actors /\ DOMAIN back = Actors
  /\ pc["tracer"] \in FlushLabels \cup TracerLabels
  /\ pc["handler"] \in FlushLabels \cup HandlerLabels
  /\ pc["tracer"] \in FlushLabels =>
       back["tracer"] \in {"write", "write_ret", "reopen", "interval", "guest"}
  /\ pc["handler"] \in FlushLabels => back["handler"] \in {"write", "close"}
  /\ \A a \in Actors :
       /\ pc[a] \in {"header", "body"} => ~bg_running
       /\ pc[a] = "handoff" => bg_running

\* The handler runs between its signal and the end of it.
Crash ==
  /\ pc["handler"] = "off" <=> hit = "none"
  /\ hit # "none" => signals > 0 /\ ~dead
  /\ hit = "guest" => pc["tracer"] = "guest"
  /\ ~Recovers => (signals > 0 => hit # "none" \/ dead) /\ signals <= 1
  /\ MaxSignals <= 1 => signals <= 1
  /\ dead => signals > 0

\* Where an actor is, or goes after the flush() under way.
Spot(a) == IF pc[a] \in FlushLabels THEN back[a] ELSE pc[a]

\* The call of the target, and the pending line, which is out when it returns.
Call ==
  /\ depth <= 1
  /\ depth = 0 => stringBuilder = 0 /\ Spot("tracer") \in {"guest", "interval"}
  /\ Spot("tracer") \in {"reopen", "append", "ret"} => stringBuilder = 0
  /\ depth > 0 => lr \in CallSites
  /\ insns > 0 => entryLr \in CallSites
  /\ Spot("tracer") \in {"write_ret", "reset_ret", "ret"} => insns > 0
  /\ Spot("handler") \in {"salvage", "close", "chain"} => stringBuilder = 0

-----------------------------------------------------------------------------
(* What a file holds.                                                      *)

GoodUpto(file, k) == \A n \in 1..k : GoodFrame(file, n)

\* decode_frames stops after the k-th frame.
Reads(file, k) == GoodUpto(file, k) /\ ~GoodFrame(file, k + 1)

Header(f) == [kind |-> "header", frame |-> f, orig |-> Len(f)]
Body(f) == [kind |-> "body", frame |-> f, orig |-> 0]

\* Whole frames only; then a header; or something that is no frame.
Whole(file) == \E k \in 0..Len(file) : Len(file) = 2*k /\ GoodUpto(file, k)
Open(file) == \E k \in 0..Len(file) : Len(file) = 2*k + 1 /\ GoodUpto(file, k)
Torn(file) == \E k \in 0..Len(file) : Len(file) >= 2*k + 2 /\ Reads(file, k)

Output == files[Len(files)]

\* Actor a compresses bufs, and between header and body the file waits for it.
InOrder(a) ==
  /\ pc[a] \in {"header", "body"} => frame[a] = bufs /\ comp_buf = bufs
  /\ IF pc[a] = "body" THEN Open(Output) /\ Output[Len(Output)] = Header(bufs) ELSE Whole(Output)

FdOpen == fd \/ pc["handler"] = "chain"

-----------------------------------------------------------------------------
(* No signal yet, or the first one, from the traced code.                  *)

Quiet == signals = 0 \/ (signals = 1 /\ hit = "guest")
Actor == IF hit = "none" THEN "tracer" ELSE "handler"

Unsent(a) == IF pc[a] = "pos" THEN <<>> ELSE bufs
Pending(a) ==
  IF stringBuilder = 0 \/ pc[a] \in {"reset", "reset_ret"} THEN <<>> ELSE <<stringBuilder>>

\* Files, buffer and pending line are the text, in this order.
Exact(a) ==
  /\ FdOpen /\ InOrder(a)
  /\ Decoded \o (Unsent(a) \o Pending(a)) = Upto(insns)
  /\ pc[a] = "pos" => ToSet(bufs) \subseteq ToSet(Decoded)
  /\ pc[a] \in {"reset", "reset_ret"} /\ stringBuilder # 0 => stringBuilder \in ToSet(bufs)
  /\ pc["tracer"] = "reopen" => bufs = <<>>
  /\ pc["handler"] \in {"close", "chain"} /\ ~bg_running => bufs = <<>>

TextExact == Quiet => Exact(Actor)

\* The target is back where it was first called from: everything is in the files.
Flushed ==
  (signals = 0 /\ depth = 0 /\ lr = entryLr /\ pc["tracer"] \in {"guest", "interval"}) =>
    bufs = <<>>

-----------------------------------------------------------------------------
(* The first signal, inside trace_code.                                    *)

Hit == signals = 1 /\ hit = "tracer"

\* Lines 1 to n and these are the lines 1 to some m.
Joins(n, lines) == \E m \in n..insns : (1..n) \cup lines = 1..m

\* Nothing more of this file is read: a header without its body, or worse.
Lost == Torn(Output) \/ (Open(Output) /\ pc["handler"] # "body" /\ ~bg_running)

PendingLines == IF stringBuilder = 0 THEN {} ELSE {stringBuilder}

\* Lines 1 to n are saved, and what is in memory goes on from there.
Saved(n) ==
  /\ ToSet(Decoded) = 1..n
  /\ \/ Lost
     \/ /\ InOrder("handler")
        /\ Joins(n, ToSet(bufs)) /\ Joins(n, ToSet(bufs) \cup PendingLines)
        /\ pc["handler"] = "pos" => ToSet(bufs) \subseteq 1..n

Whatever == Hit => FdOpen /\ \E n \in 0..insns : Saved(n)

\* The process died of the first signal.
Buried == signals = 1 /\ dead => \E n \in 0..insns : ToSet(Decoded) = 1..n

Control == TypeOK /\ Places /\ Crash /\ Call
IInv == Control /\ TextExact /\ Flushed /\ Whatever /\ Buried

-----------------------------------------------------------------------------
(* Induction, and FlattenSeq.                                              *)

\* A set of numbers that is not empty has a least one.
LEMMA LeastNat ==
  ASSUME NEW S \in SUBSET Nat, S # {}
  PROVE  \E i \in S : \A j \in S : i <= j
<1>1. PICK i \in S : \A j \in S : ~(<<j, i>> \in OpToRel(<, Nat))
  BY NatLessThanWellFounded, WFMin
<1>2. ASSUME NEW j \in S PROVE i <= j
  <2>1. i \in Nat /\ j \in Nat
    OBVIOUS
  <2>2. ~(j < i)
    BY <1>1, <2>1 DEF OpToRel
  <2>. QED
    BY <2>1, <2>2
<1>. QED
  BY <1>2

\* f is the function flatten in FlattenSeq(seqs).
IsRuns(seqs, f) ==
  f = [i \in 1..Len(seqs) |-> IF i = 1 THEN seqs[i] ELSE f[i-1] \o seqs[i]]

LEMMA FlattenIsRuns ==
  ASSUME NEW seqs, Len(seqs) # 0
  PROVE  FlattenSeq(seqs) = (CHOOSE f : IsRuns(seqs, f))[Len(seqs)]
  BY Zenon DEF FlattenSeq, IsRuns

\* There is one, up to the n-th element.
RunsTo(seqs, n) ==
  \E f : f = [i \in 1..n |-> IF i = 1 THEN seqs[i] ELSE f[i-1] \o seqs[i]]

LEMMA RunsStep ==
  ASSUME NEW ss, NEW n \in Nat, n > 0, RunsTo(ss, n - 1)
  PROVE  RunsTo(ss, n)
<1>0. PICK f : f = [i \in 1..(n-1) |-> IF i = 1 THEN ss[i] ELSE f[i-1] \o ss[i]]
  BY Zenon DEF RunsTo
<1>. DEFINE g == [i \in 1..n |-> IF i = 1 THEN ss[i] ELSE f[i-1] \o ss[i]]
<1>1. \A i \in 1..(n-1) : g[i] = f[i]
  <2>1. SUFFICES ASSUME NEW i \in 1..(n-1) PROVE g[i] = f[i]
    OBVIOUS
  <2>2. i \in 1..n
    OBVIOUS
  <2>3. g[i] = IF i = 1 THEN ss[i] ELSE f[i-1] \o ss[i]
    BY <2>2, Zenon
  <2>4. f[i] = IF i = 1 THEN ss[i] ELSE f[i-1] \o ss[i]
    BY <1>0, Zenon
  <2>. QED
    BY <2>3, <2>4, Zenon
<1>2. \A i \in 1..n : i # 1 => f[i-1] = g[i-1]
  <2>1. \A i \in 1..n : i # 1 => i-1 \in 1..(n-1)
    OBVIOUS
  <2>. QED
    BY <1>1, <2>1, Zenon
<1>. HIDE DEF g
<1>3. g = [i \in 1..n |-> IF i = 1 THEN ss[i] ELSE g[i-1] \o ss[i]]
  <2>1. \A i \in 1..n : (IF i = 1 THEN ss[i] ELSE f[i-1] \o ss[i]) =
                        (IF i = 1 THEN ss[i] ELSE g[i-1] \o ss[i])
    BY <1>2, Zenon
  <2>. QED
    BY <2>1, Zenon DEF g
<1>. QED
  BY <1>3, Zenon DEF RunsTo

LEMMA RunsExist ==
  ASSUME NEW S, NEW ss \in Seq(Seq(S))
  PROVE  IsRuns(ss, CHOOSE f : IsRuns(ss, f))
<1>. DEFINE Bad == {n \in 0..Len(ss) : ~RunsTo(ss, n)}
<1>1. Len(ss) \in Nat
  OBVIOUS
<1>2. Bad = {}
  <2>1. SUFFICES ASSUME Bad # {} PROVE FALSE
    OBVIOUS
  <2>2. Bad \in SUBSET Nat
    <3>1. 0..Len(ss) \subseteq Nat
      BY <1>1
    <3>. QED
      BY <3>1, Zenon
  <2>3. PICK n \in Bad : \A j \in Bad : n <= j
    BY <2>1, <2>2, LeastNat, Zenon
  <2>4. n # 0
    <3>1. RunsTo(ss, 0)
      <4>1. PICK e : e = [i \in 1..0 |-> 0]
        OBVIOUS
      <4>2. e = [i \in 1..0 |-> IF i = 1 THEN ss[i] ELSE e[i-1] \o ss[i]]
        BY <4>1
      <4>. QED
        BY <4>2, Zenon DEF RunsTo
    <3>. QED
      BY <3>1
  <2>5. n - 1 \in 0..Len(ss) /\ n - 1 \notin Bad /\ n \in Nat /\ n > 0 /\ n <= Len(ss)
    BY <1>1, <2>3, <2>4
  <2>6. RunsTo(ss, n - 1)
    BY <2>5
  <2>7. RunsTo(ss, n)
    BY <2>5, <2>6, RunsStep
  <2>. QED
    BY <2>7
<1>3. RunsTo(ss, Len(ss))
  BY <1>1, <1>2
<1>. QED
  BY <1>3, Zenon DEF RunsTo, IsRuns

LEMMA RunsAgree ==
  ASSUME NEW S, NEW ss \in Seq(Seq(S)), NEW s \in Seq(S), NEW f, NEW g,
         IsRuns(ss, f), IsRuns(Append(ss, s), g)
  PROVE  \A i \in 1..Len(ss) : f[i] = g[i] /\ f[i] \in Seq(S)
<1>. DEFINE Bad == {i \in 1..Len(ss) : ~(f[i] = g[i] /\ f[i] \in Seq(S))}
<1>1. Len(ss) \in Nat /\ Len(Append(ss, s)) = Len(ss) + 1
      /\ \A i \in 1..Len(ss) : Append(ss, s)[i] = ss[i] /\ ss[i] \in Seq(S)
  OBVIOUS
<1>2. SUFFICES ASSUME Bad # {} PROVE FALSE
  OBVIOUS
<1>3. PICK n \in Bad : \A j \in Bad : n <= j
  <2>1. Bad \in SUBSET Nat
    BY <1>1
  <2>. QED
    BY <1>2, <2>1, LeastNat, Zenon
<1>4. f[n] = IF n = 1 THEN ss[n] ELSE f[n-1] \o ss[n]
  BY Zenon DEF IsRuns
<1>5. g[n] = IF n = 1 THEN ss[n] ELSE g[n-1] \o ss[n]
  <2>1. n \in 1..Len(Append(ss, s))
    BY <1>1
  <2>2. g[n] = IF n = 1 THEN Append(ss, s)[n] ELSE g[n-1] \o Append(ss, s)[n]
    BY <2>1, Zenon DEF IsRuns
  <2>. QED
    BY <1>1, <2>2
<1>6. CASE n = 1
  BY <1>1, <1>4, <1>5, <1>6
<1>7. CASE n # 1
  <2>1. n - 1 \in 1..Len(ss) /\ n - 1 \notin Bad
    BY <1>1, <1>3, <1>7
  <2>2. f[n-1] = g[n-1] /\ f[n-1] \in Seq(S)
    BY <2>1
  <2>. QED
    <3>1. f[n] = f[n-1] \o ss[n] /\ g[n] = f[n-1] \o ss[n]
      BY <1>4, <1>5, <1>7, <2>2
    <3>2. ss[n] \in Seq(S)
      BY <1>1
    <3>3. f[n-1] \o ss[n] \in Seq(S)
      BY <2>2, <3>2, ConcatProperties, Zenon
    <3>. QED
      BY <3>1, <3>3
<1>. QED
  BY <1>6, <1>7

\* One more sequence at the end.
LEMMA FlattenAppend ==
  ASSUME NEW S, NEW ss \in Seq(Seq(S)), NEW s \in Seq(S)
  PROVE  /\ FlattenSeq(ss) \in Seq(S)
         /\ FlattenSeq(Append(ss, s)) = FlattenSeq(ss) \o s
<1>. DEFINE f == CHOOSE h : IsRuns(ss, h)
            g == CHOOSE h : IsRuns(Append(ss, s), h)
<1>1. Append(ss, s) \in Seq(Seq(S)) /\ Len(Append(ss, s)) = Len(ss) + 1
      /\ Append(ss, s)[Len(ss) + 1] = s /\ Len(ss) \in Nat
  OBVIOUS
<1>2. IsRuns(ss, f) /\ IsRuns(Append(ss, s), g)
  BY <1>1, RunsExist, Zenon
<1>3. FlattenSeq(Append(ss, s)) = g[Len(ss) + 1]
  <2>1. Len(Append(ss, s)) # 0
    BY <1>1
  <2>. QED
    BY <1>1, <2>1, FlattenIsRuns, Zenon
<1>. HIDE DEF f, g
<1>4. g[Len(ss) + 1] = IF Len(ss) = 0 THEN s ELSE g[Len(ss)] \o s
  <2>1. PICK n \in 1..Len(Append(ss, s)) : n = Len(ss) + 1
    BY <1>1
  <2>2. g[n] = IF n = 1 THEN Append(ss, s)[n] ELSE g[n-1] \o Append(ss, s)[n]
    BY <1>2, Zenon DEF IsRuns
  <2>3. n - 1 = Len(ss) /\ (n = 1 <=> Len(ss) = 0)
    BY <1>1, <2>1
  <2>. QED
    BY <1>1, <2>1, <2>2, <2>3, Zenon
<1>5. CASE Len(ss) = 0
  <2>1. ss = <<>>
    BY <1>5
  <2>2. FlattenSeq(ss) = <<>>
    BY <2>1, <1>5, Zenon DEF FlattenSeq
  <2>. QED
    BY <1>3, <1>4, <1>5, <2>2, ConcatProperties
<1>6. CASE Len(ss) # 0
  <2>1. FlattenSeq(ss) = f[Len(ss)]
    BY <1>6, FlattenIsRuns, Zenon DEF f
  <2>2. Len(ss) \in 1..Len(ss)
    BY <1>1, <1>6
  <2>3. f[Len(ss)] = g[Len(ss)] /\ f[Len(ss)] \in Seq(S)
    BY <1>2, <2>2, RunsAgree, Zenon
  <2>. QED
    BY <1>3, <1>4, <1>6, <2>1, <2>3, Zenon
<1>. QED
  BY <1>5, <1>6

LEMMA FlattenEmpty == FlattenSeq(<<>>) = <<>>
<1>1. Len(<<>>) = 0
  OBVIOUS
<1>. QED
  BY <1>1, Zenon DEF FlattenSeq

-----------------------------------------------------------------------------
(* Texts of files.                                                         *)

\* Text(files) is Decoded.
Text(fs) == FlattenSeq([i \in 1..Len(fs) |-> decode_frames(fs[i])])

\* Some frame of a file is the first that is not read.
LEMMA ReadsOnce ==
  ASSUME NEW file \in Seq(Pieces)
  PROVE  \E k \in Nat : Reads(file, k)
<1>. DEFINE Bad == {n \in Nat \ {0} : ~GoodFrame(file, n)}
<1>1. Len(file) \in Nat
  OBVIOUS
<1>2. Len(file) + 1 \in Bad
  BY <1>1 DEF GoodFrame
<1>3. Bad \in SUBSET Nat /\ Bad # {}
  BY <1>2
<1>4. PICK m \in Bad : \A j \in Bad : m <= j
  BY <1>3, LeastNat, Zenon
<1>5. m \in Nat \ {0} /\ ~GoodFrame(file, m)
  BY <1>4
<1>6. PICK k \in Nat : m = k + 1
  <2>1. m - 1 \in Nat /\ m = (m - 1) + 1
    BY <1>5
  <2>. QED
    BY <2>1
<1>7. \A n \in 1..k : n \in Nat \ {0} /\ ~(m <= n)
  BY <1>6
<1>8. \A n \in 1..k : GoodFrame(file, n)
  BY <1>4, <1>7
<1>. QED
  BY <1>5, <1>6, <1>8 DEF Reads, GoodUpto

\* What decode_frames returns.
LEMMA DecodeReads ==
  ASSUME NEW file \in Seq(Pieces), NEW k \in Nat, Reads(file, k)
  PROVE  /\ decode_frames(file) = FlattenSeq([n \in 1..k |-> file[2*n].frame])
         /\ [n \in 1..k |-> file[2*n].frame] \in Seq(Seq(Nat))
<1>. DEFINE good == {n \in 1..Len(file) : \A m \in 1..n : GoodFrame(file, m)}
<1>1. Len(file) \in Nat
  OBVIOUS
<1>2. \A n \in 1..k : n \in Nat /\ 2*n <= Len(file) /\ n <= Len(file) /\ 2*n \in 1..Len(file)
  <2>1. \A n \in 1..k : GoodFrame(file, n)
    BY DEF Reads, GoodUpto
  <2>2. \A n \in 1..k : 2*n <= Len(file)
    BY <2>1, Zenon DEF GoodFrame
  <2>. QED
    BY <1>1, <2>2
<1>3. \A n \in 1..k : n \in good
  <2>1. \A n \in 1..k : \A m \in 1..n : m \in 1..k
    OBVIOUS
  <2>2. \A n \in 1..k : n \in 1..Len(file)
    BY <1>1, <1>2
  <2>. QED
    BY <2>1, <2>2 DEF Reads, GoodUpto
<1>4. \A n \in good : n \in 1..k
  <2>1. SUFFICES ASSUME NEW n \in good, n > k PROVE FALSE
    BY <1>1
  <2>2. k + 1 \in 1..n
    BY <1>1, <2>1
  <2>. QED
    BY <2>2 DEF Reads
<1>5. good = 1..k
  BY <1>3, <1>4, Zenon
<1>6. [n \in 1..k |-> file[2*n].frame] \in Seq(Seq(Nat))
  <2>1. \A n \in 1..k : file[2*n] \in Pieces
    BY <1>2
  <2>2. \A n \in 1..k : file[2*n].frame \in Seq(Nat)
    BY <2>1 DEF Pieces
  <2>. QED
    BY <2>2
<1>7. decode_frames(file) = FlattenSeq([n \in good |-> file[2*n].frame])
  BY Zenon DEF decode_frames
<1>. QED
  BY <1>5, <1>6, <1>7, Zenon

LEMMA DecodeTyped ==
  ASSUME NEW file \in Seq(Pieces)
  PROVE  decode_frames(file) \in Seq(Nat)
<1>1. PICK k \in Nat : Reads(file, k)
  BY ReadsOnce
<1>2. PICK ss \in Seq(Seq(Nat)) : decode_frames(file) = FlattenSeq(ss)
  BY <1>1, DecodeReads, Zenon
<1>3. <<>> \in Seq(Nat)
  OBVIOUS
<1>. QED
  BY <1>2, <1>3, FlattenAppend, Zenon

\* A piece at the end changes none of the frames before it.
LEMMA FramesKept ==
  ASSUME NEW file \in Seq(Pieces), NEW p \in Pieces, NEW n \in Nat \ {0}, 2*n <= Len(file)
  PROVE  GoodFrame(Append(file, p), n) <=> GoodFrame(file, n)
<1>1. Len(file) \in Nat /\ Len(Append(file, p)) = Len(file) + 1
      /\ \A i \in 1..Len(file) : Append(file, p)[i] = file[i]
  OBVIOUS
<1>2. 2*n \in 1..Len(file) /\ 2*n-1 \in 1..Len(file)
  BY <1>1
<1>3. 2*n <= Len(Append(file, p))
  BY <1>1
<1>. QED
  BY <1>1, <1>2, <1>3, Zenon DEF GoodFrame

LEMMA GoodUptoKept ==
  ASSUME NEW file \in Seq(Pieces), NEW p \in Pieces, NEW k \in Nat, GoodUpto(file, k)
  PROVE  GoodUpto(Append(file, p), k)
<1>1. \A n \in 1..k : n \in Nat \ {0} /\ GoodFrame(file, n) /\ 2*n <= Len(file)
  BY DEF GoodUpto, GoodFrame
<1>. QED
  BY <1>1, FramesKept, Zenon DEF GoodUpto

\* Two files that are read up to the same frame have the same text.
LEMMA SameText ==
  ASSUME NEW file \in Seq(Pieces), NEW p \in Pieces, NEW k \in Nat,
         Reads(file, k), Reads(Append(file, p), k)
  PROVE  decode_frames(Append(file, p)) = decode_frames(file)
<1>1. Append(file, p) \in Seq(Pieces) /\ Len(file) \in Nat
      /\ \A i \in 1..Len(file) : Append(file, p)[i] = file[i]
  OBVIOUS
<1>2. \A n \in 1..k : 2*n \in 1..Len(file)
  BY <1>1 DEF Reads, GoodUpto, GoodFrame
<1>3. [n \in 1..k |-> Append(file, p)[2*n].frame] = [n \in 1..k |-> file[2*n].frame]
  BY <1>1, <1>2
<1>. QED
  BY <1>1, <1>3, DecodeReads, Zenon

\* A header after whole frames.
LEMMA HeaderAppended ==
  ASSUME NEW file \in Seq(Pieces), NEW p \in Pieces, Whole(file)
  PROVE  /\ Open(Append(file, p))
         /\ decode_frames(Append(file, p)) = decode_frames(file)
<1>1. PICK k \in 0..Len(file) : Len(file) = 2*k /\ GoodUpto(file, k)
  BY DEF Whole
<1>2. k \in Nat /\ Len(Append(file, p)) = 2*k + 1 /\ k \in 0..Len(Append(file, p))
  BY <1>1
<1>3. GoodUpto(Append(file, p), k)
  BY <1>1, <1>2, GoodUptoKept
<1>4. ~GoodFrame(file, k + 1) /\ ~GoodFrame(Append(file, p), k + 1)
  BY <1>1, <1>2 DEF GoodFrame
<1>. QED
  BY <1>1, <1>2, <1>3, <1>4, SameText DEF Open, Reads

\* Its body.
LEMMA BodyAppended ==
  ASSUME NEW file \in Seq(Pieces), NEW f \in Seq(Nat), Open(file), file[Len(file)] = Header(f)
  PROVE  /\ Whole(Append(file, Body(f)))
         /\ decode_frames(Append(file, Body(f))) = decode_frames(file) \o f
<1>1. PICK k \in 0..Len(file) : Len(file) = 2*k + 1 /\ GoodUpto(file, k)
  BY DEF Open
<1>2. PICK g : g = Append(file, Body(f))
  OBVIOUS
<1>3. Body(f) \in Pieces
  BY DEF Body, Pieces
<1>4. g \in Seq(Pieces) /\ Len(g) = 2*k + 2 /\ k \in Nat /\ g[2*k + 2] = Body(f)
      /\ \A i \in 1..(2*k + 1) : g[i] = file[i]
  <2>1. k \in Nat /\ Len(file) \in Nat
    BY <1>1
  <2>2. g \in Seq(Pieces) /\ Len(g) = Len(file) + 1 /\ g[Len(file) + 1] = Body(f)
        /\ \A i \in 1..Len(file) : g[i] = file[i]
    BY <1>2, <1>3, AppendProperties
  <2>3. Len(file) + 1 = 2*k + 2
    BY <1>1, <2>1
  <2>. QED
    BY <1>1, <2>1, <2>2, <2>3, Zenon
<1>5. GoodFrame(g, k + 1)
  <2>1. PICK i \in Nat : i = 2*k + 2
    BY <1>4
  <2>2. 2*(k + 1) = i /\ 2*(k + 1) - 1 = i - 1 /\ i - 1 = Len(file) /\ i - 1 \in 1..(2*k + 1)
        /\ i <= Len(g)
    BY <1>1, <1>4, <2>1
  <2>3. g[i] = Body(f) /\ g[i - 1] = Header(f)
    BY <1>4, <2>1, <2>2
  <2>. QED
    BY <2>2, <2>3 DEF GoodFrame, Header, Body
<1>6. GoodUpto(g, k + 1)
  <2>1. GoodUpto(g, k)
    BY <1>1, <1>2, <1>3, <1>4, GoodUptoKept
  <2>2. \A n \in 1..(k + 1) : n \in 1..k \/ n = k + 1
    BY <1>4
  <2>. QED
    BY <1>5, <2>1, <2>2, Zenon DEF GoodUpto
<1>7. Whole(g)
  <2>1. k + 1 \in 0..Len(g) /\ Len(g) = 2*(k + 1)
    BY <1>4
  <2>. QED
    BY <1>6, <2>1 DEF Whole
<1>8. Reads(file, k) /\ Reads(g, k + 1)
  <2>1. ~GoodFrame(file, k + 1) /\ ~GoodFrame(g, k + 1 + 1)
    BY <1>1, <1>4 DEF GoodFrame
  <2>. QED
    BY <1>1, <1>6, <2>1 DEF Reads
<1>9. PICK ss \in Seq(Seq(Nat)) : ss = [n \in 1..k |-> file[2*n].frame]
                                  /\ decode_frames(file) = FlattenSeq(ss)
  BY <1>4, <1>8, DecodeReads
<1>10. PICK tt \in Seq(Seq(Nat)) : tt = [n \in 1..(k + 1) |-> g[2*n].frame]
                                   /\ decode_frames(g) = FlattenSeq(tt)
  <2>1. k + 1 \in Nat
    BY <1>4
  <2>. QED
    BY <1>4, <1>8, <2>1, DecodeReads
<1>11. tt = Append(ss, f)
  <2>1. \A n \in 1..k : 2*n \in 1..(2*k + 1)
    BY <1>4
  <2>2. \A n \in 1..k : tt[n] = ss[n]
    <3>1. \A n \in 1..k : n \in 1..(k + 1)
      BY <1>4
    <3>. QED
      BY <1>4, <1>9, <1>10, <2>1, <3>1
  <2>3. tt[k + 1] = f
    <3>1. k + 1 \in 1..(k + 1) /\ 2*(k + 1) = 2*k + 2
      BY <1>4
    <3>2. tt[k + 1] = g[2*k + 2].frame
      BY <1>10, <3>1
    <3>. QED
      BY <1>4, <3>2 DEF Body
  <2>4. Len(tt) = k + 1 /\ Len(ss) = k
    BY <1>4, <1>9, <1>10
  <2>. QED
    BY <1>4, <2>2, <2>3, <2>4
<1>12. FlattenSeq(Append(ss, f)) = FlattenSeq(ss) \o f
  BY FlattenAppend
<1>. QED
  BY <1>2, <1>7, <1>9, <1>10, <1>11, <1>12

\* A second header instead of it.
LEMMA HeaderTwice ==
  ASSUME NEW file \in Seq(Pieces), NEW p \in Pieces, Open(file), p.kind = "header"
  PROVE  /\ Torn(Append(file, p))
         /\ decode_frames(Append(file, p)) = decode_frames(file)
<1>1. PICK k \in 0..Len(file) : Len(file) = 2*k + 1 /\ GoodUpto(file, k)
  BY DEF Open
<1>2. k \in Nat /\ Len(Append(file, p)) = 2*k + 2 /\ k \in 0..Len(Append(file, p))
      /\ Append(file, p)[2*k + 2] = p
  BY <1>1
<1>3. GoodUpto(Append(file, p), k)
  BY <1>1, <1>2, GoodUptoKept
<1>4. ~GoodFrame(file, k + 1)
  BY <1>1, <1>2 DEF GoodFrame
<1>5. ~GoodFrame(Append(file, p), k + 1)
  <2>1. 2*(k + 1) = 2*k + 2
    BY <1>2
  <2>2. Append(file, p)[2*(k + 1)].kind = "header"
    BY <1>2, <2>1
  <2>. QED
    BY <2>2 DEF GoodFrame
<1>. QED
  BY <1>1, <1>2, <1>3, <1>4, <1>5, SameText DEF Torn, Reads

\* Whatever comes then.
LEMMA TornAppended ==
  ASSUME NEW file \in Seq(Pieces), NEW p \in Pieces, Torn(file)
  PROVE  /\ Torn(Append(file, p))
         /\ decode_frames(Append(file, p)) = decode_frames(file)
<1>1. PICK k \in 0..Len(file) : Len(file) >= 2*k + 2 /\ Reads(file, k)
  BY DEF Torn
<1>2. k \in Nat /\ Len(Append(file, p)) >= 2*k + 2 /\ k \in 0..Len(Append(file, p))
      /\ k + 1 \in Nat \ {0} /\ 2*(k + 1) <= Len(file)
  BY <1>1
<1>3. GoodUpto(Append(file, p), k)
  BY <1>1, <1>2, GoodUptoKept DEF Reads
<1>4. ~GoodFrame(Append(file, p), k + 1)
  BY <1>1, <1>2, FramesKept DEF Reads
<1>. QED
  BY <1>1, <1>2, <1>3, <1>4, SameText DEF Torn, Reads

\* An empty file has no text.
LEMMA EmptyFile == Whole(<<>>) /\ decode_frames(<<>>) = <<>>
<1>1. <<>> \in Seq(Pieces) /\ Len(<<>>) = 0
  OBVIOUS
<1>2. GoodUpto(<<>>, 0) /\ ~GoodFrame(<<>>, 0 + 1)
  BY <1>1 DEF GoodUpto, GoodFrame
<1>3. decode_frames(<<>>) = FlattenSeq([n \in 1..0 |-> <<>>[2*n].frame])
  BY <1>1, <1>2, DecodeReads DEF Reads
<1>4. [n \in 1..0 |-> <<>>[2*n].frame] = <<>>
  OBVIOUS
<1>5. Whole(<<>>)
  BY <1>1, <1>2 DEF Whole
<1>. QED
  BY <1>3, <1>4, <1>5, FlattenEmpty, Zenon

\* One more file, and more text in the last one.
LEMMA TextAppend ==
  ASSUME NEW fs \in Seq(Seq(Pieces)), NEW file \in Seq(Pieces)
  PROVE  /\ Text(fs) \in Seq(Nat)
         /\ Text(Append(fs, file)) = Text(fs) \o decode_frames(file)
<1>1. PICK ss : ss = [i \in 1..Len(fs) |-> decode_frames(fs[i])]
  OBVIOUS
<1>2. PICK gs : gs = Append(fs, file)
  OBVIOUS
<1>3. PICK tt : tt = [i \in 1..Len(gs) |-> decode_frames(gs[i])]
  OBVIOUS
<1>4. gs \in Seq(Seq(Pieces)) /\ Len(gs) = Len(fs) + 1 /\ gs[Len(fs) + 1] = file
      /\ Len(fs) \in Nat /\ \A i \in 1..Len(fs) : gs[i] = fs[i]
  BY <1>2, AppendProperties
<1>5. ss \in Seq(Seq(Nat)) /\ Len(ss) = Len(fs)
  <2>1. \A i \in 1..Len(fs) : decode_frames(fs[i]) \in Seq(Nat)
    BY DecodeTyped
  <2>. QED
    BY <1>1, <1>4, <2>1
<1>6. tt \in Seq(Seq(Nat)) /\ Len(tt) = Len(fs) + 1
  <2>1. \A i \in 1..Len(gs) : decode_frames(gs[i]) \in Seq(Nat)
    BY <1>4, DecodeTyped
  <2>. QED
    BY <1>3, <1>4, <2>1
<1>7. tt = Append(ss, decode_frames(file))
  <2>1. \A i \in 1..Len(fs) : tt[i] = ss[i]
    BY <1>1, <1>3, <1>4
  <2>2. tt[Len(fs) + 1] = decode_frames(file)
    BY <1>3, <1>4
  <2>3. decode_frames(file) \in Seq(Nat)
    BY DecodeTyped
  <2>. QED
    BY <1>4, <1>5, <1>6, <2>1, <2>2, <2>3, SMTT(60)
<1>8. Text(fs) = FlattenSeq(ss) /\ Text(gs) = FlattenSeq(tt)
  BY <1>1, <1>3, Zenon DEF Text
<1>. QED
  BY <1>2, <1>5, <1>7, <1>8, DecodeTyped, FlattenAppend, Zenon

LEMMA TextGrows ==
  ASSUME NEW fs \in Seq(Seq(Pieces)), fs # <<>>, NEW file \in Seq(Pieces), NEW t \in Seq(Nat),
         decode_frames(file) = decode_frames(fs[Len(fs)]) \o t
  PROVE  Text([fs EXCEPT ![Len(fs)] = file]) = Text(fs) \o t
<1>1. PICK front : front = [i \in 1..(Len(fs) - 1) |-> fs[i]]
  OBVIOUS
<1>2. front \in Seq(Seq(Pieces)) /\ Len(fs) \in Nat \ {0} /\ Len(front) = Len(fs) - 1
      /\ fs[Len(fs)] \in Seq(Pieces)
  BY <1>1
<1>3. fs = Append(front, fs[Len(fs)])
  BY <1>1, <1>2
<1>4. [fs EXCEPT ![Len(fs)] = file] = Append(front, file)
  BY <1>1, <1>2
<1>5. Text(fs) = Text(front) \o decode_frames(fs[Len(fs)])
  BY <1>2, <1>3, TextAppend, Zenon
<1>6. Text([fs EXCEPT ![Len(fs)] = file]) = Text(front) \o decode_frames(file)
  BY <1>2, <1>4, TextAppend, Zenon
<1>7. PICK r \in Seq(Nat), d \in Seq(Nat) : r = Text(front) /\ d = decode_frames(fs[Len(fs)])
  <2>1. Text(front) \in Seq(Nat)
    BY <1>2, TextAppend
  <2>2. decode_frames(fs[Len(fs)]) \in Seq(Nat)
    BY <1>2, DecodeTyped
  <2>. QED
    BY <2>1, <2>2
<1>8. (r \o d) \o t = r \o (d \o t)
  BY SMTT(60)
<1>. QED
  BY <1>5, <1>6, <1>7, <1>8

-----------------------------------------------------------------------------
(* Types and control.                                                      *)

LEMMA EmitTyped ==
  ASSUME TypeOK, NEW p \in Pieces, Emit(p)
  PROVE  files' \in Seq(Seq(Pieces)) /\ files' # <<>>
<1>1. Len(files) \in Nat \ {0} /\ files[Len(files)] \in Seq(Pieces)
  BY DEF TypeOK
<1>2. Append(files[Len(files)], p) \in Seq(Pieces)
  BY <1>1
<1>3. CASE ~fd
  BY <1>3 DEF Emit, TypeOK
<1>4. CASE fd
  <2>1. files' = [files EXCEPT ![Len(files)] = Append(files[Len(files)], p)]
    BY <1>4, Zenon DEF Emit
  <2>2. files' \in Seq(Seq(Pieces)) /\ Len(files') = Len(files)
    BY <1>1, <1>2, <2>1 DEF TypeOK
  <2>. QED
    BY <1>1, <2>2
<1>. QED
  BY <1>3, <1>4

LEMMA WriteControl ==
  ASSUME Control, NEW a \in Actors, Write(a), ~Recursive
  PROVE  Control'
<1>. USE DEF Control
<1>1. TypeOK'
  <2>1. bufs' \in Seq(Nat)
    <3>1. bufs \in Seq(Nat) /\ stringBuilder \in Nat
      BY DEF TypeOK
    <3>2. bufs' = bufs \/ bufs' = Append(bufs, stringBuilder)
      BY DEF Write
    <3>. QED
      BY <3>1, <3>2, AppendProperties
  <2>. QED
    BY <2>1 DEF TypeOK, Write, insnVars, fileVars, sigVars
<1>2. Places'
  BY DEF Places, FlushLabels, TracerLabels, HandlerLabels, Actors, Write, insnVars, bufVars,
     fileVars, sigVars, At, Running, Goto, Return, HasRoom
<1>3. Crash'
  BY FileAssumption DEF TypeOK, Places, Crash, FlushLabels, Actors, Write, insnVars, bufVars,
     fileVars, sigVars, At, Running, Goto, Return, HasRoom
<1>4. Call'
  BY SMTT(60) DEF TypeOK, Places, Crash, Call, Spot, FlushLabels, TracerLabels, HandlerLabels,
     Actors, Write, insnVars, bufVars, fileVars, sigVars, At, Running, Goto, Return, HasRoom
<1>. QED
  BY <1>1, <1>2, <1>3, <1>4

LEMMA ResetBuilderControl ==
  ASSUME Control, NEW a \in Actors, ResetBuilder(a), ~Recursive
  PROVE  Control'
<1>. USE DEF Control
<1>1. TypeOK'
  BY FileAssumption DEF TypeOK, Actors, ResetBuilder, insnVars, bufVars, fileVars, sigVars, At,
     Running, Goto, Return
<1>2. Places'
  BY DEF Places, FlushLabels, TracerLabels, HandlerLabels, Actors, ResetBuilder, insnVars,
     bufVars, fileVars, sigVars, At, Running, Goto, Return
<1>3. Crash'
  BY FileAssumption DEF TypeOK, Places, Crash, FlushLabels, Actors, ResetBuilder, insnVars,
     bufVars, fileVars, sigVars, At, Running, Goto, Return
<1>4. Call'
  BY DEF TypeOK, Places, Crash, Call, Spot, FlushLabels, TracerLabels, HandlerLabels, Actors,
     ResetBuilder, insnVars, bufVars, fileVars, sigVars, At, Running, Goto, Return
<1>. QED
  BY <1>1, <1>2, <1>3, <1>4

LEMMA CompressControl ==
  ASSUME Control, NEW a \in Actors, Compress(a), ~Recursive
  PROVE  Control'
<1>. USE DEF Control
<1>1. TypeOK'
  BY FileAssumption DEF TypeOK, Actors, Compress, insnVars, bufVars, fileVars, sigVars, At,
     Running, Goto, Return
<1>2. Places'
  BY DEF Places, FlushLabels, TracerLabels, HandlerLabels, Actors, Compress, insnVars, bufVars,
     fileVars, sigVars, At, Running, Goto, Return
<1>3. Crash'
  BY FileAssumption, ZenonT(60) DEF TypeOK, Places, Crash, FlushLabels, Actors, Compress,
     insnVars, bufVars, fileVars, sigVars, At, Running, Goto, Return
<1>4. Call'
  BY ZenonT(60) DEF TypeOK, Places, Crash, Call, Spot, FlushLabels, TracerLabels, HandlerLabels,
     Actors, Compress, insnVars, bufVars, fileVars, sigVars, At, Running, Goto, Return
<1>. QED
  BY <1>1, <1>2, <1>3, <1>4

LEMMA WriteHeaderControl ==
  ASSUME Control, NEW a \in Actors, WriteHeader(a), ~Recursive
  PROVE  Control'
<1>. USE DEF Control
<1>1. TypeOK'
  <2>1. [kind |-> "header", frame |-> frame[a], orig |-> Len(bufs)] \in Pieces
    BY DEF TypeOK, Pieces
  <2>2. files' \in Seq(Seq(Pieces)) /\ files' # <<>>
    BY <2>1, EmitTyped DEF WriteHeader
  <2>. QED
    BY <2>2 DEF TypeOK, WriteHeader, insnVars, bufVars, fileVars, sigVars, At, Running, Goto, Return
<1>2. Places'
  BY DEF Places, FlushLabels, TracerLabels, HandlerLabels, Actors, WriteHeader, insnVars,
     bufVars, fileVars, sigVars, At, Running, Goto, Return
<1>3. Crash'
  BY FileAssumption DEF TypeOK, Places, Crash, FlushLabels, Actors, WriteHeader, insnVars,
     bufVars, fileVars, sigVars, At, Running, Goto, Return
<1>4. Call'
  BY DEF TypeOK, Places, Crash, Call, Spot, FlushLabels, TracerLabels, HandlerLabels, Actors,
     WriteHeader, insnVars, bufVars, fileVars, sigVars, At, Running, Goto, Return
<1>. QED
  BY <1>1, <1>2, <1>3, <1>4

LEMMA WriteBodyControl ==
  ASSUME Control, NEW a \in Actors, WriteBody(a), ~Recursive
  PROVE  Control'
<1>. USE DEF Control
<1>1. TypeOK'
  <2>1. [kind |-> "body", frame |-> comp_buf, orig |-> 0] \in Pieces
    BY DEF TypeOK, Pieces
  <2>2. files' \in Seq(Seq(Pieces)) /\ files' # <<>>
    BY <2>1, EmitTyped DEF WriteBody
  <2>. QED
    BY <2>2 DEF TypeOK, WriteBody, insnVars, bufVars, fileVars, sigVars, At, Running, Goto, Return
<1>2. Places'
  BY DEF Places, FlushLabels, TracerLabels, HandlerLabels, Actors, WriteBody, insnVars, bufVars,
     fileVars, sigVars, At, Running, Goto, Return
<1>3. Crash'
  BY FileAssumption DEF TypeOK, Places, Crash, FlushLabels, Actors, WriteBody, insnVars, bufVars,
     fileVars, sigVars, At, Running, Goto, Return
<1>4. Call'
  BY DEF TypeOK, Places, Crash, Call, Spot, FlushLabels, TracerLabels, HandlerLabels, Actors,
     WriteBody, insnVars, bufVars, fileVars, sigVars, At, Running, Goto, Return
<1>. QED
  BY <1>1, <1>2, <1>3, <1>4

LEMMA ResetPosControl ==
  ASSUME Control, NEW a \in Actors, ResetPos(a), ~Recursive
  PROVE  Control'
<1>. USE DEF Control
<1>1. TypeOK'
  BY FileAssumption DEF TypeOK, Actors, ResetPos, insnVars, bufVars, fileVars, sigVars, At,
     Running, Goto, Return, EmptyBuf
<1>2. Places'
  BY DEF Places, FlushLabels, TracerLabels, HandlerLabels, Actors, ResetPos, insnVars, bufVars,
     fileVars, sigVars, At, Running, Goto, Return, EmptyBuf
<1>3. Crash'
  BY FileAssumption DEF TypeOK, Places, Crash, FlushLabels, Actors, ResetPos, insnVars, bufVars,
     fileVars, sigVars, At, Running, Goto, Return, EmptyBuf
<1>4. Call'
  BY DEF TypeOK, Places, Crash, Call, Spot, FlushLabels, TracerLabels, HandlerLabels, Actors,
     ResetPos, insnVars, bufVars, fileVars, sigVars, At, Running, Goto, Return, EmptyBuf
<1>. QED
  BY <1>1, <1>2, <1>3, <1>4

LEMMA FlushLockControl ==
  ASSUME Control, NEW a \in Actors, FlushLock(a), ~Recursive
  PROVE  Control'
<1>. USE DEF Control
<1>1. TypeOK'
  BY FileAssumption DEF TypeOK, Actors, FlushLock, insnVars, bufVars, fileVars, sigVars, At,
     Running, Goto, Return
<1>2. Places'
  BY DEF Places, FlushLabels, TracerLabels, HandlerLabels, Actors, FlushLock, insnVars, bufVars,
     fileVars, sigVars, At, Running, Goto, Return
<1>3. Crash'
  BY FileAssumption DEF TypeOK, Places, Crash, FlushLabels, Actors, FlushLock, insnVars, bufVars,
     fileVars, sigVars, At, Running, Goto, Return
<1>4. Call'
  BY DEF TypeOK, Places, Crash, Call, Spot, FlushLabels, TracerLabels, HandlerLabels, Actors,
     FlushLock, insnVars, bufVars, fileVars, sigVars, At, Running, Goto, Return
<1>. QED
  BY <1>1, <1>2, <1>3, <1>4

LEMMA FlushHandoffControl ==
  ASSUME Control, NEW a \in Actors, FlushHandoff(a), ~Recursive
  PROVE  Control'
<1>. USE DEF Control
<1>1. TypeOK'
  <2>1. files' \in Seq(Seq(Pieces)) /\ files' # <<>>
    <3>1. PICK g : g = << [kind |-> "header", frame |-> bufs, orig |-> Len(bufs)],
                          [kind |-> "body", frame |-> bufs, orig |-> 0] >>
      OBVIOUS
    <3>2. g \in Seq(Pieces)
      BY <3>1 DEF TypeOK, Pieces
    <3>3. Len(files) \in Nat \ {0} /\ files[Len(files)] \in Seq(Pieces)
      BY DEF TypeOK
    <3>4. files[Len(files)] \o g \in Seq(Pieces)
      BY <3>2, <3>3
    <3>5. files' = [files EXCEPT ![Len(files)] = files[Len(files)] \o g]
      BY <3>1, Zenon DEF FlushHandoff
    <3>6. files' \in Seq(Seq(Pieces)) /\ Len(files') = Len(files)
      BY <3>3, <3>4, <3>5 DEF TypeOK
    <3>. QED
      BY <3>3, <3>6
  <2>. QED
    BY <2>1 DEF TypeOK, FlushHandoff, EmptyBuf, insnVars, sigVars
<1>2. Places'
  BY DEF Places, FlushLabels, TracerLabels, HandlerLabels, Actors, FlushHandoff, insnVars,
     bufVars, fileVars, sigVars, At, Running, Goto, Return, EmptyBuf
<1>3. Crash'
  BY FileAssumption DEF TypeOK, Places, Crash, FlushLabels, Actors, FlushHandoff, insnVars,
     bufVars, fileVars, sigVars, At, Running, Goto, Return, EmptyBuf
<1>4. Call'
  BY DEF TypeOK, Places, Crash, Call, Spot, FlushLabels, TracerLabels, HandlerLabels, Actors,
     FlushHandoff, insnVars, bufVars, fileVars, sigVars, At, Running, Goto, Return, EmptyBuf
<1>. QED
  BY <1>1, <1>2, <1>3, <1>4

LEMMA NextInsnControl ==
  ASSUME Control, NEW k \in Kinds, NextInsn(k), ~Recursive
  PROVE  Control'
<1>. USE DEF Control
<1>1. TypeOK'
  BY FileAssumption DEF TypeOK, Actors, NextInsn, insnVars, bufVars, fileVars, sigVars, At,
     Running, Goto, Return, FirstStep, Kinds
<1>2. Places'
  BY DEF Places, FlushLabels, TracerLabels, HandlerLabels, Actors, NextInsn, insnVars, bufVars,
     fileVars, sigVars, At, Running, Goto, Return, FirstStep, Kinds
<1>3. Crash'
  BY FileAssumption DEF TypeOK, Places, Crash, FlushLabels, Actors, NextInsn, insnVars, bufVars,
     fileVars, sigVars, At, Running, Goto, Return, FirstStep, Kinds
<1>4. Call'
  BY DEF TypeOK, Places, Crash, Call, Spot, FlushLabels, TracerLabels, HandlerLabels, Actors,
     NextInsn, insnVars, bufVars, fileVars, sigVars, At, Running, Goto, Return, FirstStep, Kinds
<1>. QED
  BY <1>1, <1>2, <1>3, <1>4

LEMMA ReopenControl ==
  ASSUME Control, Reopen, ~Recursive
  PROVE  Control'
<1>. USE DEF Control
<1>1. TypeOK'
  <2>1. files' \in Seq(Seq(Pieces)) /\ files' # <<>>
    <3>1. <<>> \in Seq(Pieces) /\ files \in Seq(Seq(Pieces)) /\ files' = Append(files, <<>>)
      BY DEF TypeOK, Reopen
    <3>. QED
      BY <3>1, AppendProperties
  <2>. QED
    BY <2>1 DEF TypeOK, Reopen, insnVars, sigVars
<1>2. Places'
  BY DEF Places, FlushLabels, TracerLabels, HandlerLabels, Actors, Reopen, insnVars, bufVars,
     fileVars, sigVars, At, Running, Goto, Return, FirstStep
<1>3. Crash'
  BY FileAssumption DEF TypeOK, Places, Crash, FlushLabels, Actors, Reopen, insnVars, bufVars,
     fileVars, sigVars, At, Running, Goto, Return, FirstStep
<1>4. Call'
  BY DEF TypeOK, Places, Crash, Call, Spot, FlushLabels, TracerLabels, HandlerLabels, Actors,
     Reopen, insnVars, bufVars, fileVars, sigVars, At, Running, Goto, Return, FirstStep
<1>. QED
  BY <1>1, <1>2, <1>3, <1>4

LEMMA AppendLineControl ==
  ASSUME Control, AppendLine, ~Recursive
  PROVE  Control'
<1>. USE DEF Control
<1>1. TypeOK'
  BY FileAssumption DEF TypeOK, Actors, AppendLine, insnVars, bufVars, fileVars, sigVars, At,
     Running, Goto, Return
<1>2. Places'
  BY DEF Places, FlushLabels, TracerLabels, HandlerLabels, Actors, AppendLine, insnVars, bufVars,
     fileVars, sigVars, At, Running, Goto, Return
<1>3. Crash'
  BY FileAssumption DEF TypeOK, Places, Crash, FlushLabels, Actors, AppendLine, insnVars,
     bufVars, fileVars, sigVars, At, Running, Goto, Return
<1>4. Call'
  BY DEF TypeOK, Places, Crash, Call, Spot, FlushLabels, TracerLabels, HandlerLabels, Actors,
     AppendLine, insnVars, bufVars, fileVars, sigVars, At, Running, Goto, Return
<1>. QED
  BY <1>1, <1>2, <1>3, <1>4

LEMMA AfterRetControl ==
  ASSUME Control, AfterRet, ~Recursive
  PROVE  Control'
<1>. USE DEF Control
<1>1. TypeOK'
  <2>1. depth \in Nat \ {0}
    BY DEF TypeOK, Call, Spot, FlushLabels, AfterRet, At
  <2>. QED
    BY <2>1 DEF TypeOK, AfterRet, bufVars, fileVars, sigVars
<1>2. Places'
  BY DEF Places, FlushLabels, TracerLabels, HandlerLabels, Actors, AfterRet, insnVars, bufVars,
     fileVars, sigVars, At, Running, Goto, Return, LeavesTarget
<1>3. Crash'
  BY FileAssumption DEF TypeOK, Places, Crash, FlushLabels, Actors, AfterRet, insnVars, bufVars,
     fileVars, sigVars, At, Running, Goto, Return, LeavesTarget
<1>4. Call'
  BY DEF TypeOK, Places, Crash, Call, Spot, FlushLabels, TracerLabels, HandlerLabels, Actors,
     AfterRet, insnVars, bufVars, fileVars, sigVars, At, Running, Goto, Return, LeavesTarget
<1>. QED
  BY <1>1, <1>2, <1>3, <1>4

LEMMA IntervalControl ==
  ASSUME Control, Interval, ~Recursive
  PROVE  Control'
<1>. USE DEF Control
<1>1. TypeOK'
  BY FileAssumption DEF TypeOK, Actors, Interval, insnVars, bufVars, fileVars, sigVars, At,
     Running, Goto, Return
<1>2. Places'
  BY DEF Places, FlushLabels, TracerLabels, HandlerLabels, Actors, Interval, insnVars, bufVars,
     fileVars, sigVars, At, Running, Goto, Return
<1>3. Crash'
  BY FileAssumption DEF TypeOK, Places, Crash, FlushLabels, Actors, Interval, insnVars, bufVars,
     fileVars, sigVars, At, Running, Goto, Return
<1>4. Call'
  BY DEF TypeOK, Places, Crash, Call, Spot, FlushLabels, TracerLabels, HandlerLabels, Actors,
     Interval, insnVars, bufVars, fileVars, sigVars, At, Running, Goto, Return
<1>. QED
  BY <1>1, <1>2, <1>3, <1>4

LEMMA SignalControl ==
  ASSUME Control, NEW where \in Where, Signal(where), ~Recursive
  PROVE  Control'
<1>. USE DEF Control
<1>1. TypeOK'
  BY FileAssumption DEF TypeOK, Actors, Signal, insnVars, bufVars, fileVars, sigVars, At,
     Running, Goto, Return
<1>2. Places'
  BY DEF Places, FlushLabels, TracerLabels, HandlerLabels, Actors, Signal, insnVars, bufVars,
     fileVars, sigVars, At, Running, Goto, Return
<1>3. Crash'
  BY FileAssumption DEF TypeOK, Places, Crash, FlushLabels, Actors, Signal, insnVars, bufVars,
     fileVars, sigVars, At, Running, Goto, Return
<1>4. Call'
  BY DEF TypeOK, Places, Crash, Call, Spot, FlushLabels, TracerLabels, HandlerLabels, Actors,
     Signal, insnVars, bufVars, fileVars, sigVars, At, Running, Goto, Return
<1>. QED
  BY <1>1, <1>2, <1>3, <1>4

LEMMA SalvageControl ==
  ASSUME Control, Salvage, ~Recursive
  PROVE  Control'
<1>. USE DEF Control
<1>1. TypeOK'
  BY FileAssumption DEF TypeOK, Actors, Salvage, insnVars, bufVars, fileVars, sigVars, At,
     Running, Goto, Return
<1>2. Places'
  BY DEF Places, FlushLabels, TracerLabels, HandlerLabels, Actors, Salvage, insnVars, bufVars,
     fileVars, sigVars, At, Running, Goto, Return
<1>3. Crash'
  BY FileAssumption DEF TypeOK, Places, Crash, FlushLabels, Actors, Salvage, insnVars, bufVars,
     fileVars, sigVars, At, Running, Goto, Return
<1>4. Call'
  BY DEF TypeOK, Places, Crash, Call, Spot, FlushLabels, TracerLabels, HandlerLabels, Actors,
     Salvage, insnVars, bufVars, fileVars, sigVars, At, Running, Goto, Return
<1>. QED
  BY <1>1, <1>2, <1>3, <1>4

LEMMA CloseFdControl ==
  ASSUME Control, CloseFd, ~Recursive
  PROVE  Control'
<1>. USE DEF Control
<1>1. TypeOK'
  BY FileAssumption DEF TypeOK, Actors, CloseFd, insnVars, bufVars, fileVars, sigVars, At,
     Running, Goto, Return
<1>2. Places'
  BY DEF Places, FlushLabels, TracerLabels, HandlerLabels, Actors, CloseFd, insnVars, bufVars,
     fileVars, sigVars, At, Running, Goto, Return
<1>3. Crash'
  BY FileAssumption DEF TypeOK, Places, Crash, FlushLabels, Actors, CloseFd, insnVars, bufVars,
     fileVars, sigVars, At, Running, Goto, Return
<1>4. Call'
  BY DEF TypeOK, Places, Crash, Call, Spot, FlushLabels, TracerLabels, HandlerLabels, Actors,
     CloseFd, insnVars, bufVars, fileVars, sigVars, At, Running, Goto, Return
<1>. QED
  BY <1>1, <1>2, <1>3, <1>4

LEMMA ChainControl ==
  ASSUME Control, Chain, ~Recursive
  PROVE  Control'
<1>. USE DEF Control
<1>1. TypeOK'
  BY FileAssumption DEF TypeOK, Actors, Chain, insnVars, bufVars, fileVars, sigVars, At, Running,
     Goto, Return
<1>2. Places'
  BY DEF Places, FlushLabels, TracerLabels, HandlerLabels, Actors, Chain, insnVars, bufVars,
     fileVars, sigVars, At, Running, Goto, Return
<1>3. Crash'
  BY FileAssumption DEF TypeOK, Places, Crash, FlushLabels, Actors, Chain, insnVars, bufVars,
     fileVars, sigVars, At, Running, Goto, Return
<1>4. Call'
  BY DEF TypeOK, Places, Crash, Call, Spot, FlushLabels, TracerLabels, HandlerLabels, Actors,
     Chain, insnVars, bufVars, fileVars, sigVars, At, Running, Goto, Return
<1>. QED
  BY <1>1, <1>2, <1>3, <1>4

-----------------------------------------------------------------------------
(* What the steps do to the files.                                         *)

LEMMA DecodedIsText == Decoded = Text(files)
  BY Zenon DEF Decoded, Text

LEMMA DecodedTyped ==
  ASSUME TypeOK
  PROVE  Decoded \in Seq(Nat)
<1>1. files \in Seq(Seq(Pieces)) /\ <<>> \in Seq(Pieces)
  BY DEF TypeOK
<1>. QED
  BY <1>1, TextAppend, DecodedIsText, Zenon

LEMMA DecodedKept ==
  ASSUME files' = files
  PROVE  Decoded' = Decoded /\ Output' = Output
  BY DEF Decoded, Output

\* The open file changes.
LEMMA OutputGrows ==
  ASSUME TypeOK, NEW file \in Seq(Pieces), NEW t \in Seq(Nat),
         files' = [files EXCEPT ![Len(files)] = file],
         decode_frames(file) = decode_frames(Output) \o t
  PROVE  Output' = file /\ Decoded' = Decoded \o t
<1>1. files \in Seq(Seq(Pieces)) /\ files # <<>> /\ Len(files) \in Nat \ {0}
  BY DEF TypeOK
<1>2. Len(files') = Len(files) /\ Output' = file
  BY <1>1 DEF Output
<1>3. Text([files EXCEPT ![Len(files)] = file]) = Text(files) \o t
  BY <1>1, TextGrows, Zenon DEF Output
<1>4. Decoded' = Text(files')
  BY Zenon DEF Decoded, Text
<1>. QED
  BY <1>2, <1>3, <1>4, DecodedIsText, Zenon

\* ... by one piece.
LEMMA Emitted ==
  ASSUME TypeOK, fd, NEW p \in Pieces, Emit(p), NEW t \in Seq(Nat),
         decode_frames(Append(Output, p)) = decode_frames(Output) \o t
  PROVE  Output' = Append(Output, p) /\ Decoded' = Decoded \o t
<1>1. files' = [files EXCEPT ![Len(files)] = Append(Output, p)]
  BY Zenon DEF Emit, Output
<1>2. Output \in Seq(Pieces)
  BY DEF TypeOK, Output
<1>3. Append(Output, p) \in Seq(Pieces)
  BY <1>2
<1>. QED
  BY <1>1, <1>3, OutputGrows, Zenon

LEMMA EmittedNothing ==
  ASSUME TypeOK, fd, NEW p \in Pieces, Emit(p),
         decode_frames(Append(Output, p)) = decode_frames(Output)
  PROVE  Output' = Append(Output, p) /\ Decoded' = Decoded
<1>1. Output \in Seq(Pieces)
  BY DEF TypeOK, Output
<1>2. decode_frames(Output) \in Seq(Nat) /\ <<>> \in Seq(Nat) /\ Decoded \in Seq(Nat)
  BY <1>1, DecodeTyped, DecodedTyped
<1>3. decode_frames(Output) \o <<>> = decode_frames(Output) /\ Decoded \o <<>> = Decoded
  BY <1>2
<1>4. Output' = Append(Output, p) /\ Decoded' = Decoded \o <<>>
  BY <1>2, <1>3, Emitted, Zenon
<1>. QED
  BY <1>3, <1>4

LEMMA HeaderOut ==
  ASSUME TypeOK, fd, NEW a \in Actors, WriteHeader(a)
  PROVE  /\ Whole(Output) => /\ Open(Output') /\ Decoded' = Decoded
                             /\ frame[a] = bufs => Output'[Len(Output')] = Header(bufs)
         /\ Open(Output) \/ Torn(Output) => Torn(Output') /\ Decoded' = Decoded
<1>1. PICK p : p = [kind |-> "header", frame |-> frame[a], orig |-> Len(bufs)]
  OBVIOUS
<1>2. p \in Pieces /\ p.kind = "header" /\ (frame[a] = bufs => p = Header(bufs)) /\ Emit(p)
  BY <1>1 DEF TypeOK, Pieces, Header, WriteHeader
<1>3. Output \in Seq(Pieces)
  BY DEF TypeOK, Output
<1>4. ASSUME Whole(Output)
      PROVE  /\ Open(Output') /\ Decoded' = Decoded
             /\ frame[a] = bufs => Output'[Len(Output')] = Header(bufs)
  <2>1. Output' = Append(Output, p) /\ Decoded' = Decoded /\ Open(Append(Output, p))
    BY <1>2, <1>3, <1>4, HeaderAppended, EmittedNothing, Zenon
  <2>2. Output'[Len(Output')] = p
    BY <1>2, <1>3, <2>1
  <2>. QED
    BY <1>2, <2>1, <2>2
<1>5. ASSUME Open(Output)
      PROVE  Torn(Output') /\ Decoded' = Decoded
  <2>1. Output' = Append(Output, p) /\ Decoded' = Decoded /\ Torn(Append(Output, p))
    BY <1>2, <1>3, <1>5, HeaderTwice, EmittedNothing, Zenon
  <2>. QED
    BY <2>1
<1>6. ASSUME Torn(Output)
      PROVE  Torn(Output') /\ Decoded' = Decoded
  <2>1. Output' = Append(Output, p) /\ Decoded' = Decoded /\ Torn(Append(Output, p))
    BY <1>2, <1>3, <1>6, TornAppended, EmittedNothing, Zenon
  <2>. QED
    BY <2>1
<1>. QED
  BY <1>4, <1>5, <1>6, Zenon

LEMMA BodyOut ==
  ASSUME TypeOK, fd, NEW a \in Actors, WriteBody(a)
  PROVE  /\ Open(Output) /\ Output[Len(Output)] = Header(comp_buf) =>
              Whole(Output') /\ Decoded' = Decoded \o comp_buf
         /\ Torn(Output) => Torn(Output') /\ Decoded' = Decoded
<1>1. PICK p : p = Body(comp_buf)
  OBVIOUS
<1>2. p \in Pieces /\ Emit(p) /\ comp_buf \in Seq(Nat)
  BY <1>1 DEF TypeOK, Pieces, Body, WriteBody
<1>3. Output \in Seq(Pieces)
  BY DEF TypeOK, Output
<1>4. ASSUME Open(Output), Output[Len(Output)] = Header(comp_buf)
      PROVE  Whole(Output') /\ Decoded' = Decoded \o comp_buf
  <2>1. Whole(Append(Output, p))
        /\ decode_frames(Append(Output, p)) = decode_frames(Output) \o comp_buf
    BY <1>1, <1>2, <1>3, <1>4, BodyAppended, Zenon
  <2>2. Output' = Append(Output, p) /\ Decoded' = Decoded \o comp_buf
    BY <1>2, <2>1, Emitted, Zenon
  <2>. QED
    BY <2>1, <2>2
<1>5. ASSUME Torn(Output)
      PROVE  Torn(Output') /\ Decoded' = Decoded
  <2>1. Output' = Append(Output, p) /\ Decoded' = Decoded /\ Torn(Append(Output, p))
    BY <1>2, <1>3, <1>5, TornAppended, EmittedNothing, Zenon
  <2>. QED
    BY <2>1
<1>. QED
  BY <1>4, <1>5, Zenon

LEMMA HandedOff ==
  ASSUME TypeOK, NEW a \in Actors, FlushHandoff(a)
  PROVE  /\ Whole(Output) => Whole(Output') /\ Decoded' = Decoded \o bufs
         /\ Torn(Output) => Torn(Output') /\ Decoded' = Decoded
<1>1. PICK h : h = Header(bufs)
  OBVIOUS
<1>2. PICK b : b = Body(bufs)
  OBVIOUS
<1>3. h \in Pieces /\ b \in Pieces /\ bufs \in Seq(Nat)
  BY <1>1, <1>2 DEF TypeOK, Pieces, Body, Header
<1>4. Output \in Seq(Pieces)
  BY DEF TypeOK, Output
<1>5. PICK f : f = Append(Output, h)
  OBVIOUS
<1>6. f \in Seq(Pieces) /\ f[Len(f)] = h
  BY <1>3, <1>4, <1>5
<1>7. PICK g : g = Append(f, b)
  OBVIOUS
<1>8. g \in Seq(Pieces)
  BY <1>3, <1>6, <1>7
<1>9. files' = [files EXCEPT ![Len(files)] = g]
  <2>1. files' = [files EXCEPT ![Len(files)] = Output \o <<h, b>>]
    BY <1>1, <1>2, Zenon DEF FlushHandoff, Header, Body, Output
  <2>2. Output \o <<h, b>> = g
    BY <1>3, <1>4, <1>5, <1>7
  <2>. QED
    BY <2>1, <2>2
<1>10. ASSUME Whole(Output)
       PROVE  Whole(Output') /\ Decoded' = Decoded \o bufs
  <2>1. Open(f) /\ decode_frames(f) = decode_frames(Output)
    BY <1>3, <1>4, <1>5, <1>10, HeaderAppended, Zenon
  <2>2. Whole(g) /\ decode_frames(g) = decode_frames(f) \o bufs
    BY <1>1, <1>2, <1>3, <1>6, <1>7, <2>1, BodyAppended, Zenon
  <2>3. Output' = g /\ Decoded' = Decoded \o bufs
    BY <1>3, <1>8, <1>9, <2>1, <2>2, OutputGrows, Zenon
  <2>. QED
    BY <2>2, <2>3
<1>11. ASSUME Torn(Output)
       PROVE  Torn(Output') /\ Decoded' = Decoded
  <2>1. Torn(f) /\ decode_frames(f) = decode_frames(Output)
    BY <1>3, <1>4, <1>5, <1>11, TornAppended, Zenon
  <2>2. Torn(g) /\ decode_frames(g) = decode_frames(f)
    BY <1>3, <1>6, <1>7, <2>1, TornAppended, Zenon
  <2>3. decode_frames(Output) \in Seq(Nat) /\ <<>> \in Seq(Nat) /\ Decoded \in Seq(Nat)
    BY <1>4, DecodeTyped, DecodedTyped
  <2>4. decode_frames(Output) \o <<>> = decode_frames(Output) /\ Decoded \o <<>> = Decoded
    BY <2>3
  <2>5. Output' = g /\ Decoded' = Decoded \o <<>>
    BY <1>8, <1>9, <2>1, <2>2, <2>3, <2>4, OutputGrows, Zenon
  <2>. QED
    BY <2>2, <2>4, <2>5
<1>. QED
  BY <1>10, <1>11, Zenon

LEMMA FileOpened ==
  ASSUME TypeOK, Reopen
  PROVE  Whole(Output') /\ Decoded' = Decoded
<1>1. files \in Seq(Seq(Pieces)) /\ files' = Append(files, <<>>) /\ <<>> \in Seq(Pieces)
  BY DEF TypeOK, Reopen
<1>2. Output' = <<>>
  BY <1>1 DEF Output
<1>3. Text(files) \in Seq(Nat) /\ Text(files') = Text(files) \o <<>>
  BY <1>1, TextAppend, EmptyFile
<1>4. Text(files) \o <<>> = Text(files)
  BY <1>3
<1>5. Decoded' = Text(files')
  BY Zenon DEF Decoded, Text
<1>. QED
  BY <1>2, <1>3, <1>4, <1>5, EmptyFile, DecodedIsText

-----------------------------------------------------------------------------
(* Lines as sets.                                                          *)

LEMMA ToSetConcat ==
  ASSUME NEW s \in Seq(Nat), NEW t \in Seq(Nat)
  PROVE  ToSet(s \o t) = ToSet(s) \cup ToSet(t)
<1>1. PICK u : u = s \o t
  OBVIOUS
<1>2. Len(s) \in Nat /\ Len(t) \in Nat /\ u \in Seq(Nat) /\ Len(u) = Len(s) + Len(t)
  BY <1>1
<1>3. \A i \in 1..Len(s) : i \in 1..Len(u) /\ u[i] = s[i]
  BY <1>1, <1>2
<1>4. \A i \in 1..Len(t) : i + Len(s) \in 1..Len(u) /\ u[i + Len(s)] = t[i]
  BY <1>1, <1>2
<1>5. \A i \in 1..Len(u) : i \in 1..Len(s) \/ \E j \in 1..Len(t) : i = j + Len(s)
  <2>1. \A i \in 1..Len(u) : i \notin 1..Len(s) => i - Len(s) \in 1..Len(t) /\ i = (i - Len(s)) + Len(s)
    BY <1>2
  <2>. QED
    BY <2>1
<1>6. DOMAIN u = 1..Len(u) /\ DOMAIN s = 1..Len(s) /\ DOMAIN t = 1..Len(t)
  BY <1>2
<1>7. ToSet(u) \subseteq ToSet(s) \cup ToSet(t)
  <2>1. SUFFICES ASSUME NEW i \in 1..Len(u) PROVE u[i] \in ToSet(s) \cup ToSet(t)
    BY <1>6, Zenon DEF ToSet
  <2>2. CASE i \in 1..Len(s)
    BY <1>3, <1>6, <2>2, Zenon DEF ToSet
  <2>3. CASE \E j \in 1..Len(t) : i = j + Len(s)
    BY <1>4, <1>6, <2>3, Zenon DEF ToSet
  <2>. QED
    BY <1>5, <2>2, <2>3, Zenon
<1>8. ToSet(s) \subseteq ToSet(u) /\ ToSet(t) \subseteq ToSet(u)
  BY <1>3, <1>4, <1>6, Zenon DEF ToSet
<1>. QED
  BY <1>1, <1>7, <1>8, Zenon

LEMMA ToSetSmall ==
  /\ ToSet(<<>>) = {}
  /\ \A x : ToSet(<<x>>) = {x}
<1>1. ToSet(<<>>) = {}
  BY DEF ToSet
<1>2. ASSUME NEW x PROVE ToSet(<<x>>) = {x}
  <2>1. DOMAIN <<x>> = {1} /\ <<x>>[1] = x
    OBVIOUS
  <2>. QED
    BY <2>1, Zenon DEF ToSet
<1>. QED
  BY <1>1, <1>2

LEMMA ToSetUpto ==
  ASSUME NEW n \in Nat
  PROVE  ToSet(Upto(n)) = 1..n
<1>1. PICK u : u = [i \in 1..n |-> i]
  OBVIOUS
<1>2. DOMAIN u = 1..n /\ \A i \in 1..n : u[i] = i
  BY <1>1, Zenon
<1>3. ToSet(u) = 1..n
  BY <1>2, Zenon DEF ToSet
<1>. QED
  BY <1>1, <1>3, Zenon DEF Upto

\* A beginning of the text is the text of a beginning.
LEMMA UptoPrefix ==
  ASSUME NEW n \in Nat, NEW s \in Seq(Nat), NEW t \in Seq(Nat), s \o t = Upto(n)
  PROVE  Len(s) \in 0..n /\ s = Upto(Len(s)) /\ ToSet(s) = 1..Len(s)
<1>1. PICK u : u = s \o t
  OBVIOUS
<1>2. Len(u) = n /\ \A i \in 1..n : u[i] = i
  BY <1>1 DEF Upto
<1>3. Len(s) \in Nat /\ Len(t) \in Nat /\ Len(u) = Len(s) + Len(t)
      /\ \A i \in 1..Len(s) : u[i] = s[i]
  BY <1>1
<1>4. Len(s) \in 0..n
  BY <1>2, <1>3
<1>5. \A i \in 1..Len(s) : s[i] = i
  BY <1>2, <1>3
<1>6. s = Upto(Len(s))
  BY <1>3, <1>5 DEF Upto
<1>. QED
  BY <1>3, <1>4, <1>6, ToSetUpto

-----------------------------------------------------------------------------
(* The text, before a signal and after one in the traced code.             *)

LEMMA WhoRuns ==
  ASSUME Control, Quiet, NEW a \in Actors, Running(a), pc[a] # "off"
  PROVE  /\ Actor = a
         /\ a = "tracer" => pc["handler"] = "off"
         /\ a = "handler" => pc["tracer"] = "guest" /\ hit = "guest"
  BY DEF Control, Crash, Quiet, Actor, Actors, Running, TypeOK

LEMMA SeqFacts ==
  ASSUME Control, NEW a \in Actors
  PROVE  /\ Decoded \in Seq(Nat) /\ bufs \in Seq(Nat) /\ stringBuilder \in Nat /\ insns \in Nat
         /\ Unsent(a) \in Seq(Nat) /\ Pending(a) \in Seq(Nat)
<1>1. TypeOK
  BY DEF Control
<1>. QED
  BY <1>1, DecodedTyped DEF TypeOK, Unsent, Pending

LEMMA WriteExact ==
  ASSUME Control, Quiet, NEW a \in Actors, Exact(a), Write(a)
  PROVE  Exact(a)'
<1>1. /\ Actor = a
      /\ a = "tracer" => pc["handler"] = "off"
      /\ a = "handler" => pc["tracer"] = "guest" /\ hit = "guest"
  BY WhoRuns DEF Write, At
<1>2. TypeOK /\ Decoded \in Seq(Nat) /\ bufs \in Seq(Nat) /\ stringBuilder \in Nat /\ insns \in Nat
  BY SeqFacts DEF Control
<1>3. Decoded' = Decoded /\ Output' = Output
  BY DecodedKept DEF Write, fileVars
<1>4. FdOpen'
  BY <1>1 DEF FdOpen, Control, Places, Crash, TypeOK, Exact, Write, insnVars, bufVars, fileVars,
     sigVars, At, Running, Goto, Return, Actors, FlushLabels, HasRoom
<1>5. InOrder(a)'
  BY <1>1, <1>3 DEF InOrder, Control, Places, Crash, TypeOK, Exact, Write, insnVars, bufVars,
     fileVars, sigVars, At, Running, Goto, Return, Actors, FlushLabels, HasRoom
<1>6. (Decoded \o (Unsent(a) \o Pending(a)) = Upto(insns))'
  <2>1. Unsent(a) = bufs /\ insns' = insns
        /\ Pending(a) = IF stringBuilder = 0 THEN <<>> ELSE <<stringBuilder>>
    BY DEF Unsent, Pending, Write, insnVars
  <2>2. Unsent(a)' \o Pending(a)' = Unsent(a) \o Pending(a)
    <3>1. CASE HasRoom
      <4>1. pc'[a] \in {"reset", "reset_ret"} /\ bufs' = bufs \o Pending(a)
        <5>1. bufs \o <<stringBuilder>> = Append(bufs, stringBuilder) /\ bufs \o <<>> = bufs
          BY <1>2
        <5>. QED
          BY <2>1, <3>1, <5>1 DEF Control, Places, Write, Goto
      <4>2. Unsent(a)' = bufs' /\ Pending(a)' = <<>>
        BY <4>1 DEF Unsent, Pending
      <4>3. bufs \o Pending(a) \in Seq(Nat)
        BY <1>2, SeqFacts
      <4>. QED
        BY <2>1, <4>1, <4>2, <4>3
    <3>2. CASE ~HasRoom
      <4>1. pc'[a] = "flush" /\ bufs' = bufs /\ stringBuilder' = stringBuilder
        BY <3>2 DEF Control, Places, Write, Goto
      <4>. QED
        BY <2>1, <4>1 DEF Unsent, Pending
    <3>. QED
      BY <3>1, <3>2
  <2>. QED
    BY <1>3, <2>1, <2>2 DEF Exact, Upto
<1>7. (/\ pc[a] = "pos" => ToSet(bufs) \subseteq ToSet(Decoded)
       /\ pc[a] \in {"reset", "reset_ret"} /\ stringBuilder # 0 => stringBuilder \in ToSet(bufs))'
  <2>1. CASE HasRoom
    <3>1. pc'[a] \in {"reset", "reset_ret"} /\ stringBuilder' = stringBuilder
          /\ bufs' = IF stringBuilder = 0 THEN bufs ELSE Append(bufs, stringBuilder)
      BY <2>1 DEF Control, Places, Write, Goto
    <3>2. stringBuilder # 0 => stringBuilder \in ToSet(Append(bufs, stringBuilder))
      <4>1. PICK b : b = Append(bufs, stringBuilder)
        OBVIOUS
      <4>2. Len(bufs) + 1 \in DOMAIN b /\ b[Len(bufs) + 1] = stringBuilder
        BY <1>2, <4>1
      <4>. QED
        BY <4>1, <4>2, Zenon DEF ToSet
    <3>. QED
      BY <3>1, <3>2
  <2>2. CASE ~HasRoom
    BY <2>2 DEF Control, Places, Write, Goto
  <2>. QED
    BY <2>1, <2>2
<1>8. (/\ pc["tracer"] = "reopen" => bufs = <<>>
       /\ pc["handler"] \in {"close", "chain"} /\ ~bg_running => bufs = <<>>)'
  BY <1>1 DEF Control, Places, Crash, TypeOK, Exact, Write, insnVars, bufVars, fileVars, sigVars,
     At, Running, Goto, Return, Actors, FlushLabels, HasRoom
<1>. QED
  BY <1>4, <1>5, <1>6, <1>7, <1>8 DEF Exact

LEMMA ResetBuilderExact ==
  ASSUME Control, Quiet, NEW a \in Actors, Exact(a), ResetBuilder(a)
  PROVE  Exact(a)'
<1>1. /\ Actor = a
      /\ a = "tracer" => pc["handler"] = "off"
      /\ a = "handler" => pc["tracer"] = "guest" /\ hit = "guest"
  BY WhoRuns DEF ResetBuilder, At
<1>2. TypeOK /\ Decoded \in Seq(Nat) /\ bufs \in Seq(Nat) /\ stringBuilder \in Nat /\ insns \in Nat
  BY SeqFacts DEF Control
<1>3. Decoded' = Decoded /\ Output' = Output
  BY DecodedKept DEF ResetBuilder, fileVars
<1>4. FdOpen'
  BY <1>1 DEF FdOpen, Control, Places, Crash, TypeOK, Exact, ResetBuilder, insnVars, bufVars,
     fileVars, sigVars, At, Running, Goto, Return, Actors, FlushLabels
<1>5. InOrder(a)'
  BY <1>1, <1>3 DEF InOrder, Control, Places, Crash, TypeOK, Exact, ResetBuilder, insnVars,
     bufVars, fileVars, sigVars, At, Running, Goto, Return, Actors, FlushLabels
<1>6. (Decoded \o (Unsent(a) \o Pending(a)) = Upto(insns))'
  <2>1. Unsent(a)' = Unsent(a) /\ Pending(a)' = Pending(a) /\ insns' = insns
    BY <1>1 DEF Unsent, Pending, Control, Places, ResetBuilder, Goto, Actors, insnVars, bufVars
  <2>. QED
    BY <1>3, <2>1 DEF Exact, Upto
<1>7. (/\ pc[a] = "pos" => ToSet(bufs) \subseteq ToSet(Decoded)
       /\ pc[a] \in {"reset", "reset_ret"} /\ stringBuilder # 0 => stringBuilder \in ToSet(bufs))'
  BY <1>1, <1>3 DEF Control, Places, Crash, TypeOK, Exact, ResetBuilder, insnVars, bufVars,
     fileVars, sigVars, At, Running, Goto, Return, Actors, FlushLabels
<1>8. (/\ pc["tracer"] = "reopen" => bufs = <<>>
       /\ pc["handler"] \in {"close", "chain"} /\ ~bg_running => bufs = <<>>)'
  BY <1>1 DEF Control, Places, Crash, TypeOK, Exact, ResetBuilder, insnVars, bufVars, fileVars,
     sigVars, At, Running, Goto, Return, Actors, FlushLabels
<1>. QED
  BY <1>4, <1>5, <1>6, <1>7, <1>8 DEF Exact

LEMMA CompressExact ==
  ASSUME Control, Quiet, NEW a \in Actors, Exact(a), Compress(a)
  PROVE  Exact(a)'
<1>1. /\ Actor = a
      /\ a = "tracer" => pc["handler"] = "off"
      /\ a = "handler" => pc["tracer"] = "guest" /\ hit = "guest"
  BY WhoRuns DEF Compress, At
<1>2. TypeOK /\ Decoded \in Seq(Nat) /\ bufs \in Seq(Nat) /\ stringBuilder \in Nat /\ insns \in Nat
  BY SeqFacts DEF Control
<1>3. Decoded' = Decoded /\ Output' = Output
  BY DecodedKept DEF Compress, fileVars
<1>4. FdOpen'
  BY <1>1 DEF FdOpen, Control, Places, Crash, TypeOK, Exact, Compress, insnVars, bufVars,
     fileVars, sigVars, At, Running, Goto, Return, Actors, FlushLabels
<1>5. InOrder(a)'
  BY <1>1, <1>3 DEF InOrder, Control, Places, Crash, TypeOK, Exact, Compress, insnVars, bufVars,
     fileVars, sigVars, At, Running, Goto, Return, Actors, FlushLabels
<1>6. (Decoded \o (Unsent(a) \o Pending(a)) = Upto(insns))'
  <2>1. Unsent(a)' = Unsent(a) /\ Pending(a)' = Pending(a) /\ insns' = insns
    BY <1>1 DEF Unsent, Pending, Exact, Control, Places, TypeOK, Compress, At, Running, Goto,
       Return, Actors, FlushLabels, insnVars, bufVars
  <2>. QED
    BY <1>3, <2>1 DEF Exact, Upto
<1>7. (/\ pc[a] = "pos" => ToSet(bufs) \subseteq ToSet(Decoded)
       /\ pc[a] \in {"reset", "reset_ret"} /\ stringBuilder # 0 => stringBuilder \in ToSet(bufs))'
  BY <1>1, <1>3 DEF Control, Places, Crash, TypeOK, Exact, Compress, insnVars, bufVars, fileVars,
     sigVars, At, Running, Goto, Return, Actors, FlushLabels
<1>8. (/\ pc["tracer"] = "reopen" => bufs = <<>>
       /\ pc["handler"] \in {"close", "chain"} /\ ~bg_running => bufs = <<>>)'
  BY <1>1 DEF Control, Places, Crash, TypeOK, Exact, Compress, insnVars, bufVars, fileVars,
     sigVars, At, Running, Goto, Return, Actors, FlushLabels
<1>. QED
  BY <1>4, <1>5, <1>6, <1>7, <1>8 DEF Exact

LEMMA WriteHeaderExact ==
  ASSUME Control, Quiet, NEW a \in Actors, Exact(a), WriteHeader(a)
  PROVE  Exact(a)'
<1>1. /\ Actor = a
      /\ a = "tracer" => pc["handler"] = "off"
      /\ a = "handler" => pc["tracer"] = "guest" /\ hit = "guest"
  BY WhoRuns DEF WriteHeader, At
<1>2. TypeOK /\ Decoded \in Seq(Nat) /\ bufs \in Seq(Nat) /\ stringBuilder \in Nat /\ insns \in Nat
  BY SeqFacts DEF Control
<1>3. Open(Output') /\ Decoded' = Decoded /\ Output'[Len(Output')] = Header(bufs)
  <2>1. fd /\ Whole(Output) /\ frame[a] = bufs
    BY <1>1 DEF Exact, FdOpen, InOrder, WriteHeader, At, Actors
  <2>. QED
    BY <1>2, <2>1, HeaderOut
<1>4. FdOpen'
  BY <1>1 DEF FdOpen, Control, Places, Crash, TypeOK, Exact, WriteHeader, insnVars, bufVars,
     fileVars, sigVars, At, Running, Goto, Return, Actors, FlushLabels
<1>5. InOrder(a)'
  BY <1>1, <1>3 DEF InOrder, Control, Places, Crash, TypeOK, Exact, WriteHeader, insnVars,
     bufVars, fileVars, sigVars, At, Running, Goto, Return, Actors, FlushLabels
<1>6. (Decoded \o (Unsent(a) \o Pending(a)) = Upto(insns))'
  <2>1. Unsent(a)' = Unsent(a) /\ Pending(a)' = Pending(a) /\ insns' = insns
    BY <1>1 DEF Unsent, Pending, Exact, Control, Places, TypeOK, WriteHeader, At, Running, Goto,
       Return, Actors, FlushLabels, insnVars, bufVars
  <2>. QED
    BY <1>3, <2>1 DEF Exact, Upto
<1>7. (/\ pc[a] = "pos" => ToSet(bufs) \subseteq ToSet(Decoded)
       /\ pc[a] \in {"reset", "reset_ret"} /\ stringBuilder # 0 => stringBuilder \in ToSet(bufs))'
  BY <1>1, <1>3 DEF Control, Places, Crash, TypeOK, Exact, WriteHeader, insnVars, bufVars,
     fileVars, sigVars, At, Running, Goto, Return, Actors, FlushLabels
<1>8. (/\ pc["tracer"] = "reopen" => bufs = <<>>
       /\ pc["handler"] \in {"close", "chain"} /\ ~bg_running => bufs = <<>>)'
  BY <1>1 DEF Control, Places, Crash, TypeOK, Exact, WriteHeader, insnVars, bufVars, fileVars,
     sigVars, At, Running, Goto, Return, Actors, FlushLabels
<1>. QED
  BY <1>4, <1>5, <1>6, <1>7, <1>8 DEF Exact

LEMMA WriteBodyExact ==
  ASSUME Control, Quiet, NEW a \in Actors, Exact(a), WriteBody(a)
  PROVE  Exact(a)'
<1>1. /\ Actor = a
      /\ a = "tracer" => pc["handler"] = "off"
      /\ a = "handler" => pc["tracer"] = "guest" /\ hit = "guest"
  BY WhoRuns DEF WriteBody, At
<1>2. TypeOK /\ Decoded \in Seq(Nat) /\ bufs \in Seq(Nat) /\ stringBuilder \in Nat /\ insns \in Nat
  BY SeqFacts DEF Control
<1>3. Whole(Output') /\ Decoded' = Decoded \o bufs
  <2>1. fd /\ Open(Output) /\ Output[Len(Output)] = Header(bufs) /\ comp_buf = bufs
    BY <1>1 DEF Exact, FdOpen, InOrder, WriteBody, At, Actors
  <2>. QED
    BY <1>2, <2>1, BodyOut
<1>4. FdOpen'
  BY <1>1 DEF FdOpen, Control, Places, Crash, TypeOK, Exact, WriteBody, insnVars, bufVars,
     fileVars, sigVars, At, Running, Goto, Return, Actors, FlushLabels
<1>5. InOrder(a)'
  BY <1>1, <1>3 DEF InOrder, Control, Places, Crash, TypeOK, Exact, WriteBody, insnVars, bufVars,
     fileVars, sigVars, At, Running, Goto, Return, Actors, FlushLabels
<1>6. (Decoded \o (Unsent(a) \o Pending(a)) = Upto(insns))'
  <2>1. Unsent(a) = bufs /\ Unsent(a)' = <<>> /\ Pending(a)' = Pending(a) /\ insns' = insns
    BY DEF Unsent, Pending, Control, Places, WriteBody, At, Goto, insnVars, bufVars
  <2>2. Pending(a) \in Seq(Nat)
    BY SeqFacts
  <2>3. (Decoded \o bufs) \o (<<>> \o Pending(a)) = Decoded \o (bufs \o Pending(a))
    BY <1>2, <2>2, SMTT(60)
  <2>. QED
    BY <1>3, <2>1, <2>3 DEF Exact, Upto
<1>7. (/\ pc[a] = "pos" => ToSet(bufs) \subseteq ToSet(Decoded)
       /\ pc[a] \in {"reset", "reset_ret"} /\ stringBuilder # 0 => stringBuilder \in ToSet(bufs))'
  <2>1. ToSet(bufs) \subseteq ToSet(Decoded \o bufs)
    BY <1>2, ToSetConcat
  <2>2. pc'[a] = "pos" /\ bufs' = bufs
    BY DEF Control, Places, WriteBody, Goto, bufVars
  <2>. QED
    BY <1>3, <2>1, <2>2
<1>8. (/\ pc["tracer"] = "reopen" => bufs = <<>>
       /\ pc["handler"] \in {"close", "chain"} /\ ~bg_running => bufs = <<>>)'
  BY <1>1 DEF Control, Places, Crash, TypeOK, Exact, WriteBody, insnVars, bufVars, fileVars,
     sigVars, At, Running, Goto, Return, Actors, FlushLabels
<1>. QED
  BY <1>4, <1>5, <1>6, <1>7, <1>8 DEF Exact

LEMMA ResetPosExact ==
  ASSUME Control, Quiet, NEW a \in Actors, Exact(a), ResetPos(a)
  PROVE  Exact(a)'
<1>1. /\ Actor = a
      /\ a = "tracer" => pc["handler"] = "off"
      /\ a = "handler" => pc["tracer"] = "guest" /\ hit = "guest"
  BY WhoRuns DEF ResetPos, At
<1>2. TypeOK /\ Decoded \in Seq(Nat) /\ bufs \in Seq(Nat) /\ stringBuilder \in Nat /\ insns \in Nat
  BY SeqFacts DEF Control
<1>3. Decoded' = Decoded /\ Output' = Output
  BY DecodedKept DEF ResetPos, fileVars
<1>4. FdOpen'
  BY <1>1 DEF FdOpen, Control, Places, Crash, TypeOK, Exact, ResetPos, insnVars, bufVars,
     fileVars, sigVars, At, Running, Goto, Return, Actors, FlushLabels, EmptyBuf
<1>5. InOrder(a)'
  BY <1>1, <1>3 DEF InOrder, Control, Places, Crash, TypeOK, Exact, ResetPos, insnVars, bufVars,
     fileVars, sigVars, At, Running, Goto, Return, Actors, FlushLabels, EmptyBuf
<1>6. (Decoded \o (Unsent(a) \o Pending(a)) = Upto(insns))'
  <2>1. Unsent(a) = <<>> /\ Unsent(a)' = <<>> /\ Pending(a)' = Pending(a) /\ insns' = insns
    BY DEF Unsent, Pending, Control, Places, ResetPos, EmptyBuf, At, Goto, insnVars, Actors,
       FlushLabels
  <2>. QED
    BY <1>3, <2>1 DEF Exact, Upto
<1>7. (/\ pc[a] = "pos" => ToSet(bufs) \subseteq ToSet(Decoded)
       /\ pc[a] \in {"reset", "reset_ret"} /\ stringBuilder # 0 => stringBuilder \in ToSet(bufs))'
  BY <1>1, <1>3 DEF Control, Places, Crash, TypeOK, Exact, ResetPos, insnVars, bufVars, fileVars,
     sigVars, At, Running, Goto, Return, Actors, FlushLabels, EmptyBuf
<1>8. (/\ pc["tracer"] = "reopen" => bufs = <<>>
       /\ pc["handler"] \in {"close", "chain"} /\ ~bg_running => bufs = <<>>)'
  BY <1>1 DEF Control, Places, Crash, TypeOK, Exact, ResetPos, insnVars, bufVars, fileVars,
     sigVars, At, Running, Goto, Return, Actors, FlushLabels, EmptyBuf
<1>. QED
  BY <1>4, <1>5, <1>6, <1>7, <1>8 DEF Exact

LEMMA FlushLockExact ==
  ASSUME Control, Quiet, NEW a \in Actors, Exact(a), FlushLock(a)
  PROVE  Exact(a)'
<1>1. /\ Actor = a
      /\ a = "tracer" => pc["handler"] = "off"
      /\ a = "handler" => pc["tracer"] = "guest" /\ hit = "guest"
  BY WhoRuns DEF FlushLock, At
<1>2. TypeOK /\ Decoded \in Seq(Nat) /\ bufs \in Seq(Nat) /\ stringBuilder \in Nat /\ insns \in Nat
  BY SeqFacts DEF Control
<1>3. Decoded' = Decoded /\ Output' = Output
  BY DecodedKept DEF FlushLock, fileVars
<1>4. FdOpen'
  BY <1>1 DEF FdOpen, Control, Places, Crash, TypeOK, Exact, FlushLock, insnVars, bufVars,
     fileVars, sigVars, At, Running, Goto, Return, Actors, FlushLabels
<1>5. InOrder(a)'
  BY <1>1, <1>3 DEF InOrder, Control, Places, Crash, TypeOK, Exact, FlushLock, insnVars, bufVars,
     fileVars, sigVars, At, Running, Goto, Return, Actors, FlushLabels
<1>6. (Decoded \o (Unsent(a) \o Pending(a)) = Upto(insns))'
  <2>1. Unsent(a)' = Unsent(a) /\ Pending(a)' = Pending(a) /\ insns' = insns
    BY <1>1 DEF Unsent, Pending, Exact, Control, Places, TypeOK, FlushLock, At, Running, Goto,
       Return, Actors, FlushLabels, insnVars, bufVars
  <2>. QED
    BY <1>3, <2>1 DEF Exact, Upto
<1>7. (/\ pc[a] = "pos" => ToSet(bufs) \subseteq ToSet(Decoded)
       /\ pc[a] \in {"reset", "reset_ret"} /\ stringBuilder # 0 => stringBuilder \in ToSet(bufs))'
  BY <1>1, <1>3 DEF Control, Places, Crash, TypeOK, Exact, FlushLock, insnVars, bufVars,
     fileVars, sigVars, At, Running, Goto, Return, Actors, FlushLabels
<1>8. (/\ pc["tracer"] = "reopen" => bufs = <<>>
       /\ pc["handler"] \in {"close", "chain"} /\ ~bg_running => bufs = <<>>)'
  BY <1>1 DEF Control, Places, Crash, TypeOK, Exact, FlushLock, insnVars, bufVars, fileVars,
     sigVars, At, Running, Goto, Return, Actors, FlushLabels
<1>. QED
  BY <1>4, <1>5, <1>6, <1>7, <1>8 DEF Exact

LEMMA FlushHandoffExact ==
  ASSUME Control, Quiet, NEW a \in Actors, Exact(a), FlushHandoff(a)
  PROVE  Exact(a)'
<1>1. /\ Actor = a
      /\ a = "tracer" => pc["handler"] = "off"
      /\ a = "handler" => pc["tracer"] = "guest" /\ hit = "guest"
  BY WhoRuns DEF FlushHandoff, At
<1>2. TypeOK /\ Decoded \in Seq(Nat) /\ bufs \in Seq(Nat) /\ stringBuilder \in Nat /\ insns \in Nat
  BY SeqFacts DEF Control
<1>3. Whole(Output') /\ Decoded' = Decoded \o bufs
  <2>1. Whole(Output)
    BY DEF Exact, InOrder, FlushHandoff, At
  <2>. QED
    BY <1>2, <2>1, HandedOff
<1>4. FdOpen'
  BY <1>1 DEF FdOpen, Control, Places, Crash, TypeOK, Exact, FlushHandoff, insnVars, bufVars,
     fileVars, sigVars, At, Running, Goto, Return, Actors, FlushLabels, EmptyBuf
<1>5. InOrder(a)'
  BY <1>1, <1>3 DEF InOrder, Control, Places, Crash, TypeOK, Exact, FlushHandoff, insnVars,
     bufVars, fileVars, sigVars, At, Running, Goto, Return, Actors, FlushLabels, EmptyBuf
<1>6. (Decoded \o (Unsent(a) \o Pending(a)) = Upto(insns))'
  <2>1. Unsent(a) = bufs /\ Unsent(a)' = <<>> /\ Pending(a)' = Pending(a) /\ insns' = insns
    BY DEF Unsent, Pending, Control, Places, FlushHandoff, EmptyBuf, At, Goto, insnVars, Actors,
       FlushLabels
  <2>2. Pending(a) \in Seq(Nat)
    BY SeqFacts
  <2>3. (Decoded \o bufs) \o (<<>> \o Pending(a)) = Decoded \o (bufs \o Pending(a))
    BY <1>2, <2>2
  <2>. QED
    BY <1>3, <2>1, <2>3 DEF Exact, Upto
<1>7. (/\ pc[a] = "pos" => ToSet(bufs) \subseteq ToSet(Decoded)
       /\ pc[a] \in {"reset", "reset_ret"} /\ stringBuilder # 0 => stringBuilder \in ToSet(bufs))'
  BY <1>1, <1>3 DEF Control, Places, Crash, TypeOK, Exact, FlushHandoff, insnVars, bufVars,
     fileVars, sigVars, At, Running, Goto, Return, Actors, FlushLabels, EmptyBuf
<1>8. (/\ pc["tracer"] = "reopen" => bufs = <<>>
       /\ pc["handler"] \in {"close", "chain"} /\ ~bg_running => bufs = <<>>)'
  BY <1>1 DEF Control, Places, Crash, TypeOK, Exact, FlushHandoff, insnVars, bufVars, fileVars,
     sigVars, At, Running, Goto, Return, Actors, FlushLabels, EmptyBuf
<1>. QED
  BY <1>4, <1>5, <1>6, <1>7, <1>8 DEF Exact

\* The steps of the traced thread.
LEMMA NextInsnExact ==
  ASSUME Control, Quiet, ~Recursive, Exact("tracer"), NEW k \in Kinds, NextInsn(k)
  PROVE  Exact("tracer")'
<1>1. pc["handler"] = "off" /\ "tracer" \in Actors
  BY DEF Control, Crash, NextInsn, At, Running, Actors
<1>2. TypeOK /\ Decoded \in Seq(Nat) /\ bufs \in Seq(Nat) /\ stringBuilder \in Nat /\ insns \in Nat
  BY <1>1, SeqFacts DEF Control
<1>3. Decoded' = Decoded /\ Output' = Output
  BY DecodedKept DEF NextInsn, fileVars
<1>4. FdOpen'
  BY <1>1 DEF FdOpen, Control, Places, Crash, TypeOK, Exact, NextInsn, insnVars, bufVars,
     fileVars, sigVars, At, Running, Goto, Return, Actors, FlushLabels, FirstStep
<1>5. InOrder("tracer")'
  BY <1>1, <1>3 DEF InOrder, Control, Places, Crash, TypeOK, Exact, NextInsn, insnVars, bufVars,
     fileVars, sigVars, At, Running, Goto, Return, Actors, FlushLabels, FirstStep
<1>6. (Decoded \o (Unsent("tracer") \o Pending("tracer")) = Upto(insns))'
  <2>1. Unsent("tracer")' = Unsent("tracer") /\ Pending("tracer")' = Pending("tracer") /\ insns' = insns
    BY <1>1 DEF Unsent, Pending, Exact, Control, Places, TypeOK, NextInsn, At, Running, Goto,
       Return, Actors, FlushLabels, insnVars, bufVars, FirstStep
  <2>. QED
    BY <1>3, <2>1 DEF Exact, Upto
<1>7. (/\ pc["tracer"] = "pos" => ToSet(bufs) \subseteq ToSet(Decoded)
       /\ pc["tracer"] \in {"reset", "reset_ret"} /\ stringBuilder # 0 => stringBuilder \in ToSet(bufs))'
  BY <1>1, <1>3 DEF Control, Places, Crash, TypeOK, Exact, NextInsn, insnVars, bufVars, fileVars,
     sigVars, At, Running, Goto, Return, Actors, FlushLabels, FirstStep
<1>8. (/\ pc["tracer"] = "reopen" => bufs = <<>>
       /\ pc["handler"] \in {"close", "chain"} /\ ~bg_running => bufs = <<>>)'
  BY <1>1 DEF Control, Places, Crash, TypeOK, Exact, NextInsn, insnVars, bufVars, fileVars,
     sigVars, At, Running, Goto, Return, Actors, FlushLabels, FirstStep
<1>. QED
  BY <1>4, <1>5, <1>6, <1>7, <1>8 DEF Exact

LEMMA ReopenExact ==
  ASSUME Control, Quiet, ~Recursive, Exact("tracer"), Reopen
  PROVE  Exact("tracer")'
<1>1. pc["handler"] = "off" /\ "tracer" \in Actors
  BY DEF Control, Crash, Reopen, At, Running, Actors
<1>2. TypeOK /\ Decoded \in Seq(Nat) /\ bufs \in Seq(Nat) /\ stringBuilder \in Nat /\ insns \in Nat
  BY <1>1, SeqFacts DEF Control
<1>3. Whole(Output') /\ Decoded' = Decoded
  BY <1>2, FileOpened
<1>4. FdOpen'
  BY <1>1 DEF FdOpen, Control, Places, Crash, TypeOK, Exact, Reopen, insnVars, bufVars, fileVars,
     sigVars, At, Running, Goto, Return, Actors, FlushLabels, FirstStep
<1>5. InOrder("tracer")'
  BY <1>1, <1>3 DEF InOrder, Control, Places, Crash, TypeOK, Exact, Reopen, insnVars, bufVars,
     fileVars, sigVars, At, Running, Goto, Return, Actors, FlushLabels, FirstStep
<1>6. (Decoded \o (Unsent("tracer") \o Pending("tracer")) = Upto(insns))'
  <2>1. bufs = <<>> /\ stringBuilder = 0
    BY DEF Exact, Control, Call, Spot, FlushLabels, Reopen, At
  <2>2. bufs' = <<>> /\ stringBuilder' = 0 /\ insns' = insns
    BY <2>1 DEF Reopen, insnVars
  <2>3. Unsent("tracer") = <<>> /\ Unsent("tracer")' = <<>>
        /\ Pending("tracer") = <<>> /\ Pending("tracer")' = <<>>
    BY <2>1, <2>2 DEF Unsent, Pending
  <2>. QED
    BY <1>3, <2>2, <2>3 DEF Exact, Upto
<1>7. (/\ pc["tracer"] = "pos" => ToSet(bufs) \subseteq ToSet(Decoded)
       /\ pc["tracer"] \in {"reset", "reset_ret"} /\ stringBuilder # 0 => stringBuilder \in ToSet(bufs))'
  BY <1>1, <1>3 DEF Control, Places, Crash, TypeOK, Exact, Reopen, insnVars, bufVars, fileVars,
     sigVars, At, Running, Goto, Return, Actors, FlushLabels, FirstStep
<1>8. (/\ pc["tracer"] = "reopen" => bufs = <<>>
       /\ pc["handler"] \in {"close", "chain"} /\ ~bg_running => bufs = <<>>)'
  BY <1>1 DEF Control, Places, Crash, TypeOK, Exact, Reopen, insnVars, bufVars, fileVars,
     sigVars, At, Running, Goto, Return, Actors, FlushLabels, FirstStep
<1>. QED
  BY <1>4, <1>5, <1>6, <1>7, <1>8 DEF Exact

LEMMA AppendLineExact ==
  ASSUME Control, Quiet, ~Recursive, Exact("tracer"), AppendLine
  PROVE  Exact("tracer")'
<1>1. pc["handler"] = "off" /\ "tracer" \in Actors
  BY DEF Control, Crash, AppendLine, At, Running, Actors
<1>2. TypeOK /\ Decoded \in Seq(Nat) /\ bufs \in Seq(Nat) /\ stringBuilder \in Nat /\ insns \in Nat
  BY <1>1, SeqFacts DEF Control
<1>3. Decoded' = Decoded /\ Output' = Output
  BY DecodedKept DEF AppendLine, fileVars
<1>4. FdOpen'
  BY <1>1 DEF FdOpen, Control, Places, Crash, TypeOK, Exact, AppendLine, insnVars, bufVars,
     fileVars, sigVars, At, Running, Goto, Return, Actors, FlushLabels
<1>5. InOrder("tracer")'
  BY <1>1, <1>3 DEF InOrder, Control, Places, Crash, TypeOK, Exact, AppendLine, insnVars,
     bufVars, fileVars, sigVars, At, Running, Goto, Return, Actors, FlushLabels
<1>6. (Decoded \o (Unsent("tracer") \o Pending("tracer")) = Upto(insns))'
  <2>1. Unsent("tracer") = bufs /\ Unsent("tracer")' = bufs
        /\ Pending("tracer") = <<>> /\ Pending("tracer")' = <<insns + 1>> /\ insns' = insns + 1
    <3>1. stringBuilder = 0
      BY DEF Control, Call, Spot, FlushLabels, AppendLine, At
    <3>2. pc["tracer"] = "append" /\ pc'["tracer"] \in {"write_ret", "interval"}
          /\ bufs' = bufs /\ stringBuilder' = insns + 1 /\ insns' = insns + 1 /\ insns + 1 # 0
      BY <1>1, <1>2 DEF Control, Places, AppendLine, At, Goto, bufVars
    <3>. QED
      BY <3>1, <3>2 DEF Unsent, Pending
  <2>2. PICK d \in Seq(Nat), b \in Seq(Nat), n \in Nat : d = Decoded /\ b = bufs /\ n = insns
    BY <1>2
  <2>3. d \o (b \o <<>>) = Upto(n)
    BY <2>1, <2>2 DEF Exact
  <2>4. d \o (b \o <<n + 1>>) = Append(d \o (b \o <<>>), n + 1)
    BY <2>2
  <2>5. Append(Upto(n), n + 1) = Upto(n + 1)
    BY <2>2 DEF Upto
  <2>. QED
    BY <1>3, <2>1, <2>2, <2>3, <2>4, <2>5 DEF Upto
<1>7. (/\ pc["tracer"] = "pos" => ToSet(bufs) \subseteq ToSet(Decoded)
       /\ pc["tracer"] \in {"reset", "reset_ret"} /\ stringBuilder # 0 => stringBuilder \in ToSet(bufs))'
  BY <1>1, <1>3 DEF Control, Places, Crash, TypeOK, Exact, AppendLine, insnVars, bufVars,
     fileVars, sigVars, At, Running, Goto, Return, Actors, FlushLabels
<1>8. (/\ pc["tracer"] = "reopen" => bufs = <<>>
       /\ pc["handler"] \in {"close", "chain"} /\ ~bg_running => bufs = <<>>)'
  BY <1>1 DEF Control, Places, Crash, TypeOK, Exact, AppendLine, insnVars, bufVars, fileVars,
     sigVars, At, Running, Goto, Return, Actors, FlushLabels
<1>. QED
  BY <1>4, <1>5, <1>6, <1>7, <1>8 DEF Exact

LEMMA AfterRetExact ==
  ASSUME Control, Quiet, ~Recursive, Exact("tracer"), AfterRet
  PROVE  Exact("tracer")'
<1>1. pc["handler"] = "off" /\ "tracer" \in Actors
  BY DEF Control, Crash, AfterRet, At, Running, Actors
<1>2. TypeOK /\ Decoded \in Seq(Nat) /\ bufs \in Seq(Nat) /\ stringBuilder \in Nat /\ insns \in Nat
  BY <1>1, SeqFacts DEF Control
<1>3. Decoded' = Decoded /\ Output' = Output
  BY DecodedKept DEF AfterRet, fileVars
<1>4. FdOpen'
  BY <1>1 DEF FdOpen, Control, Places, Crash, TypeOK, Exact, AfterRet, insnVars, bufVars,
     fileVars, sigVars, At, Running, Goto, Return, Actors, FlushLabels, LeavesTarget
<1>5. InOrder("tracer")'
  BY <1>1, <1>3 DEF InOrder, Control, Places, Crash, TypeOK, Exact, AfterRet, insnVars, bufVars,
     fileVars, sigVars, At, Running, Goto, Return, Actors, FlushLabels, LeavesTarget
<1>6. (Decoded \o (Unsent("tracer") \o Pending("tracer")) = Upto(insns))'
  <2>1. Unsent("tracer")' = Unsent("tracer") /\ Pending("tracer")' = Pending("tracer") /\ insns' = insns
    BY <1>1 DEF Unsent, Pending, Exact, Control, Places, TypeOK, AfterRet, At, Running, Goto,
       Return, Actors, FlushLabels, insnVars, bufVars
  <2>. QED
    BY <1>3, <2>1 DEF Exact, Upto
<1>7. (/\ pc["tracer"] = "pos" => ToSet(bufs) \subseteq ToSet(Decoded)
       /\ pc["tracer"] \in {"reset", "reset_ret"} /\ stringBuilder # 0 => stringBuilder \in ToSet(bufs))'
  BY <1>1, <1>3 DEF Control, Places, Crash, TypeOK, Exact, AfterRet, insnVars, bufVars, fileVars,
     sigVars, At, Running, Goto, Return, Actors, FlushLabels, LeavesTarget
<1>8. (/\ pc["tracer"] = "reopen" => bufs = <<>>
       /\ pc["handler"] \in {"close", "chain"} /\ ~bg_running => bufs = <<>>)'
  BY <1>1 DEF Control, Places, Crash, TypeOK, Exact, AfterRet, insnVars, bufVars, fileVars,
     sigVars, At, Running, Goto, Return, Actors, FlushLabels, LeavesTarget
<1>. QED
  BY <1>4, <1>5, <1>6, <1>7, <1>8 DEF Exact

LEMMA IntervalExact ==
  ASSUME Control, Quiet, ~Recursive, Exact("tracer"), Interval
  PROVE  Exact("tracer")'
<1>1. pc["handler"] = "off" /\ "tracer" \in Actors
  BY DEF Control, Crash, Interval, At, Running, Actors
<1>2. TypeOK /\ Decoded \in Seq(Nat) /\ bufs \in Seq(Nat) /\ stringBuilder \in Nat /\ insns \in Nat
  BY <1>1, SeqFacts DEF Control
<1>3. Decoded' = Decoded /\ Output' = Output
  BY DecodedKept DEF Interval, fileVars
<1>4. FdOpen'
  BY <1>1 DEF FdOpen, Control, Places, Crash, TypeOK, Exact, Interval, insnVars, bufVars,
     fileVars, sigVars, At, Running, Goto, Return, Actors, FlushLabels
<1>5. InOrder("tracer")'
  BY <1>1, <1>3 DEF InOrder, Control, Places, Crash, TypeOK, Exact, Interval, insnVars, bufVars,
     fileVars, sigVars, At, Running, Goto, Return, Actors, FlushLabels
<1>6. (Decoded \o (Unsent("tracer") \o Pending("tracer")) = Upto(insns))'
  <2>1. Unsent("tracer")' = Unsent("tracer") /\ Pending("tracer")' = Pending("tracer") /\ insns' = insns
    BY <1>1 DEF Unsent, Pending, Exact, Control, Places, TypeOK, Interval, At, Running, Goto,
       Return, Actors, FlushLabels, insnVars, bufVars
  <2>. QED
    BY <1>3, <2>1 DEF Exact, Upto
<1>7. (/\ pc["tracer"] = "pos" => ToSet(bufs) \subseteq ToSet(Decoded)
       /\ pc["tracer"] \in {"reset", "reset_ret"} /\ stringBuilder # 0 => stringBuilder \in ToSet(bufs))'
  BY <1>1, <1>3 DEF Control, Places, Crash, TypeOK, Exact, Interval, insnVars, bufVars, fileVars,
     sigVars, At, Running, Goto, Return, Actors, FlushLabels
<1>8. (/\ pc["tracer"] = "reopen" => bufs = <<>>
       /\ pc["handler"] \in {"close", "chain"} /\ ~bg_running => bufs = <<>>)'
  BY <1>1 DEF Control, Places, Crash, TypeOK, Exact, Interval, insnVars, bufVars, fileVars,
     sigVars, At, Running, Goto, Return, Actors, FlushLabels
<1>. QED
  BY <1>4, <1>5, <1>6, <1>7, <1>8 DEF Exact

\* The steps of the handler.
LEMMA SalvageExact ==
  ASSUME Control, Quiet, Exact("handler"), Salvage
  PROVE  Exact("handler")'
<1>1. "handler" \in Actors /\ pc["tracer"] = "guest" /\ pc["handler"] = "salvage"
  BY DEF Control, Crash, Quiet, Salvage, At, Running, Actors, TypeOK
<1>2. stringBuilder = 0 /\ fd
  BY <1>1 DEF Control, Call, Spot, FlushLabels, Exact, FdOpen
<1>3. Decoded' = Decoded /\ Output' = Output
  BY DecodedKept DEF Salvage, fileVars
<1>4. /\ pc'["tracer"] = "guest"
      /\ pc'["handler"] = "flush" \/ (pc'["handler"] = "close" /\ bg_running)
      /\ bufs' = bufs /\ stringBuilder' = stringBuilder /\ insns' = insns /\ fd' = fd
      /\ bg_running' = bg_running
  BY <1>1, <1>2 DEF Control, Places, Salvage, Goto, Return, insnVars, bufVars, fileVars, Actors
<1>5. Unsent("handler")' = Unsent("handler") /\ Pending("handler")' = Pending("handler")
  BY <1>1, <1>4 DEF Unsent, Pending
<1>6. (Decoded \o (Unsent("handler") \o Pending("handler")) = Upto(insns))'
  BY <1>3, <1>4, <1>5 DEF Exact, Upto
<1>. QED
  BY <1>1, <1>2, <1>3, <1>4, <1>6 DEF Exact, InOrder, FdOpen

LEMMA CloseFdExact ==
  ASSUME Control, Quiet, Exact("handler"), CloseFd
  PROVE  Exact("handler")'
<1>1. "handler" \in Actors /\ pc["tracer"] = "guest" /\ pc["handler"] = "close"
  BY DEF Control, Crash, Quiet, CloseFd, At, Running, Actors, TypeOK
<1>3. Decoded' = Decoded /\ Output' = Output
  BY DecodedKept DEF CloseFd
<1>4. /\ pc'["tracer"] = "guest" /\ pc'["handler"] = "chain"
      /\ bufs' = bufs /\ stringBuilder' = stringBuilder /\ insns' = insns
      /\ bg_running' = bg_running
  BY <1>1 DEF Control, Places, CloseFd, Goto, insnVars, bufVars
<1>5. Unsent("handler")' = Unsent("handler") /\ Pending("handler")' = Pending("handler")
  BY <1>1, <1>4 DEF Unsent, Pending
<1>6. (Decoded \o (Unsent("handler") \o Pending("handler")) = Upto(insns))'
  BY <1>3, <1>4, <1>5 DEF Exact, Upto
<1>. QED
  BY <1>1, <1>3, <1>4, <1>6 DEF Exact, InOrder, FdOpen

\* A signal in the traced code: the handler takes over.
LEMMA SignalExact ==
  ASSUME Control, signals = 0, Exact("tracer"), Signal("guest")
  PROVE  Exact("handler")'
<1>1. pc["tracer"] = "guest" /\ pc["handler"] = "off" /\ stringBuilder \in Nat
  BY DEF Control, Crash, Signal, TypeOK
<1>3. Decoded' = Decoded /\ Output' = Output
  BY DecodedKept DEF Signal, fileVars
<1>4. /\ pc'["tracer"] = "guest" /\ pc'["handler"] \in {"write", "salvage"}
      /\ bufs' = bufs /\ stringBuilder' = stringBuilder /\ insns' = insns /\ fd' = fd
  BY <1>1 DEF Control, Places, Signal, Goto, insnVars, bufVars, fileVars, Actors
<1>5. Unsent("handler")' = Unsent("tracer") /\ Pending("handler")' = Pending("tracer")
  BY <1>1, <1>4 DEF Unsent, Pending
<1>6. (Decoded \o (Unsent("handler") \o Pending("handler")) = Upto(insns))'
  BY <1>3, <1>4, <1>5 DEF Exact, Upto
<1>. QED
  BY <1>1, <1>3, <1>4, <1>6 DEF Exact, InOrder, FdOpen

-----------------------------------------------------------------------------
(* The text, after a signal inside trace_code.                             *)

\* Lines 1 to n, lines up to m, and more of them.
LEMMA JoinsMore ==
  ASSUME NEW n \in Nat, NEW m \in Nat, NEW S, NEW T, n <= m, (1..n) \cup S = 1..m,
         Joins(n, S \cup T)
  PROVE  Joins(m, S \cup T) /\ Joins(m, T)
<1>1. PICK j \in n..insns : (1..n) \cup (S \cup T) = 1..j
  BY Zenon DEF Joins
<1>2. 1..n \subseteq 1..m /\ S \subseteq 1..m
  BY Zenon
<1>3. (1..m) \cup (S \cup T) = 1..j /\ (1..m) \cup T = 1..j
  BY <1>1, Zenon
<1>4. j \in m..insns
  <2>1. m \in 1..m => m \in 1..j
    BY <1>3, Zenon
  <2>. QED
    BY <1>1, <2>1
<1>. QED
  BY <1>3, <1>4, Zenon DEF Joins

LEMMA JoinsNothing ==
  ASSUME NEW n \in Nat, NEW S, insns \in Nat, n <= insns, S \subseteq 1..n
  PROVE  Joins(n, S)
<1>1. n \in n..insns
  OBVIOUS
<1>2. (1..n) \cup S = 1..n
  BY Zenon
<1>. QED
  BY <1>1, <1>2, Zenon DEF Joins

\* The lines of the handler: those in the buffer and the pending one.
LEMMA LinesTyped ==
  ASSUME Control
  PROVE  /\ TypeOK /\ bufs \in Seq(Nat) /\ stringBuilder \in Nat /\ insns \in Nat
         /\ Decoded \in Seq(Nat) /\ "handler" \in Actors
  BY SeqFacts DEF Control, TypeOK, Actors

LEMMA WriteSaved ==
  ASSUME Control, FdOpen, NEW n \in 0..insns, Saved(n), Write("handler")
  PROVE  FdOpen' /\ Saved(n)'
<1>1. Decoded' = Decoded /\ Output' = Output
  BY DecodedKept DEF Write, fileVars
<1>2. bufs \in Seq(Nat) /\ stringBuilder \in Nat /\ insns' = insns /\ bg_running' = bg_running
  BY LinesTyped DEF Write, insnVars
<1>3. pc["handler"] = "write" /\ pc'["handler"] \in {"reset", "flush"}
      /\ stringBuilder' = stringBuilder /\ fd' = fd
  BY DEF Control, Places, HandlerLabels, FlushLabels, Write, Goto, Actors, fileVars
<1>4. CASE Lost
  <2>1. Lost'
    BY <1>1, <1>2, <1>3, <1>4 DEF Lost
  <2>. QED
    BY <1>1, <1>3, <2>1 DEF Saved, FdOpen
<1>5. CASE ~Lost
  <2>1. InOrder("handler")'
    BY <1>1, <1>3, <1>5 DEF Saved, InOrder
  <2>2. ToSet(bufs') = ToSet(bufs) \/ ToSet(bufs') = ToSet(bufs) \cup PendingLines
    <3>1. bufs' = bufs \/ (stringBuilder # 0 /\ bufs' = Append(bufs, stringBuilder))
      BY DEF Write
    <3>2. Append(bufs, stringBuilder) = bufs \o <<stringBuilder>> /\ <<stringBuilder>> \in Seq(Nat)
      BY <1>2
    <3>3. ToSet(Append(bufs, stringBuilder)) = ToSet(bufs) \cup {stringBuilder}
      BY <1>2, <3>2, ToSetConcat, ToSetSmall, ZenonT(60)
    <3>. QED
      BY <3>1, <3>3 DEF PendingLines
  <2>3. PendingLines' = PendingLines
    BY <1>3 DEF PendingLines
  <2>4. Joins(n, ToSet(bufs)) /\ Joins(n, ToSet(bufs) \cup PendingLines)
    BY <1>5 DEF Saved
  <2>5. Joins(n, ToSet(bufs')) /\ Joins(n, ToSet(bufs') \cup PendingLines)
    <3>1. (ToSet(bufs) \cup PendingLines) \cup PendingLines = ToSet(bufs) \cup PendingLines
      BY Zenon
    <3>. QED
      BY <2>2, <2>4, <3>1
  <2>6. (Joins(n, ToSet(bufs)) /\ Joins(n, ToSet(bufs) \cup PendingLines))'
    BY <1>2, <2>3, <2>5 DEF Joins
  <2>. QED
    BY <1>1, <1>3, <2>1, <2>6 DEF Saved, FdOpen
<1>. QED
  BY <1>4, <1>5

LEMMA ResetBuilderSaved ==
  ASSUME Control, FdOpen, NEW n \in 0..insns, Saved(n), ResetBuilder("handler")
  PROVE  FdOpen' /\ Saved(n)'
<1>1. Decoded' = Decoded /\ Output' = Output
  BY DecodedKept DEF ResetBuilder, fileVars
<1>2. insns' = insns /\ bg_running' = bg_running /\ bufs' = bufs
  BY DEF ResetBuilder, insnVars, bufVars
<1>3. pc["handler"] \in {"reset", "reset_ret"} /\ pc'["handler"] \in {"salvage"}
      /\ (fd' = fd \/ pc'["handler"] = "chain")
      /\ (stringBuilder' = stringBuilder \/ stringBuilder' = 0)
  BY DEF Control, Places, HandlerLabels, FlushLabels, ResetBuilder, At, Goto, Actors, fileVars
<1>4. CASE Lost
  <2>1. Lost'
    BY <1>1, <1>2, <1>3, <1>4 DEF Lost
  <2>. QED
    BY <1>1, <1>3, <2>1 DEF Saved, FdOpen
<1>5. CASE ~Lost
  <2>1. InOrder("handler")'
    BY <1>1, <1>2, <1>3, <1>5 DEF Saved, InOrder, ResetBuilder
  <2>2. PendingLines' = PendingLines \/ PendingLines' = {}
    BY <1>3 DEF PendingLines
  <2>3. Joins(n, ToSet(bufs)) /\ Joins(n, ToSet(bufs) \cup PendingLines)
    BY <1>5 DEF Saved
  <2>4. ToSet(bufs) \cup {} = ToSet(bufs)
    BY Zenon
  <2>5. (Joins(n, ToSet(bufs)) /\ Joins(n, ToSet(bufs) \cup PendingLines))'
    BY <1>2, <2>2, <2>3, <2>4 DEF Joins
  <2>. QED
    BY <1>1, <1>3, <2>1, <2>5 DEF Saved, FdOpen
<1>. QED
  BY <1>4, <1>5

LEMMA FlushLockSaved ==
  ASSUME Control, FdOpen, NEW n \in 0..insns, Saved(n), FlushLock("handler")
  PROVE  FdOpen' /\ Saved(n)'
<1>1. Decoded' = Decoded /\ Output' = Output
  BY DecodedKept DEF FlushLock, fileVars
<1>2. insns' = insns /\ bg_running' = bg_running /\ bufs' = bufs
  BY DEF FlushLock, insnVars
<1>3. pc["handler"] \in {"flush"} /\ pc'["handler"] \in {"handoff"}
      /\ (fd' = fd \/ pc'["handler"] = "chain")
      /\ (stringBuilder' = stringBuilder \/ stringBuilder' = 0)
  BY DEF Control, Places, HandlerLabels, FlushLabels, FlushLock, At, Goto, Actors, fileVars
<1>4. CASE Lost
  <2>1. Lost'
    BY <1>1, <1>2, <1>3, <1>4 DEF Lost
  <2>. QED
    BY <1>1, <1>3, <2>1 DEF Saved, FdOpen
<1>5. CASE ~Lost
  <2>1. InOrder("handler")'
    BY <1>1, <1>2, <1>3, <1>5 DEF Saved, InOrder, FlushLock
  <2>2. PendingLines' = PendingLines \/ PendingLines' = {}
    BY <1>3 DEF PendingLines
  <2>3. Joins(n, ToSet(bufs)) /\ Joins(n, ToSet(bufs) \cup PendingLines)
    BY <1>5 DEF Saved
  <2>4. ToSet(bufs) \cup {} = ToSet(bufs)
    BY Zenon
  <2>5. (Joins(n, ToSet(bufs)) /\ Joins(n, ToSet(bufs) \cup PendingLines))'
    BY <1>2, <2>2, <2>3, <2>4 DEF Joins
  <2>. QED
    BY <1>1, <1>3, <2>1, <2>5 DEF Saved, FdOpen
<1>. QED
  BY <1>4, <1>5

LEMMA SalvageSaved ==
  ASSUME Control, FdOpen, NEW n \in 0..insns, Saved(n), Salvage
  PROVE  FdOpen' /\ Saved(n)'
<1>1. Decoded' = Decoded /\ Output' = Output
  BY DecodedKept DEF Salvage, fileVars
<1>2. insns' = insns /\ bg_running' = bg_running /\ bufs' = bufs
  BY DEF Salvage, insnVars, bufVars
<1>3. pc["handler"] \in {"salvage"} /\ pc'["handler"] \in {"flush", "close"}
      /\ (fd' = fd \/ pc'["handler"] = "chain")
      /\ (stringBuilder' = stringBuilder \/ stringBuilder' = 0)
  BY DEF Control, Places, HandlerLabels, FlushLabels, Salvage, At, Goto, Actors, fileVars
<1>4. CASE Lost
  <2>1. Lost'
    BY <1>1, <1>2, <1>3, <1>4 DEF Lost
  <2>. QED
    BY <1>1, <1>3, <2>1 DEF Saved, FdOpen
<1>5. CASE ~Lost
  <2>1. InOrder("handler")'
    BY <1>1, <1>2, <1>3, <1>5 DEF Saved, InOrder, Salvage
  <2>2. PendingLines' = PendingLines \/ PendingLines' = {}
    BY <1>3 DEF PendingLines
  <2>3. Joins(n, ToSet(bufs)) /\ Joins(n, ToSet(bufs) \cup PendingLines)
    BY <1>5 DEF Saved
  <2>4. ToSet(bufs) \cup {} = ToSet(bufs)
    BY Zenon
  <2>5. (Joins(n, ToSet(bufs)) /\ Joins(n, ToSet(bufs) \cup PendingLines))'
    BY <1>2, <2>2, <2>3, <2>4 DEF Joins
  <2>. QED
    BY <1>1, <1>3, <2>1, <2>5 DEF Saved, FdOpen
<1>. QED
  BY <1>4, <1>5

LEMMA CloseFdSaved ==
  ASSUME Control, FdOpen, NEW n \in 0..insns, Saved(n), CloseFd
  PROVE  FdOpen' /\ Saved(n)'
<1>1. Decoded' = Decoded /\ Output' = Output
  BY DecodedKept DEF CloseFd, fileVars
<1>2. insns' = insns /\ bg_running' = bg_running /\ bufs' = bufs
  BY DEF CloseFd, insnVars, bufVars
<1>3. pc["handler"] \in {"close"} /\ pc'["handler"] \in {"chain"}
      /\ (fd' = fd \/ pc'["handler"] = "chain")
      /\ (stringBuilder' = stringBuilder \/ stringBuilder' = 0)
  BY DEF Control, Places, HandlerLabels, FlushLabels, CloseFd, At, Goto, Actors, fileVars
<1>4. CASE Lost
  <2>1. Lost'
    BY <1>1, <1>2, <1>3, <1>4 DEF Lost
  <2>. QED
    BY <1>1, <1>3, <2>1 DEF Saved, FdOpen
<1>5. CASE ~Lost
  <2>1. InOrder("handler")'
    BY <1>1, <1>2, <1>3, <1>5 DEF Saved, InOrder, CloseFd
  <2>2. PendingLines' = PendingLines \/ PendingLines' = {}
    BY <1>3 DEF PendingLines
  <2>3. Joins(n, ToSet(bufs)) /\ Joins(n, ToSet(bufs) \cup PendingLines)
    BY <1>5 DEF Saved
  <2>4. ToSet(bufs) \cup {} = ToSet(bufs)
    BY Zenon
  <2>5. (Joins(n, ToSet(bufs)) /\ Joins(n, ToSet(bufs) \cup PendingLines))'
    BY <1>2, <2>2, <2>3, <2>4 DEF Joins
  <2>. QED
    BY <1>1, <1>3, <2>1, <2>5 DEF Saved, FdOpen
<1>. QED
  BY <1>4, <1>5

LEMMA CompressSaved ==
  ASSUME Control, FdOpen, NEW n \in 0..insns, Saved(n), Compress("handler")
  PROVE  FdOpen' /\ Saved(n)'
<1>1. Decoded' = Decoded /\ Output' = Output
  BY DecodedKept DEF Compress, fileVars
<1>2. insns' = insns /\ bg_running' = bg_running /\ bufs' = bufs
  BY DEF Compress, insnVars
<1>3. pc["handler"] \in {"flush"} /\ pc'["handler"] \in {"header", "write", "close"}
      /\ (fd' = fd \/ pc'["handler"] = "chain")
      /\ (stringBuilder' = stringBuilder \/ stringBuilder' = 0)
  BY DEF Control, Places, HandlerLabels, FlushLabels, Compress, At, Goto, Actors, fileVars
<1>4. CASE Lost
  <2>1. Lost'
    BY <1>1, <1>2, <1>3, <1>4 DEF Lost
  <2>. QED
    BY <1>1, <1>3, <2>1 DEF Saved, FdOpen
<1>5. CASE ~Lost
  <2>1. InOrder("handler")'
    <3>1. pc'["handler"] = "header" => frame'["handler"] = bufs /\ comp_buf' = bufs
      BY <1>3, LinesTyped DEF Control, Places, TypeOK, FlushLabels, Compress, At, Goto, Actors
    <3>2. Whole(Output)
      BY <1>3, <1>5 DEF Saved, InOrder
    <3>. QED
      BY <1>1, <1>2, <1>3, <3>1, <3>2 DEF InOrder
  <2>2. PendingLines' = PendingLines \/ PendingLines' = {}
    BY <1>3 DEF PendingLines
  <2>3. Joins(n, ToSet(bufs)) /\ Joins(n, ToSet(bufs) \cup PendingLines)
    BY <1>5 DEF Saved
  <2>4. ToSet(bufs) \cup {} = ToSet(bufs)
    BY Zenon
  <2>5. (Joins(n, ToSet(bufs)) /\ Joins(n, ToSet(bufs) \cup PendingLines))'
    BY <1>2, <2>2, <2>3, <2>4 DEF Joins
  <2>. QED
    BY <1>1, <1>3, <2>1, <2>5 DEF Saved, FdOpen
<1>. QED
  BY <1>4, <1>5

LEMMA WriteHeaderSaved ==
  ASSUME Control, FdOpen, NEW n \in 0..insns, Saved(n), WriteHeader("handler")
  PROVE  FdOpen' /\ Saved(n)'
<1>1. /\ pc["handler"] = "header" /\ pc'["handler"] = "body" /\ bufs' = bufs /\ insns' = insns
      /\ stringBuilder' = stringBuilder /\ fd /\ fd' = fd
      /\ frame' = frame /\ comp_buf' = comp_buf
  BY DEF Control, Places, WriteHeader, At, Goto, Actors, insnVars, bufVars, FdOpen
<1>2. CASE Lost
  <2>1. Torn(Output') /\ Decoded' = Decoded
    BY <1>1, <1>2, LinesTyped, HeaderOut DEF Lost
  <2>. QED
    BY <1>1, <2>1 DEF Saved, FdOpen, Lost
<1>3. CASE ~Lost
  <2>1. Whole(Output) /\ frame["handler"] = bufs /\ comp_buf = bufs
    BY <1>1, <1>3 DEF Saved, InOrder
  <2>2. Open(Output') /\ Decoded' = Decoded /\ Output'[Len(Output')] = Header(bufs)
    BY <1>1, <2>1, LinesTyped, HeaderOut
  <2>3. InOrder("handler")'
    BY <1>1, <2>1, <2>2 DEF InOrder
  <2>4. (Joins(n, ToSet(bufs)) /\ Joins(n, ToSet(bufs) \cup PendingLines))'
    BY <1>1, <1>3 DEF Saved, Joins, PendingLines
  <2>. QED
    BY <1>1, <2>2, <2>3, <2>4 DEF Saved, FdOpen
<1>. QED
  BY <1>2, <1>3

\* The frame is out, and the text is longer.
LEMMA FrameSaved ==
  ASSUME Control, NEW n \in 0..insns, ToSet(Decoded) = 1..n,
         Joins(n, ToSet(bufs)), Joins(n, ToSet(bufs) \cup PendingLines)
  PROVE  \E m \in 0..insns :
           /\ ToSet(Decoded \o bufs) = 1..m /\ ToSet(bufs) \subseteq 1..m
           /\ Joins(m, ToSet(bufs)) /\ Joins(m, ToSet(bufs) \cup PendingLines)
           /\ Joins(m, {}) /\ Joins(m, {} \cup PendingLines)
<1>1. insns \in Nat
  BY LinesTyped
<1>2. PICK m \in n..insns : (1..n) \cup ToSet(bufs) = 1..m
  BY Zenon DEF Joins
<1>3. n \in Nat /\ m \in Nat /\ n <= m /\ m \in 0..insns /\ m <= insns
  BY <1>1, <1>2
<1>4. ToSet(Decoded \o bufs) = 1..m
  BY <1>2, LinesTyped, ToSetConcat
<1>5. ToSet(bufs) \subseteq 1..m
  BY <1>2, Zenon
<1>6. Joins(m, ToSet(bufs)) /\ Joins(m, {})
  BY <1>1, <1>3, <1>5, JoinsNothing
<1>7. Joins(m, ToSet(bufs) \cup PendingLines) /\ Joins(m, PendingLines)
  BY <1>2, <1>3, JoinsMore, Zenon
<1>8. {} \cup PendingLines = PendingLines
  BY Zenon
<1>. QED
  BY <1>3, <1>4, <1>5, <1>6, <1>7, <1>8

LEMMA WriteBodySaved ==
  ASSUME Control, FdOpen, NEW n \in 0..insns, Saved(n), WriteBody("handler")
  PROVE  FdOpen' /\ \E m \in 0..insns : Saved(m)'
<1>1. /\ pc["handler"] = "body" /\ pc'["handler"] = "pos" /\ bufs' = bufs /\ insns' = insns
      /\ stringBuilder' = stringBuilder /\ fd /\ fd' = fd
  BY DEF Control, Places, WriteBody, At, Goto, Actors, insnVars, bufVars, FdOpen
<1>2. CASE Lost
  <2>1. Torn(Output') /\ Decoded' = Decoded
    BY <1>1, <1>2, LinesTyped, BodyOut DEF Lost
  <2>2. Saved(n)'
    BY <1>1, <2>1 DEF Saved, Lost
  <2>. QED
    BY <1>1, <2>2 DEF FdOpen
<1>3. CASE ~Lost
  <2>1. Open(Output) /\ comp_buf = bufs /\ Output[Len(Output)] = Header(comp_buf)
    BY <1>1, <1>3 DEF Saved, InOrder
  <2>2. Whole(Output') /\ Decoded' = Decoded \o bufs
    BY <1>1, <2>1, LinesTyped, BodyOut
  <2>3. ToSet(Decoded) = 1..n /\ Joins(n, ToSet(bufs)) /\ Joins(n, ToSet(bufs) \cup PendingLines)
    BY <1>3 DEF Saved
  <2>4. PICK m \in 0..insns :
           /\ ToSet(Decoded \o bufs) = 1..m /\ ToSet(bufs) \subseteq 1..m
           /\ Joins(m, ToSet(bufs)) /\ Joins(m, ToSet(bufs) \cup PendingLines)
    BY <2>3, FrameSaved, Zenon
  <2>5. (Joins(m, ToSet(bufs)) /\ Joins(m, ToSet(bufs) \cup PendingLines))'
    BY <1>1, <2>4 DEF Joins, PendingLines
  <2>6. InOrder("handler")'
    BY <1>1, <2>2 DEF InOrder
  <2>7. Saved(m)'
    BY <1>1, <2>2, <2>4, <2>5, <2>6 DEF Saved
  <2>. QED
    BY <1>1, <2>7 DEF FdOpen
<1>. QED
  BY <1>2, <1>3

LEMMA ResetPosSaved ==
  ASSUME Control, FdOpen, NEW n \in 0..insns, Saved(n), ResetPos("handler")
  PROVE  FdOpen' /\ Saved(n)'
<1>1. Decoded' = Decoded /\ Output' = Output
  BY DecodedKept DEF ResetPos, fileVars
<1>2. /\ pc["handler"] = "pos" /\ pc'["handler"] \in {"write", "close"}
      /\ bufs' = <<>> /\ insns' = insns /\ bg_running' = bg_running
      /\ stringBuilder' = stringBuilder /\ fd' = fd
  BY DEF Control, Places, FlushLabels, ResetPos, EmptyBuf, At, Goto, Actors, insnVars, fileVars
<1>3. CASE Lost
  <2>1. Lost'
    BY <1>1, <1>2, <1>3 DEF Lost
  <2>. QED
    BY <1>1, <1>2, <2>1 DEF Saved, FdOpen
<1>4. CASE ~Lost
  <2>1. ToSet(bufs) \subseteq 1..n /\ Joins(n, ToSet(bufs) \cup PendingLines)
    BY <1>2, <1>4 DEF Saved
  <2>2. insns \in Nat /\ n \in Nat /\ n <= insns
    BY LinesTyped
  <2>3. ToSet(bufs') = {} /\ PendingLines' = PendingLines
    BY <1>2, ToSetSmall DEF PendingLines
  <2>4. Joins(n, {})
    BY <2>2, JoinsNothing
  <2>5. Joins(n, PendingLines)
    <3>1. (1..n) \cup ToSet(bufs) = 1..n /\ n <= n
      BY <2>1, <2>2
    <3>. QED
      BY <2>1, <2>2, <3>1, JoinsMore, Zenon
  <2>6. {} \cup PendingLines = PendingLines
    BY Zenon
  <2>7. (Joins(n, ToSet(bufs)) /\ Joins(n, ToSet(bufs) \cup PendingLines))'
    BY <1>2, <2>3, <2>4, <2>5, <2>6 DEF Joins
  <2>8. InOrder("handler")'
    BY <1>1, <1>2, <1>4 DEF Saved, InOrder
  <2>. QED
    BY <1>1, <1>2, <2>7, <2>8 DEF Saved, FdOpen
<1>. QED
  BY <1>3, <1>4

LEMMA FlushHandoffSaved ==
  ASSUME Control, FdOpen, NEW n \in 0..insns, Saved(n), FlushHandoff("handler")
  PROVE  FdOpen' /\ \E m \in 0..insns : Saved(m)'
<1>1. /\ pc["handler"] = "handoff" /\ pc'["handler"] \in {"write", "close"} /\ bufs' = <<>>
      /\ insns' = insns /\ stringBuilder' = stringBuilder /\ fd' = fd /\ bg_running
  BY DEF Control, Places, FlushLabels, FlushHandoff, EmptyBuf, At, Goto, Actors, insnVars
<1>2. CASE Lost
  <2>1. Torn(Output') /\ Decoded' = Decoded
    BY <1>1, <1>2, LinesTyped, HandedOff DEF Lost
  <2>2. Saved(n)'
    BY <1>1, <2>1 DEF Saved, Lost
  <2>. QED
    BY <1>1, <2>2 DEF FdOpen
<1>3. CASE ~Lost
  <2>1. Whole(Output)
    BY <1>1, <1>3 DEF Saved, InOrder
  <2>2. Whole(Output') /\ Decoded' = Decoded \o bufs
    BY <1>1, <2>1, LinesTyped, HandedOff
  <2>3. ToSet(Decoded) = 1..n /\ Joins(n, ToSet(bufs)) /\ Joins(n, ToSet(bufs) \cup PendingLines)
    BY <1>3 DEF Saved
  <2>4. PICK m \in 0..insns :
           ToSet(Decoded \o bufs) = 1..m /\ Joins(m, {}) /\ Joins(m, {} \cup PendingLines)
    BY <2>3, FrameSaved, Zenon
  <2>5. ToSet(bufs') = {} /\ PendingLines' = PendingLines
    BY <1>1, ToSetSmall DEF PendingLines
  <2>6. (Joins(m, ToSet(bufs)) /\ Joins(m, ToSet(bufs) \cup PendingLines))'
    BY <1>1, <2>4, <2>5 DEF Joins
  <2>7. InOrder("handler")'
    BY <1>1, <2>2 DEF InOrder
  <2>8. Saved(m)'
    BY <1>1, <2>2, <2>4, <2>6, <2>7 DEF Saved
  <2>. QED
    BY <1>1, <2>8 DEF FdOpen
<1>. QED
  BY <1>2, <1>3

\* The signal itself.
LEMMA SignalSaved ==
  ASSUME Control, signals = 0, Exact("tracer"), Signal("tracer")
  PROVE  FdOpen' /\ \E n \in 0..insns : Saved(n)'
<1>1. Decoded' = Decoded /\ Output' = Output
  BY DecodedKept DEF Signal, fileVars
<1>2. /\ pc["handler"] = "off" /\ pc'["handler"] \in {"write", "salvage"} /\ pc'["tracer"] = pc["tracer"]
      /\ bufs' = bufs /\ stringBuilder' = stringBuilder /\ insns' = insns /\ fd' = fd
      /\ bg_running' = bg_running /\ "tracer" \in Actors
  BY DEF Control, Crash, Places, Signal, Goto, insnVars, bufVars, fileVars, Actors
<1>3. PICK d \in Seq(Nat), u \in Seq(Nat), p \in Seq(Nat), N \in Nat :
        d = Decoded /\ u = Unsent("tracer") /\ p = Pending("tracer") /\ N = insns
  BY <1>2, SeqFacts
<1>4. d \o (u \o p) = Upto(N) /\ (d \o u) \o p = Upto(N)
  <2>1. d \o (u \o p) = (d \o u) \o p
    OBVIOUS
  <2>. QED
    BY <1>3, <2>1 DEF Exact
<1>5. PICK n \in 0..N : ToSet(d) = 1..n
  <2>1. u \o p \in Seq(Nat)
    OBVIOUS
  <2>. QED
    BY <1>4, <2>1, UptoPrefix
<1>6. PICK k \in 0..N : ToSet(d) \cup ToSet(u) = 1..k
  <2>1. d \o u \in Seq(Nat)
    OBVIOUS
  <2>2. Len(d \o u) \in 0..N /\ ToSet(d \o u) = 1..Len(d \o u)
    BY <1>4, <2>1, UptoPrefix, Zenon
  <2>3. ToSet(d \o u) = ToSet(d) \cup ToSet(u)
    BY ToSetConcat, Zenon
  <2>. QED
    BY <2>2, <2>3, Zenon
<1>7. (ToSet(d) \cup ToSet(u)) \cup ToSet(p) = 1..N
  <2>1. d \o u \in Seq(Nat)
    OBVIOUS
  <2>2. ToSet((d \o u) \o p) = ToSet(d \o u) \cup ToSet(p)
    BY <2>1, ToSetConcat
  <2>. QED
    BY <1>4, <2>2, ToSetConcat, ToSetUpto
<1>8. n <= k /\ k <= N
  <2>1. n \in 1..n => n \in 1..k
    BY <1>5, <1>6, Zenon
  <2>. QED
    BY <2>1
<1>9. bufs \in Seq(Nat) /\ stringBuilder \in Nat /\ insns \in Nat
  BY LinesTyped
<1>10. (1..n) \cup ToSet(bufs) = 1..k
  <2>1. CASE pc["tracer"] = "pos"
    <3>1. u = <<>> /\ ToSet(bufs) \subseteq ToSet(d)
      BY <1>3, <2>1 DEF Exact, Unsent
    <3>2. ToSet(u) = {}
      BY <3>1, ToSetSmall
    <3>. QED
      BY <1>5, <1>6, <3>1, <3>2, Zenon
  <2>2. CASE pc["tracer"] # "pos"
    BY <1>3, <1>5, <1>6, <2>2 DEF Unsent
  <2>. QED
    BY <2>1, <2>2
<1>11. Joins(n, ToSet(bufs))
  <2>1. k \in n..insns
    BY <1>3, <1>8
  <2>. QED
    BY <1>10, <2>1, Zenon DEF Joins
<1>12. Joins(n, ToSet(bufs) \cup PendingLines)
  <2>1. CASE stringBuilder = 0 \/ pc["tracer"] \in {"reset", "reset_ret"}
    <3>1. PendingLines \subseteq ToSet(bufs)
      BY <2>1 DEF PendingLines, Exact
    <3>2. ToSet(bufs) \cup PendingLines = ToSet(bufs)
      BY <3>1, Zenon
    <3>. QED
      BY <1>11, <3>2
  <2>2. CASE stringBuilder # 0 /\ pc["tracer"] \notin {"reset", "reset_ret"}
    <3>1. p = <<stringBuilder>> /\ PendingLines = {stringBuilder}
      BY <1>3, <2>2 DEF Pending, PendingLines
    <3>2. ToSet(p) = PendingLines
      BY <3>1, ToSetSmall
    <3>3. (1..n) \cup (ToSet(bufs) \cup PendingLines) = 1..N
      BY <1>6, <1>7, <1>10, <3>2, Zenon
    <3>4. N \in n..insns
      BY <1>3
    <3>. QED
      BY <3>3, <3>4, Zenon DEF Joins
  <2>. QED
    BY <2>1, <2>2
<1>13. (Joins(n, ToSet(bufs)) /\ Joins(n, ToSet(bufs) \cup PendingLines))'
  BY <1>2, <1>11, <1>12 DEF Joins, PendingLines
<1>14. Lost' \/ InOrder("handler")'
  <2>1. CASE pc["tracer"] = "body"
    BY <1>1, <1>2, <2>1 DEF Exact, InOrder, Lost, Control, Places
  <2>2. CASE pc["tracer"] # "body"
    BY <1>1, <1>2, <2>2 DEF Exact, InOrder
  <2>. QED
    BY <2>1, <2>2
<1>15. Saved(n)'
  BY <1>1, <1>2, <1>3, <1>5, <1>13, <1>14 DEF Saved
<1>16. FdOpen'
  BY <1>2 DEF Exact, FdOpen
<1>. QED
  BY <1>3, <1>15, <1>16

-----------------------------------------------------------------------------
(* The invariant.                                                          *)

LEMMA InitIInv == Init => IInv
<1>. SUFFICES ASSUME Init PROVE IInv
  OBVIOUS
<1>1. TypeOK
  <2>1. <<>> \in Seq(Pieces) /\ <<>> \in Seq(Nat)
    OBVIOUS
  <2>2. << <<>> >> \in Seq(Seq(Pieces)) /\ << <<>> >> # <<>>
    BY <2>1
  <2>3. bg_running \in BOOLEAN
    BY FileAssumption DEF Init
  <2>. QED
    BY <2>1, <2>2, <2>3 DEF Init, TypeOK, Kinds
<1>2. Places
  BY DEF Init, Places, Actors, FlushLabels, TracerLabels, HandlerLabels
<1>3. Crash /\ Call
  BY DEF Init, Crash, Call, Spot, Actors, FlushLabels
<1>4. Decoded = <<>> /\ Whole(Output)
  <2>1. <<>> \in Seq(Seq(Pieces)) /\ <<>> \in Seq(Pieces)
    OBVIOUS
  <2>2. Append(<<>>, <<>>) = << <<>> >> /\ Len(<< <<>> >>) = 1 /\ << <<>> >>[1] = <<>>
    OBVIOUS
  <2>3. Text(<< <<>> >>) = Text(<<>>) \o <<>>
    BY <2>1, <2>2, TextAppend, EmptyFile
  <2>4. Text(<<>>) = <<>>
    <3>1. PICK ss : ss = [i \in 1..Len(<<>>) |-> decode_frames(<<>>[i])]
      OBVIOUS
    <3>2. ss = <<>>
      BY <3>1
    <3>. QED
      BY <3>1, <3>2, FlattenEmpty, Zenon DEF Text
  <2>5. files = << <<>> >> /\ Output = <<>>
    BY <2>2 DEF Init, Output
  <2>. QED
    BY <2>3, <2>4, <2>5, DecodedIsText, EmptyFile
<1>5. Exact("tracer") /\ hit = "none" /\ signals = 0
  <2>1. bufs = <<>> /\ stringBuilder = 0 /\ insns = 0 /\ pc["tracer"] = "guest" /\ fd
        /\ pc["handler"] = "off"
    BY DEF Init, Actors
  <2>2. Unsent("tracer") = <<>> /\ Pending("tracer") = <<>> /\ Upto(0) = <<>>
    BY <2>1 DEF Unsent, Pending, Upto
  <2>3. <<>> \o (<<>> \o <<>>) = <<>>
    OBVIOUS
  <2>4. InOrder("tracer") /\ FdOpen
    BY <1>4, <2>1 DEF InOrder, FdOpen
  <2>5. Decoded \o (Unsent("tracer") \o Pending("tracer")) = Upto(insns)
    BY <1>4, <2>1, <2>2, <2>3
  <2>. QED
    BY <2>1, <2>4, <2>5 DEF Exact, Init
<1>6. Flushed /\ Buried
  BY DEF Init, Flushed, Buried
<1>. QED
  BY <1>1, <1>2, <1>3, <1>5, <1>6 DEF IInv, Control, TextExact, Whatever, Actor, Quiet, Hit

\* A step of one of them, as far as the text goes.
LEMMA TextKept ==
  ASSUME IInv, NEW a \in Actors, Running(a), pc[a] # "off", sigVars' = sigVars,
         Quiet /\ Exact(a) => Exact(a)',
         a = "handler" => \A n \in 0..insns : FdOpen /\ Saved(n) =>
                                                FdOpen' /\ \E m \in 0..insns' : Saved(m)'
  PROVE  TextExact' /\ Whatever' /\ Buried'
<1>1. hit' = hit /\ signals' = signals /\ dead' = dead /\ ~dead
  BY DEF sigVars, Running
<1>2. TextExact'
  <2>1. SUFFICES ASSUME Quiet PROVE Exact(Actor)'
    BY <1>1 DEF TextExact, Quiet
  <2>2. Actor = a /\ Actor' = a
    BY <1>1, <2>1, WhoRuns DEF IInv, Actor
  <2>3. Exact(a)'
    BY <2>1, <2>2 DEF IInv, TextExact
  <2>. QED
    BY <1>1, <2>2, <2>3 DEF Exact, Unsent, Pending, InOrder
<1>3. Whatever'
  <2>1. SUFFICES ASSUME Hit PROVE FdOpen' /\ \E m \in 0..insns' : Saved(m)'
    BY <1>1 DEF Whatever, Hit
  <2>2. a = "handler"
    BY <2>1 DEF Hit, Running, Actors
  <2>. QED
    BY <2>1, <2>2 DEF IInv, Whatever
<1>4. Buried'
  BY <1>1 DEF Buried
<1>. QED
  BY <1>2, <1>3, <1>4

LEMMA WriteIInv ==
  ASSUME IInv, NEW a \in Actors, Write(a), ~Recursive
  PROVE  IInv'
<1>1. Control'
  BY WriteControl DEF IInv
<1>2. Flushed'
  BY DEF IInv, Control, TypeOK, Places, Crash, Flushed, Write, insnVars, bufVars, fileVars,
     sigVars, At, Running, Goto, Return, Actors, FlushLabels, TracerLabels, HandlerLabels, HasRoom
<1>3. Running(a) /\ pc[a] # "off" /\ sigVars' = sigVars /\ insns' = insns
  BY DEF Write, At, insnVars
<1>4. Quiet /\ Exact(a) => Exact(a)'
  BY WriteExact DEF IInv
<1>5. a = "handler" => \A n \in 0..insns : FdOpen /\ Saved(n) =>
                                         FdOpen' /\ \E m \in 0..insns' : Saved(m)'
  BY <1>3, WriteSaved DEF IInv
<1>. QED
  BY <1>1, <1>2, <1>3, <1>4, <1>5, TextKept DEF IInv

LEMMA ResetBuilderIInv ==
  ASSUME IInv, NEW a \in Actors, ResetBuilder(a), ~Recursive
  PROVE  IInv'
<1>1. Control'
  BY ResetBuilderControl DEF IInv
<1>2. Flushed'
  BY DEF IInv, Control, TypeOK, Places, Crash, Flushed, ResetBuilder, insnVars, bufVars,
     fileVars, sigVars, At, Running, Goto, Return, Actors, FlushLabels, TracerLabels, HandlerLabels
<1>3. Running(a) /\ pc[a] # "off" /\ sigVars' = sigVars /\ insns' = insns
  BY DEF ResetBuilder, At, insnVars
<1>4. Quiet /\ Exact(a) => Exact(a)'
  BY ResetBuilderExact DEF IInv
<1>5. a = "handler" => \A n \in 0..insns : FdOpen /\ Saved(n) =>
                                         FdOpen' /\ \E m \in 0..insns' : Saved(m)'
  BY <1>3, ResetBuilderSaved DEF IInv
<1>. QED
  BY <1>1, <1>2, <1>3, <1>4, <1>5, TextKept DEF IInv

LEMMA CompressIInv ==
  ASSUME IInv, NEW a \in Actors, Compress(a), ~Recursive
  PROVE  IInv'
<1>1. Control'
  BY CompressControl DEF IInv
<1>2. Flushed'
  BY DEF IInv, Control, TypeOK, Places, Crash, Flushed, Compress, insnVars, bufVars, fileVars,
     sigVars, At, Running, Goto, Return, Actors, FlushLabels, TracerLabels, HandlerLabels
<1>3. Running(a) /\ pc[a] # "off" /\ sigVars' = sigVars /\ insns' = insns
  BY DEF Compress, At, insnVars
<1>4. Quiet /\ Exact(a) => Exact(a)'
  BY CompressExact DEF IInv
<1>5. a = "handler" => \A n \in 0..insns : FdOpen /\ Saved(n) =>
                                         FdOpen' /\ \E m \in 0..insns' : Saved(m)'
  BY <1>3, CompressSaved DEF IInv
<1>. QED
  BY <1>1, <1>2, <1>3, <1>4, <1>5, TextKept DEF IInv

LEMMA WriteHeaderIInv ==
  ASSUME IInv, NEW a \in Actors, WriteHeader(a), ~Recursive
  PROVE  IInv'
<1>1. Control'
  BY WriteHeaderControl DEF IInv
<1>2. Flushed'
  BY DEF IInv, Control, TypeOK, Places, Crash, Flushed, WriteHeader, insnVars, bufVars, fileVars,
     sigVars, At, Running, Goto, Return, Actors, FlushLabels, TracerLabels, HandlerLabels
<1>3. Running(a) /\ pc[a] # "off" /\ sigVars' = sigVars /\ insns' = insns
  BY DEF WriteHeader, At, insnVars
<1>4. Quiet /\ Exact(a) => Exact(a)'
  BY WriteHeaderExact DEF IInv
<1>5. a = "handler" => \A n \in 0..insns : FdOpen /\ Saved(n) =>
                                         FdOpen' /\ \E m \in 0..insns' : Saved(m)'
  BY <1>3, WriteHeaderSaved DEF IInv
<1>. QED
  BY <1>1, <1>2, <1>3, <1>4, <1>5, TextKept DEF IInv

LEMMA WriteBodyIInv ==
  ASSUME IInv, NEW a \in Actors, WriteBody(a), ~Recursive
  PROVE  IInv'
<1>1. Control'
  BY WriteBodyControl DEF IInv
<1>2. Flushed'
  BY DEF IInv, Control, TypeOK, Places, Crash, Flushed, WriteBody, insnVars, bufVars, fileVars,
     sigVars, At, Running, Goto, Return, Actors, FlushLabels, TracerLabels, HandlerLabels
<1>3. Running(a) /\ pc[a] # "off" /\ sigVars' = sigVars /\ insns' = insns
  BY DEF WriteBody, At, insnVars
<1>4. Quiet /\ Exact(a) => Exact(a)'
  BY WriteBodyExact DEF IInv
<1>5. a = "handler" => \A n \in 0..insns : FdOpen /\ Saved(n) =>
                                         FdOpen' /\ \E m \in 0..insns' : Saved(m)'
  BY <1>3, WriteBodySaved DEF IInv
<1>. QED
  BY <1>1, <1>2, <1>3, <1>4, <1>5, TextKept DEF IInv

LEMMA ResetPosIInv ==
  ASSUME IInv, NEW a \in Actors, ResetPos(a), ~Recursive
  PROVE  IInv'
<1>1. Control'
  BY ResetPosControl DEF IInv
<1>2. Flushed'
  BY DEF IInv, Control, TypeOK, Places, Crash, Flushed, ResetPos, insnVars, bufVars, fileVars,
     sigVars, At, Running, Goto, Return, Actors, FlushLabels, TracerLabels, HandlerLabels, EmptyBuf
<1>3. Running(a) /\ pc[a] # "off" /\ sigVars' = sigVars /\ insns' = insns
  BY DEF ResetPos, At, insnVars
<1>4. Quiet /\ Exact(a) => Exact(a)'
  BY ResetPosExact DEF IInv
<1>5. a = "handler" => \A n \in 0..insns : FdOpen /\ Saved(n) =>
                                         FdOpen' /\ \E m \in 0..insns' : Saved(m)'
  BY <1>3, ResetPosSaved DEF IInv
<1>. QED
  BY <1>1, <1>2, <1>3, <1>4, <1>5, TextKept DEF IInv

LEMMA FlushLockIInv ==
  ASSUME IInv, NEW a \in Actors, FlushLock(a), ~Recursive
  PROVE  IInv'
<1>1. Control'
  BY FlushLockControl DEF IInv
<1>2. Flushed'
  BY DEF IInv, Control, TypeOK, Places, Crash, Flushed, FlushLock, insnVars, bufVars, fileVars,
     sigVars, At, Running, Goto, Return, Actors, FlushLabels, TracerLabels, HandlerLabels
<1>3. Running(a) /\ pc[a] # "off" /\ sigVars' = sigVars /\ insns' = insns
  BY DEF FlushLock, At, insnVars
<1>4. Quiet /\ Exact(a) => Exact(a)'
  BY FlushLockExact DEF IInv
<1>5. a = "handler" => \A n \in 0..insns : FdOpen /\ Saved(n) =>
                                         FdOpen' /\ \E m \in 0..insns' : Saved(m)'
  BY <1>3, FlushLockSaved DEF IInv
<1>. QED
  BY <1>1, <1>2, <1>3, <1>4, <1>5, TextKept DEF IInv

LEMMA FlushHandoffIInv ==
  ASSUME IInv, NEW a \in Actors, FlushHandoff(a), ~Recursive
  PROVE  IInv'
<1>1. Control'
  BY FlushHandoffControl DEF IInv
<1>2. Flushed'
  BY DEF IInv, Control, TypeOK, Places, Crash, Flushed, FlushHandoff, insnVars, bufVars,
     fileVars, sigVars, At, Running, Goto, Return, Actors, FlushLabels, TracerLabels,
     HandlerLabels, EmptyBuf
<1>3. Running(a) /\ pc[a] # "off" /\ sigVars' = sigVars /\ insns' = insns
  BY DEF FlushHandoff, At, insnVars
<1>4. Quiet /\ Exact(a) => Exact(a)'
  BY FlushHandoffExact DEF IInv
<1>5. a = "handler" => \A n \in 0..insns : FdOpen /\ Saved(n) =>
                                         FdOpen' /\ \E m \in 0..insns' : Saved(m)'
  BY <1>3, FlushHandoffSaved DEF IInv
<1>. QED
  BY <1>1, <1>2, <1>3, <1>4, <1>5, TextKept DEF IInv

LEMMA NextInsnIInv ==
  ASSUME IInv, NEW k \in Kinds, NextInsn(k), ~Recursive
  PROVE  IInv'
<1>1. Control'
  BY NextInsnControl DEF IInv
<1>2. Flushed'
  BY DEF IInv, Control, TypeOK, Places, Crash, Flushed, NextInsn, insnVars, bufVars, fileVars,
     sigVars, At, Running, Goto, Return, Actors, FlushLabels, TracerLabels, HandlerLabels,
     FirstStep, Kinds, Call, Spot
<1>3. "tracer" \in Actors /\ Running("tracer") /\ pc["tracer"] # "off" /\ sigVars' = sigVars
  BY DEF NextInsn, At, Actors
<1>4. Quiet /\ Exact("tracer") => Exact("tracer")'
  BY NextInsnExact DEF IInv
<1>. QED
  BY <1>1, <1>2, <1>3, <1>4, TextKept DEF IInv

LEMMA ReopenIInv ==
  ASSUME IInv, Reopen, ~Recursive
  PROVE  IInv'
<1>1. Control'
  BY ReopenControl DEF IInv
<1>2. Flushed'
  BY DEF IInv, Control, TypeOK, Places, Crash, Flushed, Reopen, insnVars, bufVars, fileVars,
     sigVars, At, Running, Goto, Return, Actors, FlushLabels, TracerLabels, HandlerLabels, FirstStep
<1>3. "tracer" \in Actors /\ Running("tracer") /\ pc["tracer"] # "off" /\ sigVars' = sigVars
  BY DEF Reopen, At, Actors
<1>4. Quiet /\ Exact("tracer") => Exact("tracer")'
  BY ReopenExact DEF IInv
<1>. QED
  BY <1>1, <1>2, <1>3, <1>4, TextKept DEF IInv

LEMMA AppendLineIInv ==
  ASSUME IInv, AppendLine, ~Recursive
  PROVE  IInv'
<1>1. Control'
  BY AppendLineControl DEF IInv
<1>2. Flushed'
  BY DEF IInv, Control, TypeOK, Places, Crash, Flushed, AppendLine, insnVars, bufVars, fileVars,
     sigVars, At, Running, Goto, Return, Actors, FlushLabels, TracerLabels, HandlerLabels, Call,
     Spot
<1>3. "tracer" \in Actors /\ Running("tracer") /\ pc["tracer"] # "off" /\ sigVars' = sigVars
  BY DEF AppendLine, At, Actors
<1>4. Quiet /\ Exact("tracer") => Exact("tracer")'
  BY AppendLineExact DEF IInv
<1>. QED
  BY <1>1, <1>2, <1>3, <1>4, TextKept DEF IInv

LEMMA AfterRetIInv ==
  ASSUME IInv, AfterRet, ~Recursive
  PROVE  IInv'
<1>1. Control'
  BY AfterRetControl DEF IInv
<1>2. Flushed'
  BY DEF IInv, Control, TypeOK, Places, Crash, Flushed, AfterRet, insnVars, bufVars, fileVars,
     sigVars, At, Running, Goto, Return, Actors, FlushLabels, TracerLabels, HandlerLabels,
     LeavesTarget, Call, Spot
<1>3. "tracer" \in Actors /\ Running("tracer") /\ pc["tracer"] # "off" /\ sigVars' = sigVars
  BY DEF AfterRet, At, Actors
<1>4. Quiet /\ Exact("tracer") => Exact("tracer")'
  BY AfterRetExact DEF IInv
<1>. QED
  BY <1>1, <1>2, <1>3, <1>4, TextKept DEF IInv

LEMMA IntervalIInv ==
  ASSUME IInv, Interval, ~Recursive
  PROVE  IInv'
<1>1. Control'
  BY IntervalControl DEF IInv
<1>2. Flushed'
  BY DEF IInv, Control, TypeOK, Places, Crash, Flushed, Interval, insnVars, bufVars, fileVars,
     sigVars, At, Running, Goto, Return, Actors, FlushLabels, TracerLabels, HandlerLabels
<1>3. "tracer" \in Actors /\ Running("tracer") /\ pc["tracer"] # "off" /\ sigVars' = sigVars
  BY DEF Interval, At, Actors
<1>4. Quiet /\ Exact("tracer") => Exact("tracer")'
  BY IntervalExact DEF IInv
<1>. QED
  BY <1>1, <1>2, <1>3, <1>4, TextKept DEF IInv

LEMMA SalvageIInv ==
  ASSUME IInv, Salvage, ~Recursive
  PROVE  IInv'
<1>1. Control'
  BY SalvageControl DEF IInv
<1>2. Flushed'
  BY DEF IInv, Control, TypeOK, Places, Crash, Flushed, Salvage, insnVars, bufVars, fileVars,
     sigVars, At, Running, Goto, Return, Actors, FlushLabels, TracerLabels, HandlerLabels
<1>3. "handler" \in Actors /\ Running("handler") /\ pc["handler"] # "off" /\ sigVars' = sigVars
      /\ insns' = insns
  BY DEF Salvage, At, Actors, insnVars
<1>4. Quiet /\ Exact("handler") => Exact("handler")'
  BY SalvageExact DEF IInv
<1>5. \A n \in 0..insns : FdOpen /\ Saved(n) => FdOpen' /\ \E m \in 0..insns' : Saved(m)'
  BY <1>3, SalvageSaved DEF IInv
<1>. QED
  BY <1>1, <1>2, <1>3, <1>4, <1>5, TextKept DEF IInv

LEMMA CloseFdIInv ==
  ASSUME IInv, CloseFd, ~Recursive
  PROVE  IInv'
<1>1. Control'
  BY CloseFdControl DEF IInv
<1>2. Flushed'
  BY DEF IInv, Control, TypeOK, Places, Crash, Flushed, CloseFd, insnVars, bufVars, fileVars,
     sigVars, At, Running, Goto, Return, Actors, FlushLabels, TracerLabels, HandlerLabels
<1>3. "handler" \in Actors /\ Running("handler") /\ pc["handler"] # "off" /\ sigVars' = sigVars
      /\ insns' = insns
  BY DEF CloseFd, At, Actors, insnVars
<1>4. Quiet /\ Exact("handler") => Exact("handler")'
  BY CloseFdExact DEF IInv
<1>5. \A n \in 0..insns : FdOpen /\ Saved(n) => FdOpen' /\ \E m \in 0..insns' : Saved(m)'
  BY <1>3, CloseFdSaved DEF IInv
<1>. QED
  BY <1>1, <1>2, <1>3, <1>4, <1>5, TextKept DEF IInv

\* The files hold a beginning of the text.
LEMMA SomePrefix ==
  ASSUME IInv, hit # "none" \/ signals = 0, signals <= 1
  PROVE  \E n \in 0..insns : ToSet(Decoded) = 1..n
<1>1. CASE Hit
  BY <1>1 DEF IInv, Whatever, Saved
<1>2. CASE ~Hit
  <2>1. Quiet
    BY <1>2 DEF IInv, Control, Crash, TypeOK, Quiet, Hit
  <2>2. PICK a \in Actors : a = Actor
    BY DEF Actor, Actors
  <2>3. Exact(a)
    BY <2>1, <2>2 DEF IInv, TextExact
  <2>4. Decoded \in Seq(Nat) /\ Unsent(a) \in Seq(Nat) /\ Pending(a) \in Seq(Nat) /\ insns \in Nat
    BY SeqFacts DEF IInv
  <2>5. Unsent(a) \o Pending(a) \in Seq(Nat)
    BY <2>4
  <2>. QED
    BY <2>3, <2>4, <2>5, UptoPrefix DEF Exact
<1>. QED
  BY <1>1, <1>2

LEMMA SignalIInv ==
  ASSUME IInv, NEW where \in Where, Signal(where), ~Recursive
  PROVE  IInv'
<1>1. Control'
  BY SignalControl DEF IInv
<1>2. signals \in Nat /\ signals' = signals + 1 /\ hit = "none" /\ hit' = where
      /\ where \in {"guest", "tracer"} /\ ~dead'
  BY FileAssumption DEF IInv, Control, TypeOK, Signal
<1>3. TextExact'
  <2>1. SUFFICES ASSUME Quiet' PROVE Exact(Actor)'
    BY DEF TextExact
  <2>2. signals = 0 /\ where = "guest" /\ Actor' = "handler"
    BY <1>2, <2>1 DEF Quiet, Actor
  <2>3. Exact("tracer")
    BY <1>2, <2>2 DEF IInv, TextExact, Quiet, Actor
  <2>4. Exact("handler")'
    BY <2>2, <2>3, SignalExact DEF IInv
  <2>. QED
    BY <2>2, <2>4 DEF Exact, Unsent, Pending, InOrder
<1>4. Whatever'
  <2>1. SUFFICES ASSUME Hit' PROVE FdOpen' /\ \E n \in 0..insns' : Saved(n)'
    BY DEF Whatever
  <2>2. signals = 0 /\ where = "tracer"
    BY <1>2, <2>1 DEF Hit
  <2>3. Exact("tracer")
    BY <1>2, <2>2 DEF IInv, TextExact, Quiet, Actor
  <2>4. insns' = insns
    BY DEF Signal, insnVars
  <2>. QED
    BY <2>2, <2>3, <2>4, SignalSaved DEF IInv
<1>5. Flushed' /\ Buried'
  BY <1>2 DEF Flushed, Buried
<1>. QED
  BY <1>1, <1>3, <1>4, <1>5 DEF IInv

LEMMA ChainIInv ==
  ASSUME IInv, Chain, ~Recursive
  PROVE  IInv'
<1>1. Control'
  BY ChainControl DEF IInv
<1>2. signals' = signals /\ hit' = "none" /\ hit # "none" /\ signals \in Nat \ {0} /\ insns' = insns
  BY DEF IInv, Control, Crash, TypeOK, Chain, At, insnVars
<1>3. TextExact' /\ Whatever' /\ Flushed'
  BY <1>2 DEF TextExact, Whatever, Flushed, Quiet, Hit
<1>4. Buried'
  <2>1. Decoded' = Decoded
    BY DecodedKept DEF Chain, fileVars
  <2>. QED
    BY <1>2, <2>1, SomePrefix DEF Buried
<1>. QED
  BY <1>1, <1>3, <1>4 DEF IInv

LEMMA StutterIInv ==
  ASSUME IInv, UNCHANGED vars
  PROVE  IInv'
<1>1. Decoded' = Decoded /\ Output' = Output
  BY DecodedKept DEF vars, fileVars
<1>2. Control'
  BY DEF IInv, Control, TypeOK, Places, Crash, Call, Spot, vars, insnVars, bufVars, fileVars,
     sigVars
<1>3. TextExact'
  BY <1>1 DEF IInv, TextExact, Quiet, Actor, Exact, FdOpen, InOrder, Unsent, Pending, Upto,
              vars, insnVars, bufVars, fileVars, sigVars
<1>4. Flushed'
  BY DEF IInv, Flushed, vars, insnVars, bufVars, fileVars, sigVars
<1>5. Whatever' /\ Buried'
  BY <1>1 DEF IInv, Whatever, Hit, Saved, Lost, Joins, PendingLines, InOrder, FdOpen, Buried,
              vars, insnVars, bufVars, fileVars, sigVars
<1>. QED
  BY <1>2, <1>3, <1>4, <1>5 DEF IInv

LEMMA NextIInv ==
  ASSUME IInv, [Next]_vars, ~Recursive
  PROVE  IInv'
<1>1. ASSUME NEW a \in Actors, BufferStep(a)
      PROVE  IInv'
  BY <1>1, WriteIInv, ResetBuilderIInv, CompressIInv, WriteHeaderIInv, WriteBodyIInv,
     ResetPosIInv, FlushLockIInv, FlushHandoffIInv, Zenon DEF BufferStep
<1>2. CASE TracerStep
  <2>1. "tracer" \in Actors
    BY DEF Actors
  <2>. QED
    BY <1>1, <1>2, <2>1, ReopenIInv, AppendLineIInv, AfterRetIInv, IntervalIInv, Zenon
       DEF TracerStep
<1>3. CASE HandlerStep
  <2>1. "handler" \in Actors
    BY DEF Actors
  <2>. QED
    BY <1>1, <1>3, <2>1, SalvageIInv, CloseFdIInv, ChainIInv, Zenon DEF HandlerStep
<1>4. CASE \E k \in Kinds : NextInsn(k)
  BY <1>4, NextInsnIInv
<1>5. CASE \E where \in Where : Signal(where)
  BY <1>5, SignalIInv
<1>6. CASE UNCHANGED vars
  BY <1>6, StutterIInv
<1>. QED
  BY <1>2, <1>3, <1>4, <1>5, <1>6, Zenon DEF Next, Terminated

\* For a target that does not call itself, whatever the thread and the signal do, IInv is
\* an inductive invariant: what is decodable in the files, then the buffers, then the
\* lines still pending, is in order the text of every instruction traced so far.
THEOREM Invariance ==
  ASSUME ~Recursive
  PROVE  Spec => []IInv
<1>1. Init => IInv
  BY InitIInv
<1>2. IInv /\ [Next]_vars => IInv'
  BY NextIInv
<1>. QED
  BY <1>1, <1>2, PTL DEF Spec

-----------------------------------------------------------------------------
(* Theorems.                                                               *)

\* At most one signal arrives, or none of the handlers installed before returns.
OneCrash == ~Recovers \/ MaxSignals <= 1

\* When the handler is about to pass on a fault in traced code (or exit() ends), in
\* file mode, the files decode to every instruction traced, each once and in order.
THEOREM CrashKeepsTraceAlways ==
  ASSUME ~Recursive, OneCrash
  PROVE  Spec => []CrashKeepsTrace
<1>1. ASSUME IInv PROVE CrashKeepsTrace
  <2>1. SUFFICES ASSUME pc["handler"] = "chain", hit = "guest", ~bg_running
                 PROVE  Decoded = Upto(insns)
    BY DEF CrashKeepsTrace
  <2>2. signals = 1 /\ Quiet /\ Actor = "handler"
    BY <1>1, <2>1 DEF IInv, Control, Crash, TypeOK, OneCrash, Quiet, Actor
  <2>3. Exact("handler")
    BY <1>1, <2>2 DEF IInv, TextExact
  <2>4. bufs = <<>> /\ stringBuilder = 0
    BY <1>1, <2>1, <2>3 DEF IInv, Control, Call, Spot, FlushLabels, Exact
  <2>5. Unsent("handler") \o Pending("handler") = <<>>
    BY <2>4 DEF Unsent, Pending
  <2>6. Decoded \in Seq(Nat)
    BY <1>1, DecodedTyped DEF IInv, Control
  <2>. QED
    BY <2>3, <2>5, <2>6 DEF Exact
<1>. QED
  BY <1>1, Invariance, PTL

\* When the target, called from wherever, has returned to the place its first call
\* came from, the files decode to all instructions traced so far.
THEOREM FirstSiteFlushesAlways ==
  ASSUME ~Recursive
  PROVE  Spec => []FirstSiteFlushes
<1>1. ASSUME IInv PROVE FirstSiteFlushes
  <2>1. SUFFICES ASSUME depth = 0, lr = entryLr, pc["tracer"] = "guest", signals = 0
                 PROVE  Decoded = Upto(insns)
    BY DEF FirstSiteFlushes
  <2>2. bufs = <<>> /\ stringBuilder = 0
    BY <1>1, <2>1 DEF IInv, Flushed, Control, Call
  <2>3. Exact("tracer")
    BY <1>1, <2>1 DEF IInv, Control, Crash, TextExact, Quiet, Actor
  <2>4. Unsent("tracer") \o Pending("tracer") = <<>>
    BY <2>2 DEF Unsent, Pending
  <2>5. Decoded \in Seq(Nat)
    BY <1>1, DecodedTyped DEF IInv, Control
  <2>. QED
    BY <2>3, <2>4, <2>5 DEF Exact
<1>. QED
  BY <1>1, Invariance, PTL

\* Wherever the signal strikes, also in the middle of a frame or between two
\* assignments of flush(), a line that can be decoded has all lines before it.
THEOREM NoHolesAlways ==
  ASSUME ~Recursive, OneCrash
  PROVE  Spec => []NoHoles
<1>1. ASSUME IInv PROVE NoHoles
  <2>1. signals \in Nat /\ (Survived \/ signals <= 1)
    BY <1>1 DEF IInv, Control, Crash, TypeOK, OneCrash, Survived
  <2>2. CASE hit # "none" \/ signals = 0
    BY <1>1, <2>1, <2>2, SomePrefix DEF NoHoles, Survived
  <2>3. CASE hit = "none" /\ signals = 1
    BY <1>1, <2>3 DEF IInv, Buried, NoHoles, Survived
  <2>. QED
    BY <2>1, <2>2, <2>3 DEF NoHoles
<1>. QED
  BY <1>1, Invariance, PTL
=============================================================================
