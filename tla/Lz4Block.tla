------------------------------ MODULE Lz4Block ------------------------------
(***************************************************************************)
(* lz4_block.h against the decompressor of trace_receiver.py.  A thread    *)
(* compresses one block after the other with a hash table that is never    *)
(* cleared, so the search meets offsets of earlier blocks.  The numbers of *)
(* the format are parameters: a small instance meets every length          *)
(* extension, window and end-of-block case.                                *)
(***************************************************************************)
EXTENDS Integers, SequencesExt

CONSTANTS
  Symbols,    \* the bytes of a text, a set of naturals
  Sizes,      \* lengths of the blocks
  Hash(_),    \* hash4 of MinMatch bytes
  Hashes,     \* its values
  MinMatch,   \* 4 in the code
  LastLits,   \* 5: a match ends this far from the end of the block ...
  MFLimit,    \* 12: ... and starts this far from it
  RunMask,    \* 15: longest length a nibble of the token holds
  ByteMax,    \* 255
  Slack,      \* 16
  Accel,      \* 64: probes without a match before the step grows
  MaxBlocks   \* bound: blocks compressed

Window == (ByteMax + 1) * (ByteMax + 1) - 1   \* 0xFFFF

VARIABLES
  htab,       \* per thread, kept between blocks
  block,      \* the text being compressed
  phase,      \* "idle", "search", "encode", "last", "done"
  ip, anchor, ref,
  fwd, step, searchLimit,
  out,        \* bytes written; empty after a return of 0
  blocks

search == <<ip, ref, fwd, step, searchLimit>>
vars == <<htab, block, phase, search, anchor, out, blocks>>

srcSize == Len(block)
mflimit == srcSize - MFLimit
matchlimit == srcSize - LastLits
At(i) == block[i + 1]                          \* base[i]
Four(i) == [k \in 1..MinMatch |-> At(i + k - 1)]

lz4_compress_bound(n) == n + n \div ByteMax + Slack
olimit == lz4_compress_bound(srcSize)

\* A length of at least RunMask goes on in bytes of 255 and one below it.
LengthBytes(n) ==
  IF n < RunMask THEN << >>
  ELSE [k \in 1..((n - RunMask) \div ByteMax) |-> ByteMax]
       \o << (n - RunMask) % ByteMax >>

Nibble(n) == IF n < RunMask THEN n ELSE RunMask
Token(lit, ml) == Nibble(lit) * (RunMask + 1) + Nibble(ml)
Literals(from, to) == [k \in 1..(to - from) |-> At(from + k - 1)]
Offset(d) == << d % (ByteMax + 1), d \div (ByteMax + 1) >>

-----------------------------------------------------------------------------

\* The next search starts at i.
SearchFrom(i) ==
  /\ ip' = i /\ ref' = 0
  /\ fwd' = i /\ step' = 1 /\ searchLimit' = Accel

Begin(text) ==
  /\ phase \in {"idle", "done"} /\ blocks < MaxBlocks
  /\ block' = text /\ blocks' = blocks + 1
  /\ anchor' = 0 /\ out' = << >>
  /\ IF Len(text) < MFLimit + 1
     THEN phase' = "last" /\ htab' = htab /\ SearchFrom(0)
     ELSE /\ phase' = "search" /\ SearchFrom(1)
          /\ htab' = [htab EXCEPT ![Hash(SubSeq(text, 1, MinMatch))] = 0]

\* Mutant of Candidate: the position itself is followed.
CandidateSelf(cand, curOff) == cand <= curOff

\* A candidate may be of an earlier block: only offsets before ip are followed.
Candidate(cand, curOff) == cand < curOff

\* One round of the match search.
Probe ==
  /\ phase = "search"
  /\ ip' = fwd /\ fwd' = fwd + step
  /\ step' = searchLimit \div Accel /\ searchLimit' = searchLimit + 1
  /\ IF fwd + step > mflimit
     THEN phase' = "last" /\ UNCHANGED <<htab, ref>>
     ELSE LET h == Hash(Four(fwd))
              cand == htab[h]
          IN /\ htab' = [htab EXCEPT ![h] = fwd]
             /\ ref' = cand
             /\ phase' = IF Candidate(cand, fwd) /\ Four(cand) = Four(fwd)
                            /\ fwd - cand <= Window
                         THEN "encode" ELSE "search"
  /\ UNCHANGED <<block, anchor, out, blocks>>

\* Bytes that match after the first MinMatch.
MatchLength ==
  Max({m \in 0..(srcSize - MinMatch - ip) :
         /\ m > 0 => ip + MinMatch + m <= matchlimit
         /\ \A k \in 0..(m - 1) : At(ip + MinMatch + k) = At(ref + MinMatch + k)})

\* Literals, offset and match length of one sequence.
Encode ==
  /\ phase = "encode"
  /\ LET litLen == ip - anchor
         ml == MatchLength
         end == ip + MinMatch + ml
         op == Len(out) + 1
         op2 == op + Len(LengthBytes(litLen)) + litLen + 2
     IN IF \/ op + litLen + litLen \div ByteMax + Slack > olimit
           \/ ml >= RunMask /\ op2 + (ml - RunMask) \div ByteMax + 2 > olimit
        THEN /\ phase' = "done" /\ out' = << >>
             /\ UNCHANGED <<htab, search, anchor>>
        ELSE /\ out' = out \o <<Token(litLen, ml)>> \o LengthBytes(litLen)
                       \o Literals(anchor, ip) \o Offset(ip - ref) \o LengthBytes(ml)
             /\ anchor' = end
             /\ IF end >= mflimit
                THEN phase' = "last" /\ SearchFrom(end) /\ htab' = htab
                ELSE /\ phase' = "search" /\ SearchFrom(end)
                     /\ htab' = [htab EXCEPT ![Hash(Four(end - 2))] = end - 2]
  /\ UNCHANGED <<block, blocks>>

LastLiterals ==
  /\ phase = "last"
  /\ LET lastRun == srcSize - anchor
     IN out' = IF Len(out) + lastRun + 1 + lastRun \div ByteMax > olimit THEN << >>
               ELSE out \o <<Token(lastRun, 0)>> \o LengthBytes(lastRun)
                    \o Literals(anchor, srcSize)
  /\ phase' = "done"
  /\ UNCHANGED <<htab, block, search, anchor, blocks>>

Texts == UNION {[1..n -> Symbols] : n \in Sizes}

Init ==
  /\ htab = [h \in Hashes |-> 0] /\ block = << >> /\ phase = "idle"
  /\ ip = 0 /\ anchor = 0 /\ ref = 0 /\ fwd = 0 /\ step = 1 /\ searchLimit = Accel
  /\ out = << >> /\ blocks = 0

Terminated == phase = "done" /\ blocks = MaxBlocks /\ UNCHANGED vars

Next == (\E text \in Texts : Begin(text)) \/ Probe \/ Encode \/ LastLiterals \/ Terminated

Spec == Init /\ [][Next]_vars

-----------------------------------------------------------------------------
(* _lz4_decompress_block_py.                                               *)

Corrupt == << -1 >>

\* A length that goes on after the token: <<length, next index>>.
RECURSIVE ReadLength(_, _, _)
ReadLength(src, si, n) ==
  IF si > Len(src) THEN <<n, si>>
  ELSE IF src[si] = ByteMax THEN ReadLength(src, si + 1, n + ByteMax)
  ELSE <<n + src[si], si + 1>>

\* A match is copied byte by byte, so that it may overlap what it makes.
CopyMatch(dst, offset, ml) ==
  FoldLeft(LAMBDA d, i : Append(d, d[Len(d) - offset + 1]), dst, [i \in 1..ml |-> i])

RECURSIVE Decompress(_, _, _)
Decompress(src, start, dst) ==
  IF start > Len(src) THEN dst
  ELSE LET token == src[start]
           lit == token \div (RunMask + 1)
           ext == IF lit = RunMask THEN ReadLength(src, start + 1, lit) ELSE <<lit, start + 1>>
           si == ext[2] + ext[1]
           text == dst \o SubSeq(src, ext[2], si - 1)
       IN IF si > Len(src) THEN text
          ELSE IF si = Len(src) THEN Corrupt
          ELSE LET offset == src[si] + src[si + 1] * (ByteMax + 1)
                   nib == token % (RunMask + 1)
                   ml == IF nib = RunMask THEN ReadLength(src, si + 2, nib + MinMatch)
                                          ELSE <<nib + MinMatch, si + 2>>
               IN IF offset = 0 \/ offset > Len(text) THEN Corrupt
                  ELSE Decompress(src, ml[2], CopyMatch(text, offset, ml[1]))

\* A frame decodes to the text it was made of: whatever earlier blocks left in
\* the hash table ("only candidates in this block and strictly before ip"), the
\* output never exceeds lz4_compress_bound (a return of 0 drops the buffer), and
\* the decompressor gives back the block.
RoundTrip ==
  phase = "done" => out # << >> /\ Decompress(out, 1, << >>) = block
=============================================================================
