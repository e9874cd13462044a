---------------------------- MODULE DoubleBuffer ----------------------------
(***************************************************************************)
(* What a TCP-mode DirectWriteBuf promises its owner, without threads,     *)
(* locks or condition variables: bytes put into a bounded buffer reach the *)
(* socket once each and in order, at most one full buffer is in flight     *)
(* while the next one is filled, and closing leaves nothing behind.        *)
(***************************************************************************)
EXTENDS Integers, Sequences

CONSTANT Capacity      \* bytes one buffer can hold

VARIABLES
  produced,  \* number of bytes put so far; byte k of the stream is k
  filling,   \* the bytes in the buffer being filled
  inFlight,  \* the bytes of the buffer handed over and not yet on the socket
  onSocket,  \* the bytes the socket has been given
  closed

dbVars == <<produced, filling, inFlight, onSocket, closed>>

NextBytes(n) == [i \in 1..n |-> produced + i]

DBInit ==
  /\ produced = 0
  /\ filling = <<>> /\ inFlight = <<>> /\ onSocket = <<>>
  /\ closed = FALSE

Put(n) ==
  /\ ~closed
  /\ Len(filling) + n <= Capacity
  /\ filling' = filling \o NextBytes(n)
  /\ produced' = produced + n
  /\ UNCHANGED <<inFlight, onSocket, closed>>

\* Only one buffer is ever in flight: the second one is being filled.
Handoff ==
  /\ ~closed
  /\ filling # <<>> /\ inFlight = <<>>
  /\ inFlight' = filling
  /\ filling' = <<>>
  /\ UNCHANGED <<produced, onSocket, closed>>

Transmit ==
  /\ inFlight # <<>>
  /\ onSocket' = onSocket \o inFlight
  /\ inFlight' = <<>>
  /\ UNCHANGED <<produced, filling, closed>>

\* Nothing may be left in either buffer.
Close ==
  /\ ~closed
  /\ filling = <<>> /\ inFlight = <<>>
  /\ closed' = TRUE
  /\ UNCHANGED <<produced, filling, inFlight, onSocket>>

Reopen ==
  /\ closed
  /\ closed' = FALSE
  /\ UNCHANGED <<produced, filling, inFlight, onSocket>>

DBNext == (\E n \in 1..Capacity : Put(n)) \/ Handoff \/ Transmit \/ Close \/ Reopen

DBSpec == DBInit /\ [][DBNext]_dbVars
=============================================================================
