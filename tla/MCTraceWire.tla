----------------------------- MODULE MCTraceWire -----------------------------
(* A small instance of TraceWire.                                           *)
EXTENDS TraceWire, TLC

CONSTANTS c1, c2

\* Two threads, one session.
MCTids == {1, 2}
MCTidOf == (c1 :> 1) @@ (c2 :> 2)
=============================================================================
