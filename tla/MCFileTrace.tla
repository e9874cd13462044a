---------------------------- MODULE MCFileTrace ----------------------------
(* Small instances of FileTrace.                                           *)
EXTENDS FileTrace

MCTracer == {"tracer"}
MCAnywhere == {"guest", "tracer"}
=============================================================================
