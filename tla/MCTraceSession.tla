--------------------------- MODULE MCTraceSession ---------------------------
(* Small instances of TraceSession.                                        *)
EXTENDS TraceSession, TLC

\* Threads, functions and heap addresses are interchangeable.
MCSymmetry == Permutations(AppThreads) \cup Permutations(SpawnThreads)
                \cup Permutations(UserFuncs) \cup Permutations(Addrs)
=============================================================================
