---------------------------- MODULE MCUnidbgDump ----------------------------
(* A mapping of two pages, and a huge one whose page 3 holds the stacks.     *)
EXTENDS UnidbgDump, TLC
MCSegment == (1 :> "heap") @@ (2 :> "heap") @@ (3 :> "dalvik")
MCStack == [th \in Threads |-> {3}]
MCSymmetry == Permutations(Threads)
=============================================================================
