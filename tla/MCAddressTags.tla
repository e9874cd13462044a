---------------------------- MODULE MCAddressTags ----------------------------
(* A small instance of AddressTags: a library of two segments and another  *)
(* that is loaded beside it or in its place; beyond them, anonymous memory,*)
(* which also comes where a library was.                                   *)
EXTENDS AddressTags, TLC

CONSTANTS A, B

MCSegs == 0..2
Layout(l) == [s \in MCSegs |-> l[s + 1]]
MCApart == {Layout(<<A, A, Anon>>), Layout(<<NoMap, B, Anon>>)}
MCReloaded == {Layout(<<A, A, Anon>>), Layout(<<B, NoMap, Anon>>)}
MCUnloaded == {Layout(<<A, A, Anon>>), Layout(<<NoMap, Anon, Anon>>)}

\* A symbol with a size, and one without.
MCSymbols == A :> {[off |-> 0, size |-> 1]} @@ B :> {[off |-> 0, size |-> 0]}

MCSymmetry == Permutations(Threads)
=============================================================================
