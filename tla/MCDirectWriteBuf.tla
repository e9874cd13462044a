-------------------------- MODULE MCDirectWriteBuf --------------------------
(* Small instances of DirectWriteBuf.                                      *)
EXTENDS DirectWriteBuf

\* With BufSize = 2: a text that fits twice, one that fills the buffer and one
\* that needs three chunks.
MCLens == {1, 2, 5}
=============================================================================
