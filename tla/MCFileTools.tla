---------------------------- MODULE MCFileTools ----------------------------
(* Small instances of what happens to a trace file, each on its own:       *)
(* FileTrace writes it, Lz4Block is the code of its blocks, and CallTree   *)
(* reads what comes out.  They share no state; `which` is the one this     *)
(* behaviour runs, chosen from Which.                                      *)
EXTENDS MCFileTrace

CONSTANTS
  Which,
  Symbols, Sizes, Hashes, MinMatch, LastLits, MFLimit, RunMask, ByteMax, Slack, Accel,
  MaxBlocks,
  Funcs, Entry, Leaves, TailCalls, TreeDepth, MaxDepth, MaxLines

VARIABLES
  which,
  htab, block, phase, ip, anchor, ref, fwd, step, searchLimit, out, blocks,
  active, fresh, made, stack, pending, edges, entry_set, n

Hash(g) == (g[1] + 2 * g[2] + g[3]) % 3

Block == INSTANCE Lz4Block
Tree == INSTANCE CallTree

blockVars == <<htab, block, phase, ip, anchor, ref, fwd, step, searchLimit, out, blocks>>
treeVars == <<active, fresh, made, stack, pending, edges, entry_set, n>>

ToolsInit ==
  /\ which \in Which /\ Init /\ Block!Init /\ Tree!Init
  /\ which # "file" => ~bg_running

\* The handler waits for a mutex that the thread it interrupted holds, for ever
\* (CrashProceeds): the one place where something stops that should not.
Stuck == hit # "none" /\ bg_mtx = "tracer" /\ UNCHANGED vars

ToolsNext ==
  /\ which' = which
  /\ \/ which = "file" /\ (Next \/ Stuck) /\ UNCHANGED <<blockVars, treeVars>>
     \/ which = "block" /\ Block!Next /\ UNCHANGED <<vars, treeVars>>
     \/ which = "tree" /\ Tree!Next /\ UNCHANGED <<vars, blockVars>>

ToolsSpec == ToolsInit /\ [][ToolsNext]_<<which, vars, blockVars, treeVars>>

\* What the compressor makes of a text decodes to that text (Lz4Block!RoundTrip).
RoundTrip == which = "block" => Block!RoundTrip

\* The counts of the call graph (CallTree!CallsCounted).
CallsCounted == which = "tree" => Tree!CallsCounted

\* The printed tree is the call graph (CallTree!TreeShowsCalls).
TreeShowsCalls == which = "tree" => Tree!TreeShowsCalls

\* Who called whom, and how often (CallTree!EdgesAreCalls).  Violated: see
\* Findings in the README.
EdgesAreCalls == which = "tree" => Tree!EdgesAreCalls

\* A reference leads to the callees (CallTree!SeeShowsCallees).  Violated: see
\* Findings in the README.
SeeShowsCallees == which = "tree" => Tree!SeeShowsCallees
=============================================================================
