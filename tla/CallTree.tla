------------------------------ MODULE CallTree ------------------------------
(***************************************************************************)
(* build_calltree.py reads a trace line by line and rebuilds who called    *)
(* whom.  The traced program is modelled beside it: every instruction of   *)
(* the library becomes a line, code outside of it leaves none, and what    *)
(* the script believes can be compared with what the program did.          *)
(***************************************************************************)
EXTENDS Naturals, SequencesExt, FiniteSetsExt, BagsExt

CONSTANTS
  Funcs,       \* offsets of the functions of the library, naturals
  Entry,       \* the traced function
  Leaves,      \* may the program leave the library? (BOOLEAN)
  TailCalls,   \* may a function end in a branch to another one? (BOOLEAN)
  TreeDepth,   \* 60: depth at which the tree is cut
  MaxDepth,    \* bound: depth of the program's calls
  MaxLines     \* bound: instructions

VARIABLES
  \* the program: active functions, is the next instruction the first of one,
  \* and the bag of entries <<caller, function, how>>
  active, fresh, made,
  \* parse_file
  stack, pending, edges, entry_set, n

progVars == <<active, fresh, made>>
parseVars == <<stack, pending, edges, entry_set, n>>
vars == <<progVars, parseVars>>

None == 0
\* libc, JNI, another library: code that leaves no line.
Foreign == 1
\* The first instruction of a function stands at its offset, the others after it.
Body(f) == f + 1

-----------------------------------------------------------------------------
(* parse_file: one line with offset `off` and mnemonic `mn`.               *)

\* Mutant of Popped: returns are not looked at.
PoppedNever(s) == s

\* A return leaves the entry on the stack, whatever called it.
Popped(s) == IF Len(s) > 1 THEN Front(s) ELSE s

parse_line(off, mn) ==
  LET entry == IF entry_set = None THEN off ELSE entry_set
      s0 == IF stack = << >> THEN <<entry>> ELSE stack
      s1 == IF pending = None THEN s0 ELSE Append(s0, off)
  IN /\ entry_set' = entry
     /\ edges' = IF pending = None THEN edges
                 ELSE edges (+) SetToBag({<<pending, off>>})
     /\ stack' = IF mn = "ret" THEN Popped(s1) ELSE s1
     /\ pending' = IF mn \in {"bl", "blr"} THEN Last(s1) ELSE None
     /\ n' = n + 1

-----------------------------------------------------------------------------
(* The program.                                                            *)

Top == Last(active)

\* The line of the instruction the innermost function is at.
Here == IF fresh THEN Top ELSE Body(Top)

\* Is the next instruction one of the library?
Running == active # << >> /\ Top # Foreign /\ n < MaxLines

Targets == Funcs \cup (IF Leaves THEN {Foreign} ELSE {})

\* The functions in `below` and then f are active.
Enter(below, f, how) ==
  /\ active' = Append(below, f) /\ fresh' = (f # Foreign)
  /\ made' = made (+) SetToBag({<<IF active = << >> THEN Foreign ELSE Top, f, how>>})

Plain ==
  /\ Running /\ fresh' = FALSE
  /\ parse_line(Here, "other")
  /\ UNCHANGED <<active, made>>

Call(f, mn) ==
  /\ Running /\ Len(active) < MaxDepth
  /\ Enter(active, f, "call") /\ parse_line(Here, mn)

\* b, br: f returns to the caller of this function.
TailCall(f) ==
  /\ Running /\ TailCalls
  /\ Enter(Front(active), f, "branch") /\ parse_line(Here, "other")

Ret ==
  /\ Running
  /\ active' = Front(active) /\ fresh' = FALSE /\ made' = made
  /\ parse_line(Here, "ret")

\* Code without lines calls the library back, ...
CallBack(f) ==
  /\ active # << >> /\ Top = Foreign /\ Len(active) < MaxDepth /\ n < MaxLines
  /\ Enter(active, f, "call") /\ UNCHANGED parseVars

\* ... or returns.
RetForeign ==
  /\ active # << >> /\ Top = Foreign
  /\ active' = Front(active)
  /\ UNCHANGED <<fresh, made, parseVars>>

\* In TCP mode the next call of the target goes on in the same log.
CallAgain ==
  /\ active = << >> /\ n < MaxLines
  /\ Enter(active, Entry, "call") /\ UNCHANGED parseVars

Init ==
  /\ active = <<Entry>> /\ fresh = TRUE /\ made = SetToBag({<<Foreign, Entry, "call">>})
  /\ stack = << >> /\ pending = None /\ edges = EmptyBag /\ entry_set = None /\ n = 0

Terminated == n = MaxLines /\ UNCHANGED vars

Next ==
  \/ Plain \/ Ret \/ RetForeign \/ CallAgain \/ Terminated
  \/ \E f \in Targets, mn \in {"bl", "blr"} : Call(f, mn)
  \/ \E f \in Targets : TailCall(f)
  \/ \E f \in Funcs : CallBack(f)

Spec == Init /\ [][Next]_vars

-----------------------------------------------------------------------------
(* write_outputs: the tree below the entry.                                *)

Callees(f) == {e[2] : e \in {d \in BagToSet(edges) : d[1] = f}}
Sorted(S) == SetToSortSeq(S, <)

\* Mutant of Shown: a function is expanded wherever it is called.
ShownNever(L, off) == FALSE

\* Has the tree a place for the function already? (expanded)
Shown(L, off) == \E i \in DOMAIN L : L[i][1] = off /\ L[i][3] \in {"expanded", "cut"}

\* pr(off, depth, anc): one <<function, depth, kind>> per line of the tree.
RECURSIVE pr(_, _, _, _)
pr(L, off, depth, anc) ==
  LET ch == Callees(off)
  IN IF off \in anc THEN Append(L, <<off, depth, "recursion">>)
     ELSE IF Shown(L, off)
     THEN Append(L, <<off, depth, IF ch # {} THEN "see" ELSE "again">>)
     ELSE IF depth >= TreeDepth /\ ch # {} THEN Append(L, <<off, depth, "cut">>)
     ELSE FoldLeft(LAMBDA acc, f : pr(acc, f, depth + 1, anc \cup {off}),
                   Append(L, <<off, depth, "expanded">>), Sorted(ch))

tree == pr(<< >>, Entry, 0, {})

-----------------------------------------------------------------------------
(* Properties.                                                             *)

Sum(B, T(_)) == BagCardinality([e \in {d \in DOMAIN B : T(d)} |-> B[e]])

\* Entries of f, and those of them that are a bl or blr of the library.
Entries(f) == Sum(made, LAMBDA m : m[2] = f)
Direct(f) == Sum(made, LAMBDA m : m[2] = f /\ m[1] # Foreign /\ m[3] = "call")
Counted(f) == Sum(edges, LAMBDA e : e[2] = f)
\* Has every entry so far, but those by the hook, been a bl or blr of the library?
Simple == \A m \in DOMAIN made :
  m[3] = "call" /\ m[2] # Foreign /\ (m[1] = Foreign => m[2] = Entry)

\* How often the library's c[1] has entered c[2].
Calls == [c \in Funcs \X Funcs |-> Sum(made, LAMBDA m : m[1] = c[1] /\ m[2] = c[2])]

\* What holds of the counts for every program, one that leaves the library, is
\* called back and ends in tail calls included: each bl or blr of a function of
\* the library is counted for its callee, and no function is counted more often
\* than it was entered.  And as long as bl and blr within the library are all
\* the program uses, returns keep the stack in step: every caller is the true one.
\* (Asked where the function last entered has its first line in the trace.)
CallsCounted ==
  ~fresh =>
    /\ \A f \in Funcs : Direct(f) <= Counted(f) /\ Counted(f) <= Entries(f)
    /\ Simple => \A c \in Funcs \X Funcs : CopiesIn(c, edges) = Calls[c]

\* The script's promise: "who called whom, and how often each function was
\* called" (docs/TRACE.md:249).  Violated by a program that leaves the library
\* (the return address is counted as a function, and its entry stays on the
\* stack) and by a tail call (no call at all, and the callee's calls go to the
\* function that left).
EdgesAreCalls ==
  ~fresh =>
    /\ BagToSet(edges) \subseteq Funcs \X Funcs
    /\ \A c \in Funcs \X Funcs : CopiesIn(c, edges) = Calls[c]

\* Who calls whom in the tree t: the line closest above j that is less deep.
Parent(t, j) == Max({i \in 1..(j - 1) : t[i][2] < t[j][2]})
TreeEdges(t) == {<<t[Parent(t, j)][1], t[j][1]>> : j \in 2..Len(t)}

Lines(t, off, kinds) == {i \in DOMAIN t : t[i][1] = off /\ t[i][3] \in kinds}

\* The tree is the call graph, however wrong that is: every call counted is
\* reached from the entry (no stack the script builds loses it), a call is missing
\* only at or below a function that is cut, no call is invented, and the callees
\* of a function are listed once.
TreeShowsCalls ==
  LET t == tree
      shown == TreeEdges(t)
      counted == BagToSet(edges)
  IN /\ shown \subseteq counted
     /\ (\A i \in DOMAIN t : t[i][3] # "cut") => shown = counted
     /\ \A e \in counted \ shown : Lines(t, e[1], {"expanded"}) = {}
     /\ \A i \in DOMAIN t : Cardinality(Lines(t, t[i][1], {"expanded", "cut"})) = 1

\* The legend: "[see L] the function was expanded once before; to see what it
\* calls, go to the line" (build_calltree.py:70-71).  Violated: the line of a
\* function first met where the tree is cut is remembered too, and shows nothing.
SeeShowsCallees ==
  LET t == tree
  IN \A i \in DOMAIN t :
       t[i][3] = "see" => \E j \in Lines(t, t[i][1], {"expanded"}) : j < i
=============================================================================
