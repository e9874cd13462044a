---------------------------- MODULE MCInsnTrace ----------------------------
(* A target of three instructions and RET at 1..4, a helper at 5..6, two JNI *)
(* wrappers at 7..8 (BLR) and 9 (BR), and stubs at 10..17.                   *)
EXTENDS InsnTrace

I(op, arg) == [op |-> op, arg |-> arg]

MCAddrs == 1..17
MCPlt == 10..17
MCOpen == 20
MCClose == 21
MCRead == 22
MCPipe == 23
MCFindClass == 30
MCGot == (10 :> MCOpen) @@ (11 :> MCClose) @@ (12 :> MCRead) @@ (13 :> MCPipe)
         @@ (14 :> 7) @@ (15 :> 9) @@ (16 :> MCFindClass) @@ (17 :> MCRead)
MCKind == (MCOpen :> "open") @@ (MCClose :> "close") @@ (MCRead :> "read") @@ (MCPipe :> "pipe")

Fixed == (4 :> I("ret", 0)) @@ (5 :> I("str", 0)) @@ (6 :> I("ret", 0))
         @@ (7 :> I("blr", MCFindClass)) @@ (8 :> I("ret", 0)) @@ (9 :> I("br", MCFindClass))
         @@ [a \in MCPlt |-> I("br", 0)]

Plain == {I("mov", 0), I("ldr", 0), I("cbz", 4), I("bl", 5)}
ToLibc == {I("bl", p) : p \in 10..13}
Register == {I("blr", MCPipe), I("br", MCRead), I("bl", 17)}
ToKernel == {I("svc", nr) : nr \in {"openat", "close"}}
ToJni == {I("bl", p) : p \in 14..16} \cup {I("blr", MCFindClass)}

\* Programs of one menu.
Of(menu) == {(1 :> a) @@ (2 :> b) @@ (3 :> c) @@ Fixed : a, b, c \in menu}
MCPrograms == Of(Plain \cup ToLibc) \cup Of(Plain \cup ToKernel)
              \cup Of(ToJni \cup {I("mov", 0), I("ldr", 0), I("bl", 10)})
              \cup Of(Register \cup {I("blr", MCFindClass), I("ldr", 0)} \cup {I("bl", p) : p \in {10, 11, 14, 16}})

\* Calls by BLR; tail calls, which are B and BR instead of BL; libc and system calls
\* mixed; no calls at all; accesses only.
MCByRegister == Of({I("blr", MCPipe), I("blr", MCFindClass), I("mov", 0)})
MCTailCalls == Of({I("b", 10), I("b", 14), I("mov", 0)})
MCMixed == Of(ToLibc \cup ToKernel)
MCMoves == Of({I("mov", 0), I("str", 0)})
MCLoads == Of({I("ldr", 0)})
=============================================================================
