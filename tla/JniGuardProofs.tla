--------------------------- MODULE JniGuardProofs ---------------------------
(***************************************************************************)
(* The helpers of the JNI tracer are transparent: whichever of their calls *)
(* fail, each leaves the pending exception and the local references as it  *)
(* found them.  IInv relates every activation to the environment it was    *)
(* entered in and to the one it sees now, which is that of the helper it   *)
(* runs, if it runs one.                                                   *)
(*                                                                         *)
(* The chained ones call nothing that ART refuses under an exception       *)
(* (Safe): after a call that failed, every such call to come lacks a       *)
(* handle it needs.                                                        *)
(*                                                                         *)
(* Reflection caches a partial signature only after a call that threw      *)
(* (CInv): if none has, what comes to the write with a name has found all  *)
(* that its program asks for.                                              *)
(***************************************************************************)
EXTENDS JniGuard, FiniteSetTheorems, SequenceTheorems, TLAPS

-----------------------------------------------------------------------------
(* Types.                                                                  *)

Excs == {"none", "app", "trace"}
Frames == Seq(Int) \ {<< >>}
Fns ==
  SafeFns \cup RefFns \cup Helpers \cup
  {"GetMethodID", "GetStringUTFChars", "CallIntMethod", "GetArrayLength", "IsInstanceOf",
   "IsMethod", "IsCtor", "IsObject", "IsArray", "guard", "unguard", "for", "next",
   "set", "piece", "cache", "cacheAll"}
Handles ==
  {"void", "text", "classClass", "mid", "nameStr", "utf", "cls", "mid_hash", "hash",
   "strCls", "isStr", "elem", "arr", "obj", "frame", "reflected", "clsMethod", "clsCtor",
   "isMethod", "mid_getName", "name_ref", "name", "mid_getParams", "mid_getReturn",
   "isCtor", "known", "clsClass", "mid_clsGetName", "params", "count", "paramCls",
   "pName", "pUtf", "sig", "retCls", "rName", "rUtf", "info", "clsField",
   "mid_getType", "typeCls", "tName", "tUtf", "clazz", "ret"}
Stmts == [fn : Fns, needs : SUBSET Handles, unless : SUBSET Handles, gives : Handles]
Scopes == [helper : Helpers \cup {"handler"}, prog : Seq(Stmts), at : Nat, i : Nat,
           have : SUBSET Handles, saved : Excs, sig : Nat, before : Excs \X Frames]

TypeInv ==
  /\ exc \in Excs /\ frames \in Frames
  /\ scopes \in Seq(Scopes) \ {<< >>}
  /\ call.kind \in DOMAIN tableInit
  /\ DOMAIN call = {"kind", "m"}

-----------------------------------------------------------------------------
(* What the programs have in common.                                       *)

\* Local references that are deleted by hand.
RefNames == {"classClass", "nameStr", "cls", "strCls", "clazz"}

\* From statement k on, r is deleted before it is overwritten.
DropsLater(p, k, r) ==
  \E j \in k..Len(p) - 1 : /\ p[j] = Drop(r)
                          /\ \A n \in k..j - 1 : p[n].gives # r /\ p[n].fn # "next"

Bracketed(p) ==
  /\ p \in Seq(Stmts) /\ Len(p) > 1
  /\ p[1] = Enter /\ p[Len(p)] = Leave
  /\ \A k \in 2..Len(p) - 1 :
       /\ p[k].fn \notin {"guard", "unguard"}
       /\ p[k].fn = "next" => \E h \in 2..Len(p) - 1 : p[h].fn = "for"

\* Programs that delete the references they make ...
Balanced(p) ==
  /\ Bracketed(p)
  /\ \A k \in 2..Len(p) - 1 :
       /\ p[k].fn \notin {"PushLocalFrame", "PopLocalFrame"}
       /\ p[k].fn \in RefFns =>
            p[k].gives \in RefNames /\ DropsLater(p, k + 1, p[k].gives)
       /\ p[k].fn = "DeleteLocalRef" => p[k].gives \in RefNames /\ p[k] = Drop(p[k].gives)
       /\ p[k].fn \notin RefFns \cup {"DeleteLocalRef"} => p[k].gives \notin RefNames

\* ... or have a frame for them, without which they do nothing ...
Framed(p) ==
  /\ Bracketed(p) /\ Len(p) > 4
  /\ p[2] = Do("PushLocalFrame", {}, "frame") /\ p[3].fn = "ToReflected"
  /\ p[Len(p) - 1] = Do("PopLocalFrame", {"frame"}, "void")
  /\ \A k \in 3..Len(p) - 2 :
       /\ p[k].fn \notin {"PushLocalFrame", "PopLocalFrame"}
       /\ ~(p[k].needs \subseteq {"info"})
       /\ p[k].gives # "frame"
       /\ p[k].needs \subseteq {"info", "frame"} => p[k].fn = "ToReflected"
       /\ p[k].fn = "ToReflected" => k = 3

\* ... or only run helpers.
Calm(p) ==
  /\ p \in Seq(Stmts)
  /\ \A k \in 1..Len(p) : p[k].fn \in (Helpers \ Reflectors) \cup {"set", "cacheAll"}

-----------------------------------------------------------------------------
(* The invariant.                                                          *)

Held(s) == s.have \cap RefNames
Kept(e) == IF e # "none" THEN 1 ELSE 0
Raised(f, d) == [f EXCEPT ![Len(f)] = @ + d]

\* Activation s in an environment of exception e and references f.
CalmIn(s, e, f) ==
  Calm(s.prog) /\ s.at \in 1..Len(s.prog) + 1 /\ s.before = <<e, f>>

BalancedIn(s, e, f) ==
  /\ Balanced(s.prog)
  /\ \/ s.at = 1 /\ Held(s) = {} /\ s.before = <<e, f>>
     \/ /\ s.at \in 2..Len(s.prog) /\ s.saved = s.before[1]
        /\ f = Raised(s.before[2], Kept(s.saved) + Cardinality(Held(s)))
        /\ \A r \in Held(s) : DropsLater(s.prog, s.at, r)
     \/ s.at = Len(s.prog) + 1 /\ s.before = <<e, f>>

FramedIn(s, e, f) ==
  /\ Framed(s.prog)
  /\ \/ s.at = 1 /\ s.have \subseteq {"info"} /\ s.before = <<e, f>>
     \/ /\ s.at \in 2..Len(s.prog) /\ s.saved = s.before[1]
        /\ \/ /\ s.at = 2 \/ s.at < Len(s.prog) => s.have \subseteq {"info"}
              /\ f = Raised(s.before[2], Kept(s.saved))
           \/ /\ s.at \in 3..Len(s.prog) - 1 /\ "frame" \in s.have
              /\ Len(f) > 1 /\ Front(f) = Raised(s.before[2], Kept(s.saved))
     \/ s.at = Len(s.prog) + 1 /\ s.before = <<e, f>>

Sees(s, e, f) == CalmIn(s, e, f) \/ BalancedIn(s, e, f) \/ FramedIn(s, e, f)

Chain ==
  /\ Sees(scopes[1], exc, frames)
  /\ \A k \in 2..Len(scopes) :
       Sees(scopes[k], scopes[k - 1].before[1], scopes[k - 1].before[2])

\* When the app pops a frame, it has another one.
PopsOne ==
  phase = "entry" /\ call.kind = "PopLocalFrame" => Len(Last(scopes).before[2]) > 1

IInv == TypeInv /\ Chain /\ PopsOne

-----------------------------------------------------------------------------
(* References of a frame.                                                  *)

LEMMA RaisedFrames ==
  ASSUME NEW f \in Frames, NEW d \in Int
  PROVE  /\ Raised(f, d) \in Frames /\ Len(Raised(f, d)) = Len(f)
         /\ Front(Raised(f, d)) = Front(f)
<1>1. f \in Seq(Int) /\ Len(f) > 0 /\ Len(f) \in Nat
  BY EmptySeq, LenProperties DEF Frames
<1>2. Raised(f, d) \in Seq(Int) /\ Len(Raised(f, d)) = Len(f)
  BY <1>1 DEF Raised
<1>3. Raised(f, d) # << >>
  BY <1>1, <1>2
<1>4. \A k \in 1..Len(f) - 1 : Raised(f, d)[k] = f[k]
  BY <1>1 DEF Raised
<1>5. Front(Raised(f, d)) = Front(f)
  BY <1>1, <1>2, <1>4 DEF Front
<1> QED
  BY <1>2, <1>3, <1>5 DEF Frames

LEMMA RaisedTwice ==
  ASSUME NEW f \in Frames, NEW d \in Int, NEW c \in Int
  PROVE  Raised(Raised(f, d), c) = Raised(f, d + c)
<1>1. f \in Seq(Int) /\ Len(f) > 0 /\ Len(f) \in Nat
  BY EmptySeq, LenProperties DEF Frames
<1>2. DOMAIN f = 1..Len(f) /\ f[Len(f)] \in Int
  BY <1>1
<1>3. Len(Raised(f, d)) = Len(f)
  BY RaisedFrames
<1>4. DOMAIN Raised(f, d) = DOMAIN f /\ Raised(f, d)[Len(f)] = f[Len(f)] + d
  BY <1>1, <1>2 DEF Raised
<1>5. Raised(Raised(f, d), c) = [Raised(f, d) EXCEPT ![Len(f)] = f[Len(f)] + d + c]
  BY <1>1, <1>2, <1>3, <1>4 DEF Raised
<1>6. Raised(f, d + c) = [f EXCEPT ![Len(f)] = f[Len(f)] + (d + c)]
  BY DEF Raised
<1>7. f[Len(f)] + (d + c) = f[Len(f)] + d + c
  BY <1>2
<1> DEFINE n == Len(f)
           a == f[Len(f)] + d
           b == f[Len(f)] + d + c
<1>8. Raised(f, d) = [f EXCEPT ![n] = a]
  BY DEF Raised
<1> HIDE DEF n, a, b
<1>9. [[f EXCEPT ![n] = a] EXCEPT ![n] = b] = [f EXCEPT ![n] = b]
  OBVIOUS
<1> QED
  BY <1>5, <1>6, <1>8, <1>9, <1>7 DEF n, a, b

LEMMA RaisedNot ==
  ASSUME NEW f \in Frames
  PROVE  Raised(f, 0) = f
<1>1. f \in Seq(Int) /\ Len(f) > 0 /\ Len(f) \in Nat
  BY EmptySeq, LenProperties DEF Frames
<1> QED
  BY <1>1 DEF Raised

\* A new frame on top, and its removal.
LEMMA Pushed ==
  ASSUME NEW f \in Frames
  PROVE  /\ Append(f, 0) \in Frames /\ Len(Append(f, 0)) > 1
         /\ Front(Append(f, 0)) = f
<1>1. f \in Seq(Int) /\ Len(f) > 0 /\ Len(f) \in Nat
  BY EmptySeq, LenProperties DEF Frames
<1>2. Append(f, 0) \in Seq(Int) /\ Len(Append(f, 0)) = Len(f) + 1
  BY <1>1
<1>3. Front(Append(f, 0)) = f
  BY <1>1, <1>2, AppendIsConcat, SubSeqOfConcat1, SubSeqFull DEF Front
<1> QED
  BY <1>1, <1>2, <1>3 DEF Frames

LEMMA Popped ==
  ASSUME NEW f \in Frames, Len(f) > 1
  PROVE  Front(f) \in Frames
<1>1. f \in Seq(Int) /\ Len(f) \in Nat
  BY LenProperties DEF Frames
<1>2. Front(f) \in Seq(Int) /\ Len(Front(f)) = Len(f) - 1
  BY <1>1, SubSeqProperties DEF Front
<1> QED
  BY <1>1, <1>2 DEF Frames

-----------------------------------------------------------------------------
(* Programs that delete the references they make.                          *)

\* The same activation, further on.
Same(s, r) ==
  /\ s \in Scopes /\ r \in Scopes
  /\ r.prog = s.prog /\ r.before = s.before /\ r.saved = s.saved

\* Another statement than the deletion leaves the reference as it is.
LEMMA DropNext ==
  ASSUME NEW p, NEW k \in Nat, NEW r, Len(p) \in Nat,
         DropsLater(p, k, r), p[k] # Drop(r)
  PROVE  DropsLater(p, k + 1, r) /\ p[k].gives # r /\ p[k].fn # "next"
<1>1. PICK j \in k..Len(p) - 1 :
        /\ p[j] = Drop(r)
        /\ \A n \in k..j - 1 : p[n].gives # r /\ p[n].fn # "next"
  BY DEF DropsLater
<1>2. j # k /\ j \in k + 1..Len(p) - 1 /\ k \in k..j - 1
  BY <1>1
<1>3. \A n \in k + 1..j - 1 : p[n].gives # r /\ p[n].fn # "next"
  BY <1>1
<1> QED
  BY <1>1, <1>2, <1>3 DEF DropsLater

LEMMA HeldFinite ==
  ASSUME NEW s
  PROVE  IsFiniteSet(Held(s)) /\ Cardinality(Held(s)) \in Nat
<1>1. IsFiniteSet(RefNames)
  <2>1. RefNames = {"classClass"} \cup {"nameStr"} \cup {"cls"} \cup {"strCls"} \cup {"clazz"}
    BY DEF RefNames
  <2> QED
    BY <2>1, FS_Singleton, FS_Union
<1>2. Held(s) \subseteq RefNames
  BY DEF Held
<1> QED
  BY <1>1, <1>2, FS_Subset, FS_CardinalityType

LEMMA ScopeTyped ==
  ASSUME NEW s \in Scopes
  PROVE  /\ s.prog \in Seq(Stmts) /\ Len(s.prog) \in Nat /\ s.at \in Nat
         /\ s.have \in SUBSET Handles
         /\ s.before \in Excs \X Frames /\ s.before[1] \in Excs /\ s.before[2] \in Frames
         /\ s.before = <<s.before[1], s.before[2]>>
         /\ s.saved \in Excs /\ Kept(s.saved) \in Int
  BY LenProperties DEF Scopes, Kept

\* A statement that makes and deletes no reference.
LEMMA BalancedQuiet ==
  ASSUME NEW s, NEW r, Same(s, r), NEW e, NEW d, NEW f, BalancedIn(s, e, f),
         s.at \in 2..Len(s.prog) - 1, r.at = s.at + 1, Held(r) = Held(s),
         \A x \in Held(s) : s.prog[s.at] # Drop(x)
  PROVE  BalancedIn(r, d, f)
<1>1. Len(s.prog) \in Nat /\ s.at \in Nat
  BY ScopeTyped DEF Same
<1>2. /\ s.saved = s.before[1]
      /\ f = Raised(s.before[2], Kept(s.saved) + Cardinality(Held(s)))
      /\ \A x \in Held(s) : DropsLater(s.prog, s.at, x)
  BY <1>1 DEF BalancedIn
<1>3. \A x \in Held(s) : DropsLater(s.prog, s.at + 1, x)
  BY <1>1, <1>2, DropNext
<1>4. r.at \in 2..Len(r.prog)
  BY <1>1 DEF Same
<1> QED
  BY <1>2, <1>3, <1>4 DEF BalancedIn, Same

\* A call that makes a reference.
LEMMA BalancedMakes ==
  ASSUME NEW s, NEW r, Same(s, r), NEW e, NEW d, NEW f, BalancedIn(s, e, f),
         s.at \in 2..Len(s.prog) - 1, r.at = s.at + 1,
         s.prog[s.at].fn \in RefFns, r.have = s.have \cup {s.prog[s.at].gives}
  PROVE  BalancedIn(r, d, Raised(f, 1))
<1> DEFINE g == s.prog[s.at].gives
           n == Kept(s.saved) + Cardinality(Held(s))
<1>1. Len(s.prog) \in Nat /\ s.at \in Nat /\ s.before[2] \in Frames /\ n \in Int
  BY ScopeTyped, HeldFinite DEF Same
<1>2. /\ s.saved = s.before[1]
      /\ f = Raised(s.before[2], n)
      /\ \A x \in Held(s) : DropsLater(s.prog, s.at, x)
  BY <1>1 DEF BalancedIn
<1>3. \A x : s.prog[s.at] # Drop(x)
  BY DEF RefFns, Drop, Stmt
<1>4. \A x \in Held(s) : DropsLater(s.prog, s.at + 1, x) /\ g # x
  BY <1>1, <1>2, <1>3, DropNext
<1>5. g \in RefNames /\ DropsLater(s.prog, s.at + 1, g)
  BY DEF BalancedIn, Balanced
<1> HIDE DEF g
<1>6. Held(r) = Held(s) \cup {g} /\ g \notin Held(s)
  <2>1. r.have = s.have \cup {g}
    BY DEF g
  <2>2. Held(r) = Held(s) \cup {g}
    BY <2>1, <1>5 DEF Held
  <2>3. g \notin Held(s)
    BY <1>4
  <2> QED
    BY <2>2, <2>3
<1>7. Cardinality(Held(r)) = Cardinality(Held(s)) + 1
  BY <1>6, HeldFinite, FS_AddElement
<1>8. Raised(f, 1) = Raised(s.before[2], n + 1)
  BY <1>1, <1>2, RaisedTwice
<1>9. n + 1 = Kept(s.saved) + Cardinality(Held(r))
  BY <1>1, <1>7, HeldFinite, ScopeTyped DEF Same
<1>10. r.at \in 2..Len(r.prog)
  BY <1>1 DEF Same
<1>11. \A x \in Held(r) : DropsLater(r.prog, r.at, x)
  BY <1>4, <1>5, <1>6 DEF Same
<1> HIDE DEF n
<1> QED
  BY <1>2, <1>8, <1>9, <1>10, <1>11 DEF BalancedIn, Same

\* The deletion of a reference.
LEMMA BalancedDrops ==
  ASSUME NEW s, NEW r, Same(s, r), NEW e, NEW d, NEW f, BalancedIn(s, e, f),
         s.at \in 2..Len(s.prog) - 1, r.at = s.at + 1,
         NEW g, s.prog[s.at] = Drop(g), g \in Held(s), r.have = s.have \ {g}
  PROVE  BalancedIn(r, d, Raised(f, 0 - 1))
<1> DEFINE n == Kept(s.saved) + Cardinality(Held(s))
<1>1. Len(s.prog) \in Nat /\ s.at \in Nat /\ s.before[2] \in Frames /\ n \in Int
  BY ScopeTyped, HeldFinite DEF Same
<1>2. /\ s.saved = s.before[1]
      /\ f = Raised(s.before[2], n)
      /\ \A x \in Held(s) : DropsLater(s.prog, s.at, x)
  BY <1>1 DEF BalancedIn
<1>3. \A x : x # g => s.prog[s.at] # Drop(x)
  BY DEF Drop, Stmt
<1>4. \A x \in Held(s) \ {g} : DropsLater(s.prog, s.at + 1, x)
  BY <1>1, <1>2, <1>3, DropNext
<1>5. Held(r) = Held(s) \ {g}
  BY DEF Held
<1>6. Cardinality(Held(r)) = Cardinality(Held(s)) - 1
  BY <1>5, HeldFinite, FS_RemoveElement
<1>7. Raised(f, 0 - 1) = Raised(s.before[2], n + (0 - 1))
  BY <1>1, <1>2, RaisedTwice
<1>8. n + (0 - 1) = Kept(s.saved) + Cardinality(Held(r))
  BY <1>1, <1>6, HeldFinite, ScopeTyped DEF Same
<1>9. r.at \in 2..Len(r.prog)
  BY <1>1 DEF Same
<1>10. \A x \in Held(r) : DropsLater(r.prog, r.at, x)
  BY <1>4, <1>5 DEF Same
<1> HIDE DEF n
<1> QED
  BY <1>2, <1>7, <1>8, <1>9, <1>10 DEF BalancedIn, Same

\* The end of a loop's body: nothing is held there.
LEMMA BalancedLoops ==
  ASSUME NEW s, NEW r, Same(s, r), NEW e, NEW d, NEW f, BalancedIn(s, e, f),
         s.at \in 2..Len(s.prog) - 1, s.prog[s.at].fn = "next",
         r.at \in 2..Len(s.prog) - 1, Held(r) = Held(s)
  PROVE  BalancedIn(r, d, f)
<1>1. Len(s.prog) \in Nat /\ s.at \in Nat
  BY ScopeTyped DEF Same
<1>2. /\ s.saved = s.before[1]
      /\ f = Raised(s.before[2], Kept(s.saved) + Cardinality(Held(s)))
      /\ \A x \in Held(s) : DropsLater(s.prog, s.at, x)
  BY <1>1 DEF BalancedIn
<1>3. \A x : s.prog[s.at] # Drop(x)
  BY DEF Drop, Stmt
<1>4. Held(s) = {}
  BY <1>1, <1>2, <1>3, DropNext
<1>5. r.at \in 2..Len(r.prog)
  BY <1>1 DEF Same
<1> QED
  BY <1>2, <1>4, <1>5 DEF BalancedIn, Same

-----------------------------------------------------------------------------
(* Programs with a frame.                                                  *)

\* Inside the frame only its top may change, and the frame is not given up.
LEMMA FramedInside ==
  ASSUME NEW s, NEW r, Same(s, r), NEW e, NEW d, NEW f, NEW g, FramedIn(s, e, f),
         s.at \in 3..Len(s.prog) - 2, r.at \in 3..Len(s.prog) - 1,
         \/ r.have = s.have /\ g = f
         \/ /\ "frame" \in s.have /\ "frame" \in r.have
            /\ Len(g) = Len(f) /\ Front(g) = Front(f)
  PROVE  FramedIn(r, d, g)
<1>1. Len(s.prog) \in Nat /\ s.at \in Nat
  BY ScopeTyped DEF Same
<1>2. /\ s.saved = s.before[1]
      /\ \/ s.have \subseteq {"info"} /\ f = Raised(s.before[2], Kept(s.saved))
         \/ /\ "frame" \in s.have /\ Len(f) > 1
            /\ Front(f) = Raised(s.before[2], Kept(s.saved))
  BY <1>1 DEF FramedIn
<1>3. r.at \in 2..Len(r.prog) /\ r.at \in 3..Len(r.prog) - 1 /\ r.saved = r.before[1]
  BY <1>1, <1>2 DEF Same
<1>4. Framed(r.prog)
  BY DEF FramedIn, Same
<1>5. CASE s.have \subseteq {"info"} /\ f = Raised(s.before[2], Kept(s.saved))
  <2>1. r.have = s.have /\ g = f
    BY <1>5
  <2> QED
    BY <1>3, <1>4, <1>5, <2>1 DEF FramedIn, Same
<1>6. CASE /\ "frame" \in s.have /\ Len(f) > 1
           /\ Front(f) = Raised(s.before[2], Kept(s.saved))
  <2>1. "frame" \in r.have /\ Len(g) > 1 /\ Front(g) = Raised(r.before[2], Kept(r.saved))
    BY <1>6 DEF Same
  <2> QED
    BY <1>3, <1>4, <2>1 DEF FramedIn
<1> QED
  BY <1>2, <1>5, <1>6

\* A statement that runs in there runs in the frame.
LEMMA FramedApplies ==
  ASSUME NEW s \in Scopes, NEW e, NEW f, FramedIn(s, e, f),
         s.at \in 3..Len(s.prog) - 2, s.prog[s.at].needs \subseteq s.have
  PROVE  "frame" \in s.have /\ s.prog[s.at].gives # "frame"
<1>1. Len(s.prog) \in Nat /\ s.at \in Nat
  BY ScopeTyped
<1>2. ~(s.prog[s.at].needs \subseteq {"info"}) /\ s.prog[s.at].gives # "frame"
  BY DEF FramedIn, Framed
<1>3. s.have \subseteq {"info"} \/ "frame" \in s.have
  BY <1>1 DEF FramedIn
<1> QED
  BY <1>2, <1>3

-----------------------------------------------------------------------------
(* One statement, whatever the program.                                    *)

AppliesIn(s) ==
  s.prog[s.at].needs \subseteq s.have /\ s.prog[s.at].unless \cap s.have = {}

\* Where the statements that are not of the body are.
LEMMA Places ==
  ASSUME NEW s \in Scopes, Bracketed(s.prog), s.at \in 1..Len(s.prog)
  PROVE  /\ s.prog[s.at].fn = "guard" <=> s.at = 1
         /\ s.prog[s.at].fn = "unguard" <=> s.at = Len(s.prog)
         /\ s.prog[s.at].fn = "next" => s.at \in 2..Len(s.prog) - 1
         /\ s.at = 1 \/ s.at = Len(s.prog) => AppliesIn(s)
<1>1. Len(s.prog) \in Nat /\ s.at \in Nat
  BY ScopeTyped
<1>2. /\ Enter.fn = "guard" /\ Enter.needs = {} /\ Enter.unless = {}
      /\ Leave.fn = "unguard" /\ Leave.needs = {} /\ Leave.unless = {}
  BY DEF Enter, Leave, Do, Stmt
<1> QED
  BY <1>1, <1>2 DEF Bracketed, AppliesIn

LEMMA FramedPlaces ==
  ASSUME NEW s \in Scopes, Framed(s.prog), s.at \in 2..Len(s.prog) - 1
  PROVE  /\ s.prog[s.at].fn = "PushLocalFrame" <=> s.at = 2
         /\ s.prog[s.at].fn = "PopLocalFrame" <=> s.at = Len(s.prog) - 1
         /\ s.at = 2 => s.prog[s.at].gives = "frame" /\ AppliesIn(s)
         /\ s.at = Len(s.prog) - 1 => (AppliesIn(s) <=> "frame" \in s.have)
<1>1. Len(s.prog) \in Nat /\ s.at \in Nat
  BY ScopeTyped
<1>2. /\ s.prog[2].fn = "PushLocalFrame" /\ s.prog[2].gives = "frame"
      /\ s.prog[2].needs = {} /\ s.prog[2].unless = {}
      /\ s.prog[Len(s.prog) - 1].fn = "PopLocalFrame"
      /\ s.prog[Len(s.prog) - 1].needs = {"frame"}
      /\ s.prog[Len(s.prog) - 1].unless = {}
  BY DEF Framed, Do, Stmt
<1>3. CASE s.at = 2
  BY <1>1, <1>2, <1>3 DEF Framed, AppliesIn
<1>4. CASE s.at = Len(s.prog) - 1
  BY <1>1, <1>2, <1>4 DEF Framed, AppliesIn
<1>5. CASE s.at \in 3..Len(s.prog) - 2
  BY <1>1, <1>5 DEF Framed
<1> QED
  BY <1>1, <1>3, <1>4, <1>5

LEMMA FramedIs ==
  ASSUME NEW s \in Scopes, NEW e, NEW f, FramedIn(s, e, f), s.at <= Len(s.prog)
  PROVE  Framed(s.prog) /\ Bracketed(s.prog) /\ s.at \in 1..Len(s.prog)
<1>1. Len(s.prog) \in Nat /\ s.at \in Nat
  BY ScopeTyped
<1>2. Framed(s.prog)
  BY DEF FramedIn
<1>3. s.at \in 1..Len(s.prog)
  BY <1>1 DEF FramedIn
<1> QED
  BY <1>2, <1>3 DEF Framed

\* Between guard and unguard.
LEMMA FramedMiddle ==
  ASSUME NEW s \in Scopes, NEW e, NEW f, FramedIn(s, e, f), s.at \in 2..Len(s.prog)
  PROVE  /\ s.saved = s.before[1]
         /\ \/ /\ s.at < Len(s.prog) => s.have \subseteq {"info"}
               /\ f = Raised(s.before[2], Kept(s.saved))
            \/ /\ s.at \in 3..Len(s.prog) - 1 /\ "frame" \in s.have
               /\ Len(f) > 1 /\ Front(f) = Raised(s.before[2], Kept(s.saved))
<1>1. Len(s.prog) \in Nat /\ s.at \in Nat /\ s.at # 1 /\ s.at # Len(s.prog) + 1
  BY ScopeTyped
<1> QED
  BY <1>1 DEF FramedIn

LEMMA BalancedIs ==
  ASSUME NEW s \in Scopes, NEW e, NEW f, BalancedIn(s, e, f), s.at <= Len(s.prog)
  PROVE  Balanced(s.prog) /\ Bracketed(s.prog) /\ s.at \in 1..Len(s.prog)
<1>1. Len(s.prog) \in Nat /\ s.at \in Nat
  BY ScopeTyped
<1>2. Balanced(s.prog)
  BY DEF BalancedIn
<1>3. s.at \in 1..Len(s.prog)
  BY <1>1 DEF BalancedIn
<1> QED
  BY <1>2, <1>3 DEF Balanced

LEMMA CalmIs ==
  ASSUME NEW s \in Scopes, NEW e, NEW f, CalmIn(s, e, f), s.at <= Len(s.prog)
  PROVE  s.prog[s.at].fn \in Helpers \cup {"set", "cacheAll"}
<1>1. Len(s.prog) \in Nat /\ s.at \in Nat /\ s.at \in 1..Len(s.prog)
  BY ScopeTyped DEF CalmIn
<1> QED
  BY <1>1 DEF CalmIn, Calm

LEMMA CalmFns ==
  /\ \A fn \in Helpers \cup {"set", "cacheAll"} :
       /\ fn \notin SafeFns \cup RefFns
       /\ fn \notin {"guard", "unguard", "next", "GetMethodID", "GetStringUTFChars",
                     "CallIntMethod", "GetArrayLength", "IsInstanceOf", "IsMethod", "IsCtor",
                     "IsObject", "IsArray", "for", "piece", "cache"}
  /\ "DeleteLocalRef" \in SafeFns /\ "PushLocalFrame" \in SafeFns
  /\ "PopLocalFrame" \in SafeFns
  BY SMTT(30) DEF Helpers, SafeFns, RefFns

\* A statement that is passed over.
LEMMA SkipSees ==
  ASSUME NEW s, NEW r, Same(s, r), NEW e, NEW f, Sees(s, e, f),
         s.at <= Len(s.prog), r.at = s.at + 1, r.have = s.have, ~AppliesIn(s)
  PROVE  Sees(r, e, f)
<1>1. Len(s.prog) \in Nat /\ s.at \in Nat /\ s \in Scopes
  BY ScopeTyped DEF Same
<1>2. CASE CalmIn(s, e, f)
  BY <1>1, <1>2 DEF CalmIn, Sees, Same
<1>3. CASE BalancedIn(s, e, f)
  <2>1. Bracketed(s.prog) /\ s.at \in 1..Len(s.prog)
    BY <1>1, <1>3, BalancedIs
  <2>2. s.at \in 2..Len(s.prog) - 1
    BY <1>1, <2>1, Places
  <2>3. \A x \in Held(s) : s.prog[s.at] # Drop(x)
    BY DEF AppliesIn, Drop, Stmt, Held
  <2>4. Held(r) = Held(s)
    BY DEF Held
  <2> QED
    BY <1>3, <2>2, <2>3, <2>4, BalancedQuiet DEF Sees
<1>4. CASE FramedIn(s, e, f)
  <2>1. Bracketed(s.prog) /\ Framed(s.prog) /\ s.at \in 1..Len(s.prog)
    BY <1>1, <1>4, FramedIs
  <2>2. s.at \in 2..Len(s.prog) - 1
    BY <1>1, <2>1, Places
  <2>3. s.at \in 3..Len(s.prog) - 2 \/ (s.at = Len(s.prog) - 1 /\ "frame" \notin s.have)
    BY <1>1, <2>1, <2>2, FramedPlaces
  <2>4. CASE s.at \in 3..Len(s.prog) - 2
    <3>1. r.at \in 3..Len(s.prog) - 1
      BY <1>1, <2>4
    <3> QED
      BY <1>4, <2>4, <3>1, FramedInside DEF Sees
  <2>5. CASE s.at = Len(s.prog) - 1 /\ "frame" \notin s.have
    <3>1. /\ s.saved = s.before[1] /\ s.have \subseteq {"info"}
          /\ f = Raised(s.before[2], Kept(s.saved))
      BY <1>1, <1>4, <2>2, <2>5, FramedMiddle
    <3>2. r.at = Len(s.prog) /\ r.at \in 2..Len(s.prog)
      BY <1>1, <2>2, <2>5
    <3>3. FramedIn(r, e, f)
      BY <2>1, <3>1, <3>2 DEF FramedIn, Same
    <3> QED
      BY <3>3 DEF Sees
  <2> QED
    BY <2>3, <2>4, <2>5
<1> QED
  BY <1>2, <1>3, <1>4 DEF Sees

\* A statement that changes no reference, and the exception only if it is a call.
LEMMA QuietSees ==
  ASSUME NEW s, NEW r, Same(s, r), NEW e, NEW d, NEW f, Sees(s, e, f),
         s.at <= Len(s.prog), r.at = s.at + 1, AppliesIn(s),
         s.prog[s.at].fn \notin {"guard", "unguard", "PushLocalFrame", "PopLocalFrame",
                                "DeleteLocalRef", "next"},
         d = e \/ s.prog[s.at].fn \notin Helpers \cup {"set", "cacheAll"},
         \/ r.have = s.have
         \/ /\ s.prog[s.at].fn \notin RefFns
            /\ r.have \ s.have \subseteq {s.prog[s.at].gives}
            /\ s.have \ r.have \subseteq LoopLocals
  PROVE  Sees(r, d, f)
<1>1. Len(s.prog) \in Nat /\ s.at \in Nat /\ s \in Scopes
  BY ScopeTyped DEF Same
<1>2. CASE CalmIn(s, e, f)
  <2>1. d = e
    BY <1>1, <1>2, CalmIs
  <2> QED
    BY <1>1, <1>2, <2>1 DEF CalmIn, Sees, Same
<1>3. CASE BalancedIn(s, e, f)
  <2>1. Balanced(s.prog) /\ Bracketed(s.prog) /\ s.at \in 1..Len(s.prog)
    BY <1>1, <1>3, BalancedIs
  <2>2. s.at \in 2..Len(s.prog) - 1
    BY <1>1, <2>1, Places
  <2>3. \A x \in Held(s) : s.prog[s.at] # Drop(x)
    BY DEF Drop, Stmt
  <2>4. Held(r) = Held(s)
    <3>1. CASE r.have = s.have
      BY <3>1 DEF Held
    <3>2. CASE /\ s.prog[s.at].fn \notin RefFns
               /\ r.have \ s.have \subseteq {s.prog[s.at].gives}
               /\ s.have \ r.have \subseteq LoopLocals
      <4>1. s.prog[s.at].gives \notin RefNames
        BY <2>1, <2>2, <3>2 DEF Balanced
      <4>2. LoopLocals \cap RefNames = {}
        BY DEF LoopLocals, RefNames
      <4> QED
        BY <3>2, <4>1, <4>2 DEF Held
    <3> QED
      BY <3>1, <3>2
  <2> QED
    BY <1>3, <2>2, <2>3, <2>4, BalancedQuiet DEF Sees
<1>4. CASE FramedIn(s, e, f)
  <2>1. Bracketed(s.prog) /\ Framed(s.prog) /\ s.at \in 1..Len(s.prog)
    BY <1>1, <1>4, FramedIs
  <2>2. s.at \in 2..Len(s.prog) - 1
    BY <1>1, <2>1, Places
  <2>3. s.at \in 3..Len(s.prog) - 2
    BY <1>1, <2>1, <2>2, FramedPlaces
  <2>4. r.at \in 3..Len(s.prog) - 1
    BY <1>1, <2>3
  <2>5. "frame" \in s.have
    BY <1>1, <1>4, <2>3, FramedApplies DEF AppliesIn
  <2>6. "frame" \in r.have
    BY <2>5 DEF LoopLocals
  <2> QED
    BY <1>4, <2>3, <2>4, <2>5, <2>6, FramedInside DEF Sees
<1> QED
  BY <1>2, <1>3, <1>4 DEF Sees

\* A call that makes a reference.
LEMMA MakesSees ==
  ASSUME NEW s, NEW r, Same(s, r), NEW e, NEW d, NEW f \in Frames, Sees(s, e, f),
         s.at <= Len(s.prog), r.at = s.at + 1, AppliesIn(s),
         s.prog[s.at].fn \in RefFns, r.have = s.have \cup {s.prog[s.at].gives}
  PROVE  Sees(r, d, Raised(f, 1))
<1>1. Len(s.prog) \in Nat /\ s.at \in Nat /\ s \in Scopes
  BY ScopeTyped DEF Same
<1>2. s.prog[s.at].fn \notin {"guard", "unguard", "PushLocalFrame", "PopLocalFrame", "next"}
  BY DEF RefFns
<1>3. CASE CalmIn(s, e, f)
  BY <1>1, <1>3, CalmIs, CalmFns
<1>4. CASE BalancedIn(s, e, f)
  <2>1. Balanced(s.prog) /\ Bracketed(s.prog) /\ s.at \in 1..Len(s.prog)
    BY <1>1, <1>4, BalancedIs
  <2>2. s.at \in 2..Len(s.prog) - 1
    BY <1>1, <1>2, <2>1, Places
  <2> QED
    BY <1>4, <2>2, BalancedMakes DEF Sees
<1>5. CASE FramedIn(s, e, f)
  <2>1. Bracketed(s.prog) /\ Framed(s.prog) /\ s.at \in 1..Len(s.prog)
    BY <1>1, <1>5, FramedIs
  <2>2. s.at \in 2..Len(s.prog) - 1
    BY <1>1, <1>2, <2>1, Places
  <2>3. s.at \in 3..Len(s.prog) - 2
    BY <1>1, <1>2, <2>1, <2>2, FramedPlaces
  <2>4. r.at \in 3..Len(s.prog) - 1
    BY <1>1, <2>3
  <2>5. "frame" \in s.have /\ "frame" \in r.have
    BY <1>1, <1>5, <2>3, FramedApplies DEF AppliesIn
  <2>6. Len(Raised(f, 1)) = Len(f) /\ Front(Raised(f, 1)) = Front(f)
    BY RaisedFrames
  <2> QED
    BY <1>5, <2>3, <2>4, <2>5, <2>6, FramedInside DEF Sees
<1> QED
  BY <1>3, <1>4, <1>5 DEF Sees

\* DeleteLocalRef.
LEMMA DropSees ==
  ASSUME NEW s, NEW r, Same(s, r), NEW e, NEW d, NEW f \in Frames, Sees(s, e, f),
         s.at <= Len(s.prog), r.at = s.at + 1, AppliesIn(s),
         s.prog[s.at].fn = "DeleteLocalRef", r.have = s.have \ {s.prog[s.at].gives}
  PROVE  Sees(r, d, Raised(f, 0 - 1))
<1>1. Len(s.prog) \in Nat /\ s.at \in Nat /\ s \in Scopes
  BY ScopeTyped DEF Same
<1>2. CASE CalmIn(s, e, f)
  BY <1>1, <1>2, CalmIs, CalmFns
<1>3. CASE BalancedIn(s, e, f)
  <2>1. Balanced(s.prog) /\ Bracketed(s.prog) /\ s.at \in 1..Len(s.prog)
    BY <1>1, <1>3, BalancedIs
  <2>2. s.at \in 2..Len(s.prog) - 1
    BY <1>1, <2>1, Places
  <2> DEFINE g == s.prog[s.at].gives
  <2>3. g \in RefNames /\ s.prog[s.at] = Drop(g)
    BY <2>1, <2>2 DEF Balanced
  <2>4. g \in Held(s)
    BY <2>3 DEF AppliesIn, Drop, Stmt, Held
  <2> QED
    BY <1>3, <2>2, <2>3, <2>4, BalancedDrops DEF Sees
<1>4. CASE FramedIn(s, e, f)
  <2>1. Bracketed(s.prog) /\ Framed(s.prog) /\ s.at \in 1..Len(s.prog)
    BY <1>1, <1>4, FramedIs
  <2>2. s.at \in 2..Len(s.prog) - 1
    BY <1>1, <2>1, Places
  <2>3. s.at \in 3..Len(s.prog) - 2
    BY <1>1, <2>1, <2>2, FramedPlaces
  <2>4. r.at \in 3..Len(s.prog) - 1
    BY <1>1, <2>3
  <2>5. "frame" \in s.have /\ "frame" \in r.have
    BY <1>1, <1>4, <2>3, FramedApplies DEF AppliesIn
  <2>6. Len(Raised(f, 0 - 1)) = Len(f) /\ Front(Raised(f, 0 - 1)) = Front(f)
    BY RaisedFrames
  <2> QED
    BY <1>4, <2>3, <2>4, <2>5, <2>6, FramedInside DEF Sees
<1> QED
  BY <1>2, <1>3, <1>4 DEF Sees

\* Only a program with a frame has such a statement, as its second ...
LEMMA PushSees ==
  ASSUME NEW s, NEW r, Same(s, r), NEW e, NEW d, NEW f \in Frames, NEW g, Sees(s, e, f),
         s.at <= Len(s.prog), r.at = s.at + 1, s.prog[s.at].fn = "PushLocalFrame",
         \/ r.have = s.have /\ g = f
         \/ r.have = s.have \cup {s.prog[s.at].gives} /\ g = Append(f, 0)
  PROVE  Sees(r, d, g)
<1>1. Len(s.prog) \in Nat /\ s.at \in Nat /\ s \in Scopes
  BY ScopeTyped DEF Same
<1>2. CASE CalmIn(s, e, f)
  BY <1>1, <1>2, CalmIs, CalmFns
<1>3. CASE BalancedIn(s, e, f)
  <2>1. Balanced(s.prog) /\ Bracketed(s.prog) /\ s.at \in 1..Len(s.prog)
    BY <1>1, <1>3, BalancedIs
  <2>2. s.at \in 2..Len(s.prog) - 1
    BY <1>1, <2>1, Places
  <2> QED
    BY <2>1, <2>2 DEF Balanced
<1>4. CASE FramedIn(s, e, f)
  <2>1. Bracketed(s.prog) /\ Framed(s.prog) /\ s.at \in 1..Len(s.prog)
    BY <1>1, <1>4, FramedIs
  <2>2. s.at \in 2..Len(s.prog) - 1
    BY <1>1, <2>1, Places
  <2>3. s.at = 2 /\ s.prog[s.at].gives = "frame" /\ r.at = 3 /\ 3 <= Len(s.prog) - 1
    <3>1. Len(s.prog) > 3
      BY <2>1 DEF Framed
    <3> QED
      BY <1>1, <2>1, <2>2, <3>1, FramedPlaces
  <2>4. /\ s.saved = s.before[1] /\ s.have \subseteq {"info"}
        /\ f = Raised(s.before[2], Kept(s.saved))
    BY <1>1, <1>4, <2>2, <2>3, FramedMiddle
  <2>5. CASE r.have = s.have /\ g = f
    <3>1. r.at \in 2..Len(s.prog) /\ r.have \subseteq {"info"}
      BY <1>1, <2>3, <2>4, <2>5
    <3>2. FramedIn(r, d, g)
      BY <2>1, <2>4, <2>5, <3>1 DEF FramedIn, Same
    <3> QED
      BY <3>2 DEF Sees
  <2>6. CASE r.have = s.have \cup {s.prog[s.at].gives} /\ g = Append(f, 0)
    <3>1. "frame" \in r.have
      BY <2>3, <2>6
    <3>2. Len(g) > 1 /\ Front(g) = f
      BY <2>6, Pushed
    <3> QED
      BY <1>1, <2>1, <2>3, <2>4, <3>1, <3>2 DEF FramedIn, Sees, Same
  <2> QED
    BY <2>5, <2>6
<1> QED
  BY <1>2, <1>3, <1>4 DEF Sees

\* ... and as its last but one.
LEMMA PopSees ==
  ASSUME NEW s, NEW r, Same(s, r), NEW e, NEW d, NEW f \in Frames, Sees(s, e, f),
         s.at <= Len(s.prog), r.at = s.at + 1, s.prog[s.at].fn = "PopLocalFrame",
         AppliesIn(s)
  PROVE  Sees(r, d, Front(f)) /\ Len(f) > 1
<1>1. Len(s.prog) \in Nat /\ s.at \in Nat /\ s \in Scopes
  BY ScopeTyped DEF Same
<1>2. CASE CalmIn(s, e, f)
  BY <1>1, <1>2, CalmIs, CalmFns
<1>3. CASE BalancedIn(s, e, f)
  <2>1. Balanced(s.prog) /\ Bracketed(s.prog) /\ s.at \in 1..Len(s.prog)
    BY <1>1, <1>3, BalancedIs
  <2>2. s.at \in 2..Len(s.prog) - 1
    BY <1>1, <2>1, Places
  <2> QED
    BY <2>1, <2>2 DEF Balanced
<1>4. CASE FramedIn(s, e, f)
  <2>1. Bracketed(s.prog) /\ Framed(s.prog) /\ s.at \in 1..Len(s.prog)
    BY <1>1, <1>4, FramedIs
  <2>2. s.at \in 2..Len(s.prog) - 1
    BY <1>1, <2>1, Places
  <2>3. s.at = Len(s.prog) - 1 /\ "frame" \in s.have
    BY <1>1, <2>1, <2>2, FramedPlaces
  <2>4. /\ s.saved = s.before[1] /\ Len(f) > 1
        /\ Front(f) = Raised(s.before[2], Kept(s.saved))
    BY <1>1, <1>4, <2>2, <2>3, FramedMiddle
  <2>5. r.at = Len(s.prog) /\ r.at \in 2..Len(s.prog) /\ r.at # 2
    BY <1>1, <2>1, <2>2, <2>3 DEF Framed
  <2>6. FramedIn(r, d, Front(f))
    BY <1>1, <2>1, <2>4, <2>5 DEF FramedIn, Same
  <2> QED
    BY <2>4, <2>6 DEF Sees
<1> QED
  BY <1>2, <1>3, <1>4 DEF Sees

\* The guard's constructor.
LEMMA EntersSees ==
  ASSUME NEW s \in Scopes, NEW r \in Scopes, NEW e, NEW f \in Frames, Sees(s, e, f),
         r.prog = s.prog, r.before = s.before, r.have = s.have,
         s.at <= Len(s.prog), r.at = s.at + 1, s.prog[s.at].fn = "guard", r.saved = e
  PROVE  Sees(r, "none", Raised(f, Kept(e)))
<1>1. Len(s.prog) \in Nat /\ s.at \in Nat
  BY ScopeTyped
<1>2. CASE CalmIn(s, e, f)
  BY <1>1, <1>2, CalmIs, CalmFns
<1>3. CASE BalancedIn(s, e, f)
  <2>1. Balanced(s.prog) /\ Bracketed(s.prog) /\ s.at \in 1..Len(s.prog)
    BY <1>1, <1>3, BalancedIs
  <2>2. s.at = 1 /\ Len(s.prog) > 1
    BY <1>1, <2>1, Places DEF Bracketed
  <2>3. Held(s) = {} /\ s.before = <<e, f>>
    BY <1>1, <1>3, <2>2 DEF BalancedIn
  <2>4. Held(r) = {} /\ Cardinality(Held(r)) = 0
    BY <2>3, FS_EmptySet DEF Held
  <2>5. r.at \in 2..Len(r.prog) /\ r.saved = r.before[1] /\ r.before[2] = f
    BY <1>1, <2>2, <2>3
  <2>6. Kept(e) + Cardinality(Held(r)) = Kept(e)
    BY <2>4 DEF Kept
  <2>7. BalancedIn(r, "none", Raised(f, Kept(e)))
    BY <2>1, <2>4, <2>5, <2>6 DEF BalancedIn
  <2> QED
    BY <2>7 DEF Sees
<1>4. CASE FramedIn(s, e, f)
  <2>1. Framed(s.prog) /\ Bracketed(s.prog) /\ s.at \in 1..Len(s.prog)
    BY <1>1, <1>4, FramedIs
  <2>2. s.at = 1 /\ Len(s.prog) > 1
    BY <1>1, <2>1, Places DEF Bracketed
  <2>3. s.have \subseteq {"info"} /\ s.before = <<e, f>>
    BY <1>1, <1>4, <2>2 DEF FramedIn
  <2>4. r.at \in 2..Len(r.prog) /\ r.saved = r.before[1] /\ r.before[2] = f
    BY <1>1, <2>2, <2>3
  <2>5. FramedIn(r, "none", Raised(f, Kept(e)))
    BY <2>1, <2>3, <2>4 DEF FramedIn
  <2> QED
    BY <2>5 DEF Sees
<1> QED
  BY <1>2, <1>3, <1>4 DEF Sees

\* Its destructor.
LEMMA LeavesSees ==
  ASSUME NEW s, NEW r, Same(s, r), NEW e, NEW f \in Frames, Sees(s, e, f),
         s.at <= Len(s.prog), r.at = s.at + 1, s.prog[s.at].fn = "unguard"
  PROVE  Sees(r, s.saved, Raised(f, 0 - Kept(s.saved)))
<1>1. Len(s.prog) \in Nat /\ s.at \in Nat /\ s \in Scopes /\ Kept(s.saved) \in Int
  BY ScopeTyped DEF Same
<1>2. s.before[2] \in Frames /\ s.before = <<s.before[1], s.before[2]>>
  BY <1>1, ScopeTyped
<1>3. /\ Raised(Raised(s.before[2], Kept(s.saved)), 0 - Kept(s.saved))
          = Raised(s.before[2], Kept(s.saved) + (0 - Kept(s.saved)))
      /\ Kept(s.saved) + (0 - Kept(s.saved)) = 0 /\ Raised(s.before[2], 0) = s.before[2]
  <2> DEFINE n == Kept(s.saved)
  <2>1. n \in Int /\ 0 - n \in Int /\ n + (0 - n) = 0
    BY <1>1
  <2> HIDE DEF n
  <2>2. Raised(Raised(s.before[2], n), 0 - n) = Raised(s.before[2], n + (0 - n))
    BY <1>2, <2>1, RaisedTwice
  <2>3. Raised(s.before[2], 0) = s.before[2]
    BY <1>2, RaisedNot
  <2> QED
    BY <2>1, <2>2, <2>3 DEF n
<1>4. CASE CalmIn(s, e, f)
  BY <1>1, <1>4, CalmIs, CalmFns
<1>5. CASE BalancedIn(s, e, f)
  <2>1. Balanced(s.prog) /\ Bracketed(s.prog) /\ s.at \in 1..Len(s.prog)
    BY <1>1, <1>5, BalancedIs
  <2>2. s.at = Len(s.prog) /\ Len(s.prog) > 1
    BY <1>1, <2>1, Places DEF Bracketed
  <2>3. /\ s.saved = s.before[1]
        /\ f = Raised(s.before[2], Kept(s.saved) + Cardinality(Held(s)))
        /\ \A x \in Held(s) : DropsLater(s.prog, s.at, x)
    BY <1>1, <1>5, <2>2 DEF BalancedIn
  <2>4. Held(s) = {}
    BY <1>1, <2>2, <2>3 DEF DropsLater
  <2>5. Kept(s.saved) + Cardinality(Held(s)) = Kept(s.saved)
    BY <1>1, <2>4, FS_EmptySet
  <2>6. r.before = <<s.saved, Raised(f, 0 - Kept(s.saved))>>
    BY <1>2, <1>3, <2>3, <2>5 DEF Same
  <2>7. r.at = Len(r.prog) + 1
    BY <2>2 DEF Same
  <2>8. BalancedIn(r, s.saved, Raised(f, 0 - Kept(s.saved)))
    BY <2>1, <2>6, <2>7 DEF BalancedIn, Same
  <2> QED
    BY <2>8 DEF Sees
<1>6. CASE FramedIn(s, e, f)
  <2>1. Framed(s.prog) /\ Bracketed(s.prog) /\ s.at \in 1..Len(s.prog)
    BY <1>1, <1>6, FramedIs
  <2>2. s.at = Len(s.prog) /\ Len(s.prog) > 1
    BY <1>1, <2>1, Places DEF Bracketed
  <2>3. s.saved = s.before[1] /\ f = Raised(s.before[2], Kept(s.saved))
    BY <1>1, <1>6, <2>2, FramedMiddle
  <2>4. r.before = <<s.saved, Raised(f, 0 - Kept(s.saved))>>
    BY <1>2, <1>3, <2>3 DEF Same
  <2>5. r.at = Len(r.prog) + 1
    BY <2>2 DEF Same
  <2>6. FramedIn(r, s.saved, Raised(f, 0 - Kept(s.saved)))
    BY <2>1, <2>4, <2>5 DEF FramedIn, Same
  <2> QED
    BY <2>6 DEF Sees
<1> QED
  BY <1>4, <1>5, <1>6 DEF Sees

\* The way back to the head of a loop, which the same bracket holds.
LEMMA LoopsSees ==
  ASSUME NEW s, NEW r, Same(s, r), NEW e, NEW f, Sees(s, e, f),
         s.at <= Len(s.prog), s.prog[s.at].fn = "next", AppliesIn(s), r.have = s.have,
         r.at = CHOOSE k \in 1..Len(s.prog) : s.prog[k].fn = "for"
  PROVE  Sees(r, e, f)
<1>1. Len(s.prog) \in Nat /\ s.at \in Nat /\ s \in Scopes
  BY ScopeTyped DEF Same
<1>2. ASSUME Bracketed(s.prog), s.at \in 1..Len(s.prog)
      PROVE  /\ s.at \in 2..Len(s.prog) - 1
             /\ r.at \in 2..Len(s.prog) - 1 /\ s.prog[r.at].fn = "for"
  <2>1. s.at \in 2..Len(s.prog) - 1
    BY <1>1, <1>2, Places
  <2>2. \E k \in 1..Len(s.prog) : s.prog[k].fn = "for"
    BY <1>1, <1>2, <2>1 DEF Bracketed
  <2>3. r.at \in 1..Len(s.prog) /\ s.prog[r.at].fn = "for"
    BY <2>2
  <2>4. s.prog[1].fn # "for" /\ s.prog[Len(s.prog)].fn # "for"
    BY <1>2 DEF Bracketed, Enter, Leave, Do, Stmt
  <2>5. r.at # 1 /\ r.at # Len(s.prog)
    BY <2>3, <2>4
  <2> QED
    BY <1>1, <2>1, <2>3, <2>5, SMTT(30)
<1>3. CASE CalmIn(s, e, f)
  BY <1>1, <1>3, CalmIs, CalmFns
<1>4. CASE BalancedIn(s, e, f)
  <2>1. s.at \in 2..Len(s.prog) - 1 /\ r.at \in 2..Len(s.prog) - 1
    BY <1>1, <1>2, <1>4, BalancedIs
  <2>2. Held(r) = Held(s)
    BY DEF Held
  <2> QED
    BY <1>4, <2>1, <2>2, BalancedLoops DEF Sees
<1>5. CASE FramedIn(s, e, f)
  <2>1. Framed(s.prog) /\ Bracketed(s.prog) /\ s.at \in 1..Len(s.prog)
    BY <1>1, <1>5, FramedIs
  <2>2. /\ s.at \in 2..Len(s.prog) - 1
        /\ r.at \in 2..Len(s.prog) - 1 /\ s.prog[r.at].fn = "for"
    BY <1>2, <2>1
  <2>3. s.at \in 3..Len(s.prog) - 2
    BY <1>1, <2>1, <2>2, FramedPlaces
  <2>4. s.prog[2].fn = "PushLocalFrame"
    BY <2>1 DEF Framed, Do, Stmt
  <2>5. r.at \in 3..Len(s.prog) - 1
    <3>1. r.at # 2
      BY <2>2, <2>4
    <3> QED
      BY <1>1, <2>2, <3>1
  <2> QED
    BY <1>5, <2>3, <2>5, FramedInside DEF Sees
<1> QED
  BY <1>3, <1>4, <1>5 DEF Sees

\* A helper is called, in the environment its caller sees.
LEMMA StartSees ==
  ASSUME NEW p, NEW h, NEW have, NEW e, NEW f,
         Calm(p) \/ ((Balanced(p) \/ Framed(p)) /\ have = {})
  PROVE  Sees(Activation(h, p, have, <<e, f>>), e, f)
<1> DEFINE s == Activation(h, p, have, <<e, f>>)
<1>1. s.prog = p /\ s.at = 1 /\ s.have = have /\ s.before = <<e, f>>
  BY DEF Activation
<1> SUFFICES Sees(s, e, f)
  OBVIOUS
<1> HIDE DEF s
<1>2. CASE Calm(p)
  <2>1. Len(p) \in Nat
    BY <1>2, LenProperties DEF Calm
  <2> QED
    BY <1>1, <1>2, <2>1 DEF CalmIn, Sees
<1>3. CASE Balanced(p) /\ have = {}
  BY <1>1, <1>3 DEF BalancedIn, Sees, Held
<1>4. CASE Framed(p) /\ have = {}
  BY <1>1, <1>4 DEF FramedIn, Sees
<1> QED
  BY <1>2, <1>3, <1>4

\* A helper returns: its caller sees again what it saw before the call, and
\* what it is told is not about references.
LEMMA InfoSees ==
  ASSUME NEW s, NEW r, Same(s, r), NEW e, NEW f, Sees(s, e, f),
         r.at = s.at, NEW X, X \subseteq {"info"}, r.have = s.have \cup X
  PROVE  Sees(r, e, f)
<1>1. Held(r) = Held(s)
  BY DEF Held, RefNames
<1>2. /\ s.have \subseteq {"info"} => r.have \subseteq {"info"}
      /\ "frame" \in s.have => "frame" \in r.have
  OBVIOUS
<1>3. CASE CalmIn(s, e, f)
  BY <1>3 DEF CalmIn, Sees, Same
<1>4. CASE BalancedIn(s, e, f)
  BY <1>1, <1>4 DEF BalancedIn, Sees, Same
<1>5. CASE FramedIn(s, e, f)
  BY <1>2, <1>5 DEF FramedIn, Sees, Same
<1> QED
  BY <1>3, <1>4, <1>5 DEF Sees

\* A helper that is done has left everything as it was.
LEMMA DoneSees ==
  ASSUME NEW s \in Scopes, NEW e, NEW f, Sees(s, e, f), s.at > Len(s.prog)
  PROVE  s.before = <<e, f>>
<1>1. Len(s.prog) \in Nat /\ s.at \in Nat
  BY ScopeTyped
<1>2. CASE CalmIn(s, e, f)
  BY <1>2 DEF CalmIn
<1>3. CASE BalancedIn(s, e, f)
  BY <1>1, <1>3 DEF BalancedIn
<1>4. CASE FramedIn(s, e, f)
  BY <1>1, <1>4 DEF FramedIn
<1> QED
  BY <1>2, <1>3, <1>4 DEF Sees

-----------------------------------------------------------------------------
(* The programs.                                                           *)

LEMMA StmtTyped ==
  /\ Enter \in Stmts /\ Leave \in Stmts
  /\ \A fn \in Fns, needs \in SUBSET Handles, gives \in Handles : Do(fn, needs, gives) \in Stmts
  /\ \A fn \in Fns, needs \in SUBSET Handles, unless \in SUBSET Handles, gives \in Handles :
       Stmt(fn, needs, unless, gives) \in Stmts
  /\ \A ref \in Handles : Drop(ref) \in Stmts
  /\ \A helper \in Helpers, needs \in SUBSET Handles, unless \in SUBSET Handles :
       Run(helper, needs, unless) \in Stmts
<1>1. \A fn \in Fns, needs \in SUBSET Handles, unless \in SUBSET Handles, gives \in Handles :
        Stmt(fn, needs, unless, gives) \in Stmts
  BY DEF Stmts, Stmt
<1>2. \A fn \in Fns, needs \in SUBSET Handles, gives \in Handles : Do(fn, needs, gives) \in Stmts
  BY <1>1 DEF Do
<1>3. /\ "void" \in Handles /\ "text" \in Handles /\ Helpers \subseteq Fns
      /\ "guard" \in Fns /\ "unguard" \in Fns /\ "DeleteLocalRef" \in Fns
  BY DEF Handles, Fns, SafeFns
<1>4. Enter \in Stmts /\ Leave \in Stmts
  BY <1>2, <1>3 DEF Enter, Leave
<1>5. \A ref \in Handles : Drop(ref) \in Stmts
  BY <1>1, <1>3 DEF Drop
<1>6. \A helper \in Helpers, needs \in SUBSET Handles, unless \in SUBSET Handles :
        Run(helper, needs, unless) \in Stmts
  BY <1>1, <1>3 DEF Run
<1> QED
  BY <1>1, <1>2, <1>4, <1>5, <1>6

LEMMA ClassNameBalanced == Balanced(getJClassName)
<1> DEFINE p == getJClassName
<1>1. p \in Seq(Stmts) /\ Len(p) = 9
  <2>1. \A k \in 1..9 : p[k] \in Stmts
    BY StmtTyped DEF getJClassName, Fns, Handles, RefFns, SafeFns
  <2> QED
    BY <2>1 DEF getJClassName
<1>2. p[1] = Enter /\ p[9] = Leave
  BY DEF getJClassName
<1>3. /\ p[2] = Do("FindClass", {}, "classClass") /\ p[3] = Do("GetMethodID", {"classClass"}, "mid")
      /\ p[4] = Do("CallObjectMethod", {"mid"}, "nameStr")
      /\ p[5] = Do("GetStringUTFChars", {"nameStr"}, "utf")
      /\ p[6] = Do("ReleaseStringUTFChars", {"utf"}, "void")
      /\ p[7] = Drop("nameStr") /\ p[8] = Drop("classClass")
  BY DEF getJClassName
<1> HIDE DEF p
<1>4. Bracketed(p)
  BY <1>1, <1>2, <1>3 DEF Bracketed, Do, Drop, Stmt
<1>5. DropsLater(p, 3, "classClass") /\ DropsLater(p, 5, "nameStr")
  BY <1>1, <1>3 DEF DropsLater, Do, Drop, Stmt
<1>6. Balanced(p)
  BY <1>1, <1>3, <1>4, <1>5 DEF Balanced, RefFns, RefNames, Do, Drop, Stmt
<1> QED
  BY <1>6 DEF p

LEMMA StringBalanced == Balanced(print_jstring)
<1> DEFINE p == print_jstring
<1>1. p \in Seq(Stmts) /\ Len(p) = 4
  <2>1. \A k \in 1..4 : p[k] \in Stmts
    BY StmtTyped DEF print_jstring, Fns, Handles, RefFns, SafeFns, Helpers
  <2> QED
    BY <2>1 DEF print_jstring
<1>2. p[1] = Enter /\ p[4] = Leave
  BY DEF print_jstring
<1>3. /\ p[2] = Do("GetStringUTFChars", {}, "utf")
      /\ p[3] = Do("ReleaseStringUTFChars", {"utf"}, "void")
  BY DEF print_jstring
<1> HIDE DEF p
<1>4. Bracketed(p)
  BY <1>1, <1>2, <1>3 DEF Bracketed, Do, Drop, Run, Stmt
<1>6. Balanced(p)
  BY <1>1, <1>3, <1>4 DEF Balanced, RefFns, RefNames, Do, Drop, Run, Stmt
<1> QED
  BY <1>6 DEF p

LEMMA ObjectBalanced == Balanced(print_jobject_safe)
<1> DEFINE p == print_jobject_safe
<1>1. p \in Seq(Stmts) /\ Len(p) = 7
  <2>1. \A k \in 1..7 : p[k] \in Stmts
    BY StmtTyped DEF print_jobject_safe, Fns, Handles, RefFns, SafeFns, Helpers
  <2> QED
    BY <2>1 DEF print_jobject_safe
<1>2. p[1] = Enter /\ p[7] = Leave
  BY DEF print_jobject_safe
<1>3. /\ p[2] = Do("GetObjectClass", {}, "cls")
      /\ p[3] = Run("getJClassName", {"cls"}, {})
      /\ p[4] = Do("GetMethodID", {"cls"}, "mid_hash")
      /\ p[5] = Do("CallIntMethod", {"mid_hash"}, "hash")
      /\ p[6] = Drop("cls")
  BY DEF print_jobject_safe
<1> HIDE DEF p
<1>4. Bracketed(p)
  BY <1>1, <1>2, <1>3 DEF Bracketed, Do, Drop, Run, Stmt
<1>5. DropsLater(p, 3, "cls")
  BY <1>1, <1>3 DEF DropsLater, Do, Drop, Run, Stmt
<1>6. Balanced(p)
  BY <1>1, <1>3, <1>4, <1>5 DEF Balanced, RefFns, RefNames, Do, Drop, Run, Stmt
<1> QED
  BY <1>6 DEF p

LEMMA ObjectOrStringBalanced == Balanced(print_jobject_or_string)
<1> DEFINE p == print_jobject_or_string
<1>1. p \in Seq(Stmts) /\ Len(p) = 7
  <2>1. \A k \in 1..7 : p[k] \in Stmts
    BY StmtTyped DEF print_jobject_or_string, Fns, Handles, RefFns, SafeFns, Helpers
  <2> QED
    BY <2>1 DEF print_jobject_or_string
<1>2. p[1] = Enter /\ p[7] = Leave
  BY DEF print_jobject_or_string
<1>3. /\ p[2] = Do("FindClass", {}, "strCls")
      /\ p[3] = Do("IsInstanceOf", {"strCls"}, "isStr")
      /\ p[4] = Drop("strCls")
      /\ p[5] = Run("print_jstring", {"isStr"}, {})
      /\ p[6] = Run("print_jobject_safe", {}, {"isStr"})
  BY DEF print_jobject_or_string
<1> HIDE DEF p
<1>4. Bracketed(p)
  BY <1>1, <1>2, <1>3 DEF Bracketed, Do, Drop, Run, Stmt
<1>5. DropsLater(p, 3, "strCls")
  BY <1>1, <1>3 DEF DropsLater, Do, Drop, Run, Stmt
<1>6. Balanced(p)
  BY <1>1, <1>3, <1>4, <1>5 DEF Balanced, RefFns, RefNames, Do, Drop, Run, Stmt
<1> QED
  BY <1>6 DEF p

LEMMA VaArgsBalanced == Balanced(print_va_args_from_sig)
<1> DEFINE p == print_va_args_from_sig
<1>1. p \in Seq(Stmts) /\ Len(p) = 12
  <2>1. \A k \in 1..12 : p[k] \in Stmts
    BY StmtTyped DEF print_va_args_from_sig, Fns, Handles, RefFns, SafeFns, Helpers
  <2> QED
    BY <2>1 DEF print_va_args_from_sig
<1>2. p[1] = Enter /\ p[12] = Leave
  BY DEF print_va_args_from_sig
<1>3. /\ p[2] = Do("for", {}, "elem")
      /\ p[3] = Do("IsArray", {"elem"}, "arr")
      /\ p[4] = Run("print_jobject_safe", {"arr"}, {})
      /\ p[5] = Do("IsObject", {"elem"}, "obj")
      /\ p[6] = Do("FindClass", {"obj"}, "strCls")
      /\ p[7] = Do("IsInstanceOf", {"strCls"}, "isStr")
      /\ p[8] = Drop("strCls")
      /\ p[9] = Run("print_jstring", {"isStr"}, {})
      /\ p[10] = Run("print_jobject_safe", {"obj"}, {"isStr"})
      /\ p[11] = Do("next", {"elem"}, "void")
  BY DEF print_va_args_from_sig
<1> HIDE DEF p
<1>4. Bracketed(p)
  BY <1>1, <1>2, <1>3 DEF Bracketed, Do, Drop, Run, Stmt
<1>5. DropsLater(p, 7, "strCls")
  BY <1>1, <1>3 DEF DropsLater, Do, Drop, Run, Stmt
<1>6. Balanced(p)
  BY <1>1, <1>3, <1>4, <1>5 DEF Balanced, RefFns, RefNames, Do, Drop, Run, Stmt
<1> QED
  BY <1>6 DEF p

\* What may stand between the frame's ends, with loops or without; the first of
\* all asks for the object by which the member is reflected.
Inside(q, loops, first) ==
  /\ q \in Seq(Stmts) /\ Len(q) > 0
  /\ first => q[1].fn = "ToReflected"
  /\ \A k \in 1..Len(q) :
       /\ q[k].fn \notin {"guard", "unguard", "PushLocalFrame", "PopLocalFrame"}
       /\ ~(q[k].needs \subseteq {"info"})
       /\ q[k].gives # "frame"
       /\ q[k].needs \subseteq {"info", "frame"} => q[k].fn = "ToReflected"
       /\ q[k].fn = "ToReflected" => first /\ k = 1
       /\ q[k].fn = "next" => loops

HasFor(q) == \E h \in 1..Len(q) : q[h].fn = "for"

LEMMA InsideCat ==
  ASSUME NEW loops, NEW first, NEW a, NEW b, Inside(a, loops, first), Inside(b, loops, FALSE)
  PROVE  /\ Inside(a \o b, loops, first)
         /\ HasFor(a) \/ HasFor(b) => HasFor(a \o b)
<1>1. a \in Seq(Stmts) /\ b \in Seq(Stmts) /\ Len(a) \in Nat /\ Len(b) \in Nat
  BY LenProperties DEF Inside
<1> DEFINE c == a \o b
<1>2. /\ c \in Seq(Stmts) /\ Len(c) = Len(a) + Len(b)
      /\ \A k \in 1..Len(a) : c[k] = a[k]
      /\ \A k \in 1..Len(b) : c[Len(a) + k] = b[k]
  BY <1>1, ConcatProperties
<1> HIDE DEF c
<1>3. ASSUME NEW k \in 1..Len(c)
      PROVE  /\ c[k].fn \notin {"guard", "unguard", "PushLocalFrame", "PopLocalFrame"}
             /\ ~(c[k].needs \subseteq {"info"})
             /\ c[k].gives # "frame"
             /\ c[k].needs \subseteq {"info", "frame"} => c[k].fn = "ToReflected"
             /\ c[k].fn = "ToReflected" => first /\ k = 1
             /\ c[k].fn = "next" => loops
  <2>1. CASE k \in 1..Len(a)
    <3>1. c[k] = a[k]
      BY <1>2, <2>1
    <3> QED
      BY <2>1, <3>1 DEF Inside
  <2>2. CASE k \notin 1..Len(a)
    <3>1. PICK n \in 1..Len(b) : k = Len(a) + n
      <4>1. k - Len(a) \in 1..Len(b) /\ k = Len(a) + (k - Len(a))
        BY <1>1, <1>2, <2>2
      <4> QED
        BY <4>1
    <3>2. c[k] = b[n]
      BY <1>2, <3>1
    <3> QED
      BY <3>1, <3>2 DEF Inside
  <2> QED
    BY <2>1, <2>2
<1>4. Inside(c, loops, first)
  <2>1. Len(a) > 0 /\ c[1] = a[1] /\ Len(c) > 0
    BY <1>1, <1>2 DEF Inside
  <2> QED
    BY <1>2, <1>3, <2>1 DEF Inside
<1>5. /\ \A h \in 1..Len(a) : h \in 1..Len(c) /\ c[h] = a[h]
      /\ \A h \in 1..Len(b) : Len(a) + h \in 1..Len(c) /\ c[Len(a) + h] = b[h]
  BY <1>1, <1>2
<1>6. HasFor(a) \/ HasFor(b) => HasFor(c)
  BY <1>5 DEF HasFor
<1> QED
  BY <1>4, <1>6 DEF c

LEMMA InFrameFramed ==
  ASSUME NEW loops, NEW q, Inside(q, loops, TRUE), loops => HasFor(q)
  PROVE  Framed(InFrame(q))
<1> DEFINE a == << Enter, Do("PushLocalFrame", {}, "frame") >>
           b == << Do("PopLocalFrame", {"frame"}, "void"), Leave >>
           p == InFrame(q)
<1>1. a \in Seq(Stmts) /\ b \in Seq(Stmts) /\ q \in Seq(Stmts) /\ Len(q) \in Nat
  <2>1. /\ Do("PushLocalFrame", {}, "frame") \in Stmts
        /\ Do("PopLocalFrame", {"frame"}, "void") \in Stmts
    BY StmtTyped DEF Fns, SafeFns, Handles
  <2> QED
    BY <2>1, StmtTyped, LenProperties DEF Inside
<1>2. /\ Len(a) = 2 /\ a[1] = Enter /\ a[2] = Do("PushLocalFrame", {}, "frame")
      /\ Len(b) = 2 /\ b[1] = Do("PopLocalFrame", {"frame"}, "void") /\ b[2] = Leave
  OBVIOUS
<1>3. p = (a \o q) \o b
  BY DEF InFrame
<1> HIDE DEF a, b, p
<1> DEFINE c == a \o q
<1>4. /\ c \in Seq(Stmts) /\ Len(c) = 2 + Len(q) /\ c[1] = a[1] /\ c[2] = a[2]
      /\ \A k \in 1..Len(q) : c[2 + k] = q[k]
  <2>1. /\ c \in Seq(Stmts) /\ Len(c) = Len(a) + Len(q)
        /\ \A k \in 1..Len(a) : c[k] = a[k]
        /\ \A k \in 1..Len(q) : c[Len(a) + k] = q[k]
    BY <1>1, ConcatProperties
  <2> HIDE DEF c
  <2> QED
    BY <1>1, <1>2, <2>1
<1> HIDE DEF c
<1>5. /\ p \in Seq(Stmts) /\ Len(p) = 4 + Len(q)
      /\ \A k \in 1..Len(c) : p[k] = c[k]
      /\ \A k \in 1..2 : p[Len(c) + k] = b[k]
  <2>1. p = c \o b
    BY <1>3 DEF c
  <2>2. /\ p \in Seq(Stmts) /\ Len(p) = Len(c) + Len(b)
        /\ \A k \in 1..Len(c) : p[k] = c[k]
        /\ \A k \in 1..Len(b) : p[Len(c) + k] = b[k]
    <3>1. c \in Seq(Stmts) /\ b \in Seq(Stmts)
      BY <1>1, <1>4
    <3>2. /\ c \o b \in Seq(Stmts) /\ Len(c \o b) = Len(c) + Len(b)
          /\ \A k \in 1..Len(c) : (c \o b)[k] = c[k]
          /\ \A k \in 1..Len(b) : (c \o b)[Len(c) + k] = b[k]
      BY <3>1, ConcatProperties
    <3> QED
      BY <2>1, <3>2
  <2>3. Len(b) = 2 /\ Len(p) = 4 + Len(q)
    BY <1>1, <1>2, <1>4, <2>2
  <2> QED
    BY <2>2, <2>3
<1>6. /\ p[1] = Enter /\ p[2] = Do("PushLocalFrame", {}, "frame")
      /\ p[Len(p) - 1] = Do("PopLocalFrame", {"frame"}, "void") /\ p[Len(p)] = Leave
  <2>1. 1 \in 1..Len(c) /\ 2 \in 1..Len(c)
    BY <1>1, <1>4
  <2>2. Len(p) - 1 = Len(c) + 1 /\ Len(p) = Len(c) + 2
    BY <1>1, <1>4, <1>5
  <2> QED
    BY <1>2, <1>4, <1>5, <2>1, <2>2
<1>7. \A k \in 1..Len(q) : p[2 + k] = q[k] /\ 2 + k \in 3..Len(p) - 2
  <2>1. \A k \in 1..Len(q) : 2 + k \in 1..Len(c) /\ 2 + k \in 3..Len(p) - 2
    BY <1>1, <1>4, <1>5
  <2> QED
    BY <1>4, <1>5, <2>1
<1>8. ASSUME NEW k \in 3..Len(p) - 2
      PROVE  /\ p[k].fn \notin {"guard", "unguard", "PushLocalFrame", "PopLocalFrame"}
             /\ ~(p[k].needs \subseteq {"info"})
             /\ p[k].gives # "frame"
             /\ p[k].needs \subseteq {"info", "frame"} => p[k].fn = "ToReflected"
             /\ p[k].fn = "ToReflected" => k = 3
             /\ p[k].fn = "next" => \E h \in 2..Len(p) - 1 : p[h].fn = "for"
  <2>1. PICK n \in 1..Len(q) : k = 2 + n
    <3>1. k - 2 \in 1..Len(q) /\ k = 2 + (k - 2)
      BY <1>1, <1>5
    <3> QED
      BY <3>1
  <2>2. p[k] = q[n]
    BY <1>7, <2>1
  <2>3. \A h \in 1..Len(q) : 2 + h \in 2..Len(p) - 1
    BY <1>1, <1>5
  <2>4. loops => \E h \in 2..Len(p) - 1 : p[h].fn = "for"
    BY <1>7, <2>3 DEF HasFor
  <2>5. n = 1 => k = 3
    BY <2>1
  <2> QED
    BY <2>2, <2>4, <2>5 DEF Inside
<1>9. Bracketed(p)
  <2>1. ASSUME NEW k \in 2..Len(p) - 1
        PROVE  /\ p[k].fn \notin {"guard", "unguard"}
               /\ p[k].fn = "next" => \E h \in 2..Len(p) - 1 : p[h].fn = "for"
    <3>1. k \in 3..Len(p) - 2 \/ k = 2 \/ k = Len(p) - 1
      BY <1>1, <1>5
    <3> QED
      BY <1>6, <1>8, <3>1 DEF Do, Stmt
  <2> QED
    BY <1>1, <1>5, <1>6, <2>1 DEF Bracketed
<1>10. Len(p) > 4 /\ p[3].fn = "ToReflected"
  <2>1. Len(q) > 0 /\ q[1].fn = "ToReflected"
    BY DEF Inside
  <2>2. p[2 + 1] = q[1]
    BY <1>1, <1>7, <2>1
  <2> QED
    BY <1>1, <1>5, <2>1, <2>2
<1>11. Framed(p)
  BY <1>6, <1>8, <1>9, <1>10 DEF Framed
<1> QED
  BY <1>11 DEF p

LEMMA ClassPieceInside ==
  ASSUME NEW loops, NEW ref \in Handles, NEW mid \in Handles,
         NEW name \in Handles \ {"info", "frame"},
         NEW utf \in Handles \ {"info", "frame"}, mid \notin {"info", "frame"}
  PROVE  Inside(ClassPiece(ref, mid, name, utf), loops, FALSE)
<1> DEFINE p == ClassPiece(ref, mid, name, utf)
<1>1. p \in Seq(Stmts) /\ Len(p) = 4
  <2>1. \A k \in 1..4 : p[k] \in Stmts
    BY StmtTyped DEF ClassPiece, Fns, Handles, RefFns, SafeFns
  <2> QED
    BY <2>1 DEF ClassPiece
<1>2. /\ p[1] = Do("CallObjectMethod", {ref, mid}, name)
      /\ p[2] = Do("GetStringUTFChars", {name}, utf)
      /\ p[3] = Do("ReleaseStringUTFChars", {utf}, "void")
      /\ p[4] = Do("piece", {utf}, "sig")
  BY DEF ClassPiece
<1> HIDE DEF p
<1>3. \A k \in 1..4 :
        /\ p[k].fn \in {"CallObjectMethod", "GetStringUTFChars", "ReleaseStringUTFChars", "piece"}
        /\ mid \in p[k].needs \/ name \in p[k].needs \/ utf \in p[k].needs
        /\ p[k].gives # "frame"
  BY <1>2 DEF Do, Stmt
<1>4. Inside(p, loops, FALSE)
  BY <1>1, <1>3 DEF Inside
<1> QED
  BY <1>4 DEF p

LEMMA MethodNameInside == Inside(MethodName, TRUE, TRUE)
<1>1. MethodName \in Seq(Stmts) /\ Len(MethodName) = 15
  <2>1. \A k \in 1..15 : MethodName[k] \in Stmts
    BY StmtTyped DEF Fns, Handles, RefFns, SafeFns, MethodName
  <2> QED
    BY <2>1 DEF MethodName
<1>2. \A k \in 2..15 :
        /\ MethodName[k].fn \notin {"guard", "unguard", "PushLocalFrame", "PopLocalFrame",
                                  "ToReflected"}
        /\ ~(MethodName[k].needs \subseteq {"info", "frame"}) /\ MethodName[k].gives # "frame"
  BY SMTT(60) DEF Do, Stmt, MethodName
<1>3. MethodName[1] = Do("ToReflected", {"frame"}, "reflected")
  BY DEF MethodName
<1>4. /\ MethodName[1].fn = "ToReflected" /\ MethodName[1].needs = {"frame"}
      /\ MethodName[1].gives = "reflected"
  BY <1>3 DEF Do, Stmt
<1> DEFINE q == MethodName
<1> HIDE DEF q
<1>5. \A k \in 1..15 :
        /\ q[k].fn \notin {"guard", "unguard", "PushLocalFrame", "PopLocalFrame"}
        /\ ~(q[k].needs \subseteq {"info"}) /\ q[k].gives # "frame"
        /\ q[k].needs \subseteq {"info", "frame"} => q[k].fn = "ToReflected"
        /\ q[k].fn = "ToReflected" => k = 1
  <2>1. \A k \in 1..15 : k = 1 \/ k \in 2..15
    OBVIOUS
  <2> QED
    BY <1>2, <1>4, <2>1 DEF q
<1> QED
  BY <1>1, <1>4, <1>5 DEF Inside, q

LEMMA ParamLoopInside == Inside(ParamLoop, TRUE, FALSE) /\ HasFor(ParamLoop)
<1> DEFINE a == << Do("for", {"count"}, "elem"),
                    Do("GetObjectArrayElement", {"elem"}, "paramCls") >>
           b == << Do("next", {"elem"}, "void") >>
<1>1. Inside(a, TRUE, FALSE)
  <2>1. a \in Seq(Stmts) /\ Len(a) = 2
    <3>1. \A k \in 1..2 : a[k] \in Stmts
      BY StmtTyped DEF Fns, Handles, RefFns, SafeFns
    <3> QED
      BY <3>1
  <2>2. \A k \in 1..2 :
          /\ a[k].fn \notin {"guard", "unguard", "PushLocalFrame", "PopLocalFrame",
                         "ToReflected"}
          /\ ~(a[k].needs \subseteq {"info", "frame"}) /\ a[k].gives # "frame"
    BY DEF Do, Stmt
  <2> QED
    BY <2>1, <2>2 DEF Inside
<1>2. Inside(ClassPiece("paramCls", "mid_clsGetName", "pName", "pUtf"), TRUE, FALSE)
  <2>1. /\ "paramCls" \in Handles /\ "mid_clsGetName" \in Handles
        /\ "pName" \in Handles \ {"info", "frame"}
        /\ "pUtf" \in Handles \ {"info", "frame"}
    BY DEF Handles
  <2> QED
    BY <2>1, ClassPieceInside
<1>3. Inside(b, TRUE, FALSE)
  <2>1. b \in Seq(Stmts) /\ Len(b) = 1
    <3>1. \A k \in 1..1 : b[k] \in Stmts
      BY StmtTyped DEF Fns, Handles, RefFns, SafeFns
    <3> QED
      BY <3>1
  <2>2. \A k \in 1..1 :
          /\ b[k].fn \notin {"guard", "unguard", "PushLocalFrame", "PopLocalFrame",
                         "ToReflected"}
          /\ ~(b[k].needs \subseteq {"info", "frame"}) /\ b[k].gives # "frame"
    BY DEF Do, Stmt
  <2> QED
    BY <2>1, <2>2 DEF Inside
<1>4. HasFor(a)
  BY DEF HasFor, Do, Stmt
<1> HIDE DEF a, b
<1> DEFINE c == a \o ClassPiece("paramCls", "mid_clsGetName", "pName", "pUtf")
<1>5. Inside(c, TRUE, FALSE) /\ HasFor(c)
  BY <1>1, <1>2, <1>4, InsideCat
<1> HIDE DEF c
<1>6. Inside(c \o b, TRUE, FALSE) /\ HasFor(c \o b)
  BY <1>3, <1>5, InsideCat
<1> QED
  BY <1>6 DEF ParamLoop, a, b, c

LEMMA SignatureInside == Inside(Signature, TRUE, FALSE) /\ HasFor(Signature)
<1> DEFINE a == << Do("FindClass", {"known"}, "clsClass"),
                    Do("GetMethodID", {"clsClass"}, "mid_clsGetName"),
                    Do("CallObjectMethod", {"mid_getParams", "mid_clsGetName"}, "params"),
                    Do("GetArrayLength", {"params"}, "count") >>
           b == << Do("CallObjectMethod", {"mid_getReturn", "mid_clsGetName"}, "retCls") >>
           c == << Do("piece", {"isCtor"}, "sig"),
                    Do("set", {"known"}, "info") >>
<1>1. Inside(a, TRUE, FALSE)
  <2>1. a \in Seq(Stmts) /\ Len(a) = 4
    <3>1. \A k \in 1..4 : a[k] \in Stmts
      BY StmtTyped DEF Fns, Handles, RefFns, SafeFns
    <3> QED
      BY <3>1
  <2>2. \A k \in 1..4 :
          /\ a[k].fn \notin {"guard", "unguard", "PushLocalFrame", "PopLocalFrame",
                         "ToReflected"}
          /\ ~(a[k].needs \subseteq {"info", "frame"}) /\ a[k].gives # "frame"
    BY DEF Do, Stmt
  <2> QED
    BY <2>1, <2>2 DEF Inside
<1>2. Inside(b, TRUE, FALSE)
  <2>1. b \in Seq(Stmts) /\ Len(b) = 1
    <3>1. \A k \in 1..1 : b[k] \in Stmts
      BY StmtTyped DEF Fns, Handles, RefFns, SafeFns
    <3> QED
      BY <3>1
  <2>2. \A k \in 1..1 :
          /\ b[k].fn \notin {"guard", "unguard", "PushLocalFrame", "PopLocalFrame",
                         "ToReflected"}
          /\ ~(b[k].needs \subseteq {"info", "frame"}) /\ b[k].gives # "frame"
    BY DEF Do, Stmt
  <2> QED
    BY <2>1, <2>2 DEF Inside
<1>3. Inside(c, TRUE, FALSE)
  <2>1. c \in Seq(Stmts) /\ Len(c) = 2
    <3>1. \A k \in 1..2 : c[k] \in Stmts
      BY StmtTyped DEF Fns, Handles, RefFns, SafeFns
    <3> QED
      BY <3>1
  <2>2. \A k \in 1..2 :
          /\ c[k].fn \notin {"guard", "unguard", "PushLocalFrame", "PopLocalFrame",
                         "ToReflected"}
          /\ ~(c[k].needs \subseteq {"info", "frame"}) /\ c[k].gives # "frame"
    BY DEF Do, Stmt
  <2> QED
    BY <2>1, <2>2 DEF Inside
<1>4. Inside(ClassPiece("retCls", "mid_clsGetName", "rName", "rUtf"), TRUE, FALSE)
  <2>1. /\ "retCls" \in Handles /\ "mid_clsGetName" \in Handles
        /\ "rName" \in Handles \ {"info", "frame"}
        /\ "rUtf" \in Handles \ {"info", "frame"}
    BY DEF Handles
  <2> QED
    BY <2>1, ClassPieceInside
<1> HIDE DEF a, b, c
<1> DEFINE d == a \o ParamLoop
           g == d \o b
           h == g \o ClassPiece("retCls", "mid_clsGetName", "rName", "rUtf")
<1>5. Inside(d, TRUE, FALSE) /\ HasFor(d)
  BY <1>1, ParamLoopInside, InsideCat
<1> HIDE DEF d
<1>6. Inside(g, TRUE, FALSE) /\ HasFor(g)
  BY <1>2, <1>5, InsideCat
<1> HIDE DEF g
<1>7. Inside(h, TRUE, FALSE) /\ HasFor(h)
  BY <1>4, <1>6, InsideCat
<1> HIDE DEF h
<1>8. Inside(h \o c, TRUE, FALSE) /\ HasFor(h \o c)
  BY <1>3, <1>7, InsideCat
<1> QED
  BY <1>8 DEF Signature, a, b, c, d, g, h

LEMMA FieldNameTypeInside == Inside(FieldNameType, FALSE, TRUE)
<1> DEFINE a == << Do("ToReflected", {"frame"}, "reflected"),
                    Do("FindClass", {"reflected"}, "clsField"),
                    Do("GetMethodID", {"clsField"}, "mid_getName"),
                    Do("CallObjectMethod", {"mid_getName"}, "name_ref"),
                    Do("GetStringUTFChars", {"name_ref"}, "name"),
                    Do("ReleaseStringUTFChars", {"name"}, "void"),
                    Do("GetMethodID", {"clsField"}, "mid_getType"),
                    Do("CallObjectMethod", {"mid_getType"}, "typeCls"),
                    Do("FindClass", {"typeCls"}, "clsClass"),
                    Do("GetMethodID", {"clsClass"}, "mid_clsGetName") >>
<1>1. Inside(a, FALSE, TRUE)
  <2>1. a \in Seq(Stmts) /\ Len(a) = 10
    <3>1. \A k \in 1..10 : a[k] \in Stmts
      BY StmtTyped DEF Fns, Handles, RefFns, SafeFns
    <3> QED
      BY <3>1
  <2>2. \A k \in 2..10 :
          /\ a[k].fn \notin {"guard", "unguard", "PushLocalFrame", "PopLocalFrame",
                         "next", "ToReflected"}
          /\ ~(a[k].needs \subseteq {"info", "frame"}) /\ a[k].gives # "frame"
    BY SMTT(60) DEF Do, Stmt
  <2>3. a[1] = Do("ToReflected", {"frame"}, "reflected")
    OBVIOUS
  <2> HIDE DEF a
  <2>4. a[1].fn = "ToReflected" /\ a[1].needs = {"frame"} /\ a[1].gives = "reflected"
    BY <2>3 DEF Do, Stmt
  <2>5. \A k \in 1..10 :
          /\ a[k].fn \notin {"guard", "unguard", "PushLocalFrame", "PopLocalFrame", "next"}
          /\ ~(a[k].needs \subseteq {"info"}) /\ a[k].gives # "frame"
          /\ a[k].needs \subseteq {"info", "frame"} => a[k].fn = "ToReflected"
          /\ a[k].fn = "ToReflected" => k = 1
    <3>1. \A k \in 1..10 : k = 1 \/ k \in 2..10
      OBVIOUS
    <3> QED
      BY <2>2, <2>4, <3>1
  <2> QED
    BY <2>1, <2>4, <2>5 DEF Inside
<1>2. Inside(ClassPiece("typeCls", "mid_clsGetName", "tName", "tUtf"), FALSE, FALSE)
  <2>1. /\ "typeCls" \in Handles /\ "mid_clsGetName" \in Handles
        /\ "tName" \in Handles \ {"info", "frame"}
        /\ "tUtf" \in Handles \ {"info", "frame"}
    BY DEF Handles
  <2> QED
    BY <2>1, ClassPieceInside
<1> HIDE DEF a
<1>3. Inside(a \o ClassPiece("typeCls", "mid_clsGetName", "tName", "tUtf"), FALSE, TRUE)
  BY <1>1, <1>2, InsideCat
<1> QED
  BY <1>3 DEF FieldNameType, a

LEMMA MethodFramed == Framed(resolveMethodByReflection)
<1> DEFINE a == << Run("getJClassName", {"known"}, {}),
                    Do("cache", {"name"}, "void") >>
<1>1. Inside(a, TRUE, FALSE)
  <2>1. a \in Seq(Stmts) /\ Len(a) = 2
    <3>1. \A k \in 1..2 : a[k] \in Stmts
      BY StmtTyped DEF Fns, Handles, RefFns, SafeFns, Helpers
    <3> QED
      BY <3>1
  <2>2. \A k \in 1..2 :
          /\ a[k].fn \notin {"guard", "unguard", "PushLocalFrame", "PopLocalFrame",
                         "ToReflected"}
          /\ ~(a[k].needs \subseteq {"info", "frame"}) /\ a[k].gives # "frame"
    BY DEF Do, Run, Stmt
  <2> QED
    BY <2>1, <2>2 DEF Inside
<1> HIDE DEF a
<1> DEFINE b == MethodName \o Signature
<1>2. Inside(b, TRUE, TRUE) /\ HasFor(b)
  BY MethodNameInside, SignatureInside, InsideCat
<1> HIDE DEF b
<1>3. Inside(b \o a, TRUE, TRUE) /\ HasFor(b \o a)
  BY <1>1, <1>2, InsideCat
<1>4. Framed(InFrame(b \o a))
  BY <1>3, InFrameFramed
<1> QED
  BY <1>4 DEF resolveMethodByReflection, a, b

LEMMA FieldFramed == Framed(resolveFieldByReflection)
<1> DEFINE a == << Run("getJClassName", {"clsField"}, {}),
                    Do("cache", {"name"}, "void") >>
<1>1. Inside(a, FALSE, FALSE)
  <2>1. a \in Seq(Stmts) /\ Len(a) = 2
    <3>1. \A k \in 1..2 : a[k] \in Stmts
      BY StmtTyped DEF Fns, Handles, RefFns, SafeFns, Helpers
    <3> QED
      BY <3>1
  <2>2. \A k \in 1..2 :
          /\ a[k].fn \notin {"guard", "unguard", "PushLocalFrame", "PopLocalFrame",
                         "next", "ToReflected"}
          /\ ~(a[k].needs \subseteq {"info", "frame"}) /\ a[k].gives # "frame"
    BY DEF Do, Run, Stmt
  <2> QED
    BY <2>1, <2>2 DEF Inside
<1> HIDE DEF a
<1>2. Inside(FieldNameType \o a, FALSE, TRUE)
  BY <1>1, FieldNameTypeInside, InsideCat
<1>3. Framed(InFrame(FieldNameType \o a))
  BY <1>2, InFrameFramed
<1> QED
  BY <1>3 DEF resolveFieldByReflection, a

\* Every helper deletes its references, has a frame for them, or makes none.
LEMMA InfoResolvedKind ==
  ASSUME NEW m
  PROVE  Calm(InfoResolved(m)) \/ Balanced(InfoResolved(m))
<1> DEFINE resolver == IF Sort[m] \in Fields THEN "resolveFieldByReflection"
                                             ELSE "resolveMethodByReflection"
<1>1. resolver \in Helpers
  BY DEF Helpers
<1> DEFINE a == << Do("set", {}, "info") >>
           b == << Do("cacheAll", {}, "info") >>
           c == << Enter, Run(resolver, {}, {}), Leave >>
           d == << Enter, Do("GetObjectClass", {}, "clazz"), Run(resolver, {"clazz"}, {}),
                   Drop("clazz"), Leave >>
<1>2. InfoResolved(m) \in {a, b, c, d}
  BY DEF InfoResolved
<1> HIDE DEF resolver
<1>3. Calm(a)
  <2>1. Do("set", {}, "info") \in Stmts
    BY StmtTyped DEF Fns, Handles
  <2> QED
    BY <2>1 DEF Calm, Do, Stmt
<1>4. Calm(b)
  <2>1. Do("cacheAll", {}, "info") \in Stmts
    BY StmtTyped DEF Fns, Handles
  <2> QED
    BY <2>1 DEF Calm, Do, Stmt
<1>5. Balanced(c)
  <2>1. Run(resolver, {}, {}) \in Stmts
    BY <1>1, StmtTyped
  <2>2. c \in Seq(Stmts) /\ Len(c) = 3
    BY <2>1, StmtTyped
  <2>3. c[1] = Enter /\ c[2] = Run(resolver, {}, {}) /\ c[3] = Leave
    OBVIOUS
  <2> HIDE DEF c
  <2>4. c[2].fn \in Helpers /\ c[2].gives = "text"
    BY <1>1, <2>3 DEF Run, Stmt
  <2>5. /\ c[2].fn \notin {"guard", "unguard", "next"}
        /\ c[2].fn \notin {"PushLocalFrame", "PopLocalFrame", "DeleteLocalRef"} \cup RefFns
    BY <2>4, CalmFns
  <2>6. Bracketed(c)
    BY <2>2, <2>3, <2>5 DEF Bracketed
  <2> QED
    BY <2>2, <2>4, <2>5, <2>6 DEF Balanced, RefNames
<1>6. Balanced(d)
  <2>1. /\ Run(resolver, {"clazz"}, {}) \in Stmts
        /\ Do("GetObjectClass", {}, "clazz") \in Stmts /\ Drop("clazz") \in Stmts
    BY <1>1, StmtTyped, ZenonT(30) DEF Handles, Fns, RefFns
  <2>2. d \in Seq(Stmts) /\ Len(d) = 5
    BY <2>1, StmtTyped
  <2>3. /\ d[1] = Enter /\ d[2] = Do("GetObjectClass", {}, "clazz")
        /\ d[3] = Run(resolver, {"clazz"}, {}) /\ d[4] = Drop("clazz") /\ d[5] = Leave
    OBVIOUS
  <2> HIDE DEF d
  <2>4. /\ d[2].fn = "GetObjectClass" /\ d[2].gives = "clazz"
        /\ d[3].fn \in Helpers /\ d[3].gives = "text"
        /\ d[4].fn = "DeleteLocalRef" /\ d[4].gives = "clazz"
    BY <1>1, <2>3 DEF Do, Drop, Run, Stmt
  <2>5. /\ d[3].fn \notin {"guard", "unguard", "next"}
        /\ d[3].fn \notin {"PushLocalFrame", "PopLocalFrame", "DeleteLocalRef"} \cup RefFns
    BY <2>4, CalmFns
  <2>6. Bracketed(d)
    BY <2>2, <2>3, <2>4, <2>5 DEF Bracketed
  <2>7. DropsLater(d, 3, "clazz")
    BY <2>2, <2>3, <2>4, <2>5 DEF DropsLater
  <2>8. "GetObjectClass" \in RefFns /\ "DeleteLocalRef" \notin RefFns
    BY DEF RefFns
  <2> QED
    BY <2>2, <2>3, <2>4, <2>5, <2>6, <2>7, <2>8 DEF Balanced, RefNames
<1> QED
  BY <1>2, <1>3, <1>4, <1>5, <1>6

LEMMA ProgramKind ==
  ASSUME NEW helper \in Helpers, NEW m
  PROVE  LET p == Program(helper, m) IN
         /\ Calm(p) \/ Balanced(p) \/ Framed(p)
         /\ p \in Seq(Stmts)
<1> DEFINE p == Program(helper, m)
<1>1. Calm(p) \/ Balanced(p) \/ Framed(p)
  <2>1. CASE helper = "getJClassName"
    BY <2>1, ClassNameBalanced DEF Program
  <2>2. CASE helper = "print_jstring"
    BY <2>2, StringBalanced DEF Program
  <2>3. CASE helper = "print_jobject_safe"
    BY <2>3, ObjectBalanced DEF Program
  <2>4. CASE helper = "print_jobject_or_string"
    BY <2>4, ObjectOrStringBalanced DEF Program
  <2>5. CASE helper = "print_va_args_from_sig"
    BY <2>5, VaArgsBalanced DEF Program
  <2>6. CASE helper = "InfoResolved"
    BY <2>6, InfoResolvedKind DEF Program
  <2>7. CASE helper = "resolveMethodByReflection"
    BY <2>7, MethodFramed DEF Program
  <2>8. CASE helper = "resolveFieldByReflection"
    BY <2>8, FieldFramed DEF Program
  <2> QED
    BY <2>1, <2>2, <2>3, <2>4, <2>5, <2>6, <2>7, <2>8 DEF Helpers
<1>2. Calm(p) \/ Balanced(p) \/ Framed(p) => p \in Seq(Stmts)
  BY DEF Calm, Balanced, Framed, Bracketed
<1> QED
  BY <1>1, <1>2

-----------------------------------------------------------------------------
(* The handlers only run helpers.                                          *)

CalmStmts == {st \in Stmts : st.fn \in (Helpers \ Reflectors) \cup {"set", "cacheAll"}}
Handlers == [entry : Seq(CalmStmts), ret : Seq(CalmStmts)]
CalmTable(t) == \A kind \in DOMAIN t : t[kind] \in Handlers

LEMMA CalmSeq ==
  ASSUME NEW p \in Seq(CalmStmts)
  PROVE  Calm(p)
<1>1. p \in Seq(Stmts) /\ \A k \in 1..Len(p) : p[k] \in CalmStmts
  BY DEF CalmStmts
<1> QED
  BY <1>1 DEF Calm, CalmStmts

LEMMA CalmPieces ==
  /\ {Class, Object, Text, Value, Info, Args} \subseteq CalmStmts
  /\ Do("cacheAll", {"ret"}, "void") \in CalmStmts
  /\ \A helper \in Helpers \ Reflectors : Result(helper) \in Seq(CalmStmts)
  /\ \A entry \in Seq(CalmStmts), ret \in Seq(CalmStmts) : Handler(entry, ret) \in Handlers
<1>1. ASSUME NEW helper \in Helpers \ Reflectors, NEW needs \in SUBSET Handles
      PROVE  Run(helper, needs, {}) \in CalmStmts
  <2>1. Run(helper, needs, {}) \in Stmts
    BY StmtTyped
  <2>2. Run(helper, needs, {}).fn = helper
    BY DEF Run, Stmt
  <2> QED
    BY <2>1, <2>2 DEF CalmStmts
<1>2. {Class, Object, Text, Value, Info, Args} \subseteq CalmStmts
  <2>1. {"info"} \in SUBSET Handles /\ {} \in SUBSET Handles
    BY DEF Handles
  <2>2. {"getJClassName", "print_jobject_safe", "print_jstring", "print_jobject_or_string",
         "InfoResolved", "print_va_args_from_sig"} \subseteq Helpers \ Reflectors
    BY DEF Helpers, Reflectors
  <2> QED
    BY <1>1, <2>1, <2>2 DEF Class, Object, Text, Value, Info, Args
<1>3. Do("cacheAll", {"ret"}, "void") \in CalmStmts
  <2>1. Do("cacheAll", {"ret"}, "void") \in Stmts
    BY StmtTyped DEF Fns, Handles
  <2> QED
    BY <2>1 DEF CalmStmts, Do, Stmt
<1>4. ASSUME NEW helper \in Helpers \ Reflectors
      PROVE  Result(helper) \in Seq(CalmStmts)
  <2>1. {"ret"} \in SUBSET Handles
    BY DEF Handles
  <2>2. Run(helper, {"ret"}, {}) \in CalmStmts
    BY <1>1, <2>1
  <2> QED
    BY <2>2 DEF Result
<1>5. ASSUME NEW entry \in Seq(CalmStmts), NEW ret \in Seq(CalmStmts)
      PROVE  Handler(entry, ret) \in Handlers
  BY DEF Handlers, Handler
<1> QED
  BY <1>2, <1>3, <1>4, <1>5

LEMMA ClassHandlersCalm == CalmTable(ClassHandlers)
<1>1. {"getJClassName"} \subseteq Helpers \ Reflectors
  BY DEF Helpers, Reflectors
<1>2. /\ << >> \in Seq(CalmStmts)
     /\ <<Class>> \in Seq(CalmStmts)
     /\ <<Object>> \in Seq(CalmStmts)
     /\ <<Class, Class>> \in Seq(CalmStmts)
     /\ <<Object, Class>> \in Seq(CalmStmts)
     /\ <<Object, Object>> \in Seq(CalmStmts)
  BY CalmPieces
<1>3. /\ ClassHandlers.FindClass \in Handlers
     /\ ClassHandlers.GetSuperclass \in Handlers
     /\ ClassHandlers.GetObjectClass \in Handlers
     /\ ClassHandlers.IsAssignableFrom \in Handlers
     /\ ClassHandlers.IsInstanceOf \in Handlers
     /\ ClassHandlers.IsSameObject \in Handlers
  BY <1>1, <1>2, CalmPieces DEF ClassHandlers
<1>4. DOMAIN ClassHandlers =
       {"FindClass", "GetSuperclass", "GetObjectClass", "IsAssignableFrom", "IsInstanceOf",
        "IsSameObject"}
  BY DEF ClassHandlers
<1> QED
  BY <1>3, <1>4 DEF CalmTable

LEMMA RefHandlersCalm == CalmTable(RefHandlers)
<1>1. /\ <<Object>> \in Seq(CalmStmts)
     /\ << >> \in Seq(CalmStmts)
  BY CalmPieces
<1>2. /\ RefHandlers.NewLocalRef \in Handlers
     /\ RefHandlers.DeleteLocalRef \in Handlers
  BY <1>1, CalmPieces DEF RefHandlers
<1>3. DOMAIN RefHandlers =
       {"NewLocalRef", "DeleteLocalRef"}
  BY DEF RefHandlers
<1> QED
  BY <1>2, <1>3 DEF CalmTable

LEMMA IdHandlersCalm == CalmTable(IdHandlers)
<1>1. /\ <<Class>> \in Seq(CalmStmts)
     /\ << Do("cacheAll", {"ret"}, "void") >> \in Seq(CalmStmts)
     /\ << >> \in Seq(CalmStmts)
  BY CalmPieces
<1>2. /\ IdHandlers.GetMethodID \in Handlers
     /\ IdHandlers.GetFieldID \in Handlers
     /\ IdHandlers.RegisterNatives \in Handlers
  BY <1>1, CalmPieces DEF IdHandlers
<1>3. DOMAIN IdHandlers =
       {"GetMethodID", "GetFieldID", "RegisterNatives"}
  BY DEF IdHandlers
<1> QED
  BY <1>2, <1>3 DEF CalmTable

LEMMA StringHandlersCalm == CalmTable(StringHandlers)
<1>1. {"print_jstring"} \subseteq Helpers \ Reflectors
  BY DEF Helpers, Reflectors
<1>2. /\ << >> \in Seq(CalmStmts)
     /\ <<Text>> \in Seq(CalmStmts)
  BY CalmPieces
<1>3. /\ StringHandlers.NewString \in Handlers
     /\ StringHandlers.GetStringUTFChars \in Handlers
     /\ StringHandlers.ReleaseStringUTFChars \in Handlers
  BY <1>1, <1>2, CalmPieces DEF StringHandlers
<1>4. DOMAIN StringHandlers =
       {"NewString", "GetStringUTFChars", "ReleaseStringUTFChars"}
  BY DEF StringHandlers
<1> QED
  BY <1>3, <1>4 DEF CalmTable

LEMMA ObjectHandlersCalm == CalmTable(ObjectHandlers)
<1>1. {"print_jobject_or_string", "print_jobject_safe"} \subseteq Helpers \ Reflectors
  BY DEF Helpers, Reflectors
<1>2. /\ <<Class, Info>> \in Seq(CalmStmts)
     /\ <<Class>> \in Seq(CalmStmts)
  BY CalmPieces
<1>3. /\ ObjectHandlers.NewObjectV \in Handlers
     /\ ObjectHandlers.AllocObject \in Handlers
  BY <1>1, <1>2, CalmPieces DEF ObjectHandlers
<1>4. DOMAIN ObjectHandlers =
       {"NewObjectV", "AllocObject"}
  BY DEF ObjectHandlers
<1> QED
  BY <1>3, <1>4 DEF CalmTable

LEMMA CallHandlersCalm == CalmTable(CallHandlers)
<1>1. {"print_jobject_or_string"} \subseteq Helpers \ Reflectors
  BY DEF Helpers, Reflectors
<1>2. /\ <<Info, Object, Args>> \in Seq(CalmStmts)
     /\ <<Class, Info, Args>> \in Seq(CalmStmts)
     /\ <<Class, Info, Object, Args>> \in Seq(CalmStmts)
  BY CalmPieces
<1>3. /\ CallHandlers.CallObjectMethodV \in Handlers
     /\ CallHandlers.CallStaticObjectMethodV \in Handlers
     /\ CallHandlers.CallNonvirtualObjectMethodV \in Handlers
  BY <1>1, <1>2, CalmPieces DEF CallHandlers, CallMethodV, CallStaticMethodV, CallNonvirtualMethodV
<1>4. DOMAIN CallHandlers =
       {"CallObjectMethodV", "CallStaticObjectMethodV", "CallNonvirtualObjectMethodV"}
  BY DEF CallHandlers
<1> QED
  BY <1>3, <1>4 DEF CalmTable

LEMMA FieldHandlersCalm == CalmTable(FieldHandlers)
<1>1. {"print_jobject_or_string"} \subseteq Helpers \ Reflectors
  BY DEF Helpers, Reflectors
<1>2. /\ <<Info, Object>> \in Seq(CalmStmts)
     /\ <<Info, Object, Value>> \in Seq(CalmStmts)
     /\ << >> \in Seq(CalmStmts)
     /\ <<Class, Info>> \in Seq(CalmStmts)
     /\ <<Class, Info, Value>> \in Seq(CalmStmts)
  BY CalmPieces
<1>3. /\ FieldHandlers.GetObjectField \in Handlers
     /\ FieldHandlers.SetObjectField \in Handlers
     /\ FieldHandlers.GetStaticObjectField \in Handlers
     /\ FieldHandlers.SetStaticObjectField \in Handlers
  BY <1>1, <1>2, CalmPieces DEF FieldHandlers, GetField, SetField, GetStaticField, SetStaticField
<1>4. DOMAIN FieldHandlers =
       {"GetObjectField", "SetObjectField", "GetStaticObjectField", "SetStaticObjectField"}
  BY DEF FieldHandlers
<1> QED
  BY <1>3, <1>4 DEF CalmTable

LEMMA ArrayHandlersCalm == CalmTable(ArrayHandlers)
<1>1. {"print_jobject_safe", "print_jobject_or_string"} \subseteq Helpers \ Reflectors
  BY DEF Helpers, Reflectors
<1>2. /\ <<Object>> \in Seq(CalmStmts)
     /\ << >> \in Seq(CalmStmts)
     /\ <<Class, Value>> \in Seq(CalmStmts)
     /\ <<Object, Value>> \in Seq(CalmStmts)
  BY CalmPieces
<1>3. /\ ArrayHandlers.GetArrayLength \in Handlers
     /\ ArrayHandlers.NewObjectArray \in Handlers
     /\ ArrayHandlers.GetObjectArrayElement \in Handlers
     /\ ArrayHandlers.SetObjectArrayElement \in Handlers
  BY <1>1, <1>2, CalmPieces DEF ArrayHandlers
<1>4. DOMAIN ArrayHandlers =
       {"GetArrayLength", "NewObjectArray", "GetObjectArrayElement", "SetObjectArrayElement"}
  BY DEF ArrayHandlers
<1> QED
  BY <1>3, <1>4 DEF CalmTable

LEMMA PrimitiveArrayHandlersCalm == CalmTable(PrimitiveArrayHandlers)
<1>1. /\ << >> \in Seq(CalmStmts)
     /\ <<Object>> \in Seq(CalmStmts)
  BY CalmPieces
<1>2. /\ PrimitiveArrayHandlers.NewIntArray \in Handlers
     /\ PrimitiveArrayHandlers.GetIntArrayRegion \in Handlers
     /\ PrimitiveArrayHandlers.ReleaseIntArrayElements \in Handlers
  BY <1>1, CalmPieces DEF PrimitiveArrayHandlers
<1>3. DOMAIN PrimitiveArrayHandlers =
       {"NewIntArray", "GetIntArrayRegion", "ReleaseIntArrayElements"}
  BY DEF PrimitiveArrayHandlers
<1> QED
  BY <1>2, <1>3 DEF CalmTable

LEMMA CriticalHandlersCalm == CalmTable(CriticalHandlers)
<1>1. /\ <<Text>> \in Seq(CalmStmts)
     /\ << >> \in Seq(CalmStmts)
     /\ <<Object>> \in Seq(CalmStmts)
  BY CalmPieces
<1>2. /\ CriticalHandlers.GetStringCritical \in Handlers
     /\ CriticalHandlers.ReleasePrimitiveArrayCritical \in Handlers
  BY <1>1, CalmPieces DEF CriticalHandlers
<1>3. DOMAIN CriticalHandlers =
       {"GetStringCritical", "ReleasePrimitiveArrayCritical"}
  BY DEF CriticalHandlers
<1> QED
  BY <1>2, <1>3 DEF CalmTable

LEMMA ExceptionHandlersCalm == CalmTable(ExceptionHandlers)
<1>1. {"print_jobject_safe"} \subseteq Helpers \ Reflectors
  BY DEF Helpers, Reflectors
<1>2. /\ << >> \in Seq(CalmStmts)
     /\ <<Object>> \in Seq(CalmStmts)
     /\ <<Class>> \in Seq(CalmStmts)
  BY CalmPieces
<1>3. /\ ExceptionHandlers.ExceptionClear \in Handlers
     /\ ExceptionHandlers.ExceptionOccurred \in Handlers
     /\ ExceptionHandlers.Throw \in Handlers
     /\ ExceptionHandlers.ThrowNew \in Handlers
  BY <1>1, <1>2, CalmPieces DEF ExceptionHandlers
<1>4. DOMAIN ExceptionHandlers =
       {"ExceptionClear", "ExceptionOccurred", "Throw", "ThrowNew"}
  BY DEF ExceptionHandlers
<1> QED
  BY <1>3, <1>4 DEF CalmTable

LEMMA ReflectionHandlersCalm == CalmTable(ReflectionHandlers)
<1>1. /\ <<Class, Info>> \in Seq(CalmStmts)
     /\ << >> \in Seq(CalmStmts)
     /\ <<Object>> \in Seq(CalmStmts)
  BY CalmPieces
<1>2. /\ ReflectionHandlers.ToReflected \in Handlers
     /\ ReflectionHandlers.FromReflected \in Handlers
  BY <1>1, CalmPieces DEF ReflectionHandlers
<1>3. DOMAIN ReflectionHandlers =
       {"ToReflected", "FromReflected"}
  BY DEF ReflectionHandlers
<1> QED
  BY <1>2, <1>3 DEF CalmTable

LEMMA MonitorHandlersCalm == CalmTable(MonitorHandlers)
<1>1. /\ <<Object>> \in Seq(CalmStmts)
     /\ << >> \in Seq(CalmStmts)
  BY CalmPieces
<1>2. MonitorHandlers.MonitorExit \in Handlers
  BY <1>1, CalmPieces DEF MonitorHandlers
<1>3. DOMAIN MonitorHandlers =
       {"MonitorExit"}
  BY DEF MonitorHandlers
<1> QED
  BY <1>2, <1>3 DEF CalmTable

LEMMA FrameHandlersCalm == CalmTable(FrameHandlers)
<1>1. {"print_jobject_or_string"} \subseteq Helpers \ Reflectors
  BY DEF Helpers, Reflectors
<1>2. /\ << >> \in Seq(CalmStmts)
     /\ <<Value>> \in Seq(CalmStmts)
  BY CalmPieces
<1>3. /\ FrameHandlers.PushLocalFrame \in Handlers
     /\ FrameHandlers.PopLocalFrame \in Handlers
  BY <1>1, <1>2, CalmPieces DEF FrameHandlers
<1>4. DOMAIN FrameHandlers =
       {"PushLocalFrame", "PopLocalFrame"}
  BY DEF FrameHandlers
<1> QED
  BY <1>3, <1>4 DEF CalmTable

LEMMA BufferHandlersCalm == CalmTable(BufferHandlers)
<1>1. {"print_jobject_safe"} \subseteq Helpers \ Reflectors
  BY DEF Helpers, Reflectors
<1>2. /\ << >> \in Seq(CalmStmts)
     /\ <<Object>> \in Seq(CalmStmts)
  BY CalmPieces
<1>3. /\ BufferHandlers.NewDirectByteBuffer \in Handlers
     /\ BufferHandlers.GetDirectBufferAddress \in Handlers
  BY <1>1, <1>2, CalmPieces DEF BufferHandlers
<1>4. DOMAIN BufferHandlers =
       {"NewDirectByteBuffer", "GetDirectBufferAddress"}
  BY DEF BufferHandlers
<1> QED
  BY <1>3, <1>4 DEF CalmTable

LEMMA TableCalm == CalmTable(tableInit)
<1>1. \A t \in Tables : CalmTable(t)
  BY ClassHandlersCalm, RefHandlersCalm, IdHandlersCalm, StringHandlersCalm,
     ObjectHandlersCalm, CallHandlersCalm, FieldHandlersCalm, ArrayHandlersCalm,
     PrimitiveArrayHandlersCalm, CriticalHandlersCalm, ExceptionHandlersCalm,
     ReflectionHandlersCalm, MonitorHandlersCalm, FrameHandlersCalm, BufferHandlersCalm
     DEF Tables
<1>2. ASSUME NEW kind \in DOMAIN tableInit
      PROVE  tableInit[kind] \in Handlers
  <2> DEFINE t == CHOOSE t \in Tables : kind \in DOMAIN t
  <2>1. kind \in UNION {DOMAIN u : u \in Tables} /\ tableInit[kind] = t[kind]
    BY DEF tableInit
  <2>2. PICK u \in Tables : kind \in DOMAIN u
    BY <2>1
  <2>3. t \in Tables /\ kind \in DOMAIN t
    BY <2>2
  <2> QED
    BY <1>1, <2>1, <2>3 DEF CalmTable
<1> QED
  BY <1>2 DEF CalmTable


-----------------------------------------------------------------------------
(* The steps of the tracer.                                                *)

LEMMA Innermost ==
  ASSUME IInv
  PROVE  /\ scopes \in Seq(Scopes) /\ Len(scopes) \in Nat /\ Len(scopes) > 0
         /\ Scope = scopes[1] /\ Scope \in Scopes
         /\ Sees(Scope, exc, frames)
         /\ exc \in Excs /\ frames \in Frames
         /\ ~Done => /\ Scope.at \in 1..Len(Scope.prog) /\ Scope.at <= Len(Scope.prog)
                     /\ Statement \in Stmts /\ Statement = Scope.prog[Scope.at]
<1>1. scopes \in Seq(Scopes) /\ Len(scopes) \in Nat /\ Len(scopes) > 0
  BY EmptySeq, LenProperties DEF IInv, TypeInv
<1>2. Scope = scopes[1] /\ Scope \in Scopes
  BY <1>1 DEF Scope
<1>3. Sees(Scope, exc, frames)
  BY <1>2 DEF IInv, Chain
<1>4. ASSUME ~Done
      PROVE  Scope.at \in 1..Len(Scope.prog) /\ Statement \in Stmts
  <2>1. Len(Scope.prog) \in Nat /\ Scope.at \in Nat /\ Scope.prog \in Seq(Stmts)
    BY <1>2, ScopeTyped
  <2>2. Scope.at <= Len(Scope.prog)
    BY <1>4, <2>1 DEF Done
  <2>3. Scope.at >= 1
    BY <1>3, <2>1 DEF Sees, CalmIn, BalancedIn, FramedIn
  <2> QED
    BY <2>1, <2>2, <2>3 DEF Statement
<1> QED
  BY <1>1, <1>2, <1>3, <1>4 DEF IInv, TypeInv, Statement

\* The innermost activation goes on, in an environment that it knows.
LEMMA GoesOn ==
  ASSUME IInv, NEW r \in Scopes, r.before = Scope.before,
         scopes' = [scopes EXCEPT ![1] = r], UNCHANGED appVars,
         exc' \in Excs, frames' \in Frames, Sees(r, exc', frames')
  PROVE  IInv'
<1>1. /\ scopes \in Seq(Scopes) /\ Len(scopes) \in Nat /\ Len(scopes) > 0
      /\ Scope = scopes[1]
  BY Innermost
<1>2. /\ scopes' \in Seq(Scopes) /\ Len(scopes') = Len(scopes) /\ scopes'[1] = r
      /\ \A k \in 2..Len(scopes) : scopes'[k] = scopes[k]
  BY <1>1
<1>3. scopes' # << >>
  BY <1>1, <1>2
<1>4. TypeInv'
  BY <1>2, <1>3 DEF IInv, TypeInv, appVars
<1>5. ASSUME NEW k \in 2..Len(scopes)
      PROVE  Sees(scopes'[k], scopes'[k - 1].before[1], scopes'[k - 1].before[2])
  <2>1. scopes'[k - 1].before = scopes[k - 1].before
    <3>1. CASE k = 2
      BY <1>1, <1>2, <3>1
    <3>2. CASE k # 2
      BY <1>1, <1>2, <3>2
    <3> QED
      BY <3>1, <3>2
  <2> QED
    BY <1>2, <2>1 DEF IInv, Chain
<1>6. Chain'
  BY <1>2, <1>5 DEF Chain
<1>7. Last(scopes').before = Last(scopes).before
  BY <1>1, <1>2 DEF Last
<1> QED
  BY <1>4, <1>6, <1>7 DEF IInv, PopsOne, appVars

LEMMA Proceeds ==
  ASSUME IInv, NEW q \in Scopes, Proceed(q), UNCHANGED appVars,
         q.prog = Scope.prog, q.before = Scope.before, q.at = Scope.at,
         exc' \in Excs, frames' \in Frames,
         \A r \in Scopes :
           /\ r.prog = Scope.prog /\ r.before = Scope.before /\ r.saved = q.saved
           /\ r.at = Scope.at + 1 /\ r.have = q.have
           => Sees(r, exc', frames')
  PROVE  IInv'
<1> DEFINE r == [q EXCEPT !.at = @ + 1]
<1>1. scopes' = [scopes EXCEPT ![1] = r]
  BY DEF Proceed
<1>2. /\ r \in Scopes /\ r.prog = Scope.prog /\ r.before = Scope.before
      /\ r.saved = q.saved /\ r.at = Scope.at + 1 /\ r.have = q.have
  BY SMTT(30) DEF Scopes
<1> HIDE DEF r
<1>3. Sees(r, exc', frames')
  BY <1>2
<1> QED
  BY <1>1, <1>2, <1>3, GoesOn

LEMMA Advances ==
  ASSUME IInv, NEW have \in SUBSET Handles, Advance(have), UNCHANGED appVars,
         exc' \in Excs, frames' \in Frames,
         \A r : Same(Scope, r) /\ r.at = Scope.at + 1 /\ r.have = have => Sees(r, exc', frames')
  PROVE  IInv'
<1> DEFINE q == [Scope EXCEPT !.have = have]
<1>1. Scope \in Scopes
  BY Innermost
<1>2. /\ q \in Scopes /\ q.prog = Scope.prog /\ q.before = Scope.before
      /\ q.saved = Scope.saved /\ q.at = Scope.at /\ q.have = have
  BY <1>1 DEF Scopes
<1>3. Proceed(q)
  BY DEF Advance
<1> HIDE DEF q
<1> QED
  BY <1>1, <1>2, <1>3, Proceeds DEF Same

LEMMA NextScope ==
  ASSUME NEW s \in Scopes
  PROVE  LET r == [s EXCEPT !.at = @ + 1] IN Same(s, r) /\ r.at = s.at + 1 /\ r.have = s.have
  BY SMTT(30) DEF Same, Scopes

LEMMA SkipKeeps ==
  ASSUME IInv, ~Done, Skip, UNCHANGED appVars
  PROVE  IInv'
<1>1. Advance(Scope.have) /\ exc' = exc /\ frames' = frames
  BY DEF Skip, jniVars
<1>2. ~AppliesIn(Scope)
  BY DEF Skip, Applies, AppliesIn, Statement
<1>3. \A r : Same(Scope, r) /\ r.at = Scope.at + 1 /\ r.have = Scope.have
             => Sees(r, exc', frames')
  BY <1>1, <1>2, Innermost, SkipSees
<1> QED
  BY <1>1, <1>3, Innermost, Advances, ScopeTyped

LEMMA CallKeeps ==
  ASSUME IInv, ~Done, Applies(Statement), Call(Statement), UNCHANGED appVars
  PROVE  IInv'
<1> DEFINE s == Scope
           fn == Statement.fn
<1>1. /\ s \in Scopes /\ s.at <= Len(s.prog) /\ Sees(s, exc, frames) /\ AppliesIn(s)
      /\ Statement = s.prog[s.at] /\ Statement \in Stmts /\ s.have \in SUBSET Handles
      /\ exc \in Excs /\ frames \in Frames
  BY Innermost, ScopeTyped DEF Applies, AppliesIn
<1>2. /\ fn \in RefFns \cup {"GetMethodID", "GetStringUTFChars", "CallIntMethod",
                             "GetArrayLength"}
      /\ \/ /\ Advance(s.have \cup {Statement.gives})
            /\ frames' = Raised(frames, IF fn \in RefFns THEN 1 ELSE 0) /\ exc' = exc
         \/ Advance(s.have) /\ frames' = frames /\ exc' = "trace"
  BY DEF Call, Assign, Top, Raised
<1>3. /\ fn \notin {"guard", "unguard", "PushLocalFrame", "PopLocalFrame", "DeleteLocalRef", "next"}
      /\ fn \notin Helpers \cup {"set", "cacheAll"}
  BY <1>2, CalmFns DEF RefFns
<1>4. s.have \cup {Statement.gives} \in SUBSET Handles
  BY <1>1 DEF Stmts
<1> HIDE DEF s
<1>5. CASE Advance(s.have) /\ frames' = frames /\ exc' = "trace"
  <2>1. \A r : Same(s, r) /\ r.at = s.at + 1 /\ r.have = s.have => Sees(r, exc', frames')
    BY <1>1, <1>3, <1>5, QuietSees
  <2> QED
    BY <1>1, <1>5, <2>1, Advances DEF Excs, s
<1>6. CASE /\ Advance(s.have \cup {Statement.gives}) /\ fn \in RefFns
           /\ frames' = Raised(frames, 1) /\ exc' = exc
  <2>1. \A r : Same(s, r) /\ r.at = s.at + 1 /\ r.have = s.have \cup {Statement.gives}
               => Sees(r, exc', frames')
    BY <1>1, <1>6, MakesSees
  <2>2. frames' \in Frames
    BY <1>1, <1>6, RaisedFrames
  <2> QED
    BY <1>1, <1>4, <1>6, <2>1, <2>2, Advances DEF s
<1>7. CASE /\ Advance(s.have \cup {Statement.gives}) /\ fn \notin RefFns
           /\ frames' = Raised(frames, 0) /\ exc' = exc
  <2>1. frames' = frames
    BY <1>1, <1>7, RaisedNot
  <2>2. ASSUME NEW r, Same(s, r), r.at = s.at + 1, r.have = s.have \cup {Statement.gives}
        PROVE  Sees(r, exc', frames')
    <3>1. r.have \ s.have \subseteq {Statement.gives} /\ s.have \ r.have \subseteq LoopLocals
      BY <2>2
    <3> QED
      BY <1>1, <1>3, <1>7, <2>1, <2>2, <3>1, QuietSees
  <2> QED
    BY <1>1, <1>4, <1>7, <2>1, <2>2, Advances DEF s
<1> QED
  BY <1>2, <1>5, <1>6, <1>7

LEMMA TestKeeps ==
  ASSUME IInv, ~Done, Applies(Statement), Test(Statement), UNCHANGED appVars
  PROVE  IInv'
<1> DEFINE s == Scope
           fn == Statement.fn
<1>1. /\ s \in Scopes /\ s.at <= Len(s.prog) /\ Sees(s, exc, frames) /\ AppliesIn(s)
      /\ Statement = s.prog[s.at] /\ Statement \in Stmts /\ s.have \in SUBSET Handles
      /\ exc \in Excs /\ frames \in Frames
  BY Innermost, ScopeTyped DEF Applies, AppliesIn
<1>2. /\ fn \in {"IsInstanceOf", "IsMethod", "IsCtor", "IsObject", "IsArray"}
      /\ Advance(s.have \cup {Statement.gives}) \/ Advance(s.have)
      /\ exc' = exc /\ frames' = frames
  BY DEF Test, Says, Assign, jniVars
<1>3. /\ fn \notin {"guard", "unguard", "PushLocalFrame", "PopLocalFrame", "DeleteLocalRef", "next"}
      /\ fn \notin RefFns
  BY <1>2 DEF RefFns
<1>4. s.have \cup {Statement.gives} \in SUBSET Handles
  BY <1>1 DEF Stmts
<1> HIDE DEF s
<1>5. ASSUME NEW have \in {s.have \cup {Statement.gives}, s.have}, Advance(have)
      PROVE  IInv'
  <2>1. ASSUME NEW r, Same(s, r), r.at = s.at + 1, r.have = have
        PROVE  Sees(r, exc', frames')
    <3>1. /\ r.have \ s.have \subseteq {Statement.gives}
          /\ s.have \ r.have \subseteq LoopLocals
      BY <1>5, <2>1
    <3> QED
      BY <1>1, <1>2, <1>3, <2>1, <3>1, QuietSees
  <2> QED
    BY <1>1, <1>2, <1>4, <1>5, <2>1, Advances DEF s
<1> QED
  BY <1>2, <1>5

LEMMA ReleaseKeeps ==
  ASSUME IInv, ~Done, Applies(Statement), Release(Statement), UNCHANGED appVars
  PROVE  IInv'
<1> DEFINE s == Scope
           fn == Statement.fn
<1>1. /\ s \in Scopes /\ s.at <= Len(s.prog) /\ Sees(s, exc, frames) /\ AppliesIn(s)
      /\ Statement = s.prog[s.at] /\ Statement \in Stmts /\ s.have \in SUBSET Handles
      /\ exc \in Excs /\ frames \in Frames
  BY Innermost, ScopeTyped DEF Applies, AppliesIn
<1>2. /\ exc' = exc
      /\ \/ /\ fn = "DeleteLocalRef" /\ frames' = Raised(frames, 0 - 1)
            /\ Advance(s.have \ {Statement.gives})
         \/ fn = "ReleaseStringUTFChars" /\ frames' = frames /\ Advance(s.have)
  BY DEF Release, Top, Raised
<1> HIDE DEF s
<1>3. CASE fn = "DeleteLocalRef"
  <2>1. \A r : Same(s, r) /\ r.at = s.at + 1 /\ r.have = s.have \ {Statement.gives}
               => Sees(r, exc', frames')
    BY <1>1, <1>2, <1>3, DropSees
  <2>2. frames' \in Frames
    BY <1>1, <1>2, <1>3, RaisedFrames
  <2>3. s.have \ {Statement.gives} \in SUBSET Handles
    BY <1>1
  <2> QED
    BY <1>1, <1>2, <1>3, <2>1, <2>2, <2>3, Advances DEF s
<1>4. CASE fn = "ReleaseStringUTFChars"
  <2>1. \A r : Same(s, r) /\ r.at = s.at + 1 /\ r.have = s.have => Sees(r, exc', frames')
    BY <1>1, <1>2, <1>4, QuietSees
  <2> QED
    BY <1>1, <1>2, <1>4, <2>1, Advances DEF s
<1> QED
  BY <1>2, <1>3, <1>4

LEMMA LocalFrameKeeps ==
  ASSUME IInv, ~Done, Applies(Statement), LocalFrame(Statement), UNCHANGED appVars
  PROVE  IInv'
<1> DEFINE s == Scope
           fn == Statement.fn
<1>1. /\ s \in Scopes /\ s.at <= Len(s.prog) /\ Sees(s, exc, frames) /\ AppliesIn(s)
      /\ Statement = s.prog[s.at] /\ Statement \in Stmts /\ s.have \in SUBSET Handles
      /\ exc \in Excs /\ frames \in Frames
  BY Innermost, ScopeTyped DEF Applies, AppliesIn
<1>2. \/ /\ fn = "PushLocalFrame" /\ frames' = Append(frames, 0) /\ exc' = exc
         /\ Advance(s.have \cup {Statement.gives})
      \/ /\ fn = "PushLocalFrame" /\ frames' = frames /\ exc' = "trace"
         /\ Advance(s.have)
      \/ /\ fn = "PopLocalFrame" /\ frames' = Front(frames) /\ exc' = exc
         /\ Advance(s.have)
  BY DEF LocalFrame, Assign
<1>3. s.have \cup {Statement.gives} \in SUBSET Handles
  BY <1>1 DEF Stmts
<1> HIDE DEF s
<1>4. CASE /\ fn = "PushLocalFrame" /\ frames' = Append(frames, 0) /\ exc' = exc
           /\ Advance(s.have \cup {Statement.gives})
  <2>1. \A r : Same(s, r) /\ r.at = s.at + 1 /\ r.have = s.have \cup {Statement.gives}
               => Sees(r, exc', frames')
    BY <1>1, <1>4, PushSees
  <2>2. frames' \in Frames
    BY <1>1, <1>4, Pushed
  <2> QED
    BY <1>1, <1>3, <1>4, <2>1, <2>2, Advances DEF s
<1>5. CASE fn = "PushLocalFrame" /\ frames' = frames /\ exc' = "trace" /\ Advance(s.have)
  <2>1. \A r : Same(s, r) /\ r.at = s.at + 1 /\ r.have = s.have => Sees(r, exc', frames')
    BY <1>1, <1>5, PushSees
  <2> QED
    BY <1>1, <1>5, <2>1, Advances DEF s, Excs
<1>6. CASE fn = "PopLocalFrame" /\ frames' = Front(frames) /\ exc' = exc /\ Advance(s.have)
  <2>1. \A r : Same(s, r) /\ r.at = s.at + 1 => Sees(r, exc', frames') /\ Len(frames) > 1
    BY <1>1, <1>6, PopSees
  <2>2. \E r : Same(s, r) /\ r.at = s.at + 1
    BY <1>1, NextScope
  <2>3. frames' \in Frames
    BY <1>1, <1>6, <2>1, <2>2, Popped
  <2> QED
    BY <1>1, <1>6, <2>1, <2>3, Advances DEF s
<1> QED
  BY <1>2, <1>4, <1>5, <1>6

LEMMA GuardKeeps ==
  ASSUME IInv, ~Done, Applies(Statement), Guard(Statement), UNCHANGED appVars
  PROVE  IInv'
<1> DEFINE s == Scope
           q == [s EXCEPT !.saved = exc]
<1>1. /\ s \in Scopes /\ s.at <= Len(s.prog) /\ Sees(s, exc, frames)
      /\ Statement = s.prog[s.at] /\ exc \in Excs /\ frames \in Frames
  BY Innermost
<1>2. /\ Statement.fn = "guard" /\ Proceed(q) /\ exc' = "none"
      /\ frames' = Raised(frames, Kept(exc))
  BY DEF Guard, Top, Raised, Kept
<1> HIDE DEF s
<1>3. /\ q \in Scopes /\ q.prog = s.prog /\ q.before = s.before /\ q.at = s.at
      /\ q.saved = exc /\ q.have = s.have
  BY <1>1 DEF Scopes
<1> HIDE DEF q
<1>4. Kept(exc) \in Int
  BY DEF Kept
<1>5. exc' \in Excs /\ frames' \in Frames
  BY <1>1, <1>2, <1>4, RaisedFrames DEF Excs
<1>6. \A r \in Scopes :
        /\ r.prog = s.prog /\ r.before = s.before /\ r.saved = q.saved
        /\ r.at = s.at + 1 /\ r.have = q.have
        => Sees(r, exc', frames')
  BY <1>1, <1>2, <1>3, EntersSees
<1> QED
  BY <1>2, <1>3, <1>5, <1>6, Proceeds DEF s

LEMMA UnguardKeeps ==
  ASSUME IInv, ~Done, Applies(Statement), Unguard(Statement), UNCHANGED appVars
  PROVE  IInv'
<1> DEFINE s == Scope
<1>1. /\ s \in Scopes /\ s.at <= Len(s.prog) /\ Sees(s, exc, frames)
      /\ Statement = s.prog[s.at] /\ exc \in Excs /\ frames \in Frames
      /\ s.saved \in Excs /\ Kept(s.saved) \in Int /\ s.have \in SUBSET Handles
  BY Innermost, ScopeTyped
<1>2. 0 - Kept(s.saved) = IF s.saved # "none" THEN 0 - 1 ELSE 0
  BY DEF Kept
<1>3. /\ Statement.fn = "unguard" /\ Advance(s.have) /\ exc' = s.saved
      /\ frames' = Raised(frames, 0 - Kept(s.saved))
  BY <1>2 DEF Unguard, Top, Raised
<1> HIDE DEF s
<1>4. frames' \in Frames
  BY <1>1, <1>3, RaisedFrames
<1>5. \A r : Same(s, r) /\ r.at = s.at + 1 /\ r.have = s.have => Sees(r, exc', frames')
  BY <1>1, <1>3, LeavesSees
<1> QED
  BY <1>1, <1>3, <1>4, <1>5, Advances DEF s

LEMMA NextHasFor ==
  ASSUME NEW s \in Scopes, NEW e, NEW f, Sees(s, e, f), s.at <= Len(s.prog),
         s.prog[s.at].fn = "next"
  PROVE  \E k \in 1..Len(s.prog) : s.prog[k].fn = "for"
<1>1. Len(s.prog) \in Nat /\ s.at \in Nat
  BY ScopeTyped
<1>2. Bracketed(s.prog) /\ s.at \in 1..Len(s.prog)
  BY CalmIs, CalmFns, BalancedIs, FramedIs DEF Sees
<1>3. s.at \in 2..Len(s.prog) - 1
  BY <1>1, <1>2, Places
<1> QED
  BY <1>1, <1>2, <1>3 DEF Bracketed

LEMMA LoopKeeps ==
  ASSUME IInv, ~Done, Applies(Statement), Loop(Statement), UNCHANGED appVars
  PROVE  IInv'
<1> DEFINE s == Scope
           fn == Statement.fn
           q == [s EXCEPT !.i = @ + 1, !.have = (@ \ LoopLocals) \cup {Statement.gives}]
           b == [s EXCEPT !.at = LoopHead]
<1>1. /\ s \in Scopes /\ s.at <= Len(s.prog) /\ Sees(s, exc, frames) /\ AppliesIn(s)
      /\ Statement = s.prog[s.at] /\ Statement \in Stmts /\ s.have \in SUBSET Handles
      /\ exc \in Excs /\ frames \in Frames
  BY Innermost, ScopeTyped DEF Applies, AppliesIn
<1>2. /\ exc' = exc /\ frames' = frames
      /\ \/ fn = "for" /\ Proceed(q)
         \/ fn = "for" /\ Advance(s.have \ LoopLocals)
         \/ fn = "next" /\ scopes' = [scopes EXCEPT ![1] = b]
  BY DEF Loop, For, jniVars
<1>3. "for" \notin RefFns
  BY DEF RefFns
<1> HIDE DEF s
<1>4. CASE fn = "for" /\ Proceed(q)
  <2>1. Statement.gives \in Handles
    BY <1>1 DEF Stmts
  <2>2. /\ q \in Scopes /\ q.prog = s.prog /\ q.before = s.before /\ q.at = s.at
        /\ q.saved = s.saved /\ q.have = (s.have \ LoopLocals) \cup {Statement.gives}
    <3> DEFINE p == [s EXCEPT !.i = @ + 1]
               have == (s.have \ LoopLocals) \cup {Statement.gives}
    <3>1. /\ p \in Scopes /\ p.prog = s.prog /\ p.before = s.before /\ p.at = s.at
          /\ p.saved = s.saved /\ p.have = s.have
      BY <1>1, SMTT(30) DEF Scopes
    <3>2. have \in SUBSET Handles /\ q = [p EXCEPT !.have = have]
      BY <1>1, <2>1
    <3> HIDE DEF p, q, have
    <3>3. /\ q \in Scopes /\ q.prog = s.prog /\ q.before = s.before /\ q.at = s.at
          /\ q.saved = s.saved /\ q.have = have
      BY <3>1, <3>2 DEF Scopes
    <3> QED
      BY <3>3 DEF have
  <2> HIDE DEF q
  <2>3. ASSUME NEW r \in Scopes, r.prog = s.prog, r.before = s.before, r.saved = q.saved,
               r.at = s.at + 1, r.have = q.have
        PROVE  Sees(r, exc', frames')
    <3>1. Same(s, r)
      BY <1>1, <2>2, <2>3 DEF Same
    <3>2. /\ r.have \ s.have \subseteq {Statement.gives}
          /\ s.have \ r.have \subseteq LoopLocals
      BY <2>2, <2>3
    <3> QED
      BY <1>1, <1>2, <1>3, <1>4, <2>3, <3>1, <3>2, QuietSees
  <2> QED
    BY <1>1, <1>2, <1>4, <2>2, <2>3, Proceeds DEF s
<1>5. CASE fn = "for" /\ Advance(s.have \ LoopLocals)
  <2>1. ASSUME NEW r, Same(s, r), r.at = s.at + 1, r.have = s.have \ LoopLocals
        PROVE  Sees(r, exc', frames')
    <3>1. /\ r.have \ s.have \subseteq {Statement.gives}
          /\ s.have \ r.have \subseteq LoopLocals
      BY <2>1
    <3> QED
      BY <1>1, <1>2, <1>3, <1>5, <2>1, <3>1, QuietSees
  <2> QED
    BY <1>1, <1>2, <1>5, <2>1, Advances DEF s
<1>6. CASE fn = "next" /\ scopes' = [scopes EXCEPT ![1] = b]
  <2>1. \E k \in 1..Len(s.prog) : s.prog[k].fn = "for"
    BY <1>1, <1>6, NextHasFor
  <2>2. LoopHead = CHOOSE k \in 1..Len(s.prog) : s.prog[k].fn = "for"
    BY DEF LoopHead, s
  <2>3. LoopHead \in 1..Len(s.prog)
    BY <2>1, <2>2
  <2>4. LoopHead \in Nat
    BY <1>1, <2>3, ScopeTyped
  <2>5. /\ Same(s, b) /\ b.at = LoopHead /\ b.have = s.have
    BY <1>1, <2>4 DEF Same, Scopes
  <2> HIDE DEF b
  <2>6. Sees(b, exc', frames')
    BY <1>1, <1>2, <1>6, <2>2, <2>5, LoopsSees
  <2>7. b \in Scopes /\ b.before = s.before
    BY <2>5 DEF Same
  <2> QED
    BY <1>1, <1>2, <1>6, <2>6, <2>7, GoesOn DEF s
<1> QED
  BY <1>2, <1>4, <1>5, <1>6

LEMMA LocalKeeps ==
  ASSUME IInv, ~Done, Applies(Statement), Local(Statement), UNCHANGED appVars
  PROVE  IInv'
<1> DEFINE s == Scope
           fn == Statement.fn
           q == [s EXCEPT !.sig = @ + 1]
<1>1. /\ s \in Scopes /\ s.at <= Len(s.prog) /\ Sees(s, exc, frames) /\ AppliesIn(s)
      /\ Statement = s.prog[s.at] /\ Statement \in Stmts /\ s.have \in SUBSET Handles
      /\ exc \in Excs /\ frames \in Frames
  BY Innermost, ScopeTyped DEF Applies, AppliesIn
<1>2. /\ exc' = exc /\ frames' = frames
      /\ fn \in {"set", "piece", "cache", "cacheAll"}
      /\ \/ Advance(s.have \cup {Statement.gives})
         \/ Advance(s.have)
         \/ Proceed(q)
  BY DEF Local, Assign, jniVars
<1>3. /\ fn \notin {"guard", "unguard", "PushLocalFrame", "PopLocalFrame", "DeleteLocalRef", "next"}
      /\ fn \notin RefFns
  BY <1>2 DEF RefFns
<1>4. s.have \cup {Statement.gives} \in SUBSET Handles
  BY <1>1 DEF Stmts
<1> HIDE DEF s
<1>5. ASSUME NEW have \in {s.have \cup {Statement.gives}, s.have}, Advance(have)
      PROVE  IInv'
  <2>1. ASSUME NEW r, Same(s, r), r.at = s.at + 1, r.have = have
        PROVE  Sees(r, exc', frames')
    <3>1. /\ r.have \ s.have \subseteq {Statement.gives}
          /\ s.have \ r.have \subseteq LoopLocals
      BY <1>5, <2>1
    <3> QED
      BY <1>1, <1>2, <1>3, <2>1, <3>1, QuietSees
  <2> QED
    BY <1>1, <1>2, <1>4, <1>5, <2>1, Advances DEF s
<1>6. CASE Proceed(q)
  <2>1. /\ q \in Scopes /\ q.prog = s.prog /\ q.before = s.before /\ q.at = s.at
        /\ q.saved = s.saved /\ q.have = s.have
    BY <1>1, SMTT(30) DEF Scopes
  <2> HIDE DEF q
  <2>2. ASSUME NEW r \in Scopes, r.prog = s.prog, r.before = s.before, r.saved = q.saved,
               r.at = s.at + 1, r.have = q.have
        PROVE  Sees(r, exc', frames')
    <3>1. Same(s, r)
      BY <1>1, <2>1, <2>2 DEF Same
    <3> QED
      BY <1>1, <1>2, <1>3, <2>1, <2>2, <3>1, QuietSees
  <2> QED
    BY <1>1, <1>2, <1>6, <2>1, <2>2, Proceeds DEF s
<1> QED
  BY <1>2, <1>5, <1>6

\* The environment of the activation below the one that is called or returns.
LEMMA CallHelperKeeps ==
  ASSUME IInv, ~Done, Applies(Statement), CallHelper(Statement), UNCHANGED appVars
  PROVE  IInv'
<1> DEFINE s == Scope
           a == Activation(Statement.fn, Program(Statement.fn, call.m), {}, <<exc, frames>>)
           r == [s EXCEPT !.at = @ + 1]
<1>1. /\ scopes \in Seq(Scopes) /\ Len(scopes) \in Nat /\ Len(scopes) > 0 /\ s = scopes[1]
      /\ s \in Scopes /\ s.at <= Len(s.prog) /\ Sees(s, exc, frames) /\ AppliesIn(s)
      /\ Statement = s.prog[s.at] /\ exc \in Excs /\ frames \in Frames
  BY Innermost DEF Applies, AppliesIn
<1>2. /\ Statement.fn \in Helpers /\ exc' = exc /\ frames' = frames
      /\ scopes' = << a, r >> \o Tail(scopes)
  BY DEF CallHelper, jniVars
<1>3. a \in Scopes /\ a.before = <<exc, frames>>
  <2>1. Program(Statement.fn, call.m) \in Seq(Stmts)
    BY <1>2, ProgramKind
  <2> QED
    BY <1>1, <1>2, <2>1 DEF Activation, Scopes, Excs
<1>4. Sees(a, exc, frames)
  BY <1>2, ProgramKind, StartSees
<1> HIDE DEF s, a
<1>5. Same(s, r) /\ r.at = s.at + 1 /\ r.have = s.have
  BY <1>1, NextScope
<1> HIDE DEF r
<1>6. Sees(r, exc, frames)
  <2>1. s.prog[s.at].fn \in Helpers
    BY <1>1, <1>2
  <2>2. s.prog[s.at].fn \notin {"guard", "unguard", "PushLocalFrame", "PopLocalFrame",
                               "DeleteLocalRef", "next"}
    BY <2>1, CalmFns
  <2> QED
    BY <1>1, <1>5, <2>2, QuietSees
<1>7. r \in Scopes /\ r.before = s.before
  BY <1>5 DEF Same
<1>8. /\ scopes' \in Seq(Scopes) /\ Len(scopes') = Len(scopes) + 1
      /\ scopes'[1] = a /\ scopes'[2] = r
      /\ \A k \in 3..Len(scopes) + 1 : scopes'[k] = scopes[k - 1]
  BY <1>1, <1>2, <1>3, <1>7
<1>9. ASSUME NEW k \in 2..Len(scopes')
      PROVE  Sees(scopes'[k], scopes'[k - 1].before[1], scopes'[k - 1].before[2])
  <2>1. CASE k = 2
    BY <1>3, <1>6, <1>8, <2>1
  <2>2. CASE k = 3
    <3>1. scopes'[3] = scopes[2] /\ 2 \in 2..Len(scopes)
      BY <1>1, <1>8, <2>2
    <3> QED
      BY <1>1, <1>7, <1>8, <2>2, <3>1 DEF IInv, Chain
  <2>3. CASE k > 3
    <3>1. /\ scopes'[k] = scopes[k - 1] /\ scopes'[k - 1] = scopes[k - 2]
          /\ k - 1 \in 2..Len(scopes) /\ (k - 1) - 1 = k - 2
      BY <1>1, <1>8, <2>3
    <3> QED
      BY <3>1 DEF IInv, Chain
  <2> QED
    BY <1>8, <2>1, <2>2, <2>3
<1>10. Chain'
  BY <1>2, <1>4, <1>8, <1>9 DEF Chain
<1>11. scopes' # << >>
  BY <1>1, <1>8
<1>12. Last(scopes').before = Last(scopes).before
  <2>1. CASE Len(scopes) = 1
    BY <1>1, <1>7, <1>8, <2>1 DEF Last
  <2>2. CASE Len(scopes) > 1
    BY <1>1, <1>8, <2>2 DEF Last
  <2>3. Len(scopes) = 1 \/ Len(scopes) > 1
    <3> DEFINE n == Len(scopes)
    <3>1. n \in Nat /\ n > 0
      BY <1>1
    <3> HIDE DEF n
    <3>2. n = 1 \/ n > 1
      BY <3>1
    <3> QED
      BY <3>2 DEF n
  <2> QED
    BY <2>1, <2>2, <2>3
<1>13. TypeInv'
  BY <1>1, <1>2, <1>8, <1>11 DEF IInv, TypeInv, appVars
<1> QED
  BY <1>10, <1>12, <1>13 DEF IInv, PopsOne, appVars

LEMMA RetKeeps ==
  ASSUME IInv, Done, Len(scopes) > 1, Ret, UNCHANGED appVars
  PROVE  IInv'
<1> DEFINE s == Scope
           c == scopes[2]
           X == s.have \cap {"info"}
           r == [c EXCEPT !.have = @ \cup X]
<1>1. /\ scopes \in Seq(Scopes) /\ Len(scopes) \in Nat /\ s = scopes[1]
      /\ s \in Scopes /\ c \in Scopes /\ Sees(s, exc, frames)
      /\ exc \in Excs /\ frames \in Frames
  BY Innermost
<1>2. s.before = <<exc, frames>>
  BY <1>1, DoneSees DEF Done
<1>3. Sees(c, exc, frames)
  BY <1>1, <1>2 DEF IInv, Chain
<1>4. Same(c, r) /\ r.at = c.at /\ r.have = c.have \cup X
  <2>1. X \in SUBSET Handles
    BY DEF Handles
  <2> QED
    BY <1>1, <2>1 DEF Same, Scopes
<1>5. exc' = exc /\ frames' = frames /\ scopes' = [Tail(scopes) EXCEPT ![1] = r]
  <2>1. Tail(scopes)[1] = c
    BY <1>1
  <2>2. scopes' = [Tail(scopes) EXCEPT ![1] =
                     [Tail(scopes)[1] EXCEPT !.have = @ \cup (Scope.have \cap {"info"})]]
    BY SMTT(30) DEF Ret
  <2> QED
    BY <2>1, <2>2 DEF Ret, jniVars
<1> HIDE DEF s
<1>6. Sees(r, exc, frames)
  BY <1>3, <1>4, InfoSees
<1> HIDE DEF X, r
<1>7. r \in Scopes /\ r.before = c.before
  BY <1>4 DEF Same
<1>8. /\ scopes' \in Seq(Scopes) /\ Len(scopes') = Len(scopes) - 1 /\ scopes'[1] = r
      /\ \A k \in 2..Len(scopes) - 1 : scopes'[k] = scopes[k + 1]
  <2> DEFINE rest == Tail(scopes)
  <2>1. /\ rest \in Seq(Scopes) /\ Len(rest) = Len(scopes) - 1 /\ Len(rest) > 0
        /\ \A k \in 1..Len(scopes) - 1 : rest[k] = scopes[k + 1]
    BY <1>1
  <2> HIDE DEF rest
  <2>2. /\ [rest EXCEPT ![1] = r] \in Seq(Scopes) /\ Len([rest EXCEPT ![1] = r]) = Len(rest)
        /\ [rest EXCEPT ![1] = r][1] = r
        /\ \A k \in 2..Len(rest) : [rest EXCEPT ![1] = r][k] = rest[k]
    BY <1>7, <2>1
  <2> QED
    BY <1>1, <1>5, <2>1, <2>2 DEF rest
<1>9. ASSUME NEW k \in 2..Len(scopes')
      PROVE  Sees(scopes'[k], scopes'[k - 1].before[1], scopes'[k - 1].before[2])
  <2>1. /\ k + 1 \in 2..Len(scopes) /\ (k + 1) - 1 = k
        /\ scopes'[k] = scopes[k + 1] /\ scopes'[k - 1].before = scopes[k].before
    <3>1. CASE k = 2
      BY <1>1, <1>7, <1>8, <3>1
    <3>2. CASE k > 2
      BY <1>1, <1>8, <3>2
    <3> QED
      BY <1>1, <1>8, <3>1, <3>2
  <2> QED
    BY <2>1 DEF IInv, Chain
<1>10. Chain'
  BY <1>5, <1>6, <1>8, <1>9 DEF Chain
<1>11. scopes' # << >>
  BY <1>1, <1>8
<1>12. Last(scopes').before = Last(scopes).before
  <2>1. CASE Len(scopes) = 2
    BY <1>1, <1>7, <1>8, <2>1 DEF Last
  <2>2. CASE Len(scopes) > 2
    BY <1>1, <1>8, <2>2 DEF Last
  <2> QED
    BY <1>1, <2>1, <2>2, SMTT(30)
<1>13. TypeInv'
  BY <1>1, <1>5, <1>8, <1>11 DEF IInv, TypeInv, appVars
<1> QED
  BY <1>10, <1>12, <1>13 DEF IInv, PopsOne, appVars

LEMMA StepKeeps ==
  ASSUME IInv, Step
  PROVE  IInv'
<1>1. UNCHANGED appVars
  BY DEF Step
<1>2. CASE Done
  BY <1>1, <1>2, RetKeeps DEF Step
<1>3. CASE ~Done /\ Skip
  BY <1>1, <1>3, SkipKeeps
<1>4. CASE ~Done /\ Applies(Statement)
  <2>1. CASE Call(Statement)
    BY <1>1, <1>4, <2>1, CallKeeps
  <2>2. CASE Test(Statement)
    BY <1>1, <1>4, <2>2, TestKeeps
  <2>3. CASE Release(Statement)
    BY <1>1, <1>4, <2>3, ReleaseKeeps
  <2>4. CASE LocalFrame(Statement)
    BY <1>1, <1>4, <2>4, LocalFrameKeeps
  <2>5. CASE Guard(Statement)
    BY <1>1, <1>4, <2>5, GuardKeeps
  <2>6. CASE Unguard(Statement)
    BY <1>1, <1>4, <2>6, UnguardKeeps
  <2>7. CASE CallHelper(Statement)
    BY <1>1, <1>4, <2>7, CallHelperKeeps
  <2>8. CASE Loop(Statement)
    BY <1>1, <1>4, <2>8, LoopKeeps
  <2>9. CASE Local(Statement)
    BY <1>1, <1>4, <2>9, LocalKeeps
  <2>10. \/ Skip \/ Call(Statement) \/ Test(Statement) \/ Release(Statement)
         \/ LocalFrame(Statement) \/ Guard(Statement) \/ Unguard(Statement)
         \/ CallHelper(Statement) \/ Loop(Statement) \/ Local(Statement)
    BY <1>4 DEF Step
  <2> QED
    BY <1>3, <1>4, <2>1, <2>2, <2>3, <2>4, <2>5, <2>6, <2>7, <2>8, <2>9, <2>10
<1>5. ~Done => Skip \/ Applies(Statement)
  BY DEF Step
<1> QED
  BY <1>2, <1>3, <1>4, <1>5

-----------------------------------------------------------------------------
(* The steps of the app.                                                   *)

\* A handler is entered, in the environment it finds.
LEMMA HandlerStarts ==
  ASSUME NEW prog \in Seq(CalmStmts), NEW have \in SUBSET Handles,
         exc' \in Excs, frames' \in Frames,
         scopes' = << Activation("handler", prog, have, <<exc', frames'>>) >>
  PROVE  /\ scopes' \in Seq(Scopes) \ {<< >>} /\ Chain'
         /\ Last(scopes').before[2] = frames'
<1> DEFINE a == Activation("handler", prog, have, <<exc', frames'>>)
<1>1. Calm(prog) /\ prog \in Seq(Stmts)
  BY CalmSeq DEF CalmStmts
<1>2. a \in Scopes /\ a.before = <<exc', frames'>>
  BY <1>1 DEF Activation, Scopes, Excs
<1>3. Sees(a, exc', frames')
  BY <1>1, StartSees
<1> HIDE DEF a
<1>4. scopes' = <<a>>
  BY DEF a
<1>5. /\ scopes' \in Seq(Scopes) /\ Len(scopes') = 1 /\ scopes'[1] = a /\ scopes' # << >>
  BY <1>2, <1>4
<1>6. Chain'
  BY <1>3, <1>5 DEF Chain
<1> QED
  BY <1>2, <1>5, <1>6 DEF Last

LEMMA OnCallKeeps ==
  ASSUME IInv, NEW kind \in DOMAIN tableInit, jni_on_call(kind)
  PROVE  IInv'
<1> DEFINE prog == tableInit[kind].entry
<1>1. exc' = exc /\ frames' = frames /\ exc \in Excs /\ frames \in Frames
  BY Innermost DEF jni_on_call, jniVars
<1>2. prog \in Seq(CalmStmts)
  BY TableCalm DEF CalmTable, Handlers
<1>3. scopes' = << Activation("handler", prog, {}, <<exc', frames'>>) >>
  BY <1>1 DEF jni_on_call
<1> HIDE DEF prog
<1>4. /\ scopes' \in Seq(Scopes) \ {<< >>} /\ Chain'
      /\ Last(scopes').before[2] = frames'
  BY <1>1, <1>2, <1>3, HandlerStarts
<1>5. call'.kind = kind /\ DOMAIN call' = {"kind", "m"}
  BY DEF jni_on_call, IInv, TypeInv
<1>6. TypeInv'
  BY <1>1, <1>4, <1>5 DEF TypeInv
<1>7. PopsOne'
  BY <1>1, <1>4, <1>5 DEF PopsOne, jni_on_call
<1> QED
  BY <1>4, <1>6, <1>7 DEF IInv

LEMMA HostKeeps ==
  ASSUME IInv, HostCall
  PROVE  IInv'
<1>1. /\ scopes \in Seq(Scopes) /\ Len(scopes) \in Nat /\ Scope = scopes[1]
      /\ Scope \in Scopes /\ Sees(Scope, exc, frames) /\ exc \in Excs /\ frames \in Frames
      /\ phase = "entry" /\ Done /\ Len(scopes) = 1
  BY Innermost DEF HostCall, HandlerDone
<1>2. call.kind = "PopLocalFrame" => Len(frames) > 1
  <2>1. Scope.before = <<exc, frames>>
    BY <1>1, DoneSees DEF Done
  <2>2. Last(scopes) = Scope
    BY <1>1 DEF Last
  <2> QED
    BY <1>1, <2>1, <2>2 DEF IInv, PopsOne
<1>3. ASSUME NEW have \in {{}, {"ret"}}, jni_on_return(have),
             exc' \in {exc, "none", "app"}, frames' \in Frames
      PROVE  IInv'
  <2> DEFINE prog == tableInit[call.kind].ret
  <2>1. prog \in Seq(CalmStmts)
    BY TableCalm DEF CalmTable, Handlers, IInv, TypeInv
  <2>2. /\ scopes' = << Activation("handler", prog, have, <<exc', frames'>>) >>
        /\ phase' = "return" /\ call' = call
    BY <1>3 DEF jni_on_return
  <2> HIDE DEF prog
  <2>3. have \in SUBSET Handles /\ exc' \in Excs
    BY <1>1, <1>3 DEF Handles, Excs
  <2>4. /\ scopes' \in Seq(Scopes) \ {<< >>} /\ Chain'
    BY <1>3, <2>1, <2>2, <2>3, HandlerStarts
  <2>5. TypeInv'
    BY <1>3, <2>2, <2>3, <2>4 DEF IInv, TypeInv
  <2>6. PopsOne'
    BY <2>2 DEF PopsOne
  <2> QED
    BY <2>4, <2>5, <2>6 DEF IInv
<1>4. /\ Top(1) \in Frames /\ Top(0 - 1) \in Frames /\ Append(frames, 0) \in Frames
      /\ call.kind = "PopLocalFrame" =>
           /\ Front(frames) \in Frames
           /\ [Front(frames) EXCEPT ![Len(frames) - 1] = @ + 1] \in Frames
  <2>1. Raised(frames, 1) \in Frames /\ Raised(frames, 0 - 1) \in Frames
    BY <1>1, RaisedFrames
  <2>2. Top(1) = Raised(frames, 1) /\ Top(0 - 1) = Raised(frames, 0 - 1)
    BY DEF Top, Raised
  <2>3. ASSUME call.kind = "PopLocalFrame"
        PROVE  /\ Front(frames) \in Frames
               /\ [Front(frames) EXCEPT ![Len(frames) - 1] = @ + 1] \in Frames
    <3> DEFINE f == Front(frames)
    <3>1. f \in Frames
      BY <1>1, <1>2, <2>3, Popped
    <3>2. Len(f) = Len(frames) - 1
      BY <1>1, <1>2, <2>3, LenProperties, SubSeqProperties DEF Front, Frames
    <3> HIDE DEF f
    <3>3. Raised(f, 1) \in Frames
      BY <3>1, RaisedFrames
    <3> QED
      BY <3>1, <3>2, <3>3 DEF Raised, f
  <2> QED
    BY <1>1, <2>1, <2>2, <2>3, Pushed
<1>5. CASE Returns
  BY <1>1, <1>3, <1>4, <1>5 DEF Returns
<1>6. CASE Throws
  BY <1>1, <1>3, <1>6 DEF Throws
<1>7. CASE ManagesRefs
  BY <1>1, <1>3, <1>4, <1>7 DEF ManagesRefs
<1>8. CASE Clears
  BY <1>1, <1>3, <1>8 DEF Clears
<1> QED
  BY <1>5, <1>6, <1>7, <1>8 DEF HostCall

-----------------------------------------------------------------------------
(* The theorems.                                                           *)

LEMMA Initially ==
  ASSUME Init
  PROVE  IInv
<1> DEFINE a == Activation("handler", << >>, {}, <<exc, frames>>)
<1>1. exc \in Excs /\ frames \in Frames
  BY DEF Init, Excs, Frames
<1>2. << >> \in Seq(CalmStmts) /\ << >> \in Seq(Stmts)
  OBVIOUS
<1>3. a \in Scopes /\ a.before = <<exc, frames>>
  BY <1>1, <1>2 DEF Activation, Scopes, Excs
<1>4. Sees(a, exc, frames)
  BY <1>2, CalmSeq, StartSees
<1> HIDE DEF a
<1>5. scopes = <<a>>
  BY DEF Init, a
<1>6. scopes \in Seq(Scopes) /\ scopes # << >> /\ Len(scopes) = 1 /\ scopes[1] = a
  BY <1>3, <1>5
<1>7. Chain
  BY <1>4, <1>6 DEF Chain
<1>8. "ExceptionClear" \in DOMAIN tableInit
  <2>1. "ExceptionClear" \in DOMAIN ExceptionHandlers
    BY DEF ExceptionHandlers
  <2>2. ExceptionHandlers \in Tables
    BY DEF Tables
  <2>3. DOMAIN tableInit = UNION {DOMAIN t : t \in Tables}
    BY DEF tableInit
  <2> QED
    BY <2>1, <2>2, <2>3
<1>9. call.kind = "ExceptionClear" /\ DOMAIN call = {"kind", "m"}
  BY DEF Init
<1> QED
  BY <1>1, <1>6, <1>7, <1>8, <1>9 DEF IInv, TypeInv, PopsOne

\* IInv is inductive, whatever the members of the app and whichever of the
\* tracer's own calls fail: every activation of a helper still owes exactly what
\* it took, and sees the environment of the helper it runs.
THEOREM Invariance == Spec => []IInv
<1>1. Init => IInv
  BY Initially
<1>2. IInv /\ [Next]_vars => IInv'
  <2> SUFFICES ASSUME IInv, [Next]_vars
               PROVE  IInv'
    OBVIOUS
  <2>1. CASE Step
    BY <2>1, StepKeeps
  <2>2. CASE \E kind \in DOMAIN tableInit : jni_on_call(kind)
    BY <2>2, OnCallKeeps
  <2>3. CASE HostCall
    BY <2>3, HostKeeps
  <2>4. CASE UNCHANGED vars
    BY <2>4 DEF IInv, TypeInv, Chain, PopsOne, vars, jniVars, appVars
  <2> QED
    BY <2>1, <2>2, <2>3, <2>4 DEF Next
<1> QED
  BY <1>1, <1>2, PTL DEF Spec

\* Whenever a helper or a handler of JniTrace.cpp is done, the pending exception
\* and the local references of every frame are those it found at its start.
THEOREM HandlersTransparentAlways == Spec => []HandlersTransparent
<1>1. IInv => HandlersTransparent
  BY Innermost, DoneSees DEF HandlersTransparent, Done
<1> QED
  BY <1>1, Invariance, PTL

-----------------------------------------------------------------------------
(* No call with an exception pending, in the chained helpers.               *)

Unsafe(fn) == IsCall(fn) /\ fn \notin SafeFns
Harmless == {"void", "text", "info"}

\* Each unsafe call needs the result of an earlier one, all the earlier ones
\* after any given one included.
Chained(p) ==
  /\ Balanced(p)
  /\ \A k \in 2..Len(p) - 1 :
       /\ p[k].fn # "next"
       /\ ~Unsafe(p[k].fn) => p[k].gives \in Harmless \/ p[k].fn = "DeleteLocalRef"
       /\ Unsafe(p[k].fn) =>
            /\ p[k].gives \notin Harmless
            /\ \A j \in k + 1..Len(p) - 1 : Unsafe(p[j].fn) =>
                 /\ p[j].gives # p[k].gives
                 /\ \E n \in k..j - 1 : Unsafe(p[n].fn) /\ p[n].gives \in p[j].needs

\* The results of the calls to come are not known yet ...
Fresh(s) ==
  \A k \in s.at..Len(s.prog) - 1 : Unsafe(s.prog[k].fn) => s.prog[k].gives \notin s.have

\* ... and once a call has failed, they will not be.
Dead(s) ==
  \A k \in s.at..Len(s.prog) - 1 :
    Unsafe(s.prog[k].fn) => ~(s.prog[k].needs \subseteq s.have \cup Harmless)

Ready(s) ==
  s.helper \in ChainedHelpers => Calm(s.prog) \/ (Chained(s.prog) /\ Fresh(s))

\* If an exception e is pending, s makes no unsafe call before its guard ends.
Spared(s, e) ==
  \/ s.helper \notin ChainedHelpers
  \/ Calm(s.prog)
  \/ s.at = 1 \/ s.at >= Len(s.prog)
  \/ e = "none"
  \/ Chained(s.prog) /\ Dead(s)

Safe ==
  /\ \A k \in 1..Len(scopes) : Ready(scopes[k])
  /\ Spared(scopes[1], exc)
  /\ \A k \in 2..Len(scopes) : Spared(scopes[k], scopes[k - 1].before[1])

\* Of the same helper.
Kin(s, r) == r.helper = s.helper /\ r.prog = s.prog

\* s gets to r by its next statement.
Passes(s, r) ==
  /\ Kin(s, r) /\ r.at = s.at + 1
  /\ \/ r.have = s.have
     \/ /\ AppliesIn(s) /\ s.prog[s.at].fn \notin {"guard", "unguard"}
        /\ \/ r.have \subseteq s.have
           \/ /\ r.have \subseteq s.have \cup {s.prog[s.at].gives}
              /\ s.prog[s.at].fn # "DeleteLocalRef"

\* Where the statements of an activation are.
LEMMA Located ==
  ASSUME NEW s \in Scopes, NEW e, NEW f, Sees(s, e, f), s.at <= Len(s.prog)
  PROVE  /\ Len(s.prog) \in Nat /\ s.at \in Nat /\ s.at \in 1..Len(s.prog)
         /\ Calm(s.prog) => s.prog[s.at].fn \in Helpers \cup {"set", "cacheAll"}
         /\ ~Calm(s.prog) =>
              /\ Bracketed(s.prog)
              /\ s.prog[s.at].fn = "guard" <=> s.at = 1
              /\ s.prog[s.at].fn = "unguard" <=> s.at = Len(s.prog)
<1>1. Len(s.prog) \in Nat /\ s.at \in Nat
  BY ScopeTyped
<1>2. s.at \in 1..Len(s.prog)
  BY <1>1, BalancedIs, FramedIs DEF Sees, CalmIn
<1>3. Calm(s.prog) => s.prog[s.at].fn \in Helpers \cup {"set", "cacheAll"}
  BY <1>2 DEF Calm
<1>4. ~Calm(s.prog) => Bracketed(s.prog)
  BY BalancedIs, FramedIs DEF Sees, CalmIn
<1>5. Bracketed(s.prog) => /\ s.prog[s.at].fn = "guard" <=> s.at = 1
                           /\ s.prog[s.at].fn = "unguard" <=> s.at = Len(s.prog)
  BY <1>2, Places
<1> QED
  BY <1>1, <1>2, <1>3, <1>4, <1>5

LEMMA PassesReady ==
  ASSUME NEW s \in Scopes, NEW r, NEW e, NEW f, Sees(s, e, f), s.at <= Len(s.prog),
         Ready(s), Passes(s, r)
  PROVE  Ready(r)
<1> DEFINE p == s.prog
<1>1. /\ Len(p) \in Nat /\ s.at \in Nat /\ s.at \in 1..Len(p)
      /\ r.helper = s.helper /\ r.prog = p /\ r.at = s.at + 1
  BY Located DEF Passes, Kin
<1>2. ASSUME s.helper \in ChainedHelpers, ~Calm(p)
      PROVE  Chained(p) /\ Fresh(r)
  <2>1. Chained(p) /\ Fresh(s)
    BY <1>2 DEF Ready
  <2>2. ASSUME NEW k \in r.at..Len(p) - 1, Unsafe(p[k].fn)
        PROVE  p[k].gives \notin r.have
    <3>1. k \in s.at..Len(p) - 1 /\ k \in 2..Len(p) - 1 /\ k \in s.at + 1..Len(p) - 1
      BY <1>1
    <3>2. p[k].gives \notin s.have /\ p[k].gives \notin Harmless
      BY <2>1, <2>2, <3>1 DEF Fresh, Chained
    <3>3. CASE r.have \subseteq s.have
      BY <3>2, <3>3
    <3>4. CASE /\ p[s.at].fn \notin {"guard", "unguard", "DeleteLocalRef"}
               /\ r.have \subseteq s.have \cup {p[s.at].gives}
      <4>1. s.at \in 2..Len(p) - 1
        BY <1>1, <1>2, <3>4, Located
      <4>2. p[k].gives # p[s.at].gives
        BY <2>1, <2>2, <3>1, <3>2, <3>4, <4>1 DEF Chained
      <4> QED
        BY <3>2, <3>4, <4>2
    <3> QED
      BY <3>3, <3>4 DEF Passes
  <2> QED
    BY <1>1, <2>1, <2>2 DEF Fresh
<1> QED
  BY <1>1, <1>2 DEF Ready

LEMMA PassesSpared ==
  ASSUME NEW s \in Scopes, NEW r, NEW e, NEW f, Sees(s, e, f), s.at <= Len(s.prog),
         Spared(s, e), Passes(s, r), s.prog[s.at].fn # "guard"
  PROVE  Spared(r, e)
<1> DEFINE p == s.prog
<1>1. /\ Len(p) \in Nat /\ s.at \in Nat /\ s.at \in 1..Len(p)
      /\ r.helper = s.helper /\ r.prog = p /\ r.at = s.at + 1
  BY Located DEF Passes, Kin
<1>2. CASE s.helper \notin ChainedHelpers \/ Calm(p) \/ e = "none"
  BY <1>1, <1>2 DEF Spared
<1>3. CASE ~Calm(p) /\ s.at = Len(p)
  <2>1. r.at >= Len(p)
    BY <1>1, <1>3
  <2> QED
    BY <1>1, <2>1 DEF Spared
<1>4. CASE ~Calm(p) /\ s.at # Len(p)
  <2>1. s.at \in 2..Len(p) - 1
    BY <1>1, <1>4, Located
  <2>2. CASE Chained(p) /\ Dead(s)
    <3>1. r.have \subseteq s.have \cup Harmless
      <4>1. CASE r.have \subseteq s.have
        BY <4>1
      <4>2. CASE /\ AppliesIn(s) /\ p[s.at].fn # "DeleteLocalRef"
                 /\ r.have \subseteq s.have \cup {p[s.at].gives}
        <5>1. s.at \in s.at..Len(p) - 1
          BY <1>1, <2>1
        <5>2. ~Unsafe(p[s.at].fn)
          BY <2>2, <4>2, <5>1 DEF Dead, AppliesIn
        <5>3. p[s.at].gives \in Harmless
          BY <2>1, <2>2, <4>2, <5>2 DEF Chained
        <5> QED
          BY <4>2, <5>3
      <4> QED
        BY <4>1, <4>2 DEF Passes
    <3>2. \A k \in r.at..Len(p) - 1 : k \in s.at..Len(p) - 1
      BY <1>1
    <3>3. Dead(r)
      BY <1>1, <2>2, <3>1, <3>2 DEF Dead
    <3> QED
      BY <1>1, <2>2, <3>3 DEF Spared
  <2>3. s.helper \notin ChainedHelpers \/ e = "none" \/ (Chained(p) /\ Dead(s))
    <3>1. s.at # 1 /\ ~(s.at >= Len(p))
      BY <1>1, <2>1
    <3> QED
      BY <1>4, <3>1 DEF Spared
  <2> QED
    BY <1>2, <2>2, <2>3
<1> QED
  BY <1>2, <1>3, <1>4

\* Which functions are unsafe.
LEMMA UnsafeFns ==
  /\ \A fn \in RefFns \cup {"GetMethodID", "GetStringUTFChars", "CallIntMethod",
                           "GetArrayLength", "IsInstanceOf", "IsMethod", "IsCtor"} : Unsafe(fn)
  /\ \A fn \in SafeFns \cup Helpers \cup {"set", "cacheAll"} : ~Unsafe(fn)
<1>1. \A fn \in RefFns \cup {"GetMethodID", "GetStringUTFChars", "CallIntMethod",
                            "GetArrayLength", "IsInstanceOf", "IsMethod", "IsCtor"} :
        IsCall(fn) /\ fn \notin SafeFns
  BY SMTT(30) DEF IsCall, SafeFns, RefFns
<1>2. \A fn \in Helpers \cup {"set", "cacheAll"} : ~IsCall(fn)
  BY CalmFns DEF IsCall
<1> QED
  BY <1>1, <1>2 DEF Unsafe

\* A call fails.
LEMMA FailsSpared ==
  ASSUME NEW s \in Scopes, NEW r, NEW e, NEW f, Sees(s, e, f), s.at <= Len(s.prog),
         Ready(s), Kin(s, r), r.at = s.at + 1, r.have = s.have,
         Unsafe(s.prog[s.at].fn) \/ s.prog[s.at].fn = "PushLocalFrame"
  PROVE  Spared(r, "trace")
<1> DEFINE p == s.prog
           fn == p[s.at].fn
<1>1. /\ Len(p) \in Nat /\ s.at \in Nat /\ s.at \in 1..Len(p)
      /\ r.helper = s.helper /\ r.prog = p /\ r.at = s.at + 1
  BY Located DEF Kin
<1>2. CASE s.helper \notin ChainedHelpers
  BY <1>1, <1>2 DEF Spared
<1>3. CASE s.helper \in ChainedHelpers
  <2>1. fn \notin Helpers \cup {"set", "cacheAll"}
    BY CalmFns, UnsafeFns
  <2>2. ~Calm(p)
    BY <2>1, Located
  <2>3. Chained(p) /\ Fresh(s)
    BY <1>3, <2>2 DEF Ready
  <2>4. fn \notin {"guard", "unguard"}
    BY DEF Unsafe, IsCall, SafeFns, RefFns
  <2>5. s.at \in 2..Len(p) - 1
    BY <1>1, <2>2, <2>4, Located
  <2>6. Unsafe(fn)
    BY <2>3, <2>5 DEF Chained, Balanced
  <2>7. ASSUME NEW k \in r.at..Len(p) - 1, Unsafe(p[k].fn)
        PROVE  ~(p[k].needs \subseteq r.have \cup Harmless)
    <3>1. k \in s.at + 1..Len(p) - 1
      BY <1>1
    <3>2. PICK n \in s.at..k - 1 : Unsafe(p[n].fn) /\ p[n].gives \in p[k].needs
      BY <2>3, <2>5, <2>6, <2>7, <3>1 DEF Chained
    <3>3. n \in s.at..Len(p) - 1 /\ n \in 2..Len(p) - 1
      BY <1>1, <2>5, <3>1
    <3>4. p[n].gives \notin s.have /\ p[n].gives \notin Harmless
      BY <2>3, <3>2, <3>3 DEF Fresh, Chained
    <3> QED
      BY <3>2, <3>4
  <2> QED
    BY <1>1, <2>3, <2>7 DEF Spared, Dead
<1> QED
  BY <1>2, <1>3

\* The way back to the head of a loop.
LEMMA LoopsSafe ==
  ASSUME NEW s \in Scopes, NEW r, NEW e, NEW f, Sees(s, e, f), s.at <= Len(s.prog),
         Ready(s), Kin(s, r), s.prog[s.at].fn = "next"
  PROVE  Ready(r) /\ Spared(r, e)
<1> DEFINE p == s.prog
<1>1. r.helper = s.helper /\ ~Calm(p)
  BY Located, CalmFns DEF Kin
<1>2. s.at \in 2..Len(p) - 1
  BY <1>1, Located
<1>3. ~Chained(p)
  BY <1>2 DEF Chained
<1> QED
  BY <1>1, <1>3 DEF Ready, Spared

LEMMA ClassNameChained == Chained(getJClassName)
<1> DEFINE p == getJClassName
<1>1. /\ Len(p) = 9
      /\ p[2] = Do("FindClass", {}, "classClass") /\ p[3] = Do("GetMethodID", {"classClass"}, "mid")
      /\ p[4] = Do("CallObjectMethod", {"mid"}, "nameStr")
      /\ p[5] = Do("GetStringUTFChars", {"nameStr"}, "utf")
      /\ p[6] = Do("ReleaseStringUTFChars", {"utf"}, "void")
      /\ p[7] = Drop("nameStr") /\ p[8] = Drop("classClass")
  BY DEF getJClassName
<1> HIDE DEF p
<1>2. Balanced(p)
  BY ClassNameBalanced DEF p
<1>3. /\ \A k \in 2..5 : Unsafe(p[k].fn) /\ p[k].gives \notin Harmless /\ p[k].fn # "next"
      /\ p[6].fn # "next" /\ p[6].gives \in Harmless /\ ~Unsafe(p[6].fn)
      /\ p[7].fn = "DeleteLocalRef" /\ p[8].fn = "DeleteLocalRef"
      /\ ~Unsafe(p[7].fn) /\ ~Unsafe(p[8].fn)
  <2>1. /\ Unsafe("FindClass") /\ Unsafe("GetMethodID") /\ Unsafe("CallObjectMethod")
        /\ Unsafe("GetStringUTFChars") /\ ~Unsafe("ReleaseStringUTFChars")
        /\ ~Unsafe("DeleteLocalRef")
    BY UnsafeFns DEF RefFns, SafeFns
  <2> QED
    BY <1>1, <2>1 DEF Do, Drop, Stmt, Harmless
<1>4. /\ \A k \in 3..5 : p[k - 1].gives \in p[k].needs
      /\ \A k \in 2..5 : \A j \in k + 1..5 : p[j].gives # p[k].gives
  BY <1>1 DEF Do, Stmt
<1>5. ASSUME NEW k \in 2..5, NEW j \in k + 1..8, Unsafe(p[j].fn)
      PROVE  /\ p[j].gives # p[k].gives
             /\ \E n \in k..j - 1 : Unsafe(p[n].fn) /\ p[n].gives \in p[j].needs
  <2>1. j \in k + 1..5 /\ j \in 3..5
    BY <1>3, <1>5
  <2>2. j - 1 \in k..j - 1 /\ j - 1 \in 2..5
    BY <2>1
  <2> QED
    BY <1>3, <1>4, <2>1, <2>2
<1>6. Chained(p)
  BY <1>1, <1>2, <1>3, <1>5 DEF Chained
<1> QED
  BY <1>6 DEF p

LEMMA StringChained == Chained(print_jstring)
<1> DEFINE p == print_jstring
<1>1. /\ Len(p) = 4
      /\ p[2] = Do("GetStringUTFChars", {}, "utf")
      /\ p[3] = Do("ReleaseStringUTFChars", {"utf"}, "void")
  BY DEF print_jstring
<1> HIDE DEF p
<1>2. Balanced(p)
  BY StringBalanced DEF p
<1>3. /\ Unsafe(p[2].fn) /\ p[2].gives \notin Harmless /\ p[2].fn # "next"
      /\ ~Unsafe(p[3].fn) /\ p[3].gives \in Harmless /\ p[3].fn # "next"
  <2>1. Unsafe("GetStringUTFChars") /\ ~Unsafe("ReleaseStringUTFChars")
    BY UnsafeFns DEF SafeFns
  <2> QED
    BY <1>1, <2>1 DEF Do, Stmt, Harmless
<1>4. Chained(p)
  BY <1>1, <1>2, <1>3 DEF Chained
<1> QED
  BY <1>4 DEF p

LEMMA ObjectChained == Chained(print_jobject_safe)
<1> DEFINE p == print_jobject_safe
<1>1. /\ Len(p) = 7
      /\ p[2] = Do("GetObjectClass", {}, "cls")
      /\ p[3] = Run("getJClassName", {"cls"}, {})
      /\ p[4] = Do("GetMethodID", {"cls"}, "mid_hash")
      /\ p[5] = Do("CallIntMethod", {"mid_hash"}, "hash")
      /\ p[6] = Drop("cls")
  BY DEF print_jobject_safe
<1> HIDE DEF p
<1>2. Balanced(p)
  BY ObjectBalanced DEF p
<1>3. /\ \A k \in {2, 4, 5} : Unsafe(p[k].fn) /\ p[k].gives \notin Harmless /\ p[k].fn # "next"
      /\ p[3].fn # "next" /\ p[3].gives \in Harmless /\ ~Unsafe(p[3].fn)
      /\ p[6].fn = "DeleteLocalRef" /\ ~Unsafe(p[6].fn)
  <2>1. /\ Unsafe("GetObjectClass") /\ Unsafe("GetMethodID") /\ Unsafe("CallIntMethod")
        /\ ~Unsafe("getJClassName") /\ ~Unsafe("DeleteLocalRef")
    BY UnsafeFns DEF RefFns, SafeFns, Helpers
  <2> QED
    BY <1>1, <2>1 DEF Do, Drop, Run, Stmt, Harmless
<1>4. /\ p[2].gives \in p[4].needs /\ p[4].gives \in p[5].needs
      /\ p[2].gives # p[4].gives /\ p[2].gives # p[5].gives /\ p[4].gives # p[5].gives
  BY <1>1 DEF Do, Stmt
<1>5. ASSUME NEW k \in {2, 4, 5}, NEW j \in k + 1..6, Unsafe(p[j].fn)
      PROVE  /\ p[j].gives # p[k].gives
             /\ \E n \in k..j - 1 : Unsafe(p[n].fn) /\ p[n].gives \in p[j].needs
  <2>1. (k = 2 /\ j = 4) \/ (k \in {2, 4} /\ j = 5)
    BY <1>3, <1>5
  <2>2. CASE k = 2 /\ j = 4
    BY <1>3, <1>4, <2>2
  <2>3. CASE k \in {2, 4} /\ j = 5
    <3>1. 4 \in k..j - 1
      BY <2>3
    <3> QED
      BY <1>3, <1>4, <2>3, <3>1
  <2> QED
    BY <2>1, <2>2, <2>3
<1>6. Chained(p)
  <2>1. \A k \in 2..6 : k \in {2, 4, 5} \/ k = 3 \/ k = 6
    OBVIOUS
  <2> QED
    BY <1>1, <1>2, <1>3, <1>5, <2>1 DEF Chained
<1> QED
  BY <1>6 DEF p

LEMMA ObjectOrStringChained == Chained(print_jobject_or_string)
<1> DEFINE p == print_jobject_or_string
<1>1. /\ Len(p) = 7
      /\ p[2] = Do("FindClass", {}, "strCls")
      /\ p[3] = Do("IsInstanceOf", {"strCls"}, "isStr")
      /\ p[4] = Drop("strCls")
      /\ p[5] = Run("print_jstring", {"isStr"}, {})
      /\ p[6] = Run("print_jobject_safe", {}, {"isStr"})
  BY DEF print_jobject_or_string
<1> HIDE DEF p
<1>2. Balanced(p)
  BY ObjectOrStringBalanced DEF p
<1>3. /\ \A k \in {2, 3} : Unsafe(p[k].fn) /\ p[k].gives \notin Harmless /\ p[k].fn # "next"
      /\ \A k \in {5, 6} : p[k].fn # "next" /\ p[k].gives \in Harmless /\ ~Unsafe(p[k].fn)
      /\ p[4].fn = "DeleteLocalRef" /\ ~Unsafe(p[4].fn)
  <2>1. /\ Unsafe("FindClass") /\ Unsafe("IsInstanceOf") /\ ~Unsafe("DeleteLocalRef")
        /\ ~Unsafe("print_jstring") /\ ~Unsafe("print_jobject_safe")
    BY UnsafeFns DEF RefFns, SafeFns, Helpers
  <2> QED
    BY <1>1, <2>1 DEF Do, Drop, Run, Stmt, Harmless
<1>4. p[2].gives \in p[3].needs /\ p[2].gives # p[3].gives
  BY <1>1 DEF Do, Stmt
<1>5. ASSUME NEW k \in {2, 3}, NEW j \in k + 1..6, Unsafe(p[j].fn)
      PROVE  /\ p[j].gives # p[k].gives
             /\ \E n \in k..j - 1 : Unsafe(p[n].fn) /\ p[n].gives \in p[j].needs
  <2>1. k = 2 /\ j = 3
    BY <1>3, <1>5
  <2> QED
    BY <1>3, <1>4, <2>1
<1>6. Chained(p)
  <2>1. \A k \in 2..6 : k \in {2, 3} \/ k \in {5, 6} \/ k = 4
    OBVIOUS
  <2> QED
    BY <1>1, <1>2, <1>3, <1>5, <2>1 DEF Chained
<1> QED
  BY <1>6 DEF p

LEMMA InfoChained ==
  ASSUME NEW m
  PROVE  Calm(InfoResolved(m)) \/ Chained(InfoResolved(m))
<1> DEFINE resolver == IF Sort[m] \in Fields THEN "resolveFieldByReflection"
                                             ELSE "resolveMethodByReflection"
           p == InfoResolved(m)
<1>1. Calm(p) \/ Balanced(p)
  BY InfoResolvedKind
<1>2. resolver \in Helpers
  BY DEF Helpers
<1>3. \/ p = << Do("set", {}, "info") >> \/ p = << Do("cacheAll", {}, "info") >>
      \/ p = << Enter, Run(resolver, {}, {}), Leave >>
      \/ p = << Enter, Do("GetObjectClass", {}, "clazz"), Run(resolver, {"clazz"}, {}),
                Drop("clazz"), Leave >>
  BY DEF InfoResolved
<1> HIDE DEF p, resolver
<1>4. CASE p = << Do("set", {}, "info") >> \/ p = << Do("cacheAll", {}, "info") >>
  <2>1. p[1] = Do("set", {}, "info") \/ p[1] = Do("cacheAll", {}, "info")
    BY <1>4
  <2>2. p[1].fn # Enter.fn
    BY <2>1 DEF Enter, Do, Stmt
  <2> QED
    BY <1>1, <2>2 DEF Balanced, Bracketed, p
<1>5. CASE p = << Enter, Run(resolver, {}, {}), Leave >>
  <2>1. Len(p) = 3 /\ p[2] = Run(resolver, {}, {})
    BY <1>5
  <2>2. ~Unsafe(p[2].fn) /\ p[2].gives \in Harmless /\ p[2].fn # "next"
    BY <1>2, <2>1, UnsafeFns, CalmFns DEF Run, Stmt, Harmless
  <2>3. Balanced(p) => Chained(p)
    BY <2>1, <2>2 DEF Chained
  <2> QED
    BY <1>1, <2>3 DEF p
<1>6. CASE p = << Enter, Do("GetObjectClass", {}, "clazz"), Run(resolver, {"clazz"}, {}),
                  Drop("clazz"), Leave >>
  <2>1. /\ Len(p) = 5 /\ p[2] = Do("GetObjectClass", {}, "clazz")
        /\ p[3] = Run(resolver, {"clazz"}, {}) /\ p[4] = Drop("clazz")
    BY <1>6
  <2>2. ~Unsafe(p[3].fn) /\ p[3].gives \in Harmless /\ p[3].fn # "next"
    BY <1>2, <2>1, UnsafeFns, CalmFns DEF Run, Stmt, Harmless
  <2>3. /\ Unsafe(p[2].fn) /\ p[2].gives \notin Harmless /\ p[2].fn # "next"
        /\ ~Unsafe(p[4].fn) /\ p[4].fn = "DeleteLocalRef"
    BY <2>1, UnsafeFns DEF Do, Drop, Stmt, Harmless, SafeFns, RefFns
  <2>4. /\ \A k \in 2..4 : k = 2 \/ k \in 3..4
        /\ \A k \in 3..4 : k = 3 \/ k = 4
        /\ \A k \in 2..4 : k + 1..4 \subseteq 3..4
    OBVIOUS
  <2>5. \A k \in 3..4 : ~Unsafe(p[k].fn) /\ p[k].fn # "next"
    BY <2>2, <2>3, <2>4
  <2>6. Len(p) - 1 = 4
    BY <2>1
  <2>7. Balanced(p) => Chained(p)
    BY <2>2, <2>3, <2>4, <2>5, <2>6 DEF Chained
  <2> QED
    BY <1>1, <2>7 DEF p
<1> QED
  BY <1>3, <1>4, <1>5, <1>6

LEMMA HelperReady ==
  ASSUME NEW helper \in Helpers, NEW m, NEW env
  PROVE  Ready(Activation(helper, Program(helper, m), {}, env))
<1> DEFINE s == Activation(helper, Program(helper, m), {}, env)
<1>1. /\ s.helper = helper /\ s.prog = Program(helper, m) /\ s.have = {} /\ s.at = 1
  BY DEF Activation
<1> HIDE DEF s
<1>2. helper \in ChainedHelpers => Calm(s.prog) \/ Chained(s.prog)
  BY <1>1, ClassNameChained, StringChained, ObjectChained, ObjectOrStringChained, InfoChained
     DEF Program, ChainedHelpers
<1>3. Ready(s)
  BY <1>1, <1>2 DEF Ready, Fresh
<1> QED
  BY <1>3 DEF s

LEMMA HandlerReady ==
  ASSUME NEW prog, Calm(prog), NEW have, NEW env, NEW e
  PROVE  LET s == Activation("handler", prog, have, env) IN Ready(s) /\ Spared(s, e)
  BY DEF Activation, Ready, Spared, ChainedHelpers

\* The innermost activation goes on.
LEMMA GoesOnSafe ==
  ASSUME IInv, Safe, NEW r \in Scopes, r.before = Scope.before,
         scopes' = [scopes EXCEPT ![1] = r], Ready(r), Spared(r, exc')
  PROVE  Safe'
<1>1. /\ scopes \in Seq(Scopes) /\ Len(scopes) \in Nat /\ Len(scopes) > 0
      /\ Scope = scopes[1]
  BY Innermost
<1>2. /\ Len(scopes') = Len(scopes) /\ scopes'[1] = r
      /\ \A k \in 2..Len(scopes) : scopes'[k] = scopes[k]
  BY <1>1
<1>3. ASSUME NEW k \in 1..Len(scopes)
      PROVE  Ready(scopes'[k])
  <2>1. k = 1 \/ k \in 2..Len(scopes)
    BY <1>1
  <2> QED
    BY <1>2, <2>1 DEF Safe
<1>4. ASSUME NEW k \in 2..Len(scopes)
      PROVE  Spared(scopes'[k], scopes'[k - 1].before[1])
  <2>1. scopes'[k - 1].before = scopes[k - 1].before
    <3>1. CASE k = 2
      BY <1>1, <1>2, <3>1
    <3>2. CASE k # 2
      BY <1>1, <1>2, <3>2
    <3> QED
      BY <3>1, <3>2
  <2> QED
    BY <1>2, <2>1 DEF Safe
<1> QED
  BY <1>2, <1>3, <1>4 DEF Safe

LEMMA ProceedsSafe ==
  ASSUME IInv, Safe, NEW q \in Scopes, Proceed(q), Kin(Scope, q),
         q.before = Scope.before, q.at = Scope.at,
         \A r \in Scopes : Kin(Scope, r) /\ r.at = Scope.at + 1 /\ r.have = q.have
                           => Ready(r) /\ Spared(r, exc')
  PROVE  Safe'
<1> DEFINE r == [q EXCEPT !.at = @ + 1]
<1>1. scopes' = [scopes EXCEPT ![1] = r]
  BY DEF Proceed
<1>2. /\ r \in Scopes /\ r.helper = q.helper /\ r.prog = q.prog /\ r.before = Scope.before
      /\ r.at = Scope.at + 1 /\ r.have = q.have
  BY SMTT(30) DEF Scopes
<1> HIDE DEF r
<1>3. Ready(r) /\ Spared(r, exc')
  BY <1>2 DEF Kin
<1> QED
  BY <1>1, <1>2, <1>3, GoesOnSafe

LEMMA AdvancesSafe ==
  ASSUME IInv, Safe, NEW have \in SUBSET Handles, Advance(have),
         \A r \in Scopes : Kin(Scope, r) /\ r.at = Scope.at + 1 /\ r.have = have
                           => Ready(r) /\ Spared(r, exc')
  PROVE  Safe'
<1> DEFINE q == [Scope EXCEPT !.have = have]
<1>1. Scope \in Scopes
  BY Innermost
<1>2. /\ q \in Scopes /\ q.helper = Scope.helper /\ q.prog = Scope.prog
      /\ q.before = Scope.before /\ q.at = Scope.at /\ q.have = have
  BY <1>1 DEF Scopes
<1>3. Proceed(q)
  BY DEF Advance
<1> HIDE DEF q
<1> QED
  BY <1>2, <1>3, ProceedsSafe DEF Kin

\* A statement that leaves the exception as it is.
LEMMA PassesSafe ==
  ASSUME IInv, Safe, ~Done, NEW r, Passes(Scope, r), Statement.fn # "guard"
  PROVE  Ready(r) /\ Spared(r, exc)
<1>1. /\ Scope \in Scopes /\ Sees(Scope, exc, frames) /\ Scope.at <= Len(Scope.prog)
      /\ Statement = Scope.prog[Scope.at] /\ Len(scopes) > 0 /\ Scope = scopes[1]
      /\ Len(scopes) \in Nat
  BY Innermost
<1>2. 1 \in 1..Len(scopes)
  BY <1>1
<1>3. Ready(Scope) /\ Spared(Scope, exc)
  BY <1>1, <1>2 DEF Safe
<1> QED
  BY <1>1, <1>3, PassesReady, PassesSpared

\* A call that fails.
LEMMA FailureSafe ==
  ASSUME IInv, Safe, ~Done, Unsafe(Statement.fn) \/ Statement.fn = "PushLocalFrame",
         Statement.fn # "guard", Advance(Scope.have), exc' = "trace"
  PROVE  Safe'
<1>1. /\ Scope \in Scopes /\ Sees(Scope, exc, frames) /\ Scope.at <= Len(Scope.prog)
      /\ Statement = Scope.prog[Scope.at] /\ Len(scopes) > 0 /\ Scope = scopes[1]
      /\ Len(scopes) \in Nat /\ Scope.have \in SUBSET Handles
  BY Innermost, ScopeTyped
<1>2. Ready(Scope)
  <2>1. 1 \in 1..Len(scopes)
    BY <1>1
  <2> QED
    BY <1>1, <2>1 DEF Safe
<1>3. ASSUME NEW r \in Scopes, Kin(Scope, r), r.at = Scope.at + 1, r.have = Scope.have
      PROVE  Ready(r) /\ Spared(r, exc')
  <2>1. Passes(Scope, r)
    BY <1>3 DEF Passes
  <2>2. Ready(r)
    BY <2>1, PassesSafe
  <2>3. Spared(r, "trace")
    BY <1>1, <1>2, <1>3, FailsSpared
  <2> QED
    BY <2>2, <2>3
<1> QED
  BY <1>1, <1>3, AdvancesSafe

\* A statement that runs and leaves the exception as it is.
LEMMA RunsSafe ==
  ASSUME IInv, Safe, ~Done, exc' = exc, NEW have \in SUBSET Handles, Advance(have),
         \/ have = Scope.have /\ Statement.fn # "guard"
         \/ /\ Applies(Statement) /\ Statement.fn \notin {"guard", "unguard"}
            /\ \/ have \subseteq Scope.have
               \/ /\ have \subseteq Scope.have \cup {Statement.gives}
                  /\ Statement.fn # "DeleteLocalRef"
  PROVE  Safe'
<1>1. Statement = Scope.prog[Scope.at]
  BY DEF Statement
<1>2. Applies(Statement) => AppliesIn(Scope)
  BY DEF Applies, AppliesIn, Statement
<1>3. ASSUME NEW r \in Scopes, Kin(Scope, r), r.at = Scope.at + 1, r.have = have
      PROVE  Ready(r) /\ Spared(r, exc')
  <2>1. Passes(Scope, r) /\ Statement.fn # "guard"
    BY <1>1, <1>2, <1>3 DEF Passes
  <2> QED
    BY <2>1, PassesSafe
<1> QED
  BY <1>3, AdvancesSafe

\* A guard is entered at the start, and left at the end.
LEMMA GuardPlace ==
  ASSUME NEW s \in Scopes, NEW e, NEW f, Sees(s, e, f), s.at <= Len(s.prog)
  PROVE  /\ s.prog[s.at].fn = "guard" => s.at = 1 /\ AppliesIn(s)
         /\ s.prog[s.at].fn = "unguard" => s.at = Len(s.prog)
<1>1. Len(s.prog) \in Nat /\ s.at \in 1..Len(s.prog)
  BY Located
<1>2. CASE Calm(s.prog)
  BY <1>2, Located, CalmFns
<1>3. CASE ~Calm(s.prog)
  <2>1. Bracketed(s.prog)
    BY <1>3, Located
  <2> QED
    BY <1>1, <2>1, Places
<1> QED
  BY <1>2, <1>3

LEMMA SkipSafe ==
  ASSUME IInv, Safe, ~Done, Skip
  PROVE  Safe'
<1>1. Scope \in Scopes /\ Scope.have \in SUBSET Handles
  BY Innermost, ScopeTyped
<1>2. Advance(Scope.have) /\ exc' = exc /\ ~AppliesIn(Scope)
  BY DEF Skip, Applies, AppliesIn, Statement, jniVars
<1>3. Statement.fn # "guard"
  BY <1>2, Innermost, GuardPlace
<1> QED
  BY <1>1, <1>2, <1>3, RunsSafe

LEMMA CallSafe ==
  ASSUME IInv, Safe, ~Done, Applies(Statement), Call(Statement)
  PROVE  Safe'
<1>1. /\ Scope \in Scopes /\ Scope.have \in SUBSET Handles
      /\ Scope.have \cup {Statement.gives} \in SUBSET Handles
  BY Innermost, ScopeTyped DEF Stmts
<1>2. Statement.fn \notin {"guard", "unguard", "DeleteLocalRef"}
  BY DEF Call, RefFns
<1>3. CASE Advance(Scope.have \cup {Statement.gives}) /\ exc' = exc
  BY <1>1, <1>2, <1>3, RunsSafe
<1>4. CASE Advance(Scope.have) /\ exc' = "trace"
  <2>1. Unsafe(Statement.fn)
    BY UnsafeFns DEF Call
  <2> QED
    BY <1>2, <1>4, <2>1, FailureSafe
<1> QED
  BY <1>3, <1>4 DEF Call, Assign

LEMMA TestSafe ==
  ASSUME IInv, Safe, ~Done, Applies(Statement), Test(Statement)
  PROVE  Safe'
<1>1. /\ Scope \in Scopes /\ Scope.have \in SUBSET Handles
      /\ Scope.have \cup {Statement.gives} \in SUBSET Handles
  BY Innermost, ScopeTyped DEF Stmts
<1>2. Statement.fn \notin {"guard", "unguard", "DeleteLocalRef"} /\ exc' = exc
  BY DEF Test, jniVars
<1>3. Advance(Scope.have \cup {Statement.gives}) \/ Advance(Scope.have)
  BY DEF Test, Says, Assign
<1> QED
  BY <1>1, <1>2, <1>3, RunsSafe

LEMMA ReleaseSafe ==
  ASSUME IInv, Safe, ~Done, Applies(Statement), Release(Statement)
  PROVE  Safe'
<1>1. Scope \in Scopes /\ Scope.have \in SUBSET Handles
  BY Innermost, ScopeTyped
<1>2. Statement.fn \notin {"guard", "unguard"} /\ exc' = exc
  BY DEF Release
<1>3. ASSUME NEW have \in SUBSET Scope.have, Advance(have)
      PROVE  Safe'
  BY <1>1, <1>2, <1>3, RunsSafe
<1>4. Advance(Scope.have \ {Statement.gives}) \/ Advance(Scope.have)
  BY DEF Release
<1> QED
  BY <1>3, <1>4

LEMMA LocalFrameSafe ==
  ASSUME IInv, Safe, ~Done, Applies(Statement), LocalFrame(Statement)
  PROVE  Safe'
<1>1. /\ Scope \in Scopes /\ Scope.have \in SUBSET Handles
      /\ Scope.have \cup {Statement.gives} \in SUBSET Handles
  BY Innermost, ScopeTyped DEF Stmts
<1>2. Statement.fn \notin {"guard", "unguard", "DeleteLocalRef"}
  BY DEF LocalFrame
<1>3. CASE /\ Advance(Scope.have \cup {Statement.gives}) \/ Advance(Scope.have)
           /\ exc' = exc
  BY <1>1, <1>2, <1>3, RunsSafe
<1>4. CASE Statement.fn = "PushLocalFrame" /\ Advance(Scope.have) /\ exc' = "trace"
  BY <1>2, <1>4, FailureSafe
<1> QED
  BY <1>3, <1>4 DEF LocalFrame, Assign

LEMMA LocalSafe ==
  ASSUME IInv, Safe, ~Done, Applies(Statement), Local(Statement)
  PROVE  Safe'
<1> DEFINE s == Scope
           q == [s EXCEPT !.sig = @ + 1]
<1>1. /\ s \in Scopes /\ s.have \in SUBSET Handles
      /\ s.have \cup {Statement.gives} \in SUBSET Handles
  BY Innermost, ScopeTyped DEF Stmts
<1>2. Statement.fn \notin {"guard", "unguard", "DeleteLocalRef"} /\ exc' = exc
  BY DEF Local, jniVars
<1>3. \/ Advance(s.have \cup {Statement.gives}) \/ Advance(s.have)
      \/ Proceed(q)
  BY DEF Local, Assign
<1> HIDE DEF s
<1>4. CASE Advance(s.have \cup {Statement.gives}) \/ Advance(s.have)
  BY <1>1, <1>2, <1>4, RunsSafe DEF s
<1>5. CASE Proceed(q)
  <2>1. /\ q \in Scopes /\ q.helper = s.helper /\ q.prog = s.prog /\ q.before = s.before
        /\ q.at = s.at /\ q.have = s.have
    BY <1>1 DEF Scopes
  <2> HIDE DEF q
  <2>2. ASSUME NEW r \in Scopes, Kin(s, r), r.at = s.at + 1, r.have = q.have
        PROVE  Ready(r) /\ Spared(r, exc')
    <3>1. Passes(s, r)
      BY <2>1, <2>2 DEF Passes
    <3> QED
      BY <1>2, <3>1, PassesSafe DEF s
  <2> QED
    BY <1>5, <2>1, <2>2, ProceedsSafe DEF s, Kin
<1> QED
  BY <1>3, <1>4, <1>5

\* The head of the loop has found another parameter.
LEMMA Visited ==
  ASSUME NEW s \in Scopes, NEW gives \in Handles
  PROVE  LET q == [s EXCEPT !.i = @ + 1, !.have = (@ \ LoopLocals) \cup {gives}] IN
         /\ q \in Scopes /\ Kin(s, q) /\ q.before = s.before /\ q.at = s.at
         /\ q.i = s.i + 1 /\ q.have = (s.have \ LoopLocals) \cup {gives} /\ q.sig = s.sig
<1> DEFINE p == [s EXCEPT !.i = @ + 1]
           have == (s.have \ LoopLocals) \cup {gives}
           q == [s EXCEPT !.i = @ + 1, !.have = (@ \ LoopLocals) \cup {gives}]
<1>1. s.i + 1 \in Nat
  BY DEF Scopes
<1>2. /\ p \in Scopes /\ Kin(s, p) /\ p.before = s.before /\ p.at = s.at
      /\ p.i = s.i + 1 /\ p.have = s.have /\ p.sig = s.sig
  BY <1>1 DEF Scopes, Kin
<1>3. have \in SUBSET Handles /\ q = [p EXCEPT !.have = have]
  BY ScopeTyped DEF Scopes
<1> HIDE DEF p, q, have
<1>4. /\ q \in Scopes /\ Kin(s, q) /\ q.before = s.before /\ q.at = s.at
      /\ q.i = s.i + 1 /\ q.have = have /\ q.sig = s.sig
  BY <1>2, <1>3 DEF Scopes, Kin
<1> QED
  BY <1>4 DEF q, have

LEMMA LoopSafe ==
  ASSUME IInv, Safe, ~Done, Applies(Statement), Loop(Statement)
  PROVE  Safe'
<1> DEFINE s == Scope
           fn == Statement.fn
           q == [s EXCEPT !.i = @ + 1, !.have = (@ \ LoopLocals) \cup {Statement.gives}]
           b == [s EXCEPT !.at = LoopHead]
<1>1. /\ s \in Scopes /\ s.at <= Len(s.prog) /\ Sees(s, exc, frames) /\ AppliesIn(s)
      /\ Statement = s.prog[s.at] /\ Statement \in Stmts /\ s.have \in SUBSET Handles
      /\ scopes \in Seq(Scopes) /\ Len(scopes) \in Nat /\ Len(scopes) > 0
      /\ s = scopes[1]
  BY Innermost, ScopeTyped DEF Applies, AppliesIn
<1>2. /\ exc' = exc
      /\ \/ fn = "for" /\ Proceed(q)
         \/ fn = "for" /\ Advance(s.have \ LoopLocals)
         \/ fn = "next" /\ scopes' = [scopes EXCEPT ![1] = b]
  BY DEF Loop, For, jniVars
<1>3. Ready(s) /\ Spared(s, exc)
  <2>1. 1 \in 1..Len(scopes)
    BY <1>1
  <2> QED
    BY <1>1, <2>1 DEF Safe
<1> HIDE DEF s
<1>4. CASE fn = "for" /\ Proceed(q)
  <2>1. /\ q \in Scopes /\ q.helper = s.helper /\ q.prog = s.prog /\ q.before = s.before
        /\ q.at = s.at /\ q.have = (s.have \ LoopLocals) \cup {Statement.gives}
    <3>1. Statement.gives \in Handles
      BY <1>1 DEF Stmts
    <3>2. /\ q \in Scopes /\ Kin(s, q) /\ q.before = s.before /\ q.at = s.at
          /\ q.i = s.i + 1 /\ q.have = (s.have \ LoopLocals) \cup {Statement.gives}
          /\ q.sig = s.sig
      <4>1. s \in Scopes
        BY <1>1
      <4> QED
        BY <3>1, <4>1, Visited
    <3> HIDE DEF q
    <3> QED
      BY <3>2 DEF Kin
  <2> HIDE DEF q
  <2>2. ASSUME NEW r \in Scopes, Kin(s, r), r.at = s.at + 1, r.have = q.have
        PROVE  Ready(r) /\ Spared(r, exc')
    <3>1. Passes(s, r)
      BY <1>1, <1>4, <2>1, <2>2, SMTT(30) DEF Passes
    <3> QED
      BY <1>2, <1>4, <3>1, PassesSafe DEF s
  <2> QED
    BY <1>4, <2>1, <2>2, ProceedsSafe DEF s, Kin
<1>5. CASE fn = "for" /\ Advance(s.have \ LoopLocals)
  <2>1. s.have \ LoopLocals \in SUBSET Handles /\ s.have \ LoopLocals \subseteq s.have
    BY <1>1
  <2> QED
    BY <1>1, <1>2, <1>5, <2>1, RunsSafe DEF s
<1>6. CASE fn = "next" /\ scopes' = [scopes EXCEPT ![1] = b]
  <2>1. \E k \in 1..Len(s.prog) : s.prog[k].fn = "for"
    BY <1>1, <1>6, NextHasFor
  <2>2. LoopHead = CHOOSE k \in 1..Len(s.prog) : s.prog[k].fn = "for"
    BY DEF LoopHead, s
  <2>3. LoopHead \in 1..Len(s.prog) /\ s.prog[LoopHead].fn = "for"
    BY <2>1, <2>2
  <2>4. LoopHead \in Nat
    BY <1>1, <2>3, ScopeTyped
  <2>5. /\ b \in Scopes /\ b.helper = s.helper /\ b.prog = s.prog /\ b.before = s.before
        /\ b.at = LoopHead /\ b.have = s.have
    BY <1>1, <2>4 DEF Scopes
  <2> HIDE DEF b
  <2>6. Ready(b) /\ Spared(b, exc')
    BY <1>1, <1>2, <1>3, <1>6, <2>3, <2>5, LoopsSafe DEF Kin
  <2> QED
    BY <1>6, <2>5, <2>6, GoesOnSafe DEF s
<1> QED
  BY <1>2, <1>4, <1>5, <1>6

\* Under a guard, nothing is pending.
LEMMA GuardSafe ==
  ASSUME IInv, Safe, ~Done, Applies(Statement), Guard(Statement)
  PROVE  Safe'
<1> DEFINE s == Scope
           q == [s EXCEPT !.saved = exc]
<1>1. /\ s \in Scopes /\ s.at <= Len(s.prog) /\ Sees(s, exc, frames) /\ exc \in Excs
      /\ Statement = s.prog[s.at] /\ s = scopes[1] /\ Len(scopes) \in Nat /\ Len(scopes) > 0
  BY Innermost
<1>2. Proceed(q) /\ exc' = "none"
  BY DEF Guard
<1>3. Ready(s)
  <2>1. 1 \in 1..Len(scopes)
    BY <1>1
  <2> QED
    BY <1>1, <2>1 DEF Safe
<1> HIDE DEF s
<1>4. /\ q \in Scopes /\ q.helper = s.helper /\ q.prog = s.prog /\ q.before = s.before
      /\ q.at = s.at /\ q.have = s.have
  BY <1>1 DEF Scopes
<1> HIDE DEF q
<1>5. ASSUME NEW r \in Scopes, Kin(s, r), r.at = s.at + 1, r.have = q.have
      PROVE  Ready(r) /\ Spared(r, exc')
  <2>1. Passes(s, r)
    BY <1>4, <1>5 DEF Passes
  <2>2. Ready(r)
    BY <1>1, <1>3, <2>1, PassesReady
  <2> QED
    BY <1>2, <2>2 DEF Spared
<1> QED
  BY <1>2, <1>4, <1>5, ProceedsSafe DEF s, Kin

LEMMA UnguardSafe ==
  ASSUME IInv, Safe, ~Done, Applies(Statement), Unguard(Statement)
  PROVE  Safe'
<1> DEFINE s == Scope
<1>1. /\ s \in Scopes /\ s.at <= Len(s.prog) /\ Sees(s, exc, frames)
      /\ Statement = s.prog[s.at] /\ s = scopes[1] /\ Len(scopes) \in Nat /\ Len(scopes) > 0
      /\ s.have \in SUBSET Handles /\ Len(s.prog) \in Nat /\ s.at \in Nat
  BY Innermost, ScopeTyped
<1>2. Statement.fn = "unguard" /\ Advance(s.have)
  BY DEF Unguard
<1>3. Ready(s)
  <2>1. 1 \in 1..Len(scopes)
    BY <1>1
  <2> QED
    BY <1>1, <2>1 DEF Safe
<1> HIDE DEF s
<1>4. s.at = Len(s.prog)
  BY <1>1, <1>2, GuardPlace
<1>5. ASSUME NEW r \in Scopes, Kin(s, r), r.at = s.at + 1, r.have = s.have
      PROVE  Ready(r) /\ Spared(r, exc')
  <2>1. Passes(s, r)
    BY <1>5 DEF Passes
  <2>2. Ready(r)
    BY <1>1, <1>3, <2>1, PassesReady
  <2>3. r.at >= Len(r.prog)
    BY <1>1, <1>4, <1>5 DEF Kin
  <2> QED
    BY <2>2, <2>3 DEF Spared
<1> QED
  BY <1>1, <1>2, <1>5, AdvancesSafe DEF s

\* A helper starts with its guard, and leaves the exception as it was.
LEMMA CallHelperSafe ==
  ASSUME IInv, Safe, ~Done, Applies(Statement), CallHelper(Statement)
  PROVE  Safe'
<1> DEFINE s == Scope
           a == Activation(Statement.fn, Program(Statement.fn, call.m), {}, <<exc, frames>>)
           r == [s EXCEPT !.at = @ + 1]
<1>1. /\ scopes \in Seq(Scopes) /\ Len(scopes) \in Nat /\ Len(scopes) > 0 /\ s = scopes[1]
      /\ s \in Scopes /\ exc \in Excs /\ frames \in Frames
  BY Innermost
<1>2. Statement.fn \in Helpers /\ exc' = exc /\ scopes' = << a, r >> \o Tail(scopes)
  BY DEF CallHelper, jniVars
<1>3. /\ a \in Scopes /\ a.before = <<exc, frames>> /\ a.at = 1 /\ Ready(a)
  <2>1. Program(Statement.fn, call.m) \in Seq(Stmts)
    BY <1>2, ProgramKind
  <2>2. Ready(a)
    BY <1>2, HelperReady
  <2> QED
    BY <1>1, <1>2, <2>1, <2>2 DEF Activation, Scopes, Excs
<1> HIDE DEF s, a
<1>4. /\ r \in Scopes /\ r.before = s.before /\ Kin(s, r)
      /\ r.at = s.at + 1 /\ r.have = s.have
  <2>1. Same(s, r) /\ r.at = s.at + 1 /\ r.have = s.have
    BY <1>1, NextScope
  <2>2. r.helper = s.helper
    BY <1>1 DEF Scopes
  <2> HIDE DEF r
  <2> QED
    BY <2>1, <2>2 DEF Same, Kin
<1> HIDE DEF r
<1>5. Ready(r) /\ Spared(r, exc)
  <2>1. Passes(s, r) /\ Statement.fn # "guard"
    BY <1>2, <1>4, CalmFns DEF Passes
  <2> QED
    BY <2>1, PassesSafe DEF s
<1>6. /\ Len(scopes') = Len(scopes) + 1 /\ scopes'[1] = a /\ scopes'[2] = r
      /\ \A k \in 3..Len(scopes) + 1 : scopes'[k] = scopes[k - 1]
  BY <1>1, <1>2, <1>3, <1>4
<1>7. ASSUME NEW k \in 1..Len(scopes')
      PROVE  Ready(scopes'[k])
  <2>1. k = 1 \/ k = 2 \/ (k \in 3..Len(scopes) + 1 /\ k - 1 \in 1..Len(scopes))
    BY <1>1, <1>6
  <2> QED
    BY <1>3, <1>5, <1>6, <2>1 DEF Safe
<1>8. ASSUME NEW k \in 2..Len(scopes')
      PROVE  Spared(scopes'[k], scopes'[k - 1].before[1])
  <2>1. CASE k = 2
    BY <1>3, <1>5, <1>6, <2>1
  <2>2. CASE k = 3
    <3>1. scopes'[3] = scopes[2] /\ 2 \in 2..Len(scopes) /\ 2 - 1 = 1 /\ 3 - 1 = 2
      BY <1>1, <1>6, <2>2
    <3>2. Spared(scopes[2], scopes[1].before[1])
      BY <3>1 DEF Safe
    <3> QED
      BY <1>1, <1>4, <1>6, <2>2, <3>1, <3>2
  <2>3. CASE k > 3
    <3>1. /\ scopes'[k] = scopes[k - 1] /\ scopes'[k - 1] = scopes[k - 2]
          /\ k - 1 \in 2..Len(scopes) /\ (k - 1) - 1 = k - 2
      BY <1>1, <1>6, <2>3
    <3> QED
      BY <3>1 DEF Safe
  <2> QED
    BY <1>6, <2>1, <2>2, <2>3
<1>9. Spared(a, exc')
  BY <1>3 DEF Spared
<1> QED
  BY <1>6, <1>7, <1>8, <1>9 DEF Safe

\* The information that a helper found serves no call.
LEMMA InfoSafe ==
  ASSUME NEW s \in Scopes, NEW r, NEW e, NEW f, NEW X \in SUBSET {"info"}, Sees(s, e, f),
         Kin(s, r), r.at = s.at, r.have = s.have \cup X, Ready(s), Spared(s, e)
  PROVE  Ready(r) /\ Spared(r, e)
<1>1. /\ Len(s.prog) \in Nat /\ s.at \in Nat /\ r.helper = s.helper /\ r.prog = s.prog
      /\ s.at >= 1
  BY ScopeTyped DEF Kin, Sees, CalmIn, BalancedIn, FramedIn
<1>2. r.have \subseteq s.have \cup Harmless
  BY DEF Harmless
<1>3. ASSUME Chained(s.prog), Fresh(s)
      PROVE  Fresh(r)
  <2>1. ASSUME NEW k \in s.at..Len(s.prog) - 1, Unsafe(s.prog[k].fn)
        PROVE  s.prog[k].gives \notin r.have
    <3>1. s.prog[k].gives \notin s.have
      BY <1>3, <2>1 DEF Fresh
    <3>2. s.prog[k].gives \notin Harmless
      <4>1. CASE k \in 2..Len(s.prog) - 1
        BY <1>3, <2>1, <4>1 DEF Chained
      <4>2. CASE k = 1
        BY <1>1, <1>3, <2>1, <4>2, UnsafeFns
           DEF Chained, Balanced, Bracketed, Enter, Do, Stmt, Unsafe, IsCall, SafeFns, RefFns
      <4> QED
        BY <1>1, <2>1, <4>1, <4>2
    <3> QED
      BY <1>2, <3>1, <3>2
  <2> QED
    BY <1>1, <2>1 DEF Fresh
<1>4. Dead(s) => Dead(r)
  BY <1>1, <1>2 DEF Dead
<1>5. Ready(r)
  BY <1>1, <1>3 DEF Ready
<1>6. Spared(r, e)
  BY <1>1, <1>4 DEF Spared
<1> QED
  BY <1>5, <1>6

LEMMA RetSafe ==
  ASSUME IInv, Safe, Done, Len(scopes) > 1, Ret
  PROVE  Safe'
<1> DEFINE s == Scope
           c == scopes[2]
           X == s.have \cap {"info"}
           r == [c EXCEPT !.have = @ \cup X]
<1>1. /\ scopes \in Seq(Scopes) /\ Len(scopes) \in Nat /\ s = scopes[1]
      /\ s \in Scopes /\ c \in Scopes /\ Sees(s, exc, frames)
  BY Innermost
<1>2. s.before = <<exc, frames>>
  BY <1>1, DoneSees DEF Done
<1>3. Sees(c, exc, frames)
  BY <1>1, <1>2 DEF IInv, Chain
<1>4. Ready(c) /\ Spared(c, exc)
  <2>1. 2 \in 1..Len(scopes) /\ 2 \in 2..Len(scopes) /\ 2 - 1 = 1
    BY <1>1
  <2>2. Spared(scopes[2], scopes[1].before[1])
    BY <2>1 DEF Safe
  <2> QED
    BY <1>1, <1>2, <2>1, <2>2 DEF Safe
<1>5. /\ r \in Scopes /\ Kin(c, r) /\ r.at = c.at /\ r.have = c.have \cup X
      /\ r.before = c.before
  <2>1. X \in SUBSET Handles
    BY DEF Handles
  <2> QED
    BY <1>1, <2>1 DEF Kin, Scopes
<1>6. exc' = exc /\ scopes' = [Tail(scopes) EXCEPT ![1] = r]
  <2>1. Tail(scopes)[1] = c
    BY <1>1
  <2>2. scopes' = [Tail(scopes) EXCEPT ![1] =
                     [Tail(scopes)[1] EXCEPT !.have = @ \cup (Scope.have \cap {"info"})]]
    BY SMTT(30) DEF Ret
  <2> QED
    BY <2>1, <2>2 DEF Ret, jniVars
<1>7. Ready(r) /\ Spared(r, exc)
  <2>1. X \in SUBSET {"info"}
    OBVIOUS
  <2> HIDE DEF X, r
  <2> QED
    BY <1>1, <1>3, <1>4, <1>5, <2>1, InfoSafe
<1> HIDE DEF s, X, r
<1>8. /\ Len(scopes') = Len(scopes) - 1 /\ scopes'[1] = r
      /\ \A k \in 2..Len(scopes) - 1 : scopes'[k] = scopes[k + 1]
  <2> DEFINE rest == Tail(scopes)
  <2>1. /\ rest \in Seq(Scopes) /\ Len(rest) = Len(scopes) - 1 /\ Len(rest) > 0
        /\ \A k \in 1..Len(scopes) - 1 : rest[k] = scopes[k + 1]
    BY <1>1
  <2> HIDE DEF rest
  <2>2. /\ Len([rest EXCEPT ![1] = r]) = Len(rest)
        /\ [rest EXCEPT ![1] = r][1] = r
        /\ \A k \in 2..Len(rest) : [rest EXCEPT ![1] = r][k] = rest[k]
    BY <2>1
  <2> QED
    BY <1>1, <1>6, <2>1, <2>2 DEF rest
<1>9. ASSUME NEW k \in 1..Len(scopes')
      PROVE  Ready(scopes'[k])
  <2>1. k = 1 \/ (k \in 2..Len(scopes) - 1 /\ k + 1 \in 1..Len(scopes))
    BY <1>1, <1>8
  <2> QED
    BY <1>7, <1>8, <2>1 DEF Safe
<1>10. ASSUME NEW k \in 2..Len(scopes')
       PROVE  Spared(scopes'[k], scopes'[k - 1].before[1])
  <2>1. /\ k + 1 \in 2..Len(scopes) /\ (k + 1) - 1 = k
        /\ scopes'[k] = scopes[k + 1] /\ scopes'[k - 1].before = scopes[k].before
    <3>1. CASE k = 2
      BY <1>1, <1>5, <1>8, <3>1
    <3>2. CASE k > 2
      BY <1>1, <1>8, <3>2
    <3> QED
      BY <1>1, <1>8, <3>1, <3>2
  <2> QED
    BY <2>1 DEF Safe
<1> QED
  BY <1>6, <1>7, <1>8, <1>9, <1>10 DEF Safe

LEMMA StepSafe ==
  ASSUME IInv, Safe, Step
  PROVE  Safe'
<1>1. CASE Done
  BY <1>1, RetSafe DEF Step
<1>2. CASE ~Done
  <2>1. CASE Skip
    BY <1>2, <2>1, SkipSafe
  <2>2. CASE Applies(Statement) /\ (Call(Statement) \/ LocalFrame(Statement))
    BY <1>2, <2>2, CallSafe, LocalFrameSafe
  <2>3. CASE Applies(Statement) /\ (Test(Statement) \/ Release(Statement))
    BY <1>2, <2>3, TestSafe, ReleaseSafe
  <2>4. CASE Applies(Statement) /\ (Guard(Statement) \/ Unguard(Statement))
    BY <1>2, <2>4, GuardSafe, UnguardSafe
  <2>5. CASE Applies(Statement) /\ CallHelper(Statement)
    BY <1>2, <2>5, CallHelperSafe
  <2>6. CASE Applies(Statement) /\ (Loop(Statement) \/ Local(Statement))
    BY <1>2, <2>6, LoopSafe, LocalSafe
  <2> QED
    BY <1>2, <2>1, <2>2, <2>3, <2>4, <2>5, <2>6 DEF Step
<1> QED
  BY <1>1, <1>2

\* A handler only runs helpers.
LEMMA HandlerSafe ==
  ASSUME NEW prog \in Seq(CalmStmts), NEW have, NEW env,
         scopes' = << Activation("handler", prog, have, env) >>
  PROVE  Safe'
<1> DEFINE a == Activation("handler", prog, have, env)
<1>1. Calm(prog)
  BY CalmSeq
<1>2. Ready(a) /\ Spared(a, exc')
  BY <1>1, HandlerReady
<1> HIDE DEF a
<1>3. scopes' = <<a>>
  BY DEF a
<1>4. Len(scopes') = 1 /\ scopes'[1] = a
  BY <1>3
<1> QED
  BY <1>2, <1>4 DEF Safe

LEMMA AppSafeSteps ==
  ASSUME IInv, HostCall \/ \E kind \in DOMAIN tableInit : jni_on_call(kind)
  PROVE  Safe'
<1>1. CASE HostCall
  <2>1. PICK have \in {{}, {"ret"}} : jni_on_return(have)
    BY <1>1 DEF HostCall, Returns, Throws, ManagesRefs, Clears
  <2>2. tableInit[call.kind].ret \in Seq(CalmStmts)
    BY TableCalm DEF CalmTable, Handlers, IInv, TypeInv
  <2> QED
    BY <2>1, <2>2, HandlerSafe DEF jni_on_return
<1>2. ASSUME NEW kind \in DOMAIN tableInit, jni_on_call(kind)
      PROVE  Safe'
  <2>1. tableInit[kind].entry \in Seq(CalmStmts)
    BY TableCalm DEF CalmTable, Handlers
  <2> QED
    BY <1>2, <2>1, HandlerSafe DEF jni_on_call
<1> QED
  BY <1>1, <1>2

\* Whatever throws and whatever was pending: in the chained helpers of JniTrace.cpp
\* no call that ART would refuse is made with an exception pending, for after a call
\* that threw each unsafe one to come lacks a handle.
THEOREM ChainedCallsCleanAlways == Spec => []ChainedCallsClean
<1>1. Init => Safe
  <2> SUFFICES ASSUME Init
               PROVE  Safe
    OBVIOUS
  <2> DEFINE a == Activation("handler", << >>, {}, <<exc, frames>>)
  <2>1. Calm(<< >>)
    <3>1. << >> \in Seq(CalmStmts)
      OBVIOUS
    <3> QED
      BY <3>1, CalmSeq
  <2>2. Ready(a) /\ Spared(a, exc)
    BY <2>1, HandlerReady
  <2>3. scopes = <<a>>
    BY DEF Init
  <2> HIDE DEF a
  <2>4. Len(scopes) = 1 /\ scopes[1] = a
    BY <2>3
  <2> QED
    BY <2>2, <2>4 DEF Safe
<1>2. IInv /\ Safe /\ [Next]_vars => Safe'
  <2> SUFFICES ASSUME IInv, Safe, [Next]_vars
               PROVE  Safe'
    OBVIOUS
  <2>1. CASE Step
    BY <2>1, StepSafe
  <2>2. CASE HostCall \/ \E kind \in DOMAIN tableInit : jni_on_call(kind)
    BY <2>2, AppSafeSteps
  <2>3. CASE UNCHANGED vars
    BY <2>3 DEF Safe, vars, jniVars, appVars
  <2> QED
    BY <2>1, <2>2, <2>3 DEF Next
<1>3. IInv /\ Safe => ChainedCallsClean
  <2> SUFFICES ASSUME IInv, Safe, ~Done, Scope.helper \in ChainedHelpers,
                      Applies(Statement), Unsafe(Statement.fn)
               PROVE  exc = "none"
    BY DEF ChainedCallsClean, Unsafe
  <2> DEFINE s == Scope
  <2>1. /\ s \in Scopes /\ s.at <= Len(s.prog) /\ Sees(s, exc, frames) /\ AppliesIn(s)
        /\ Statement = s.prog[s.at] /\ s = scopes[1]
    BY Innermost DEF Applies, AppliesIn
  <2>2. Spared(s, exc)
    BY <2>1 DEF Safe
  <2> HIDE DEF s
  <2>3. Statement.fn \notin Helpers \cup {"set", "cacheAll", "guard", "unguard",
                                          "PopLocalFrame"}
    BY UnsafeFns, CalmFns DEF Unsafe, IsCall, SafeFns, RefFns
  <2>4. ~Calm(s.prog) /\ s.at \in 2..Len(s.prog) - 1 /\ Len(s.prog) \in Nat
    BY <2>1, <2>3, Located
  <2>5. ~(Chained(s.prog) /\ Dead(s))
    <3>1. s.at \in s.at..Len(s.prog) - 1
      BY <2>4
    <3> QED
      BY <2>1, <3>1 DEF Dead, AppliesIn
  <2> QED
    BY <2>2, <2>4, <2>5 DEF Spared, s
<1> QED
  BY <1>1, <1>2, <1>3, Invariance, PTL DEF Spec

-----------------------------------------------------------------------------
(* What the caches hold.  A reflection in which no call has failed has every *)
(* handle that its statements have given, and as many pieces of the         *)

-----------------------------------------------------------------------------
(* What reflection caches.  As long as no call of a reflection has thrown,  *)
(* it has every handle that its statements have given, and as many pieces   *)
(* of the signature as its place in the program tells.                      *)

\* The handles that the reflection of m finds when no call fails.
Found(m) ==
  Handles \ ({"void", "text", "sig"} \cup
             IF Sort[m] = "ctor"
             THEN {"isMethod", "mid_getName", "name_ref", "mid_getReturn", "retCls", "rName",
                   "rUtf"}
             ELSE {"isCtor"})

\* Where the loop over the parameters and the write to the cache are.
LoopAt(helper) == IF helper = "resolveMethodByReflection" THEN 22..28 ELSE {}
CacheAt(helper) == IF helper = "resolveMethodByReflection" THEN 37 ELSE 18

\* Statement j of p runs and gives a handle, when those of G are found.
Runs(p, G, j) ==
  p[j].needs \subseteq G /\ p[j].unless \cap G = {} /\ p[j].gives \in G

\* In the body of the loop, at one of the parameters or after the last of them.
InBody(s) == s.at \in LoopAt(s.helper) \ {22}
AtParam(s) == InBody(s) /\ "elem" \in s.have

\* The pieces of the signature that s has found.
SigOf(s, m) ==
  LET n == Len(Params[m]) IN
  IF s.helper = "resolveFieldByReflection" THEN s.sig = IF s.at <= 16 THEN 0 ELSE 1
  ELSE /\ s.at <= 22 => s.sig = s.i /\ s.i <= n
       /\ AtParam(s) => s.i \in 1..n /\ s.sig = IF s.at = 28 THEN s.i ELSE s.i - 1
       /\ (InBody(s) /\ ~AtParam(s)) \/ s.at \in 29..33 => s.sig = n
       /\ s.at = 34 => s.sig = IF Sort[m] = "ctor" THEN n ELSE n + 1
       /\ s.at \in 35..37 => s.sig = n + 1

\* No call of s has failed: what it has is what its statements have given.
Gathers(s, m) ==
  /\ s.at \in 4..CacheAt(s.helper)
  /\ s.have \subseteq Found(m)
  /\ \A j \in 2..s.at - 1 :
       Runs(s.prog, Found(m), j) /\ (j \in LoopAt(s.helper) => AtParam(s))
         => s.prog[j].gives \in s.have
  /\ InBody(s) /\ ~AtParam(s) => LoopLocals \cap s.have = {}
  /\ SigOf(s, m)

\* The program of a reflection.
Reflection(helper) ==
  IF helper = "resolveMethodByReflection" THEN resolveMethodByReflection
                                          ELSE resolveFieldByReflection

\* A reflection of m that sees the exception e: nothing has been looked for, or all
\* has been found, or a call threw and that is pending, or it is over.
Begins(s) == s.have \subseteq {"frame", "info"} /\ (s.at <= 3 => s.sig = 0 /\ s.i = 0)

Reflects(s, m, e) ==
  /\ s.prog = Reflection(s.helper)
  /\ Sort[m] \in Fields <=> s.helper = "resolveFieldByReflection"
  /\ \/ Begins(s) \/ Gathers(s, m)
     \/ e = "trace" /\ s.at > 1
     \/ s.at > CacheAt(s.helper)

\* The other programs write no signature to the cache that they found, and run the
\* reflection that fits m.
Asks(p, m) ==
  \A k \in 1..Len(p) :
    /\ p[k].fn # "cache"
    /\ p[k].fn \in Reflectors =>
         (Sort[m] \in Fields <=> p[k].fn = "resolveFieldByReflection")

Knows(s, m, e) ==
  IF s.helper \in Reflectors THEN Reflects(s, m, e) ELSE Asks(s.prog, m)

CInv ==
  /\ call.m \in Members
  /\ Knows(scopes[1], call.m, exc)
  /\ \A k \in 2..Len(scopes) : Knows(scopes[k], call.m, scopes[k - 1].before[1])

-----------------------------------------------------------------------------
(* The statements of the reflections.                                       *)

\* In a framed program: where it is, what a statement needs.
LEMMA FramedNeeds ==
  ASSUME NEW s \in Scopes, Framed(s.prog), s.at \in 3..Len(s.prog) - 1
  PROVE  /\ s.prog[s.at].fn # "PopLocalFrame" => s.at \in 3..Len(s.prog) - 2
         /\ s.prog[s.at].fn # "PopLocalFrame" => ~(s.prog[s.at].needs \subseteq {"info"})
         /\ s.prog[s.at].fn # "PopLocalFrame" /\ s.at > 3 =>
              ~(s.prog[s.at].needs \subseteq {"info", "frame"})
         /\ s.prog[s.at].fn = "ToReflected" => s.at = 3
         /\ s.prog[s.at].fn = "PopLocalFrame" => s.at = Len(s.prog) - 1
<1>1. Len(s.prog) \in Nat /\ s.at \in Nat
  BY ScopeTyped
<1>2. s.prog[s.at].fn = "PopLocalFrame" <=> s.at = Len(s.prog) - 1
  BY <1>1, FramedPlaces
<1>3. s.at # Len(s.prog) - 1 => s.at \in 3..Len(s.prog) - 2
  BY <1>1
<1> QED
  BY <1>2, <1>3, SMTT(30) DEF Framed

Row(p, k, fn, needs, unless, gives) ==
  /\ p[k].fn = fn /\ p[k].gives = gives
  /\ p[k].needs = needs /\ p[k].unless = unless

LEMMA MethodRows ==
  LET p == resolveMethodByReflection IN
  /\ Row(p, 1, "guard", {}, {}, "void")
  /\ Row(p, 2, "PushLocalFrame", {}, {}, "frame")
  /\ Row(p, 3, "ToReflected", {"frame"}, {}, "reflected")
  /\ Row(p, 4, "FindClass", {"reflected"}, {}, "clsMethod")
  /\ Row(p, 5, "FindClass", {"reflected"}, {}, "clsCtor")
  /\ Row(p, 6, "IsMethod", {"clsMethod"}, {}, "isMethod")
  /\ Row(p, 7, "GetMethodID", {"isMethod"}, {}, "mid_getName")
  /\ Row(p, 8, "CallObjectMethod", {"mid_getName"}, {}, "name_ref")
  /\ Row(p, 9, "GetStringUTFChars", {"name_ref"}, {}, "name")
  /\ Row(p, 10, "ReleaseStringUTFChars", {"name"}, {}, "void")
  /\ Row(p, 11, "GetMethodID", {"isMethod"}, {}, "mid_getParams")
  /\ Row(p, 12, "GetMethodID", {"isMethod"}, {}, "mid_getReturn")
  /\ Row(p, 13, "IsCtor", {"clsCtor"}, {"isMethod"}, "isCtor")
  /\ Row(p, 14, "set", {"isCtor"}, {}, "name")
  /\ Row(p, 15, "GetMethodID", {"isCtor"}, {}, "mid_getParams")
  /\ Row(p, 16, "set", {"isMethod"}, {}, "known")
  /\ Row(p, 17, "set", {"isCtor"}, {}, "known")
  /\ Row(p, 18, "FindClass", {"known"}, {}, "clsClass")
  /\ Row(p, 19, "GetMethodID", {"clsClass"}, {}, "mid_clsGetName")
  /\ Row(p, 20, "CallObjectMethod", {"mid_getParams", "mid_clsGetName"}, {}, "params")
  /\ Row(p, 21, "GetArrayLength", {"params"}, {}, "count")
  /\ Row(p, 22, "for", {"count"}, {}, "elem")
  /\ Row(p, 23, "GetObjectArrayElement", {"elem"}, {}, "paramCls")
  /\ Row(p, 24, "CallObjectMethod", {"paramCls", "mid_clsGetName"}, {}, "pName")
  /\ Row(p, 25, "GetStringUTFChars", {"pName"}, {}, "pUtf")
  /\ Row(p, 26, "ReleaseStringUTFChars", {"pUtf"}, {}, "void")
  /\ Row(p, 27, "piece", {"pUtf"}, {}, "sig")
  /\ Row(p, 28, "next", {"elem"}, {}, "void")
  /\ Row(p, 29, "CallObjectMethod", {"mid_getReturn", "mid_clsGetName"}, {}, "retCls")
  /\ Row(p, 30, "CallObjectMethod", {"retCls", "mid_clsGetName"}, {}, "rName")
  /\ Row(p, 31, "GetStringUTFChars", {"rName"}, {}, "rUtf")
  /\ Row(p, 32, "ReleaseStringUTFChars", {"rUtf"}, {}, "void")
  /\ Row(p, 33, "piece", {"rUtf"}, {}, "sig")
  /\ Row(p, 34, "piece", {"isCtor"}, {}, "sig")
  /\ Row(p, 35, "set", {"known"}, {}, "info")
  /\ Row(p, 36, "getJClassName", {"known"}, {}, "text")
  /\ Row(p, 37, "cache", {"name"}, {}, "void")
  /\ Row(p, 38, "PopLocalFrame", {"frame"}, {}, "void")
  /\ Row(p, 39, "unguard", {}, {}, "void")
<1> DEFINE p == resolveMethodByReflection
<1>1. /\ Row(p, 1, "guard", {}, {}, "void")
      /\ Row(p, 2, "PushLocalFrame", {}, {}, "frame")
      /\ Row(p, 3, "ToReflected", {"frame"}, {}, "reflected")
      /\ Row(p, 4, "FindClass", {"reflected"}, {}, "clsMethod")
      /\ Row(p, 5, "FindClass", {"reflected"}, {}, "clsCtor")
      /\ Row(p, 6, "IsMethod", {"clsMethod"}, {}, "isMethod")
      /\ Row(p, 7, "GetMethodID", {"isMethod"}, {}, "mid_getName")
      /\ Row(p, 8, "CallObjectMethod", {"mid_getName"}, {}, "name_ref")
      /\ Row(p, 9, "GetStringUTFChars", {"name_ref"}, {}, "name")
      /\ Row(p, 10, "ReleaseStringUTFChars", {"name"}, {}, "void")
  BY SMTT(30) DEF Row, Do, Run, Stmt, Enter, Leave, resolveMethodByReflection, InFrame,
     MethodName, Signature, ParamLoop, ClassPiece
<1>2. /\ Row(p, 11, "GetMethodID", {"isMethod"}, {}, "mid_getParams")
      /\ Row(p, 12, "GetMethodID", {"isMethod"}, {}, "mid_getReturn")
      /\ Row(p, 13, "IsCtor", {"clsCtor"}, {"isMethod"}, "isCtor")
      /\ Row(p, 14, "set", {"isCtor"}, {}, "name")
      /\ Row(p, 15, "GetMethodID", {"isCtor"}, {}, "mid_getParams")
      /\ Row(p, 16, "set", {"isMethod"}, {}, "known")
      /\ Row(p, 17, "set", {"isCtor"}, {}, "known")
      /\ Row(p, 18, "FindClass", {"known"}, {}, "clsClass")
      /\ Row(p, 19, "GetMethodID", {"clsClass"}, {}, "mid_clsGetName")
      /\ Row(p, 20, "CallObjectMethod", {"mid_getParams", "mid_clsGetName"}, {}, "params")
  BY SMTT(30) DEF Row, Do, Run, Stmt, Enter, Leave, resolveMethodByReflection, InFrame,
     MethodName, Signature, ParamLoop, ClassPiece
<1>3. /\ Row(p, 21, "GetArrayLength", {"params"}, {}, "count")
      /\ Row(p, 22, "for", {"count"}, {}, "elem")
      /\ Row(p, 23, "GetObjectArrayElement", {"elem"}, {}, "paramCls")
      /\ Row(p, 24, "CallObjectMethod", {"paramCls", "mid_clsGetName"}, {}, "pName")
      /\ Row(p, 25, "GetStringUTFChars", {"pName"}, {}, "pUtf")
      /\ Row(p, 26, "ReleaseStringUTFChars", {"pUtf"}, {}, "void")
      /\ Row(p, 27, "piece", {"pUtf"}, {}, "sig")
      /\ Row(p, 28, "next", {"elem"}, {}, "void")
      /\ Row(p, 29, "CallObjectMethod", {"mid_getReturn", "mid_clsGetName"}, {}, "retCls")
      /\ Row(p, 30, "CallObjectMethod", {"retCls", "mid_clsGetName"}, {}, "rName")
  BY SMTT(30) DEF Row, Do, Run, Stmt, Enter, Leave, resolveMethodByReflection, InFrame,
     MethodName, Signature, ParamLoop, ClassPiece
<1>4. /\ Row(p, 31, "GetStringUTFChars", {"rName"}, {}, "rUtf")
      /\ Row(p, 32, "ReleaseStringUTFChars", {"rUtf"}, {}, "void")
      /\ Row(p, 33, "piece", {"rUtf"}, {}, "sig")
      /\ Row(p, 34, "piece", {"isCtor"}, {}, "sig")
      /\ Row(p, 35, "set", {"known"}, {}, "info")
      /\ Row(p, 36, "getJClassName", {"known"}, {}, "text")
      /\ Row(p, 37, "cache", {"name"}, {}, "void")
      /\ Row(p, 38, "PopLocalFrame", {"frame"}, {}, "void")
      /\ Row(p, 39, "unguard", {}, {}, "void")
  BY SMTT(30) DEF Row, Do, Run, Stmt, Enter, Leave, resolveMethodByReflection, InFrame,
     MethodName, Signature, ParamLoop, ClassPiece
<1> QED
  BY <1>1, <1>2, <1>3, <1>4

LEMMA FieldRows ==
  LET p == resolveFieldByReflection IN
  /\ Row(p, 1, "guard", {}, {}, "void")
  /\ Row(p, 2, "PushLocalFrame", {}, {}, "frame")
  /\ Row(p, 3, "ToReflected", {"frame"}, {}, "reflected")
  /\ Row(p, 4, "FindClass", {"reflected"}, {}, "clsField")
  /\ Row(p, 5, "GetMethodID", {"clsField"}, {}, "mid_getName")
  /\ Row(p, 6, "CallObjectMethod", {"mid_getName"}, {}, "name_ref")
  /\ Row(p, 7, "GetStringUTFChars", {"name_ref"}, {}, "name")
  /\ Row(p, 8, "ReleaseStringUTFChars", {"name"}, {}, "void")
  /\ Row(p, 9, "GetMethodID", {"clsField"}, {}, "mid_getType")
  /\ Row(p, 10, "CallObjectMethod", {"mid_getType"}, {}, "typeCls")
  /\ Row(p, 11, "FindClass", {"typeCls"}, {}, "clsClass")
  /\ Row(p, 12, "GetMethodID", {"clsClass"}, {}, "mid_clsGetName")
  /\ Row(p, 13, "CallObjectMethod", {"typeCls", "mid_clsGetName"}, {}, "tName")
  /\ Row(p, 14, "GetStringUTFChars", {"tName"}, {}, "tUtf")
  /\ Row(p, 15, "ReleaseStringUTFChars", {"tUtf"}, {}, "void")
  /\ Row(p, 16, "piece", {"tUtf"}, {}, "sig")
  /\ Row(p, 17, "getJClassName", {"clsField"}, {}, "text")
  /\ Row(p, 18, "cache", {"name"}, {}, "void")
  /\ Row(p, 19, "PopLocalFrame", {"frame"}, {}, "void")
  /\ Row(p, 20, "unguard", {}, {}, "void")
<1> DEFINE p == resolveFieldByReflection
<1>1. /\ Row(p, 1, "guard", {}, {}, "void")
      /\ Row(p, 2, "PushLocalFrame", {}, {}, "frame")
      /\ Row(p, 3, "ToReflected", {"frame"}, {}, "reflected")
      /\ Row(p, 4, "FindClass", {"reflected"}, {}, "clsField")
      /\ Row(p, 5, "GetMethodID", {"clsField"}, {}, "mid_getName")
      /\ Row(p, 6, "CallObjectMethod", {"mid_getName"}, {}, "name_ref")
      /\ Row(p, 7, "GetStringUTFChars", {"name_ref"}, {}, "name")
      /\ Row(p, 8, "ReleaseStringUTFChars", {"name"}, {}, "void")
      /\ Row(p, 9, "GetMethodID", {"clsField"}, {}, "mid_getType")
      /\ Row(p, 10, "CallObjectMethod", {"mid_getType"}, {}, "typeCls")
  BY SMTT(30) DEF Row, Do, Run, Stmt, Enter, Leave, resolveFieldByReflection, InFrame,
     FieldNameType, ClassPiece
<1>2. /\ Row(p, 11, "FindClass", {"typeCls"}, {}, "clsClass")
      /\ Row(p, 12, "GetMethodID", {"clsClass"}, {}, "mid_clsGetName")
      /\ Row(p, 13, "CallObjectMethod", {"typeCls", "mid_clsGetName"}, {}, "tName")
      /\ Row(p, 14, "GetStringUTFChars", {"tName"}, {}, "tUtf")
      /\ Row(p, 15, "ReleaseStringUTFChars", {"tUtf"}, {}, "void")
      /\ Row(p, 16, "piece", {"tUtf"}, {}, "sig")
      /\ Row(p, 17, "getJClassName", {"clsField"}, {}, "text")
      /\ Row(p, 18, "cache", {"name"}, {}, "void")
      /\ Row(p, 19, "PopLocalFrame", {"frame"}, {}, "void")
      /\ Row(p, 20, "unguard", {}, {}, "void")
  BY SMTT(30) DEF Row, Do, Run, Stmt, Enter, Leave, resolveFieldByReflection, InFrame,
     FieldNameType, ClassPiece
<1> QED
  BY <1>1, <1>2

LEMMA ReflectorLengths ==
  /\ resolveMethodByReflection \in Seq(Stmts) /\ Len(resolveMethodByReflection) = 39
  /\ resolveFieldByReflection \in Seq(Stmts) /\ Len(resolveFieldByReflection) = 20
<1>1. /\ Len(resolveMethodByReflection) = 39 /\ Len(resolveFieldByReflection) = 20
  BY DEF resolveMethodByReflection, resolveFieldByReflection, InFrame, MethodName, Signature,
         ParamLoop, ClassPiece, FieldNameType
<1> QED
  BY <1>1, MethodFramed, FieldFramed DEF Framed, Bracketed

\* What the statements between frame and cache do with handles.
Makes == RefFns \cup {"GetMethodID", "GetStringUTFChars", "GetArrayLength", "set"}
NoHandle == {"ReleaseStringUTFChars", "getJClassName", "next", "piece"}

\* Statement k of p finds r, if G is found; what the loop L finds serves there only.
Supplied(p, G, L, k, r) ==
  \E j \in 2..k - 1 : Runs(p, G, j) /\ p[j].gives = r /\ (j \in L => k \in L \ {22})

\* Statement k of p finds what it needs of G, and finds something of G.
Finds(p, G, L, k) ==
  /\ p[k].fn \in Makes \cup NoHandle \cup {"IsMethod", "IsCtor", "for"}
  /\ p[k].fn # "ReleaseStringUTFChars" =>
       \A r \in (p[k].needs \cup p[k].unless) \cap G : Supplied(p, G, L, k, r)
  /\ p[k].fn \in NoHandle => p[k].gives \notin G
  /\ p[k].fn \in Makes /\ p[k].needs \subseteq G => p[k].gives \in G
  /\ p[k].gives = "elem" <=> p[k].fn = "for"

LEMMA MethodFinds ==
  ASSUME NEW m, NEW k \in 4..36
  PROVE  Finds(resolveMethodByReflection, Found(m), 22..28, k)
<1> DEFINE p == resolveMethodByReflection
           G == Found(m)
           R(j) == Runs(p, G, j)
           S(i, r) == Supplied(p, G, 22..28, i, r)
<1>1. /\ {"clsClass", "clsCtor", "clsMethod", "count", "elem", "frame", "info", "known",
          "mid_clsGetName", "mid_getParams", "name", "pName", "pUtf", "paramCls", "params",
          "reflected"}
         \subseteq G
      /\ {"void", "text", "sig"} \cap G = {}
  BY DEF Found, Handles
<1>2. Sort[m] = "ctor" =>
        /\ "isCtor" \in G
        /\ \A h \in {"isMethod", "mid_getName", "name_ref", "mid_getReturn", "retCls", "rName",
                    "rUtf"} :
             h \notin G
  BY DEF Found, Handles
<1>3. Sort[m] # "ctor" =>
        /\ "isCtor" \notin G
        /\ \A h \in {"isMethod", "mid_getName", "name_ref", "mid_getReturn", "retCls", "rName",
                    "rUtf"} :
             h \in G
  BY DEF Found, Handles
<1> HIDE DEF G
<1>4. /\ R(2) /\ R(3) /\ R(4) /\ R(5) /\ R(18) /\ R(19) /\ R(20) /\ R(21)
      /\ R(22) /\ R(23) /\ R(24) /\ R(25) /\ R(35)
      /\ Sort[m] = "ctor" => R(13) /\ R(14) /\ R(15) /\ R(17)
      /\ Sort[m] # "ctor" =>
           /\ R(6) /\ R(7) /\ R(8) /\ R(9) /\ R(11) /\ R(12) /\ R(16) /\ R(29)
           /\ R(30) /\ R(31)
  BY <1>1, <1>2, <1>3, MethodRows DEF Runs, Row
<1> HIDE DEF R
<1>5. /\ k > 3 => S(k, "reflected")
      /\ k > 4 => S(k, "clsMethod")
      /\ k > 5 => S(k, "clsCtor")
      /\ k > 14 => S(k, "name")
      /\ k > 15 => S(k, "mid_getParams")
      /\ k > 17 => S(k, "known")
      /\ k > 18 => S(k, "clsClass")
      /\ k > 19 => S(k, "mid_clsGetName")
      /\ k > 20 => S(k, "params")
      /\ k > 21 => S(k, "count")
      /\ k \in 23..28 => S(k, "elem")
      /\ k \in 24..28 => S(k, "paramCls")
      /\ k \in 25..28 => S(k, "pName")
      /\ k \in 26..28 => S(k, "pUtf")
      /\ Sort[m] = "ctor" => (k > 13 => S(k, "isCtor"))
      /\ Sort[m] # "ctor" =>
           /\ k > 6 => S(k, "isMethod")
           /\ k > 7 => S(k, "mid_getName")
           /\ k > 8 => S(k, "name_ref")
           /\ k > 12 => S(k, "mid_getReturn")
           /\ k > 29 => S(k, "retCls")
           /\ k > 30 => S(k, "rName")
           /\ k > 31 => S(k, "rUtf")
  BY <1>4, MethodRows DEF Supplied, Row, R
<1> HIDE DEF S
<1>6. p[k].fn \in Makes \cup NoHandle \cup {"IsMethod", "IsCtor", "for"}
  BY MethodRows DEF Row, Makes, NoHandle, RefFns
<1>7. ASSUME NEW r \in (p[k].needs \cup p[k].unless) \cap G,
             p[k].fn # "ReleaseStringUTFChars"
      PROVE  S(k, r)
  <2>1. CASE k \in 4..8
    BY <1>1, <1>2, <1>3, <1>5, <1>7, <2>1, MethodRows DEF Row
  <2>2. CASE k \in 9..14
    BY <1>1, <1>2, <1>3, <1>5, <1>7, <2>2, MethodRows DEF Row
  <2>3. CASE k \in 15..20
    BY <1>1, <1>2, <1>3, <1>5, <1>7, <2>3, MethodRows DEF Row
  <2>4. CASE k \in 21..24
    BY <1>1, <1>2, <1>3, <1>5, <1>7, <2>4, MethodRows DEF Row
  <2>5. CASE k \in 25..28
    BY <1>1, <1>2, <1>3, <1>5, <1>7, <2>5, MethodRows DEF Row
  <2>6. CASE k \in 29..31
    BY <1>1, <1>2, <1>3, <1>5, <1>7, <2>6, MethodRows DEF Row
  <2>7. CASE k \in 32..34
    BY <1>1, <1>2, <1>3, <1>5, <1>7, <2>7, MethodRows DEF Row
  <2>8. CASE k \in 35..36
    BY <1>1, <1>2, <1>3, <1>5, <1>7, <2>8, MethodRows DEF Row
  <2> QED
    BY <2>1, <2>2, <2>3, <2>4, <2>5, <2>6, <2>7, <2>8
<1>8. /\ p[k].fn \in NoHandle => p[k].gives \notin G
      /\ p[k].fn \in Makes /\ p[k].needs \subseteq G => p[k].gives \in G
      /\ p[k].gives = "elem" <=> p[k].fn = "for"
  <2>1. CASE k \in 4..8
    BY <1>1, <1>2, <1>3, <2>1, MethodRows DEF Row, Makes, NoHandle, RefFns
  <2>2. CASE k \in 9..14
    BY <1>1, <1>2, <1>3, <2>2, MethodRows DEF Row, Makes, NoHandle, RefFns
  <2>3. CASE k \in 15..20
    BY <1>1, <1>2, <1>3, <2>3, MethodRows DEF Row, Makes, NoHandle, RefFns
  <2>4. CASE k \in 21..24
    BY <1>1, <1>2, <1>3, <2>4, MethodRows DEF Row, Makes, NoHandle, RefFns
  <2>5. CASE k \in 25..28
    BY <1>1, <1>2, <1>3, <2>5, MethodRows DEF Row, Makes, NoHandle, RefFns
  <2>6. CASE k \in 29..31
    BY <1>1, <1>2, <1>3, <2>6, MethodRows DEF Row, Makes, NoHandle, RefFns
  <2>7. CASE k \in 32..34
    BY <1>1, <1>2, <1>3, <2>7, MethodRows DEF Row, Makes, NoHandle, RefFns
  <2>8. CASE k \in 35..36
    BY <1>1, <1>2, <1>3, <2>8, MethodRows DEF Row, Makes, NoHandle, RefFns
  <2> QED
    BY <2>1, <2>2, <2>3, <2>4, <2>5, <2>6, <2>7, <2>8
<1> HIDE DEF p, G
<1>9. Finds(p, G, 22..28, k)
  BY <1>6, <1>7, <1>8 DEF Finds, S
<1> QED
  BY <1>9 DEF p, G

LEMMA FieldFinds ==
  ASSUME NEW m, NEW k \in 4..17, Sort[m] # "ctor"
  PROVE  Finds(resolveFieldByReflection, Found(m), {}, k)
<1> DEFINE p == resolveFieldByReflection
           G == Found(m)
           R(j) == Runs(p, G, j)
           S(i, r) == Supplied(p, G, {}, i, r)
<1>1. /\ {"clsClass", "clsField", "frame", "mid_clsGetName", "mid_getType", "name", "reflected",
          "tName", "tUtf", "typeCls"}
         \subseteq G
      /\ {"void", "text", "sig"} \cap G = {}
  BY DEF Found, Handles
<1>3. Sort[m] # "ctor" =>
        /\ "isCtor" \notin G
        /\ \A h \in {"mid_getName", "name_ref"} :
             h \in G
  BY DEF Found, Handles
<1> HIDE DEF G
<1>4. /\ R(2) /\ R(3) /\ R(4) /\ R(5) /\ R(6) /\ R(7) /\ R(9) /\ R(10)
      /\ R(11) /\ R(12) /\ R(13) /\ R(14)
  BY <1>1, <1>3, FieldRows DEF Runs, Row
<1> HIDE DEF R
<1>5. /\ k > 3 => S(k, "reflected")
      /\ k > 4 => S(k, "clsField")
      /\ k > 5 => S(k, "mid_getName")
      /\ k > 6 => S(k, "name_ref")
      /\ k > 7 => S(k, "name")
      /\ k > 9 => S(k, "mid_getType")
      /\ k > 10 => S(k, "typeCls")
      /\ k > 11 => S(k, "clsClass")
      /\ k > 12 => S(k, "mid_clsGetName")
      /\ k > 13 => S(k, "tName")
      /\ k > 14 => S(k, "tUtf")
  BY <1>4, FieldRows DEF Supplied, Row, R
<1> HIDE DEF S
<1>6. p[k].fn \in Makes \cup NoHandle \cup {"IsMethod", "IsCtor", "for"}
  BY FieldRows DEF Row, Makes, NoHandle, RefFns
<1>7. ASSUME NEW r \in (p[k].needs \cup p[k].unless) \cap G,
             p[k].fn # "ReleaseStringUTFChars"
      PROVE  S(k, r)
  <2>1. CASE k \in 4..10
    BY <1>1, <1>3, <1>5, <1>7, <2>1, FieldRows DEF Row
  <2>2. CASE k \in 11..17
    BY <1>1, <1>3, <1>5, <1>7, <2>2, FieldRows DEF Row
  <2> QED
    BY <2>1, <2>2
<1>8. /\ p[k].fn \in NoHandle => p[k].gives \notin G
      /\ p[k].fn \in Makes /\ p[k].needs \subseteq G => p[k].gives \in G
      /\ p[k].gives = "elem" <=> p[k].fn = "for"
  <2>1. CASE k \in 4..10
    BY <1>1, <1>3, <2>1, FieldRows DEF Row, Makes, NoHandle, RefFns
  <2>2. CASE k \in 11..17
    BY <1>1, <1>3, <2>2, FieldRows DEF Row, Makes, NoHandle, RefFns
  <2> QED
    BY <2>1, <2>2
<1> HIDE DEF p, G
<1>9. Finds(p, G, {}, k)
  BY <1>6, <1>7, <1>8 DEF Finds, S
<1> QED
  BY <1>9 DEF p, G

\* Where the other statements of the two programs are.
Others == {"PushLocalFrame", "PopLocalFrame", "guard", "unguard", "cache"}

LEMMA MethodPlaces ==
  ASSUME NEW k \in 1..39
  PROVE  LET p == resolveMethodByReflection IN
         /\ p[k].fn \in Makes \cup NoHandle \cup Others \cup {"IsMethod", "IsCtor", "for"}
         /\ p[k].fn = "for" <=> k = 22
         /\ p[k].fn = "next" <=> k = 28
         /\ p[k].fn = "piece" <=> k \in {27, 33, 34}
         /\ p[k].fn = "cache" <=> k = 37
         /\ p[k].fn \in Others => k \in {1, 2, 37, 38, 39}
         /\ p[k].fn = "IsMethod" => p[k].gives = "isMethod"
         /\ p[k].fn = "IsCtor" => p[k].gives = "isCtor"
         /\ k \in 23..28 => \E h \in LoopLocals : h \in p[k].needs
         /\ k \in 2..21 => p[k].gives \notin LoopLocals
<1> DEFINE p == resolveMethodByReflection
<1>1. p[k].fn \in Makes \cup NoHandle \cup Others \cup {"IsMethod", "IsCtor", "for"}
  BY MethodRows DEF Row, Makes, NoHandle, RefFns, Others
<1>2. /\ p[k].fn = "for" <=> k = 22
      /\ p[k].fn = "next" <=> k = 28
      /\ p[k].fn = "piece" <=> k \in {27, 33, 34}
      /\ p[k].fn = "cache" <=> k = 37
      /\ p[k].fn \in Others => k \in {1, 2, 37, 38, 39}
  BY MethodRows DEF Row, Others
<1>3. /\ p[k].fn = "IsMethod" => p[k].gives = "isMethod"
      /\ p[k].fn = "IsCtor" => p[k].gives = "isCtor"
  BY MethodRows DEF Row
<1>4. k \in 23..28 => \E h \in LoopLocals : h \in p[k].needs
  <2>1. CASE k \in 23..25
    BY <2>1, MethodRows DEF Row, LoopLocals
  <2>2. CASE k \in 26..28
    BY <2>2, MethodRows DEF Row, LoopLocals
  <2> QED
    BY <2>1, <2>2
<1>5. k \in 2..21 => p[k].gives \notin LoopLocals
  <2>1. CASE k \in 2..8
    BY <2>1, MethodRows DEF Row, LoopLocals
  <2>2. CASE k \in 9..14
    BY <2>2, MethodRows DEF Row, LoopLocals
  <2>3. CASE k \in 15..21
    BY <2>3, MethodRows DEF Row, LoopLocals
  <2> QED
    BY <2>1, <2>2, <2>3
<1> QED
  BY <1>1, <1>2, <1>3, <1>4, <1>5

LEMMA FieldPlaces ==
  ASSUME NEW k \in 1..20
  PROVE  LET p == resolveFieldByReflection IN
         /\ p[k].fn \in Makes \cup NoHandle \cup Others
         /\ p[k].fn # "next"
         /\ p[k].fn = "piece" <=> k = 16
         /\ p[k].fn = "cache" <=> k = 18
         /\ p[k].fn \in Others => k \in {1, 2, 18, 19, 20}
  BY FieldRows DEF Row, Makes, NoHandle, RefFns, Others

\* The reflection of m runs s.
ReflectsWith(s, m) ==
  /\ s \in Scopes /\ s.helper \in Reflectors
  /\ s.prog = Reflection(s.helper)
  /\ Sort[m] \in Fields <=> s.helper = "resolveFieldByReflection"

LEMMA ReflectorPlaces ==
  ASSUME NEW m, NEW s, ReflectsWith(s, m), s.at \in 1..Len(s.prog)
  PROVE  LET p == s.prog
             k == s.at IN
         /\ Framed(p) /\ Len(p) = CacheAt(s.helper) + 2
         /\ p[k].fn \in Makes \cup NoHandle \cup Others \cup {"IsMethod", "IsCtor", "for"}
         /\ p[k].fn = "for" <=> s.helper = "resolveMethodByReflection" /\ k = 22
         /\ p[k].fn = "next" <=> s.helper = "resolveMethodByReflection" /\ k = 28
         /\ p[k].fn = "cache" <=> k = CacheAt(s.helper)
         /\ p[k].fn = "IsMethod" => p[k].gives = "isMethod" /\ Sort[m] \notin Fields
         /\ p[k].fn = "IsCtor" => p[k].gives = "isCtor"
         /\ p[k].fn \in Others => k < 3 \/ k >= CacheAt(s.helper)
         /\ k \in LoopAt(s.helper) \ {22} => \E h \in LoopLocals : h \in p[k].needs
         /\ k \in 4..CacheAt(s.helper) - 1 => Finds(p, Found(m), LoopAt(s.helper), k)
<1>1. CASE s.helper = "resolveMethodByReflection"
  <2>1. s.prog = resolveMethodByReflection /\ Sort[m] \notin Fields
    BY <1>1 DEF ReflectsWith, Reflection
  <2>2. LoopAt(s.helper) = 22..28 /\ CacheAt(s.helper) = 37
    BY <1>1 DEF LoopAt, CacheAt
  <2>3. s.at \in 1..39 /\ Len(s.prog) = 39
    BY <2>1, ReflectorLengths
  <2>4. s.at \in 4..36 => Finds(s.prog, Found(m), 22..28, s.at)
    BY <2>1, MethodFinds
  <2>5. /\ Framed(s.prog) /\ Len(s.prog) = CacheAt(s.helper) + 2
        /\ s.at \in 4..CacheAt(s.helper) - 1 =>
             Finds(s.prog, Found(m), LoopAt(s.helper), s.at)
    BY <2>1, <2>2, <2>3, <2>4, MethodFramed
  <2>6. /\ s.prog[s.at].fn \in Makes \cup NoHandle \cup Others \cup {"IsMethod", "IsCtor", "for"}
        /\ s.prog[s.at].fn = "for" <=> s.at = 22
        /\ s.prog[s.at].fn = "next" <=> s.at = 28
        /\ s.prog[s.at].fn = "cache" <=> s.at = 37
        /\ s.prog[s.at].fn \in Others => s.at \in {1, 2, 37, 38, 39}
        /\ s.prog[s.at].fn = "IsMethod" => s.prog[s.at].gives = "isMethod"
        /\ s.prog[s.at].fn = "IsCtor" => s.prog[s.at].gives = "isCtor"
        /\ s.at \in 23..28 => \E h \in LoopLocals : h \in s.prog[s.at].needs
    BY <2>1, <2>3, MethodPlaces
  <2> QED
    BY <1>1, <2>1, <2>2, <2>3, <2>5, <2>6
<1>2. CASE s.helper = "resolveFieldByReflection"
  <2>1. s.prog = resolveFieldByReflection /\ Sort[m] \in Fields /\ Sort[m] # "ctor"
    BY <1>2 DEF ReflectsWith, Reflection, Fields
  <2>2. LoopAt(s.helper) = {} /\ CacheAt(s.helper) = 18
    BY <1>2 DEF LoopAt, CacheAt
  <2>3. s.at \in 1..20 /\ Len(s.prog) = 20
    BY <2>1, ReflectorLengths
  <2>4. s.at \in 4..17 => Finds(s.prog, Found(m), {}, s.at)
    BY <2>1, FieldFinds
  <2>5. s.prog[s.at].fn \in Makes \cup NoHandle \cup Others
    BY <2>1, <2>3, FieldPlaces
  <2>6. s.prog[s.at].fn \notin {"for", "IsMethod", "IsCtor"}
    BY <2>5 DEF Makes, NoHandle, Others, RefFns
  <2>7. /\ Framed(s.prog) /\ Len(s.prog) = CacheAt(s.helper) + 2
        /\ s.at \in 4..CacheAt(s.helper) - 1 =>
             Finds(s.prog, Found(m), LoopAt(s.helper), s.at)
    BY <2>1, <2>2, <2>3, <2>4, FieldFramed
  <2> QED
    BY <1>2, <2>1, <2>2, <2>3, <2>5, <2>6, <2>7, FieldPlaces
<1> QED
  BY <1>1, <1>2 DEF ReflectsWith, Reflectors

\* A statement that applies gives its handle, as m is of the sort it asks for.
Tells(fn, m) ==
  \/ fn \in Makes
  \/ fn = "IsMethod" /\ Sort[m] \in {"method", "static"}
  \/ fn = "IsCtor" /\ Sort[m] = "ctor"

\* From s to r, by a statement that is not of the loop and does not fail.
Moves(s, r, m) ==
  LET st == s.prog[s.at] IN
  /\ Kin(s, r) /\ r.at = s.at + 1 /\ r.i = s.i
  /\ AppliesIn(s) => st.fn \notin {"for", "next"}
  /\ r.have = IF AppliesIn(s) /\ Tells(st.fn, m) THEN s.have \cup {st.gives} ELSE s.have
  /\ r.sig = IF AppliesIn(s) /\ st.fn = "piece" THEN s.sig + 1 ELSE s.sig

LEMMA LoopPlaces ==
  ASSUME NEW s \in Scopes, NEW r \in Scopes, Kin(s, r), r.at = s.at + 1
  PROVE  /\ InBody(s) <=> s.helper = "resolveMethodByReflection" /\ s.at \in 23..28
         /\ InBody(r) <=> s.helper = "resolveMethodByReflection" /\ s.at \in 22..27
         /\ s.helper = "resolveMethodByReflection" => CacheAt(s.helper) = 37
         /\ s.helper # "resolveMethodByReflection" => CacheAt(s.helper) = 18
         /\ \A j : j \in LoopAt(s.helper) <=>
                     s.helper = "resolveMethodByReflection" /\ j \in 22..28
  BY ScopeTyped, SMTT(30) DEF InBody, LoopAt, CacheAt, Kin

LEMMA ReflectorLong ==
  ASSUME NEW m, NEW s, ReflectsWith(s, m)
  PROVE  Len(s.prog) = CacheAt(s.helper) + 2 /\ CacheAt(s.helper) \in {18, 37}
<1>1. CASE s.helper = "resolveMethodByReflection"
  BY <1>1, ReflectorLengths DEF ReflectsWith, Reflection, CacheAt
<1>2. CASE s.helper = "resolveFieldByReflection"
  BY <1>2, ReflectorLengths DEF ReflectsWith, Reflection, CacheAt
<1> QED
  BY <1>1, <1>2 DEF ReflectsWith, Reflectors

\* A statement applies when all it needs can be found.
LEMMA Opened ==
  ASSUME NEW m, NEW s, ReflectsWith(s, m), Gathers(s, m), s.at < CacheAt(s.helper),
         s.prog[s.at].fn # "ReleaseStringUTFChars", InBody(s) => AtParam(s)
  PROVE  AppliesIn(s) <=> /\ s.prog[s.at].needs \subseteq Found(m)
                          /\ s.prog[s.at].unless \cap Found(m) = {}
<1> DEFINE p == s.prog
           k == s.at
           G == Found(m)
<1>1. s \in Scopes /\ k \in Nat /\ k >= 4 /\ CacheAt(s.helper) \in {18, 37}
  BY ScopeTyped DEF Gathers, ReflectsWith, CacheAt
<1>2. k \in 1..Len(p) /\ k \in 4..CacheAt(s.helper) - 1
  BY <1>1, ReflectorLong
<1>3. Finds(p, G, LoopAt(s.helper), k)
  BY <1>2, ReflectorPlaces
<1>4. ASSUME NEW h \in (p[k].needs \cup p[k].unless) \cap G
      PROVE  h \in s.have
  <2>1. Supplied(p, G, LoopAt(s.helper), k, h)
    BY <1>3, <1>4 DEF Finds
  <2>2. PICK j \in 2..k - 1 : /\ Runs(p, G, j) /\ p[j].gives = h
                              /\ j \in LoopAt(s.helper) => k \in LoopAt(s.helper) \ {22}
    BY <2>1 DEF Supplied
  <2>3. j \in LoopAt(s.helper) => AtParam(s)
    BY <2>2 DEF InBody
  <2> QED
    BY <2>2, <2>3 DEF Gathers
<1>5. s.have \subseteq G
  BY DEF Gathers
<1> HIDE DEF p, k, G
<1>6. AppliesIn(s) <=> p[k].needs \subseteq s.have /\ p[k].unless \cap s.have = {}
  BY DEF AppliesIn, p, k
<1>7. AppliesIn(s) <=> p[k].needs \subseteq G /\ p[k].unless \cap G = {}
  BY <1>4, <1>5, <1>6
<1> QED
  BY <1>7 DEF p, k, G

LEMMA GathersAt ==
  ASSUME NEW m, NEW s, ReflectsWith(s, m), Gathers(s, m), s.at < CacheAt(s.helper)
  PROVE  /\ s \in Scopes /\ s.at \in Nat /\ s.at \in 1..Len(s.prog)
         /\ s.at \in 4..CacheAt(s.helper) - 1
         /\ Finds(s.prog, Found(m), LoopAt(s.helper), s.at)
         /\ s.prog[s.at].fn \in Makes \cup NoHandle \cup {"IsMethod", "IsCtor", "for"}
<1>1. s \in Scopes /\ s.at \in Nat /\ s.at >= 4 /\ CacheAt(s.helper) \in {18, 37}
  <2>1. s \in Scopes /\ CacheAt(s.helper) \in {18, 37}
    BY ReflectorLong DEF ReflectsWith
  <2>2. s.at \in 4..CacheAt(s.helper)
    BY DEF Gathers
  <2> QED
    BY <2>1, <2>2, ScopeTyped
<1>2. s.at \in 1..Len(s.prog) /\ s.at \in 4..CacheAt(s.helper) - 1
  BY <1>1, ReflectorLong
<1>3. Finds(s.prog, Found(m), LoopAt(s.helper), s.at)
  BY <1>2, ReflectorPlaces
<1> QED
  BY <1>1, <1>2, <1>3 DEF Finds

\* What a statement gives, and when.
LEMMA Given ==
  ASSUME NEW m \in Members, NEW s, ReflectsWith(s, m), Gathers(s, m),
         s.at < CacheAt(s.helper)
  PROVE  LET st == s.prog[s.at] IN
         /\ AppliesIn(s) /\ Tells(st.fn, m) => st.gives \in Found(m)
         /\ Runs(s.prog, Found(m), s.at) => Tells(st.fn, m) \/ st.fn = "for"
<1> DEFINE st == s.prog[s.at]
           G == Found(m)
<1>1. /\ s.at \in 1..Len(s.prog)
      /\ Finds(s.prog, G, LoopAt(s.helper), s.at)
      /\ st.fn \in Makes \cup NoHandle \cup {"IsMethod", "IsCtor", "for"}
  BY GathersAt
<1>2. /\ st.fn = "IsMethod" => st.gives = "isMethod" /\ Sort[m] \notin Fields
      /\ st.fn = "IsCtor" => st.gives = "isCtor"
  BY <1>1, ReflectorPlaces
<1>3. /\ "isMethod" \in G <=> Sort[m] # "ctor"
      /\ "isCtor" \in G <=> Sort[m] = "ctor"
  BY DEF Found, Handles
<1>4. Sort[m] \in {"method", "static"} <=> Sort[m] # "ctor" /\ Sort[m] \notin Fields
  BY JniGuardAssumption DEF Sorts, Fields
<1>5. /\ st.fn \in NoHandle => st.gives \notin G
      /\ st.fn \in Makes /\ st.needs \subseteq G => st.gives \in G
  BY <1>1 DEF Finds
<1>6. AppliesIn(s) => st.needs \subseteq G
  BY DEF AppliesIn, Gathers
<1> HIDE DEF st, G
<1>7. AppliesIn(s) /\ Tells(st.fn, m) => st.gives \in G
  BY <1>2, <1>3, <1>4, <1>5, <1>6 DEF Tells
<1>8. Runs(s.prog, G, s.at) => Tells(st.fn, m) \/ st.fn = "for"
  <2>1. Runs(s.prog, G, s.at) => st.gives \in G
    BY DEF Runs, st
  <2> QED
    BY <1>1, <1>2, <1>3, <1>4, <1>5, <2>1 DEF Tells
<1> QED
  BY <1>7, <1>8 DEF st, G

\* The loop's statements are not passed over when it is at a parameter, and all of
\* its body is, after the last one.
LEMMA BodyApplies ==
  ASSUME NEW m, NEW s, ReflectsWith(s, m), Gathers(s, m), s.at < CacheAt(s.helper)
  PROVE  /\ InBody(s) /\ ~AtParam(s) => ~AppliesIn(s)
         /\ s.prog[s.at].fn = "for" => AppliesIn(s)
<1>1. s.at \in 1..Len(s.prog)
  BY GathersAt
<1>2. InBody(s) /\ ~AtParam(s) => ~AppliesIn(s)
  <2>1. InBody(s) => \E h \in LoopLocals : h \in s.prog[s.at].needs
    BY <1>1, ReflectorPlaces DEF InBody
  <2> QED
    BY <2>1 DEF Gathers, AppliesIn
<1>3. s.prog[s.at].fn = "for" => AppliesIn(s)
  <2> SUFFICES ASSUME s.prog[s.at].fn = "for"
               PROVE  AppliesIn(s)
    OBVIOUS
  <2>1. s.helper = "resolveMethodByReflection" /\ s.at = 22
    BY <1>1, ReflectorPlaces
  <2>2. s.prog = resolveMethodByReflection
    BY <2>1 DEF ReflectsWith, Reflection
  <2>3. s.prog[s.at].needs = {"count"} /\ s.prog[s.at].unless = {}
    BY <2>1, <2>2, MethodRows DEF Row
  <2>4. "count" \in Found(m)
    BY DEF Found, Handles
  <2>5. ~InBody(s)
    BY <2>1 DEF InBody
  <2> QED
    BY <2>3, <2>4, <2>5, Opened
<1> QED
  BY <1>2, <1>3

LEMMA MovesGathers ==
  ASSUME NEW m \in Members, NEW s, ReflectsWith(s, m), Gathers(s, m),
         s.at < CacheAt(s.helper), NEW r \in Scopes, Moves(s, r, m), SigOf(r, m)
  PROVE  Gathers(r, m)
<1> DEFINE st == s.prog[s.at]
           k == s.at
           G == Found(m)
<1>1. /\ s \in Scopes /\ k \in Nat /\ k \in 4..CacheAt(s.helper) - 1
      /\ CacheAt(s.helper) \in {18, 37}
      /\ Finds(s.prog, G, LoopAt(s.helper), k)
  BY GathersAt, ReflectorLong
<1>2. /\ r.prog = s.prog /\ r.helper = s.helper /\ r.at = k + 1 /\ Kin(s, r)
      /\ s.have \subseteq r.have
      /\ r.have \subseteq s.have \cup {st.gives}
      /\ AppliesIn(s) /\ Tells(st.fn, m) => st.gives \in r.have
      /\ ~(AppliesIn(s) /\ Tells(st.fn, m)) => r.have = s.have
      /\ AppliesIn(s) => st.fn # "for"
  BY DEF Moves, Kin
<1>3. /\ AppliesIn(s) /\ Tells(st.fn, m) => st.gives \in G
      /\ Runs(s.prog, G, k) => Tells(st.fn, m) \/ st.fn = "for"
  BY Given
<1>4. /\ InBody(s) /\ ~AtParam(s) => ~AppliesIn(s)
      /\ st.fn # "for"
  BY <1>2, BodyApplies
<1>5. s.have \subseteq G /\ r.have \subseteq G
  BY <1>2, <1>3 DEF Gathers
<1>6. st.gives # "elem"
  BY <1>1, <1>4 DEF Finds
<1>7. "elem" \in r.have <=> "elem" \in s.have
  BY <1>2, <1>6
<1>8. /\ InBody(r) => InBody(s)
      /\ InBody(r) /\ ~AtParam(s) => ~AtParam(r)
      /\ AtParam(r) => AtParam(s)
  <2>1. s.helper = "resolveMethodByReflection" => s.at # 22
    BY <1>1, <1>4, GathersAt, ReflectorPlaces
  <2> QED
    BY <1>1, <1>2, <1>7, <2>1, LoopPlaces DEF AtParam
<1>9. Runs(s.prog, G, k) /\ (k \in LoopAt(s.helper) => AtParam(r)) => st.gives \in r.have
  <2> SUFFICES ASSUME Runs(s.prog, G, k), k \in LoopAt(s.helper) => AtParam(r)
               PROVE  st.gives \in r.have
    OBVIOUS
  <2>1. Tells(st.fn, m) /\ st.fn # "ReleaseStringUTFChars"
    BY <1>3, <1>4 DEF Tells, Makes, RefFns
  <2>2. InBody(s) => AtParam(s)
    BY <1>8 DEF InBody
  <2>3. AppliesIn(s)
    BY <2>1, <2>2, Opened DEF Runs
  <2> QED
    BY <1>2, <2>1, <2>3
<1>10. ASSUME NEW j \in 2..r.at - 1, Runs(r.prog, G, j), j \in LoopAt(r.helper) => AtParam(r)
       PROVE  r.prog[j].gives \in r.have
  <2>1. CASE j = k
    BY <1>2, <1>9, <1>10, <2>1
  <2>2. CASE j # k
    <3>1. j \in 2..s.at - 1
      BY <1>1, <1>2, <2>2
    <3>2. s.prog[j].gives \in s.have
      BY <1>2, <1>8, <1>10, <3>1 DEF Gathers
    <3> QED
      BY <1>2, <3>2
  <2> QED
    BY <2>1, <2>2
<1>11. InBody(r) /\ ~AtParam(r) => LoopLocals \cap r.have = {}
  <2> SUFFICES ASSUME InBody(r), ~AtParam(r)
               PROVE  LoopLocals \cap r.have = {}
    OBVIOUS
  <2>1. InBody(s) /\ ~AtParam(s)
    BY <1>7, <1>8 DEF AtParam
  <2> QED
    BY <1>2, <1>4, <2>1 DEF Gathers
<1>12. r.at \in 4..CacheAt(r.helper)
  BY <1>1, <1>2
<1> QED
  BY <1>5, <1>10, <1>11, <1>12 DEF Gathers

\* The pieces of the signature.
LEMMA MovesSig ==
  ASSUME NEW m \in Members, NEW s, ReflectsWith(s, m), Gathers(s, m),
         s.at < CacheAt(s.helper), NEW r \in Scopes, Moves(s, r, m)
  PROVE  SigOf(r, m)
<1> DEFINE st == s.prog[s.at]
           k == s.at
           G == Found(m)
           n == Len(Params[m])
<1>1. /\ s \in Scopes /\ k \in Nat /\ k \in 4..CacheAt(s.helper) - 1 /\ s.sig \in Nat
      /\ r.at = k + 1 /\ r.helper = s.helper /\ r.i = s.i /\ s.i \in Nat
      /\ r.sig = IF AppliesIn(s) /\ st.fn = "piece" THEN s.sig + 1 ELSE s.sig
  BY GathersAt DEF Moves, Kin, Scopes
<1>2. n \in Nat
  BY JniGuardAssumption, LenProperties
<1>3. SigOf(s, m)
  BY DEF Gathers
<1>4. CASE s.helper = "resolveFieldByReflection"
  <2>1. s.prog = resolveFieldByReflection /\ CacheAt(s.helper) = 18 /\ ~InBody(s)
    BY <1>4 DEF ReflectsWith, Reflection, CacheAt, InBody, LoopAt
  <2>2. st.fn = "piece" <=> k = 16
    BY <1>1, <2>1, FieldPlaces
  <2>3. k = 16 => AppliesIn(s)
    <3>1. k = 16 => st.needs = {"tUtf"} /\ st.unless = {}
      BY <2>1, FieldRows DEF Row
    <3>2. "tUtf" \in Found(m)
      BY DEF Found, Handles
    <3>3. k = 16 => st.fn # "ReleaseStringUTFChars"
      BY <2>2
    <3> QED
      BY <2>1, <3>1, <3>2, <3>3, Opened
  <2> HIDE DEF st
  <2> QED
    BY <1>1, <1>3, <1>4, <2>1, <2>2, <2>3 DEF SigOf
<1>5. CASE s.helper = "resolveMethodByReflection"
  <2>1. s.prog = resolveMethodByReflection /\ CacheAt(s.helper) = 37
    BY <1>5 DEF ReflectsWith, Reflection, CacheAt
  <2>2. /\ st.fn = "piece" <=> k \in {27, 33, 34}
        /\ k # 22
    <3>1. k \in 1..39
      BY <1>1, <2>1
    <3>2. /\ st.fn = "piece" <=> k \in {27, 33, 34}
          /\ st.fn = "for" <=> k = 22
      BY <2>1, <3>1, MethodPlaces
    <3> QED
      BY <3>2, BodyApplies DEF Moves
  <2>3. /\ InBody(s) <=> k \in 23..28
        /\ InBody(r) <=> k \in 22..27
        /\ AtParam(r) <=> k \in 22..27 /\ AtParam(s)
    <3>1. /\ InBody(s) <=> k \in 23..28
          /\ InBody(r) <=> k \in 22..27
      BY <1>1, <1>5, LoopPlaces DEF Moves
    <3>2. "elem" \in r.have <=> "elem" \in s.have
      <4>1. st.gives # "elem"
        <5>1. Finds(s.prog, G, LoopAt(s.helper), k)
          BY GathersAt
        <5>2. st.fn # "for"
          BY BodyApplies DEF Moves
        <5> QED
          BY <5>1, <5>2 DEF Finds
      <4> QED
        BY <4>1 DEF Moves
    <3> QED
      BY <2>2, <3>1, <3>2 DEF AtParam
  <2>4. /\ k = 27 => (AppliesIn(s) <=> AtParam(s))
        /\ k = 33 => (AppliesIn(s) <=> Sort[m] # "ctor")
        /\ k = 34 => (AppliesIn(s) <=> Sort[m] = "ctor")
    <3>1. /\ k = 27 => st.needs = {"pUtf"} /\ st.unless = {}
          /\ k = 33 => st.needs = {"rUtf"} /\ st.unless = {}
          /\ k = 34 => st.needs = {"isCtor"} /\ st.unless = {}
      BY <2>1, MethodRows DEF Row
    <3>2. /\ "pUtf" \in G
          /\ "rUtf" \in G <=> Sort[m] # "ctor"
          /\ "isCtor" \in G <=> Sort[m] = "ctor"
      BY DEF Found, Handles
    <3>3. k \in {27, 33, 34} => st.fn # "ReleaseStringUTFChars"
      BY <2>2
    <3>4. k \in {27, 33, 34} /\ (InBody(s) => AtParam(s))
          => (AppliesIn(s) <=> st.needs \subseteq G /\ st.unless \cap G = {})
      BY <3>3, Opened
    <3>5. k = 27 /\ ~AtParam(s) => ~AppliesIn(s)
      BY <2>3, BodyApplies
    <3> HIDE DEF st, G
    <3> QED
      BY <2>3, <3>1, <3>2, <3>4, <3>5
  <2>5. /\ k <= 22 => s.sig = s.i /\ s.i <= n
        /\ AtParam(s) => s.i \in 1..n /\ s.sig = IF k = 28 THEN s.i ELSE s.i - 1
        /\ (InBody(s) /\ ~AtParam(s)) \/ k \in 29..33 => s.sig = n
        /\ k = 34 => s.sig = IF Sort[m] = "ctor" THEN n ELSE n + 1
        /\ k \in 35..37 => s.sig = n + 1
    BY <1>3, <1>5 DEF SigOf
  <2>6. r.sig = IF AppliesIn(s) /\ k \in {27, 33, 34} THEN s.sig + 1 ELSE s.sig
    BY <1>1, <2>2
  <2>7. k = 28 => ~AtParam(s)
    <3>1. k = 28 => st.fn = "next" /\ st.needs = {"elem"} /\ st.unless = {}
      BY <2>1, MethodRows DEF Row
    <3> QED
      BY <3>1 DEF Moves, AtParam, AppliesIn
  <2>8. /\ r.at <= 22 => r.sig = r.i /\ r.i <= n
        /\ AtParam(r) => r.i \in 1..n /\ r.sig = IF r.at = 28 THEN r.i ELSE r.i - 1
        /\ (InBody(r) /\ ~AtParam(r)) \/ r.at \in 29..33 => r.sig = n
        /\ r.at = 34 => r.sig = IF Sort[m] = "ctor" THEN n ELSE n + 1
        /\ r.at \in 35..37 => r.sig = n + 1
    <3> HIDE DEF st, n
    <3>1. r.at <= 22 => r.sig = r.i /\ r.i <= n
      BY <1>1, <2>5, <2>6
    <3>2. AtParam(r) => r.i \in 1..n /\ r.sig = IF r.at = 28 THEN r.i ELSE r.i - 1
      BY <1>1, <1>2, <2>2, <2>3, <2>4, <2>5, <2>6
    <3>3. (InBody(r) /\ ~AtParam(r)) \/ r.at \in 29..33 => r.sig = n
      BY <1>1, <1>2, <2>2, <2>3, <2>4, <2>5, <2>6, <2>7
    <3>4. r.at = 34 => r.sig = IF Sort[m] = "ctor" THEN n ELSE n + 1
      BY <1>1, <1>2, <2>4, <2>5, <2>6
    <3>5. r.at \in 35..37 => r.sig = n + 1
      BY <1>1, <1>2, <2>4, <2>5, <2>6
    <3> QED
      BY <3>1, <3>2, <3>3, <3>4, <3>5
  <2> QED
    BY <1>1, <1>5, <2>8 DEF SigOf
<1> QED
  BY <1>4, <1>5 DEF ReflectsWith, Reflectors

\* The head of the loop goes to the next parameter, or past the last one.
LEMMA ForGathers ==
  ASSUME NEW m \in Members, NEW s, ReflectsWith(s, m), Gathers(s, m),
         s.prog[s.at].fn = "for", s.at < CacheAt(s.helper),
         NEW r \in Scopes, Kin(s, r), r.at = s.at + 1, r.sig = s.sig,
         \/ /\ s.i < Len(Params[m]) /\ r.i = s.i + 1
            /\ r.have = (s.have \ LoopLocals) \cup {s.prog[s.at].gives}
         \/ /\ ~(s.i < Len(Params[m])) /\ r.i = s.i
            /\ r.have = s.have \ LoopLocals
  PROVE  Gathers(r, m)
<1> DEFINE G == Found(m)
           n == Len(Params[m])
<1>1. s.helper = "resolveMethodByReflection" /\ s.at = 22 /\ s.at \in 1..Len(s.prog)
  BY GathersAt, ReflectorPlaces
<1>2. s.prog = resolveMethodByReflection /\ CacheAt(s.helper) = 37 /\ LoopAt(s.helper) = 22..28
  BY <1>1 DEF ReflectsWith, Reflection, CacheAt, LoopAt
<1>3. s.prog[22].gives = "elem" /\ "elem" \in G /\ "elem" \in LoopLocals
  BY <1>2, MethodRows DEF Row, Found, Handles, LoopLocals
<1>4. r.at = 23 /\ r.helper = s.helper /\ r.prog = s.prog /\ InBody(r) /\ ~InBody(s)
  BY <1>1, <1>2 DEF Kin, InBody
<1>5. s.sig = s.i /\ s.i <= n /\ s.i \in Nat /\ n \in Nat
  <2>1. s.i \in Nat /\ n \in Nat
    BY JniGuardAssumption, LenProperties DEF ReflectsWith, Scopes
  <2> QED
    BY <1>1, <2>1 DEF Gathers, SigOf
<1>6. r.have \subseteq G
  BY <1>1, <1>3 DEF Gathers
<1>7. ASSUME NEW j \in 2..r.at - 1, Runs(r.prog, G, j), j \in LoopAt(r.helper) => AtParam(r)
      PROVE  r.prog[j].gives \in r.have
  <2>1. CASE j = 22
    <3>1. AtParam(r)
      BY <1>2, <1>4, <1>7, <2>1
    <3> QED
      BY <1>1, <1>3, <1>4, <2>1, <3>1 DEF AtParam
  <2>2. CASE j # 22
    <3>1. j \in 2..s.at - 1 /\ j \in 2..21 /\ j \notin LoopAt(s.helper)
      BY <1>1, <1>2, <1>4, <2>2
    <3>2. s.prog[j].gives \in s.have
      BY <1>4, <1>7, <3>1 DEF Gathers
    <3>3. s.prog[j].gives \notin LoopLocals
      <4>1. j \in 1..39 /\ j \in 2..21
        BY <3>1
      <4>2. resolveMethodByReflection[j].gives \notin LoopLocals
        BY <4>1, MethodPlaces
      <4> QED
        BY <1>2, <4>2
    <3> QED
      BY <1>4, <3>2, <3>3
  <2> QED
    BY <2>1, <2>2
<1>8. InBody(r) /\ ~AtParam(r) => LoopLocals \cap r.have = {}
  BY <1>1, <1>3, <1>4 DEF AtParam
<1>9. SigOf(r, m)
  <2>1. AtParam(r) <=> s.i < n
    BY <1>1, <1>3, <1>4 DEF AtParam
  <2>2. AtParam(r) => r.i \in 1..n /\ r.sig = r.i - 1
    BY <1>5, <2>1
  <2>3. ~AtParam(r) => r.sig = n
    BY <1>5, <2>1
  <2> QED
    BY <1>1, <1>4, <2>2, <2>3 DEF SigOf
<1>10. r.at \in 4..CacheAt(r.helper)
  BY <1>2, <1>4
<1> QED
  BY <1>6, <1>7, <1>8, <1>9, <1>10 DEF Gathers

\* Back from the end of the loop's body, after a parameter.
LEMMA NextGathers ==
  ASSUME NEW m \in Members, NEW s, ReflectsWith(s, m), Gathers(s, m),
         s.prog[s.at].fn = "next", s.at < CacheAt(s.helper), AppliesIn(s),
         NEW r \in Scopes, Kin(s, r), r.at = 22, r.have = s.have, r.sig = s.sig, r.i = s.i
  PROVE  Gathers(r, m)
<1>1. s.helper = "resolveMethodByReflection" /\ s.at = 28 /\ s.at \in 1..Len(s.prog)
  BY GathersAt, ReflectorPlaces
<1>2. LoopAt(s.helper) = 22..28 /\ CacheAt(s.helper) = 37
  BY <1>1 DEF CacheAt, LoopAt
<1>3. AtParam(s)
  <2>1. InBody(s)
    BY <1>1, <1>2 DEF InBody
  <2> QED
    BY <2>1, BodyApplies
<1>4. r.helper = s.helper /\ r.prog = s.prog /\ ~InBody(r)
  BY DEF Kin, InBody
<1>5. ASSUME NEW j \in 2..r.at - 1, Runs(r.prog, Found(m), j)
      PROVE  r.prog[j].gives \in r.have
  <2>1. j \in 2..s.at - 1
    BY <1>1
  <2> QED
    BY <1>3, <1>4, <1>5, <2>1 DEF Gathers
<1>6. SigOf(r, m)
  <2>1. s.i \in 1..Len(Params[m]) /\ s.sig = s.i
    BY <1>1, <1>3 DEF Gathers, SigOf
  <2>2. ~AtParam(r) /\ Len(Params[m]) \in Nat
    BY <1>4, JniGuardAssumption, LenProperties DEF AtParam
  <2> QED
    BY <1>1, <1>4, <2>1, <2>2 DEF SigOf
<1>7. r.at \in 4..CacheAt(r.helper) /\ r.have \subseteq Found(m)
  BY <1>2, <1>4 DEF Gathers
<1> QED
  BY <1>4, <1>5, <1>6, <1>7 DEF Gathers

\* The member is there as an object.
LEMMA StartGathers ==
  ASSUME NEW m \in Members, NEW s, ReflectsWith(s, m), s.at = 3, AppliesIn(s),
         s.have \subseteq {"frame", "info"}, s.sig = 0, s.i = 0,
         NEW r \in Scopes, Kin(s, r), r.at = 4, r.sig = 0, r.i = 0,
         r.have = s.have \cup {s.prog[s.at].gives}
  PROVE  Gathers(r, m)
<1>1. r.helper = s.helper /\ r.prog = s.prog /\ s.helper \in Reflectors
  BY DEF Kin, ReflectsWith
<1>2. /\ s.prog[2].gives = "frame" /\ s.prog[3].gives = "reflected"
      /\ s.prog[3].needs = {"frame"}
  <2>1. CASE s.helper = "resolveMethodByReflection"
    BY <2>1, MethodRows DEF ReflectsWith, Reflection, Row
  <2>2. CASE s.helper = "resolveFieldByReflection"
    BY <2>2, FieldRows DEF ReflectsWith, Reflection, Row
  <2> QED
    BY <1>1, <2>1, <2>2 DEF Reflectors
<1>3. r.have \subseteq Found(m) /\ {"frame", "reflected"} \subseteq r.have
  BY <1>2 DEF Found, Handles, AppliesIn
<1>4. ASSUME NEW j \in 2..r.at - 1
      PROVE  r.prog[j].gives \in r.have
  <2>1. j = 2 \/ j = 3
    OBVIOUS
  <2> QED
    BY <1>1, <1>2, <1>3, <2>1
<1>5. ~InBody(r) /\ ~AtParam(r) /\ CacheAt(r.helper) \in {18, 37}
  BY DEF InBody, AtParam, LoopAt, CacheAt
<1>6. SigOf(r, m)
  <2>1. Len(Params[m]) \in Nat
    BY JniGuardAssumption, LenProperties
  <2> QED
    BY <1>5, <2>1 DEF SigOf
<1> QED
  BY <1>3, <1>4, <1>5, <1>6 DEF Gathers

LEMMA ReflectsIs ==
  ASSUME NEW m, NEW s \in Scopes, s.helper \in Reflectors, NEW e, Reflects(s, m, e)
  PROVE  ReflectsWith(s, m)
  BY DEF ReflectsWith, Reflects

\* A reflection goes on with its next statement.
LEMMA ReflectsOn ==
  ASSUME NEW m \in Members, NEW s \in Scopes, s.helper \in Reflectors,
         NEW e, NEW f, Reflects(s, m, e), Sees(s, e, f), s.at <= Len(s.prog),
         NEW t, t \in {e, "trace"} \/ s.prog[s.at].fn \in {"guard", "unguard"},
         NEW r \in Scopes, Kin(s, r), r.at = s.at + 1, r.i = s.i,
         r.sig = IF AppliesIn(s) /\ s.prog[s.at].fn = "piece" THEN s.sig + 1 ELSE s.sig,
         AppliesIn(s) => s.prog[s.at].fn \notin {"for", "next"},
         \/ r.have = IF AppliesIn(s) /\ (Tells(s.prog[s.at].fn, m)
                                         \/ s.prog[s.at].fn = "PushLocalFrame")
                     THEN s.have \cup {s.prog[s.at].gives}
                     ELSE s.have
         \/ t = "trace" /\ r.have = s.have
  PROVE  Reflects(r, m, t)
<1> DEFINE st == s.prog[s.at]
           k == s.at
<1>1. ReflectsWith(s, m)
  BY ReflectsIs
<1>2. /\ k \in Nat /\ k \in 1..Len(s.prog) /\ Len(s.prog) = CacheAt(s.helper) + 2
      /\ CacheAt(s.helper) \in {18, 37}
  BY <1>1, Located, ReflectorLong
<1>3. /\ r.helper = s.helper /\ r.prog = s.prog
      /\ r.prog = Reflection(r.helper)
      /\ Sort[m] \in Fields <=> r.helper = "resolveFieldByReflection"
  BY <1>1 DEF Kin, ReflectsWith
<1>4. Framed(s.prog)
  BY <1>1, <1>2, ReflectorPlaces
<1> SUFFICES ASSUME t # "trace"
             PROVE  Reflects(r, m, t)
  BY <1>2, <1>3 DEF Reflects
<1>5. Begins(s) \/ Gathers(s, m) \/ k > CacheAt(s.helper)
  <2>1. e = "trace" => st.fn \in {"guard", "unguard"}
    OBVIOUS
  <2>2. st.fn \in {"guard", "unguard"} => k = 1 \/ k = Len(s.prog)
    BY GuardPlace
  <2>3. e = "trace" => k = 1 \/ k > CacheAt(s.helper)
    BY <1>2, <2>1, <2>2
  <2> QED
    BY <1>2, <2>3 DEF Reflects
<1>6. k <= 3 => s.have \subseteq {"frame", "info"} /\ s.sig = 0 /\ s.i = 0
  BY <1>2, <1>5 DEF Gathers, Begins
<1>7. CASE k < 3
  <2>1. /\ k = 1 => st.fn = "guard"
        /\ k = 2 => st.fn = "PushLocalFrame" /\ st.gives = "frame"
    BY <1>2, <1>4 DEF Framed, Bracketed, Enter, Do, Stmt
  <2>2. k = 1 \/ k = 2
    BY <1>2, <1>7
  <2>3. ~Tells("guard", m)
    BY DEF Tells, Makes, RefFns
  <2> HIDE DEF st
  <2>4. r.have \subseteq {"frame", "info"}
    BY <1>6, <2>1, <2>2, <2>3 DEF st
  <2>5. r.sig = 0 /\ r.i = 0
    BY <1>6, <2>1, <2>2 DEF st
  <2> QED
    BY <1>3, <2>4, <2>5 DEF Reflects, Begins
<1>8. CASE k = 3
  <2>1. st.fn = "ToReflected" /\ Tells(st.fn, m)
    BY <1>4, <1>8 DEF Framed, Tells, Makes, RefFns
  <2>2. r.at = 4 /\ r.sig = 0 /\ r.i = 0
    BY <1>6, <1>8, <2>1
  <2>3. CASE AppliesIn(s) /\ r.have = s.have \cup {st.gives}
    <3>1. /\ s.at = 3 /\ s.have \subseteq {"frame", "info"} /\ s.sig = 0 /\ s.i = 0
          /\ AppliesIn(s) /\ r.have = s.have \cup {s.prog[s.at].gives}
      BY <1>6, <1>8, <2>3
    <3> HIDE DEF st, k
    <3>2. Gathers(r, m)
      BY <1>1, <2>2, <3>1, StartGathers
    <3> QED
      BY <1>3, <3>2 DEF Reflects
  <2>4. CASE ~AppliesIn(s) /\ r.have = s.have
    BY <1>3, <1>6, <1>8, <2>2, <2>4 DEF Reflects, Begins
  <2> QED
    BY <2>1, <2>3, <2>4
<1>9. CASE k > 3 /\ k < CacheAt(s.helper)
  <2>1. k \in 3..Len(s.prog) - 2 /\ k \in 3..Len(s.prog) - 1
    BY <1>2, <1>9
  <2>2. /\ st.fn # "PopLocalFrame" /\ st.fn # "ToReflected" /\ st.fn # "PushLocalFrame"
        /\ ~(st.needs \subseteq {"frame", "info"})
    <3>1. /\ st.fn # "PopLocalFrame" /\ st.fn # "PushLocalFrame"
      BY <1>4, <2>1 DEF Framed
    <3> QED
      BY <1>4, <1>9, <2>1, <3>1, FramedNeeds
  <2>3. CASE s.have \subseteq {"frame", "info"}
    <3>1. ~AppliesIn(s)
      BY <2>2, <2>3 DEF AppliesIn
    <3>2. r.have = s.have
      BY <3>1
    <3>3. ~(r.at <= 3) /\ r.have \subseteq {"frame", "info"}
      BY <1>2, <1>9, <2>3, <3>2
    <3> QED
      BY <1>3, <3>3 DEF Reflects, Begins
  <2>4. CASE Gathers(s, m)
    <3>1. Moves(s, r, m)
      BY <2>2 DEF Moves
    <3>2. Gathers(r, m)
      BY <1>1, <1>9, <2>4, <3>1, MovesSig, MovesGathers
    <3> QED
      BY <1>3, <3>2 DEF Reflects
  <2> QED
    BY <1>2, <1>5, <1>9, <2>3, <2>4 DEF Begins
<1>10. CASE k >= CacheAt(s.helper)
  BY <1>2, <1>3, <1>10 DEF Reflects
<1> QED
  BY <1>2, <1>7, <1>8, <1>9, <1>10

\* What s has after its next statement, if it is a reflection of m, as the exception
\* it sees turns from e to t.
Yields(s, m, have, e, t) ==
  LET st == s.prog[s.at] IN
  /\ t \in {e, "trace"} \/ st.fn \in {"guard", "unguard"}
  /\ AppliesIn(s) => st.fn \notin {"for", "next"}
  /\ \/ have = IF AppliesIn(s) /\ (Tells(st.fn, m) \/ st.fn = "PushLocalFrame")
               THEN s.have \cup {st.gives}
               ELSE s.have
     \/ t = "trace" /\ have = s.have

\* The innermost activation: what it knows, and at which statement it is.
LEMMA InnermostKnows ==
  ASSUME IInv, CInv
  PROVE  /\ Knows(Scope, call.m, exc) /\ call.m \in Members
         /\ Scope.helper \in Reflectors =>
              /\ Reflects(Scope, call.m, exc) /\ ReflectsWith(Scope, call.m)
              /\ ~Done =>
                   /\ Statement.fn \in Makes \cup NoHandle \cup Others
                                       \cup {"IsMethod", "IsCtor", "for"}
                   /\ Statement.fn = "cache" <=> Scope.at = CacheAt(Scope.helper)
<1> DEFINE s == Scope
<1>1. /\ s = scopes[1] /\ s \in Scopes /\ Len(scopes) \in Nat /\ Len(scopes) > 0
      /\ ~Done => s.at \in 1..Len(s.prog) /\ Statement = s.prog[s.at]
  BY Innermost
<1>2. Knows(s, call.m, exc) /\ call.m \in Members
  BY <1>1 DEF CInv
<1> HIDE DEF s
<1>3. s.helper \in Reflectors => Reflects(s, call.m, exc) /\ ReflectsWith(s, call.m)
  BY <1>1, <1>2, ReflectsIs DEF Knows
<1>4. s.helper \in Reflectors /\ ~Done =>
        /\ Statement.fn \in Makes \cup NoHandle \cup Others \cup {"IsMethod", "IsCtor", "for"}
        /\ Statement.fn = "cache" <=> s.at = CacheAt(s.helper)
  BY <1>1, <1>3, ReflectorPlaces
<1> QED
  BY <1>2, <1>3, <1>4 DEF s

\* It knows as much after its next statement.
LEMMA NextKnows ==
  ASSUME IInv, CInv, ~Done, NEW r \in Scopes, Kin(Scope, r), r.at = Scope.at + 1,
         Scope.helper \in Reflectors =>
           /\ r.i = Scope.i
           /\ r.sig = IF Applies(Statement) /\ Statement.fn = "piece" THEN Scope.sig + 1
                                                                      ELSE Scope.sig
           /\ Yields(Scope, call.m, r.have, exc, exc')
  PROVE  Knows(r, call.m, exc')
<1> DEFINE s == Scope
<1>1. /\ s \in Scopes /\ Sees(s, exc, frames) /\ s.at <= Len(s.prog)
      /\ Statement = s.prog[s.at]
  BY Innermost
<1>2. Knows(s, call.m, exc) /\ call.m \in Members
  BY InnermostKnows
<1>3. Applies(Statement) <=> AppliesIn(s)
  BY DEF Applies, AppliesIn, Statement
<1> HIDE DEF s
<1>4. CASE s.helper \in Reflectors
  <2>1. Reflects(s, call.m, exc)
    BY <1>2, <1>4 DEF Knows
  <2>2. Reflects(r, call.m, exc')
    BY <1>1, <1>2, <1>3, <1>4, <2>1, ReflectsOn DEF Yields, s
  <2> QED
    BY <1>4, <2>2 DEF Knows, Kin, s
<1>5. CASE s.helper \notin Reflectors
  BY <1>2, <1>5 DEF Knows, Kin, s
<1> QED
  BY <1>4, <1>5

LEMMA GoesOnKnows ==
  ASSUME IInv, CInv, NEW r \in Scopes, r.before = Scope.before,
         scopes' = [scopes EXCEPT ![1] = r], Knows(r, call.m, exc'), call' = call
  PROVE  CInv'
<1>1. /\ scopes \in Seq(Scopes) /\ Len(scopes) \in Nat /\ Len(scopes) > 0
      /\ Scope = scopes[1]
  BY Innermost
<1>2. /\ Len(scopes') = Len(scopes) /\ scopes'[1] = r
      /\ \A k \in 2..Len(scopes) : scopes'[k] = scopes[k]
  BY <1>1
<1>3. ASSUME NEW k \in 2..Len(scopes)
      PROVE  Knows(scopes'[k], call.m, scopes'[k - 1].before[1])
  <2>1. scopes'[k - 1].before = scopes[k - 1].before
    <3>1. CASE k = 2
      BY <1>1, <1>2, <3>1
    <3>2. CASE k # 2
      BY <1>1, <1>2, <3>2
    <3> QED
      BY <3>1, <3>2
  <2> QED
    BY <1>2, <2>1 DEF CInv
<1> QED
  BY <1>2, <1>3 DEF CInv

LEMMA ProceedsKnows ==
  ASSUME IInv, CInv, ~Done, NEW q \in Scopes, Proceed(q), Kin(Scope, q), q.at = Scope.at,
         q.before = Scope.before, call' = call,
         \A r \in Scopes : /\ Kin(Scope, r) /\ r.at = Scope.at + 1
                           /\ r.have = q.have /\ r.i = q.i /\ r.sig = q.sig
                           => Knows(r, call.m, exc')
  PROVE  CInv'
<1> DEFINE r == [q EXCEPT !.at = @ + 1]
<1>1. scopes' = [scopes EXCEPT ![1] = r]
  BY DEF Proceed
<1>2. /\ r \in Scopes /\ r.helper = q.helper /\ r.prog = q.prog /\ r.before = Scope.before
      /\ r.at = Scope.at + 1 /\ r.have = q.have /\ r.i = q.i /\ r.sig = q.sig
  BY SMTT(30) DEF Scopes
<1> HIDE DEF r
<1>3. Knows(r, call.m, exc')
  BY <1>2 DEF Kin
<1> QED
  BY <1>1, <1>2, <1>3, GoesOnKnows

LEMMA AdvancesKnows ==
  ASSUME IInv, CInv, ~Done, NEW have \in SUBSET Handles, Advance(have), call' = call,
         Scope.helper \in Reflectors =>
           /\ Yields(Scope, call.m, have, exc, exc')
           /\ Applies(Statement) => Statement.fn # "piece"
  PROVE  CInv'
<1> DEFINE q == [Scope EXCEPT !.have = have]
<1>1. Scope \in Scopes
  BY Innermost
<1>2. /\ q \in Scopes /\ q.helper = Scope.helper /\ q.prog = Scope.prog
      /\ q.before = Scope.before
      /\ q.at = Scope.at /\ q.have = have /\ q.i = Scope.i /\ q.sig = Scope.sig
  BY <1>1 DEF Scopes
<1>3. Proceed(q)
  BY DEF Advance
<1> HIDE DEF q
<1>4. ASSUME NEW r \in Scopes, Kin(Scope, r), r.at = Scope.at + 1,
             r.have = q.have, r.i = q.i, r.sig = q.sig
      PROVE  Knows(r, call.m, exc')
  BY <1>2, <1>4, NextKnows
<1> QED
  BY <1>2, <1>3, <1>4, ProceedsKnows DEF Kin

\* A statement that needs a handle applies in a reflection that found them all,
\* unless one of its calls threw.
LEMMA AppliesGathers ==
  ASSUME NEW m, NEW s \in Scopes, s.helper \in Reflectors, NEW e, Reflects(s, m, e), AppliesIn(s),
         s.at \in 4..CacheAt(s.helper)
  PROVE  Gathers(s, m) \/ e = "trace"
<1>1. ReflectsWith(s, m)
  BY ReflectsIs
<1>2. /\ Len(s.prog) = CacheAt(s.helper) + 2 /\ CacheAt(s.helper) \in {18, 37}
      /\ s.at \in 1..Len(s.prog) /\ s.at \in 3..Len(s.prog) - 2 /\ s.at > 3
  BY <1>1, ReflectorLong
<1>3. Framed(s.prog)
  BY <1>1, <1>2, ReflectorPlaces
<1>4. s.prog[s.at].fn # "PopLocalFrame" /\ s.at \in 3..Len(s.prog) - 1
  <2>1. s.at \in 3..Len(s.prog) - 1
    BY <1>2
  <2>2. s.prog[s.at].fn # "PopLocalFrame"
    BY <1>2, <1>3 DEF Framed
  <2> QED
    BY <2>1, <2>2
<1>5. ~(s.prog[s.at].needs \subseteq {"frame", "info"})
  BY <1>2, <1>3, <1>4, FramedNeeds
<1>6. ~(s.have \subseteq {"frame", "info"})
  BY <1>5 DEF AppliesIn
<1>7. ~(s.at > CacheAt(s.helper))
  BY <1>2
<1> QED
  BY <1>6, <1>7 DEF Reflects, Begins

\* Then the signature that it caches is complete.
LEMMA GathersAll ==
  ASSUME NEW m \in Members, NEW s, ReflectsWith(s, m), Gathers(s, m),
         s.at = CacheAt(s.helper)
  PROVE  s.sig = Pieces(m)
<1>1. CASE s.helper = "resolveFieldByReflection"
  BY <1>1 DEF Gathers, SigOf, ReflectsWith, CacheAt, Pieces
<1>2. CASE s.helper = "resolveMethodByReflection"
  <2>1. s.at = 37 /\ Sort[m] \notin Fields
    BY <1>2 DEF ReflectsWith, CacheAt
  <2> QED
    BY <1>2, <2>1 DEF Gathers, SigOf, Pieces
<1> QED
  BY <1>1, <1>2 DEF ReflectsWith, Reflectors

LEMMA SkipKnows ==
  ASSUME IInv, CInv, ~Done, Skip, call' = call
  PROVE  CInv'
<1>1. Scope.have \in SUBSET Handles
  BY Innermost, ScopeTyped
<1>2. Advance(Scope.have) /\ ~AppliesIn(Scope) /\ ~Applies(Statement) /\ exc' = exc
  BY DEF Skip, Applies, AppliesIn, Statement, jniVars
<1>3. Yields(Scope, call.m, Scope.have, exc, exc')
  BY <1>2 DEF Yields
<1> QED
  BY <1>1, <1>2, <1>3, AdvancesKnows

\* What a reflection has after a statement that applies.
LEMMA AppliesYields ==
  ASSUME NEW m, NEW s, AppliesIn(s), s.prog[s.at].fn \notin {"for", "next"},
         NEW e, NEW t, t \in {e, "trace"} \/ s.prog[s.at].fn \in {"guard", "unguard"}
  PROVE  /\ Tells(s.prog[s.at].fn, m) \/ s.prog[s.at].fn = "PushLocalFrame"
            => Yields(s, m, s.have \cup {s.prog[s.at].gives}, e, t)
         /\ ~(Tells(s.prog[s.at].fn, m) \/ s.prog[s.at].fn = "PushLocalFrame")
            => Yields(s, m, s.have, e, t)
         /\ t = "trace" => Yields(s, m, s.have, e, t)
  BY DEF Yields

LEMMA CallKnows ==
  ASSUME IInv, CInv, ~Done, Applies(Statement), Call(Statement), call' = call
  PROVE  CInv'
<1> DEFINE s == Scope
<1>1. /\ s \in Scopes /\ s.have \in SUBSET Handles
      /\ s.have \cup {Statement.gives} \in SUBSET Handles
      /\ Statement = s.prog[s.at] /\ AppliesIn(s)
  BY Innermost, ScopeTyped DEF Stmts, Applies, AppliesIn
<1>2. exc' \in {exc, "trace"}
  BY DEF Call
<1>3. Statement.fn \notin {"for", "next", "piece"}
  BY DEF Call, RefFns
<1>4. s.helper \in Reflectors => Tells(Statement.fn, call.m)
  <2>1. s.helper \in Reflectors => Statement.fn # "CallIntMethod"
    BY InnermostKnows DEF Makes, NoHandle, Others, RefFns
  <2> QED
    BY <2>1 DEF Call, Tells, Makes
<1>5. CASE Advance(s.have \cup {Statement.gives})
  <2>1. s.helper \in Reflectors =>
          Yields(s, call.m, s.have \cup {Statement.gives}, exc, exc')
    BY <1>1, <1>2, <1>3, <1>4, AppliesYields
  <2> QED
    BY <1>1, <1>3, <1>5, <2>1, AdvancesKnows
<1>6. CASE Advance(s.have) /\ exc' = "trace"
  <2>1. Yields(s, call.m, s.have, exc, exc')
    BY <1>1, <1>3, <1>6, AppliesYields
  <2> QED
    BY <1>1, <1>3, <1>6, <2>1, AdvancesKnows
<1> QED
  BY <1>5, <1>6 DEF Call, Assign

LEMMA TestKnows ==
  ASSUME IInv, CInv, ~Done, Applies(Statement), Test(Statement), call' = call
  PROVE  CInv'
<1> DEFINE s == Scope
<1>1. /\ s \in Scopes /\ s.have \in SUBSET Handles
      /\ s.have \cup {Statement.gives} \in SUBSET Handles
      /\ Statement = s.prog[s.at] /\ AppliesIn(s)
  BY Innermost, ScopeTyped DEF Stmts, Applies, AppliesIn
<1>2. exc' = exc
  BY DEF Test, jniVars
<1>3. Statement.fn \notin {"for", "next", "piece", "PushLocalFrame"}
  BY DEF Test
<1>4. s.helper \in Reflectors => Statement.fn \notin {"IsInstanceOf", "IsObject", "IsArray"}
  BY InnermostKnows DEF Makes, NoHandle, Others, RefFns
<1>5. ~(Statement.fn \in Makes)
  BY DEF Test, Makes, RefFns
<1>6. PICK have \in {s.have, s.have \cup {Statement.gives}} :
        /\ Advance(have)
        /\ s.helper \in Reflectors =>
             have = IF Tells(Statement.fn, call.m) THEN s.have \cup {Statement.gives}
                                                   ELSE s.have
  <2>1. CASE Statement.fn \in {"IsInstanceOf", "IsObject", "IsArray"}
    BY <1>4, <2>1 DEF Test, Says, Assign
  <2>2. CASE Statement.fn = "IsMethod"
    BY <1>5, <2>2 DEF Test, Says, Assign, Tells
  <2>3. CASE Statement.fn = "IsCtor"
    BY <1>5, <2>3 DEF Test, Says, Assign, Tells
  <2> QED
    BY <2>1, <2>2, <2>3 DEF Test
<1>7. s.helper \in Reflectors => Yields(s, call.m, have, exc, exc')
  BY <1>1, <1>2, <1>3, <1>6 DEF Yields
<1> QED
  BY <1>1, <1>3, <1>6, <1>7, AdvancesKnows

LEMMA ReleaseKnows ==
  ASSUME IInv, CInv, ~Done, Applies(Statement), Release(Statement), call' = call
  PROVE  CInv'
<1> DEFINE s == Scope
<1>1. /\ s \in Scopes /\ s.have \in SUBSET Handles /\ s.have \ {Statement.gives} \in SUBSET Handles
      /\ Statement = s.prog[s.at] /\ AppliesIn(s)
  BY Innermost, ScopeTyped DEF Applies, AppliesIn
<1>2. exc' = exc
  BY DEF Release
<1>3. Statement.fn \notin {"for", "next", "piece", "PushLocalFrame"}
  BY DEF Release
<1>4. s.helper \in Reflectors => Statement.fn # "DeleteLocalRef"
  BY InnermostKnows DEF Makes, NoHandle, Others, RefFns
<1>5. ~Tells("ReleaseStringUTFChars", call.m)
  BY DEF Tells, Makes, RefFns
<1>6. PICK have \in SUBSET Handles :
        Advance(have) /\ (s.helper \in Reflectors => have = s.have)
  BY <1>1, <1>4 DEF Release
<1>7. s.helper \in Reflectors => Yields(s, call.m, have, exc, exc')
  <2>1. s.helper \in Reflectors => Statement.fn = "ReleaseStringUTFChars"
    BY <1>4 DEF Release
  <2>2. exc' \in {exc, "trace"} /\ s.prog[s.at].fn \notin {"for", "next"}
    BY <1>1, <1>2, <1>3
  <2>3. s.helper \in Reflectors => ~Tells(s.prog[s.at].fn, call.m)
    BY <1>1, <1>5, <2>1
  <2>4. s.helper \in Reflectors => Yields(s, call.m, s.have, exc, exc')
    BY <1>1, <1>3, <2>2, <2>3, AppliesYields
  <2> QED
    BY <1>6, <2>4
<1> QED
  BY <1>1, <1>3, <1>6, <1>7, AdvancesKnows

LEMMA LocalFrameKnows ==
  ASSUME IInv, CInv, ~Done, Applies(Statement), LocalFrame(Statement), call' = call
  PROVE  CInv'
<1> DEFINE s == Scope
<1>1. /\ s \in Scopes /\ s.have \in SUBSET Handles
      /\ s.have \cup {Statement.gives} \in SUBSET Handles
      /\ Statement = s.prog[s.at] /\ AppliesIn(s)
  BY Innermost, ScopeTyped DEF Stmts, Applies, AppliesIn
<1>2. exc' \in {exc, "trace"}
  BY DEF LocalFrame
<1>3. Statement.fn \notin {"for", "next", "piece"}
  BY DEF LocalFrame
<1>4. ~Tells("PopLocalFrame", call.m)
  BY DEF Tells, Makes, RefFns
<1>5. CASE Statement.fn = "PushLocalFrame" /\ Advance(s.have \cup {Statement.gives})
  <2>1. Yields(s, call.m, s.have \cup {Statement.gives}, exc, exc')
    BY <1>1, <1>2, <1>5, AppliesYields
  <2> QED
    BY <1>1, <1>3, <1>5, <2>1, AdvancesKnows
<1>6. CASE exc' = "trace" /\ Advance(s.have)
  <2>1. Yields(s, call.m, s.have, exc, exc')
    BY <1>1, <1>3, <1>6, AppliesYields
  <2> QED
    BY <1>1, <1>3, <1>6, <2>1, AdvancesKnows
<1>7. CASE Statement.fn = "PopLocalFrame" /\ Advance(s.have)
  <2>1. Yields(s, call.m, s.have, exc, exc')
    BY <1>1, <1>2, <1>4, <1>7, AppliesYields
  <2> QED
    BY <1>1, <1>3, <1>7, <2>1, AdvancesKnows
<1> QED
  BY <1>5, <1>6, <1>7 DEF LocalFrame, Assign

LEMMA GuardKnows ==
  ASSUME IInv, CInv, ~Done, Applies(Statement), Guard(Statement), call' = call
  PROVE  CInv'
<1> DEFINE s == Scope
           q == [s EXCEPT !.saved = exc]
<1>1. /\ s \in Scopes /\ exc \in Excs /\ Statement = s.prog[s.at] /\ AppliesIn(s)
  BY Innermost DEF Applies, AppliesIn
<1>3. Proceed(q) /\ Statement.fn = "guard"
  BY DEF Guard
<1> HIDE DEF s
<1>4. /\ q \in Scopes /\ q.helper = s.helper /\ q.prog = s.prog /\ q.at = s.at
      /\ q.before = s.before
      /\ q.have = s.have /\ q.i = s.i /\ q.sig = s.sig
  BY <1>1 DEF Scopes
<1> HIDE DEF q
<1>5. Yields(s, call.m, s.have, exc, exc')
  <2>1. ~Tells("guard", call.m)
    BY DEF Tells, Makes, RefFns
  <2> QED
    BY <1>1, <1>3, <2>1, AppliesYields
<1>6. ASSUME NEW r \in Scopes, Kin(s, r), r.at = s.at + 1, r.have = q.have, r.i = q.i,
             r.sig = q.sig
      PROVE  Knows(r, call.m, exc')
  BY <1>3, <1>4, <1>5, <1>6, NextKnows DEF s
<1> QED
  BY <1>3, <1>4, <1>6, ProceedsKnows DEF Kin, s

LEMMA UnguardKnows ==
  ASSUME IInv, CInv, ~Done, Applies(Statement), Unguard(Statement), call' = call
  PROVE  CInv'
<1>1. /\ Scope.have \in SUBSET Handles /\ Statement = Scope.prog[Scope.at]
      /\ AppliesIn(Scope)
  BY Innermost, ScopeTyped DEF Applies, AppliesIn
<1>3. Advance(Scope.have) /\ Statement.fn = "unguard"
  BY DEF Unguard
<1>4. Yields(Scope, call.m, Scope.have, exc, exc')
  <2>1. ~Tells("unguard", call.m)
    BY DEF Tells, Makes, RefFns
  <2> QED
    BY <1>1, <1>3, <2>1, AppliesYields
<1> QED
  BY <1>1, <1>3, <1>4, AdvancesKnows

LEMMA LocalKnows ==
  ASSUME IInv, CInv, ~Done, Applies(Statement), Local(Statement), call' = call
  PROVE  CInv'
<1> DEFINE s == Scope
           fn == Statement.fn
           q == [s EXCEPT !.sig = @ + 1]
<1>1. /\ s \in Scopes /\ s.have \in SUBSET Handles
      /\ s.have \cup {Statement.gives} \in SUBSET Handles
      /\ Statement = s.prog[s.at] /\ AppliesIn(s)
  BY Innermost, ScopeTyped DEF Stmts, Applies, AppliesIn
<1>2. exc' = exc
  BY DEF Local, jniVars
<1>3. ~Tells("piece", call.m) /\ ~Tells("cache", call.m) /\ Tells("set", call.m)
  BY DEF Tells, Makes, RefFns
<1>4. CASE fn = "set" /\ Advance(s.have \cup {Statement.gives})
  <2>1. Yields(s, call.m, s.have \cup {Statement.gives}, exc, exc')
    BY <1>1, <1>2, <1>3, <1>4, AppliesYields
  <2> QED
    BY <1>1, <1>4, <2>1, AdvancesKnows
<1>5. CASE fn = "piece" /\ Proceed(q)
  <2>1. /\ q \in Scopes /\ q.helper = s.helper /\ q.prog = s.prog /\ q.at = s.at
        /\ q.before = s.before /\ q.have = s.have /\ q.i = s.i /\ q.sig = s.sig + 1
    <3> HIDE DEF s
    <3>1. s.sig + 1 \in Nat
      BY <1>1 DEF Scopes
    <3> QED
      BY <1>1, <3>1 DEF Scopes
  <2> HIDE DEF q
  <2>2. Yields(s, call.m, s.have, exc, exc')
    BY <1>1, <1>2, <1>3, <1>5, AppliesYields
  <2>3. ASSUME NEW r \in Scopes, Kin(s, r), r.at = s.at + 1, r.have = q.have, r.i = q.i,
               r.sig = q.sig
        PROVE  Knows(r, call.m, exc')
    BY <1>5, <2>1, <2>2, <2>3, NextKnows
  <2> QED
    BY <1>5, <2>1, <2>3, ProceedsKnows DEF Kin
<1>6. CASE fn = "cache" /\ Advance(s.have)
  <2>1. Yields(s, call.m, s.have, exc, exc')
    BY <1>1, <1>2, <1>3, <1>6, AppliesYields
  <2> QED
    BY <1>1, <1>6, <2>1, AdvancesKnows
<1>7. CASE fn = "cacheAll" /\ Advance(s.have \cup {Statement.gives})
  <2>1. s.helper \notin Reflectors
    BY <1>7, InnermostKnows DEF Makes, NoHandle, Others, RefFns
  <2> QED
    BY <1>1, <1>7, <2>1, AdvancesKnows
<1> QED
  BY <1>4, <1>5, <1>6, <1>7 DEF Local, Assign

\* The loop over the parameters.
LEMMA LoopGathers ==
  ASSUME IInv, CInv, ~Done, Applies(Statement), Scope.helper \in Reflectors,
         Statement.fn \in {"for", "next"}, exc # "trace"
  PROVE  /\ ReflectsWith(Scope, call.m) /\ Gathers(Scope, call.m) /\ call.m \in Members
         /\ Scope.at < CacheAt(Scope.helper) /\ AppliesIn(Scope)
         /\ Scope.prog = resolveMethodByReflection
<1> DEFINE s == Scope
<1>1. /\ s \in Scopes /\ s.at \in 1..Len(s.prog) /\ Statement = s.prog[s.at]
      /\ AppliesIn(s)
  BY Innermost DEF Applies, AppliesIn
<1>2. Reflects(s, call.m, exc) /\ ReflectsWith(s, call.m) /\ call.m \in Members
  BY InnermostKnows
<1> HIDE DEF s
<1>3. s.helper = "resolveMethodByReflection" /\ s.at \in {22, 28}
  BY <1>1, <1>2, ReflectorPlaces
<1>4. s.at \in 4..CacheAt(s.helper) /\ s.at < CacheAt(s.helper)
  BY <1>3 DEF CacheAt
<1>5. Gathers(s, call.m)
  BY <1>1, <1>2, <1>4, AppliesGathers DEF s
<1>6. s.prog = resolveMethodByReflection
  BY <1>2, <1>3 DEF ReflectsWith, Reflection
<1> QED
  BY <1>1, <1>2, <1>4, <1>5, <1>6 DEF s

LEMMA LoopKnows ==
  ASSUME IInv, CInv, ~Done, Applies(Statement), Loop(Statement), call' = call
  PROVE  CInv'
<1> DEFINE s == Scope
           fn == Statement.fn
           m == call.m
           q == [s EXCEPT !.i = @ + 1, !.have = (@ \ LoopLocals) \cup {Statement.gives}]
           b == [s EXCEPT !.at = LoopHead]
<1>1. /\ s \in Scopes /\ s.have \in SUBSET Handles /\ Statement.gives \in Handles
      /\ Statement = s.prog[s.at] /\ s.at \in 1..Len(s.prog)
  BY Innermost, ScopeTyped DEF Stmts
<1>2. exc' = exc
  BY DEF Loop, jniVars
<1>3. \/ fn = "for" /\ s.i < Len(Params[m]) /\ Proceed(q)
      \/ fn = "for" /\ ~(s.i < Len(Params[m])) /\ Proceed([s EXCEPT !.have = s.have \ LoopLocals])
      \/ fn = "next" /\ scopes' = [scopes EXCEPT ![1] = b]
  BY DEF Loop, For, Advance
<1>4. s.helper \in Reflectors /\ exc # "trace" =>
        /\ ReflectsWith(s, m) /\ Gathers(s, m) /\ m \in Members
        /\ s.at < CacheAt(s.helper) /\ AppliesIn(s)
        /\ s.prog = resolveMethodByReflection
  BY <1>3, LoopGathers
<1>5. Knows(s, m, exc) /\ s.at >= 1
  BY <1>1, InnermostKnows
<1> HIDE DEF s, m
<1>6. ASSUME NEW r \in Scopes, Kin(s, r), s.helper \in Reflectors, r.at > 1,
             exc # "trace" => Gathers(r, m)
      PROVE  Knows(r, m, exc')
  <2>1. Reflects(s, m, exc) /\ r.helper = s.helper /\ r.prog = s.prog
    BY <1>5, <1>6 DEF Knows, Kin
  <2>2. Reflects(r, m, exc)
    BY <1>6, <2>1 DEF Reflects
  <2> QED
    BY <1>2, <1>6, <2>1, <2>2 DEF Knows
<1>7. ASSUME NEW r \in Scopes, Kin(s, r), s.helper \notin Reflectors
      PROVE  Knows(r, m, exc')
  BY <1>5, <1>7 DEF Knows, Kin
<1>8. CASE fn = "for" /\ s.i < Len(Params[m]) /\ Proceed(q)
  <2>1. /\ q \in Scopes /\ Kin(s, q) /\ q.at = s.at /\ q.before = s.before
        /\ q.i = s.i + 1 /\ q.sig = s.sig
        /\ q.have = (s.have \ LoopLocals) \cup {Statement.gives}
    BY <1>1, Visited
  <2> HIDE DEF q
  <2>2. ASSUME NEW r \in Scopes, Kin(s, r), r.at = s.at + 1, r.have = q.have, r.i = q.i,
               r.sig = q.sig
        PROVE  Knows(r, m, exc')
    <3>1. /\ s.prog[s.at].fn = "for" /\ s.i < Len(Params[m]) /\ r.i = s.i + 1
          /\ r.have = (s.have \ LoopLocals) \cup {s.prog[s.at].gives} /\ r.sig = s.sig
      BY <1>1, <1>8, <2>1, <2>2
    <3>2. s.helper \in Reflectors /\ exc # "trace" => Gathers(r, m)
      BY <1>4, <2>2, <3>1, ForGathers
    <3> QED
      BY <1>1, <1>6, <1>7, <2>2, <3>2
  <2> QED
    BY <1>8, <2>1, <2>2, ProceedsKnows DEF s, m
<1>9. CASE /\ fn = "for" /\ ~(s.i < Len(Params[m]))
           /\ Proceed([s EXCEPT !.have = s.have \ LoopLocals])
  <2> DEFINE d == [s EXCEPT !.have = s.have \ LoopLocals]
  <2>1. /\ d \in Scopes /\ Kin(s, d) /\ d.at = s.at /\ d.before = s.before /\ d.i = s.i /\ d.sig = s.sig
        /\ d.have = s.have \ LoopLocals
    BY <1>1 DEF Scopes, Kin
  <2>2. Proceed(d)
    BY <1>9
  <2> HIDE DEF d
  <2>3. ASSUME NEW r \in Scopes, Kin(s, r), r.at = s.at + 1, r.have = d.have, r.i = d.i,
               r.sig = d.sig
        PROVE  Knows(r, m, exc')
    <3>1. /\ s.prog[s.at].fn = "for" /\ ~(s.i < Len(Params[m])) /\ r.i = s.i
          /\ r.have = s.have \ LoopLocals /\ r.sig = s.sig
      BY <1>1, <1>9, <2>1, <2>3
    <3>2. s.helper \in Reflectors /\ exc # "trace" => Gathers(r, m)
      BY <1>4, <2>3, <3>1, ForGathers
    <3> QED
      BY <1>1, <1>6, <1>7, <2>3, <3>2
  <2> QED
    BY <2>1, <2>2, <2>3, ProceedsKnows DEF s, m
<1>10. CASE fn = "next" /\ scopes' = [scopes EXCEPT ![1] = b]
  <2>1. LoopHead = CHOOSE k \in 1..Len(s.prog) : s.prog[k].fn = "for"
    BY DEF LoopHead, s
  <2>2. LoopHead \in 1..Len(s.prog) /\ s.prog[LoopHead].fn = "for"
    <3>1. \E k \in 1..Len(s.prog) : s.prog[k].fn = "for"
      BY <1>1, <1>10, Innermost, NextHasFor DEF s
    <3> QED
      BY <2>1, <3>1
  <2>3. s.helper \in Reflectors /\ exc # "trace" => LoopHead = 22
    <3>1. s.helper \in Reflectors /\ exc # "trace" => LoopHead \in 1..39
      BY <1>4, <2>2, ReflectorLengths
    <3>2. \A k \in 1..39 : resolveMethodByReflection[k].fn = "for" => k = 22
      BY MethodPlaces
    <3> QED
      BY <1>4, <2>2, <3>1, <3>2
  <2>4. /\ b \in Scopes /\ Kin(s, b) /\ b.at = LoopHead /\ b.before = s.before /\ b.have = s.have /\ b.i = s.i
        /\ b.sig = s.sig
    <3>1. LoopHead \in Nat
      BY <1>1, <2>2, ScopeTyped
    <3> QED
      BY <1>1, <3>1 DEF Scopes, Kin
  <2> HIDE DEF b
  <2>5. s.helper \in Reflectors /\ exc # "trace" => Gathers(b, m)
    BY <1>1, <1>4, <1>10, <2>3, <2>4, NextGathers
  <2>6. s.helper \in Reflectors => b.at > 1
    <3>1. s.helper \in Reflectors => Framed(s.prog)
      BY <1>5, MethodFramed, FieldFramed DEF Knows, Reflects, Reflection
    <3>2. Framed(s.prog) => s.prog[1].fn # "for"
      BY DEF Framed, Bracketed, Enter, Do, Stmt
    <3>3. s.helper \in Reflectors => LoopHead # 1
      BY <2>2, <3>1, <3>2
    <3>4. Len(s.prog) \in Nat
      BY <1>1, ScopeTyped
    <3> QED
      BY <2>2, <2>4, <3>3, <3>4
  <2>7. Knows(b, m, exc')
    BY <1>6, <1>7, <2>4, <2>5, <2>6
  <2> QED
    BY <1>10, <2>4, <2>7, GoesOnKnows DEF s, m
<1> QED
  BY <1>3, <1>8, <1>9, <1>10

-----------------------------------------------------------------------------
\* The helpers write no signature that they found, and run the reflection that fits.
LEMMA AsksHelpers ==
  ASSUME NEW m, NEW helper \in Helpers \ Reflectors
  PROVE  Asks(Program(helper, m), m)
<1> DEFINE Other(p) == \A k \in 1..Len(p) : p[k].fn \notin {"cache"} \cup Reflectors
<1>1. ASSUME NEW p, Other(p)
      PROVE  Asks(p, m)
  BY <1>1 DEF Asks
<1>2. Other(getJClassName)
  BY SMTT(30) DEF getJClassName, Do, Stmt, Drop, Enter, Leave, Reflectors
<1>3. Other(print_jstring)
  BY SMTT(30) DEF print_jstring, Do, Stmt, Enter, Leave, Reflectors
<1>4. Other(print_jobject_safe)
  BY SMTT(30) DEF print_jobject_safe, Do, Stmt, Run, Drop, Enter, Leave, Reflectors
<1>5. Other(print_jobject_or_string)
  BY SMTT(30) DEF print_jobject_or_string, Do, Stmt, Run, Drop, Enter, Leave, Reflectors
<1>6. Other(print_va_args_from_sig)
  BY SMTT(30) DEF print_va_args_from_sig, Do, Stmt, Run, Drop, Enter, Leave, Reflectors
<1>7. Asks(InfoResolved(m), m)
  <2> DEFINE resolver == IF Sort[m] \in Fields THEN "resolveFieldByReflection"
                                               ELSE "resolveMethodByReflection"
  <2>1. resolver # "cache" /\ (Sort[m] \in Fields <=> resolver = "resolveFieldByReflection")
    OBVIOUS
  <2> DEFINE a == << Do("set", {}, "info") >>
             b == << Do("cacheAll", {}, "info") >>
             c == << Enter, Run(resolver, {}, {}), Leave >>
             d == << Enter, Do("GetObjectClass", {}, "clazz"), Run(resolver, {"clazz"}, {}),
                     Drop("clazz"), Leave >>
  <2>2. InfoResolved(m) \in {a, b, c, d}
    BY DEF InfoResolved
  <2> HIDE DEF resolver
  <2>3. Asks(a, m)
    BY DEF Asks, Do, Stmt, Reflectors
  <2>4. Asks(b, m)
    BY DEF Asks, Do, Stmt, Reflectors
  <2>5. Asks(c, m)
    BY <2>1 DEF Asks, Enter, Leave, Do, Run, Stmt, Reflectors
  <2>6. Asks(d, m)
    BY <2>1, SMTT(30) DEF Asks, Enter, Leave, Do, Drop, Run, Stmt, Reflectors
  <2> QED
    BY <2>2, <2>3, <2>4, <2>5, <2>6
<1> HIDE DEF Other
<1> QED
  BY <1>1, <1>2, <1>3, <1>4, <1>5, <1>6, <1>7 DEF Program, Helpers, Reflectors

\* The programs that only run helpers.
LEMMA AsksCalm ==
  ASSUME NEW m, NEW p, Calm(p)
  PROVE  Asks(p, m)
<1>1. "cache" \notin Helpers
  BY DEF Helpers
<1> QED
  BY <1>1 DEF Calm, Asks, Reflectors, Helpers

\* What a helper knows when it is called.
LEMMA HelperKnows ==
  ASSUME NEW m, NEW helper \in Helpers, NEW env, NEW e,
         helper \in Reflectors => (Sort[m] \in Fields <=> helper = "resolveFieldByReflection")
  PROVE  Knows(Activation(helper, Program(helper, m), {}, env), m, e)
<1> DEFINE a == Activation(helper, Program(helper, m), {}, env)
<1>1. /\ a.helper = helper /\ a.prog = Program(helper, m) /\ a.have = {} /\ a.at = 1
      /\ a.sig = 0 /\ a.i = 0
  BY DEF Activation
<1> HIDE DEF a
<1>2. CASE helper \in Reflectors
  <2>1. a.prog = Reflection(helper)
    BY <1>1, <1>2 DEF Program, Reflection, Reflectors
  <2>2. Reflects(a, m, e)
    BY <1>1, <1>2, <2>1 DEF Reflects, Begins
  <2> QED
    BY <1>1, <1>2, <2>2 DEF Knows, a
<1>3. CASE helper \notin Reflectors
  BY <1>1, <1>3, AsksHelpers DEF Knows, a
<1> QED
  BY <1>2, <1>3

LEMMA CallHelperKnows ==
  ASSUME IInv, CInv, ~Done, Applies(Statement), CallHelper(Statement), call' = call
  PROVE  CInv'
<1> DEFINE s == Scope
           fn == Statement.fn
           m == call.m
           a == Activation(fn, Program(fn, m), {}, <<exc, frames>>)
           r == [s EXCEPT !.at = @ + 1]
<1>1. /\ scopes \in Seq(Scopes) /\ Len(scopes) \in Nat /\ Len(scopes) > 0 /\ s = scopes[1]
      /\ s \in Scopes /\ exc \in Excs /\ frames \in Frames
      /\ Statement = s.prog[s.at] /\ s.at \in 1..Len(s.prog) /\ AppliesIn(s)
  BY Innermost DEF Applies, AppliesIn
<1>2. fn \in Helpers /\ exc' = exc /\ scopes' = << a, r >> \o Tail(scopes)
  BY DEF CallHelper, jniVars
<1>4. Knows(s, m, exc) /\ m \in Members
  BY InnermostKnows
<1>5. s.helper \in Reflectors => fn = "getJClassName"
  BY <1>2, InnermostKnows DEF Makes, NoHandle, Others, RefFns, Helpers
<1>6. fn \in Reflectors => (Sort[m] \in Fields <=> fn = "resolveFieldByReflection")
  <2>1. s.helper \notin Reflectors \/ fn \notin Reflectors
    BY <1>5 DEF Reflectors
  <2> QED
    BY <1>1, <1>4, <2>1 DEF Knows, Asks
<1>7. a \in Scopes /\ a.before = <<exc, frames>>
  <2>1. Program(fn, m) \in Seq(Stmts)
    BY <1>2, ProgramKind
  <2> QED
    BY <1>1, <1>2, <2>1 DEF Activation, Scopes, Excs
<1>8. Knows(a, m, exc')
  BY <1>2, <1>6, HelperKnows
<1> HIDE DEF a, s
<1>9. /\ r \in Scopes /\ Kin(s, r) /\ r.at = s.at + 1 /\ r.have = s.have
      /\ r.i = s.i /\ r.sig = s.sig /\ r.before = s.before
  <2>1. Same(s, r) /\ r.at = s.at + 1 /\ r.have = s.have
    BY <1>1, NextScope
  <2>2. r.helper = s.helper /\ r.i = s.i /\ r.sig = s.sig /\ r.before = s.before
    BY <1>1 DEF Scopes
  <2> HIDE DEF r
  <2> QED
    BY <2>1, <2>2 DEF Same, Kin
<1> HIDE DEF r
<1>10. Knows(r, m, exc)
  <2>1. fn \notin {"for", "next", "piece", "PushLocalFrame"} /\ ~Tells(fn, m)
    BY <1>2, CalmFns DEF Helpers, Tells, Makes, RefFns
  <2>2. Yields(s, m, r.have, exc, exc')
    BY <1>1, <1>2, <1>9, <2>1, AppliesYields
  <2> QED
    BY <1>2, <1>9, <2>1, <2>2, NextKnows DEF s, m
<1>11. /\ Len(scopes') = Len(scopes) + 1 /\ scopes'[1] = a /\ scopes'[2] = r
       /\ \A k \in 3..Len(scopes) + 1 : scopes'[k] = scopes[k - 1]
  BY <1>1, <1>2, <1>7, <1>9
<1>12. ASSUME NEW k \in 2..Len(scopes')
       PROVE  Knows(scopes'[k], m, scopes'[k - 1].before[1])
  <2>1. CASE k = 2
    BY <1>7, <1>10, <1>11, <2>1
  <2>2. CASE k = 3
    <3>1. scopes'[3] = scopes[2] /\ 2 \in 2..Len(scopes) /\ 2 - 1 = 1 /\ 3 - 1 = 2
      BY <1>1, <1>11, <2>2
    <3>2. Knows(scopes[2], m, scopes[1].before[1])
      BY <3>1 DEF CInv
    <3> QED
      BY <1>1, <1>9, <1>11, <2>2, <3>1, <3>2
  <2>3. CASE k > 3
    <3>1. /\ scopes'[k] = scopes[k - 1] /\ scopes'[k - 1] = scopes[k - 2]
          /\ k - 1 \in 2..Len(scopes) /\ (k - 1) - 1 = k - 2
      BY <1>1, <1>11, <2>3
    <3> QED
      BY <3>1 DEF CInv
  <2> QED
    BY <1>11, <2>1, <2>2, <2>3
<1> QED
  BY <1>4, <1>8, <1>11, <1>12 DEF CInv

\* The information that a helper has found is not what a reflection looks for.
LEMMA InfoKnows ==
  ASSUME NEW m, NEW s \in Scopes, NEW r \in Scopes, Kin(s, r), r.at = s.at, r.i = s.i,
         r.sig = s.sig, NEW X \in SUBSET {"info"}, r.have = s.have \cup X, NEW e,
         Knows(s, m, e)
  PROVE  Knows(r, m, e)
<1>1. CASE s.helper \notin Reflectors
  BY <1>1 DEF Knows, Kin
<1>2. CASE s.helper \in Reflectors
  <2>1. Reflects(s, m, e) /\ r.helper = s.helper /\ r.prog = s.prog
    BY <1>2 DEF Knows, Kin
  <2>2. ASSUME Gathers(s, m)
        PROVE  Gathers(r, m)
    <3>1. "info" \in Found(m) /\ "info" \notin LoopLocals
      BY DEF Found, Handles, LoopLocals
    <3>2. "elem" \in r.have <=> "elem" \in s.have
      OBVIOUS
    <3>3. (InBody(r) <=> InBody(s)) /\ (AtParam(r) <=> AtParam(s))
      BY <2>1, <3>2 DEF InBody, AtParam
    <3>4. SigOf(r, m)
      BY <2>1, <2>2, <3>3 DEF Gathers, SigOf
    <3>5. \A j \in 2..r.at - 1 :
            Runs(r.prog, Found(m), j) /\ (j \in LoopAt(r.helper) => AtParam(r))
            => r.prog[j].gives \in r.have
      BY <2>1, <2>2, <3>3 DEF Gathers
    <3>6. /\ r.at \in 4..CacheAt(r.helper) /\ r.have \subseteq Found(m)
          /\ InBody(r) /\ ~AtParam(r) => LoopLocals \cap r.have = {}
      BY <2>1, <2>2, <3>1, <3>3 DEF Gathers
    <3> QED
      BY <3>4, <3>5, <3>6 DEF Gathers
  <2>3. s.have \subseteq {"frame", "info"} => r.have \subseteq {"frame", "info"}
    OBVIOUS
  <2>4. Reflects(r, m, e)
    BY <2>1, <2>2, <2>3 DEF Reflects, Begins
  <2> QED
    BY <1>2, <2>1, <2>4 DEF Knows
<1> QED
  BY <1>1, <1>2

LEMMA RetKnows ==
  ASSUME IInv, CInv, Done, Len(scopes) > 1, Ret, call' = call
  PROVE  CInv'
<1> DEFINE c == scopes[2]
           X == Scope.have \cap {"info"}
           r == [c EXCEPT !.have = @ \cup X]
<1>1. /\ scopes \in Seq(Scopes) /\ Len(scopes) \in Nat /\ c \in Scopes
      /\ Scope = scopes[1] /\ Scope \in Scopes /\ Sees(Scope, exc, frames)
  BY Innermost
<1>2. Knows(c, call.m, exc) /\ call.m \in Members
  <2>1. Scope.before = <<exc, frames>>
    BY <1>1, DoneSees DEF Done
  <2>2. 2 \in 2..Len(scopes) /\ 2 - 1 = 1
    BY <1>1
  <2>3. Knows(scopes[2], call.m, scopes[1].before[1])
    BY <2>2 DEF CInv
  <2> QED
    BY <1>1, <2>1, <2>3 DEF CInv
<1>3. exc' = exc
  BY DEF Ret, jniVars
<1>4. /\ r \in Scopes /\ Kin(c, r) /\ r.at = c.at /\ r.have = c.have \cup X
      /\ r.i = c.i /\ r.sig = c.sig /\ r.before = c.before
  <2>1. X \in SUBSET Handles
    BY DEF Handles
  <2> QED
    BY <1>1, <2>1 DEF Kin, Scopes
<1>5. scopes' = [Tail(scopes) EXCEPT ![1] = r]
  <2>1. Tail(scopes)[1] = c
    BY <1>1
  <2>2. scopes' = [Tail(scopes) EXCEPT ![1] =
                     [Tail(scopes)[1] EXCEPT !.have = @ \cup (Scope.have \cap {"info"})]]
    BY SMTT(30) DEF Ret
  <2> QED
    BY <2>1, <2>2
<1>6. Knows(r, call.m, exc)
  <2>1. X \in SUBSET {"info"}
    OBVIOUS
  <2> HIDE DEF X, r
  <2> QED
    BY <1>1, <1>2, <1>4, <2>1, InfoKnows
<1> HIDE DEF X, r
<1>7. /\ Len(scopes') = Len(scopes) - 1 /\ scopes'[1] = r
      /\ \A k \in 2..Len(scopes) - 1 : scopes'[k] = scopes[k + 1]
  <2> DEFINE rest == Tail(scopes)
  <2>1. /\ rest \in Seq(Scopes) /\ Len(rest) = Len(scopes) - 1 /\ Len(rest) > 0
        /\ \A k \in 1..Len(scopes) - 1 : rest[k] = scopes[k + 1]
    BY <1>1
  <2> HIDE DEF rest
  <2>2. /\ Len([rest EXCEPT ![1] = r]) = Len(rest)
        /\ [rest EXCEPT ![1] = r][1] = r
        /\ \A k \in 2..Len(rest) : [rest EXCEPT ![1] = r][k] = rest[k]
    BY <2>1
  <2> QED
    BY <1>1, <1>5, <2>1, <2>2 DEF rest
<1>8. ASSUME NEW k \in 2..Len(scopes')
      PROVE  Knows(scopes'[k], call.m, scopes'[k - 1].before[1])
  <2>1. /\ k + 1 \in 2..Len(scopes) /\ (k + 1) - 1 = k
        /\ scopes'[k] = scopes[k + 1] /\ scopes'[k - 1].before = scopes[k].before
    <3>1. CASE k = 2
      BY <1>1, <1>4, <1>7, <3>1
    <3>2. CASE k > 2
      BY <1>1, <1>7, <3>2
    <3> QED
      BY <1>1, <1>7, <3>1, <3>2
  <2> QED
    BY <2>1 DEF CInv
<1> QED
  BY <1>2, <1>3, <1>6, <1>7, <1>8 DEF CInv

LEMMA StepKnows ==
  ASSUME IInv, CInv, Step
  PROVE  CInv'
<1>1. call' = call
  BY DEF Step, appVars
<1>2. CASE Done
  BY <1>1, <1>2, RetKnows DEF Step
<1>3. CASE ~Done
  <2>1. CASE Skip
    BY <1>1, <1>3, <2>1, SkipKnows
  <2>2. CASE Applies(Statement) /\ (Call(Statement) \/ LocalFrame(Statement))
    BY <1>1, <1>3, <2>2, CallKnows, LocalFrameKnows
  <2>3. CASE Applies(Statement) /\ (Test(Statement) \/ Release(Statement))
    BY <1>1, <1>3, <2>3, TestKnows, ReleaseKnows
  <2>4. CASE Applies(Statement) /\ (Guard(Statement) \/ Unguard(Statement))
    BY <1>1, <1>3, <2>4, GuardKnows, UnguardKnows
  <2>5. CASE Applies(Statement) /\ CallHelper(Statement)
    BY <1>1, <1>3, <2>5, CallHelperKnows
  <2>6. CASE Applies(Statement) /\ (Loop(Statement) \/ Local(Statement))
    BY <1>1, <1>3, <2>6, LoopKnows, LocalKnows
  <2> QED
    BY <1>3, <2>1, <2>2, <2>3, <2>4, <2>5, <2>6 DEF Step
<1> QED
  BY <1>2, <1>3

\* A handler only runs helpers.
LEMMA HandlerKnows ==
  ASSUME NEW prog \in Seq(CalmStmts), NEW have, NEW env, NEW m, NEW e
  PROVE  Knows(Activation("handler", prog, have, env), m, e)
<1> DEFINE a == Activation("handler", prog, have, env)
<1>1. a.helper = "handler" /\ a.prog = prog
  BY DEF Activation
<1> HIDE DEF a
<1>2. Asks(prog, m)
  BY CalmSeq, AsksCalm
<1>3. Knows(a, m, e)
  BY <1>1, <1>2 DEF Knows, Reflectors
<1> QED
  BY <1>3 DEF a

LEMMA AppKnows ==
  ASSUME IInv, CInv, HostCall \/ \E kind \in DOMAIN tableInit : jni_on_call(kind)
  PROVE  CInv'
<1>1. PICK prog \in Seq(CalmStmts), have \in {{}, {"ret"}},
           env \in {<<exc, frames>>, <<exc', frames'>>} :
        /\ scopes' = << Activation("handler", prog, have, env) >>
        /\ call'.m = call.m
  <2>1. CASE HostCall
    <3>1. PICK have \in {{}, {"ret"}} : jni_on_return(have)
      BY <2>1 DEF HostCall, Returns, Throws, ManagesRefs, Clears
    <3>2. tableInit[call.kind].ret \in Seq(CalmStmts)
      BY TableCalm DEF CalmTable, Handlers, IInv, TypeInv
    <3> QED
      BY <3>1, <3>2 DEF jni_on_return
  <2>2. ASSUME NEW kind \in DOMAIN tableInit, jni_on_call(kind)
        PROVE  /\ tableInit[kind].entry \in Seq(CalmStmts)
               /\ scopes' = << Activation("handler", tableInit[kind].entry, {}, <<exc, frames>>) >>
               /\ call'.m = call.m
    BY <2>2, TableCalm DEF CalmTable, Handlers, jni_on_call, IInv, TypeInv
  <2> QED
    BY <2>1, <2>2
<1> DEFINE a == Activation("handler", prog, have, env)
<1>2. Knows(a, call.m, exc')
  BY HandlerKnows
<1> HIDE DEF a
<1>3. Len(scopes') = 1 /\ scopes'[1] = a
  BY <1>1 DEF a
<1> QED
  BY <1>1, <1>2, <1>3 DEF CInv

\* Whatever throws: when reflection in JniTrace.cpp writes a signature to the cache
\* that misses a piece, one of its own calls has thrown and that is still pending.
THEOREM PartialOnlyAfterThrowAlways == Spec => []PartialOnlyAfterThrow
<1>1. Init => CInv
  <2> SUFFICES ASSUME Init
               PROVE  CInv
    OBVIOUS
  <2> DEFINE a == Activation("handler", << >>, {}, <<exc, frames>>)
  <2>1. Knows(a, call.m, exc)
    <3>1. << >> \in Seq(CalmStmts)
      OBVIOUS
    <3> QED
      BY <3>1, HandlerKnows
  <2>2. scopes = <<a>>
    BY DEF Init
  <2> HIDE DEF a
  <2>3. Len(scopes) = 1 /\ scopes[1] = a
    BY <2>2
  <2>4. call.m \in Members
    BY DEF Init
  <2> QED
    BY <2>1, <2>3, <2>4 DEF CInv
<1>2. IInv /\ CInv /\ [Next]_vars => CInv'
  <2> SUFFICES ASSUME IInv, CInv, [Next]_vars
               PROVE  CInv'
    OBVIOUS
  <2>1. CASE Step
    BY <2>1, StepKnows
  <2>2. CASE HostCall \/ \E kind \in DOMAIN tableInit : jni_on_call(kind)
    BY <2>2, AppKnows
  <2>3. CASE UNCHANGED vars
    BY <2>3 DEF CInv, vars, jniVars, appVars
  <2> QED
    BY <2>1, <2>2, <2>3 DEF Next
<1>3. IInv /\ CInv => PartialOnlyAfterThrow
  <2> SUFFICES ASSUME IInv, CInv, ~Done, Statement.fn = "cache", Applies(Statement),
                      exc # "trace"
               PROVE  Scope.sig = Pieces(call.m)
    BY DEF PartialOnlyAfterThrow
  <2> DEFINE s == Scope
  <2>1. /\ s \in Scopes /\ s.at \in 1..Len(s.prog) /\ Statement = s.prog[s.at]
        /\ AppliesIn(s)
    BY Innermost DEF Applies, AppliesIn
  <2>2. s.helper \in Reflectors
    BY <2>1, InnermostKnows DEF Knows, Asks
  <2>3. /\ Reflects(s, call.m, exc) /\ ReflectsWith(s, call.m) /\ call.m \in Members
        /\ s.at = CacheAt(s.helper)
    BY <2>2, InnermostKnows
  <2> HIDE DEF s
  <2>4. s.at \in 4..CacheAt(s.helper)
    BY <2>3, ReflectorLong
  <2>5. Gathers(s, call.m)
    BY <2>1, <2>2, <2>3, <2>4, AppliesGathers
  <2> QED
    BY <2>3, <2>5, GathersAll DEF s
<1> QED
  BY <1>1, <1>2, <1>3, Invariance, PTL DEF Spec
=============================================================================
