-------------------------- MODULE TraceSessionProofs --------------------------
(***************************************************************************)
(* Theorems about TraceSession without automatic thread tracing: however   *)
(* trace() and freeTrace() of several threads interleave, the connection   *)
(* they share is counted exactly and outlives its sessions.                *)
(***************************************************************************)
EXTENDS TraceSession, FiniteSetTheorems, TLAPS

Tracing == {"previous", "connect", "accept", "insert"}
Points == {"unborn", "idle", "run", "gone"} \cup Tracing \cup InFree
Masters == [id : 0..MaxTraces, fd : Nat, auto : {FALSE}]

TypeOK ==
  /\ heap \in [Addrs -> Masters]
  /\ at \in [Sessions -> Addrs \cup {NoAddr}]
  /\ traceContextMap \in [Funcs -> Addrs \cup {NoAddr}]
  /\ clones \subseteq Threads \X Sessions
  /\ fd \in Nat /\ refcount \in Nat /\ conns \in Nat
  /\ tcpLock \in Threads \cup {"free"}
  /\ ended \subseteq 1..conns
  /\ pc \in [Threads -> Points]
  /\ fn \in [Threads -> Funcs \cup {NoFunc}]
  /\ sid \in [Threads -> 0..MaxTraces]
  /\ cfd \in [Threads -> Nat]
  /\ victim \in [Threads -> Addrs \cup {NoAddr}]
  /\ inside \in [Threads -> 0..MaxTraces]
  /\ made \in 0..MaxTraces

\* What a thread is doing.
Control ==
  \A t \in Threads :
    /\ pc[t] \in Tracing => fn[t] # NoFunc
    /\ fn[t] # NoFunc => pc[t] \in Tracing \cup InFree
    /\ fn[t] = NoFunc <=> sid[t] = 0
    /\ pc[t] \in InFree <=> victim[t] # NoAddr
    /\ inside[t] # 0 => pc[t] = "run" /\ at[inside[t]] \in Addrs

\* Numbers of sessions are used once; a master sits where its session was put.
Numbers ==
  /\ \A s \in Sessions : s > made => at[s] = NoAddr
  /\ \A t \in Threads : sid[t] # 0 => sid[t] <= made /\ at[sid[t]] = NoAddr
  /\ \A t, u \in Threads : sid[t] = sid[u] /\ sid[t] # 0 => t = u
  /\ \A a \in Addrs : IF heap[a].id = 0 THEN heap[a] = Free ELSE at[heap[a].id] = a

\* The map of functions, and what calls under way do with it.
Mapped ==
  /\ \A f, g \in Funcs : traceContextMap[f] = traceContextMap[g] /\ traceContextMap[f] # NoAddr => f = g
  /\ \A f \in Funcs : traceContextMap[f] # NoAddr => heap[traceContextMap[f]].id # 0
  /\ \A t \in Threads :
       /\ pc[t] \in {"connect", "accept", "insert"} => traceContextMap[fn[t]] = NoAddr
       /\ pc[t] \in InFree =>
            \E f \in Funcs : traceContextMap[f] = victim[t] /\ (fn[t] # NoFunc => f = fn[t])

\* The app's contract, kept: one call at a time is busy with a function, and
\* meanwhile nobody is inside its session.
Busy(t, f) == fn[t] = f \/ (pc[t] \in InFree /\ victim[t] = traceContextMap[f])
Alone ==
  \A t, u \in Threads, f \in Funcs : Busy(t, f) =>
    /\ Busy(u, f) => t = u
    /\ Live(inside[u]) => at[inside[u]] # traceContextMap[f]

\* Who has the lock, who has the socket.
Connected ==
  /\ \A t \in Threads : pc[t] = "accept" <=> tcpLock = t
  /\ tcpLock # "free" => fd = NoFd
  /\ \A t \in Threads : pc[t] = "insert" => cfd[t] = fd /\ fd # NoFd
  /\ \A a \in Addrs :
       /\ heap[a].fd # NoFd => heap[a].fd = fd
       /\ heap[a].id # 0 => heap[a].fd # NoFd \/ \E t \in Threads : pc[t] = "delete" /\ victim[t] = a
  /\ \A t \in Threads : pc[t] = "delete" => heap[victim[t]].fd = NoFd
  /\ fd # NoFd => Holders # {} /\ fd = conns /\ fd \notin ended

\* A clone is of a live session whose clones have not been destroyed.
Cloned ==
  \A c \in clones :
    /\ at[c[2]] \in Addrs /\ Live(c[2])
    /\ \A t \in Threads : pc[t] \in {"release", "delete"} => at[c[2]] # victim[t]

IInv ==
  /\ TypeOK /\ Control /\ Numbers /\ Mapped /\ Alone /\ Connected /\ Cloned
  /\ RefcountExact

-----------------------------------------------------------------------------

\* What a step does to the users of the connection.
Kept == Holders' = Holders /\ ended' = ended
Joined == \E s \in Sessions : s \notin Holders /\ Holders' = Holders \cup {s} /\ ended' = ended
Left ==
  \E s \in Sessions :
    /\ s \in Holders /\ Holders' = Holders \ {s}
    /\ ended' = IF Holders' = {} THEN ended \cup {fd} ELSE ended
    /\ fd \notin ended
ConnectionStep == Kept \/ Joined \/ Left

\* A master has the number of a session; what is no master has no socket.
LEMMA MasterIs ==
  ASSUME TypeOK, Numbers, NEW a \in Addrs
  PROVE  /\ heap[a].id \in 0..MaxTraces /\ heap[a].fd \in Nat
         /\ heap[a].id # 0 => heap[a].id \in Sessions /\ at[heap[a].id] = a
         /\ heap[a].id = 0 => heap[a] = Free /\ heap[a].fd = NoFd
<1>1. heap[a] \in Masters
  BY DEF TypeOK
<1>2. heap[a].id \in 0..MaxTraces /\ heap[a].fd \in Nat
  BY <1>1 DEF Masters
<1>3. heap[a].id # 0 => heap[a].id \in Sessions
  BY <1>2, SessionAssumption DEF Sessions
<1>4. Free.fd = NoFd
  BY DEF Free
<1>. QED
  BY <1>2, <1>3, <1>4 DEF Numbers

\* The users are sessions, so they can be counted.
LEMMA HoldersFinite ==
  ASSUME TypeOK, Control, Numbers
  PROVE  Holders \subseteq Sessions /\ IsFiniteSet(Holders) /\ Cardinality(Holders) \in Nat
<1>1. \A a \in Addrs : heap[a].fd # NoFd => heap[a].id \in Sessions
  BY MasterIs
<1>2. \A t \in Threads : pc[t] = "insert" => sid[t] \in Sessions
  BY DEF TypeOK, Control, Tracing, Sessions
<1>3. Holders \subseteq Sessions
  BY <1>1, <1>2 DEF Holders
<1>4. IsFiniteSet(Sessions)
  BY SessionAssumption, FS_Interval DEF Sessions
<1>. QED
  BY <1>3, <1>4, FS_Subset, FS_CardinalityType

\* The number of a session under construction is nobody else's.
LEMMA NewIsNobody ==
  ASSUME IInv, NEW t \in Threads, sid[t] # 0
  PROVE  /\ sid[t] \in Sessions /\ at[sid[t]] = NoAddr
         /\ \A a \in Addrs : heap[a].id # sid[t]
         /\ \A u \in Threads : u # t => sid[u] # sid[t] /\ inside[u] # sid[t]
         /\ \A c \in clones : c[2] # sid[t]
<1>1. sid[t] \in Sessions /\ at[sid[t]] = NoAddr
  BY DEF IInv, TypeOK, Numbers, Sessions
<1>. QED
  BY <1>1, SessionAssumption DEF IInv, Control, Numbers, Cloned

\* The master that a freeTrace() under way works on.
LEMMA VictimIs ==
  ASSUME IInv, NEW t \in Threads, pc[t] \in InFree
  PROVE  /\ victim[t] \in Addrs /\ heap[victim[t]].id \in Sessions
         /\ at[heap[victim[t]].id] = victim[t]
         /\ \A u \in Threads : u # t => victim[u] # victim[t]
         /\ \A u \in Threads : Live(inside[u]) => at[inside[u]] # victim[t]
         /\ pc[t] # "delete" => heap[victim[t]].fd = fd /\ fd # NoFd
<1>1. PICK f \in Funcs : traceContextMap[f] = victim[t] /\ (fn[t] # NoFunc => f = fn[t])
  BY DEF IInv, Mapped
<1>2. victim[t] \in Addrs
  BY DEF IInv, Control, TypeOK
<1>3. heap[victim[t]].id \in Sessions /\ at[heap[victim[t]].id] = victim[t]
  BY <1>1, <1>2, MasterIs, SessionAssumption DEF IInv, Mapped
<1>4. Busy(t, f)
  BY <1>1 DEF Busy
<1>5. ASSUME NEW u \in Threads, victim[u] = victim[t] PROVE u = t
  <2>1. pc[u] \in InFree
    BY <1>2, <1>5, SessionAssumption DEF IInv, Control
  <2>2. Busy(u, f)
    BY <1>1, <1>5, <2>1 DEF Busy
  <2>. QED
    BY <1>4, <2>2 DEF IInv, Alone
<1>6. \A u \in Threads : Live(inside[u]) => at[inside[u]] # victim[t]
  BY <1>1, <1>4 DEF IInv, Alone
<1>7. pc[t] # "delete" => heap[victim[t]].fd = fd /\ fd # NoFd
  BY <1>2, <1>3, <1>5 DEF IInv, Connected, Sessions
<1>. QED
  BY <1>2, <1>3, <1>5, <1>6, <1>7

\* IInv holds initially.
LEMMA InitIInv == Init => IInv
<1>. SUFFICES ASSUME Init PROVE IInv
  OBVIOUS
<1>1. TypeOK
  BY SessionAssumption DEF Init, TypeOK, Free, Masters, NoFd, Points, Sessions
<1>0. NoFunc \notin Funcs /\ "free" \notin Threads
  BY SessionAssumption DEF Funcs, Threads
<1>2. Control
  BY <1>0 DEF Init, Control, Tracing, InFree
<1>7. Alone
  BY <1>0 DEF Init, Alone, Busy, InFree
<1>3. Numbers /\ Mapped /\ Cloned
  BY SessionAssumption DEF Init, Numbers, Mapped, Cloned, Free, InFree
<1>4. Holders = {}
  BY DEF Init, Holders, Free
<1>5. Connected
  BY <1>0, <1>4 DEF Init, Connected, Free
<1>6. RefcountExact
  BY <1>4, FS_EmptySet DEF Init, RefcountExact
<1>. QED
  BY <1>1, <1>2, <1>3, <1>5, <1>6, <1>7 DEF IInv

\* freeTrace() begins.
LEMMA CallFreeStep ==
  ASSUME IInv, NEW t \in Threads, NEW f \in UserFuncs, CallFree(t, f)
  PROVE  IInv' /\ Kept
<1>. USE DEF IInv, CallFree, BeginFree, tcp
<1>1. /\ pc' = [pc EXCEPT ![t] = "drain"] /\ victim' = [victim EXCEPT ![t] = traceContextMap[f]]
      /\ pc[t] = "idle" /\ traceContextMap[f] \in Addrs /\ f \in Funcs /\ f # NoFunc
      /\ fn[t] = NoFunc /\ inside[t] = 0
  BY SessionAssumption DEF TypeOK, Control, Tracing, InFree, Funcs
<1>2. TypeOK'
  BY <1>1 DEF TypeOK, Points, InFree
<1>3. Control'
  BY <1>1, SessionAssumption DEF TypeOK, Control, Tracing, InFree
<1>4. Numbers' /\ Kept
  BY <1>1 DEF TypeOK, Numbers, Kept, Holders
<1>5. Mapped'
  BY <1>1 DEF TypeOK, Mapped, InFree
<1>6. Alone'
  <2>1. \A u \in Threads : ~Busy(u, f)
    BY <1>1 DEF Quiet, NoCallOn, Busy
  <2>2. \A u \in Threads : Live(inside[u]) => at[inside[u]] # traceContextMap[f]
    BY DEF Quiet
  <2>3. \A u \in Threads, g \in Funcs : Busy(u, g)' => Busy(u, g) \/ (u = t /\ g = f)
    BY <1>1 DEF TypeOK, Busy, Mapped, InFree
  <2>4. \A u \in Threads : Live(inside[u])' <=> Live(inside[u])
    BY DEF Live
  <2>. QED
    BY <2>1, <2>2, <2>3, <2>4 DEF Alone
<1>7. Connected'
  BY <1>1, <1>4 DEF TypeOK, Connected, Kept
<1>8. Cloned'
  BY <1>1 DEF TypeOK, Cloned, Live
<1>9. RefcountExact'
  BY <1>4 DEF RefcountExact, Kept
<1>. QED
  BY <1>2, <1>3, <1>4, <1>5, <1>6, <1>7, <1>8, <1>9

\* trace() begins.
LEMMA CallTraceStep ==
  ASSUME IInv, NEW t \in Threads, NEW f \in UserFuncs, CallTrace(t, f)
  PROVE  IInv' /\ Kept
<1>. USE DEF IInv, CallTrace, EnterTrace, tcp
<1>1. /\ pc' = [pc EXCEPT ![t] = "previous"] /\ fn' = [fn EXCEPT ![t] = f]
      /\ sid' = [sid EXCEPT ![t] = made + 1] /\ made' = made + 1
      /\ pc[t] = "idle" /\ f \in Funcs /\ f # NoFunc
      /\ fn[t] = NoFunc /\ inside[t] = 0 /\ victim[t] = NoAddr
  BY SessionAssumption DEF TypeOK, Control, Tracing, InFree, Funcs
<1>2. made \in Nat /\ made + 1 \in Sessions /\ made < MaxTraces /\ MaxTraces \in Nat
  BY SessionAssumption, SMTT(60) DEF TypeOK, Sessions
<1>3. TypeOK'
  BY <1>1, <1>2, SMTT(60) DEF TypeOK, Points, Tracing, Sessions
<1>4. Control'
  BY <1>1, <1>2, SessionAssumption DEF TypeOK, Control, Tracing, InFree
<1>5. Numbers'
  <2>1. \A u \in Threads : sid[u] # made + 1
    BY <1>2 DEF TypeOK, Numbers
  <2>2. at[made + 1] = NoAddr
    BY <1>2 DEF Numbers
  <2>3. \A s \in Sessions : s > made + 1 => s > made
    BY <1>2 DEF Sessions
  <2>4. \A u \in Threads : sid[u] \in Nat
    BY DEF TypeOK
  <2>5. \A u \in Threads : sid'[u] = IF u = t THEN made + 1 ELSE sid[u]
    BY <1>1 DEF TypeOK
  <2>. QED
    BY <1>1, <1>2, <2>1, <2>2, <2>3, <2>4, <2>5 DEF Numbers
<1>6. Kept
  BY <1>1 DEF TypeOK, Kept, Holders
<1>7. Mapped'
  BY <1>1 DEF TypeOK, Mapped, InFree
<1>8. Alone'
  <2>1. \A u \in Threads : ~Busy(u, f)
    BY <1>1 DEF Quiet, NoCallOn, Busy
  <2>2. \A u \in Threads : Live(inside[u]) /\ traceContextMap[f] # NoAddr => at[inside[u]] # traceContextMap[f]
    BY DEF Quiet
  <2>3. \A u \in Threads : Live(inside[u]) => at[inside[u]] # NoAddr
    BY SessionAssumption DEF Live, Control
  <2>4. \A u \in Threads, g \in Funcs : Busy(u, g)' => Busy(u, g) \/ (u = t /\ g = f)
    BY <1>1 DEF TypeOK, Busy, InFree
  <2>5. \A u \in Threads : Live(inside[u])' <=> Live(inside[u])
    BY DEF Live
  <2>. QED
    BY <2>1, <2>2, <2>3, <2>4, <2>5 DEF Alone
<1>9. Connected'
  BY <1>1, <1>6 DEF TypeOK, Connected, Kept
<1>10. Cloned'
  BY <1>1 DEF TypeOK, Cloned, Live
<1>11. RefcountExact'
  BY <1>6 DEF RefcountExact, Kept
<1>. QED
  BY <1>3, <1>4, <1>5, <1>6, <1>7, <1>8, <1>9, <1>10, <1>11

\* trace() looks for an earlier session of its function.
LEMMA PreviousStep ==
  ASSUME IInv, NEW t \in Threads, TracePrevious(t)
  PROVE  IInv' /\ Kept
<1>. USE DEF IInv, TracePrevious, BeginFree, tcp
<1>1. pc[t] = "previous" /\ fn[t] \in Funcs /\ victim[t] = NoAddr /\ inside[t] = 0 /\ sid[t] # 0
  BY DEF TypeOK, Control, Tracing, InFree
<1>2. CASE traceContextMap[fn[t]] # NoAddr
  <2>1. /\ pc' = [pc EXCEPT ![t] = "drain"]
        /\ victim' = [victim EXCEPT ![t] = traceContextMap[fn[t]]]
        /\ traceContextMap[fn[t]] \in Addrs
    BY <1>1, <1>2 DEF TypeOK
  <2>2. TypeOK'
    BY <1>1, <2>1 DEF TypeOK, Points, InFree
  <2>3. Control'
    BY <1>1, <2>1, SessionAssumption DEF TypeOK, Control, Tracing, InFree
  <2>4. Numbers' /\ Kept
    BY <1>1, <2>1 DEF TypeOK, Numbers, Kept, Holders
  <2>5. Mapped'
    BY <1>1, <2>1 DEF TypeOK, Mapped, InFree
  <2>6. Alone'
    <3>1. Busy(t, fn[t])
      BY DEF Busy
    <3>2. \A u \in Threads, g \in Funcs : Busy(u, g)' => Busy(u, g)
      BY <1>1, <2>1, <3>1 DEF TypeOK, Busy, Mapped, InFree
    <3>3. \A u \in Threads : Live(inside[u])' <=> Live(inside[u])
      BY DEF Live
    <3>. QED
      BY <3>2, <3>3 DEF Alone
  <2>7. Connected'
    BY <1>1, <2>1, <2>4 DEF TypeOK, Connected, Kept
  <2>8. Cloned'
    BY <2>1 DEF TypeOK, Cloned, Live
  <2>9. RefcountExact'
    BY <2>4 DEF RefcountExact, Kept
  <2>. QED
    BY <2>2, <2>3, <2>4, <2>5, <2>6, <2>7, <2>8, <2>9
<1>3. CASE traceContextMap[fn[t]] = NoAddr
  <2>1. pc' = [pc EXCEPT ![t] = "connect"] /\ victim' = victim
    BY <1>3
  <2>2. TypeOK'
    BY <1>1, <2>1 DEF TypeOK, Points, Tracing
  <2>3. Control'
    BY <1>1, <2>1 DEF TypeOK, Control, Tracing, InFree
  <2>4. Numbers' /\ Kept
    BY <1>1, <2>1 DEF TypeOK, Numbers, Kept, Holders
  <2>5. Mapped'
    BY <1>1, <1>3, <2>1 DEF TypeOK, Mapped, InFree
  <2>6. Alone'
    BY <1>1, <2>1 DEF TypeOK, Alone, Busy, InFree, Live
  <2>7. Connected'
    BY <1>1, <2>1, <2>4 DEF TypeOK, Connected, Kept
  <2>8. Cloned'
    BY <2>1 DEF TypeOK, Cloned, Live
  <2>9. RefcountExact'
    BY <2>4 DEF RefcountExact, Kept
  <2>. QED
    BY <2>2, <2>3, <2>4, <2>5, <2>6, <2>7, <2>8, <2>9
<1>. QED
  BY <1>2, <1>3

\* trace() takes the spin lock and waits for a receiver.
LEMMA ListenStep ==
  ASSUME IInv, NEW t \in Threads, TraceListen(t)
  PROVE  IInv' /\ Kept
<1>. USE DEF IInv, TraceListen
<1>1. /\ pc[t] = "connect" /\ pc' = [pc EXCEPT ![t] = "accept"] /\ tcpLock = "free" /\ tcpLock' = t
      /\ fd = NoFd /\ fn[t] \in Funcs
  BY DEF TypeOK, Control, Tracing
<1>2. TypeOK'
  BY <1>1 DEF TypeOK, Points, Tracing
<1>3. Control'
  BY <1>1 DEF TypeOK, Control, Tracing, InFree
<1>4. Numbers' /\ Kept
  BY <1>1 DEF TypeOK, Numbers, Kept, Holders
<1>5. Mapped' /\ Alone'
  BY <1>1 DEF TypeOK, Mapped, Alone, Busy, InFree, Live
<1>6. Connected'
  <2>1. \A u \in Threads : pc[u] # "accept"
    BY <1>1, SessionAssumption DEF Connected, Threads
  <2>. QED
    BY <1>1, <1>4, <2>1 DEF TypeOK, Connected, Kept
<1>7. Cloned'
  BY <1>1 DEF TypeOK, Cloned, Live
<1>8. RefcountExact'
  BY <1>4 DEF RefcountExact, Kept
<1>. QED
  BY <1>2, <1>3, <1>4, <1>5, <1>6, <1>7, <1>8

\* No receiver came: the call returns without a session.
LEMMA AcceptFailsStep ==
  ASSUME IInv, NEW t \in Threads, TraceAcceptFails(t)
  PROVE  IInv' /\ Kept
<1>. USE DEF IInv, TraceAcceptFails, EndTrace
<1>1. pc[t] = "accept" /\ inside[t] = 0 /\ victim[t] = NoAddr
  BY DEF TypeOK, Control, InFree
<1>2. /\ pc' = [pc EXCEPT ![t] = "idle"] /\ sid' = [sid EXCEPT ![t] = 0]
      /\ fn' = [fn EXCEPT ![t] = NoFunc] /\ cfd' = [cfd EXCEPT ![t] = NoFd] /\ tcpLock' = "free"
  BY <1>1
<1>3. TypeOK'
  BY <1>2, SessionAssumption DEF TypeOK, Points, NoFd
<1>4. Control'
  BY <1>1, <1>2 DEF TypeOK, Control, Tracing, InFree
<1>5. Numbers' /\ Kept
  BY <1>1, <1>2 DEF TypeOK, Numbers, Kept, Holders
<1>6. Mapped'
  BY <1>1, <1>2 DEF TypeOK, Mapped, InFree
<1>7. Alone'
  <2>1. \A u \in Threads, g \in Funcs : Busy(u, g)' => Busy(u, g)
    BY <1>1, <1>2, SessionAssumption DEF TypeOK, Busy, InFree, Funcs
  <2>2. \A u \in Threads : Live(inside[u])' <=> Live(inside[u])
    BY DEF Live
  <2>. QED
    BY <2>1, <2>2 DEF Alone
<1>8. Connected'
  <2>1. \A u \in Threads : u # t => pc[u] # "accept"
    BY <1>1 DEF Connected
  <2>2. "free" \notin Threads
    BY SessionAssumption DEF Threads
  <2>. QED
    BY <1>1, <1>2, <1>5, <2>1, <2>2 DEF TypeOK, Connected, Kept
<1>9. Cloned'
  BY <1>1, <1>2 DEF TypeOK, Cloned, Live
<1>10. RefcountExact'
  BY <1>5 DEF RefcountExact, Kept
<1>. QED
  BY <1>3, <1>4, <1>5, <1>6, <1>7, <1>8, <1>9, <1>10

\* The app calls a wrapper.
LEMMA CallWrapperStep ==
  ASSUME IInv, NEW t \in Threads, NEW f \in UserFuncs, CallWrapper(t, f)
  PROVE  IInv' /\ Kept
<1>. USE DEF IInv, CallWrapper, tcp
<1>. DEFINE a == traceContextMap[f]
<1>1. /\ pc[t] = "idle" /\ f \in Funcs /\ a \in Addrs
      /\ heap[a].id \in Sessions /\ at[heap[a].id] = a
      /\ fn[t] = NoFunc /\ victim[t] = NoAddr
  <2>1. f \in Funcs /\ a \in Addrs /\ heap[a].id # 0
    BY DEF TypeOK, Mapped, Funcs
  <2>. QED
    BY <2>1, MasterIs DEF Control, Tracing, InFree
<1>2. pc' = [pc EXCEPT ![t] = "run"] /\ inside' = [inside EXCEPT ![t] = heap[a].id]
  OBVIOUS
<1>3. TypeOK'
  BY <1>1, <1>2 DEF TypeOK, Points, Sessions
<1>4. Control'
  BY <1>1, <1>2, SMTT(40) DEF TypeOK, Control, Tracing, InFree
<1>5. Numbers' /\ Kept
  BY <1>1, <1>2 DEF TypeOK, Numbers, Kept, Holders
<1>6. Mapped'
  BY <1>1, <1>2 DEF TypeOK, Mapped, InFree
<1>7. Alone'
  <2>1. \A u \in Threads, g \in Funcs : Busy(u, g)' => Busy(u, g)
    BY <1>1, <1>2 DEF TypeOK, Busy, InFree
  <2>2. \A u \in Threads : ~Busy(u, f)
    BY <1>1 DEF NoCallOn, Busy
  <2>3. \A u \in Threads : u # t => (Live(inside[u])' <=> Live(inside[u])) /\ inside'[u] = inside[u]
    BY <1>2 DEF Live, TypeOK
  <2>4. at'[inside'[t]] = a
    BY <1>1, <1>2 DEF TypeOK
  <2>5. \A g \in Funcs : traceContextMap[g] = a => g = f
    BY <1>1, SessionAssumption DEF Mapped
  <2>. QED
    BY <2>1, <2>2, <2>3, <2>4, <2>5 DEF Alone
<1>8. Connected'
  BY <1>1, <1>2, <1>5 DEF TypeOK, Connected, Kept
<1>9. Cloned'
  BY <1>1, <1>2 DEF TypeOK, Cloned, Live
<1>10. RefcountExact'
  BY <1>5 DEF RefcountExact, Kept
<1>. QED
  BY <1>3, <1>4, <1>5, <1>6, <1>7, <1>8, <1>9, <1>10

\* A thread gets a clone of the session it runs in.
LEMMA FirstInsnStep ==
  ASSUME IInv, NEW t \in Threads, FirstInsn(t)
  PROVE  IInv' /\ Kept
<1>. DEFINE a == at[inside[t]]
<1>1. /\ pc[t] = "run" /\ Live(inside[t]) /\ a \in Addrs /\ heap[a].id = inside[t]
      /\ inside[t] \in Sessions
      /\ clones' = clones \cup {<<t, inside[t]>>}
  BY MasterIs DEF IInv, FirstInsn, Control, Live
<1>2. TypeOK'
  BY <1>1 DEF IInv, FirstInsn, tcp, local, TypeOK
<1>3. UNCHANGED <<heap, at, traceContextMap, tcp, local>>
  BY DEF FirstInsn
<1>4. Kept
  BY <1>3 DEF tcp, local, Kept, Holders
<1>5. Control' /\ Numbers' /\ Mapped' /\ Alone'
  BY <1>3 DEF tcp, local, IInv, Control, Numbers, Mapped, Alone, Busy, Live
<1>6. Connected'
  BY <1>3, <1>4 DEF tcp, local, IInv, Connected, Kept
<1>7. Cloned'
  <2>1. \A u \in Threads : pc[u] \in InFree => a # victim[u]
    BY <1>1, VictimIs DEF IInv
  <2>2. <<t, inside[t]>>[2] = inside[t]
    OBVIOUS
  <2>. QED
    BY <1>1, <1>3, <2>1, <2>2 DEF local, IInv, Cloned, Live, InFree
<1>8. RefcountExact'
  BY <1>3, <1>4 DEF tcp, local, IInv, RefcountExact, Kept
<1>. QED
  BY <1>2, <1>4, <1>5, <1>6, <1>7, <1>8 DEF IInv

\* Text is written to a clone, or sent.
LEMMA TextStep ==
  ASSUME IInv, (\E t \in Threads : Insn(t)) \/ (\E c \in clones : SendFrames(c))
  PROVE  IInv' /\ Kept
<1>1. UNCHANGED <<heap, at, traceContextMap, clones, tcp, local>>
  BY DEF Insn, SendFrames
<1>2. TypeOK'
  BY <1>1 DEF tcp, local, IInv, TypeOK
<1>3. Kept
  BY <1>1 DEF tcp, local, Kept, Holders
<1>4. Control' /\ Numbers' /\ Mapped' /\ Alone'
  BY <1>1 DEF tcp, local, IInv, Control, Numbers, Mapped, Alone, Busy, Live
<1>5. Connected' /\ Cloned' /\ RefcountExact'
  BY <1>1, <1>3 DEF tcp, local, IInv, Connected, Cloned, Live, RefcountExact, Kept
<1>. QED
  BY <1>2, <1>3, <1>4, <1>5 DEF IInv

\* The wrapped function returns.
LEMMA ReturnStep ==
  ASSUME IInv, NEW t \in Threads, Return(t)
  PROVE  IInv' /\ Kept
<1>. USE DEF IInv, Return, tcp
<1>1. pc[t] = "run" /\ fn[t] = NoFunc /\ victim[t] = NoAddr
  BY DEF Control, Tracing, InFree
<1>2. PICK p \in {"idle", "gone"} : pc' = [pc EXCEPT ![t] = p] /\ inside' = [inside EXCEPT ![t] = 0]
  OBVIOUS
<1>3. TypeOK'
  BY <1>1, <1>2, SessionAssumption DEF TypeOK, Points
<1>4. Control'
  BY <1>1, <1>2 DEF TypeOK, Control, Tracing, InFree
<1>5. Numbers' /\ Kept
  BY <1>1, <1>2 DEF TypeOK, Numbers, Kept, Holders
<1>6. Mapped'
  BY <1>1, <1>2 DEF TypeOK, Mapped, InFree
<1>7. Alone'
  BY <1>1, <1>2 DEF TypeOK, Alone, Busy, InFree, Live
<1>8. Connected'
  BY <1>1, <1>2, <1>5 DEF TypeOK, Connected, Kept
<1>9. Cloned'
  BY <1>1, <1>2 DEF TypeOK, Cloned, Live
<1>10. RefcountExact'
  BY <1>5 DEF RefcountExact, Kept
<1>. QED
  BY <1>3, <1>4, <1>5, <1>6, <1>7, <1>8, <1>9, <1>10

\* A session that gets the socket is a new user of it.
LEMMA RetainStep ==
  ASSUME IInv, NEW t \in Threads, pc[t] \in {"connect", "accept"}, Retain,
         pc' = [pc EXCEPT ![t] = "insert"], UNCHANGED <<heap, sid, ended>>
  PROVE  /\ Holders' = Holders \cup {sid[t]} /\ sid[t] \notin Holders /\ sid[t] \in Sessions
         /\ Joined /\ RefcountExact' /\ refcount' \in Nat
<1>. USE DEF IInv
<1>1. sid[t] # 0
  BY DEF Control, Tracing, TypeOK
<1>2. sid[t] \in Sessions
  BY <1>1, NewIsNobody
<1>3. sid[t] \notin Holders
  <2>1. \A u \in Threads : u # t => sid[u] # sid[t]
    BY <1>1 DEF Numbers
  <2>2. \A a \in Addrs : heap[a].id # sid[t]
    BY <1>1, NewIsNobody
  <2>. QED
    BY <2>1, <2>2 DEF Holders
<1>4. Holders' = Holders \cup {sid[t]}
  BY DEF Holders, TypeOK
<1>5. IsFiniteSet(Holders) /\ Cardinality(Holders) \in Nat
  BY HoldersFinite
<1>6. Cardinality(Holders') = Cardinality(Holders) + 1
  BY <1>3, <1>4, <1>5, FS_AddElement
<1>7. refcount' = Cardinality(Holders) + 1
  BY DEF Retain, RefcountExact
<1>. QED
  BY <1>2, <1>3, <1>4, <1>5, <1>6, <1>7 DEF Joined, RefcountExact

\* trace() joins the open connection.
LEMMA JoinStep ==
  ASSUME IInv, NEW t \in Threads, TraceJoin(t)
  PROVE  IInv' /\ Joined
<1>. USE DEF IInv, TraceJoin
<1>1. /\ pc[t] = "connect" /\ pc' = [pc EXCEPT ![t] = "insert"] /\ cfd' = [cfd EXCEPT ![t] = fd]
      /\ fd # NoFd /\ fn[t] \in Funcs
  BY DEF TypeOK, Control, Tracing
<1>2. /\ Holders' = Holders \cup {sid[t]} /\ sid[t] \notin Holders /\ sid[t] \in Sessions
      /\ Joined /\ RefcountExact' /\ refcount' \in Nat
  BY <1>1, RetainStep
<1>3. TypeOK'
  BY <1>1, <1>2 DEF TypeOK, Points, Tracing
<1>4. Control'
  BY <1>1 DEF TypeOK, Control, Tracing, InFree
<1>5. Numbers'
  BY <1>1 DEF Numbers
<1>6. Mapped' /\ Alone'
  BY <1>1 DEF TypeOK, Mapped, Alone, Busy, InFree, Live
<1>7. Connected'
  BY <1>1, <1>2 DEF TypeOK, Connected
<1>8. Cloned'
  BY <1>1 DEF TypeOK, Cloned, Live
<1>. QED
  BY <1>2, <1>3, <1>4, <1>5, <1>6, <1>7, <1>8

\* A receiver has connected: nobody used the connection before.
LEMMA AcceptStep ==
  ASSUME IInv, NEW t \in Threads, TraceAccept(t)
  PROVE  IInv' /\ Joined
<1>. USE DEF IInv, TraceAccept
<1>0. conns \in Nat /\ ended \subseteq 1..conns /\ "free" \notin Threads
  BY SessionAssumption DEF TypeOK, Threads
<1>1. /\ pc[t] = "accept" /\ pc' = [pc EXCEPT ![t] = "insert"] /\ cfd' = [cfd EXCEPT ![t] = conns + 1]
      /\ conns' = conns + 1 /\ fd' = conns + 1 /\ tcpLock = t /\ tcpLock' = "free"
      /\ fd = NoFd /\ fn[t] \in Funcs
  BY <1>0 DEF TypeOK, Control, Tracing, Connected
<1>2. /\ Holders' = Holders \cup {sid[t]} /\ sid[t] \notin Holders /\ sid[t] \in Sessions
      /\ Joined /\ RefcountExact' /\ refcount' \in Nat
  BY <1>1, RetainStep
<1>3. TypeOK'
  BY <1>0, <1>1, <1>2 DEF TypeOK, Points, Tracing
<1>4. Control'
  BY <1>1 DEF TypeOK, Control, Tracing, InFree
<1>5. Numbers'
  BY <1>1 DEF Numbers
<1>6. Mapped' /\ Alone'
  BY <1>1 DEF TypeOK, Mapped, Alone, Busy, InFree, Live
<1>7. Connected'
  <2>1. \A a \in Addrs : heap[a].fd = NoFd
    BY <1>1 DEF Connected
  <2>2. \A u \in Threads : pc[u] # "insert" /\ (u # t => pc[u] # "accept")
    BY <1>1 DEF Connected
  <2>3. conns + 1 \notin ended /\ conns + 1 # NoFd
    BY <1>0 DEF NoFd
  <2>. QED
    BY <1>0, <1>1, <1>2, <2>1, <2>2, <2>3 DEF TypeOK, Connected
<1>8. Cloned'
  BY <1>1 DEF TypeOK, Cloned, Live
<1>. QED
  BY <1>2, <1>3, <1>4, <1>5, <1>6, <1>7, <1>8

\* The new master is put in the map.
LEMMA InsertStep ==
  ASSUME IInv, NEW t \in Threads, TraceInsert(t)
  PROVE  IInv' /\ Kept
<1>. USE DEF IInv, TraceInsert, EndTrace, tcp
<1>1. pc[t] = "insert" /\ traceContextMap[fn[t]] = NoAddr /\ inside[t] = 0 /\ victim[t] = NoAddr
      /\ fn[t] \in Funcs /\ sid[t] # 0
  BY DEF TypeOK, Control, Tracing, InFree
<1>2. /\ sid[t] \in Sessions /\ at[sid[t]] = NoAddr
      /\ \A b \in Addrs : heap[b].id # sid[t]
      /\ \A u \in Threads : u # t => sid[u] # sid[t] /\ inside[u] # sid[t]
      /\ \A c \in clones : c[2] # sid[t]
  BY <1>1, NewIsNobody
<1>3. PICK a \in Addrs :
        /\ heap[a] = Free
        /\ heap' = [heap EXCEPT ![a] = [id |-> sid[t], fd |-> cfd[t], auto |-> FALSE]]
        /\ at' = [at EXCEPT ![sid[t]] = a]
        /\ traceContextMap' = [traceContextMap EXCEPT ![fn[t]] = a]
  OBVIOUS
<1>4. /\ pc' = [pc EXCEPT ![t] = "idle"] /\ sid' = [sid EXCEPT ![t] = 0]
      /\ fn' = [fn EXCEPT ![t] = NoFunc] /\ cfd' = [cfd EXCEPT ![t] = NoFd]
  BY <1>1
<1>5. heap[a].id = 0 /\ heap[a].fd = NoFd /\ cfd[t] = fd /\ fd # NoFd
  BY <1>1, <1>3 DEF Free, Connected
<1>6. /\ heap'[a].id = sid[t] /\ heap'[a].fd = fd /\ at'[sid[t]] = a
      /\ \A b \in Addrs : b # a => heap'[b] = heap[b]
      /\ \A s \in Sessions : s # sid[t] => at'[s] = at[s]
  BY <1>2, <1>3, <1>5 DEF TypeOK
<1>7. a # NoAddr /\ \A f \in Funcs : traceContextMap[f] # a
  BY <1>5, SessionAssumption DEF Mapped
<1>8. TypeOK'
  <2>1. [id |-> sid[t], fd |-> cfd[t], auto |-> FALSE] \in Masters
    BY DEF TypeOK, Masters
  <2>2. heap' \in [Addrs -> Masters] /\ at' \in [Sessions -> Addrs \cup {NoAddr}]
        /\ traceContextMap' \in [Funcs -> Addrs \cup {NoAddr}]
    BY <1>3, <2>1 DEF TypeOK
  <2>3. 0 \in 0..MaxTraces /\ NoFd \in Nat /\ "idle" \in Points
    BY SessionAssumption DEF Points, NoFd
  <2>4. pc' \in [Threads -> Points] /\ sid' \in [Threads -> 0..MaxTraces]
        /\ fn' \in [Threads -> Funcs \cup {NoFunc}] /\ cfd' \in [Threads -> Nat]
    BY <1>4, <2>3 DEF TypeOK
  <2>. QED
    BY <2>2, <2>4 DEF TypeOK
<1>9. Control'
  <2>1. \A u \in Threads : inside[u] # 0 => inside[u] \in Sessions /\ inside[u] # sid[t]
    BY <1>1, <1>2, SessionAssumption DEF TypeOK, Sessions
  <2>2. \A u \in Threads : inside[u] # 0 => at'[inside[u]] = at[inside[u]]
    BY <1>6, <2>1
  <2>. QED
    BY <1>1, <1>4, <2>2 DEF TypeOK, Control, Tracing, InFree
<1>10. Numbers'
  <2>1. \A b \in Addrs : IF heap'[b].id = 0 THEN heap'[b] = Free ELSE at'[heap'[b].id] = b
    <3>1. ASSUME NEW b \in Addrs, b # a
          PROVE  IF heap'[b].id = 0 THEN heap'[b] = Free ELSE at'[heap'[b].id] = b
      BY <1>2, <1>6, <3>1, MasterIs
    <3>. QED
      BY <1>1, <1>6, <3>1
  <2>2. \A u \in Threads : sid'[u] = IF u = t THEN 0 ELSE sid[u]
    BY <1>4 DEF TypeOK
  <2>3. \A s \in Sessions : s > made => at'[s] = NoAddr
    <3>1. sid[t] <= made /\ made \in Nat /\ sid[t] \in Nat
      BY <1>1 DEF Numbers, TypeOK
    <3>. QED
      BY <1>6, <3>1 DEF Numbers, Sessions
  <2>4. \A u \in Threads : u # t /\ sid[u] # 0 => sid[u] \in Sessions /\ at'[sid[u]] = NoAddr
    BY <1>2, <1>6, NewIsNobody
  <2>. QED
    BY <2>1, <2>2, <2>3, <2>4 DEF Numbers
<1>11. Kept
  <2>1. \A b \in Addrs : heap'[b].fd # NoFd <=> heap[b].fd # NoFd \/ b = a
    BY <1>5, <1>6
  <2>2. \A u \in Threads : pc'[u] = "insert" <=> pc[u] = "insert" /\ u # t
    BY <1>4 DEF TypeOK
  <2>3. \A u \in Threads : u # t => sid'[u] = sid[u]
    BY <1>4 DEF TypeOK
  <2>4. \A s : s \in Holders <=> (\E b \in Addrs : heap[b].fd # NoFd /\ heap[b].id = s)
                                  \/ (\E u \in Threads : pc[u] = "insert" /\ sid[u] = s)
    BY DEF Holders
  <2>5. \A s : s \in Holders' <=> (\E b \in Addrs : heap'[b].fd # NoFd /\ heap'[b].id = s)
                                   \/ (\E u \in Threads : pc'[u] = "insert" /\ sid'[u] = s)
    BY DEF Holders
  <2>6. \A s : s \in Holders' <=> s \in Holders
    BY <1>1, <1>5, <1>6, <2>1, <2>2, <2>3, <2>4, <2>5
  <2>. QED
    BY <2>6 DEF Kept
<1>12. Mapped'
  <2>1. \A f \in Funcs : traceContextMap'[f] = IF f = fn[t] THEN a ELSE traceContextMap[f]
    BY <1>3 DEF TypeOK
  <2>2. \A f \in Funcs : traceContextMap[f] # NoAddr => traceContextMap[f] \in Addrs
    BY DEF TypeOK
  <2>3. \A f, g \in Funcs : traceContextMap'[f] = traceContextMap'[g] /\ traceContextMap'[f] # NoAddr => f = g
    BY <1>7, <2>1 DEF Mapped
  <2>4. \A f \in Funcs : traceContextMap'[f] # NoAddr => heap'[traceContextMap'[f]].id # 0
    BY <1>1, <1>6, <1>7, <2>1, <2>2 DEF Mapped
  <2>5. ASSUME NEW u \in Threads, pc'[u] \in {"connect", "accept", "insert"}
        PROVE  traceContextMap'[fn'[u]] = NoAddr
    <3>1. u # t /\ pc[u] = pc'[u] /\ fn'[u] = fn[u]
      BY <1>4, <2>5 DEF TypeOK
    <3>2. fn[u] \in Funcs /\ fn[u] # fn[t]
      BY <1>1, <2>5, <3>1 DEF TypeOK, Control, Tracing, Alone, Busy
    <3>. QED
      BY <2>1, <2>5, <3>1, <3>2 DEF Mapped
  <2>6. ASSUME NEW u \in Threads, pc'[u] \in InFree
        PROVE  \E f \in Funcs : traceContextMap'[f] = victim'[u] /\ (fn'[u] # NoFunc => f = fn'[u])
    <3>1. u # t /\ pc[u] \in InFree /\ fn'[u] = fn[u] /\ victim' = victim
      BY <1>4, <2>6 DEF TypeOK, InFree
    <3>2. PICK f \in Funcs : traceContextMap[f] = victim[u] /\ (fn[u] # NoFunc => f = fn[u])
      BY <3>1 DEF Mapped
    <3>3. f # fn[t]
      BY <1>1, <3>1, <3>2 DEF Control
    <3>. QED
      BY <2>1, <3>1, <3>2, <3>3
  <2>. QED
    BY <2>3, <2>4, <2>5, <2>6 DEF Mapped
<1>13. Alone'
  <2>1. \A u \in Threads : inside[u] # 0 => inside[u] \in Sessions /\ inside[u] # sid[t] /\ at[inside[u]] \in Addrs
    BY <1>1, <1>2, SessionAssumption DEF TypeOK, Sessions, Control
  <2>2. \A u \in Threads : Live(inside[u])' =>
          Live(inside[u]) /\ at'[inside[u]] = at[inside[u]] /\ at[inside[u]] # a
    BY <1>6, <2>1 DEF Live
  <2>3. \A u \in Threads, g \in Funcs : Busy(u, g)' => Busy(u, g) /\ u # t
    <3>. SUFFICES ASSUME NEW u \in Threads, NEW g \in Funcs, Busy(u, g)' PROVE Busy(u, g) /\ u # t
      OBVIOUS
    <3>1. u # t
      BY <1>4, SessionAssumption DEF TypeOK, Busy, InFree, Funcs
    <3>2. pc'[u] = pc[u] /\ fn'[u] = fn[u] /\ victim' = victim
      BY <1>4, <3>1 DEF TypeOK
    <3>3. pc[u] \in InFree => victim[u] # a
      <4>. SUFFICES ASSUME pc[u] \in InFree PROVE victim[u] # a
        OBVIOUS
      <4>1. heap[victim[u]].id \in Sessions
        BY VictimIs
      <4>. QED
        BY <1>5, <4>1, SessionAssumption DEF Sessions
    <3>4. traceContextMap'[g] = a \/ traceContextMap'[g] = traceContextMap[g]
      BY <1>3 DEF TypeOK
    <3>. QED
      BY <3>1, <3>2, <3>3, <3>4 DEF Busy
  <2>4. \A g \in Funcs : traceContextMap'[g] = a \/ traceContextMap'[g] = traceContextMap[g]
    BY <1>3 DEF TypeOK
  <2>. QED
    BY <2>2, <2>3, <2>4 DEF Alone
<1>14. Connected'
  <2>1. \A u \in Threads : u # t => pc'[u] = pc[u] /\ cfd'[u] = cfd[u]
    BY <1>4 DEF TypeOK
  <2>2. pc'[t] = "idle" /\ pc[t] = "insert"
    BY <1>1, <1>4 DEF TypeOK
  <2>3. \A u \in Threads : pc[u] = "delete" => victim[u] # a /\ victim[u] \in Addrs
    <3>1. ASSUME NEW u \in Threads, pc[u] = "delete" PROVE victim[u] \in Addrs /\ heap[victim[u]].id \in Sessions
      BY <3>1, VictimIs DEF InFree
    <3>. QED
      BY <1>5, <3>1, SessionAssumption DEF Sessions
  <2>4. Holders' = Holders /\ ended' = ended
    BY <1>11 DEF Kept
  <2>5. \A u \in Threads : pc'[u] = "accept" <=> tcpLock' = u
    BY <2>1, <2>2 DEF Connected
  <2>6. \A u \in Threads : pc'[u] = "insert" => cfd'[u] = fd' /\ fd' # NoFd
    BY <2>1, <2>2 DEF Connected
  <2>7. ASSUME NEW b \in Addrs
        PROVE  /\ heap'[b].fd # NoFd => heap'[b].fd = fd'
               /\ heap'[b].id # 0 => heap'[b].fd # NoFd \/ \E u \in Threads : pc'[u] = "delete" /\ victim'[u] = b
    BY <1>5, <1>6, <2>1, <2>2 DEF Connected
  <2>8. \A u \in Threads : pc'[u] = "delete" => heap'[victim'[u]].fd = NoFd
    BY <1>6, <2>1, <2>2, <2>3 DEF Connected
  <2>. QED
    BY <2>4, <2>5, <2>6, <2>7, <2>8 DEF Connected
<1>15. Cloned'
  <2>1. \A c \in clones : c[2] \in Sessions /\ c[2] # sid[t]
    BY <1>2 DEF TypeOK
  <2>2. \A c \in clones : at'[c[2]] = at[c[2]] /\ at[c[2]] # a
    BY <1>5, <1>6, <2>1 DEF Cloned, Live
  <2>3. \A u \in Threads : pc'[u] \in {"release", "delete"} => pc[u] \in {"release", "delete"}
    BY <1>4 DEF TypeOK
  <2>. QED
    BY <1>6, <2>1, <2>2, <2>3 DEF Cloned, Live
<1>16. RefcountExact'
  BY <1>11 DEF RefcountExact, Kept
<1>. QED
  BY <1>8, <1>9, <1>10, <1>11, <1>12, <1>13, <1>14, <1>15, <1>16

\* The loop over the clones of the session goes on: nothing but clones of its
\* own disappears.
LEMMA LoopStep ==
  ASSUME IInv, NEW t \in Threads, FreeLock(t) \/ FreeWrite(t) \/ FreeDestroy(t) \/ FreeUnlock(t)
  PROVE  IInv' /\ Kept
<1>. USE DEF IInv
<1>1. /\ pc[t] \in {"drain", "clones", "destroy"} /\ clones' \subseteq clones
      /\ UNCHANGED <<heap, at, traceContextMap, tcp, fn, sid, cfd, victim, inside, made>>
  BY DEF FreeLock, FreeWrite, FreeDestroy, FreeUnlock
<1>2. PICK p \in {"clones", "destroy", "release"} :
        pc' = [pc EXCEPT ![t] = p] /\ (p = "release" => ClonesOf(victim[t]) = {})
  BY DEF FreeLock, FreeWrite, FreeDestroy, FreeUnlock
<1>3. TypeOK'
  BY <1>1, <1>2 DEF TypeOK, Points, InFree, tcp
<1>4. Control'
  BY <1>1, <1>2 DEF TypeOK, Control, Tracing, InFree
<1>5. Numbers' /\ Kept
  BY <1>1, <1>2 DEF TypeOK, Numbers, Kept, Holders, tcp
<1>6. Mapped'
  BY <1>1, <1>2 DEF TypeOK, Mapped, InFree
<1>7. Alone'
  BY <1>1, <1>2 DEF TypeOK, Alone, Busy, InFree, Live
<1>8. Connected'
  BY <1>1, <1>2, <1>5 DEF TypeOK, Connected, Kept, tcp
<1>9. Cloned'
  <2>1. ASSUME NEW c \in clones, NEW u \in Threads, pc'[u] \in {"release", "delete"}
        PROVE  at[c[2]] # victim[u]
    <3>1. CASE u = t
      BY <1>2, <2>1, <3>1 DEF TypeOK, ClonesOf
    <3>2. CASE u # t
      BY <1>2, <2>1, <3>2 DEF TypeOK, Cloned
    <3>. QED
      BY <3>1, <3>2
  <2>. QED
    BY <1>1, <2>1 DEF Cloned, Live
<1>10. RefcountExact'
  BY <1>1, <1>5 DEF RefcountExact, Kept, tcp
<1>. QED
  BY <1>3, <1>4, <1>5, <1>6, <1>7, <1>8, <1>9, <1>10

\* The reference is dropped; the last one closes the connection.
LEMMA ReleaseStep ==
  ASSUME IInv, NEW t \in Threads, FreeRelease(t)
  PROVE  IInv' /\ Left
<1>. DEFINE v == victim[t]
            s == heap[v].id
<1>1. /\ pc[t] = "release" /\ v \in Addrs /\ s \in Sessions /\ at[s] = v
      /\ \A u \in Threads : u # t => victim[u] # v
      /\ \A u \in Threads : Live(inside[u]) => at[inside[u]] # v
      /\ heap[v].fd = fd /\ fd # NoFd
  BY VictimIs DEF FreeRelease, InFree
<1>2. /\ heap' = [heap EXCEPT ![v].fd = NoFd] /\ pc' = [pc EXCEPT ![t] = "delete"] /\ tcpLock = "free"
      /\ ended' = IF LastUser THEN ended \cup {fd} ELSE ended
      /\ refcount' = IF LastUser THEN 0 ELSE refcount - 1
      /\ fd' = IF LastUser THEN NoFd ELSE fd
      /\ UNCHANGED <<at, traceContextMap, tls, clones, text, loop, tcpLock, conns,
                     wrappers, fn, sid, cfd, victim, inside, made>>
  BY <1>1 DEF FreeRelease
<1>3. /\ heap'[v].id = s /\ heap'[v].fd = NoFd
      /\ \A a \in Addrs : heap'[a].id = heap[a].id /\ (a # v => heap'[a] = heap[a])
      /\ heap' \in [Addrs -> Masters]
  <2>1. NoFd \in Nat
    BY DEF NoFd
  <2>2. heap \in [Addrs -> Masters]
    BY DEF IInv, TypeOK
  <2>. QED
    BY <1>1, <1>2, <2>1, <2>2 DEF Masters
<1>4. pc'[t] = "delete" /\ \A u \in Threads : u # t => pc'[u] = pc[u]
  BY <1>2 DEF IInv, TypeOK
<1>5. Holders' = Holders \ {s} /\ s \in Holders
  <2>1. \A b \in Addrs : b # v => heap[b].id # s
    BY <1>1, MasterIs, SessionAssumption DEF IInv, Sessions
  <2>2. \A u \in Threads : sid[u] # s
    <3>1. s # 0
      BY <1>1, SessionAssumption DEF Sessions
    <3>2. \A u \in Threads : sid[u] # 0 => sid[u] # s
      BY <1>1, NewIsNobody
    <3>. QED
      BY <3>1, <3>2
  <2>3. \A x : x \in Holders <=> (\E b \in Addrs : heap[b].fd # NoFd /\ heap[b].id = x)
                                  \/ (\E u \in Threads : pc[u] = "insert" /\ sid[u] = x)
    BY DEF Holders
  <2>4. \A x : x \in Holders' <=> (\E b \in Addrs : heap'[b].fd # NoFd /\ heap'[b].id = x)
                                   \/ (\E u \in Threads : pc'[u] = "insert" /\ sid'[u] = x)
    BY DEF Holders
  <2>5. \A u \in Threads : pc'[u] = "insert" <=> pc[u] = "insert"
    BY <1>1, <1>4
  <2>6. sid' = sid
    BY <1>2
  <2>7. \A x : x \in Holders' <=> x \in Holders /\ x # s
    BY <1>1, <1>3, <2>1, <2>2, <2>3, <2>4, <2>5, <2>6
  <2>. QED
    BY <1>1, <2>3, <2>7
<1>6. /\ IsFiniteSet(Holders) /\ Cardinality(Holders) \in Nat /\ refcount = Cardinality(Holders)
      /\ Cardinality(Holders') = Cardinality(Holders) - 1
      /\ IsFiniteSet(Holders')
  <2>1. IsFiniteSet(Holders) /\ Cardinality(Holders) \in Nat
    BY HoldersFinite DEF IInv
  <2>2. Cardinality(Holders \ {s}) = Cardinality(Holders) - 1 /\ IsFiniteSet(Holders \ {s})
    BY <1>5, <2>1, FS_RemoveElement
  <2>. QED
    BY <1>5, <2>1, <2>2 DEF IInv, RefcountExact
<1>7. Cardinality(Holders') \in Nat /\ (Cardinality(Holders') = 0 <=> Holders' = {})
  BY <1>6, FS_CardinalityType, FS_EmptySet
<1>8. LastUser <=> Holders' = {}
  BY <1>6, <1>7 DEF LastUser
<1>9. RefcountExact' /\ refcount' \in Nat
  BY <1>2, <1>6, <1>7, <1>8 DEF RefcountExact, LastUser
<1>10. Left
  BY <1>1, <1>2, <1>5, <1>8 DEF Left, IInv, Connected
<1>11. ~LastUser => fd' = fd /\ ended' = ended
  BY <1>2
<1>12. TypeOK'
  <2>1. fd \in 1..conns
    BY <1>1 DEF IInv, TypeOK, Connected, NoFd
  <2>2. ended' \subseteq 1..conns /\ fd' \in Nat
    BY <1>2, <2>1 DEF IInv, TypeOK, NoFd
  <2>3. pc' \in [Threads -> Points]
    BY <1>2 DEF IInv, TypeOK, Points, InFree
  <2>. QED
    BY <1>2, <1>3, <1>9, <2>2, <2>3 DEF IInv, TypeOK
<1>13. Control'
  BY <1>1, <1>2, <1>4 DEF IInv, Control, Tracing, InFree
<1>14. Numbers'
  <2>1. ASSUME NEW a \in Addrs PROVE IF heap'[a].id = 0 THEN heap'[a] = Free ELSE at'[heap'[a].id] = a
    <3>1. CASE a = v
      BY <1>1, <1>2, <1>3, <3>1, SessionAssumption DEF Sessions
    <3>2. CASE a # v
      BY <1>2, <1>3, <3>2 DEF IInv, Numbers
    <3>. QED
      BY <3>1, <3>2
  <2>. QED
    BY <1>2, <2>1 DEF IInv, Numbers
<1>15. Mapped'
  <2>1. \A f \in Funcs : traceContextMap[f] # NoAddr => traceContextMap[f] \in Addrs
    BY DEF IInv, TypeOK
  <2>2. \A u \in Threads : pc'[u] \in {"connect", "accept", "insert"} \cup InFree => pc'[u] = pc[u] \/ u = t
    BY <1>4
  <2>. QED
    BY <1>1, <1>2, <1>3, <1>4, <2>1, <2>2 DEF IInv, Mapped, InFree
<1>16. Alone'
  <2>1. \A u \in Threads : inside[u] # 0 => at[inside[u]] \in Addrs
    BY DEF IInv, Control
  <2>2. \A u \in Threads : Live(inside[u])' <=> Live(inside[u])
    BY <1>2, <1>3, <2>1 DEF Live
  <2>3. \A u \in Threads, g \in Funcs : Busy(u, g)' <=> Busy(u, g)
    BY <1>1, <1>2, <1>4 DEF Busy, InFree
  <2>. QED
    BY <1>2, <2>2, <2>3 DEF IInv, Alone
<1>17. Connected'
  <2>1. \A u \in Threads : pc'[u] = "accept" <=> tcpLock' = u
    BY <1>1, <1>2, <1>4 DEF IInv, Connected
  <2>2. tcpLock' = "free"
    BY <1>2
  <2>3. LastUser => (\A u \in Threads : pc[u] # "insert") /\ (\A a \in Addrs : heap'[a].fd = NoFd)
    <3>. SUFFICES ASSUME LastUser, Holders' = {}
         PROVE  (\A u \in Threads : pc[u] # "insert") /\ (\A a \in Addrs : heap'[a].fd = NoFd)
      BY <1>8
    <3>1. \A u \in Threads : pc'[u] # "insert"
      BY DEF Holders
    <3>2. \A a \in Addrs : heap'[a].fd = NoFd
      BY DEF Holders
    <3>. QED
      BY <1>1, <1>4, <3>1, <3>2
  <2>4. \A u \in Threads : pc'[u] = "insert" => cfd'[u] = fd' /\ fd' # NoFd
    BY <1>1, <1>2, <1>4, <2>3 DEF IInv, Connected
  <2>5. ASSUME NEW a \in Addrs
        PROVE  /\ heap'[a].fd # NoFd => heap'[a].fd = fd'
               /\ heap'[a].id # 0 => heap'[a].fd # NoFd \/ \E u \in Threads : pc'[u] = "delete" /\ victim'[u] = a
    <3>1. heap'[a].fd # NoFd => heap'[a].fd = fd'
      BY <1>2, <1>3, <2>3 DEF IInv, Connected
    <3>2. CASE a = v
      BY <1>2, <1>4, <3>1, <3>2
    <3>3. CASE a # v
      <4>1. heap[a].id # 0 => heap[a].fd # NoFd \/ \E u \in Threads : pc[u] = "delete" /\ victim[u] = a
        BY DEF IInv, Connected
      <4>. QED
        BY <1>1, <1>2, <1>3, <1>4, <3>1, <3>3, <4>1
    <3>. QED
      BY <3>2, <3>3
  <2>6. ASSUME NEW u \in Threads, pc'[u] = "delete" PROVE heap'[victim'[u]].fd = NoFd
    <3>1. CASE u = t
      BY <1>2, <1>3, <3>1
    <3>2. CASE u # t
      <4>1. pc[u] = "delete" /\ victim[u] \in Addrs
        BY <1>4, <2>6, <3>2, VictimIs DEF InFree
      <4>. QED
        BY <1>1, <1>2, <1>3, <3>2, <4>1 DEF IInv, Connected
    <3>. QED
      BY <3>1, <3>2
  <2>7. fd' # NoFd => Holders' # {} /\ fd' = conns' /\ fd' \notin ended'
    BY <1>2, <1>8, <1>11 DEF IInv, Connected
  <2>. QED
    BY <2>1, <2>2, <2>4, <2>5, <2>6, <2>7 DEF Connected
<1>18. Cloned'
  <2>1. ASSUME NEW c \in clones PROVE at[c[2]] \in Addrs /\ Live(c[2])' /\ \A u \in Threads : pc'[u] \in {"release", "delete"} => at[c[2]] # victim[u]
    BY <1>1, <1>2, <1>3, <1>4 DEF IInv, Cloned, Live
  <2>. QED
    BY <1>2, <2>1 DEF Cloned
<1>. QED
  BY <1>9, <1>10, <1>12, <1>13, <1>14, <1>15, <1>16, <1>17, <1>18 DEF IInv

\* The master is deleted, and its entry of the map.
LEMMA DeleteStep ==
  ASSUME IInv, NEW t \in Threads, FreeDelete(t)
  PROVE  IInv' /\ Kept
<1>. DEFINE v == victim[t]
<1>1. /\ pc[t] = "delete" /\ v \in Addrs /\ v # NoAddr /\ heap[v].fd = NoFd
      /\ \A u \in Threads : u # t => victim[u] # v
      /\ \A u \in Threads : Live(inside[u]) => at[inside[u]] # v
      /\ inside[t] = 0
  BY VictimIs, SessionAssumption DEF FreeDelete, InFree, IInv, Connected, Control
<1>2. PICK p \in {"idle", "connect"} :
      /\ heap' = [heap EXCEPT ![v] = Free] /\ pc' = [pc EXCEPT ![t] = p]
      /\ p = IF sid[t] = 0 THEN "idle" ELSE "connect"
      /\ traceContextMap' = [f \in Funcs |-> IF traceContextMap[f] = v THEN NoAddr ELSE traceContextMap[f]]
      /\ victim' = [victim EXCEPT ![t] = NoAddr]
      /\ UNCHANGED <<at, tls, clones, text, loop, tcp, wrappers, fn, sid, cfd, inside, made>>
  BY DEF FreeDelete
<1>3. /\ heap'[v] = Free /\ Free.id = 0 /\ Free.fd = NoFd
      /\ \A a \in Addrs : a # v => heap'[a] = heap[a]
  BY <1>1, <1>2 DEF IInv, TypeOK, Free
<1>4. /\ pc'[t] = p /\ victim'[t] = NoAddr
      /\ \A u \in Threads : u # t => pc'[u] = pc[u] /\ victim'[u] = victim[u]
  BY <1>2 DEF IInv, TypeOK
<1>5. \A f \in Funcs : IF traceContextMap[f] = v THEN traceContextMap'[f] = NoAddr
                                                ELSE traceContextMap'[f] = traceContextMap[f]
  BY <1>2
<1>6. UNCHANGED <<at, clones, fd, refcount, tcpLock, conns, ended, fn, sid, cfd, inside, made>>
  BY <1>2 DEF tcp
<1>7. TypeOK'
  <2>1. Free \in Masters
    BY SessionAssumption DEF Free, Masters, NoFd
  <2>2. heap' \in [Addrs -> Masters] /\ victim' \in [Threads -> Addrs \cup {NoAddr}]
    BY <1>2, <2>1 DEF IInv, TypeOK
  <2>3. traceContextMap' \in [Funcs -> Addrs \cup {NoAddr}]
    BY <1>2 DEF IInv, TypeOK
  <2>4. pc' \in [Threads -> Points]
    BY <1>2 DEF IInv, TypeOK, Points, Tracing
  <2>. QED
    BY <1>6, <2>2, <2>3, <2>4 DEF IInv, TypeOK
<1>8. Control'
  BY <1>1, <1>2, <1>4, <1>6 DEF IInv, Control, Tracing, InFree
<1>9. Numbers'
  BY <1>3, <1>6 DEF IInv, Numbers
<1>10. Kept
  <2>1. \A a \in Addrs : heap'[a].fd # NoFd <=> heap[a].fd # NoFd
    BY <1>1, <1>3
  <2>2. \A a \in Addrs : heap'[a].fd # NoFd => heap'[a].id = heap[a].id
    BY <1>1, <1>3
  <2>3. \A u \in Threads : pc'[u] = "insert" <=> pc[u] = "insert"
    BY <1>1, <1>2, <1>4
  <2>. QED
    BY <1>6, <2>1, <2>2, <2>3 DEF Kept, Holders
<1>11. Mapped'
  <2>1. \A f \in Funcs : traceContextMap[f] # NoAddr => traceContextMap[f] \in Addrs
    BY DEF IInv, TypeOK
  <2>2. \A f, g \in Funcs : traceContextMap'[f] = traceContextMap'[g] /\ traceContextMap'[f] # NoAddr => f = g
    BY <1>5 DEF IInv, Mapped
  <2>3. \A f \in Funcs : traceContextMap'[f] # NoAddr => heap'[traceContextMap'[f]].id # 0
    BY <1>3, <1>5, <2>1 DEF IInv, Mapped
  <2>4. ASSUME NEW u \in Threads, pc'[u] \in {"connect", "accept", "insert"}
        PROVE  traceContextMap'[fn'[u]] = NoAddr
    <3>1. fn[u] \in Funcs
      BY <1>1, <1>2, <1>4, <2>4 DEF IInv, TypeOK, Control, Tracing
    <3>2. CASE u = t
      <4>1. traceContextMap[fn[t]] = v
        BY <1>1, <3>1, <3>2, SessionAssumption DEF IInv, Mapped, InFree, Funcs
      <4>. QED
        BY <1>5, <1>6, <3>1, <3>2, <4>1
    <3>3. CASE u # t
      <4>1. traceContextMap[fn[u]] = NoAddr
        BY <1>4, <2>4, <3>3 DEF IInv, Mapped
      <4>. QED
        BY <1>5, <1>6, <3>1, <4>1
    <3>. QED
      BY <3>2, <3>3
  <2>5. ASSUME NEW u \in Threads, pc'[u] \in InFree
        PROVE  \E f \in Funcs : traceContextMap'[f] = victim'[u] /\ (fn'[u] # NoFunc => f = fn'[u])
    <3>1. u # t /\ pc[u] \in InFree /\ victim'[u] = victim[u] /\ victim[u] # v
      BY <1>1, <1>2, <1>4, <2>5 DEF InFree
    <3>2. PICK f \in Funcs : traceContextMap[f] = victim[u] /\ (fn[u] # NoFunc => f = fn[u])
      BY <3>1 DEF IInv, Mapped
    <3>. QED
      BY <1>5, <1>6, <3>1, <3>2
  <2>. QED
    BY <2>2, <2>3, <2>4, <2>5 DEF Mapped
<1>12. Alone'
  <2>1. \A u \in Threads : inside[u] # 0 => at[inside[u]] \in Addrs
    BY DEF IInv, Control
  <2>2. \A u \in Threads : Live(inside[u])' => Live(inside[u]) /\ at[inside[u]] \in Addrs
    BY <1>3, <1>6, <2>1 DEF Live
  <2>3. ASSUME NEW u \in Threads, NEW g \in Funcs, Busy(u, g)' PROVE Busy(u, g)
    <3>1. CASE fn'[u] = g
      BY <1>6, <3>1 DEF Busy
    <3>2. CASE pc'[u] \in InFree /\ victim'[u] = traceContextMap'[g]
      <4>1. u # t /\ pc[u] \in InFree /\ victim[u] = traceContextMap'[g] /\ victim[u] # NoAddr
        BY <1>2, <1>4, <3>2 DEF InFree, IInv, Control
      <4>. QED
        BY <1>5, <4>1 DEF Busy
    <3>. QED
      BY <2>3, <3>1, <3>2 DEF Busy
  <2>4. \A g \in Funcs : traceContextMap'[g] = traceContextMap[g] \/ traceContextMap'[g] = NoAddr
    BY <1>5
  <2>. QED
    BY <1>6, <2>2, <2>3, <2>4, SessionAssumption DEF IInv, Alone
<1>13. Connected'
  <2>1. \A u \in Threads : pc'[u] \in {"accept", "insert", "delete"} =>
          u # t /\ pc[u] = pc'[u] /\ victim'[u] = victim[u]
    BY <1>2, <1>4
  <2>2. \A u \in Threads : u # t => pc'[u] = pc[u] /\ victim'[u] = victim[u]
    BY <1>4
  <2>3. \A u \in Threads : pc'[u] = "accept" <=> pc[u] = "accept"
    BY <1>1, <2>1, <2>2
  <2>4. ASSUME NEW a \in Addrs
        PROVE  /\ heap'[a].fd # NoFd => heap'[a].fd = fd'
               /\ heap'[a].id # 0 => heap'[a].fd # NoFd \/ \E u \in Threads : pc'[u] = "delete" /\ victim'[u] = a
    <3>1. CASE a = v
      BY <1>3, <3>1
    <3>2. CASE a # v
      <4>1. /\ heap[a].fd # NoFd => heap[a].fd = fd
            /\ heap[a].id # 0 => heap[a].fd # NoFd \/ \E u \in Threads : pc[u] = "delete" /\ victim[u] = a
        BY DEF IInv, Connected
      <4>. QED
        BY <1>3, <1>6, <2>2, <3>2, <4>1
    <3>. QED
      BY <3>1, <3>2
  <2>5. ASSUME NEW u \in Threads, pc'[u] = "delete" PROVE heap'[victim'[u]].fd = NoFd
    <3>1. u # t /\ pc[u] = "delete" /\ victim'[u] = victim[u] /\ victim[u] \in Addrs /\ victim[u] # v
      BY <1>1, <2>1, <2>5, VictimIs DEF InFree
    <3>. QED
      BY <1>3, <3>1 DEF IInv, Connected
  <2>6. Holders' = Holders
    BY <1>10 DEF Kept
  <2>7. \A u \in Threads : pc'[u] = "insert" => cfd'[u] = fd' /\ fd' # NoFd
    BY <1>6, <2>1 DEF IInv, Connected
  <2>8. \A u \in Threads : pc'[u] = "accept" <=> tcpLock' = u
    BY <1>6, <2>3 DEF IInv, Connected
  <2>9. (tcpLock' # "free" => fd' = NoFd) /\ (fd' # NoFd => Holders' # {} /\ fd' = conns' /\ fd' \notin ended')
    BY <1>6, <2>6 DEF IInv, Connected
  <2>. QED
    BY <2>4, <2>5, <2>7, <2>8, <2>9 DEF Connected
<1>14. Cloned'
  <2>1. ASSUME NEW c \in clones
        PROVE  at[c[2]] \in Addrs /\ Live(c[2])' /\ \A u \in Threads : pc'[u] \in {"release", "delete"} => at[c[2]] # victim'[u]
    <3>1. at[c[2]] \in Addrs /\ Live(c[2]) /\ \A u \in Threads : pc[u] \in {"release", "delete"} => at[c[2]] # victim[u]
      BY DEF IInv, Cloned
    <3>. QED
      BY <1>1, <1>2, <1>3, <1>4, <1>6, <3>1 DEF Live
  <2>. QED
    BY <1>6, <2>1 DEF Cloned
<1>15. RefcountExact'
  BY <1>6, <1>10 DEF IInv, RefcountExact, Kept
<1>. QED
  BY <1>7, <1>8, <1>9, <1>10, <1>11, <1>12, <1>13, <1>14, <1>15 DEF IInv

\* Without automatic thread tracing no hook runs.
LEMMA NoHooks ==
  ASSUME ~AutoTrace, IInv, NEW t \in Threads
  PROVE  /\ ~TraceReuse(t) /\ ~CacheWrapper(t)
         /\ \A f \in UserFuncs : ~SetAutoTrace(t, f)
         /\ \A g \in StartRoutines : ~SpawnWrap(t, g) /\ \A c \in SpawnThreads : ~SpawnCached(t, g, c)
<1>1. ~TraceReuse(t)
  BY DEF TraceReuse, IInv, Mapped
<1>2. ~CacheWrapper(t)
  BY DEF CacheWrapper, IInv, TypeOK, Points, Tracing, InFree
<1>3. ~Hooked(t)
  <2>. SUFFICES ASSUME Hooked(t) PROVE FALSE
    OBVIOUS
  <2>1. at[inside[t]] \in Addrs
    BY DEF Hooked, Live, IInv, Control
  <2>2. heap[at[inside[t]]] \in Masters
    BY <2>1 DEF IInv, TypeOK
  <2>. QED
    BY <2>2 DEF Hooked, Masters
<1>. QED
  BY <1>1, <1>2, <1>3 DEF SetAutoTrace, SpawnWrap, SpawnCached

\* IInv is inductive, and a step lets at most one session in or out.
LEMMA NextIInv ==
  ASSUME ~AutoTrace, IInv, [Next]_vars
  PROVE  IInv' /\ ConnectionStep
<1>1. ASSUME NEW t \in Threads, CallStep(t) PROVE IInv' /\ ConnectionStep
  BY <1>1, NoHooks, LoopStep, ReleaseStep, DeleteStep, PreviousStep, JoinStep, ListenStep,
     AcceptStep, AcceptFailsStep, InsertStep DEF CallStep, ConnectionStep
<1>2. ASSUME NEW t \in Threads, AppStep(t) PROVE IInv' /\ ConnectionStep
  <2>1. CASE \E f \in UserFuncs : CallTrace(t, f) \/ CallFree(t, f) \/ SetAutoTrace(t, f) \/ CallWrapper(t, f)
    BY <2>1, NoHooks, CallTraceStep, CallFreeStep, CallWrapperStep DEF ConnectionStep
  <2>2. CASE FirstInsn(t) \/ Insn(t) \/ Return(t)
    BY <2>2, FirstInsnStep, TextStep, ReturnStep DEF ConnectionStep
  <2>. QED
    BY <1>2, <2>1, <2>2, NoHooks DEF AppStep
<1>3. CASE \E c \in clones : SendFrames(c)
  BY <1>3, TextStep DEF ConnectionStep
<1>4. CASE Terminated \/ UNCHANGED vars
  <2>1. UNCHANGED <<heap, at, traceContextMap, clones, fd, refcount, tcpLock, conns, ended,
                    pc, fn, sid, cfd, victim, inside, made>>
    BY <1>4 DEF Terminated, vars, tcp, local
  <2>2. Kept
    BY <2>1 DEF Kept, Holders
  <2>3. TypeOK' /\ Control' /\ Numbers' /\ Mapped' /\ Cloned' /\ Alone'
    BY <2>1 DEF IInv, TypeOK, Control, Numbers, Mapped, Cloned, Alone, Busy, Live
  <2>4. Connected' /\ RefcountExact'
    BY <2>1, <2>2 DEF IInv, Connected, RefcountExact, Kept
  <2>. QED
    BY <2>2, <2>3, <2>4 DEF IInv, ConnectionStep
<1>. QED
  BY <1>1, <1>2, <1>3, <1>4 DEF Next

\* In every reachable state IInv holds: calls of trace() and freeTrace() under
\* way are busy with different functions, and what they have reached agrees
\* with the map, the masters, the clones and the connection.
THEOREM Invariance == ASSUME ~AutoTrace PROVE Spec => []IInv
<1>1. IInv /\ [Next]_vars => IInv'
  BY NextIInv
<1>. QED
  BY InitIInv, <1>1, PTL DEF Spec

\* g_shared_tcp_refcount is the number of sessions that use the connection,
\* however many threads trace and free (initTcpServer, freeTrace).
THEOREM RefcountExactAlways == ASSUME ~AutoTrace PROVE Spec => []RefcountExact
<1>1. IInv => RefcountExact
  BY DEF IInv
<1>. QED
  BY Invariance, <1>1, PTL

\* The session of a clone is live and on the open connection.
LEMMA CloneIsOpen ==
  ASSUME IInv, NEW c \in clones
  PROVE  Live(c[2]) /\ heap[at[c[2]]].fd = fd /\ fd # NoFd /\ fd \notin ended
<1>1. /\ at[c[2]] \in Addrs /\ Live(c[2])
      /\ \A t \in Threads : pc[t] = "delete" => at[c[2]] # victim[t]
  BY DEF IInv, Cloned
<1>2. heap[at[c[2]]].id # 0
  BY <1>1 DEF Live
<1>. QED
  BY <1>1, <1>2 DEF IInv, Connected

\* The clones of a session are gone before its socket is (freeTrace drains
\* them first), so nothing is sent after the end frame.
THEOREM ClonesOnOpenSocketAlways == ASSUME ~AutoTrace PROVE Spec => []ClonesOnOpenSocket
<1>1. IInv => ClonesOnOpenSocket
  BY CloneIsOpen DEF ClonesOnOpenSocket
<1>. QED
  BY Invariance, <1>1, PTL

\* The reference counting implements the shared connection: the end frame is
\* sent when, and only when, the last session leaves.
THEOREM Refinement == ASSUME ~AutoTrace PROVE Spec => ImplementsSharedConnection
<1>1. Init => SC!SCInit
  <2>. SUFFICES ASSUME Init PROVE SC!SCInit
    OBVIOUS
  <2>1. Holders = {}
    BY DEF Init, Holders, Free
  <2>2. Cardinality(ended) = 0
    BY FS_EmptySet DEF Init
  <2>. QED
    BY <2>1, <2>2 DEF SC!SCInit
<1>2. ASSUME IInv, [Next]_vars PROVE [SC!SCNext]_(SC!scVars)
  <2>1. CASE Kept
    BY <2>1 DEF Kept, SC!scVars
  <2>2. CASE Joined
    BY <2>2 DEF Joined, SC!SCNext, SC!Attach
  <2>3. CASE Left
    <3>1. PICK s \in Sessions : /\ s \in Holders /\ Holders' = Holders \ {s}
                                /\ ended' = IF Holders' = {} THEN ended \cup {fd} ELSE ended
                                /\ fd \notin ended
      BY <2>3 DEF Left
    <3>2. IsFiniteSet(ended)
      <4>1. conns \in Int /\ ended \in SUBSET (1..conns)
        BY <1>2 DEF IInv, TypeOK
      <4>2. IsFiniteSet(1..conns)
        BY <4>1, FS_Interval
      <4>. QED
        BY <4>1, <4>2, FS_Subset
    <3>3. Cardinality(ended \cup {fd}) = Cardinality(ended) + 1
      BY <3>1, <3>2, FS_AddElement
    <3>4. Cardinality(ended)' = IF Holders' = {} THEN Cardinality(ended) + 1 ELSE Cardinality(ended)
      BY <3>1, <3>3
    <3>5. SC!Detach(s)
      BY <3>1, <3>4 DEF SC!Detach
    <3>. QED
      BY <3>5 DEF SC!SCNext
  <2>. QED
    BY <1>2, <2>1, <2>2, <2>3, NextIInv DEF ConnectionStep
<1>. QED
  BY Invariance, <1>1, <1>2, PTL DEF Spec, ImplementsSharedConnection, SC!SCSpec

\* Without hooks that wrap the same start routine, no session is left with a
\* socket that has been closed.
THEOREM SocketOutlivesSessionsAlways == ASSUME ~AutoTrace PROVE Spec => []SocketOutlivesSessions
<1>1. IInv => SocketOutlivesSessions
  BY DEF IInv, Connected, SocketOutlivesSessions
<1>. QED
  BY Invariance, <1>1, PTL

-----------------------------------------------------------------------------

\* Where text can be: only in clones that exist.  A clone is destroyed by who
\* holds g_trace_clone_lock, after its pending line has gone to its buffer, and
\* nobody writes to it meanwhile: an entry of a thread-local table that leads to
\* a clone that exists is of the session that is at its address now.
TextInv ==
  /\ pend \cup dirty \subseteq clones
  /\ \A t \in Threads : pc[t] \in {"clones", "destroy"} <=> cloneLock = t
  /\ \A t \in Threads : pc[t] = "destroy" => doomed \in ClonesOf(victim[t]) \ pend
  /\ tls \in [Threads -> [Addrs -> 0..MaxTraces]]
  /\ \A t \in Threads, a \in Addrs : tls[t][a] # 0 => at[tls[t][a]] = a

\* A step that leaves text, clones and tables alone, and the loop of freeTrace().
LEMMA TextKept ==
  ASSUME TextInv, UNCHANGED <<text, loop, clones, at>>,
         tls' \in [Threads -> [Addrs -> 0..MaxTraces]],
         \A t \in Threads, a \in Addrs : tls'[t][a] \in {0, tls[t][a]},
         \A t \in Threads : pc'[t] \in {"clones", "destroy"} <=> pc[t] \in {"clones", "destroy"},
         \A t \in Threads : pc'[t] = "destroy" => pc[t] = "destroy" /\ victim'[t] = victim[t]
  PROVE  TextInv'
BY DEF TextInv, text, loop, ClonesOf

\* freeTrace() starts: the entry of the calling thread is erased.
LEMMA TextBegin ==
  ASSUME IInv, TextInv, NEW t \in Threads, NEW v \in Addrs, BeginFree(t, v),
         UNCHANGED <<text, loop, clones, at>>, pc[t] \notin InFree,
         victim' = [victim EXCEPT ![t] = v]
  PROVE  TextInv'
<1>1. /\ tls' = [tls EXCEPT ![t][v] = 0] /\ pc' = [pc EXCEPT ![t] = "drain"]
  BY DEF BeginFree
<1>2. 0 \in 0..MaxTraces
  BY SessionAssumption
<1>3. tls' \in [Threads -> [Addrs -> 0..MaxTraces]]
  BY <1>1, <1>2 DEF TextInv
<1>4. \A u \in Threads, a \in Addrs : tls'[u][a] \in {0, tls[u][a]}
  BY <1>1 DEF TextInv
<1>5. \A u \in Threads : u # t => pc'[u] = pc[u] /\ victim'[u] = victim[u]
  BY <1>1 DEF IInv, TypeOK
<1>6. pc'[t] = "drain"
  BY <1>1 DEF IInv, TypeOK
<1>. QED
  BY <1>3, <1>4, <1>5, <1>6, TextKept DEF InFree

\* The clone that an instruction callback finds belongs to the session its
\* thread executes in, so freeTrace() is not at it.
LEMMA FoundIs ==
  ASSUME IInv, TextInv, NEW t \in Threads, Live(inside[t]), Found(t) \in clones
  PROVE  /\ Found(t)[2] = inside[t]
         /\ \A u \in Threads : pc[u] = "destroy" => doomed # Found(t)
<1>. DEFINE a == at[inside[t]]
            s == tls[t][a]
<1>1. a \in Addrs /\ heap[a].id = inside[t] /\ Found(t)[2] = s
  BY DEF Live, IInv, Control, Found
<1>2. s \in Sessions /\ s # 0
  BY <1>1, SessionAssumption DEF IInv, TypeOK, Found, Sessions
<1>3. at[s] = a
  BY <1>1, <1>2 DEF TextInv
<1>4. heap[at[s]].id = s
  BY <1>1 DEF IInv, Cloned, Live
<1>5. s = inside[t]
  BY <1>1, <1>3, <1>4
<1>6. ASSUME NEW u \in Threads, pc[u] = "destroy" PROVE doomed # Found(t)
  <2>1. at[doomed[2]] = victim[u]
    BY <1>6 DEF TextInv, ClonesOf
  <2>2. a # victim[u]
    BY <1>6, VictimIs DEF InFree
  <2>. QED
    BY <1>1, <1>3, <2>1, <2>2
<1>. QED
  BY <1>1, <1>5, <1>6

\* The loop over the clones.
LEMMA TextLoop ==
  ASSUME IInv, TextInv, NEW t \in Threads,
         FreeLock(t) \/ FreeWrite(t) \/ FreeDestroy(t) \/ FreeUnlock(t)
  PROVE  TextInv'
<1>0. "free" \notin Threads
  BY SessionAssumption DEF Threads
<1>1. CASE FreeLock(t)
  <2>1. \A u \in Threads : pc[u] \notin {"clones", "destroy"}
    BY <1>0, <1>1 DEF FreeLock, TextInv
  <2>2. cloneLock' = t /\ pc'[t] = "clones" /\ \A u \in Threads : u # t => pc'[u] = pc[u]
    BY <1>1 DEF FreeLock, IInv, TypeOK
  <2>3. UNCHANGED <<pend, dirty, clones, tls, at>>
    BY <1>1 DEF FreeLock, text
  <2>. QED
    BY <2>1, <2>2, <2>3 DEF TextInv
<1>2. CASE FreeWrite(t)
  <2>1. PICK c \in ClonesOf(victim[t]) :
          doomed' = c /\ pend' = pend \ {c} /\ dirty' = IF c \in pend THEN dirty \cup {c} ELSE dirty
    BY <1>2 DEF FreeWrite
  <2>2. cloneLock = t /\ pc'[t] = "destroy" /\ \A u \in Threads : u # t => pc'[u] = pc[u]
    BY <1>2 DEF FreeWrite, TextInv, IInv, TypeOK
  <2>3. UNCHANGED <<cloneLock, clones, tls, at, victim>>
    BY <1>2 DEF FreeWrite
  <2>4. \A u \in Threads : u # t => pc'[u] \notin {"clones", "destroy"}
    BY <2>2 DEF TextInv
  <2>5. c \in clones
    BY DEF ClonesOf
  <2>. QED
    BY <1>2, <2>1, <2>2, <2>3, <2>4, <2>5 DEF TextInv, ClonesOf, FreeWrite
<1>3. CASE FreeDestroy(t)
  <2>1. /\ clones' = clones \ {doomed} /\ doomed \notin dirty /\ doomed \notin pend
        /\ UNCHANGED <<cloneLock, pend, dirty, tls, at, victim>>
    BY <1>3 DEF FreeDestroy, text, TextInv
  <2>2. cloneLock = t /\ pc'[t] = "clones" /\ \A u \in Threads : u # t => pc'[u] = pc[u]
    BY <1>3 DEF FreeDestroy, TextInv, IInv, TypeOK
  <2>3. \A u \in Threads : u # t => pc'[u] \notin {"clones", "destroy"}
    BY <2>2 DEF TextInv
  <2>. QED
    BY <2>1, <2>2, <2>3 DEF TextInv
<1>4. CASE FreeUnlock(t)
  <2>1. cloneLock = t /\ cloneLock' = "free" /\ pc'[t] = "release" /\ \A u \in Threads : u # t => pc'[u] = pc[u]
    BY <1>4 DEF FreeUnlock, TextInv, IInv, TypeOK
  <2>2. \A u \in Threads : pc'[u] \notin {"clones", "destroy"}
    BY <2>1 DEF TextInv
  <2>3. UNCHANGED <<pend, dirty, clones, tls, at>>
    BY <1>4 DEF FreeUnlock, text
  <2>. QED
    BY <1>0, <2>1, <2>2, <2>3 DEF TextInv
<1>. QED
  BY <1>1, <1>2, <1>3, <1>4

\* A new master: the session had no address before.
LEMMA TextInsert ==
  ASSUME IInv, TextInv, NEW t \in Threads, TraceInsert(t)
  PROVE  TextInv'
<1>1. PICK a \in Addrs :
        /\ heap[a] = Free
        /\ at' = [at EXCEPT ![sid[t]] = a]
  BY DEF TraceInsert
<1>2. /\ pc[t] = "insert" /\ UNCHANGED <<tls, clones, text, loop, victim>>
      /\ \A u \in Threads : u # t => pc'[u] = pc[u]
      /\ pc'[t] \in {"idle", "cache"}
  BY DEF TraceInsert, EndTrace, IInv, TypeOK
<1>3. /\ sid[t] \in Sessions /\ at[sid[t]] = NoAddr
      /\ \A c \in clones : c[2] # sid[t]
  BY <1>2, NewIsNobody DEF IInv, Control, Tracing
<1>4. \A r \in Sessions : r # sid[t] => at'[r] = at[r]
  BY <1>1 DEF IInv, TypeOK
<1>5. \A u \in Threads, b \in Addrs : tls[u][b] # 0 => tls[u][b] \in Sessions /\ tls[u][b] # sid[t]
  BY <1>3, SessionAssumption DEF TextInv, Sessions
<1>6. \A v \in Addrs : ClonesOf(v) \subseteq ClonesOf(v)'
  BY <1>2, <1>3, <1>4 DEF ClonesOf, IInv, TypeOK
<1>7. \A u \in Threads : pc'[u] = "destroy" => pc[u] = "destroy" /\ victim[u] \in Addrs
  BY <1>2, VictimIs DEF InFree
<1>. QED
  BY <1>2, <1>4, <1>5, <1>6, <1>7 DEF TextInv, text, loop

\* Running code writes to the clone of its own session.
LEMMA TextRun ==
  ASSUME IInv, TextInv, NEW t \in Threads, FirstInsn(t) \/ Insn(t) \/ Return(t)
  PROVE  TextInv'
<1>1. CASE FirstInsn(t)
  <2>. DEFINE v == at[inside[t]]
  <2>1. /\ v \in Addrs /\ heap[v].id = inside[t] /\ inside[t] \in 1..MaxTraces
        /\ tls' = [tls EXCEPT ![t][v] = inside[t]]
        /\ clones' = clones \cup {<<t, inside[t]>>} /\ pend' = pend \cup {<<t, inside[t]>>}
        /\ UNCHANGED <<dirty, cloneLock, doomed, at, victim, pc>>
        /\ cloneLock = "free"
    BY <1>1 DEF FirstInsn, Live, local, loop, IInv, Control, TypeOK
  <2>2. at[inside[t]] = v
    OBVIOUS
  <2>. HIDE DEF v
  <2>3. tls' \in [Threads -> [Addrs -> 0..MaxTraces]]
    BY <2>1 DEF TextInv
  <2>4. \A u \in Threads, a \in Addrs :
          tls'[u][a] = IF u = t /\ a = v THEN inside[t] ELSE tls[u][a]
    BY <2>1 DEF TextInv
  <2>5. \A u \in Threads : pc[u] # "destroy"
    BY <2>1, SessionAssumption DEF TextInv, Threads
  <2>. QED
    BY <2>1, <2>2, <2>3, <2>4, <2>5 DEF TextInv
<1>2. ASSUME Live(inside[t]), Found(t) \in clones, pend' \subseteq pend \cup {Found(t)},
             dirty' \subseteq dirty \cup {Found(t)},
             UNCHANGED <<loop, clones, at, tls, victim>>,
             \A u \in Threads : pc'[u] \in {"clones", "destroy"} => pc'[u] = pc[u],
             \A u \in Threads : pc[u] \in {"clones", "destroy"} => pc'[u] = pc[u]
      PROVE  TextInv'
  <2>1. \A u \in Threads : pc[u] = "destroy" => doomed \notin pend'
    BY <1>2, FoundIs DEF TextInv
  <2>. QED
    BY <1>2, <2>1 DEF TextInv, loop, ClonesOf
<1>3. CASE Insn(t)
  <2>1. UNCHANGED <<pc, victim>>
    BY <1>3 DEF Insn, local
  <2>. QED
    BY <1>2, <1>3, <2>1 DEF Insn, Buffered
<1>4. CASE Return(t)
  <2>1. \A u \in Threads : (pc'[u] \in {"clones", "destroy"} \/ pc[u] \in {"clones", "destroy"}) => pc'[u] = pc[u]
    BY <1>4 DEF Return, IInv, TypeOK
  <2>2. CASE UNCHANGED text
    BY <1>4, <2>1, <2>2 DEF Return, TextInv, text, loop, ClonesOf
  <2>3. CASE ~UNCHANGED text
    BY <1>2, <1>4, <2>1, <2>3 DEF Return, Buffered
  <2>. QED
    BY <2>2, <2>3
<1>. QED
  BY <1>1, <1>3, <1>4

\* TextInv is inductive relative to IInv.
LEMMA NextTextInv ==
  ASSUME ~AutoTrace, IInv, TextInv, [Next]_vars
  PROVE  TextInv'
<1>0. tls \in [Threads -> [Addrs -> 0..MaxTraces]]
  BY DEF TextInv
<1>1. ASSUME NEW t \in Threads, CallStep(t) PROVE TextInv'
  <2>1. CASE FreeRelease(t) \/ FreeDelete(t)
    <3>1. UNCHANGED <<text, loop, clones, at, tls>>
      BY <2>1 DEF FreeRelease, FreeDelete
    <3>2. \A u \in Threads :
            /\ (pc'[u] \in {"clones", "destroy"} \/ pc[u] \in {"clones", "destroy"}) => pc'[u] = pc[u]
            /\ pc'[u] = "destroy" => victim'[u] = victim[u]
      BY <2>1 DEF FreeRelease, FreeDelete, IInv, TypeOK
    <3>. QED
      BY <1>0, <3>1, <3>2, TextKept
  <2>2. CASE TracePrevious(t)
    <3>1. CASE traceContextMap[fn[t]] = NoAddr
      <4>1. /\ UNCHANGED <<text, loop, clones, at, tls, victim>>
            /\ pc[t] = "previous" /\ pc' = [pc EXCEPT ![t] = "connect"]
        BY <2>2, <3>1 DEF TracePrevious
      <4>2. \A u \in Threads :
              (pc'[u] \in {"clones", "destroy"} \/ pc[u] \in {"clones", "destroy"}) => pc'[u] = pc[u]
        BY <4>1 DEF IInv, TypeOK
      <4>. QED
        BY <1>0, <4>1, <4>2, TextKept
    <3>2. CASE traceContextMap[fn[t]] # NoAddr
      <4>1. traceContextMap[fn[t]] \in Addrs /\ pc[t] \notin InFree
        BY <2>2, <3>2 DEF TracePrevious, IInv, TypeOK, Control, Tracing, InFree
      <4>2. BeginFree(t, traceContextMap[fn[t]]) /\ UNCHANGED <<text, loop, clones, at>>
        BY <2>2, <3>2 DEF TracePrevious
      <4>. QED
        BY <4>1, <4>2, TextBegin DEF BeginFree
    <3>. QED
      BY <3>1, <3>2
  <2>3. CASE TraceJoin(t) \/ TraceListen(t) \/ TraceAccept(t) \/ TraceAcceptFails(t)
    <3>1. UNCHANGED <<text, loop, clones, at, tls, victim>>
      BY <2>3 DEF TraceJoin, TraceListen, TraceAccept, TraceAcceptFails
    <3>2. \A u \in Threads :
            (pc'[u] \in {"clones", "destroy"} \/ pc[u] \in {"clones", "destroy"}) => pc'[u] = pc[u]
      BY <2>3 DEF TraceJoin, TraceListen, TraceAccept, TraceAcceptFails, EndTrace, IInv, TypeOK
    <3>. QED
      BY <1>0, <3>1, <3>2, TextKept
  <2>. QED
    BY <1>1, <2>1, <2>2, <2>3, NoHooks, TextLoop, TextInsert DEF CallStep
<1>2. ASSUME NEW t \in Threads, AppStep(t) PROVE TextInv'
  <2>1. ASSUME NEW f \in UserFuncs, CallTrace(t, f) \/ CallWrapper(t, f) PROVE TextInv'
    <3>1. UNCHANGED <<text, loop, clones, at, tls, victim>>
      BY <2>1 DEF CallTrace, CallWrapper
    <3>2. \A u \in Threads :
            (pc'[u] \in {"clones", "destroy"} \/ pc[u] \in {"clones", "destroy"}) => pc'[u] = pc[u]
      BY <2>1 DEF CallTrace, EnterTrace, CallWrapper, IInv, TypeOK
    <3>. QED
      BY <1>0, <3>1, <3>2, TextKept
  <2>2. ASSUME NEW f \in UserFuncs, CallFree(t, f) PROVE TextInv'
    <3>1. traceContextMap[f] \in Addrs /\ pc[t] \notin InFree
      BY <2>2 DEF CallFree, IInv, TypeOK, Funcs, InFree
    <3>. QED
      BY <2>2, <3>1, TextBegin DEF CallFree, BeginFree
  <2>. QED
    BY <1>2, <2>1, <2>2, NoHooks, TextRun DEF AppStep
<1>3. CASE \E c \in clones : SendFrames(c)
  <2>1. /\ UNCHANGED <<pend, cloneLock, doomed, clones, at, tls, pc, victim>>
        /\ dirty' \subseteq dirty
    BY <1>3 DEF SendFrames, loop, local
  <2>. QED
    BY <2>1 DEF TextInv, ClonesOf
<1>4. CASE Terminated \/ UNCHANGED vars
  <2>1. UNCHANGED <<text, loop, clones, at, tls, pc, victim>>
    BY <1>4 DEF Terminated, vars, local
  <2>. QED
    BY <1>0, <2>1, TextKept
<1>. QED
  BY <1>1, <1>2, <1>3, <1>4 DEF Next

\* However many threads trace, run and free: freeTrace() leaves no line behind
\* in the string builder or the buffer of a clone it deletes, and nothing is
\* left to send when the stream of a session gets its end frame.
THEOREM FreedSessionsCompleteAlways == ASSUME ~AutoTrace PROVE Spec => []FreedSessionsComplete
<1>1. Init => TextInv
  BY SessionAssumption DEF Init, TextInv, Threads
<1>2. IInv /\ TextInv /\ [Next]_vars => TextInv'
  BY NextTextInv
<1>3. ASSUME IInv, TextInv PROVE FreedSessionsComplete
  <2>. SUFFICES ASSUME NEW c \in clones PROVE heap[at[c[2]]].fd \notin ended \cup {NoFd}
    BY <1>3 DEF TextInv, FreedSessionsComplete
  <2>. QED
    BY <1>3, CloneIsOpen
<1>. QED
  BY Invariance, <1>1, <1>2, <1>3, PTL DEF Spec
=============================================================================
