---------------------------- MODULE TraceSession ----------------------------
(***************************************************************************)
(* Life of the trace sessions (trace/src/EastTrace.cpp), TCP mode: trace() *)
(* and freeTrace(), the per-thread clones that every instruction callback  *)
(* looks up in thread-local storage, the TCP connection all sessions share *)
(* by reference count, and the pthread_create hook that calls trace() from *)
(* inside a running session.                                               *)
(*                                                                         *)
(* A session is a master TraceInfo; it gets a number that is never reused  *)
(* next to the heap address that is.  A clone is the pair of its thread    *)
(* and its session.                                                        *)
(***************************************************************************)
EXTENDS Naturals, FiniteSets

CONSTANTS
  AppThreads,     \* threads of the app that call trace(), wrappers, freeTrace()
  SpawnThreads,   \* threads that hooked code creates with pthread_create
  UserFuncs,      \* functions the app passes to trace()
  StartRoutines,  \* thread functions of the target SO
  Addrs,          \* addresses operator new may return for a master TraceInfo
  NoAddr,         \* nullptr
  NoFunc,         \* no function
  AutoTrace,      \* does the app call vc_set_auto_trace_threads(ctx, true)?
  MaxTraces,      \* bound: calls of trace()
  HookTraces      \* how many of those calls are left to the hook

ASSUME SessionAssumption ==
  /\ AppThreads \cap SpawnThreads = {} /\ "free" \notin AppThreads \cup SpawnThreads
  /\ UserFuncs \cap StartRoutines = {}
  /\ NoAddr \notin Addrs
  /\ NoFunc \notin UserFuncs \cup StartRoutines
  /\ AutoTrace \in BOOLEAN
  /\ MaxTraces \in Nat \ {0} /\ HookTraces \in 0..MaxTraces

Threads == AppThreads \cup SpawnThreads
Funcs == UserFuncs \cup StartRoutines
Sessions == 1..MaxTraces       \* 0 stands for "no session"
NoFd == 0                      \* stands for -1; a connection has a number of its own
NoClone == <<>>

VARIABLES
  heap,       \* the masters: session, socket and auto_trace_threads by address
  at,         \* the address a session was given
  traceContextMap,
  tls,        \* tls_trace_clones of each thread: master address -> session of
              \* the clone it points to
  clones,     \* g_trace_all_clones
  cloneLock,  \* g_trace_clone_lock: its holder, or "free"
  doomed,     \* the clone that the loop of freeTrace() is at, or NoClone
  pend,       \* clones whose string builder holds a line
  dirty,      \* clones whose DirectWriteBuf holds text that is not on the socket
  fd,         \* g_shared_tcp_fd
  refcount,   \* g_shared_tcp_refcount
  tcpLock,    \* g_shared_tcp_lock: its holder, or "free"
  conns,      \* connections accepted so far
  ended,      \* connections that got their end frame and were closed
  wrappers,   \* g_thread_wrappers: start routine -> wrapped session
  pc,
  fn, sid,    \* in trace(): its funcAddr and the number of the new session
  cfd,        \* in trace(): the local tcpClientFd
  victim,     \* in freeTrace(): the master being freed
  inside,     \* the session whose VM the thread is executing in
  made        \* calls of trace() so far

local == <<pc, fn, sid, cfd, victim, inside, made>>
tcp == <<fd, refcount, tcpLock, conns, ended>>
text == <<pend, dirty>>
loop == <<cloneLock, doomed>>
vars == <<heap, at, traceContextMap, tls, clones, text, loop, tcp, wrappers, local>>

Free == [id |-> 0, fd |-> NoFd, auto |-> FALSE]

Live(s) == s # 0 /\ heap[at[s]].id = s

InTrace == {"previous", "connect", "accept", "insert", "cache"}
InFree == {"drain", "clones", "destroy", "release", "delete"}

-----------------------------------------------------------------------------
(* freeTrace()                                                             *)

\* The entry is found; only the calling thread's TLS entry is erased.
BeginFree(t, a) ==
  /\ victim' = [victim EXCEPT ![t] = a]
  /\ tls' = [tls EXCEPT ![t][a] = 0]
  /\ pc' = [pc EXCEPT ![t] = "drain"]

\* No call of trace() or freeTrace() is busy with the session of f.
NoCallOn(f) ==
  \A u \in Threads :
    /\ fn[u] # f
    /\ pc[u] \in InFree => victim[u] # traceContextMap[f]

\* The app's side of the contract: it traces a function again or frees its
\* session only when no thread is inside the wrapper, and calls a wrapper only
\* when nobody is making or freeing it.
Quiet(f) ==
  /\ NoCallOn(f)
  /\ \A u \in Threads : Live(inside[u]) => at[inside[u]] # traceContextMap[f]

CallFree(t, f) ==
  /\ t \in AppThreads /\ pc[t] = "idle"
  /\ traceContextMap[f] # NoAddr /\ Quiet(f)
  /\ BeginFree(t, traceContextMap[f])
  /\ UNCHANGED <<heap, at, traceContextMap, clones, text, loop, tcp, wrappers,
                 fn, sid, cfd, inside, made>>

\* The clones of a master.
ClonesOf(a) == {c \in clones : at[c[2]] = a}

\* Take g_trace_clone_lock.
FreeLock(t) ==
  /\ pc[t] = "drain" /\ cloneLock = "free"
  /\ cloneLock' = t
  /\ pc' = [pc EXCEPT ![t] = "clones"]
  /\ UNCHANGED <<heap, at, traceContextMap, tls, clones, text, doomed, tcp, wrappers,
                 fn, sid, cfd, victim, inside, made>>

\* The next clone of the master: its pending line goes to its buffer.
FreeWrite(t) ==
  /\ pc[t] = "clones"
  /\ \E c \in ClonesOf(victim[t]) :
       /\ doomed' = c
       /\ pend' = pend \ {c}
       /\ dirty' = IF c \in pend THEN dirty \cup {c} ELSE dirty
  /\ pc' = [pc EXCEPT ![t] = "destroy"]
  /\ UNCHANGED <<heap, at, traceContextMap, tls, clones, cloneLock, tcp, wrappers,
                 fn, sid, cfd, victim, inside, made>>

\* Mutant of FreeDestroy: destroy() does not wait for its worker.
FreeDestroyAtOnce(t) ==
  /\ pc[t] = "destroy"
  /\ clones' = clones \ {doomed}
  /\ doomed' = NoClone
  /\ pc' = [pc EXCEPT ![t] = "clones"]
  /\ UNCHANGED <<heap, at, traceContextMap, tls, text, cloneLock, tcp, wrappers,
                 fn, sid, cfd, victim, inside, made>>

\* dwBuf.destroy() flushes and waits for its worker to put everything on the
\* socket; then the clone is deleted and erased from the list.
FreeDestroy(t) ==
  /\ pc[t] = "destroy" /\ doomed \notin dirty
  /\ clones' = clones \ {doomed}
  /\ doomed' = NoClone
  /\ pc' = [pc EXCEPT ![t] = "clones"]
  /\ UNCHANGED <<heap, at, traceContextMap, tls, text, cloneLock, tcp, wrappers,
                 fn, sid, cfd, victim, inside, made>>

\* The end of the list: unlock.
FreeUnlock(t) ==
  /\ pc[t] = "clones" /\ ClonesOf(victim[t]) = {}
  /\ cloneLock' = "free"
  /\ pc' = [pc EXCEPT ![t] = "release"]
  /\ UNCHANGED <<heap, at, traceContextMap, tls, clones, text, doomed, tcp, wrappers,
                 fn, sid, cfd, victim, inside, made>>

\* Is the session that releases the connection its last user?
LastUser == refcount <= 1

\* Under g_shared_tcp_lock: drop the reference; the last one sends the end
\* frame and closes the socket.
FreeRelease(t) ==
  /\ pc[t] = "release" /\ tcpLock = "free"
  /\ LET socket == heap[victim[t]].fd
         close == socket # fd \/ LastUser
     IN /\ ended' = IF close THEN ended \cup {socket} ELSE ended
        /\ refcount' = IF socket # fd THEN refcount
                       ELSE IF LastUser THEN 0 ELSE refcount - 1
        /\ fd' = IF socket = fd /\ LastUser THEN NoFd ELSE fd
  /\ heap' = [heap EXCEPT ![victim[t]].fd = NoFd]
  /\ pc' = [pc EXCEPT ![t] = "delete"]
  /\ UNCHANGED <<at, traceContextMap, tls, clones, text, loop, tcpLock, conns,
                 wrappers, fn, sid, cfd, victim, inside, made>>

\* vc_free, delete, erase; then back to the app or to the trace() that called.
FreeDelete(t) ==
  /\ pc[t] = "delete"
  /\ heap' = [heap EXCEPT ![victim[t]] = Free]
  /\ traceContextMap' = [f \in Funcs |->
       IF traceContextMap[f] = victim[t] THEN NoAddr ELSE traceContextMap[f]]
  /\ victim' = [victim EXCEPT ![t] = NoAddr]
  /\ pc' = [pc EXCEPT ![t] = IF sid[t] = 0 THEN "idle" ELSE "connect"]
  /\ UNCHANGED <<at, tls, clones, text, loop, tcp, wrappers, fn, sid, cfd, inside, made>>

-----------------------------------------------------------------------------
(* trace()                                                                 *)

EnterTrace(t, f) ==
  /\ made < MaxTraces
  /\ made' = made + 1
  /\ fn' = [fn EXCEPT ![t] = f]
  /\ sid' = [sid EXCEPT ![t] = made + 1]
  /\ pc' = [pc EXCEPT ![t] = "previous"]

\* Top-level call: the cache of thread wrappers is cleared.
CallTrace(t, f) ==
  /\ t \in AppThreads /\ pc[t] = "idle" /\ Quiet(f)
  /\ made < MaxTraces - HookTraces
  /\ EnterTrace(t, f)
  /\ wrappers' = [g \in StartRoutines |-> 0]
  /\ UNCHANGED <<heap, at, traceContextMap, tls, clones, text, loop, tcp,
                 cfd, victim, inside>>

\* destroyPreviousTraceSession
TracePrevious(t) ==
  /\ pc[t] = "previous"
  /\ \/ /\ traceContextMap[fn[t]] # NoAddr
        /\ BeginFree(t, traceContextMap[fn[t]])
     \/ /\ traceContextMap[fn[t]] = NoAddr
        /\ pc' = [pc EXCEPT ![t] = "connect"]
        /\ UNCHANGED <<victim, tls>>
  /\ UNCHANGED <<heap, at, traceContextMap, clones, text, loop, tcp, wrappers,
                 fn, sid, cfd, inside, made>>

\* Mutants of Retain.
RetainTwice == refcount' = refcount + 2
RetainFirst == refcount' = 1

\* A session that gets the socket counts as its user.
Retain == refcount' = refcount + 1

\* The connection is up: take a reference.
TraceJoin(t) ==
  /\ pc[t] = "connect" /\ tcpLock = "free" /\ fd # NoFd
  /\ Retain
  /\ cfd' = [cfd EXCEPT ![t] = fd]
  /\ pc' = [pc EXCEPT ![t] = "insert"]
  /\ UNCHANGED <<heap, at, traceContextMap, tls, clones, text, loop, fd, tcpLock,
                 conns, ended, wrappers, fn, sid, victim, inside, made>>

\* The connection is down: wait in accept(), with g_shared_tcp_lock held.
TraceListen(t) ==
  /\ pc[t] = "connect" /\ tcpLock = "free" /\ fd = NoFd
  /\ tcpLock' = t
  /\ pc' = [pc EXCEPT ![t] = "accept"]
  /\ UNCHANGED <<heap, at, traceContextMap, tls, clones, text, loop, fd, refcount,
                 conns, ended, wrappers, fn, sid, cfd, victim, inside, made>>

\* The receiver connects.
TraceAccept(t) ==
  /\ pc[t] = "accept"
  /\ conns' = conns + 1
  /\ fd' = conns + 1
  /\ cfd' = [cfd EXCEPT ![t] = conns + 1]
  /\ Retain
  /\ tcpLock' = "free"
  /\ pc' = [pc EXCEPT ![t] = "insert"]
  /\ UNCHANGED <<heap, at, traceContextMap, tls, clones, text, loop, ended,
                 wrappers, fn, sid, victim, inside, made>>

\* trace() is done: back to the app, or into the hook that called it.
EndTrace(t, session) ==
  /\ pc' = [pc EXCEPT ![t] = IF inside[t] = 0 THEN "idle" ELSE "cache"]
  /\ sid' = [sid EXCEPT ![t] = IF inside[t] = 0 THEN 0 ELSE session]
  /\ fn' = [fn EXCEPT ![t] = IF inside[t] = 0 THEN NoFunc ELSE fn[t]]
  /\ cfd' = [cfd EXCEPT ![t] = NoFd]

\* Mutant of TraceAcceptFails: the early return forgets the lock.
TraceAcceptFailsLocked(t) ==
  /\ pc[t] = "accept"
  /\ EndTrace(t, 0)
  /\ UNCHANGED <<heap, at, traceContextMap, tls, clones, text, loop, tcp, wrappers,
                 victim, inside, made>>

\* socket, bind, listen or accept fails: the wrapper stays untraced.
TraceAcceptFails(t) ==
  /\ pc[t] = "accept"
  /\ tcpLock' = "free"
  /\ EndTrace(t, 0)
  /\ UNCHANGED <<heap, at, traceContextMap, tls, clones, text, loop, fd, refcount,
                 conns, ended, wrappers, victim, inside, made>>

\* A new master is built, at any free address, and put in the map.
TraceInsert(t) ==
  /\ pc[t] = "insert" /\ traceContextMap[fn[t]] = NoAddr
  /\ \E a \in Addrs :
       /\ heap[a] = Free
       /\ heap' = [heap EXCEPT ![a] = [id |-> sid[t], fd |-> cfd[t], auto |-> FALSE]]
       /\ at' = [at EXCEPT ![sid[t]] = a]
       /\ traceContextMap' = [traceContextMap EXCEPT ![fn[t]] = a]
  /\ EndTrace(t, sid[t])
  /\ UNCHANGED <<tls, clones, text, loop, tcp, wrappers, victim, inside, made>>

\* The wrapper has a session after all (another thread has just traced the
\* same function): its clones are destroyed, under g_trace_clone_lock and
\* without their pending lines, and the master is used again.
TraceReuse(t) ==
  /\ pc[t] = "insert" /\ traceContextMap[fn[t]] # NoAddr /\ cloneLock = "free"
  /\ LET a == traceContextMap[fn[t]]
     IN /\ tls' = [tls EXCEPT ![t][a] = 0]
        /\ clones' = clones \ ClonesOf(a)
        /\ dirty' = dirty \ ClonesOf(a)
        /\ heap' = [heap EXCEPT ![a].fd = cfd[t]]
        /\ EndTrace(t, heap[a].id)
  /\ UNCHANGED <<at, traceContextMap, pend, loop, tcp, wrappers, victim,
                 inside, made>>

\* vc_set_auto_trace_threads(ctx, true)
SetAutoTrace(t, f) ==
  /\ AutoTrace /\ t \in AppThreads /\ pc[t] = "idle"
  /\ traceContextMap[f] # NoAddr /\ Quiet(f)
  /\ heap' = [heap EXCEPT ![traceContextMap[f]].auto = TRUE]
  /\ UNCHANGED <<at, traceContextMap, tls, clones, text, loop, tcp, wrappers, local>>

-----------------------------------------------------------------------------
(* Running traced code.                                                    *)

\* The app calls the wrapper.
CallWrapper(t, f) ==
  /\ t \in AppThreads /\ pc[t] = "idle"
  /\ traceContextMap[f] # NoAddr /\ NoCallOn(f)
  /\ inside' = [inside EXCEPT ![t] = heap[traceContextMap[f]].id]
  /\ pc' = [pc EXCEPT ![t] = "run"]
  /\ UNCHANGED <<heap, at, traceContextMap, tls, clones, text, loop, tcp, wrappers,
                 fn, sid, cfd, victim, made>>

\* trace_code on a thread that has no clone of this master: make one, remember
\* it in TLS and, under g_trace_clone_lock, in the global list; its first line
\* is in the string builder.
FirstInsn(t) ==
  /\ pc[t] = "run" /\ Live(inside[t]) /\ cloneLock = "free"
  /\ LET a == at[inside[t]]
     IN /\ tls[t][a] = 0
        /\ tls' = [tls EXCEPT ![t][a] = heap[a].id]
        /\ clones' = clones \cup {<<t, heap[a].id>>}
        /\ pend' = pend \cup {<<t, heap[a].id>>}
  /\ UNCHANGED <<heap, at, traceContextMap, dirty, loop, tcp, wrappers, local>>

\* The clone that TLS has for the master t executes under.
Found(t) == <<t, tls[t][at[inside[t]]]>>

\* Text of a clone reaches its buffer.  One that destroy() has flushed already
\* is not flushed again (only a session that a hook frees is still written to).
Buffered(c) == dirty \cup ({c} \ {doomed})

\* trace_code on that clone: the pending line goes to the buffer, the new one
\* is pending.
Insn(t) ==
  /\ pc[t] = "run" /\ Live(inside[t]) /\ Found(t) \in clones
  /\ pend' = pend \cup {Found(t)}
  /\ dirty' = IF Found(t) \in pend THEN Buffered(Found(t)) ELSE dirty
  /\ UNCHANGED <<heap, at, traceContextMap, tls, clones, loop, tcp, wrappers, local>>

\* The clone's background thread sends what was flushed.
SendFrames(c) ==
  /\ c \in dirty \cap clones
  /\ dirty' = dirty \ {c}
  /\ UNCHANGED <<heap, at, traceContextMap, tls, clones, pend, loop, tcp, wrappers, local>>

\* The wrapped function is left: by a RET, whose line is written at once, or
\* in another way (longjmp), with its last line pending.
Return(t) ==
  /\ pc[t] = "run"
  /\ inside' = [inside EXCEPT ![t] = 0]
  /\ pc' = [pc EXCEPT ![t] = IF t \in AppThreads THEN "idle" ELSE "gone"]
  /\ \/ UNCHANGED text
     \/ /\ Live(inside[t]) /\ Found(t) \in clones \cap pend
        /\ pend' = pend \ {Found(t)}
        /\ dirty' = Buffered(Found(t))
  /\ UNCHANGED <<heap, at, traceContextMap, tls, clones, loop, tcp, wrappers,
                 fn, sid, cfd, victim, made>>

-----------------------------------------------------------------------------
(* pthread_create in traced code: thread_create_wrap_hook.                 *)

Hooked(t) == pc[t] = "run" /\ Live(inside[t]) /\ heap[at[inside[t]]].auto

CacheHit(g) == wrappers[g] # 0

\* The wrapper is cached: the new thread starts in it.
SpawnCached(t, g, c) ==
  /\ Hooked(t) /\ CacheHit(g) /\ pc[c] = "unborn"
  /\ pc' = [pc EXCEPT ![c] = "run"]
  /\ inside' = [inside EXCEPT ![c] = wrappers[g]]
  /\ UNCHANGED <<heap, at, traceContextMap, tls, clones, text, loop, tcp, wrappers,
                 fn, sid, cfd, victim, made>>

\* It is not: call trace() from the hook, without g_thread_wrap_lock.
SpawnWrap(t, g) ==
  /\ Hooked(t) /\ ~CacheHit(g)
  /\ EnterTrace(t, g)
  /\ UNCHANGED <<heap, at, traceContextMap, tls, clones, text, loop, tcp, wrappers,
                 cfd, victim, inside>>

\* Cache the wrapper; pthread_create then starts the thread, or fails.
CacheWrapper(t) ==
  /\ pc[t] = "cache"
  /\ wrappers' = [wrappers EXCEPT ![fn[t]] = sid[t]]
  /\ sid' = [sid EXCEPT ![t] = 0]
  /\ fn' = [fn EXCEPT ![t] = NoFunc]
  /\ \/ /\ pc' = [pc EXCEPT ![t] = "run"]
        /\ inside' = inside
     \/ \E c \in SpawnThreads :
          /\ pc[c] = "unborn"
          /\ pc' = [pc EXCEPT ![t] = "run", ![c] = "run"]
          /\ inside' = [inside EXCEPT ![c] = sid[t]]
  /\ UNCHANGED <<heap, at, traceContextMap, tls, clones, text, loop, tcp,
                 cfd, victim, made>>

-----------------------------------------------------------------------------

Init ==
  /\ heap = [a \in Addrs |-> Free]
  /\ at = [s \in Sessions |-> NoAddr]
  /\ traceContextMap = [f \in Funcs |-> NoAddr]
  /\ tls = [t \in Threads |-> [a \in Addrs |-> 0]]
  /\ clones = {} /\ pend = {} /\ dirty = {}
  /\ cloneLock = "free" /\ doomed = NoClone
  /\ fd = NoFd /\ refcount = 0 /\ tcpLock = "free" /\ conns = 0 /\ ended = {}
  /\ wrappers = [g \in StartRoutines |-> 0]
  /\ pc = [t \in Threads |-> IF t \in AppThreads THEN "idle" ELSE "unborn"]
  /\ fn = [t \in Threads |-> NoFunc]
  /\ sid = [t \in Threads |-> 0]
  /\ cfd = [t \in Threads |-> NoFd]
  /\ victim = [t \in Threads |-> NoAddr]
  /\ inside = [t \in Threads |-> 0]
  /\ made = 0

\* Steps of a call of trace() or freeTrace() that is under way.
CallStep(t) ==
  \/ FreeLock(t) \/ FreeWrite(t) \/ FreeDestroy(t) \/ FreeUnlock(t)
  \/ FreeRelease(t) \/ FreeDelete(t)
  \/ TracePrevious(t) \/ TraceJoin(t) \/ TraceListen(t)
  \/ TraceAccept(t) \/ TraceAcceptFails(t) \/ TraceInsert(t) \/ TraceReuse(t)
  \/ CacheWrapper(t)

AppStep(t) ==
  \/ \E f \in UserFuncs :
       CallTrace(t, f) \/ CallFree(t, f) \/ SetAutoTrace(t, f) \/ CallWrapper(t, f)
  \/ FirstInsn(t) \/ Insn(t) \/ Return(t)
  \/ \E g \in StartRoutines :
       SpawnWrap(t, g) \/ \E c \in SpawnThreads : SpawnCached(t, g, c)

\* The app may stop when nothing is under way.
Terminated ==
  /\ \A t \in Threads : pc[t] \in {"unborn", "idle", "gone"}
  /\ UNCHANGED vars

Next ==
  \/ \E t \in Threads : CallStep(t) \/ AppStep(t)
  \/ \E c \in clones : SendFrames(c)
  \/ Terminated

Spec == Init /\ [][Next]_vars

\* A call under way keeps running, the receiver connects (or accept fails) and
\* a clone's worker sends; what the app calls next is its own choice.
FairSpec ==
  /\ Spec
  /\ \A t \in Threads : WF_vars(CallStep(t))
  /\ \A c \in Threads \X Sessions : WF_vars(SendFrames(c))
-----------------------------------------------------------------------------
(* Properties.                                                             *)

\* The sessions that count on the connection: those with a socket, and the one
\* a trace() under way has taken a reference for.
Holders == {heap[a].id : a \in {b \in Addrs : heap[b].fd # NoFd}}
             \cup {sid[t] : t \in {u \in Threads : pc[u] = "insert"}}

\* g_shared_tcp_refcount is the number of sessions that use the connection,
\* across every interleaving of trace() and freeTrace().
RefcountExact == refcount = Cardinality(Holders)

\* A clone only exists while its session is live and its session's socket is
\* the open shared one: nothing can be sent after the end frame, nor to a
\* closed (or reopened) descriptor.
ClonesOnOpenSocket ==
  \A c \in clones : /\ Live(c[2])
                    /\ heap[at[c[2]]].fd = fd
                    /\ fd # NoFd /\ fd \notin ended

\* Even when hooks race to wrap one start routine (see TraceReuse), no session
\* is left with a socket that has been closed.
SocketOutlivesSessions ==
  \A a \in Addrs : heap[a].fd # NoFd => heap[a].fd = fd /\ fd \notin ended

\* A line is in a string builder or in a buffer only while its clone exists and
\* the stream of its session is open: freeTrace() writes the pending line,
\* destroys the buffer and has the end frame sent in this order, for each clone
\* of each thread, while other threads trace, free and send.
FreedSessionsComplete ==
  \A c \in pend \cup dirty : c \in clones /\ heap[at[c[2]]].fd \notin ended \cup {NoFd}

\* The TLS entry an instruction callback finds for its master is a clone of
\* this session, not a freed one of an earlier session at the same address
\* (freeTrace: "clean the caller's TLS, against use-after-free").
NoStaleClone ==
  \A t \in Threads :
    Live(inside[t]) =>
      LET s == tls[t][at[inside[t]]] IN s # 0 => s = inside[t] /\ <<t, s>> \in clones

\* No thread runs in, or is started in, the VM of a session that has been freed.
\* Violated: see Findings in the README.
RunsLiveSession ==
  /\ \A t \in Threads : inside[t] # 0 => Live(inside[t])
  /\ \A g \in StartRoutines : wrappers[g] # 0 => Live(wrappers[g])

\* thread_create_wrap_hook wraps a start routine only once: no two hooks are
\* wrapping it, and none wraps what is cached.
\* Violated: see Findings in the README.
WrappedOnce ==
  \A g \in StartRoutines :
    Cardinality({t \in Threads : fn[t] = g})
      + (IF wrappers[g] # 0 THEN 1 ELSE 0) <= 1

\* trace() and freeTrace() return, whoever holds g_shared_tcp_lock meanwhile.
CallsReturn ==
  \A t \in Threads :
    pc[t] \in InTrace \cup InFree ~> pc[t] \notin InTrace \cup InFree

\* The reference counting implements the shared connection: the stream ends
\* when, and only when, its last user is gone.
SC == INSTANCE SharedConnection WITH
        Users <- Sessions,
        users <- Holders,
        ended <- Cardinality(ended)
ImplementsSharedConnection == SC!SCSpec
=============================================================================
