-------------------------- MODULE UnidbgDumpProofs --------------------------
(***************************************************************************)
(* Proofs about UnidbgDump for all threads, pages, mappings, files and     *)
(* bounds.  The inductive invariant IInv adds to TypeOK what a session     *)
(* remembers of the entry (Faithful), when its dump is up to date          *)
(* (UpToDate) and what the maps of the threads hold (TlsInv).              *)
(***************************************************************************)
EXTENDS UnidbgDump, TLAPS

Sess ==
  [id : Nat, entry_captured : BOOLEAN, any_finalized : BOOLEAN,
   pages : SUBSET Pages, written : UNION {[S -> Nat] : S \in SUBSET Pages},
   opened_files : SUBSET Paths, dumped_pages : SUBSET Pages,
   dumped : [Pages -> Nat \cup {NotDumped}], lost : SUBSET Pages,
   rootfs : SUBSET Paths, entry : [Pages -> Nat], foreign : SUBSET Pages,
   returned : BOOLEAN]

TypeOK ==
  /\ mem \in [Pages -> Nat] /\ writes \in Nat /\ calls \in Nat
  /\ masters \in 0..MaxMasters
  /\ master \in [id : 0..MaxMasters, addr : Addrs]
  /\ finisher \in [1..MaxMasters -> Threads \cup {NoThread}]
  /\ tls \in [Threads -> [Addrs -> 0..MaxMasters]]
  /\ inside \subseteq Threads
  /\ sess \in [Threads -> Sess]
  /\ stale \subseteq Threads \X (1..MaxMasters)

\* A page that nobody else wrote holds what it held at the entry, or was saved
\* before this thread wrote it; and so it was dumped.
EntryKept(s, m) ==
  \A p \in Pages \ s.foreign :
    /\ s.entry_captured => IF p \in DOMAIN s.written THEN s.written[p] = s.entry[p]
                                                     ELSE m[p] = s.entry[p]
    /\ s.dumped[p] # NotDumped => s.dumped[p] = s.entry[p]

\* Without an entry there is nothing yet.
Blank(s) ==
  ~s.entry_captured => /\ DOMAIN s.written = {} /\ ~s.returned
                       /\ \A p \in Pages : s.dumped[p] = NotDumped

\* A page that is entered as dumped is, unless its file could not be created.
Entered(s) == \A p \in s.dumped_pages : s.dumped[p] # NotDumped \/ p \in s.lost

SessionOK(s, m) ==
  EntryKept(s, m) /\ Blank(s) /\ Entered(s) /\ (s.id # 0 => s.entry_captured)

Faithful == \A th \in Threads : SessionOK(sess[th], mem)

\* Only a thread that is not in the wrapper has a dump that is up to date.
UpToDate ==
  /\ inside # {} => master.id # 0
  /\ \A th \in inside : sess[th].entry_captured /\ ~sess[th].returned

\* The session of the handle is the newest one; the maps hold it under its
\* address, and freed ones only for threads that did not finish them.
TlsInv ==
  /\ master.id \in {0, masters}
  /\ \A th \in Threads, a \in Addrs :
       LET id == tls[th][a] IN
       /\ id <= masters
       /\ id # 0 => IF id = master.id THEN a = master.addr ELSE finisher[id] # th
  /\ \A e \in stale : e[2] <= masters /\ e[2] # master.id

IInv == TypeOK /\ Faithful /\ UpToDate /\ DumpComplete /\ TlsInv /\ NoStaleSession

-----------------------------------------------------------------------------
(* The hooks: what they make of a session.                                 *)

LEMMA NewSessionOK ==
  ASSUME NEW id \in Nat
  PROVE  /\ NewSession(id) \in Sess
         /\ \A m : EntryKept(NewSession(id), m) /\ Blank(NewSession(id))
         /\ Entered(NewSession(id))
         /\ ~NewSession(id).entry_captured /\ ~NewSession(id).any_finalized
         /\ NewSession(id).id = id /\ ~NewSession(id).returned
         /\ DOMAIN NewSession(id).written = {}
         /\ \A p \in Pages : NewSession(id).dumped[p] = NotDumped
  <1>1. [p \in {} |-> 0] \in UNION {[S -> Nat] : S \in SUBSET Pages}
    <2>1. [p \in {} |-> 0] \in [{} -> Nat]
      OBVIOUS
    <2>2. QED
      BY <2>1
  <1>2. [p \in Pages |-> NotDumped] \in [Pages -> Nat \cup {NotDumped}]
    OBVIOUS
  <1>3. [p \in Pages |-> 0] \in [Pages -> Nat]
    OBVIOUS
  <1>4. NewSession(id) \in Sess
    BY <1>1, <1>2, <1>3 DEF NewSession, Sess
  <1>5. /\ ~NewSession(id).entry_captured /\ ~NewSession(id).any_finalized
        /\ NewSession(id).id = id /\ ~NewSession(id).returned
        /\ DOMAIN NewSession(id).written = {}
        /\ NewSession(id).dumped_pages = {}
        /\ \A p \in Pages : NewSession(id).dumped[p] = NotDumped
    BY DEF NewSession
  <1>6. QED
    BY <1>4, <1>5 DEF EntryKept, Blank, Entered

\* on_entry takes the registers and with them the memory, once.
LEMMA OnEntryOK ==
  ASSUME NEW s \in Sess, mem \in [Pages -> Nat],
         EntryKept(s, mem), Blank(s), Entered(s)
  PROVE  /\ on_entry(s) \in Sess /\ Entered(on_entry(s))
         /\ on_entry(s).entry_captured /\ ~on_entry(s).returned
         /\ on_entry(s).id = s.id /\ on_entry(s).any_finalized = s.any_finalized
         /\ EntryKept(on_entry(s), mem)
  <1>1. CASE s.entry_captured
    BY <1>1 DEF on_entry, EntryKept, Entered, Sess
  <1>2. CASE ~s.entry_captured
    BY <1>2 DEF on_entry, EntryKept, Entered, Sess, Blank
  <1>3. QED
    BY <1>1, <1>2

\* What on_mem does when it saves the pages `new`.
Saved(s, ps, new) ==
  [s EXCEPT !.pages = @ \cup ps,
            !.written = [p \in DOMAIN s.written \cup new |->
                           IF p \in new THEN mem[p] ELSE s.written[p]]]

SavedOK(r, s, new) ==
  /\ r \in Sess
  /\ r.id = s.id /\ r.entry_captured = s.entry_captured
  /\ r.any_finalized = s.any_finalized /\ r.returned = s.returned
  /\ r.dumped = s.dumped /\ r.entry = s.entry /\ r.foreign = s.foreign
  /\ r.dumped_pages = s.dumped_pages /\ r.lost = s.lost
  /\ DOMAIN r.written = DOMAIN s.written \cup new
  /\ \A p \in DOMAIN r.written :
       r.written[p] = IF p \in DOMAIN s.written THEN s.written[p] ELSE mem[p]

\* on_mem saves a page before its first write, and only then.
LEMMA OnMemOK ==
  ASSUME NEW s \in Sess, mem \in [Pages -> Nat], NEW ps \in SUBSET Pages,
         NEW new \in SUBSET Pages, new \cap DOMAIN s.written = {}
  PROVE  SavedOK(Saved(s, ps, new), s, new)
  <1> DEFINE w == [p \in DOMAIN s.written \cup new |->
                     IF p \in new THEN mem[p] ELSE s.written[p]]
             r == Saved(s, ps, new)
  <1>1. PICK S \in SUBSET Pages : s.written \in [S -> Nat]
    BY DEF Sess
  <1>2. DOMAIN s.written \in SUBSET Pages /\ \A p \in DOMAIN s.written : s.written[p] \in Nat
    BY <1>1
  <1>3. DOMAIN s.written \cup new \in SUBSET Pages
    BY <1>2
  <1>4. w \in [DOMAIN s.written \cup new -> Nat]
    BY <1>2, <1>3
  <1>5. w \in UNION {[T -> Nat] : T \in SUBSET Pages}
    BY <1>3, <1>4
  <1>6. r = [s EXCEPT !.pages = @ \cup ps, !.written = w]
    BY DEF Saved
  <1>7. DOMAIN w = DOMAIN s.written \cup new
    OBVIOUS
  <1>8. \A p \in DOMAIN w : w[p] = IF p \in DOMAIN s.written THEN s.written[p] ELSE mem[p]
    OBVIOUS
  <1> HIDE DEF w, r
  <1>9. /\ r \in Sess /\ r.written = w
        /\ r.id = s.id /\ r.entry_captured = s.entry_captured
        /\ r.any_finalized = s.any_finalized /\ r.returned = s.returned
        /\ r.dumped = s.dumped /\ r.entry = s.entry /\ r.foreign = s.foreign
        /\ r.dumped_pages = s.dumped_pages /\ r.lost = s.lost
    BY <1>5, <1>6 DEF Sess
  <1>10. QED
    BY <1>7, <1>8, <1>9 DEF r, SavedOK

\* The runs of some pages are made of these pages.
LEMMA RunsWithin ==
  ASSUME NEW F \in SUBSET Pages, NEW failed \in SUBSET coalesce(F)
  PROVE  UNION failed \subseteq F
  BY DEF coalesce

\* do_finalize writes what memory held at the entry, and everything it can.
LEMMA DoFinalizeOK ==
  ASSUME NEW s \in Sess, NEW th \in Threads, mem \in [Pages -> Nat], Entered(s),
         NEW failed \in SUBSET coalesce(Fresh(th, s))
  PROVE  LET r == do_finalize(th, s, failed) IN
         /\ r \in Sess
         /\ r.id = s.id /\ r.entry_captured = s.entry_captured /\ r.any_finalized
         /\ r.returned = s.returned /\ r.written = s.written
         /\ r.pages = s.pages /\ r.opened_files = s.opened_files
         /\ Complete(r, r.lost) /\ Entered(r)
         /\ EntryKept(s, mem) /\ s.entry_captured => EntryKept(r, mem)
  <1> DEFINE bad == UNION failed
             todo == ToDump(th, s)
             d == [p \in Pages |-> IF p \in Fresh(th, s) \ bad
                                   THEN PageNow(s, p) ELSE s.dumped[p]]
             r == do_finalize(th, s, failed)
  <1>1. PICK S \in SUBSET Pages : s.written \in [S -> Nat]
    BY DEF Sess
  <1>2. \A p \in Pages : PageNow(s, p) \in Nat
    BY <1>1 DEF PageNow
  <1>3. s.dumped \in [Pages -> Nat \cup {NotDumped}]
    BY DEF Sess
  <1>4. d \in [Pages -> Nat \cup {NotDumped}]
    BY <1>2, <1>3
  <1>5. todo \in SUBSET Pages
    BY DumpAssumption DEF Sess, ToDump, Expanded
  <1>6. bad \in SUBSET Pages
    <2>1. Fresh(th, s) \in SUBSET Pages
      BY <1>5 DEF Fresh
    <2>2. QED
      BY <2>1, RunsWithin
  <1>7. r = [s EXCEPT !.any_finalized = TRUE, !.dumped_pages = @ \cup todo, !.dumped = d,
                      !.rootfs = s.opened_files \ MappedPaths, !.lost = @ \cup bad]
    BY DEF do_finalize, Rootfs
  <1>8. \A p \in Pages : d[p] = IF p \in todo \ s.dumped_pages /\ p \notin bad
                                THEN PageNow(s, p) ELSE s.dumped[p]
    BY DEF Fresh
  <1>9. s.pages \subseteq todo /\ s.pages \subseteq Pages
        /\ \A q \in s.pages, p \in Pages :
             Segment[q] \notin HugeSegments /\ Segment[p] = Segment[q] => p \in todo
    BY DEF ToDump, Expanded, Sess
  <1> HIDE DEF d, r, bad, todo
  <1>10. /\ r \in Sess
         /\ r.id = s.id /\ r.entry_captured = s.entry_captured /\ r.any_finalized
         /\ r.returned = s.returned /\ r.written = s.written
         /\ r.entry = s.entry /\ r.foreign = s.foreign
         /\ r.pages = s.pages /\ r.opened_files = s.opened_files
         /\ r.dumped_pages = s.dumped_pages \cup todo /\ r.lost = s.lost \cup bad
         /\ r.dumped = d /\ r.rootfs = s.opened_files \ MappedPaths
    BY <1>4, <1>5, <1>6, <1>7 DEF Sess
  <1>11. \A p \in s.dumped_pages \cup todo : d[p] # NotDumped \/ p \in s.lost \cup bad
    <2> SUFFICES ASSUME NEW p \in s.dumped_pages \cup todo
                 PROVE  d[p] # NotDumped \/ p \in s.lost \cup bad
      OBVIOUS
    <2>1. p \in Pages
      BY <1>5 DEF Sess
    <2>2. PageNow(s, p) # NotDumped
      BY <1>2, <2>1 DEF NotDumped
    <2>3. QED
      BY <1>8, <2>1, <2>2 DEF Entered
  <1>12. Entered(r)
    BY <1>10, <1>11 DEF Entered
  <1>13. Complete(r, r.lost)
    <2>1. s.opened_files \subseteq (s.opened_files \ MappedPaths) \cup MappedPaths
      OBVIOUS
    <2>2. QED
      BY <1>9, <1>10, <1>11, <2>1 DEF Complete
  <1>14. ASSUME EntryKept(s, mem), s.entry_captured PROVE EntryKept(r, mem)
    BY <1>8, <1>10, <1>14 DEF EntryKept, PageNow
  <1>15. QED
    BY <1>10, <1>12, <1>13, <1>14 DEF r

\* ... also when it is noted that the dump is up to date.
LEMMA WrittenOutOK ==
  ASSUME NEW s \in Sess, NEW th \in Threads, mem \in [Pages -> Nat],
         SessionOK(s, mem), s.entry_captured,
         NEW failed \in SUBSET coalesce(Fresh(th, s))
  PROVE  LET r == [do_finalize(th, s, failed) EXCEPT !.returned = TRUE] IN
         r \in Sess /\ SessionOK(r, mem) /\ r.any_finalized /\ Complete(r, r.lost)
  <1> DEFINE f == do_finalize(th, s, failed)
             r == [f EXCEPT !.returned = TRUE]
  <1>1. /\ f \in Sess /\ f.entry_captured /\ f.any_finalized
        /\ Complete(f, f.lost) /\ EntryKept(f, mem) /\ Entered(f)
    BY DoFinalizeOK DEF SessionOK
  <1> HIDE DEF f
  <1>2. /\ r \in Sess /\ r.entry_captured = f.entry_captured
        /\ r.any_finalized = f.any_finalized
        /\ r.dumped = f.dumped /\ r.entry = f.entry /\ r.written = f.written
        /\ r.foreign = f.foreign /\ r.lost = f.lost /\ r.dumped_pages = f.dumped_pages
        /\ r.pages = f.pages /\ r.rootfs = f.rootfs /\ r.opened_files = f.opened_files
    BY <1>1 DEF Sess
  <1> HIDE DEF r
  <1>3. Complete(r, r.lost) /\ EntryKept(r, mem) /\ Blank(r) /\ Entered(r)
    BY <1>1, <1>2 DEF Complete, EntryKept, Blank, Entered
  <1>4. QED
    BY <1>1, <1>2, <1>3 DEF SessionOK, r, f

\* A session after somebody else wrote the pages ps, and memory is m2.
Foreign(s, ps) ==
  [s EXCEPT !.foreign = @ \cup (IF s.entry_captured THEN ps \ DOMAIN s.written ELSE {})]

LEMMA ForeignOK ==
  ASSUME NEW s \in Sess, NEW ps \in SUBSET Pages, NEW m, NEW m2,
         SessionOK(s, m), \A p \in Pages \ ps : m2[p] = m[p]
  PROVE  LET r == Foreign(s, ps) IN
         /\ r \in Sess /\ SessionOK(r, m2)
         /\ r.id = s.id /\ r.entry_captured = s.entry_captured
         /\ r.any_finalized = s.any_finalized /\ r.returned = s.returned
         /\ Complete(s, s.lost) => Complete(r, r.lost)
  <1> DEFINE r == Foreign(s, ps)
             f == s.foreign \cup (IF s.entry_captured THEN ps \ DOMAIN s.written ELSE {})
  <1>1. f \in SUBSET Pages
    BY DEF Sess
  <1>2. r = [s EXCEPT !.foreign = f]
    BY DEF Foreign
  <1> HIDE DEF r
  <1>3. /\ r \in Sess /\ r.foreign = f
        /\ r.id = s.id /\ r.entry_captured = s.entry_captured
        /\ r.any_finalized = s.any_finalized /\ r.returned = s.returned
        /\ r.dumped = s.dumped /\ r.entry = s.entry /\ r.written = s.written
        /\ r.dumped_pages = s.dumped_pages /\ r.lost = s.lost
        /\ r.pages = s.pages /\ r.rootfs = s.rootfs /\ r.opened_files = s.opened_files
    BY <1>1, <1>2 DEF Sess
  <1>4. EntryKept(r, m2)
    BY <1>3 DEF SessionOK, EntryKept
  <1>5. Blank(r) /\ Entered(r) /\ (r.id # 0 => r.entry_captured)
    BY <1>3 DEF SessionOK, Blank, Entered
  <1>6. Complete(s, s.lost) => Complete(r, r.lost)
    BY <1>3 DEF Complete
  <1>7. QED
    BY <1>3, <1>4, <1>5, <1>6 DEF SessionOK, r

-----------------------------------------------------------------------------
(* Steps.                                                                  *)

\* Every step keeps types, what sessions remember and what the maps hold.
THEOREM Invariance == Spec => []IInv
  <1>1. Init => IInv
    <2> SUFFICES ASSUME Init PROVE IInv
      OBVIOUS
    <2>1. \A th \in Threads : sess[th] = NewSession(0)
      BY DEF Init
    <2>2. master \in [id : 0..MaxMasters, addr : Addrs]
      <3>1. (CHOOSE a \in Addrs : TRUE) \in Addrs
        BY DumpAssumption
      <3>2. QED
        BY <3>1, DumpAssumption DEF Init, NoMaster
    <2>3. sess \in [Threads -> Sess]
      BY NewSessionOK DEF Init
    <2>4. TypeOK
      BY <2>2, <2>3, DumpAssumption DEF Init, TypeOK
    <2>5. Faithful
      BY <2>1, NewSessionOK DEF Faithful, SessionOK
    <2>6. DumpComplete
      BY <2>1, NewSessionOK DEF DumpComplete
    <2>7. UpToDate /\ TlsInv /\ NoStaleSession
      BY DEF Init, UpToDate, TlsInv, NoStaleSession, NoMaster
    <2>8. QED
      BY <2>4, <2>5, <2>6, <2>7 DEF IInv
  <1>2. IInv /\ [Next]_vars => IInv'
    <2> SUFFICES ASSUME IInv, [Next]_vars PROVE IInv'
      OBVIOUS
    <2> USE DEF IInv
    <2>1. ASSUME NEW a \in Addrs, Start(a) PROVE IInv'
      <3>1. \A th \in Threads : sess'[th] = NewSession(0)
        BY <2>1 DEF Start
      <3>2. sess' \in [Threads -> Sess]
        BY <2>1, NewSessionOK DEF Start
      <3>3. TypeOK'
        BY <2>1, <3>2, DumpAssumption, SMTT(60) DEF Start, TypeOK
      <3>4. Faithful'
        BY <3>1, NewSessionOK DEF Faithful, SessionOK
      <3>5. DumpComplete'
        BY <3>1, NewSessionOK DEF DumpComplete
      <3>6. UpToDate'
        BY <2>1 DEF Start, UpToDate
      <3>7. TlsInv' /\ NoStaleSession'
        BY <2>1, DumpAssumption, SMTT(60) DEF Start, TypeOK, TlsInv, NoStaleSession
      <3>8. QED
        BY <3>3, <3>4, <3>5, <3>6, <3>7
    <2>2. ASSUME NEW th \in Threads, Enter(th) PROVE IInv'
      <3> DEFINE s == Session(th)
      <3>a. master.id \in Nat /\ sess[th] \in Sess
        BY DumpAssumption DEF TypeOK
      <3>b. s = NewSession(master.id) \/ s = sess[th]
        BY DEF Session
      <3>1. s \in Sess /\ EntryKept(s, mem) /\ Blank(s) /\ Entered(s)
        <4>1. CASE s = NewSession(master.id)
          BY <3>a, <4>1, NewSessionOK
        <4>2. CASE s = sess[th]
          BY <3>a, <4>2 DEF Faithful, SessionOK
        <4>3. QED
          BY <3>b, <4>1, <4>2
      <3>2. s.id \notin {0, master.id} => s.any_finalized
        BY <3>a, <3>b, NewSessionOK DEF DumpComplete
      <3> HIDE DEF s
      <3>3. sess' = [sess EXCEPT ![th] = on_entry(s)]
        BY <2>2 DEF Enter, s
      <3>4. /\ on_entry(s) \in Sess
            /\ on_entry(s).entry_captured /\ ~on_entry(s).returned
            /\ on_entry(s).id = s.id /\ on_entry(s).any_finalized = s.any_finalized
            /\ EntryKept(on_entry(s), mem) /\ Entered(on_entry(s))
        BY <3>1, OnEntryOK DEF TypeOK
      <3>5. /\ sess' \in [Threads -> Sess] /\ sess'[th] = on_entry(s)
            /\ \A u \in Threads \ {th} : sess'[u] = sess[u]
        BY <3>3, <3>4 DEF TypeOK
      <3>6. TypeOK'
        BY <2>2, <3>5 DEF Enter, Remember, TypeOK
      <3>7. Faithful'
        BY <2>2, <3>4, <3>5 DEF Enter, Faithful, SessionOK, Blank
      <3>8. UpToDate'
        BY <2>2, <3>4, <3>5 DEF Enter, UpToDate
      <3>9. DumpComplete'
        BY <2>2, <3>2, <3>4, <3>5 DEF Enter, DumpComplete
      <3>10. TlsInv' /\ NoStaleSession'
        BY <2>2 DEF Enter, Remember, TypeOK, TlsInv, NoStaleSession
      <3>11. QED
        BY <3>6, <3>7, <3>8, <3>9, <3>10
    <2>3. ASSUME NEW th \in Threads, EnterStale(th) PROVE IInv'
      <3>1. Found(th) \in 1..MaxMasters /\ Found(th) # master.id
            /\ Found(th) <= masters /\ finisher[Found(th)] # th
        BY <2>3 DEF EnterStale, Found, TypeOK, TlsInv
      <3>2. \A e \in stale' : e \in stale \/ (e[1] = th /\ e[2] = Found(th))
        BY <2>3 DEF EnterStale
      <3>3. stale' \subseteq Threads \X (1..MaxMasters)
        BY <2>3, <3>1 DEF EnterStale, TypeOK
      <3>4. TypeOK'
        BY <2>3, <3>3 DEF EnterStale, TypeOK
      <3>5. Faithful' /\ UpToDate' /\ DumpComplete'
        BY <2>3 DEF EnterStale, Faithful, UpToDate, DumpComplete
      <3>6. TlsInv'
        BY <2>3, <3>1, <3>2 DEF EnterStale, TlsInv
      <3>7. NoStaleSession'
        BY <2>3, <3>1, <3>2 DEF EnterStale, NoStaleSession
      <3>8. QED
        BY <3>4, <3>5, <3>6, <3>7
    <2>4. ASSUME NEW th \in Threads, NEW ps \in Accesses, Read(th, ps) PROVE IInv'
      <3> DEFINE r == on_mem(sess[th], ps, FALSE)
      <3>1. ps \in SUBSET Pages /\ sess[th] \in Sess
        BY DEF Accesses, TypeOK
      <3>2. /\ r \in Sess
            /\ r.id = sess[th].id /\ r.entry_captured = sess[th].entry_captured
            /\ r.any_finalized = sess[th].any_finalized /\ r.returned = sess[th].returned
            /\ r.dumped = sess[th].dumped /\ r.entry = sess[th].entry
            /\ r.dumped_pages = sess[th].dumped_pages /\ r.lost = sess[th].lost
            /\ r.foreign = sess[th].foreign
            /\ DOMAIN r.written = DOMAIN sess[th].written
            /\ \A p \in DOMAIN r.written : r.written[p] = sess[th].written[p]
        <4>1. r = Saved(sess[th], ps, {})
          BY DEF on_mem, Saved
        <4>2. mem \in [Pages -> Nat]
          BY DEF TypeOK
        <4> HIDE DEF r
        <4>3. {} \in SUBSET Pages /\ {} \cap DOMAIN sess[th].written = {}
          BY <3>1
        <4>4. SavedOK(r, sess[th], {})
          BY <3>1, <4>1, <4>2, <4>3, OnMemOK
        <4>5. QED
          BY <4>4 DEF SavedOK
      <3>3. sess' = [sess EXCEPT ![th] = r]
        BY <2>4 DEF Read
      <3> HIDE DEF r
      <3>4. /\ sess' \in [Threads -> Sess] /\ sess'[th] = r
            /\ \A u \in Threads \ {th} : sess'[u] = sess[u]
        BY <3>2, <3>3 DEF TypeOK
      <3>5. SessionOK(r, mem)
        <4>1. SessionOK(sess[th], mem)
          BY DEF Faithful
        <4>2. QED
          BY <3>2, <4>1 DEF SessionOK, EntryKept, Blank, Entered
      <3>6. TypeOK'
        BY <2>4, <3>4 DEF Read, TypeOK
      <3>7. Faithful'
        BY <2>4, <3>4, <3>5 DEF Read, Faithful
      <3>8. ~sess[th].returned /\ UpToDate'
        <4>1. th \in inside /\ inside' = inside /\ master' = master
          BY <2>4 DEF Read
        <4>2. sess[th].entry_captured /\ ~sess[th].returned
          BY <4>1 DEF UpToDate
        <4>3. r.entry_captured /\ ~r.returned
          BY <3>2, <4>2
        <4>4. \A u \in inside : sess'[u].entry_captured /\ ~sess'[u].returned
          BY <3>4, <4>3 DEF UpToDate, TypeOK
        <4>5. QED
          BY <4>1, <4>2, <4>4 DEF UpToDate
      <3>9. DumpComplete'
        BY <2>4, <3>2, <3>4, <3>8 DEF Read, DumpComplete
      <3>10. TlsInv' /\ NoStaleSession'
        BY <2>4 DEF Read, TlsInv, NoStaleSession
      <3>11. QED
        BY <3>6, <3>7, <3>8, <3>9, <3>10
    <2>5. ASSUME NEW th \in Threads, NEW ps \in Accesses, Write(th, ps) PROVE IInv'
      <3> DEFINE s == sess[th]
                 r == on_mem(s, ps, TRUE)
      <3>1. ps \in SUBSET Pages /\ s \in Sess /\ SessionOK(s, mem)
        BY DEF Accesses, TypeOK, Faithful
      <3>2. /\ r \in Sess
            /\ r.id = s.id /\ r.entry_captured = s.entry_captured
            /\ r.any_finalized = s.any_finalized /\ r.returned = s.returned
            /\ r.dumped = s.dumped /\ r.entry = s.entry /\ r.foreign = s.foreign
            /\ r.dumped_pages = s.dumped_pages /\ r.lost = s.lost
            /\ DOMAIN r.written = DOMAIN s.written \cup ps
            /\ \A p \in DOMAIN r.written :
                 r.written[p] = IF p \in DOMAIN s.written THEN s.written[p] ELSE mem[p]
        <4>1. r = Saved(s, ps, ps \ DOMAIN s.written)
          BY DEF on_mem, Saved
        <4>2. mem \in [Pages -> Nat]
          BY DEF TypeOK
        <4> HIDE DEF r
        <4>3. (ps \ DOMAIN s.written) \in SUBSET Pages /\ (ps \ DOMAIN s.written) \cap DOMAIN s.written = {}
          BY <3>1
        <4>4. SavedOK(r, s, (ps \ DOMAIN s.written))
          BY <3>1, <4>1, <4>2, <4>3, OnMemOK
        <4>5. QED
          BY <4>4 DEF SavedOK
      <3>3. th \in inside /\ s.entry_captured /\ ~s.returned
        BY <2>5 DEF Write, UpToDate
      <3>4. sess' = [u \in Threads |-> IF u = th THEN r ELSE Foreign(sess[u], ps)]
        <4>1. /\ Others(th, ps) \in [Threads -> {Others(th, ps)[u] : u \in Threads}]
              /\ Others(th, ps)[th] = s
              /\ \A u \in Threads \ {th} : Others(th, ps)[u] = Foreign(sess[u], ps)
          BY DEF Others, Foreign
        <4>2. sess' = [Others(th, ps) EXCEPT ![th] = on_mem(Others(th, ps)[th], ps, TRUE)]
          BY <2>5 DEF Write
        <4> HIDE DEF s
        <4>3. QED
          BY <4>1, <4>2
      <3>5. mem' \in [Pages -> Nat] /\ \A p \in Pages \ ps : mem'[p] = mem[p]
        BY <2>5 DEF Write, TypeOK
      <3> HIDE DEF r
      <3>6. SessionOK(r, mem')
        BY <3>1, <3>2, <3>3, <3>5 DEF SessionOK, EntryKept, Blank, Entered
      <3>7. \A u \in Threads \ {th} :
              /\ sess'[u] \in Sess /\ SessionOK(sess'[u], mem')
              /\ sess'[u].id = sess[u].id /\ sess'[u].entry_captured = sess[u].entry_captured
              /\ sess'[u].any_finalized = sess[u].any_finalized
              /\ sess'[u].returned = sess[u].returned
              /\ Complete(sess[u], sess[u].lost) => Complete(sess'[u], sess'[u].lost)
        <4>1. SUFFICES ASSUME NEW u \in Threads \ {th}
              PROVE /\ sess'[u] \in Sess /\ SessionOK(sess'[u], mem')
                    /\ sess'[u].id = sess[u].id
                    /\ sess'[u].entry_captured = sess[u].entry_captured
                    /\ sess'[u].any_finalized = sess[u].any_finalized
                    /\ sess'[u].returned = sess[u].returned
                    /\ Complete(sess[u], sess[u].lost) => Complete(sess'[u], sess'[u].lost)
          OBVIOUS
        <4>2. sess[u] \in Sess /\ SessionOK(sess[u], mem) /\ sess'[u] = Foreign(sess[u], ps)
          BY <3>4 DEF TypeOK, Faithful
        <4>3. QED
          BY <3>1, <3>5, <4>2, ForeignOK
      <3>8. sess'[th] = r /\ sess' \in [Threads -> Sess]
        BY <3>2, <3>4, <3>7
      <3>a. /\ writes' = writes + 1
            /\ UNCHANGED <<calls, masters, master, finisher, tls, inside, stale>>
        BY <2>5 DEF Write
      <3>9. TypeOK'
        BY <3>5, <3>8, <3>a DEF TypeOK
      <3>10. Faithful'
        BY <3>6, <3>7, <3>8 DEF Faithful
      <3>11. UpToDate'
        <4>1. \A u \in inside : sess'[u].entry_captured /\ ~sess'[u].returned
          BY <3>2, <3>3, <3>7, <3>8 DEF UpToDate, TypeOK
        <4>2. QED
          BY <3>a, <4>1 DEF UpToDate
      <3>12. DumpComplete'
        BY <2>5, <3>2, <3>3, <3>7, <3>8, ZenonT(60) DEF Write, DumpComplete
      <3>13. TlsInv' /\ NoStaleSession'
        BY <2>5 DEF Write, TlsInv, NoStaleSession
      <3>14. QED
        BY <3>9, <3>10, <3>11, <3>12, <3>13
    <2>6. ASSUME NEW p \in Pages, HostWrite(p) PROVE IInv'
      <3>1. mem' \in [Pages -> Nat] /\ \A q \in Pages \ {p} : mem'[q] = mem[q]
        BY <2>6 DEF HostWrite, TypeOK
      <3>2. \A u \in Threads :
              /\ sess'[u] \in Sess /\ SessionOK(sess'[u], mem')
              /\ sess'[u].id = sess[u].id /\ sess'[u].entry_captured = sess[u].entry_captured
              /\ sess'[u].any_finalized = sess[u].any_finalized
              /\ sess'[u].returned = sess[u].returned
              /\ Complete(sess[u], sess[u].lost) => Complete(sess'[u], sess'[u].lost)
        <4>1. SUFFICES ASSUME NEW u \in Threads
              PROVE /\ sess'[u] \in Sess /\ SessionOK(sess'[u], mem')
                    /\ sess'[u].id = sess[u].id
                    /\ sess'[u].entry_captured = sess[u].entry_captured
                    /\ sess'[u].any_finalized = sess[u].any_finalized
                    /\ sess'[u].returned = sess[u].returned
                    /\ Complete(sess[u], sess[u].lost) => Complete(sess'[u], sess'[u].lost)
          OBVIOUS
        <4>2. sess[u] \in Sess /\ SessionOK(sess[u], mem) /\ sess'[u] = Foreign(sess[u], {p})
          BY <2>6 DEF HostWrite, Foreign, TypeOK, Faithful
        <4>3. QED
          BY <3>1, <4>2, ForeignOK
      <3>3. sess' \in [Threads -> Sess]
        BY <2>6, <3>2 DEF HostWrite
      <3>a. /\ writes' = writes + 1
            /\ UNCHANGED <<calls, masters, master, finisher, tls, inside, stale>>
        BY <2>6 DEF HostWrite
      <3>4. TypeOK'
        BY <3>1, <3>3, <3>a DEF TypeOK
      <3>5. Faithful'
        BY <3>2 DEF Faithful
      <3>6. UpToDate'
        BY <3>2, <3>a DEF UpToDate, TypeOK
      <3>7. DumpComplete'
        BY <2>6, <3>2 DEF HostWrite, DumpComplete
      <3>8. TlsInv' /\ NoStaleSession'
        BY <2>6 DEF HostWrite, TlsInv, NoStaleSession
      <3>9. QED
        BY <3>4, <3>5, <3>6, <3>7, <3>8
    <2>7. ASSUME NEW th \in Threads, NEW path \in Paths, Open(th, path) PROVE IInv'
      <3> DEFINE s == sess[th]
                 r == on_open(s, path)
      <3>1. s \in Sess /\ SessionOK(s, mem)
        BY DEF TypeOK, Faithful
      <3>2. /\ r \in Sess
            /\ r.id = s.id /\ r.entry_captured = s.entry_captured
            /\ r.any_finalized = s.any_finalized /\ r.returned = s.returned
            /\ r.dumped = s.dumped /\ r.entry = s.entry /\ r.foreign = s.foreign
            /\ r.dumped_pages = s.dumped_pages /\ r.lost = s.lost
            /\ r.written = s.written
        BY <3>1 DEF on_open, Sess
      <3>3. sess' = [sess EXCEPT ![th] = r]
        BY <2>7 DEF Open
      <3> HIDE DEF r
      <3>4. /\ sess' \in [Threads -> Sess] /\ sess'[th] = r
            /\ \A u \in Threads \ {th} : sess'[u] = sess[u]
        BY <3>2, <3>3 DEF TypeOK
      <3>5. SessionOK(r, mem)
        BY <3>1, <3>2 DEF SessionOK, EntryKept, Blank, Entered
      <3>6. TypeOK'
        BY <2>7, <3>4 DEF Open, TypeOK
      <3>7. Faithful'
        BY <2>7, <3>4, <3>5 DEF Open, Faithful
      <3>8. ~s.returned /\ UpToDate'
        BY <2>7, <3>2, <3>4 DEF Open, UpToDate
      <3>9. DumpComplete'
        BY <2>7, <3>2, <3>4, <3>8 DEF Open, DumpComplete
      <3>10. TlsInv' /\ NoStaleSession'
        BY <2>7 DEF Open, TlsInv, NoStaleSession
      <3>11. QED
        BY <3>6, <3>7, <3>8, <3>9, <3>10
    <2>8. ASSUME NEW th \in Threads, Return(th) PROVE IInv'
      <3>0. PICK failed \in SUBSET coalesce(Fresh(th, sess[th])) :
              sess' = [sess EXCEPT ![th] =
                         [do_finalize(th, sess[th], failed) EXCEPT !.returned = TRUE]]
        BY <2>8 DEF Return
      <3> DEFINE s == sess[th]
                 f == do_finalize(th, s, failed)
                 r == [f EXCEPT !.returned = TRUE]
      <3>1. s \in Sess /\ SessionOK(s, mem) /\ s.entry_captured
        BY <2>8 DEF Return, TypeOK, Faithful, UpToDate
      <3>2. r \in Sess /\ SessionOK(r, mem) /\ r.any_finalized /\ Complete(r, r.lost)
        BY <3>1, WrittenOutOK DEF TypeOK
      <3>3. sess' = [sess EXCEPT ![th] = r]
        BY <3>0
      <3> HIDE DEF r
      <3>4. /\ sess' \in [Threads -> Sess] /\ sess'[th] = r
            /\ \A u \in Threads \ {th} : sess'[u] = sess[u]
        BY <3>2, <3>3 DEF TypeOK
      <3>5. TypeOK'
        BY <2>8, <3>4 DEF Return, TypeOK
      <3>6. Faithful'
        BY <2>8, <3>2, <3>4 DEF Return, Faithful
      <3>7. UpToDate'
        BY <2>8, <3>4 DEF Return, UpToDate
      <3>8. DumpComplete'
        BY <2>8, <3>2, <3>4 DEF Return, DumpComplete
      <3>9. TlsInv' /\ NoStaleSession'
        BY <2>8 DEF Return, TlsInv, NoStaleSession
      <3>10. QED
        BY <3>5, <3>6, <3>7, <3>8, <3>9
    <2>9. ASSUME NEW th \in Threads, Leave(th) PROVE IInv'
      BY <2>9 DEF Leave, TypeOK, Faithful, UpToDate, DumpComplete, TlsInv, NoStaleSession
    <2>10. ASSUME NEW th \in Threads, Finish(th) PROVE IInv'
      <3>0. PICK bad \in SUBSET Files :
              sess' = [u \in Threads |->
                         IF OfMaster(u) /\ ~sess[u].any_finalized
                         THEN [do_finalize(u, sess[u], {f[2] : f \in {g \in bad : g[1] = u}})
                                 EXCEPT !.returned = TRUE]
                         ELSE sess[u]]
        BY <2>10 DEF Finish
      <3>1. \A u \in Threads :
              /\ sess'[u] \in Sess /\ SessionOK(sess'[u], mem)
              /\ sess'[u].returned => Complete(sess'[u], sess'[u].lost)
              /\ sess'[u].id # 0 => sess'[u].any_finalized
        <4>1. SUFFICES ASSUME NEW u \in Threads
              PROVE /\ sess'[u] \in Sess /\ SessionOK(sess'[u], mem)
                    /\ sess'[u].returned => Complete(sess'[u], sess'[u].lost)
                    /\ sess'[u].id # 0 => sess'[u].any_finalized
          OBVIOUS
        <4>2. sess[u] \in Sess /\ SessionOK(sess[u], mem)
          BY DEF TypeOK, Faithful
        <4>3. CASE OfMaster(u) /\ ~sess[u].any_finalized
          <5> DEFINE failed == {f[2] : f \in {g \in bad : g[1] = u}}
          <5>1. sess'[u] = [do_finalize(u, sess[u], failed) EXCEPT !.returned = TRUE]
            BY <3>0, <4>3
          <5>a. failed \in SUBSET coalesce(Fresh(u, sess[u]))
            BY <3>0 DEF Files
          <5> HIDE DEF failed
          <5>2. sess[u].entry_captured
            BY <2>10, <4>2, <4>3 DEF Finish, OfMaster, SessionOK
          <5>3. QED
            <6>1. mem \in [Pages -> Nat]
              BY DEF TypeOK
            <6>2. QED
              BY <4>2, <5>1, <5>2, <5>a, <6>1, WrittenOutOK
        <4>4. CASE ~(OfMaster(u) /\ ~sess[u].any_finalized)
          <5>1. sess'[u] = sess[u]
            BY <3>0, <4>4
          <5>2. QED
            BY <4>2, <4>4, <5>1 DEF DumpComplete, OfMaster
        <4>5. QED
          BY <4>3, <4>4
      <3>2. sess' \in [Threads -> Sess]
        BY <3>0, <3>1
      <3>3. master' = NoMaster /\ master'.id = 0 /\ master' \in [id : 0..MaxMasters, addr : Addrs]
        <4>1. (CHOOSE a \in Addrs : TRUE) \in Addrs
          BY DumpAssumption
        <4>2. QED
          BY <2>10, <4>1, DumpAssumption DEF Finish, NoMaster
      <3>4. tls' \in [Threads -> [Addrs -> 0..MaxMasters]]
        BY <2>10, DumpAssumption DEF Finish, Forget, TypeOK
      <3>5. finisher' \in [1..MaxMasters -> Threads \cup {NoThread}]
        BY <2>10 DEF Finish, TypeOK
      <3>6. TypeOK'
        BY <2>10, <3>2, <3>3, <3>4, <3>5 DEF Finish, TypeOK
      <3>7. Faithful'
        BY <2>10, <3>1 DEF Finish, Faithful
      <3>8. UpToDate' /\ DumpComplete'
        BY <2>10, <3>1 DEF Finish, UpToDate, DumpComplete
      <3>9. \A u \in Threads, a \in Addrs :
              tls'[u][a] = IF u = th /\ a = master.addr THEN 0 ELSE tls[u][a]
        BY <2>10 DEF Finish, Forget, TypeOK
      <3>10. \A id \in 1..MaxMasters :
               finisher'[id] = IF id = master.id THEN th ELSE finisher[id]
        BY <2>10 DEF Finish, TypeOK
      <3>11. TlsInv'
        <4>1. master'.id \in {0, masters'} /\ masters' = masters
          BY <2>10, <3>3 DEF Finish
        <4>2. ASSUME NEW u \in Threads, NEW a \in Addrs
              PROVE  /\ tls'[u][a] <= masters'
                     /\ tls'[u][a] # 0 => finisher'[tls'[u][a]] # u
          <5>1. tls[u][a] \in 0..MaxMasters
            BY DEF TypeOK
          <5>2. QED
            BY <3>9, <3>10, <4>1, <4>2, <5>1, DumpAssumption, SMTT(60) DEF TlsInv, TypeOK
        <4>3. \A e \in stale' : e[2] <= masters' /\ e[2] # master'.id
          BY <2>10, <3>3 DEF Finish, TlsInv, TypeOK
        <4>4. QED
          BY <3>3, <4>1, <4>2, <4>3 DEF TlsInv
      <3>12. NoStaleSession'
        <4>1. ASSUME NEW e \in stale PROVE finisher'[e[2]] # e[1]
          <5>1. e[2] \in 1..MaxMasters /\ e[2] # master.id
            BY DEF TypeOK, TlsInv
          <5>2. QED
            BY <3>10, <5>1 DEF NoStaleSession
        <4>2. QED
          BY <2>10, <4>1 DEF Finish, NoStaleSession
      <3>13. QED
        BY <3>6, <3>7, <3>8, <3>11, <3>12
    <2>11. CASE Terminated \/ UNCHANGED vars
      <3>1. UNCHANGED vars
        BY <2>11 DEF Terminated
      <3>2. QED
        BY <3>1 DEF vars, TypeOK, Faithful, UpToDate, DumpComplete, TlsInv, NoStaleSession
    <2> HIDE DEF IInv
    <2>12. QED
      BY <2>1, <2>2, <2>3, <2>4, <2>5, <2>6, <2>7, <2>8, <2>9, <2>10, <2>11 DEF Next
  <1>3. QED
    BY <1>1, <1>2, PTL DEF Spec

-----------------------------------------------------------------------------
\* Every variable keeps its type, for any number of threads, pages and files.
THEOREM TypeCorrect == Spec => []TypeOK
  <1>1. IInv => TypeOK
    BY DEF IInv
  <1>2. QED
    BY <1>1, Invariance, PTL

\* A dumped page holds what memory held when the registers were taken, over any
\* number of calls and threads, unless somebody else wrote it in between.
THEOREM DumpIsEntryAlways == Spec => []DumpIsEntry
  <1>1. IInv => DumpIsEntry
    BY DEF IInv, Faithful, SessionOK, EntryKept, DumpIsEntry
  <1>2. QED
    BY <1>1, Invariance, PTL

\* Nothing that a thread touched or opened is missing from a dump, unless its file
\* could not be created.
THEOREM DumpCompleteAlways == Spec => []DumpComplete
  <1>1. IInv => DumpComplete
    BY DEF IInv
  <1>2. QED
    BY <1>1, Invariance, PTL

\* The thread that finishes a handle never finds a session of it again.
THEOREM NoStaleSessionAlways == Spec => []NoStaleSession
  <1>1. IInv => NoStaleSession
    BY DEF IInv
  <1>2. QED
    BY <1>1, Invariance, PTL

=============================================================================
