--------------------------- MODULE PageMemProofs ---------------------------
(***************************************************************************)
(* Proofs about PageMem, for any number of pages, environments, addresses, *)
(* page tables and processors.                                             *)
(*                                                                         *)
(* TLBs (NoStaleTranslation): an environment runs on one processor and     *)
(* only once it is started, so nobody runs the address spaces a call       *)
(* changes, but for the caller, whose TLB the way out of the kernel        *)
(* empties.                                                                *)
(*                                                                         *)
(* Counts (CountsExact, FreeListExact, TablesAlone): Sound(m, D, x, y)     *)
(* says what holds of the allocator, the page tables and the shared entry  *)
(* at UTOP in the middle of a kernel function, when page x has been        *)
(* counted for a pointer that is still to be written and page y has been   *)
(* taken off the free list; each function of pmap.c has a lemma from Sound *)
(* to Sound, and the system calls compose them as the code does.  pp_ref   *)
(* has 16 bits: the theorems hold as long as no page has 2^16 users        *)
(* (FewUses), and NoWrap says that this is all they need.                  *)
(***************************************************************************)
EXTENDS PageMem, FunctionTheorems, FiniteSetTheorems, TLAPS

(* What the operations on the allocator and the page tables return.           *)
Spaces == [Envs -> [VAs -> Entries \cup {None}]]
Directories == [Envs -> [Tables -> Pages \cup {None}]]
MemRec == [ref : [Pages -> 0 .. RefLimit - 1], listed : [Pages -> Int],
           ptab : Directories, pte : Spaces, uenvs : Entries \cup {None}]

LEMMA PageAllocRec ==
    ASSUME NEW m \in MemRec, NEW p \in Pages
    PROVE  /\ PageAlloc(m, p) \in MemRec
           /\ PageAlloc(m, p).ref = m.ref
           /\ PageAlloc(m, p).listed = [m.listed EXCEPT ![p] = m.listed[p] - 1]
           /\ PageAlloc(m, p).ptab = m.ptab /\ PageAlloc(m, p).pte = m.pte
           /\ PageAlloc(m, p).uenvs = m.uenvs
BY DEF MemRec, PageAlloc

LEMMA PageFreeRec ==
    ASSUME NEW m \in MemRec, NEW p \in Pages
    PROVE  /\ PageFree(m, p) \in MemRec
           /\ PageFree(m, p).ref = m.ref
           /\ PageFree(m, p).listed = IF m.ref[p] # 0 THEN m.listed
                                      ELSE [m.listed EXCEPT ![p] = m.listed[p] + 1]
           /\ PageFree(m, p).ptab = m.ptab /\ PageFree(m, p).pte = m.pte
           /\ PageFree(m, p).uenvs = m.uenvs
BY DEF MemRec, PageFree

LEMMA Remainder == ASSUME NEW a \in Int PROVE a % RefLimit \in 0 .. RefLimit - 1
BY SizeAssumption

LEMMA IncrefRec ==
    ASSUME NEW m \in MemRec, NEW p \in Pages
    PROVE  /\ Incref(m, p) \in MemRec
           /\ Incref(m, p).ref = [m.ref EXCEPT ![p] = (m.ref[p] + 1) % RefLimit]
           /\ Incref(m, p).listed = m.listed
           /\ Incref(m, p).ptab = m.ptab /\ Incref(m, p).pte = m.pte
           /\ Incref(m, p).uenvs = m.uenvs
<1>1. m.ref[p] + 1 \in Int
  BY SizeAssumption DEF MemRec
<1>2. (m.ref[p] + 1) % RefLimit \in 0 .. RefLimit - 1
  BY <1>1, Remainder
<1> QED
  BY <1>2 DEF MemRec, Incref

LEMMA DecrefRec ==
    ASSUME NEW m \in MemRec, NEW p \in Pages
    PROVE  LET r == (m.ref[p] - 1) % RefLimit
           IN  /\ Decref(m, p) \in MemRec
               /\ Decref(m, p).ref = [m.ref EXCEPT ![p] = r]
               /\ Decref(m, p).listed = IF r = 0 THEN [m.listed EXCEPT ![p] = m.listed[p] + 1]
                                        ELSE m.listed
               /\ Decref(m, p).ptab = m.ptab /\ Decref(m, p).pte = m.pte
               /\ Decref(m, p).uenvs = m.uenvs
<1> DEFINE r == (m.ref[p] - 1) % RefLimit
           n == [m EXCEPT !.ref[p] = r]
<1>1. m.ref[p] - 1 \in Int
  BY SizeAssumption DEF MemRec
<1>2. r \in 0 .. RefLimit - 1
  BY <1>1, Remainder
<1> HIDE DEF r
<1>3. /\ n \in MemRec /\ n.ref = [m.ref EXCEPT ![p] = r] /\ n.listed = m.listed
      /\ n.ptab = m.ptab /\ n.pte = m.pte /\ n.uenvs = m.uenvs /\ n.ref[p] = r
  BY <1>2 DEF MemRec
<1>4. Decref(m, p) = IF n.ref[p] = 0 THEN PageFree(n, p) ELSE n
  BY DEF Decref, r
<1> HIDE DEF n
<1>5. CASE r = 0
  <2>1. /\ PageFree(n, p) \in MemRec /\ PageFree(n, p).ref = n.ref
        /\ PageFree(n, p).listed = [n.listed EXCEPT ![p] = n.listed[p] + 1]
        /\ PageFree(n, p).ptab = n.ptab /\ PageFree(n, p).pte = n.pte
        /\ PageFree(n, p).uenvs = n.uenvs
    <3>1. n \in MemRec /\ n.ref[p] = 0
      BY <1>3, <1>5
    <3> QED
      BY <3>1 DEF MemRec, PageFree
  <2>2. Decref(m, p) = PageFree(n, p)
    BY <1>3, <1>4, <1>5
  <2> QED
    BY <1>3, <1>5, <2>1, <2>2 DEF r
<1>6. CASE r # 0
  BY <1>3, <1>4, <1>6 DEF r
<1> QED
  BY <1>5, <1>6

LEMMA PageRemoveRec ==
    ASSUME NEW m \in MemRec, NEW e \in Envs, NEW va \in VAs
    PROVE  /\ PageRemove(m, e, va) \in MemRec
           /\ PageRemove(m, e, va).ptab = m.ptab
           /\ PageRemove(m, e, va).uenvs = m.uenvs
           /\ PageRemove(m, e, va).pte = [m.pte EXCEPT ![e][va] = None]
           /\ m.pte[e][va] = None => PageRemove(m, e, va) = m
           /\ m.pte[e][va] # None =>
                /\ m.pte[e][va].page \in Pages
                /\ PageRemove(m, e, va).ref = Decref(m, m.pte[e][va].page).ref
                /\ PageRemove(m, e, va).listed = Decref(m, m.pte[e][va].page).listed
<1>1. CASE m.pte[e][va] = None
  BY <1>1 DEF PageRemove, MemRec, Spaces
<1>2. CASE m.pte[e][va] # None
  <2> DEFINE o == m.pte[e][va].page
             n == Decref(m, o)
  <2>1. o \in Pages
    BY <1>2 DEF MemRec, Spaces, Entries
  <2>2. n \in MemRec /\ n.ptab = m.ptab /\ n.pte = m.pte /\ n.uenvs = m.uenvs
    BY <2>1, DecrefRec
  <2>3. PageRemove(m, e, va) = [n EXCEPT !.pte[e][va] = None]
    BY <1>2 DEF PageRemove
  <2> HIDE DEF n
  <2>4. /\ [n EXCEPT !.pte[e][va] = None] \in MemRec
        /\ [n EXCEPT !.pte[e][va] = None].pte = [n.pte EXCEPT ![e][va] = None]
        /\ [n EXCEPT !.pte[e][va] = None].ptab = n.ptab
        /\ [n EXCEPT !.pte[e][va] = None].uenvs = n.uenvs
        /\ [n EXCEPT !.pte[e][va] = None].ref = n.ref
        /\ [n EXCEPT !.pte[e][va] = None].listed = n.listed
    BY <2>2 DEF MemRec, Spaces
  <2> QED
    BY <1>2, <2>1, <2>2, <2>3, <2>4 DEF n
<1> QED
  BY <1>1, <1>2

LEMMA PageRemoveLists ==
    ASSUME NEW m \in MemRec, NEW e \in Envs, NEW va \in VAs
    PROVE  LET o == m.pte[e][va]
               i == PageRemove(m, e, va)
           IN  /\ i.ref = IF o = None THEN m.ref ELSE Decref(m, o.page).ref
               /\ i.listed = IF o = None THEN m.listed ELSE Decref(m, o.page).listed
<1> DEFINE o == m.pte[e][va]
           i == PageRemove(m, e, va)
<1>1. o = None => i = m
  BY DEF PageRemove
<1>2. o # None => i.ref = Decref(m, o.page).ref
  BY PageRemoveRec
<1>3. o # None => i.listed = Decref(m, o.page).listed
  BY PageRemoveRec
<1> HIDE DEF o, i
<1>4. /\ i.ref = IF o = None THEN m.ref ELSE Decref(m, o.page).ref
      /\ i.listed = IF o = None THEN m.listed ELSE Decref(m, o.page).listed
  BY <1>1, <1>2, <1>3
<1> QED
  BY <1>4 DEF o, i

(* pgdir_walk() with create: the page table it allocates.                     *)
LEMMA WalkNew ==
    ASSUME NEW m \in MemRec, NEW e \in Envs, NEW va \in VAs, NEW q \in WalkPages(m, e, va),
           q # None
    PROVE  /\ q \in Pages /\ m.listed[q] > 0 /\ m.ptab[e][TableOf[va]] = None
           /\ Walk(m, e, va, q) \in MemRec
           /\ Walk(m, e, va, q).pte = m.pte
           /\ Walk(m, e, va, q).uenvs = m.uenvs
           /\ Walk(m, e, va, q).ref = [m.ref EXCEPT ![q] = (m.ref[q] + 1) % RefLimit]
           /\ Walk(m, e, va, q).listed = [m.listed EXCEPT ![q] = m.listed[q] - 1]
           /\ Walk(m, e, va, q).ptab = [m.ptab EXCEPT ![e][TableOf[va]] = q]
<1>1. q \in Pages /\ m.listed[q] > 0 /\ m.ptab[e][TableOf[va]] = None
  BY DEF WalkPages
<1> DEFINE a == PageAlloc(m, q)
<1>2. /\ a \in MemRec /\ a.pte = m.pte /\ a.ptab = m.ptab /\ a.ref = m.ref /\ a.uenvs = m.uenvs
      /\ a.listed = [m.listed EXCEPT ![q] = m.listed[q] - 1]
  BY <1>1, PageAllocRec
<1> DEFINE n == Incref(a, q)
<1>3. /\ n \in MemRec /\ n.pte = m.pte /\ n.ptab = m.ptab /\ n.uenvs = m.uenvs
      /\ n.ref = [m.ref EXCEPT ![q] = (m.ref[q] + 1) % RefLimit]
      /\ n.listed = [m.listed EXCEPT ![q] = m.listed[q] - 1]
  <2> HIDE DEF a
  <2>1. /\ Incref(a, q) \in MemRec /\ Incref(a, q).pte = a.pte /\ Incref(a, q).ptab = a.ptab
        /\ Incref(a, q).ref = [a.ref EXCEPT ![q] = (a.ref[q] + 1) % RefLimit]
        /\ Incref(a, q).listed = a.listed /\ Incref(a, q).uenvs = a.uenvs
    BY <1>1, <1>2, IncrefRec
  <2> QED
    BY <1>2, <2>1
<1>4. Walk(m, e, va, q) = [n EXCEPT !.ptab[e][TableOf[va]] = q]
  BY DEF Walk
<1>5. TableOf[va] \in Tables
  BY SizeAssumption
<1> HIDE DEF n
<1> DEFINE x == [n EXCEPT !.ptab[e][TableOf[va]] = q]
<1>6. /\ x \in MemRec /\ x.pte = n.pte /\ x.ref = n.ref /\ x.listed = n.listed /\ x.uenvs = n.uenvs
      /\ x.ptab = [n.ptab EXCEPT ![e][TableOf[va]] = q]
  BY <1>1, <1>3, <1>5 DEF MemRec, Directories
<1>7. Walk(m, e, va, q) = x
  BY <1>4
<1> HIDE DEF x
<1> QED
  BY <1>1, <1>3, <1>6, <1>7

LEMMA WalkType ==
    ASSUME NEW m \in MemRec, NEW e \in Envs, NEW va \in VAs, NEW q \in WalkPages(m, e, va)
    PROVE  /\ Walk(m, e, va, q) \in MemRec /\ Walk(m, e, va, q).pte = m.pte
           /\ Walk(m, e, va, q).uenvs = m.uenvs
<1>1. CASE q = None
  BY <1>1 DEF Walk
<1>2. CASE q # None
  <2>1. q \in Pages /\ TableOf[va] \in Tables
    BY <1>2, SizeAssumption DEF WalkPages
  <2> DEFINE a == PageAlloc(m, q)
             n == Incref(a, q)
  <2>2. a \in MemRec /\ a.pte = m.pte /\ a.uenvs = m.uenvs
    BY <2>1, PageAllocRec
  <2> HIDE DEF a
  <2>3. n \in MemRec /\ n.pte = a.pte /\ n.uenvs = a.uenvs
    BY <2>1, <2>2, IncrefRec
  <2> HIDE DEF n
  <2>4. /\ [n EXCEPT !.ptab[e][TableOf[va]] = q] \in MemRec
        /\ [n EXCEPT !.ptab[e][TableOf[va]] = q].pte = n.pte
        /\ [n EXCEPT !.ptab[e][TableOf[va]] = q].uenvs = n.uenvs
    BY <2>1, <2>3 DEF MemRec, Directories
  <2>5. Walk(m, e, va, q) = [n EXCEPT !.ptab[e][TableOf[va]] = q]
    BY <1>2 DEF Walk, n, a
  <2> QED
    BY <2>2, <2>3, <2>4, <2>5
<1> QED
  BY <1>1, <1>2

(* page_insert(): the new entry replaces the old one.                         *)
LEMMA PageInsertRec ==
    ASSUME NEW m \in MemRec, NEW e \in Envs, NEW p \in Pages, NEW va \in VAs,
           NEW w \in BOOLEAN, NEW q \in WalkPages(m, e, va)
    PROVE  LET n == PageRemove(Incref(Walk(m, e, va, q), p), e, va)
               i == PageInsert(m, e, p, va, w, q)
           IN  /\ i \in MemRec
               /\ i.ref = n.ref /\ i.listed = n.listed /\ i.ptab = n.ptab
               /\ i.pte = [m.pte EXCEPT ![e][va] = [page |-> p, w |-> w]]
               /\ i.uenvs = m.uenvs
<1> DEFINE n == PageRemove(Incref(Walk(m, e, va, q), p), e, va)
           x == [page |-> p, w |-> w]
<1>1. n \in MemRec /\ n.pte = [m.pte EXCEPT ![e][va] = None] /\ n.uenvs = m.uenvs
  <2> DEFINE k == Walk(m, e, va, q)
             i == Incref(k, p)
  <2>1. k \in MemRec /\ k.pte = m.pte /\ k.uenvs = m.uenvs
    BY WalkType
  <2> HIDE DEF k
  <2>2. i \in MemRec /\ i.pte = k.pte /\ i.uenvs = k.uenvs
    BY <2>1, IncrefRec
  <2> HIDE DEF i
  <2>3. /\ PageRemove(i, e, va) \in MemRec /\ PageRemove(i, e, va).pte = [i.pte EXCEPT ![e][va] = None]
        /\ PageRemove(i, e, va).uenvs = i.uenvs
    BY <2>2, PageRemoveRec
  <2> QED
    BY <2>1, <2>2, <2>3 DEF k, i
<1>2. PageInsert(m, e, p, va, w, q) = [n EXCEPT !.pte[e][va] = x]
  BY DEF PageInsert
<1>3. x \in Entries
  BY DEF Entries
<1>4. [n.pte EXCEPT ![e][va] = x] = [m.pte EXCEPT ![e][va] = x]
  <2> HIDE DEF n, x
  <2> QED
    BY <1>1 DEF MemRec, Spaces
<1> HIDE DEF n, x
<1>5. /\ [n EXCEPT !.pte[e][va] = x] \in MemRec
      /\ [n EXCEPT !.pte[e][va] = x].ref = n.ref
      /\ [n EXCEPT !.pte[e][va] = x].listed = n.listed
      /\ [n EXCEPT !.pte[e][va] = x].ptab = n.ptab
      /\ [n EXCEPT !.pte[e][va] = x].uenvs = n.uenvs
      /\ [n EXCEPT !.pte[e][va] = x].pte = [n.pte EXCEPT ![e][va] = x]
  BY <1>1, <1>3 DEF MemRec, Spaces
<1> QED
  BY <1>1, <1>2, <1>4, <1>5 DEF n, x

(* page_insert() at UTOP: the entry that all address spaces share.            *)
LEMMA InsertSharedRec ==
    ASSUME NEW m \in MemRec, NEW p \in Pages, NEW w \in BOOLEAN
    PROVE  LET n == Incref(m, p)
               i == InsertShared(m, p, w)
           IN  /\ i \in MemRec /\ i.ptab = m.ptab /\ i.pte = m.pte
               /\ i.uenvs = [page |-> p, w |-> w] /\ n \in MemRec /\ n.uenvs = m.uenvs
               /\ m.uenvs # None => m.uenvs.page \in Pages
               /\ i.ref = IF m.uenvs = None THEN n.ref ELSE Decref(n, m.uenvs.page).ref
               /\ i.listed = IF m.uenvs = None THEN n.listed ELSE Decref(n, m.uenvs.page).listed
<1> DEFINE n == Incref(m, p)
           o == IF n.uenvs = None THEN n ELSE Decref(n, n.uenvs.page)
           x == [page |-> p, w |-> w]
<1>1. n \in MemRec /\ n.uenvs = m.uenvs /\ n.ptab = m.ptab /\ n.pte = m.pte
  BY IncrefRec
<1>2. m.uenvs # None => m.uenvs.page \in Pages
  BY DEF MemRec, Entries
<1>3. x \in Entries
  BY DEF Entries
<1>4. InsertShared(m, p, w) = [o EXCEPT !.uenvs = x]
  BY DEF InsertShared
<1> HIDE DEF n, x
<1>5. o \in MemRec /\ o.ptab = n.ptab /\ o.pte = n.pte
  <2>1. CASE n.uenvs = None
    BY <1>1, <2>1
  <2>2. CASE n.uenvs # None
    <3>1. n.uenvs.page \in Pages
      BY <1>1, <1>2, <2>2
    <3> DEFINE d == Decref(n, n.uenvs.page)
    <3>2. d \in MemRec /\ d.ptab = n.ptab /\ d.pte = n.pte
      BY <1>1, <3>1, DecrefRec
    <3>3. o = d
      BY <2>2
    <3> HIDE DEF d, o
    <3> QED
      BY <3>2, <3>3
  <2> QED
    BY <2>1, <2>2
<1>6. o = IF m.uenvs = None THEN n ELSE Decref(n, m.uenvs.page)
  BY <1>1
<1> HIDE DEF o
<1>7. /\ [o EXCEPT !.uenvs = x] \in MemRec
      /\ [o EXCEPT !.uenvs = x].ref = o.ref /\ [o EXCEPT !.uenvs = x].listed = o.listed
      /\ [o EXCEPT !.uenvs = x].ptab = o.ptab /\ [o EXCEPT !.uenvs = x].pte = o.pte
      /\ [o EXCEPT !.uenvs = x].uenvs = x
  BY <1>3, <1>5 DEF MemRec
<1> QED
  BY <1>1, <1>2, <1>4, <1>5, <1>6, <1>7 DEF n, x

------------------------------------------------------------------------------
(* What the memory system calls change.                                       *)
Shape == /\ Mem \in MemRec
         /\ pgdir \in [Envs -> Pages \cup {None}]
         /\ parent \in [Envs -> Envs \cup {None}]
         /\ started \in [Envs -> BOOLEAN]
         /\ run \in [CPUs -> Envs \cup {None}]
         /\ tlb \in [CPUs -> SUBSET [va : VAs \cup {UTOP}, page : Pages, w : BOOLEAN]]

LEMMA MemFields ==
    /\ Mem.ref = ref /\ Mem.listed = listed /\ Mem.ptab = ptab /\ Mem.pte = pte
    /\ Mem.uenvs = uenvs
    /\ Mem \in MemRec <=> /\ ref \in [Pages -> 0 .. RefLimit - 1]
                          /\ listed \in [Pages -> Int]
                          /\ ptab \in Directories /\ pte \in Spaces
                          /\ uenvs \in Entries \cup {None}
BY DEF Mem, MemRec

LEMMA SetMemRec ==
    ASSUME NEW m \in MemRec, SetMem(m)
    PROVE  Mem' \in MemRec /\ pte' = m.pte
<1>1. /\ m.ref \in [Pages -> 0 .. RefLimit - 1] /\ m.listed \in [Pages -> Int]
      /\ m.ptab \in Directories /\ m.pte \in Spaces /\ m.uenvs \in Entries \cup {None}
  BY DEF MemRec
<1>2. ref' = m.ref /\ listed' = m.listed /\ ptab' = m.ptab /\ pte' = m.pte /\ uenvs' = m.uenvs
  BY DEF SetMem
<1>3. Mem' = [ref |-> ref', listed |-> listed', ptab |-> ptab', pte |-> pte', uenvs |-> uenvs']
  BY DEF Mem
<1> QED
  BY <1>1, <1>2, <1>3 DEF MemRec

OnlySpace(e) == Mem' \in MemRec /\ \A f \in Envs \ {e} : pte'[f] = pte[f]

LEMMA InsertSpace ==
    ASSUME NEW m \in MemRec, m.pte = pte, NEW e \in Envs, NEW p \in Pages, NEW va \in VAs,
           NEW w \in BOOLEAN, NEW q \in WalkPages(m, e, va), SetMem(PageInsert(m, e, p, va, w, q))
    PROVE  OnlySpace(e)
<1> DEFINE i == PageInsert(m, e, p, va, w, q)
<1>1. i \in MemRec /\ i.pte = [m.pte EXCEPT ![e][va] = [page |-> p, w |-> w]]
  BY PageInsertRec
<1> HIDE DEF i
<1>2. Mem' \in MemRec /\ pte' = i.pte
  BY <1>1, SetMemRec DEF i
<1>3. m.pte \in Spaces
  BY DEF MemRec
<1> QED
  BY <1>1, <1>2, <1>3 DEF OnlySpace, Spaces

LEMMA AllocSpace ==
    ASSUME Shape, NEW c \in CPUs, NEW e \in Envs, NEW va \in VAs, NEW w \in BOOLEAN,
           SysPageAlloc(c, e, va, w)
    PROVE  OnlySpace(e) /\ Resume(c) /\ UNCHANGED <<pgdir, parent, started>>
<1>1. PICK p \in {x \in Pages : listed[x] > 0} :
         LET m == PageAlloc(Mem, p)
         IN  /\ IF WalkPages(m, e, va) = {}
                  THEN SetMem(PageFree(m, p))
                  ELSE \E q \in WalkPages(m, e, va) : SetMem(PageInsert(m, e, p, va, w, q))
             /\ Resume(c)
             /\ UNCHANGED <<pgdir, parent, started>>
  BY DEF SysPageAlloc
<1> DEFINE m == PageAlloc(Mem, p)
<1>2. m \in MemRec /\ m.pte = pte
  BY PageAllocRec, MemFields DEF Shape
<1> HIDE DEF m
<1>3. CASE SetMem(PageFree(m, p))
  <2>1. PageFree(m, p) \in MemRec /\ PageFree(m, p).pte = m.pte
    BY <1>2, PageFreeRec
  <2> DEFINE n == PageFree(m, p)
  <2> HIDE DEF n
  <2>2. Mem' \in MemRec /\ pte' = n.pte
    BY <1>3, <2>1, SetMemRec DEF n
  <2> QED
    BY <1>1, <1>2, <2>1, <2>2 DEF OnlySpace, n
<1>4. CASE \E q \in WalkPages(m, e, va) : SetMem(PageInsert(m, e, p, va, w, q))
  BY <1>1, <1>2, <1>4, InsertSpace
<1> QED
  BY <1>1, <1>3, <1>4 DEF m

LEMMA MapSpace ==
    ASSUME Shape, NEW c \in CPUs, NEW s \in Envs, NEW sva \in VAs, NEW d \in Envs,
           NEW dva \in VAs, NEW w \in BOOLEAN, SysPageMap(c, s, sva, d, dva, w)
    PROVE  OnlySpace(d) /\ Resume(c) /\ UNCHANGED <<pgdir, parent, started>>
<1>1. pte[s][sva].page \in Pages
  BY MemFields DEF SysPageMap, Shape, Spaces, Entries
<1>2. PICK q \in WalkPages(Mem, d, dva) :
         SetMem(PageInsert(Mem, d, pte[s][sva].page, dva, w, q))
  BY DEF SysPageMap
<1>3. Mem \in MemRec /\ Mem.pte = pte
  BY MemFields DEF Shape
<1>4. OnlySpace(d)
  BY <1>1, <1>2, <1>3, InsertSpace
<1> QED
  BY <1>4 DEF SysPageMap

LEMMA SharedSpace ==
    ASSUME Mem \in MemRec, NEW p \in Pages, NEW w \in BOOLEAN, NEW e,
           SetMem(InsertShared(Mem, p, w))
    PROVE  OnlySpace(e)
<1> DEFINE i == InsertShared(Mem, p, w)
<1>1. i \in MemRec /\ i.pte = Mem.pte
  BY InsertSharedRec
<1> HIDE DEF i
<1>2. Mem' \in MemRec /\ pte' = i.pte
  BY <1>1, SetMemRec DEF i
<1> QED
  BY <1>1, <1>2, MemFields DEF OnlySpace

LEMMA UnmapSpace ==
    ASSUME Shape, NEW c \in CPUs, NEW e \in Envs, NEW va \in VAs, SysPageUnmap(c, e, va)
    PROVE  OnlySpace(e) /\ Resume(c) /\ UNCHANGED <<pgdir, parent, started>>
<1>1. Mem \in MemRec /\ Mem.pte = pte /\ pte \in Spaces
  BY MemFields DEF Shape
<1> DEFINE n == PageRemove(Mem, e, va)
<1>2. n \in MemRec /\ n.pte = [Mem.pte EXCEPT ![e][va] = None]
  BY <1>1, PageRemoveRec
<1> HIDE DEF n
<1>3. Mem' \in MemRec /\ pte' = n.pte
  BY <1>2, SetMemRec DEF SysPageUnmap, n
<1> QED
  BY <1>1, <1>2, <1>3 DEF SysPageUnmap, OnlySpace, Spaces

LEMMA ExoforkSpace ==
    ASSUME Shape, NEW c \in CPUs, NEW e \in Envs, SysExofork(c, e)
    PROVE  /\ Mem' \in MemRec /\ pte' = pte /\ Resume(c) /\ run[c] # None
           /\ pgdir' \in [Envs -> Pages \cup {None}]
           /\ parent' = [parent EXCEPT ![e] = run[c]]
           /\ started' = [started EXCEPT ![e] = FALSE]
<1>1. PICK d \in Pages : /\ SetMem(Incref(PageAlloc(Mem, d), d))
                         /\ pgdir' = [pgdir EXCEPT ![e] = d]
  BY DEF SysExofork
<1> DEFINE a == PageAlloc(Mem, d)
           n == Incref(a, d)
<1>2. a \in MemRec /\ a.pte = pte
  BY PageAllocRec, MemFields DEF Shape
<1> HIDE DEF a
<1>3. n \in MemRec /\ n.pte = a.pte
  BY <1>2, IncrefRec
<1> HIDE DEF n
<1>4. Mem' \in MemRec /\ pte' = n.pte
  BY <1>1, <1>3, SetMemRec DEF n, a
<1>5. pgdir' \in [Envs -> Pages \cup {None}]
  BY <1>1 DEF Shape
<1> QED
  BY <1>2, <1>3, <1>4, <1>5 DEF SysExofork

------------------------------------------------------------------------------
(* An environment runs on one processor, and only once it has been started,   *)
(* which it is only while it has an address space.                            *)
Alone == /\ \A c, d \in CPUs : run[c] = run[d] /\ run[c] # None => c = d
         /\ \A c \in CPUs : run[c] # None => started[run[c]]
         /\ \A e \in Envs : started[e] => pgdir[e] # None

TlbInv == Shape /\ Alone /\ TlbCoherent

(* A processor's kernel entry that changes no address space another processor *)
(* runs leaves every other TLB coherent, and its own empty.                   *)
LEMMA SpaceChange ==
    ASSUME TlbInv, NEW c \in CPUs, tlb' = [tlb EXCEPT ![c] = {}],
           \A d \in CPUs \ {c} : /\ run'[d] = run[d]
                                 /\ run[d] # None => pte'[run[d]] = pte[run[d]]
    PROVE  TlbCoherent' /\ tlb' \in [CPUs -> SUBSET [va : VAs \cup {UTOP}, page : Pages, w : BOOLEAN]]
<1>1. tlb' \in [CPUs -> SUBSET [va : VAs \cup {UTOP}, page : Pages, w : BOOLEAN]]
  BY DEF TlbInv, Shape
<1>2. TlbCoherent'
  <2> SUFFICES ASSUME NEW d \in CPUs, NEW x \in tlb'[d], x.va # UTOP
               PROVE  run'[d] # None /\ pte'[run'[d]][x.va] = [page |-> x.page, w |-> x.w]
    BY DEF TlbCoherent
  <2>1. d # c /\ x \in tlb[d]
    BY DEF TlbInv, Shape
  <2>2. run'[d] = run[d] /\ run[d] # None
        /\ pte[run[d]][x.va] = [page |-> x.page, w |-> x.w]
    BY <2>1 DEF TlbInv, TlbCoherent
  <2> QED
    BY <2>1, <2>2
<1> QED
  BY <1>1, <1>2

(* The same for the calls that leave who runs where alone.                    *)
LEMMA CallKeepsTlb ==
    ASSUME TlbInv, NEW c \in CPUs, NEW e, Resume(c), OnlySpace(e), \A d \in CPUs \ {c} : run[d] # e,
           UNCHANGED <<pgdir, parent, started>>
    PROVE  TlbInv'
<1>1. tlb' = [tlb EXCEPT ![c] = {}] /\ run' = run
  BY DEF Resume
<1>2. \A d \in CPUs \ {c} : run[d] # None => pte'[run[d]] = pte[run[d]]
  BY DEF OnlySpace, TlbInv, Shape
<1>3. TlbCoherent' /\ tlb' \in [CPUs -> SUBSET [va : VAs \cup {UTOP}, page : Pages, w : BOOLEAN]]
  BY <1>1, <1>2, SpaceChange
<1>4. Shape'
  BY <1>1, <1>3 DEF TlbInv, Shape, OnlySpace
<1>5. Alone'
  BY <1>1 DEF TlbInv, Alone
<1> QED
  BY <1>3, <1>4, <1>5 DEF TlbInv

LEMMA TargetAlone ==
    ASSUME TlbInv, NEW c \in CPUs, NEW e \in Envs, Target(c, e)
    PROVE  \A d \in CPUs \ {c} : run[d] # e
<1>1. (e = run[c] /\ run[c] # None) \/ ~started[e]
  BY DEF Target, Permitted
<1>2. e # None
  BY SizeAssumption
<1> QED
  BY <1>1, <1>2 DEF TlbInv, Alone

LEMMA MemCallTlb ==
    ASSUME TlbInv, NEW c \in CPUs, NEW e \in Envs, Target(c, e), MemCall(c, e)
    PROVE  TlbInv'
<1>1. OnlySpace(e) /\ Resume(c) /\ UNCHANGED <<pgdir, parent, started>>
  BY AllocSpace, MapSpace, UnmapSpace DEF MemCall, TlbInv
<1> QED
  BY <1>1, TargetAlone, CallKeepsTlb

LEMMA IpcTlb ==
    ASSUME TlbInv, NEW c \in CPUs, NEW sva \in VAs, NEW d \in Envs, NEW dva \in VAs \cup {UTOP},
           NEW w \in BOOLEAN, SysIpcSendPage(c, sva, d, dva, w)
    PROVE  TlbInv'
<1>1. run[c] \in Envs /\ \A b \in CPUs : run[b] # d
  BY DEF SysIpcSendPage, Waiting, TlbInv, Shape
<1>2. CASE dva \in VAs
  <2>1. dva # UTOP
    BY <1>2, SizeAssumption
  <2>2. SysPageMap(c, run[c], sva, d, dva, w)
    BY <2>1 DEF SysIpcSendPage
  <2>3. OnlySpace(d) /\ Resume(c) /\ UNCHANGED <<pgdir, parent, started>>
    BY <1>1, <1>2, <2>2, MapSpace DEF TlbInv
  <2> QED
    BY <1>1, <2>3, CallKeepsTlb
<1>3. CASE dva = UTOP
  <2>1. /\ pte[run[c]][sva] # None /\ Resume(c) /\ UNCHANGED <<pgdir, parent, started>>
        /\ SetMem(InsertShared(Mem, pte[run[c]][sva].page, w))
    BY <1>3 DEF SysIpcSendPage
  <2>2. Mem \in MemRec /\ pte[run[c]][sva].page \in Pages
    BY <1>1, <2>1, MemFields DEF TlbInv, Shape, Spaces, Entries
  <2>3. OnlySpace(d)
    BY <2>1, <2>2, SharedSpace
  <2> QED
    BY <1>1, <2>1, <2>3, CallKeepsTlb
<1> QED
  BY <1>2, <1>3

LEMMA ExoforkTlb ==
    ASSUME TlbInv, NEW c \in CPUs, NEW e \in Envs, SysExofork(c, e) PROVE TlbInv'
<1>1. /\ Mem' \in MemRec /\ pte' = pte /\ run[c] # None
      /\ tlb' = [tlb EXCEPT ![c] = {}] /\ run' = run
      /\ pgdir' \in [Envs -> Pages \cup {None}]
      /\ parent' = [parent EXCEPT ![e] = run[c]]
      /\ started' = [started EXCEPT ![e] = FALSE]
  BY ExoforkSpace DEF TlbInv, Resume
<1>2. TlbCoherent' /\ tlb' \in [CPUs -> SUBSET [va : VAs \cup {UTOP}, page : Pages, w : BOOLEAN]]
  BY <1>1, SpaceChange
<1>3. Shape'
  BY <1>1, <1>2 DEF TlbInv, Shape
<1>4. ~started[e] /\ \A f \in Envs \ {e} : pgdir'[f] = pgdir[f]
  BY DEF SysExofork, TlbInv, Alone, Shape
<1>5. Alone'
  BY <1>1, <1>4 DEF TlbInv, Alone, Shape
<1> QED
  BY <1>2, <1>3, <1>5 DEF TlbInv

LEMMA StartTlb ==
    ASSUME TlbInv, NEW c \in CPUs, NEW e \in Envs, Start(c, e) PROVE TlbInv'
<1>1. tlb' = [tlb EXCEPT ![c] = {}] /\ run' = run /\ pte' = pte /\ Mem' = Mem
  BY DEF Start, Resume, memVars, Mem
<1>2. TlbCoherent' /\ tlb' \in [CPUs -> SUBSET [va : VAs \cup {UTOP}, page : Pages, w : BOOLEAN]]
  BY <1>1, SpaceChange
<1>3. Shape'
  BY <1>1, <1>2 DEF Start, TlbInv, Shape
<1>4. Alone'
  BY <1>1 DEF Start, Permitted, TlbInv, Alone, Shape
<1> QED
  BY <1>2, <1>3, <1>4 DEF TlbInv

LEMMA FreeTypes ==
    ASSUME Shape, NEW c \in CPUs, NEW e \in Envs, EnvFree(c, e)
    PROVE  Mem' \in MemRec /\ \A f \in Envs \ {e} : pte'[f] = pte[f]
<1>1. \A p \in Pages : Dropped(e, p) \in Nat
  <2> SUFFICES ASSUME NEW p \in Pages PROVE Dropped(e, p) \in Nat
    OBVIOUS
  <2>1. Cardinality({v \in VAs : pte[e][v] # None /\ pte[e][v].page = p}) \in Nat
    BY FS_Subset, FS_CardinalityType, SizeAssumption
  <2>2. Cardinality({t \in Tables : ptab[e][t] = p}) \in Nat
    BY FS_Subset, FS_CardinalityType, SizeAssumption
  <2> QED
    BY <2>1, <2>2 DEF Dropped
<1>2. /\ ref \in [Pages -> 0 .. RefLimit - 1] /\ listed \in [Pages -> Int]
      /\ ptab \in Directories /\ pte \in Spaces
  BY MemFields DEF Shape
<1>3. \A p \in Pages : (ref[p] - Dropped(e, p)) % RefLimit \in 0 .. RefLimit - 1
  <2> SUFFICES ASSUME NEW p \in Pages
               PROVE  (ref[p] - Dropped(e, p)) % RefLimit \in 0 .. RefLimit - 1
    OBVIOUS
  <2>1. ref[p] \in Int
    BY <1>2, SizeAssumption
  <2>2. ref[p] - Dropped(e, p) \in Int
    BY <1>1, <2>1
  <2> QED
    BY <2>2, Remainder
<1>4. ref' \in [Pages -> 0 .. RefLimit - 1]
  BY <1>3 DEF EnvFree
<1>5. listed' \in [Pages -> Int]
  BY <1>2 DEF EnvFree
<1>6. ptab' \in Directories /\ pte' \in Spaces /\ \A f \in Envs \ {e} : pte'[f] = pte[f]
  BY <1>2 DEF EnvFree, Directories, Spaces
<1>7. /\ Mem' = [ref |-> ref', listed |-> listed', ptab |-> ptab', pte |-> pte', uenvs |-> uenvs']
      /\ uenvs' \in Entries \cup {None}
  BY MemFields DEF Mem, EnvFree, Shape
<1> QED
  BY <1>4, <1>5, <1>6, <1>7 DEF MemRec

LEMMA FreeTlb ==
    ASSUME TlbInv, NEW c \in CPUs, NEW e \in Envs, EnvFree(c, e) PROVE TlbInv'
<1>1. Mem' \in MemRec /\ \A f \in Envs \ {e} : pte'[f] = pte[f]
  BY FreeTypes DEF TlbInv
<1>2. /\ \A d \in CPUs \ {c} : run'[d] = run[d] /\ run[d] # e
      /\ tlb' = [tlb EXCEPT ![c] = {}] /\ run' \in [CPUs -> Envs \cup {None}]
      /\ run'[c] = (IF run[c] = e THEN None ELSE run[c])
  BY DEF EnvFree, CanFree, TlbInv, Shape
<1>3. TlbCoherent' /\ tlb' \in [CPUs -> SUBSET [va : VAs \cup {UTOP}, page : Pages, w : BOOLEAN]]
  <2>1. \A d \in CPUs \ {c} : run[d] # None => pte'[run[d]] = pte[run[d]]
    BY <1>1, <1>2 DEF TlbInv, Shape
  <2> QED
    BY <1>2, <2>1, SpaceChange
<1>4. Shape'
  BY <1>1, <1>2, <1>3 DEF EnvFree, TlbInv, Shape
<1>5. Alone'
  <2>1. \A d \in CPUs : run'[d] # None => run'[d] = run[d] /\ run'[d] # e
    BY <1>2
  <2>2. \A f \in Envs : started'[f] => f # e /\ started[f]
    BY DEF EnvFree, TlbInv, Shape
  <2>3. \A f \in Envs \ {e} : started'[f] = started[f] /\ pgdir'[f] = pgdir[f]
    BY DEF EnvFree, TlbInv, Shape
  <2>4. \A d \in CPUs : run[d] # None => run[d] \in Envs
    BY DEF TlbInv, Shape
  <2> QED
    BY <2>1, <2>2, <2>3, <2>4 DEF TlbInv, Alone
<1> QED
  BY <1>3, <1>4, <1>5 DEF TlbInv

LEMMA SwitchTlb ==
    ASSUME TlbInv, NEW c \in CPUs, NEW e \in Envs \cup {None}, Switch(c, e) PROVE TlbInv'
<1>1. /\ tlb' = [tlb EXCEPT ![c] = {}] /\ pte' = pte /\ Mem' = Mem
      /\ run' = [run EXCEPT ![c] = e]
  BY DEF Switch, memVars, Mem
<1>2. TlbCoherent' /\ tlb' \in [CPUs -> SUBSET [va : VAs \cup {UTOP}, page : Pages, w : BOOLEAN]]
  BY <1>1, SpaceChange DEF TlbInv, Shape
<1>3. Shape'
  BY <1>1, <1>2 DEF Switch, TlbInv, Shape
<1>4. Alone'
  BY <1>1 DEF Switch, TlbInv, Alone, Shape
<1> QED
  BY <1>2, <1>3, <1>4 DEF TlbInv

LEMMA TouchTlb ==
    ASSUME TlbInv, NEW c \in CPUs, NEW va \in VAs \cup {UTOP}, Touch(c, va) PROVE TlbInv'
<1> DEFINE found == At(run[c], va)
           x == [va |-> va, page |-> found.page, w |-> found.w]
<1>1. /\ tlb' = [tlb EXCEPT ![c] = tlb[c] \cup {x}] /\ run' = run /\ pte' = pte /\ Mem' = Mem
      /\ run[c] # None /\ found # None /\ UNCHANGED <<pgdir, parent, started>>
  BY DEF Touch, memVars, Mem
<1>2. found \in Entries /\ (va # UTOP => found = pte[run[c]][va])
  BY <1>1, MemFields DEF At, TlbInv, Shape, Spaces
<1>3. /\ x \in [va : VAs \cup {UTOP}, page : Pages, w : BOOLEAN] /\ x.va = va
      /\ found = [page |-> x.page, w |-> x.w]
  BY <1>2 DEF Entries
<1> HIDE DEF x, found
<1>4. tlb' \in [CPUs -> SUBSET [va : VAs \cup {UTOP}, page : Pages, w : BOOLEAN]]
  BY <1>1, <1>3 DEF TlbInv, Shape
<1>5. TlbCoherent'
  <2> SUFFICES ASSUME NEW d \in CPUs, NEW y \in tlb'[d], y.va # UTOP
               PROVE  run[d] # None /\ pte[run[d]][y.va] = [page |-> y.page, w |-> y.w]
    BY <1>1 DEF TlbCoherent
  <2>1. y \in tlb[d] \/ (d = c /\ y = x)
    BY <1>1 DEF TlbInv, Shape
  <2>2. CASE y \in tlb[d]
    BY <2>2 DEF TlbInv, TlbCoherent
  <2>3. CASE d = c /\ y = x
    BY <2>3, <1>1, <1>2, <1>3
  <2> QED
    BY <2>1, <2>2, <2>3
<1>6. Shape' /\ Alone'
  BY <1>1, <1>4 DEF TlbInv, Shape, Alone
<1> QED
  BY <1>5, <1>6 DEF TlbInv

LEMMA InitTlb == Init => TlbInv
<1> SUFFICES ASSUME Init PROVE TlbInv
  OBVIOUS
<1> USE SizeAssumption DEF Init
<1>1. Shape
  <2>1. /\ ref \in [Pages -> 0 .. RefLimit - 1] /\ listed \in [Pages -> Int]
        /\ ptab \in Directories /\ pte \in Spaces
    BY DEF Directories, Spaces
  <2>2. Mem \in MemRec
    BY <2>1, MemFields
  <2> QED
    BY <2>2 DEF Shape
<1>2. Alone
  <2>1. pgdir[First] \in Pages
    OBVIOUS
  <2>2. \A e \in Envs : started[e] => e = First
    OBVIOUS
  <2>3. \A c \in CPUs : run[c] = None
    OBVIOUS
  <2> HIDE DEF Init
  <2> QED
    BY <2>1, <2>2, <2>3 DEF Alone
<1>3. TlbCoherent
  BY DEF TlbCoherent
<1> QED
  BY <1>1, <1>2, <1>3 DEF TlbInv

LEMMA NextTlb == TlbInv /\ [Next]_vars => TlbInv'
<1> SUFFICES ASSUME TlbInv, [Next]_vars PROVE TlbInv'
  OBVIOUS
<1>1. ASSUME NEW c \in CPUs, Common(c) PROVE TlbInv'
  BY <1>1, ExoforkTlb, StartTlb, FreeTlb, SwitchTlb, TouchTlb, IpcTlb DEF Common
<1>2. ASSUME NEW c \in CPUs, NEW e \in Envs, Target(c, e), MemCall(c, e) PROVE TlbInv'
  BY <1>2, MemCallTlb
<1>3. ASSUME UNCHANGED vars PROVE TlbInv'
  <2>1. Shape'
    BY <1>3 DEF TlbInv, Shape, Mem, vars, memVars
  <2>2. Alone' /\ TlbCoherent'
    BY <1>3 DEF TlbInv, Alone, TlbCoherent, vars, memVars
  <2> QED
    BY <2>1, <2>2 DEF TlbInv
<1> QED
  BY <1>1, <1>2, <1>3 DEF Next

(* No processor in user mode holds a translation that the page tables of the  *)
(* environment it runs no longer have (kern/pmap.c, tlb_invalidate): there is *)
(* no shootdown, and none is needed, whatever the reference counts are.       *)
THEOREM NoStaleTranslation == Spec => []TlbCoherent
<1>1. TlbInv => TlbCoherent
  BY DEF TlbInv
<1> QED
  BY <1>1, InitTlb, NextTlb, PTL DEF Spec
------------------------------------------------------------------------------
(* Counting the places that hold a pointer to a page.                         *)
PteCount(T, p) ==
    Cardinality({u \in Envs \X VAs : T[u[1]][u[2]] # None /\ T[u[1]][u[2]].page = p})
TabCount(T, p) == Cardinality({u \in Envs \X Tables : T[u[1]][u[2]] = p})
DirCount(D, p) == Cardinality({e \in Envs : D[e] = p})

Names(x, p) == IF x # None /\ x.page = p THEN 1 ELSE 0
Count(m, D, p) == PteCount(m.pte, p) + TabCount(m.ptab, p) + DirCount(D, p) + Names(m.uenvs, p)

Is(x, p) == IF x = p THEN 1 ELSE 0

LEMMA Places ==
    IsFiniteSet(Envs) /\ IsFiniteSet(Envs \X VAs) /\ IsFiniteSet(Envs \X Tables)
BY FS_Product, SizeAssumption

LEMMA CountTypes ==
    ASSUME NEW T, NEW p
    PROVE  PteCount(T, p) \in Nat /\ TabCount(T, p) \in Nat /\ DirCount(T, p) \in Nat
<1>1. PteCount(T, p) \in Nat
  BY Places, FS_Subset, FS_CardinalityType DEF PteCount
<1>2. TabCount(T, p) \in Nat
  BY Places, FS_Subset, FS_CardinalityType DEF TabCount
<1>3. DirCount(T, p) \in Nat
  BY Places, FS_Subset, FS_CardinalityType DEF DirCount
<1> QED
  BY <1>1, <1>2, <1>3

LEMMA OneElement ==
    ASSUME NEW S, IsFiniteSet(S), NEW R, IsFiniteSet(R), NEW u, S \ {u} = R \ {u}
    PROVE  Cardinality(R) = Cardinality(S) - (IF u \in S THEN 1 ELSE 0)
                                           + (IF u \in R THEN 1 ELSE 0)
<1>1. Cardinality(S \ {u}) = Cardinality(S) - (IF u \in S THEN 1 ELSE 0)
  BY FS_RemoveElement, FS_CardinalityType
<1>2. Cardinality(R \ {u}) = Cardinality(R) - (IF u \in R THEN 1 ELSE 0)
  BY FS_RemoveElement, FS_CardinalityType
<1>3. Cardinality(S) \in Nat /\ Cardinality(R) \in Nat
  BY FS_CardinalityType
<1> QED
  BY <1>1, <1>2, <1>3

LEMMA PteChange ==
    ASSUME NEW T \in Spaces, NEW e \in Envs, NEW va \in VAs, NEW x, NEW p
    PROVE  PteCount([T EXCEPT ![e][va] = x], p)
             = PteCount(T, p) - Names(T[e][va], p) + Names(x, p)
<1> DEFINE U == [T EXCEPT ![e][va] = x]
           S == {u \in Envs \X VAs : T[u[1]][u[2]] # None /\ T[u[1]][u[2]].page = p}
           R == {u \in Envs \X VAs : U[u[1]][u[2]] # None /\ U[u[1]][u[2]].page = p}
           v == <<e, va>>
<1>1. IsFiniteSet(S) /\ IsFiniteSet(R)
  BY Places, FS_Subset
<1>2. \A u \in (Envs \X VAs) \ {v} : U[u[1]][u[2]] = T[u[1]][u[2]]
  BY DEF Spaces
<1>3. U[e][va] = x
  BY DEF Spaces
<1> HIDE DEF U
<1>4. S \ {v} = R \ {v}
  BY <1>2
<1>5. /\ v \in S <=> T[e][va] # None /\ T[e][va].page = p
      /\ v \in R <=> x # None /\ x.page = p
  BY <1>3
<1> HIDE DEF S, R, v
<1>6. Cardinality(R) = Cardinality(S) - (IF v \in S THEN 1 ELSE 0) + (IF v \in R THEN 1 ELSE 0)
  BY <1>1, <1>4, OneElement
<1>7. PteCount(T, p) = Cardinality(S) /\ PteCount(U, p) = Cardinality(R)
  BY DEF PteCount, S, R
<1> QED
  BY <1>5, <1>6, <1>7 DEF Names, U

LEMMA TabChange ==
    ASSUME NEW T \in Directories, NEW e \in Envs, NEW t \in Tables, NEW x, NEW p
    PROVE  TabCount([T EXCEPT ![e][t] = x], p) = TabCount(T, p) - Is(T[e][t], p) + Is(x, p)
<1> DEFINE U == [T EXCEPT ![e][t] = x]
           S == {u \in Envs \X Tables : T[u[1]][u[2]] = p}
           R == {u \in Envs \X Tables : U[u[1]][u[2]] = p}
           v == <<e, t>>
<1>1. IsFiniteSet(S) /\ IsFiniteSet(R)
  BY Places, FS_Subset
<1>2. \A u \in (Envs \X Tables) \ {v} : U[u[1]][u[2]] = T[u[1]][u[2]]
  BY DEF Directories
<1>3. U[e][t] = x
  BY DEF Directories
<1> HIDE DEF U
<1>4. S \ {v} = R \ {v}
  BY <1>2
<1>5. (v \in S <=> T[e][t] = p) /\ (v \in R <=> x = p)
  BY <1>3
<1> HIDE DEF S, R, v
<1>6. Cardinality(R) = Cardinality(S) - (IF v \in S THEN 1 ELSE 0) + (IF v \in R THEN 1 ELSE 0)
  BY <1>1, <1>4, OneElement
<1>7. TabCount(T, p) = Cardinality(S) /\ TabCount(U, p) = Cardinality(R)
  BY DEF TabCount, S, R
<1> QED
  BY <1>5, <1>6, <1>7 DEF Is, U

LEMMA DirChange ==
    ASSUME NEW D \in [Envs -> Pages \cup {None}], NEW e \in Envs, NEW x, NEW p,
           NEW U, U[e] = x, \A f \in Envs \ {e} : U[f] = D[f]
    PROVE  DirCount(U, p) = DirCount(D, p) - Is(D[e], p) + Is(x, p)
<1> DEFINE S == {f \in Envs : D[f] = p}
           R == {f \in Envs : U[f] = p}
<1>1. IsFiniteSet(S) /\ IsFiniteSet(R)
  BY Places, FS_Subset
<1>2. (\A f \in Envs \ {e} : U[f] = D[f]) /\ U[e] = x
  OBVIOUS
<1>3. S \ {e} = R \ {e} /\ (e \in S <=> D[e] = p) /\ (e \in R <=> x = p)
  BY <1>2
<1> HIDE DEF S, R
<1>4. Cardinality(R) = Cardinality(S) - (IF e \in S THEN 1 ELSE 0) + (IF e \in R THEN 1 ELSE 0)
  BY <1>1, <1>3, OneElement
<1>5. DirCount(D, p) = Cardinality(S) /\ DirCount(U, p) = Cardinality(R)
  BY DEF DirCount, S, R
<1> QED
  BY <1>3, <1>4, <1>5 DEF Is

(* A page that is mapped at some address is counted.                          *)
LEMMA Mapped ==
    ASSUME NEW T, NEW e \in Envs, NEW va \in VAs, T[e][va] # None
    PROVE  PteCount(T, T[e][va].page) >= 1
<1> DEFINE S == {u \in Envs \X VAs : T[u[1]][u[2]] # None /\ T[u[1]][u[2]].page = T[e][va].page}
<1>1. <<e, va>> \in S /\ IsFiniteSet(S)
  BY Places, FS_Subset
<1> HIDE DEF S
<1>2. Cardinality(S) \in Nat /\ Cardinality(S) # 0
  BY <1>1, FS_CardinalityType, FS_EmptySet
<1> QED
  BY <1>2 DEF PteCount, S

(* The arithmetic of a uint16_t near its ends.                                *)
LEMMA Wrap == /\ \A n \in 0 .. RefLimit - 1 : n % RefLimit = n
              /\ RefLimit % RefLimit = 0
              /\ (0 - 1) % RefLimit = RefLimit - 1
BY SizeAssumption
------------------------------------------------------------------------------
(* The state of the counts in the middle of a kernel function: page x has     *)
(* been counted for a pointer that is not there yet, and page y has been      *)
(* taken off the free list (None for no such page).                           *)
PageOK(m, D, x, y, p) ==
    /\ Count(m, D, p) < RefLimit
    /\ m.ref[p] = (Count(m, D, p) + Is(x, p)) % RefLimit
    /\ m.listed[p] = IF Count(m, D, p) + Is(y, p) = 0 THEN 1 ELSE 0
    /\ TabCount(m.ptab, p) + DirCount(D, p) > 0 => Count(m, D, p) = 1

Sound(m, D, x, y) == /\ m \in MemRec
                     /\ D \in [Envs -> Pages \cup {None}]
                     /\ \A p \in Pages : PageOK(m, D, x, y, p)

LEMMA IsPage == ASSUME NEW p \in Pages, NEW r \in Pages
                PROVE  Is(None, p) = 0 /\ Is(p, p) = 1 /\ (r # p => Is(r, p) = 0)
BY SizeAssumption DEF Is

LEMMA CountIn == ASSUME NEW m, NEW D, NEW p PROVE Count(m, D, p) \in Nat
BY CountTypes DEF Count, Names

(* page_alloc() returns a page that nothing uses.                             *)
LEMMA AllocSound ==
    ASSUME NEW m, NEW D, Sound(m, D, None, None), NEW p \in Pages, m.listed[p] > 0
    PROVE  Sound(PageAlloc(m, p), D, None, p) /\ Count(m, D, p) = 0
           /\ Count(PageAlloc(m, p), D, p) = 0
<1> DEFINE a == PageAlloc(m, p)
<1>1. /\ a \in MemRec /\ a.ref = m.ref /\ a.ptab = m.ptab /\ a.pte = m.pte /\ a.uenvs = m.uenvs
      /\ a.listed = [m.listed EXCEPT ![p] = m.listed[p] - 1]
  BY PageAllocRec DEF Sound
<1> HIDE DEF a
<1>2. \A r \in Pages : Count(a, D, r) = Count(m, D, r) /\ Count(m, D, r) \in Nat
  BY <1>1, CountIn DEF Count
<1>3. Count(m, D, p) = 0 /\ m.listed[p] = 1
  BY <1>2, IsPage DEF Sound, PageOK
<1>4. m.listed \in [Pages -> Int]
  BY DEF Sound, MemRec
<1>5. ASSUME NEW r \in Pages PROVE PageOK(a, D, None, p, r)
  <2>1. PageOK(m, D, None, None, r)
    BY DEF Sound
  <2>2. CASE r = p
    <3>1. a.listed[r] = 0
      BY <1>1, <1>3, <1>4, <2>2
    <3> QED
      BY <1>1, <1>2, <1>3, <2>1, <2>2, <3>1, IsPage DEF PageOK
  <2>3. CASE r # p
    <3>1. a.listed[r] = m.listed[r]
      BY <1>1, <1>4, <2>3
    <3> QED
      BY <1>1, <1>2, <2>1, <2>3, <3>1, IsPage DEF PageOK
  <2> QED
    BY <2>2, <2>3
<1>6. Sound(a, D, None, p)
  BY <1>1, <1>5 DEF Sound
<1> QED
  BY <1>2, <1>3, <1>6 DEF a

(* A page that could not be mapped goes back.                                 *)
LEMMA GivenBack ==
    ASSUME NEW m, NEW D, NEW p \in Pages, Sound(m, D, None, p), Count(m, D, p) = 0
    PROVE  Sound(PageFree(m, p), D, None, None)
<1> DEFINE a == PageFree(m, p)
<1>1. m.ref[p] = 0 /\ m.listed[p] = 0
  BY IsPage, Wrap, SizeAssumption DEF Sound, PageOK
<1>2. /\ a \in MemRec /\ a.ref = m.ref /\ a.ptab = m.ptab /\ a.pte = m.pte /\ a.uenvs = m.uenvs
      /\ a.listed = [m.listed EXCEPT ![p] = m.listed[p] + 1]
  BY <1>1, PageFreeRec DEF Sound
<1> HIDE DEF a
<1>3. \A r \in Pages : Count(a, D, r) = Count(m, D, r)
  BY <1>2 DEF Count
<1>4. m.listed \in [Pages -> Int]
  BY DEF Sound, MemRec
<1>5. ASSUME NEW r \in Pages PROVE PageOK(a, D, None, None, r)
  <2>1. PageOK(m, D, None, p, r)
    BY DEF Sound
  <2>2. CASE r = p
    <3>1. a.listed[r] = 1
      BY <1>1, <1>2, <1>4, <2>2
    <3> QED
      BY <1>2, <1>3, <2>1, <2>2, <3>1, IsPage DEF PageOK
  <2>3. CASE r # p
    <3>1. a.listed[r] = m.listed[r]
      BY <1>2, <1>4, <2>3
    <3> QED
      BY <1>2, <1>3, <2>1, <2>3, <3>1, IsPage DEF PageOK
  <2> QED
    BY <2>2, <2>3
<1> QED
  BY <1>2, <1>5 DEF Sound, a

(* The page table pgdir_walk() allocates is used once.                        *)
LEMMA WalkSound ==
    ASSUME NEW m, NEW D, NEW y \in Pages \cup {None}, Sound(m, D, None, y), NEW e \in Envs,
           NEW va \in VAs, NEW q \in WalkPages(m, e, va)
    PROVE  /\ Sound(Walk(m, e, va, q), D, None, y)
           /\ \A r \in Pages : PteCount(Walk(m, e, va, q).pte, r) = PteCount(m.pte, r)
           /\ y # None /\ Count(m, D, y) = 0 => Count(Walk(m, e, va, q), D, y) = 0
<1> DEFINE n == Walk(m, e, va, q)
<1>1. CASE q = None
  BY <1>1 DEF Walk
<1>2. CASE q # None
  <2>1. /\ q \in Pages /\ m.listed[q] > 0 /\ m.ptab[e][TableOf[va]] = None
        /\ n \in MemRec /\ n.pte = m.pte /\ n.uenvs = m.uenvs
        /\ n.ref = [m.ref EXCEPT ![q] = (m.ref[q] + 1) % RefLimit]
        /\ n.listed = [m.listed EXCEPT ![q] = m.listed[q] - 1]
        /\ n.ptab = [m.ptab EXCEPT ![e][TableOf[va]] = q]
    BY <1>2, WalkNew DEF Sound
  <2> HIDE DEF n
  <2>2. Count(m, D, q) = 0 /\ m.listed[q] = 1 /\ q # y
    BY <2>1, CountIn, IsPage DEF Sound, PageOK
  <2>3. m.ref[q] = 0
    BY <2>1, <2>2, Wrap, IsPage, SizeAssumption DEF Sound, PageOK
  <2>4. m.ref \in [Pages -> 0 .. RefLimit - 1] /\ m.listed \in [Pages -> Int] /\ m.ptab \in Directories
    BY DEF Sound, MemRec
  <2>5. \A r \in Pages : TabCount(n.ptab, r) = TabCount(m.ptab, r) + Is(q, r)
    <3> SUFFICES ASSUME NEW r \in Pages PROVE TabCount(n.ptab, r) = TabCount(m.ptab, r) + Is(q, r)
      OBVIOUS
    <3>1. TableOf[va] \in Tables
      BY SizeAssumption
    <3>2. TabCount(n.ptab, r) = TabCount(m.ptab, r) - Is(None, r) + Is(q, r)
      BY <2>1, <2>4, <3>1, TabChange
    <3> QED
      BY <3>2, IsPage, CountTypes
  <2>6. \A r \in Pages : Count(n, D, r) = Count(m, D, r) + Is(q, r)
    BY <2>1, <2>5, CountTypes, IsPage DEF Count, Is, Names
  <2>7. ASSUME NEW r \in Pages PROVE PageOK(n, D, None, y, r)
    <3>1. PageOK(m, D, None, y, r)
      BY DEF Sound
    <3>2. CASE r = q
      <4>1. n.ref[r] = (0 + 1) % RefLimit /\ n.listed[r] = 0 /\ Count(n, D, r) = 1
        BY <2>1, <2>2, <2>3, <2>4, <2>6, <3>2, IsPage
      <4> QED
        BY <4>1, <2>2, <3>2, IsPage, SizeAssumption DEF PageOK, Is
    <3>3. CASE r # q
      <4>1. n.ref[r] = m.ref[r] /\ n.listed[r] = m.listed[r]
        BY <2>1, <2>4, <3>3
      <4>2. Count(n, D, r) = Count(m, D, r) /\ TabCount(n.ptab, r) = TabCount(m.ptab, r)
        BY <2>1, <2>5, <2>6, <3>3, IsPage, CountTypes, CountIn
      <4> QED
        BY <3>1, <4>1, <4>2 DEF PageOK
    <3> QED
      BY <3>2, <3>3
  <2>8. y # None /\ Count(m, D, y) = 0 => Count(n, D, y) = 0
    BY <2>1, <2>2, <2>6, IsPage
  <2>9. Sound(n, D, None, y)
    BY <2>1, <2>7 DEF Sound
  <2> QED
    BY <2>1, <2>8, <2>9 DEF n
<1> QED
  BY <1>1, <1>2

(* page_insert() counts the page before it looks at the old mapping.          *)
LEMMA IncrefSound ==
    ASSUME NEW m, NEW D, NEW p \in Pages, NEW y, Sound(m, D, None, y),
           y = p \/ (y = None /\ Count(m, D, p) > 0)
    PROVE  /\ Sound(Incref(m, p), D, p, p)
           /\ \A r \in Pages : Count(Incref(m, p), D, r) = Count(m, D, r)
<1> DEFINE n == Incref(m, p)
<1>1. /\ n \in MemRec /\ n.listed = m.listed /\ n.ptab = m.ptab /\ n.pte = m.pte /\ n.uenvs = m.uenvs
      /\ n.ref = [m.ref EXCEPT ![p] = (m.ref[p] + 1) % RefLimit]
  BY IncrefRec DEF Sound
<1> HIDE DEF n
<1>2. \A r \in Pages : Count(n, D, r) = Count(m, D, r) /\ Count(m, D, r) \in Nat
  BY <1>1, CountIn DEF Count
<1>3. m.ref \in [Pages -> 0 .. RefLimit - 1]
  BY DEF Sound, MemRec
<1>4. ASSUME NEW r \in Pages PROVE PageOK(n, D, p, p, r)
  <2>1. PageOK(m, D, None, y, r) /\ PageOK(m, D, None, y, p)
    BY DEF Sound
  <2>2. CASE r = p
    <3>1. m.ref[p] = Count(m, D, p)
      <4>1. m.ref[p] = (Count(m, D, p) + 0) % RefLimit
        BY <2>1, IsPage DEF PageOK
      <4>2. Count(m, D, p) \in 0 .. RefLimit - 1
        BY <1>2, <2>1, SizeAssumption DEF PageOK
      <4> QED
        BY <4>1, <4>2, Wrap
    <3>2. n.ref[p] = (Count(n, D, p) + 1) % RefLimit
      BY <1>1, <1>2, <1>3, <3>1
    <3>3. n.listed[p] = 0
      BY <1>1, <1>2, <2>1, IsPage DEF PageOK
    <3> QED
      BY <1>1, <1>2, <2>1, <2>2, <3>2, <3>3, IsPage DEF PageOK
  <2>3. CASE r # p
    <3>1. n.ref[r] = m.ref[r]
      BY <1>1, <1>3, <2>3
    <3> QED
      BY <1>1, <1>2, <2>1, <2>3, <3>1, IsPage DEF PageOK
  <2> QED
    BY <2>2, <2>3
<1>5. Sound(n, D, p, p)
  BY <1>1, <1>4 DEF Sound
<1> QED
  BY <1>2, <1>5 DEF n

(* The old entry loses its page; the page goes to the free list when that was *)
(* the last pointer to it.                                                    *)
LEMMA DropSound ==
    ASSUME NEW m, NEW D, NEW x \in Pages \cup {None}, Sound(m, D, x, x),
           x # None => TabCount(m.ptab, x) + DirCount(D, x) = 0,
           NEW old \in Entries \cup {None},
           old # None => Count(m, D, old.page) > TabCount(m.ptab, old.page) + DirCount(D, old.page),
           NEW i \in MemRec,
           i.ref = IF old = None THEN m.ref ELSE Decref(m, old.page).ref,
           i.listed = IF old = None THEN m.listed ELSE Decref(m, old.page).listed,
           i.ptab = m.ptab,
           \A r \in Pages : Count(i, D, r) = Count(m, D, r) - Names(old, r) + Is(x, r),
           \A r \in Pages : Count(i, D, r) < RefLimit
    PROVE  Sound(i, D, None, None)
<1>1. m.ref \in [Pages -> 0 .. RefLimit - 1] /\ m.listed \in [Pages -> Int]
  BY DEF Sound, MemRec
<1>2. \A r \in Pages : Count(i, D, r) = Count(m, D, r) - Names(old, r) + Is(x, r)
  OBVIOUS
<1>3. \A r \in Pages : Count(i, D, r) \in Nat /\ Count(m, D, r) \in Nat
  BY CountIn
<1>4. \A r \in Pages : TabCount(i.ptab, r) = TabCount(m.ptab, r)
  OBVIOUS
<1>5. CASE old = None
  <2>1. i.ref = m.ref /\ i.listed = m.listed
    BY <1>5
  <2>2. \A r \in Pages : Count(i, D, r) = Count(m, D, r) + Is(x, r)
    BY <1>2, <1>3, <1>5 DEF Names, Is
  <2>3. ASSUME NEW r \in Pages PROVE PageOK(i, D, None, None, r)
    <3>1. PageOK(m, D, x, x, r) /\ Is(None, r) = 0
      BY IsPage DEF Sound
    <3>2. TabCount(m.ptab, r) + DirCount(D, r) > 0 => r # x
      BY SizeAssumption
    <3>3. r # x => Is(x, r) = 0
      BY DEF Is
    <3> QED
      BY <1>3, <1>4, <2>1, <2>2, <3>1, <3>2, <3>3 DEF PageOK
  <2> QED
    BY <2>3 DEF Sound
<1>6. CASE old # None
  <2> DEFINE o == old.page
             v == (m.ref[o] - 1) % RefLimit
  <2>1. /\ o \in Pages
        /\ i.ref = [m.ref EXCEPT ![o] = v]
        /\ i.listed = IF v = 0 THEN [m.listed EXCEPT ![o] = m.listed[o] + 1] ELSE m.listed
    <3>1. /\ o \in Pages /\ i.ref = Decref(m, o).ref /\ i.listed = Decref(m, o).listed
      BY <1>6 DEF Entries
    <3> HIDE DEF o
    <3> QED
      BY <3>1, DecrefRec DEF Sound
  <2>2. Count(m, D, o) > TabCount(m.ptab, o) + DirCount(D, o)
    BY <1>6
  <2>3. \A r \in Pages : Names(old, r) = Is(o, r)
    BY <1>6 DEF Names, Is
  <2> HIDE DEF o
  <2>4. \A r \in Pages : Count(i, D, r) = Count(m, D, r) - Is(o, r) + Is(x, r)
    BY <1>2, <2>3
  <2>5. Count(m, D, o) >= 1 /\ TabCount(m.ptab, o) + DirCount(D, o) = 0
    <3>2. PageOK(m, D, x, x, o)
      BY <2>1 DEF Sound
    <3>3. TabCount(m.ptab, o) \in Nat /\ DirCount(D, o) \in Nat /\ Count(m, D, o) \in Nat
      BY CountTypes, CountIn
    <3> QED
      BY <2>2, <3>2, <3>3 DEF PageOK
  <2>6. v = Count(i, D, o) /\ m.listed[o] = 0
    <3>1. PageOK(m, D, x, x, o) /\ Is(o, o) = 1 /\ Is(x, o) \in {0, 1}
      BY <2>1 DEF Sound, Is
    <3>2. Count(i, D, o) = Count(m, D, o) - 1 + Is(x, o) /\ Count(i, D, o) < RefLimit
      BY <2>1, <2>4, <3>1
    <3>3. m.ref[o] = (Count(m, D, o) + Is(x, o)) % RefLimit /\ m.listed[o] = 0
      BY <2>5, <3>1, <1>3, <2>1 DEF PageOK
    <3>4. CASE Count(m, D, o) + Is(x, o) < RefLimit
      <4>1. m.ref[o] = Count(m, D, o) + Is(x, o)
        BY <3>4, <3>1, <3>3, <1>3, <2>1, Wrap, SizeAssumption
      <4>2. m.ref[o] - 1 = Count(i, D, o)
        BY <4>1, <3>2, <3>1, <1>3, <2>1
      <4> QED
        BY <4>2, <3>2, <3>3, <1>3, <2>1, Wrap, SizeAssumption
    <3>5. CASE Count(m, D, o) + Is(x, o) >= RefLimit
      <4>1. Count(m, D, o) + Is(x, o) = RefLimit /\ Count(i, D, o) = RefLimit - 1
        BY <3>5, <3>1, <3>2, <1>3, <2>1, SizeAssumption DEF PageOK
      <4>2. m.ref[o] = 0
        BY <4>1, <3>3, Wrap
      <4> QED
        BY <4>1, <4>2, <3>3, Wrap
    <3> QED
      BY <3>4, <3>5, <3>1, <1>3, <2>1, SizeAssumption
  <2> HIDE DEF v
  <2>7. ASSUME NEW r \in Pages PROVE PageOK(i, D, None, None, r)
    <3>1. PageOK(m, D, x, x, r) /\ Is(None, r) = 0 /\ (r # x => Is(x, r) = 0)
      BY IsPage DEF Sound, Is
    <3>2. TabCount(m.ptab, r) + DirCount(D, r) > 0 => r # x /\ r # o
      BY <2>5, SizeAssumption
    <3>3. CASE r = o
      <4>1. i.ref[r] = Count(i, D, r) /\ i.ref[r] = (Count(i, D, r) + 0) % RefLimit
        BY <1>1, <1>3, <2>1, <2>6, <3>3, Wrap, SizeAssumption
      <4>2. i.listed[r] = IF Count(i, D, r) = 0 THEN 1 ELSE 0
        BY <1>1, <2>1, <2>6, <3>3
      <4>3. ~(TabCount(i.ptab, r) + DirCount(D, r) > 0)
        BY <1>4, <3>2, <3>3
      <4>4. i.ref[r] = (Count(i, D, r) + Is(None, r)) % RefLimit
        BY <3>1, <4>1
      <4>5. i.listed[r] = IF Count(i, D, r) + Is(None, r) = 0 THEN 1 ELSE 0
        BY <3>1, <4>2, <1>3
      <4> QED
        BY <4>3, <4>4, <4>5 DEF PageOK
    <3>4. CASE r # o
      <4>1. i.ref[r] = m.ref[r] /\ i.listed[r] = m.listed[r]
        BY <1>1, <2>1, <3>4
      <4>2. Count(i, D, r) = Count(m, D, r) + Is(x, r)
        BY <1>3, <2>1, <2>4, <3>4, IsPage DEF Is
      <4> QED
        BY <1>3, <1>4, <3>1, <3>2, <4>1, <4>2 DEF PageOK
    <3> QED
      BY <3>3, <3>4
  <2> QED
    BY <2>7 DEF Sound
<1> QED
  BY <1>5, <1>6

(* The entry is one for an address of an environment.                         *)
LEMMA ReplaceSound ==
    ASSUME NEW m, NEW D, NEW x \in Pages \cup {None}, Sound(m, D, x, x),
           x # None => TabCount(m.ptab, x) + DirCount(D, x) = 0,
           NEW e \in Envs, NEW va \in VAs, NEW i \in MemRec, NEW z,
           i.ref = PageRemove(m, e, va).ref, i.listed = PageRemove(m, e, va).listed,
           i.ptab = m.ptab, i.pte = [m.pte EXCEPT ![e][va] = z], i.uenvs = m.uenvs,
           \A r \in Pages : Names(z, r) = Is(x, r),
           \A r \in Pages : Count(i, D, r) < RefLimit
    PROVE  Sound(i, D, None, None)
<1> DEFINE old == m.pte[e][va]
<1>1. m \in MemRec /\ m.pte \in Spaces /\ old \in Entries \cup {None}
  BY DEF Sound, MemRec, Spaces
<1>2. \A r \in Pages : Count(i, D, r) = Count(m, D, r) - Names(old, r) + Is(x, r)
  <2> SUFFICES ASSUME NEW r \in Pages
               PROVE  Count(i, D, r) = Count(m, D, r) - Names(old, r) + Is(x, r)
    OBVIOUS
  <2>1. PteCount(i.pte, r) = PteCount(m.pte, r) - Names(old, r) + Names(z, r)
    BY <1>1, PteChange
  <2>2. /\ PteCount(m.pte, r) \in Nat /\ TabCount(m.ptab, r) \in Nat /\ DirCount(D, r) \in Nat
        /\ Names(old, r) \in {0, 1} /\ Is(x, r) \in {0, 1} /\ Names(m.uenvs, r) \in {0, 1}
    BY CountTypes DEF Names, Is
  <2>3. Names(z, r) = Is(x, r) /\ i.uenvs = m.uenvs /\ i.ptab = m.ptab
    OBVIOUS
  <2> HIDE DEF old
  <2> QED
    BY <2>1, <2>2, <2>3 DEF Count
<1>3. old # None => Count(m, D, old.page) > TabCount(m.ptab, old.page) + DirCount(D, old.page)
  <2> SUFFICES ASSUME old # None
               PROVE  Count(m, D, old.page) > TabCount(m.ptab, old.page) + DirCount(D, old.page)
    OBVIOUS
  <2>1. PteCount(m.pte, old.page) >= 1
    BY Mapped
  <2>2. /\ PteCount(m.pte, old.page) \in Nat /\ TabCount(m.ptab, old.page) \in Nat
        /\ DirCount(D, old.page) \in Nat /\ Names(m.uenvs, old.page) \in {0, 1}
    BY CountTypes DEF Names
  <2> HIDE DEF old
  <2> QED
    BY <2>1, <2>2 DEF Count
<1>4. /\ i.ref = IF old = None THEN m.ref ELSE Decref(m, old.page).ref
      /\ i.listed = IF old = None THEN m.listed ELSE Decref(m, old.page).listed
  BY <1>1, PageRemoveLists
<1> HIDE DEF old
<1> QED
  BY <1>1, <1>2, <1>3, <1>4, DropSound

LEMMA InsertSound ==
    ASSUME NEW m, NEW D, NEW p \in Pages, NEW y \in Pages \cup {None}, Sound(m, D, None, y),
           (y = p /\ Count(m, D, p) = 0) \/ (y = None /\ PteCount(m.pte, p) >= 1),
           NEW e \in Envs, NEW va \in VAs, NEW w \in BOOLEAN, NEW q \in WalkPages(m, e, va),
           \A r \in Pages : Count(PageInsert(m, e, p, va, w, q), D, r) < RefLimit
    PROVE  Sound(PageInsert(m, e, p, va, w, q), D, None, None)
<1> DEFINE k == Walk(m, e, va, q)
           n == Incref(k, p)
           i == PageInsert(m, e, p, va, w, q)
           z == [page |-> p, w |-> w]
<1>1. m \in MemRec /\ m.pte \in Spaces
  BY DEF Sound, MemRec
<1>2. /\ Sound(k, D, None, y) /\ PteCount(k.pte, p) = PteCount(m.pte, p)
      /\ y # None /\ Count(m, D, y) = 0 => Count(k, D, y) = 0
  BY WalkSound
<1>3. k \in MemRec /\ k.pte = m.pte /\ k.uenvs = m.uenvs
  BY <1>1, WalkType
<1>4. /\ i \in MemRec /\ i.ref = PageRemove(n, e, va).ref /\ i.listed = PageRemove(n, e, va).listed
      /\ i.ptab = PageRemove(n, e, va).ptab /\ i.pte = [m.pte EXCEPT ![e][va] = z]
      /\ i.uenvs = m.uenvs
  BY <1>1, PageInsertRec
<1> HIDE DEF i, k
<1>5. /\ y = p \/ (y = None /\ Count(k, D, p) > 0)
      /\ TabCount(k.ptab, p) + DirCount(D, p) = 0
  <2>1. /\ Count(k, D, p) >= PteCount(k.pte, p) + TabCount(k.ptab, p) + DirCount(D, p)
        /\ PteCount(k.pte, p) \in Nat /\ TabCount(k.ptab, p) \in Nat /\ DirCount(D, p) \in Nat
        /\ Count(k, D, p) \in Nat
    <3>1. /\ PteCount(k.pte, p) \in Nat /\ TabCount(k.ptab, p) \in Nat
          /\ DirCount(D, p) \in Nat /\ Names(k.uenvs, p) \in {0, 1}
      BY CountTypes DEF Names
    <3>2. Count(k, D, p)
            = PteCount(k.pte, p) + TabCount(k.ptab, p) + DirCount(D, p) + Names(k.uenvs, p)
      BY DEF Count
    <3> QED
      BY <3>1, <3>2
  <2>2. PageOK(k, D, None, y, p)
    BY <1>2 DEF Sound
  <2>3. CASE y = p /\ Count(m, D, p) = 0
    <3>1. Count(k, D, p) = 0
      BY <1>2, <2>3, SizeAssumption
    <3> QED
      BY <2>1, <2>3, <3>1
  <2>4. CASE y = None /\ PteCount(m.pte, p) >= 1
    BY <1>2, <2>1, <2>2, <2>4 DEF PageOK
  <2> QED
    BY <2>3, <2>4
<1>6. Sound(n, D, p, p)
  BY <1>2, <1>5, IncrefSound
<1>7. n.ptab = k.ptab /\ n.pte = k.pte /\ n.uenvs = k.uenvs /\ n \in MemRec
  BY <1>3, IncrefRec
<1> HIDE DEF n
<1>8. PageRemove(n, e, va).ptab = n.ptab
  BY <1>7, PageRemoveRec, ZenonT(30)
<1>9. \A r \in Pages : Names(z, r) = Is(p, r)
  <2>1. z \in Entries /\ z.page = p
    BY DEF Entries
  <2> HIDE DEF z
  <2> QED
    BY <2>1, SizeAssumption DEF Names, Is
<1> HIDE DEF z
<1>10. i.ptab = n.ptab /\ i.pte = [n.pte EXCEPT ![e][va] = z] /\ i.uenvs = n.uenvs
  BY <1>3, <1>4, <1>7, <1>8
<1>11. TabCount(n.ptab, p) + DirCount(D, p) = 0
  BY <1>5, <1>7
<1>12. \A r \in Pages : Count(i, D, r) < RefLimit
  BY DEF i
<1>13. Sound(i, D, None, None)
  BY <1>4, <1>6, <1>9, <1>10, <1>11, <1>12, ReplaceSound
<1> QED
  BY <1>13 DEF i

LEMMA RemoveSound ==
    ASSUME NEW m, NEW D, Sound(m, D, None, None), NEW e \in Envs, NEW va \in VAs,
           \A r \in Pages : Count(PageRemove(m, e, va), D, r) < RefLimit
    PROVE  Sound(PageRemove(m, e, va), D, None, None)
<1> DEFINE i == PageRemove(m, e, va)
<1>1. i \in MemRec /\ i.ptab = m.ptab /\ i.pte = [m.pte EXCEPT ![e][va] = None] /\ i.uenvs = m.uenvs
  BY PageRemoveRec DEF Sound
<1>2. \A r \in Pages : Names(None, r) = Is(None, r)
  BY IsPage DEF Names
<1>3. i.ref = PageRemove(m, e, va).ref /\ i.listed = PageRemove(m, e, va).listed
  OBVIOUS
<1> HIDE DEF i
<1>4. \A r \in Pages : Count(i, D, r) < RefLimit
  BY DEF i
<1>5. Sound(i, D, None, None)
  BY <1>1, <1>2, <1>3, <1>4, ReplaceSound
<1> QED
  BY <1>5 DEF i

(* The page is entered at UTOP, where another may have been entered before.    *)
LEMMA SharedSound ==
    ASSUME NEW m, NEW D, Sound(m, D, None, None), NEW p \in Pages, PteCount(m.pte, p) >= 1,
           NEW w \in BOOLEAN,
           \A r \in Pages : Count(InsertShared(m, p, w), D, r) < RefLimit
    PROVE  Sound(InsertShared(m, p, w), D, None, None)
<1> DEFINE n == Incref(m, p)
           i == InsertShared(m, p, w)
           z == [page |-> p, w |-> w]
           old == n.uenvs
<1>1. m \in MemRec
  BY DEF Sound
<1>2. /\ i \in MemRec /\ i.ptab = m.ptab /\ i.pte = m.pte /\ i.uenvs = z
      /\ n \in MemRec /\ n.uenvs = m.uenvs
      /\ i.ref = IF old = None THEN n.ref ELSE Decref(n, old.page).ref
      /\ i.listed = IF old = None THEN n.listed ELSE Decref(n, old.page).listed
  BY <1>1, InsertSharedRec
<1>3. n.ptab = m.ptab /\ n.pte = m.pte
  BY <1>1, IncrefRec
<1>4. Count(m, D, p) > 0 /\ TabCount(m.ptab, p) + DirCount(D, p) = 0
  <2>1. /\ Count(m, D, p) = PteCount(m.pte, p) + TabCount(m.ptab, p) + DirCount(D, p) + Names(m.uenvs, p)
        /\ PteCount(m.pte, p) \in Nat /\ TabCount(m.ptab, p) \in Nat /\ DirCount(D, p) \in Nat
        /\ Names(m.uenvs, p) \in {0, 1}
    BY CountTypes DEF Count, Names
  <2>2. PageOK(m, D, None, None, p)
    BY DEF Sound
  <2> QED
    BY <2>1, <2>2 DEF PageOK
<1>5. Sound(n, D, p, p)
  BY <1>4, IncrefSound
<1>6. old \in Entries \cup {None}
  BY <1>2 DEF MemRec
<1>7. \A r \in Pages : Names(z, r) = Is(p, r)
  <2>1. z \in Entries /\ z.page = p
    BY DEF Entries
  <2> HIDE DEF z
  <2> QED
    BY <2>1, SizeAssumption DEF Names, Is
<1> HIDE DEF n, i, z
<1>8. \A r \in Pages : Count(i, D, r) = Count(n, D, r) - Names(old, r) + Is(p, r)
  <2> SUFFICES ASSUME NEW r \in Pages
               PROVE  Count(i, D, r) = Count(n, D, r) - Names(old, r) + Is(p, r)
    OBVIOUS
  <2>1. /\ PteCount(m.pte, r) \in Nat /\ TabCount(m.ptab, r) \in Nat /\ DirCount(D, r) \in Nat
        /\ Names(old, r) \in {0, 1} /\ Is(p, r) \in {0, 1}
    BY CountTypes DEF Names, Is
  <2>2. Count(n, D, r) = PteCount(m.pte, r) + TabCount(m.ptab, r) + DirCount(D, r) + Names(old, r)
    BY <1>3 DEF Count
  <2>3. Count(i, D, r) = PteCount(m.pte, r) + TabCount(m.ptab, r) + DirCount(D, r) + Is(p, r)
    BY <1>2, <1>7 DEF Count
  <2> HIDE DEF old
  <2> QED
    BY <2>1, <2>2, <2>3
<1>9. old # None => Count(n, D, old.page) > TabCount(n.ptab, old.page) + DirCount(D, old.page)
  <2> SUFFICES ASSUME old # None
               PROVE  Count(n, D, old.page) > TabCount(n.ptab, old.page) + DirCount(D, old.page)
    OBVIOUS
  <2>1. /\ PteCount(n.pte, old.page) \in Nat /\ TabCount(n.ptab, old.page) \in Nat
        /\ DirCount(D, old.page) \in Nat /\ Names(old, old.page) = 1
    BY CountTypes DEF Names
  <2> QED
    BY <2>1 DEF Count
<1>10. \A r \in Pages : Count(i, D, r) < RefLimit
  BY DEF i
<1>11. i.ptab = n.ptab /\ TabCount(n.ptab, p) + DirCount(D, p) = 0
  BY <1>2, <1>3, <1>4
<1> HIDE DEF old
<1>12. Sound(i, D, None, None)
  BY <1>2, <1>5, <1>6, <1>8, <1>9, <1>10, <1>11, DropSound
<1> QED
  BY <1>12 DEF i

------------------------------------------------------------------------------
Counted == Sound(Mem, pgdir, None, None)

\* pp_ref does not wrap.
FewUses == \A p \in Pages : Uses(p) < RefLimit

LEMMA UsesCount ==
    /\ \A p : Uses(p) = Count(Mem, pgdir, p)
    /\ \A p : Uses(p)' = Count(Mem', pgdir', p)
BY DEF Uses, Users, TableUsers, DirUsers, Shown, Names, Count, PteCount, TabCount, DirCount, Mem

LEMMA SetMemEq ==
    ASSUME NEW m \in MemRec, SetMem(m) PROVE Mem' = m
BY DEF SetMem, Mem, MemRec

LEMMA CountedNext == ASSUME Sound(Mem', pgdir', None, None) PROVE Counted'
BY DEF Counted

LEMMA SetSound ==
    ASSUME NEW m \in MemRec, SetMem(m), UNCHANGED pgdir, FewUses',
           (\A r \in Pages : Count(m, pgdir, r) < RefLimit) => Sound(m, pgdir, None, None)
    PROVE  Counted'
<1>1. Mem' = m
  BY SetMemEq
<1>2. \A r \in Pages : Count(m, pgdir, r) < RefLimit
  BY <1>1, UsesCount DEF FewUses
<1>3. Sound(Mem', pgdir', None, None)
  BY <1>1, <1>2
<1> QED
  BY <1>3, CountedNext

LEMMA AllocCounted ==
    ASSUME Counted, FewUses', NEW c \in CPUs, NEW e \in Envs, NEW va \in VAs, NEW w \in BOOLEAN,
           SysPageAlloc(c, e, va, w)
    PROVE  Counted'
<1>1. PICK p \in {x \in Pages : listed[x] > 0} :
         LET m == PageAlloc(Mem, p)
         IN  /\ IF WalkPages(m, e, va) = {}
                  THEN SetMem(PageFree(m, p))
                  ELSE \E q \in WalkPages(m, e, va) : SetMem(PageInsert(m, e, p, va, w, q))
             /\ UNCHANGED pgdir
  BY DEF SysPageAlloc
<1> DEFINE m == PageAlloc(Mem, p)
<1>2. Sound(m, pgdir, None, p) /\ Count(m, pgdir, p) = 0 /\ m \in MemRec
  <2>1. Mem.listed[p] > 0
    BY MemFields
  <2>2. Sound(m, pgdir, None, p) /\ Count(m, pgdir, p) = 0
    BY <2>1, AllocSound DEF Counted
  <2> QED
    BY <2>2 DEF Sound
<1> HIDE DEF m
<1>3. CASE SetMem(PageFree(m, p))
  <2>1. Sound(PageFree(m, p), pgdir, None, None)
    BY <1>2, GivenBack
  <2>2. PageFree(m, p) \in MemRec
    BY <2>1 DEF Sound
  <2> QED
    BY <1>1, <1>3, <2>1, <2>2, SetSound
<1>4. ASSUME NEW q \in WalkPages(m, e, va), SetMem(PageInsert(m, e, p, va, w, q)) PROVE Counted'
  <2> DEFINE i == PageInsert(m, e, p, va, w, q)
  <2>1. i \in MemRec
    BY <1>2, PageInsertRec
  <2>2. (\A r \in Pages : Count(i, pgdir, r) < RefLimit) => Sound(i, pgdir, None, None)
    BY <1>2, InsertSound
  <2> HIDE DEF i
  <2>3. SetMem(i)
    BY <1>4 DEF i
  <2> QED
    BY <1>1, <2>1, <2>2, <2>3, SetSound
<1> QED
  BY <1>1, <1>3, <1>4 DEF m

LEMMA MapCounted ==
    ASSUME Counted, FewUses', NEW c \in CPUs, NEW s \in Envs, NEW sva \in VAs, NEW d \in Envs,
           NEW dva \in VAs, NEW w \in BOOLEAN, SysPageMap(c, s, sva, d, dva, w)
    PROVE  Counted'
<1> DEFINE p == pte[s][sva].page
<1>1. Mem \in MemRec /\ Mem.pte = pte
  BY MemFields DEF Counted, Sound
<1>2. p \in Pages /\ PteCount(Mem.pte, p) >= 1
  <2>1. pte[s][sva] # None
    BY DEF SysPageMap
  <2>2. p \in Pages
    BY <1>1, <2>1 DEF MemRec, Spaces, Entries
  <2>3. PteCount(pte, p) >= 1
    BY <2>1, Mapped
  <2> QED
    BY <1>1, <2>2, <2>3
<1>3. PICK q \in WalkPages(Mem, d, dva) : SetMem(PageInsert(Mem, d, p, dva, w, q))
  BY DEF SysPageMap
<1>4. UNCHANGED pgdir
  BY DEF SysPageMap
<1> HIDE DEF p
<1> DEFINE i == PageInsert(Mem, d, p, dva, w, q)
<1>5. i \in MemRec
  BY <1>1, <1>2, PageInsertRec
<1>6. (\A r \in Pages : Count(i, pgdir, r) < RefLimit) => Sound(i, pgdir, None, None)
  BY <1>2, InsertSound DEF Counted
<1>7. SetMem(i)
  BY <1>3
<1> HIDE DEF i
<1> QED
  BY <1>4, <1>5, <1>6, <1>7, SetSound

LEMMA SharedCounted ==
    ASSUME Shape, Counted, FewUses', NEW c \in CPUs, NEW sva \in VAs, NEW d \in Envs,
           NEW w \in BOOLEAN, SysIpcSendPage(c, sva, d, UTOP, w)
    PROVE  Counted'
<1> DEFINE p == pte[run[c]][sva].page
<1>1. /\ run[c] \in Envs /\ pte[run[c]][sva] # None
      /\ SetMem(InsertShared(Mem, p, w)) /\ UNCHANGED pgdir
  BY DEF SysIpcSendPage, Shape
<1>2. Mem \in MemRec /\ Mem.pte = pte
  BY MemFields DEF Counted, Sound
<1>3. p \in Pages
  BY <1>1, <1>2 DEF MemRec, Spaces, Entries
<1>4. PteCount(pte, p) >= 1
  BY <1>1, Mapped
<1> HIDE DEF p
<1> DEFINE i == InsertShared(Mem, p, w)
<1>5. i \in MemRec
  BY <1>2, <1>3, InsertSharedRec
<1>6. (\A r \in Pages : Count(i, pgdir, r) < RefLimit) => Sound(i, pgdir, None, None)
  BY <1>2, <1>3, <1>4, SharedSound DEF Counted
<1>7. SetMem(i)
  BY <1>1
<1> HIDE DEF i
<1> QED
  BY <1>1, <1>5, <1>6, <1>7, SetSound

LEMMA UnmapCounted ==
    ASSUME Counted, FewUses', NEW c \in CPUs, NEW e \in Envs, NEW va \in VAs, SysPageUnmap(c, e, va)
    PROVE  Counted'
<1> DEFINE i == PageRemove(Mem, e, va)
<1>1. i \in MemRec
  BY PageRemoveRec DEF Counted, Sound
<1>2. (\A r \in Pages : Count(i, pgdir, r) < RefLimit) => Sound(i, pgdir, None, None)
  BY RemoveSound DEF Counted
<1>3. SetMem(i) /\ UNCHANGED pgdir
  BY DEF SysPageUnmap
<1> HIDE DEF i
<1> QED
  BY <1>1, <1>2, <1>3, SetSound

(* env_setup_vm(): the page directory has one user, the environment.          *)
LEMMA ExoforkCounted ==
    ASSUME Counted, NEW c \in CPUs, NEW e \in Envs, SysExofork(c, e) PROVE Counted'
<1>1. PICK d \in {x \in Pages : listed[x] > 0} :
         /\ SetMem(Incref(PageAlloc(Mem, d), d))
         /\ pgdir' = [pgdir EXCEPT ![e] = d]
  BY DEF SysExofork
<1> DEFINE a == PageAlloc(Mem, d)
           n == Incref(a, d)
<1>2. Sound(a, pgdir, None, d) /\ Count(a, pgdir, d) = 0
  <2>1. Mem.listed[d] > 0
    BY MemFields
  <2> QED
    BY <2>1, AllocSound DEF Counted
<1> HIDE DEF a
<1>3. Sound(n, pgdir, d, d) /\ Count(n, pgdir, d) = 0
  BY <1>2, IncrefSound
<1> HIDE DEF n
<1>4. n \in MemRec /\ pgdir \in [Envs -> Pages \cup {None}] /\ Mem' = n
  BY <1>1, <1>3, SetMemEq DEF Sound, n, a
<1>5. pgdir[e] = None /\ pgdir' = [pgdir EXCEPT ![e] = d]
  BY <1>1 DEF SysExofork
<1>6. ASSUME NEW r \in Pages PROVE PageOK(n, pgdir', None, None, r)
  <2>1. PageOK(n, pgdir, d, d, r)
    BY <1>3 DEF Sound
  <2>2. DirCount(pgdir', r) = DirCount(pgdir, r) + Is(d, r)
    <3> DEFINE D == [pgdir EXCEPT ![e] = d]
    <3>1. D[e] = d /\ (\A f \in Envs \ {e} : D[f] = pgdir[f]) /\ pgdir' = D
      BY <1>4, <1>5
    <3> HIDE DEF D
    <3>2. DirCount(D, r) = DirCount(pgdir, r) - Is(pgdir[e], r) + Is(d, r)
      BY <1>4, <3>1, DirChange
    <3>3. DirCount(pgdir', r) = DirCount(D, r)
      BY <3>1
    <3> QED
      BY <1>5, <3>2, <3>3, IsPage, CountTypes
  <2>3. Count(n, pgdir', r) = Count(n, pgdir, r) + Is(d, r)
    BY <2>2, CountTypes DEF Count, Is, Names
  <2>4. CASE r = d
    <3>1. Is(d, r) = 1 /\ Is(None, r) = 0 /\ Count(n, pgdir', r) = 1
      BY <1>3, <2>3, <2>4, IsPage
    <3> QED
      BY <1>3, <2>1, <2>4, <3>1, SizeAssumption DEF PageOK
  <2>5. CASE r # d
    <3>1. Is(d, r) = 0 /\ Is(None, r) = 0
      BY <2>5, IsPage
    <3>2. Count(n, pgdir', r) = Count(n, pgdir, r) /\ DirCount(pgdir', r) = DirCount(pgdir, r)
      BY <2>2, <2>3, <3>1, CountIn, CountTypes
    <3> QED
      BY <2>1, <3>1, <3>2 DEF PageOK
  <2> QED
    BY <2>4, <2>5
<1>7. Sound(Mem', pgdir', None, None)
  BY <1>4, <1>5, <1>6 DEF Sound
<1> QED
  BY <1>7, CountedNext

------------------------------------------------------------------------------
(* env_free() takes a row off each table.                                     *)
IsRow(S, a, R) == \A b : b \in R <=> <<a, b>> \in S
IsRest(S, a, Q) == \A u : u \in Q <=> u \in S /\ u[1] # a

LEMMA Row ==
    ASSUME NEW A, NEW B, NEW S \in SUBSET (A \X B), IsFiniteSet(S), NEW a,
           NEW R, IsRow(S, a, R), NEW Q, IsRest(S, a, Q)
    PROVE  Cardinality(Q) = Cardinality(S) - Cardinality(R) /\ Cardinality(R) \in Nat
<1> USE DEF IsRow, IsRest
<1> DEFINE C == {u \in S : u[1] = a}
           f == [u \in C |-> u[2]]
<1>1. IsFiniteSet(C)
  BY FS_Subset
<1>2. f \in Bijection(C, R)
  <2>1. \A u \in C : u = <<a, u[2]>> /\ u[2] \in R
    OBVIOUS
  <2>2. f \in [C -> R]
    BY <2>1
  <2>3. \A u, v \in C : f[u] = f[v] => u = v
    BY <2>1
  <2>4. \A b \in R : \E u \in C : f[u] = b
    <3> SUFFICES ASSUME NEW b \in R PROVE \E u \in C : f[u] = b
      OBVIOUS
    <3>1. <<a, b>> \in C /\ f[<<a, b>>] = b
      OBVIOUS
    <3> QED
      BY <3>1
  <2> QED
    BY <2>2, <2>3, <2>4, Fun_IsBij
<1> HIDE DEF f
<1>3. IsFiniteSet(R) /\ Cardinality(R) = Cardinality(C)
  <2>1. ExistsBijection(C, R)
    BY <1>2 DEF ExistsBijection
  <2> QED
    BY <1>1, <2>1, FS_Bijection
<1>4. Cardinality(S \ C) = Cardinality(S) - Cardinality(C)
  <2>1. S \cap C = C
    OBVIOUS
  <2>2. Cardinality(S \ C) = Cardinality(S) - Cardinality(S \cap C)
    BY FS_Difference
  <2> QED
    BY <2>1, <2>2
<1>5. Cardinality(R) \in Nat
  BY <1>3, FS_CardinalityType
<1> QED
  BY <1>3, <1>4, <1>5

LEMMA PteClear ==
    ASSUME NEW T \in Spaces, NEW e \in Envs, NEW p
    PROVE  LET R == {v \in VAs : T[e][v] # None /\ T[e][v].page = p}
           IN  /\ PteCount([T EXCEPT ![e] = [v \in VAs |-> None]], p)
                     = PteCount(T, p) - Cardinality(R)
               /\ Cardinality(R) \in Nat
<1> DEFINE U == [T EXCEPT ![e] = [v \in VAs |-> None]]
           R == {v \in VAs : T[e][v] # None /\ T[e][v].page = p}
           S == {u \in Envs \X VAs : T[u[1]][u[2]] # None /\ T[u[1]][u[2]].page = p}
           Q == {u \in Envs \X VAs : U[u[1]][u[2]] # None /\ U[u[1]][u[2]].page = p}
<1>1. \A v \in VAs : U[e][v] = None
  BY DEF Spaces
<1>2. \A f \in Envs \ {e} : U[f] = T[f]
  BY DEF Spaces
<1>3. IsFiniteSet(S) /\ S \in SUBSET (Envs \X VAs)
  BY Places, FS_Subset
<1> HIDE DEF U
<1>4. IsRest(S, e, Q)
  BY <1>1, <1>2 DEF IsRest
<1>5. IsRow(S, e, R)
  BY DEF IsRow
<1> HIDE DEF S, R, Q
<1>6. Cardinality(Q) = Cardinality(S) - Cardinality(R) /\ Cardinality(R) \in Nat
  BY <1>3, <1>4, <1>5, Row
<1>7. PteCount(T, p) = Cardinality(S) /\ PteCount(U, p) = Cardinality(Q)
  BY DEF PteCount, S, Q
<1> QED
  BY <1>6, <1>7 DEF U, R

LEMMA TabClear ==
    ASSUME NEW T \in Directories, NEW e \in Envs, NEW p \in Pages
    PROVE  LET R == {t \in Tables : T[e][t] = p}
           IN  /\ TabCount([T EXCEPT ![e] = [t \in Tables |-> None]], p)
                     = TabCount(T, p) - Cardinality(R)
               /\ Cardinality(R) \in Nat
<1> DEFINE U == [T EXCEPT ![e] = [t \in Tables |-> None]]
           R == {t \in Tables : T[e][t] = p}
           S == {u \in Envs \X Tables : T[u[1]][u[2]] = p}
           Q == {u \in Envs \X Tables : U[u[1]][u[2]] = p}
<1>1. \A t \in Tables : U[e][t] # p
  BY SizeAssumption DEF Directories
<1>2. \A f \in Envs \ {e} : U[f] = T[f]
  BY DEF Directories
<1>3. IsFiniteSet(S) /\ S \in SUBSET (Envs \X Tables)
  BY Places, FS_Subset
<1> HIDE DEF U
<1>4. IsRest(S, e, Q)
  BY <1>1, <1>2 DEF IsRest
<1>5. IsRow(S, e, R)
  BY DEF IsRow
<1> HIDE DEF S, R, Q
<1>6. Cardinality(Q) = Cardinality(S) - Cardinality(R) /\ Cardinality(R) \in Nat
  BY <1>3, <1>4, <1>5, Row
<1>7. TabCount(T, p) = Cardinality(S) /\ TabCount(U, p) = Cardinality(Q)
  BY DEF TabCount, S, Q
<1> QED
  BY <1>6, <1>7 DEF U, R

LEMMA FreeCounted ==
    ASSUME Counted, NEW c \in CPUs, NEW e \in Envs, EnvFree(c, e), Mem' \in MemRec
    PROVE  Counted'
<1> DEFINE C(p) == Count(Mem, pgdir, p)
           N(p) == Count(Mem', pgdir', p)
           P == [pte EXCEPT ![e] = [v \in VAs |-> None]]
           T == [ptab EXCEPT ![e] = [t \in Tables |-> None]]
           D == [pgdir EXCEPT ![e] = None]
<1>1. /\ Mem \in MemRec /\ ref \in [Pages -> 0 .. RefLimit - 1] /\ listed \in [Pages -> Int]
      /\ ptab \in Directories /\ pte \in Spaces /\ pgdir \in [Envs -> Pages \cup {None}]
  BY MemFields DEF Counted, Sound
<1>2. /\ Mem'.pte = P /\ Mem'.ptab = T /\ pgdir' = D /\ Mem'.ref = ref' /\ Mem'.listed = listed'
      /\ Mem'.uenvs = uenvs
  BY DEF EnvFree, Mem
<1>3. D \in [Envs -> Pages \cup {None}]
  BY <1>1
<1>4. ASSUME NEW p \in Pages
      PROVE  /\ N(p) = C(p) - Dropped(e, p) /\ C(p) \in Nat /\ N(p) \in Nat
             /\ Dropped(e, p) \in Nat
             /\ TabCount(T, p) + DirCount(D, p) <= TabCount(ptab, p) + DirCount(pgdir, p)
             /\ N(p) >= TabCount(T, p) + DirCount(D, p)
  <2> DEFINE a == Cardinality({v \in VAs : pte[e][v] # None /\ pte[e][v].page = p})
             b == Cardinality({t \in Tables : ptab[e][t] = p})
             i == IF pgdir[e] = p THEN 1 ELSE 0
  <2>1. PteCount(P, p) = PteCount(pte, p) - a /\ a \in Nat
    BY <1>1, PteClear
  <2>2. TabCount(T, p) = TabCount(ptab, p) - b /\ b \in Nat
    BY <1>1, TabClear
  <2>3. DirCount(D, p) = DirCount(pgdir, p) - i /\ i \in {0, 1}
    <3>1. D[e] = None /\ \A f \in Envs \ {e} : D[f] = pgdir[f]
      BY <1>1
    <3> HIDE DEF D
    <3>2. DirCount(D, p) = DirCount(pgdir, p) - Is(pgdir[e], p) + Is(None, p)
      BY <1>1, <3>1, DirChange
    <3> QED
      BY <3>2, IsPage, CountTypes DEF Is
  <2>4. Dropped(e, p) = a + b + i
    BY DEF Dropped
  <2>5. /\ PteCount(P, p) \in Nat /\ TabCount(T, p) \in Nat /\ DirCount(D, p) \in Nat
        /\ PteCount(pte, p) \in Nat /\ TabCount(ptab, p) \in Nat /\ DirCount(pgdir, p) \in Nat
        /\ Names(uenvs, p) \in {0, 1}
    BY CountTypes DEF Names
  <2>6. N(p) = PteCount(P, p) + TabCount(T, p) + DirCount(D, p) + Names(uenvs, p)
    BY <1>2 DEF Count
  <2>7. C(p) = PteCount(pte, p) + TabCount(ptab, p) + DirCount(pgdir, p) + Names(uenvs, p)
    BY MemFields DEF Count
  <2> HIDE DEF a, b, i, P, T, D, N, C
  <2> QED
    BY <2>1, <2>2, <2>3, <2>4, <2>5, <2>6, <2>7
<1>5. ASSUME NEW p \in Pages PROVE PageOK(Mem', pgdir', None, None, p)
  <2> DEFINE k == Dropped(e, p)
  <2>1. PageOK(Mem, pgdir, None, None, p) /\ Is(None, p) = 0 /\ Mem.ref = ref /\ Mem.listed = listed
        /\ Mem.ptab = ptab
    BY IsPage, MemFields DEF Counted, Sound
  <2>2. /\ C(p) < RefLimit /\ ref[p] = C(p) % RefLimit /\ listed[p] = IF C(p) = 0 THEN 1 ELSE 0
        /\ TabCount(ptab, p) + DirCount(pgdir, p) > 0 => C(p) = 1
    BY <1>4, <2>1 DEF PageOK
  <2>3. /\ ref'[p] = (ref[p] - k) % RefLimit
        /\ listed'[p] = IF ref[p] \in 1 .. k THEN listed[p] + 1 ELSE listed[p]
    BY DEF EnvFree
  <2>4. N(p) = C(p) - k /\ C(p) \in Nat /\ N(p) \in Nat /\ k \in Nat
        /\ TabCount(T, p) + DirCount(D, p) <= TabCount(ptab, p) + DirCount(pgdir, p)
        /\ N(p) >= TabCount(T, p) + DirCount(D, p)
    BY <1>4
  <2>5. /\ TabCount(T, p) \in Nat /\ DirCount(D, p) \in Nat
        /\ TabCount(ptab, p) \in Nat /\ DirCount(pgdir, p) \in Nat
    BY CountTypes
  <2> HIDE DEF k, C, N, T, D, P
  <2>6. ref[p] = C(p)
    BY <2>2, <2>4, Wrap, SizeAssumption
  <2>7. N(p) < RefLimit /\ ref'[p] = N(p) % RefLimit
    BY <2>2, <2>3, <2>4, <2>6, SizeAssumption
  <2>8. listed'[p] = IF N(p) = 0 THEN 1 ELSE 0
    BY <2>2, <2>3, <2>4, <2>6
  <2>9. TabCount(T, p) + DirCount(D, p) > 0 => N(p) = 1
    BY <2>2, <2>4, <2>5
  <2> QED
    BY <1>2, <2>1, <2>4, <2>7, <2>8, <2>9 DEF PageOK, N
<1>6. Sound(Mem', pgdir', None, None)
  BY <1>2, <1>3, <1>5 DEF Sound
<1> QED
  BY <1>6, CountedNext

(* page_init() and the page directory of the first environment.               *)
LEMMA InitCounted == Init => Counted
<1> SUFFICES ASSUME Init PROVE Counted
  OBVIOUS
<1>1. PICK d \in Pages :
          /\ pgdir = [e \in Envs |-> IF e = First THEN d ELSE None]
          /\ ref = [p \in Pages |-> IF p = d THEN 1 ELSE 0]
          /\ listed = [p \in Pages |-> IF p = d THEN 0 ELSE 1]
          /\ ptab = [e \in Envs |-> [t \in Tables |-> None]]
          /\ pte = [e \in Envs |-> [v \in VAs |-> None]]
          /\ uenvs = None
  BY DEF Init
<1>2. Mem \in MemRec /\ pgdir \in [Envs -> Pages \cup {None}]
  <2>1. /\ ref \in [Pages -> 0 .. RefLimit - 1] /\ listed \in [Pages -> Int]
        /\ ptab \in Directories /\ pte \in Spaces /\ uenvs \in Entries \cup {None}
    BY <1>1, SizeAssumption DEF Directories, Spaces
  <2> QED
    BY <1>1, <2>1, MemFields
<1>3. ASSUME NEW p \in Pages PROVE PageOK(Mem, pgdir, None, None, p)
  <2>1. PteCount(pte, p) = 0
    <3>1. {u \in Envs \X VAs : pte[u[1]][u[2]] # None /\ pte[u[1]][u[2]].page = p} = {}
      BY <1>1
    <3> QED
      BY <3>1, FS_EmptySet DEF PteCount
  <2>2. TabCount(ptab, p) = 0
    <3>1. {u \in Envs \X Tables : ptab[u[1]][u[2]] = p} = {}
      BY <1>1, SizeAssumption
    <3> QED
      BY <3>1, FS_EmptySet DEF TabCount
  <2>3. DirCount(pgdir, p) = Is(d, p)
    <3>1. {e \in Envs : pgdir[e] = p} = IF d = p THEN {First} ELSE {}
      BY <1>1, SizeAssumption
    <3> QED
      BY <3>1, FS_EmptySet, FS_Singleton DEF DirCount, Is
  <2>4. Count(Mem, pgdir, p) = Is(d, p) /\ Mem.ref = ref /\ Mem.listed = listed /\ Mem.ptab = ptab
    BY <1>1, <2>1, <2>2, <2>3, MemFields DEF Count, Is, Names
  <2>5. ref[p] = Is(d, p) /\ listed[p] = 1 - Is(d, p)
    BY <1>1 DEF Is
  <2>6. Is(d, p) \in {0, 1} /\ Is(None, p) = 0
    BY IsPage DEF Is
  <2>7. Is(d, p) < RefLimit /\ Is(d, p) % RefLimit = Is(d, p)
    BY <2>6, Wrap, SizeAssumption
  <2> QED
    BY <2>2, <2>3, <2>4, <2>5, <2>6, <2>7 DEF PageOK
<1> QED
  BY <1>2, <1>3 DEF Counted, Sound

(* Everything else leaves the page tables and the counts alone.               *)
LEMMA QuietCounted == ASSUME Counted, UNCHANGED <<memVars, pgdir>> PROVE Counted'
<1>1. Mem' = Mem /\ pgdir' = pgdir
  BY DEF Mem, memVars
<1>2. Sound(Mem', pgdir', None, None)
  BY <1>1 DEF Counted
<1> QED
  BY <1>2, CountedNext

LEMMA NextCounted ==
    ASSUME Shape, Counted, FewUses', [Next]_vars PROVE Counted'
<1>1. ASSUME NEW c \in CPUs, Common(c) PROVE Counted'
  <2>1. ASSUME NEW e \in Envs, SysExofork(c, e) PROVE Counted'
    BY <2>1, ExoforkCounted
  <2>2. ASSUME NEW e \in Envs, Start(c, e) PROVE Counted'
    BY <2>2, QuietCounted DEF Start
  <2>3. ASSUME NEW e \in Envs, EnvFree(c, e) PROVE Counted'
    BY <2>3, FreeTypes, FreeCounted
  <2>4. ASSUME NEW e \in Envs \cup {None}, Switch(c, e) PROVE Counted'
    BY <2>4, QuietCounted DEF Switch
  <2>5. ASSUME NEW va \in VAs \cup {UTOP}, Touch(c, va) PROVE Counted'
    BY <2>5, QuietCounted DEF Touch
  <2>6. ASSUME NEW sva \in VAs, NEW va \in VAs \cup {UTOP}, NEW e \in Envs, NEW w \in BOOLEAN,
               SysIpcSendPage(c, sva, e, va, w)
        PROVE  Counted'
    <3>1. CASE va \in VAs
      <4>1. va # UTOP
        BY <3>1, SizeAssumption
      <4>2. run[c] \in Envs /\ SysPageMap(c, run[c], sva, e, va, w)
        BY <2>6, <4>1 DEF SysIpcSendPage, Shape
      <4> QED
        BY <3>1, <4>2, MapCounted
    <3>2. CASE va = UTOP
      BY <2>6, <3>2, SharedCounted
    <3> QED
      BY <3>1, <3>2
  <2> QED
    BY <1>1, <2>1, <2>2, <2>3, <2>4, <2>5, <2>6 DEF Common
<1>2. ASSUME NEW c \in CPUs, NEW e \in Envs, MemCall(c, e) PROVE Counted'
  BY <1>2, AllocCounted, MapCounted, UnmapCounted DEF MemCall
<1>3. ASSUME UNCHANGED vars PROVE Counted'
  BY <1>3, QuietCounted DEF vars
<1> QED
  BY <1>1, <1>2, <1>3 DEF Next

------------------------------------------------------------------------------
PageInv == TlbInv /\ Counted

LEMMA InitPage == Init => PageInv
BY InitTlb, InitCounted DEF PageInv

LEMMA NextPage == PageInv /\ FewUses' /\ [Next]_vars => PageInv'
BY NextTlb, NextCounted DEF PageInv, TlbInv

LEMMA PageCounts ==
    ASSUME Counted, NEW p \in Pages
    PROVE  /\ Uses(p) \in Nat /\ Uses(p) < RefLimit
           /\ ref[p] = Uses(p)
           /\ listed[p] = IF Uses(p) = 0 THEN 1 ELSE 0
           /\ TableUsers(p) # {} \/ DirUsers(p) # {} => Uses(p) = 1
<1>1. Uses(p) = Count(Mem, pgdir, p) /\ Uses(p) \in Nat
  BY UsesCount, CountIn
<1>2. PageOK(Mem, pgdir, None, None, p) /\ Is(None, p) = 0
  BY IsPage DEF Counted, Sound
<1>3. /\ Uses(p) < RefLimit /\ ref[p] = Uses(p) % RefLimit
      /\ listed[p] = IF Uses(p) = 0 THEN 1 ELSE 0
      /\ TabCount(ptab, p) + DirCount(pgdir, p) > 0 => Uses(p) = 1
  BY <1>1, <1>2, MemFields DEF PageOK
<1>4. ref[p] = Uses(p)
  BY <1>1, <1>3, Wrap, SizeAssumption
<1>5. ASSUME TableUsers(p) # {} \/ DirUsers(p) # {} PROVE Uses(p) = 1
  <2>1. /\ TabCount(ptab, p) = Cardinality(TableUsers(p)) /\ IsFiniteSet(TableUsers(p))
        /\ DirCount(pgdir, p) = Cardinality(DirUsers(p)) /\ IsFiniteSet(DirUsers(p))
    BY Places, FS_Subset DEF TableUsers, DirUsers, TabCount, DirCount
  <2>2. TabCount(ptab, p) \in Nat /\ DirCount(pgdir, p) \in Nat
    BY CountTypes
  <2>3. TabCount(ptab, p) # 0 \/ DirCount(pgdir, p) # 0
    BY <1>5, <2>1, FS_EmptySet
  <2> QED
    BY <1>3, <2>2, <2>3
<1> QED
  BY <1>1, <1>3, <1>4, <1>5

(* The variables have their types; a page is never on the free list twice.    *)
THEOREM TypeCorrect == Spec /\ []FewUses => []TypeOK
<1>1. PageInv => TypeOK
  <2> SUFFICES ASSUME PageInv PROVE TypeOK
    OBVIOUS
  <2>1. /\ ref \in [Pages -> 0 .. RefLimit - 1] /\ listed \in [Pages -> Int]
        /\ ptab \in Directories /\ pte \in Spaces /\ uenvs \in Entries \cup {None}
    BY MemFields DEF PageInv, TlbInv, Shape
  <2>2. \A p \in Pages : listed[p] \in {0, 1}
    BY PageCounts DEF PageInv
  <2>3. listed \in [Pages -> {0, 1}]
    BY <2>1, <2>2
  <2> QED
    BY <2>1, <2>3 DEF PageInv, TlbInv, Shape, TypeOK, Directories, Spaces
<1> QED
  BY <1>1, InitPage, NextPage, PTL DEF Spec

(* inc/memlayout.h: as long as no page has 2^16 users, pp_ref is the number   *)
(* of page table entries, page tables and page directories that point to it.  *)
THEOREM CountsExact == Spec /\ []FewUses => []RefsExact
<1>1. PageInv => RefsExact
  BY PageCounts DEF PageInv, RefsExact
<1> QED
  BY <1>1, InitPage, NextPage, PTL DEF Spec

(* kern/pmap.c, page_decref and page_alloc: under the same condition no page  *)
(* is lost, and none is on the free list while something points to it.        *)
THEOREM FreeListExact == Spec /\ []FewUses => []FreeIffUnused
<1>1. PageInv => FreeIffUnused
  BY PageCounts DEF PageInv, FreeIffUnused
<1> QED
  BY <1>1, InitPage, NextPage, PTL DEF Spec

(* kern/pmap.c, pgdir_walk, and kern/env.c, env_setup_vm: under the same      *)
(* condition a page table or page directory is mapped nowhere.                *)
THEOREM TablesAlone == Spec /\ []FewUses => []TablesPrivate
<1>1. PageInv => TablesPrivate
  BY PageCounts DEF PageInv, TablesPrivate
<1> QED
  BY <1>1, InitPage, NextPage, PTL DEF Spec

------------------------------------------------------------------------------
(* A machine with so few addresses that a page cannot have 2^16 users.        *)
FewPlaces ==
    Cardinality(Envs \X VAs) + Cardinality(Envs \X Tables) + Cardinality(Envs) + 1 < RefLimit

(* On such a machine the condition of the theorems above always holds: it is  *)
(* about the width of pp_ref, not about the order of the calls.               *)
THEOREM NoWrap == FewPlaces => (Spec => [](RefsExact /\ FreeIffUnused /\ TablesPrivate))
<1> SUFFICES ASSUME FewPlaces PROVE Spec => [](RefsExact /\ FreeIffUnused /\ TablesPrivate)
  OBVIOUS
<1>1. FewUses
  <2> SUFFICES ASSUME NEW p \in Pages PROVE Uses(p) < RefLimit
    BY DEF FewUses
  <2>1. /\ Users(p) \subseteq Envs \X VAs /\ TableUsers(p) \subseteq Envs \X Tables
        /\ DirUsers(p) \subseteq Envs
    BY DEF Users, TableUsers, DirUsers
  <2>2. Cardinality(Users(p)) <= Cardinality(Envs \X VAs)
    BY <2>1, Places, FS_Subset
  <2>3. Cardinality(TableUsers(p)) <= Cardinality(Envs \X Tables)
    BY <2>1, Places, FS_Subset
  <2>4. Cardinality(DirUsers(p)) <= Cardinality(Envs)
    BY <2>1, Places, FS_Subset
  <2>5. /\ Cardinality(Users(p)) \in Nat /\ Cardinality(TableUsers(p)) \in Nat
        /\ Cardinality(DirUsers(p)) \in Nat /\ Cardinality(Envs \X VAs) \in Nat
        /\ Cardinality(Envs \X Tables) \in Nat /\ Cardinality(Envs) \in Nat
    BY <2>1, Places, FS_Subset, FS_CardinalityType
  <2>6. RefLimit \in Nat
    BY SizeAssumption
  <2> QED
    BY <2>2, <2>3, <2>4, <2>5, <2>6 DEF Uses, Shown, FewPlaces
<1>2. PageInv => RefsExact /\ FreeIffUnused /\ TablesPrivate
  BY PageCounts DEF PageInv, RefsExact, FreeIffUnused, TablesPrivate
<1> QED
  BY <1>1, <1>2, InitPage, NextPage, PTL DEF Spec
=============================================================================
