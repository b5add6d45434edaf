------------------------------ MODULE PageMem ------------------------------
(***************************************************************************)
(* Physical pages and address spaces: the page allocator and page tables   *)
(* of kern/pmap.c, env_setup_vm and env_free of kern/env.c, and the memory *)
(* system calls of kern/syscall.c, on several processors with TLBs.        *)
(*                                                                         *)
(* Every action is one kernel entry under the big kernel lock, so that     *)
(* the reference counts and the page tables change together; what a        *)
(* processor in user mode sees of them is what its TLB has kept.  Every    *)
(* kernel entry ends in env_run() or sched_halt(), both of which load cr3  *)
(* and so empty the TLB of the processor that made it; the TLBs of the     *)
(* other processors are not touched by anything.                           *)
(*                                                                         *)
(* The order of page_free_list is abstracted: page_alloc() returns any     *)
(* page of the list.                                                       *)
(*                                                                         *)
(* A receiver waits with an address below UTOP, or, when it wants no page, *)
(* with UTOP itself: lib/ipc.c passes sys_ipc_recv() nothing else.  The    *)
(* kernel enters a page it is sent at either; at UTOP that is the page     *)
(* table of UENVS, which every page directory shares.                      *)
(***************************************************************************)
EXTENDS Integers, FiniteSets

CONSTANTS Pages,     \* pages[]
          Envs,      \* slots of envs[]
          First,     \* the environment there is at boot
          VAs,       \* page-aligned addresses below UTOP
          UTOP,      \* the first address above them, where UENVS begins
          Tables,    \* page directory entries below UTOP
          TableOf,   \* PDX of each address
          CPUs,      \* processors
          RefLimit,  \* pp_ref is a uint16_t: 2^16
          None       \* null

Entries == [page : Pages, w : BOOLEAN]

ASSUME SizeAssumption == /\ IsFiniteSet(Pages) /\ IsFiniteSet(Envs)
                         /\ IsFiniteSet(VAs) /\ IsFiniteSet(Tables)
                         /\ First \in Envs
                         /\ TableOf \in [VAs -> Tables]
                         /\ RefLimit \in Nat \ {0, 1}
                         /\ None \notin Pages \cup Envs \cup Entries
                         /\ UTOP \notin VAs

VARIABLES ref,      \* pp_ref
          listed,   \* how many times page_free_list holds the page
          pgdir,    \* env_pgdir
          ptab,     \* page tables named by the page directory of each environment
          pte,      \* page table entries: the page and PTE_W, or None
          uenvs,    \* the entry at UTOP in the page table of the kernel that all
                    \* page directories share; None as at boot, for envs[]
          parent,   \* env_parent_id, None once that environment is gone
          started,  \* the parent has made the environment runnable
          run,      \* curenv of each processor in user mode, None if it is idle
          tlb       \* [va, page, w] entries each processor has kept

memVars == <<ref, listed, ptab, pte, uenvs>>
vars == <<memVars, pgdir, parent, started, run, tlb>>

TypeOK == /\ ref \in [Pages -> 0 .. RefLimit - 1]
          /\ listed \in [Pages -> {0, 1}]
          /\ uenvs \in Entries \cup {None}
          /\ pgdir \in [Envs -> Pages \cup {None}]
          /\ ptab \in [Envs -> [Tables -> Pages \cup {None}]]
          /\ pte \in [Envs -> [VAs -> Entries \cup {None}]]
          /\ parent \in [Envs -> Envs \cup {None}]
          /\ started \in [Envs -> BOOLEAN]
          /\ run \in [CPUs -> Envs \cup {None}]
          /\ tlb \in [CPUs -> SUBSET [va : VAs \cup {UTOP}, page : Pages, w : BOOLEAN]]

\* The places that hold a counted pointer to page p.
Users(p) == {u \in Envs \X VAs : pte[u[1]][u[2]] # None /\ pte[u[1]][u[2]].page = p}
TableUsers(p) == {u \in Envs \X Tables : ptab[u[1]][u[2]] = p}
DirUsers(p) == {e \in Envs : pgdir[e] = p}
Shown(p) == IF uenvs # None /\ uenvs.page = p THEN 1 ELSE 0
Uses(p) == Cardinality(Users(p)) + Cardinality(TableUsers(p)) + Cardinality(DirUsers(p)) + Shown(p)

\* page_init() has listed every page, and First has been given a page directory.
Init == \E d \in Pages :
          /\ pgdir = [e \in Envs |-> IF e = First THEN d ELSE None]
          /\ ref = [p \in Pages |-> IF p = d THEN 1 ELSE 0]
          /\ listed = [p \in Pages |-> IF p = d THEN 0 ELSE 1]
          /\ ptab = [e \in Envs |-> [t \in Tables |-> None]]
          /\ pte = [e \in Envs |-> [v \in VAs |-> None]]
          /\ uenvs = None
          /\ parent = [e \in Envs |-> None]
          /\ started = [e \in Envs |-> e = First]
          /\ run = [c \in CPUs |-> None]
          /\ tlb = [c \in CPUs |-> {}]

------------------------------------------------------------------------------
(* kern/pmap.c.  The operators below take and return a record m of the       *)
(* allocator and the page tables, so that a kernel function is the            *)
(* composition of the calls it makes.                                         *)

Mem == [ref |-> ref, listed |-> listed, ptab |-> ptab, pte |-> pte, uenvs |-> uenvs]

PageAlloc(m, p) == [m EXCEPT !.listed[p] = @ - 1]

PageFree(m, p) == IF m.ref[p] # 0 THEN m ELSE [m EXCEPT !.listed[p] = @ + 1]

Incref(m, p) == [m EXCEPT !.ref[p] = (@ + 1) % RefLimit]

Decref(m, p) ==
    LET n == [m EXCEPT !.ref[p] = (@ - 1) % RefLimit]
    IN  IF n.ref[p] = 0 THEN PageFree(n, p) ELSE n

PageRemove(m, e, va) ==
    IF m.pte[e][va] = None THEN m
    ELSE [Decref(m, m.pte[e][va].page) EXCEPT !.pte[e][va] = None]

\* The pages pgdir_walk(create) may allocate for a page table; None if the
\* table is there already.
WalkPages(m, e, va) ==
    IF m.ptab[e][TableOf[va]] # None THEN {None} ELSE {q \in Pages : m.listed[q] > 0}

Walk(m, e, va, q) ==
    IF q = None THEN m
    ELSE [Incref(PageAlloc(m, q), q) EXCEPT !.ptab[e][TableOf[va]] = q]

\* Mutant: the old mapping is removed before the new one is counted.
PageInsertLateIncref(m, e, p, va, w, q) ==
    [Incref(PageRemove(Walk(m, e, va, q), e, va), p)
        EXCEPT !.pte[e][va] = [page |-> p, w |-> w]]

\* page_insert(), when pgdir_walk has found or allocated (q) the page table.
PageInsert(m, e, p, va, w, q) ==
    [PageRemove(Incref(Walk(m, e, va, q), p), e, va)
        EXCEPT !.pte[e][va] = [page |-> p, w |-> w]]

\* Mutant: the page that was at UTOP before is not given up.
InsertSharedOver(m, p, w) == [Incref(m, p) EXCEPT !.uenvs = [page |-> p, w |-> w]]

\* page_insert() at UTOP, where there always is a page table.  The page of envs[],
\* which it replaces the first time, is none of Pages: its count goes from 0 to
\* RefLimit - 1, so that it is not freed.
InsertShared(m, p, w) ==
    LET n == Incref(m, p)
    IN  [IF n.uenvs = None THEN n ELSE Decref(n, n.uenvs.page)
            EXCEPT !.uenvs = [page |-> p, w |-> w]]

SetMem(m) == /\ ref' = m.ref
             /\ listed' = m.listed
             /\ ptab' = m.ptab
             /\ pte' = m.pte
             /\ uenvs' = m.uenvs

------------------------------------------------------------------------------
(* System calls, made by the environment processor c runs. *)

\* Back to the same environment: env_run() loads cr3.
Resume(c) == /\ tlb' = [tlb EXCEPT ![c] = {}]
             /\ UNCHANGED run

\* envid2env(checkperm = 1): the environment itself or a child of its.
Permitted(c, e) == /\ run[c] # None /\ pgdir[e] # None
                   /\ run[c] \in {e, parent[e]}

\* The callers in lib/ and user/ leave a child alone once they have started it.
Target(c, e) == Permitted(c, e) /\ (e = run[c] \/ ~started[e])

\* Mutant: the page is not given back when the page table cannot be allocated.
SysPageAllocLeaks(c, e, va, w) ==
    \E p \in {x \in Pages : listed[x] > 0} :
       LET m == PageAlloc(Mem, p)
       IN  /\ IF WalkPages(m, e, va) = {}
                THEN SetMem(m)
                ELSE \E q \in WalkPages(m, e, va) : SetMem(PageInsert(m, e, p, va, w, q))
           /\ Resume(c)
           /\ UNCHANGED <<pgdir, parent, started>>

\* sys_page_alloc() past its checks; it fails with nothing changed when there is
\* no page, or none for the page table.
SysPageAlloc(c, e, va, w) ==
    \E p \in {x \in Pages : listed[x] > 0} :
       LET m == PageAlloc(Mem, p)
       IN  /\ IF WalkPages(m, e, va) = {}
                THEN SetMem(PageFree(m, p))
                ELSE \E q \in WalkPages(m, e, va) : SetMem(PageInsert(m, e, p, va, w, q))
           /\ Resume(c)
           /\ UNCHANGED <<pgdir, parent, started>>

\* sys_page_map() past its checks: the source is mapped, and writable if the
\* copy is to be.
SysPageMap(c, s, sva, d, dva, w) ==
    /\ pte[s][sva] # None
    /\ w => pte[s][sva].w
    /\ \E q \in WalkPages(Mem, d, dva) :
          SetMem(PageInsert(Mem, d, pte[s][sva].page, dva, w, q))
    /\ Resume(c)
    /\ UNCHANGED <<pgdir, parent, started>>

SysPageUnmap(c, e, va) == /\ SetMem(PageRemove(Mem, e, va))
                          /\ Resume(c)
                          /\ UNCHANGED <<pgdir, parent, started>>

\* Mutant: sys_ipc_try_send() does not look at env_ipc_recving.
NotWaitingIgnored(e) == started[e]

\* An environment in sys_ipc_recv() runs nowhere (KernEnv!RecvBlocks).
Waiting(e) == started[e] /\ \A c \in CPUs : run[c] # e

\* sys_ipc_try_send() with a page, to anybody who receives, at the address it
\* receives with: UTOP is not told from an address below it.
SysIpcSendPage(c, sva, d, dva, w) ==
    /\ run[c] # None /\ pgdir[d] # None
    /\ Waiting(d)
    /\ IF dva # UTOP THEN SysPageMap(c, run[c], sva, d, dva, w)
       ELSE /\ pte[run[c]][sva] # None
            /\ w => pte[run[c]][sva].w
            /\ SetMem(InsertShared(Mem, pte[run[c]][sva].page, w))
            /\ Resume(c)
            /\ UNCHANGED <<pgdir, parent, started>>

\* sys_exofork(): env_setup_vm() takes a page for the page directory.
SysExofork(c, e) == /\ run[c] # None
                    /\ pgdir[e] = None
                    /\ \E d \in {x \in Pages : listed[x] > 0} :
                          /\ SetMem(Incref(PageAlloc(Mem, d), d))
                          /\ pgdir' = [pgdir EXCEPT ![e] = d]
                    /\ parent' = [parent EXCEPT ![e] = run[c]]
                    /\ started' = [started EXCEPT ![e] = FALSE]
                    /\ Resume(c)

\* sys_env_set_status(child, ENV_RUNNABLE)
Start(c, e) == /\ Permitted(c, e) /\ ~started[e]
               /\ started' = [started EXCEPT ![e] = TRUE]
               /\ Resume(c)
               /\ UNCHANGED <<memVars, pgdir, parent>>

\* Mutant: the page tables are not released.
DroppedNoTables(e, p) ==
    Cardinality({v \in VAs : pte[e][v] # None /\ pte[e][v].page = p})
        + (IF pgdir[e] = p THEN 1 ELSE 0)

\* What env_free(e) takes off the count of page p: its mappings, page tables and
\* page directory.  page_decref() frees the page when it gets to 0.
Dropped(e, p) == Cardinality({v \in VAs : pte[e][v] # None /\ pte[e][v].page = p})
                 + Cardinality({t \in Tables : ptab[e][t] = p})
                 + (IF pgdir[e] = p THEN 1 ELSE 0)

\* Mutant: freed under the processor that runs it.
CanFreeAlways(c, e) == TRUE

\* env_destroy() leaves an environment that runs on another processor to that one.
CanFree(c, e) == \A d \in CPUs \ {c} : run[d] # e

EnvFree(c, e) ==
    /\ Permitted(c, e)
    /\ CanFree(c, e)
    /\ ref' = [p \in Pages |-> (ref[p] - Dropped(e, p)) % RefLimit]
    /\ listed' = [p \in Pages |-> IF ref[p] \in 1 .. Dropped(e, p) THEN listed[p] + 1
                                                                   ELSE listed[p]]
    /\ pgdir' = [pgdir EXCEPT ![e] = None]
    /\ ptab' = [ptab EXCEPT ![e] = [t \in Tables |-> None]]
    /\ pte' = [pte EXCEPT ![e] = [v \in VAs |-> None]]
    /\ UNCHANGED uenvs
    /\ parent' = [f \in Envs |-> IF f = e \/ parent[f] = e THEN None ELSE parent[f]]
    /\ started' = [started EXCEPT ![e] = FALSE]
    /\ run' = [run EXCEPT ![c] = IF @ = e THEN None ELSE @]
    /\ tlb' = [tlb EXCEPT ![c] = {}]

------------------------------------------------------------------------------
\* The scheduler: env_run(), or with None sched_halt().
Switch(c, e) == /\ e # None => started[e] /\ \A d \in CPUs \ {c} : run[d] # e
                /\ run' = [run EXCEPT ![c] = e]
                /\ tlb' = [tlb EXCEPT ![c] = {}]
                /\ UNCHANGED <<memVars, pgdir, parent, started>>

\* What the page tables of environment e have at an address.
At(e, va) == IF va = UTOP THEN uenvs ELSE pte[e][va]

\* The processor walks the page tables and keeps what it finds.
Touch(c, va) == /\ run[c] # None
                /\ At(run[c], va) # None
                /\ \A x \in tlb[c] : x.va # va
                /\ tlb' = [tlb EXCEPT ![c] = @ \cup
                              {[va |-> va, page |-> At(run[c], va).page,
                                           w |-> At(run[c], va).w]}]
                /\ UNCHANGED <<memVars, pgdir, parent, started, run>>

MemCall(c, e) ==
    \E va \in VAs, w \in BOOLEAN :
       \/ SysPageAlloc(c, e, va, w)
       \/ \E s \in Envs, sva \in VAs : Target(c, s) /\ SysPageMap(c, s, sva, e, va, w)
       \/ SysPageUnmap(c, e, va)

Common(c) == \/ \E e \in Envs : SysExofork(c, e) \/ Start(c, e) \/ EnvFree(c, e)
             \/ \E e \in Envs \cup {None} : Switch(c, e)
             \/ \E va \in VAs \cup {UTOP} : Touch(c, va)
             \/ \E sva \in VAs, e \in Envs, va \in VAs \cup {UTOP}, w \in BOOLEAN :
                   SysIpcSendPage(c, sva, e, va, w)

Next == \E c \in CPUs : \/ Common(c)
                        \/ \E e \in Envs : Target(c, e) /\ MemCall(c, e)

Spec == Init /\ [][Next]_vars

------------------------------------------------------------------------------
(* Properties *)

\* memlayout.h: pp_ref is the count of pointers to the page, the one a page sent
\* to a receiver without an address leaves in the shared table included.
RefsExact == \A p \in Pages : ref[p] = Uses(p)

\* A page is on the free list, once, exactly when nothing uses it: no page is
\* leaked by a failing call or a dying environment, and none is freed in use.
FreeIffUnused == \A p \in Pages : listed[p] = IF Uses(p) = 0 THEN 1 ELSE 0

\* A page that serves as page directory or page table is nothing else: no
\* environment can write it, and no other address space uses it.
TablesPrivate ==
    \A p \in Pages : TableUsers(p) # {} \/ DirUsers(p) # {} => Uses(p) = 1

\* pmap.c: the TLB holds no entry for an address below UTOP that has been removed
\* from the page tables of the environment that runs, nor any of an environment
\* that is gone: what a processor in user mode reaches there without the kernel
\* is in use.  It is not so at UTOP: a second page sent to receivers without an
\* address takes the place of the first, which may be freed, while another
\* processor keeps the translation.
TlbCoherent ==
    \A c \in CPUs : \A x \in tlb[c] : x.va # UTOP =>
        run[c] # None /\ pte[run[c]][x.va] = [page |-> x.page, w |-> x.w]
=============================================================================
