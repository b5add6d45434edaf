---------------------------- MODULE KernEnvProofs ----------------------------
(***************************************************************************)
(* Proofs about KernEnv, for any number of processors, slots and           *)
(* generations: under LibSpec the environment table, the free list and the *)
(* processors stay consistent.                                             *)
(*                                                                         *)
(* Every kernel entry has two parts: the handler changes the table and     *)
(* computes the statuses st it hands to the scheduler, together with the   *)
(* processor's curenv, cv; the scheduler then picks what runs.  The proof  *)
(* is split at that point.  TableOK is what each handler establishes about *)
(* the table, SchedPre what it establishes about st, cv and the other      *)
(* processors, and SchedPost what the scheduler makes of it.               *)
(***************************************************************************)
EXTENDS KernEnv, SequenceTheorems, TLAPS

\* Only a processor in user mode, in the monitor or in a panic has a curenv.
CurMatchesMode ==
    \A c \in CPUs : /\ mode[c] = "user" => cur[c] \in Slots
                    /\ mode[c] \in {"boot", "halted"} => cur[c] = None

PgdirMatches == \A e \in Slots : pgdir[e] <=> status[e] # "FREE"

\* An environment under construction cannot have called sys_ipc_recv().
FreshDoNotReceive == \A e \in Slots : status[e] # "FREE" /\ fresh[e] => ~recving[e]

IInv == /\ TypeOK
        /\ CurMatchesMode
        /\ PgdirMatches
        /\ OneCpuPerEnv
        /\ StatusTellsWhoRuns
        /\ RunsWhatItLoaded
        /\ FreeListExact
        /\ RecvBlocks
        /\ NotRunBeforeStarted
        /\ FreshDoNotReceive
        /\ NoPanic
        /\ MonitorOnlyWhenIdle

\* The new table, with the statuses st.
TableOK(st) ==
    /\ gen' \in [Slots -> 0 .. MaxGen]
    /\ parent' \in [Slots -> Ids \cup {None}]
    /\ recving' \in [Slots -> BOOLEAN]
    /\ pgdir' \in [Slots -> BOOLEAN]
    /\ freeList' \in Seq(Slots)
    /\ fresh' \in [Slots -> BOOLEAN]
    /\ \A e \in Slots : pgdir'[e] <=> st[e] # "FREE"
    /\ \A i, j \in DOMAIN freeList' : freeList'[i] = freeList'[j] => i = j
    /\ \A e \in Slots : st[e] = "FREE" <=> \E i \in DOMAIN freeList' : freeList'[i] = e
    /\ \A e \in Slots : st[e] # "FREE" /\ recving'[e] => st[e] = "NOT_RUNNABLE"
    /\ \A e \in Slots : st[e] # "FREE" /\ fresh'[e] => st[e] = "NOT_RUNNABLE" /\ ~recving'[e]

\* Processor c may call the scheduler: leaving it aside, the statuses tell who
\* runs, and its own environment, if it still has one, runs nowhere else.
SchedPre(c, st, cv) ==
    /\ st \in [Slots -> Statuses]
    /\ cv \in Slots \cup {None}
    /\ \A e \in Slots :
          st[e] \in {"RUNNING", "DYING"} <=> \/ \E d \in CPUs \ {c} : OnCpu(d, e)
                                             \/ e = cv /\ st[e] = "RUNNING"
    /\ \A d \in CPUs \ {c} : ~OnCpu(d, cv)
    /\ \A d \in CPUs \ {c}, e \in Slots : OnCpu(d, e) => ctx[d] = <<gen'[e], e>>

\* The scheduler moves environments between RUNNABLE and RUNNING only.
SchedPost(st) ==
    /\ status' \in [Slots -> Statuses]
    /\ cur' \in [CPUs -> Slots \cup {None}]
    /\ mode' \in [CPUs -> Modes]
    /\ ctx' \in [CPUs -> Ids \cup {None}]
    /\ \A e \in Slots : /\ status'[e] = "FREE" <=> st[e] = "FREE"
                        /\ status'[e] = "NOT_RUNNABLE" <=> st[e] = "NOT_RUNNABLE"
    /\ CurMatchesMode'
    /\ OneCpuPerEnv'
    /\ StatusTellsWhoRuns'
    /\ \A c \in CPUs : mode'[c] = "user" => ctx'[c] = <<gen'[cur'[c]], cur'[c]>>
    /\ NoPanic'
    /\ MonitorOnlyWhenIdle'

------------------------------------------------------------------------------
(* The two halves give the invariant back. *)
LEMMA Assemble ==
    ASSUME NEW st, st \in [Slots -> Statuses], TableOK(st), SchedPost(st)
    PROVE  IInv'
<1>1. TypeOK'
  BY DEF TableOK, SchedPost, TypeOK
<1>2. /\ PgdirMatches' /\ FreeListExact' /\ RecvBlocks'
      /\ NotRunBeforeStarted' /\ FreshDoNotReceive'
  BY DEF TableOK, SchedPost, PgdirMatches, FreeListExact, RecvBlocks,
         NotRunBeforeStarted, FreshDoNotReceive
<1>3. RunsWhatItLoaded'
  <2> SUFFICES ASSUME NEW c \in CPUs, mode'[c] = "user"
               PROVE  pgdir'[cur'[c]] /\ ctx'[c] = <<gen'[cur'[c]], cur'[c]>>
    BY DEF RunsWhatItLoaded, Id
  <2>1. cur'[c] \in Slots /\ ctx'[c] = <<gen'[cur'[c]], cur'[c]>>
    BY DEF SchedPost, CurMatchesMode
  <2>2. status'[cur'[c]] \in {"RUNNING", "DYING"}
    BY <2>1 DEF SchedPost, StatusTellsWhoRuns, OnCpu
  <2> QED
    BY <2>1, <2>2, <1>2 DEF PgdirMatches
<1> QED
  BY <1>1, <1>2, <1>3 DEF SchedPost, IInv

(* env_run() of a ready environment, or of the processor's own. *)
LEMMA EnvRunPost ==
    ASSUME IInv, LockComesBack, NEW c \in CPUs, NEW st, NEW cv, NEW e \in Slots,
           SchedPre(c, st, cv), TableOK(st),
           st[e] = "RUNNABLE" \/ (e = cv /\ st[e] = "RUNNING"),
           EnvRun(c, e, st, cv)
    PROVE  SchedPost(st)
<1> DEFINE put == [s \in Slots |-> IF s = cv /\ st[s] = "RUNNING" THEN "RUNNABLE"
                                                                  ELSE st[s]]
<1>1. pgdir'[e]
  BY DEF TableOK
<1>2. /\ status' = [put EXCEPT ![e] = "RUNNING"]
      /\ cur' = [cur EXCEPT ![c] = e]
      /\ ctx' = [ctx EXCEPT ![c] = <<gen'[e], e>>]
      /\ mode' = [mode EXCEPT ![c] = "user"]
  BY <1>1 DEF EnvRun
<1>3. put \in [Slots -> Statuses]
  BY DEF SchedPre, Statuses
<1>4. /\ status' \in [Slots -> Statuses]
      /\ cur' \in [CPUs -> Slots \cup {None}]
      /\ mode' \in [CPUs -> Modes]
  BY <1>2, <1>3 DEF IInv, TypeOK, Statuses, Modes
<1>5. ctx' \in [CPUs -> Ids \cup {None}]
  <2>1. <<gen'[e], e>> \in Ids
    BY DEF TableOK, Ids
  <2> QED
    BY <1>2, <2>1 DEF IInv, TypeOK
<1>6. \A f \in Slots : /\ status'[f] = "FREE" <=> st[f] = "FREE"
                       /\ status'[f] = "NOT_RUNNABLE" <=> st[f] = "NOT_RUNNABLE"
  BY <1>2, <1>3 DEF SchedPre
<1>7. CurMatchesMode' /\ NoPanic' /\ MonitorOnlyWhenIdle'
  BY <1>2 DEF IInv, TypeOK, CurMatchesMode, NoPanic, MonitorOnlyWhenIdle,
              LockComesBack
<1>8. \A d \in CPUs, f \in Slots :
         OnCpu(d, f)' <=> IF d = c THEN f = e ELSE OnCpu(d, f)
  BY <1>2 DEF IInv, TypeOK, OnCpu
<1>9. \A d \in CPUs \ {c} : ~OnCpu(d, e)
  BY DEF SchedPre
<1>10. OneCpuPerEnv'
  BY <1>8, <1>9 DEF IInv, OneCpuPerEnv
<1>11. StatusTellsWhoRuns'
  <2> SUFFICES ASSUME NEW f \in Slots
               PROVE  status'[f] \in {"RUNNING", "DYING"} <=> \E d \in CPUs : OnCpu(d, f)'
    BY DEF StatusTellsWhoRuns
  <2>1. CASE f = e
    BY <1>2, <1>3, <1>8, <2>1
  <2>2. CASE f # e
    <3>1. status'[f] \in {"RUNNING", "DYING"} <=> \E d \in CPUs \ {c} : OnCpu(d, f)
      BY <1>2, <1>3, <2>2 DEF SchedPre
    <3> QED
      BY <1>8, <2>2, <3>1
  <2> QED
    BY <2>1, <2>2
<1>12. \A d \in CPUs : mode'[d] = "user" => ctx'[d] = <<gen'[cur'[d]], cur'[d]>>
  BY <1>2 DEF IInv, TypeOK, CurMatchesMode, SchedPre, OnCpu
<1> QED
  BY <1>4, <1>5, <1>6, <1>7, <1>10, <1>11, <1>12 DEF SchedPost

(* sched_halt(): nothing is ready, and this processor's environment cannot run. *)
LEMMA SchedHaltPost ==
    ASSUME IInv, LockComesBack, NEW c \in CPUs, NEW st, NEW cv,
           SchedPre(c, st, cv), TableOK(st),
           ~(cv # None /\ st[cv] = "RUNNING"),
           SchedHalt(c, st, cv)
    PROVE  SchedPost(st)
<1> USE NoneAssumption
<1>1. PICK m \in {"halted", "monitor"}, v \in Slots \cup {None} :
         /\ mode' = [mode EXCEPT ![c] = m]
         /\ cur' = [cur EXCEPT ![c] = v]
         /\ m = "halted" => v = None
  <2>1. cv \in Slots \cup {None}
    BY DEF SchedPre
  <2> QED
    BY <2>1 DEF SchedHalt
<1>2. status' = st /\ ctx' = [ctx EXCEPT ![c] = None]
  BY DEF SchedHalt
<1>3. /\ status' \in [Slots -> Statuses]
      /\ cur' \in [CPUs -> Slots \cup {None}]
      /\ mode' \in [CPUs -> Modes]
      /\ ctx' \in [CPUs -> Ids \cup {None}]
  BY <1>1, <1>2 DEF SchedPre, IInv, TypeOK, Modes
<1>4. \A d \in CPUs, f \in Slots : OnCpu(d, f)' <=> d # c /\ OnCpu(d, f)
  BY <1>1, <1>2 DEF IInv, TypeOK, OnCpu
<1>5. CurMatchesMode' /\ NoPanic' /\ OneCpuPerEnv'
  BY <1>1, <1>4 DEF IInv, TypeOK, CurMatchesMode, NoPanic, OneCpuPerEnv, LockComesBack
<1>6. StatusTellsWhoRuns'
  <2> SUFFICES ASSUME NEW f \in Slots
               PROVE  status'[f] \in {"RUNNING", "DYING"} <=> \E d \in CPUs : OnCpu(d, f)'
    BY DEF StatusTellsWhoRuns
  <2>1. f = cv => st[f] # "RUNNING"
    OBVIOUS
  <2> QED
    BY <1>1, <1>2, <1>4, <2>1 DEF SchedPre
<1>7. \A d \in CPUs : mode'[d] = "user" => ctx'[d] = <<gen'[cur'[d]], cur'[d]>>
  BY <1>1, <1>2 DEF IInv, TypeOK, CurMatchesMode, SchedPre, OnCpu
<1>8. MonitorOnlyWhenIdle'
  <2> SUFFICES ASSUME NEW a \in CPUs, NEW d \in CPUs,
                      mode'[a] = "monitor", mode'[d] = "user"
               PROVE  FALSE
    BY DEF MonitorOnlyWhenIdle
  <2>1. a = c /\ mode'[c] = "monitor" /\ d # c /\ mode[d] = "user"
    BY <1>1 DEF IInv, TypeOK, LockComesBack
  <2>2. \A f \in Slots : st[f] \notin {"RUNNABLE", "RUNNING", "DYING"}
    BY <2>1 DEF SchedHalt, IInv, TypeOK
  <2>3. cur[d] \in Slots /\ OnCpu(d, cur[d])
    BY <2>1 DEF IInv, CurMatchesMode, OnCpu
  <2> QED
    BY <2>1, <2>2, <2>3 DEF SchedPre
<1> QED
  BY <1>1, <1>2, <1>3, <1>5, <1>6, <1>7, <1>8 DEF SchedPost

(* sched_yield(), and the end of trap(), whatever they choose. *)
LEMMA SchedYieldPost ==
    ASSUME IInv, LockComesBack, NEW c \in CPUs, NEW st, NEW cv,
           SchedPre(c, st, cv), TableOK(st), SchedYield(c, st, cv)
    PROVE  SchedPost(st)
<1>1. CASE \E e \in Slots : st[e] = "RUNNABLE"
  <2>1. PICK e \in Slots : NextRunnable(e, st, cv) /\ EnvRun(c, e, st, cv)
    BY <1>1 DEF SchedYield
  <2>2. st[e] = "RUNNABLE"
    BY <2>1 DEF NextRunnable
  <2> QED
    BY <2>1, <2>2, EnvRunPost
<1>2. CASE ~(\E e \in Slots : st[e] = "RUNNABLE") /\ cv # None /\ st[cv] = "RUNNING"
  <2>1. EnvRun(c, cv, st, cv)
    BY <1>2 DEF SchedYield
  <2>2. cv \in Slots
    BY <1>2 DEF SchedPre
  <2> QED
    BY <1>2, <2>1, <2>2, EnvRunPost
<1>3. CASE ~(\E e \in Slots : st[e] = "RUNNABLE") /\ ~(cv # None /\ st[cv] = "RUNNING")
  <2>1. SchedHalt(c, st, cv)
    BY <1>3 DEF SchedYield
  <2> QED
    BY <1>3, <2>1, SchedHaltPost
<1> QED
  BY <1>1, <1>2, <1>3

LEMMA TrapReturnPost ==
    ASSUME IInv, LockComesBack, NEW c \in CPUs, NEW st, NEW cv,
           SchedPre(c, st, cv), TableOK(st), TrapReturn(c, st, cv)
    PROVE  SchedPost(st)
<1>1. CASE cv # None /\ st[cv] = "RUNNING"
  <2>1. EnvRun(c, cv, st, cv) /\ cv \in Slots
    BY <1>1 DEF TrapReturn, SchedPre
  <2> QED
    BY <1>1, <2>1, EnvRunPost
<1>2. CASE ~(cv # None /\ st[cv] = "RUNNING")
  BY <1>2, SchedYieldPost DEF TrapReturn
<1> QED
  BY <1>1, <1>2

------------------------------------------------------------------------------
(* What the kernel finds on entry. *)

\* An environment some processor runs; the processor is not idle.
LEMMA EntryFacts ==
    ASSUME IInv, NEW c \in CPUs, mode[c] = "user"
    PROVE  /\ cur[c] \in Slots
           /\ status[cur[c]] \in {"RUNNING", "DYING"}
           /\ \A d \in CPUs \ {c} : ~OnCpu(d, cur[c])
BY DEF IInv, CurMatchesMode, StatusTellsWhoRuns, OneCpuPerEnv, OnCpu

\* The table satisfies TableOK when the handler leaves it alone.
LEMMA TableUnchanged ==
    ASSUME IInv, UNCHANGED slotVars
    PROVE  TableOK(status)
BY DEF IInv, TypeOK, slotVars, TableOK, PgdirMatches, FreeListExact, RecvBlocks,
       NotRunBeforeStarted, FreshDoNotReceive

\* The other processors' environments keep their ids when gen does not change.
LEMMA OthersKeepCtx ==
    ASSUME IInv, NEW c \in CPUs
    PROVE  \A d \in CPUs \ {c}, e \in Slots : OnCpu(d, e) => ctx[d] = <<gen[e], e>>
BY DEF IInv, RunsWhatItLoaded, OnCpu, Id

(* A processor that runs nothing, and one that comes from its environment.     *)
LEMMA PreIdle ==
    ASSUME IInv, NEW c \in CPUs, mode[c] \in {"boot", "halted"}, UNCHANGED gen
    PROVE  SchedPre(c, status, cur[c])
<1>1. cur[c] = None
  BY DEF IInv, CurMatchesMode
<1>2. \A d \in CPUs \ {c} : ~OnCpu(d, None)
  BY NoneAssumption DEF IInv, CurMatchesMode, OnCpu
<1>3. \A e \in Slots : ~OnCpu(c, e)
  BY DEF OnCpu
<1> QED
  BY <1>1, <1>2, <1>3, OthersKeepCtx, NoneAssumption
     DEF SchedPre, IInv, TypeOK, StatusTellsWhoRuns

LEMMA PreTrapped ==
    ASSUME IInv, NEW c \in CPUs, mode[c] = "user", status[cur[c]] # "DYING",
           UNCHANGED gen
    PROVE  SchedPre(c, status, cur[c])
<1>1. /\ cur[c] \in Slots
      /\ status[cur[c]] = "RUNNING"
      /\ \A d \in CPUs \ {c} : ~OnCpu(d, cur[c])
  BY EntryFacts
<1>2. \A e \in Slots : OnCpu(c, e) <=> e = cur[c]
  BY <1>1 DEF OnCpu
<1> QED
  BY <1>1, <1>2, OthersKeepCtx DEF SchedPre, IInv, TypeOK, StatusTellsWhoRuns

------------------------------------------------------------------------------
(* What the handlers do to the table. *)

\* env_free() puts the slot in front of a list that did not hold it.
LEMMA FreeSlotTable ==
    ASSUME IInv, NEW e \in Slots, status[e] # "FREE", FreeSlot(e)
    PROVE  TableOK([status EXCEPT ![e] = "FREE"])
<1> DEFINE st == [status EXCEPT ![e] = "FREE"]
<1>1. /\ pgdir' = [pgdir EXCEPT ![e] = FALSE]
      /\ freeList' = <<e>> \o freeList
      /\ UNCHANGED <<gen, parent, recving, fresh>>
  BY DEF FreeSlot
<1>2. /\ freeList \in Seq(Slots) /\ <<e>> \in Seq(Slots)
      /\ Len(<<e>>) = 1 /\ <<e>>[1] = e
  BY DEF IInv, TypeOK
<1>3. /\ freeList' \in Seq(Slots)
      /\ Len(freeList') = 1 + Len(freeList)
      /\ \A i \in 1 .. 1 + Len(freeList) :
            freeList'[i] = IF i = 1 THEN e ELSE freeList[i - 1]
  <2>1. /\ <<e>> \o freeList \in Seq(Slots)
        /\ Len(<<e>> \o freeList) = Len(<<e>>) + Len(freeList)
        /\ \A i \in 1 .. Len(<<e>>) + Len(freeList) : (<<e>> \o freeList)[i] =
              IF i <= Len(<<e>>) THEN <<e>>[i] ELSE freeList[i - Len(<<e>>)]
    BY <1>2, ConcatProperties
  <2> QED
    BY <1>1, <1>2, <2>1
<1>4. Len(freeList) \in Nat /\ DOMAIN freeList = 1 .. Len(freeList)
      /\ DOMAIN freeList' = 1 .. 1 + Len(freeList)
  BY <1>2, <1>3, LenProperties
<1>5. \A i \in DOMAIN freeList : freeList[i] # e
  BY DEF IInv, FreeListExact
<1>6. \A i, j \in DOMAIN freeList' : freeList'[i] = freeList'[j] => i = j
  <2> SUFFICES ASSUME NEW i \in DOMAIN freeList', NEW j \in DOMAIN freeList',
                      freeList'[i] = freeList'[j]
               PROVE  i = j
    OBVIOUS
  <2>1. i # 1 => i - 1 \in DOMAIN freeList /\ freeList'[i] = freeList[i - 1]
    BY <1>3, <1>4
  <2>2. j # 1 => j - 1 \in DOMAIN freeList /\ freeList'[j] = freeList[j - 1]
    BY <1>3, <1>4
  <2>3. (i = 1 => freeList'[i] = e) /\ (j = 1 => freeList'[j] = e)
    BY <1>3, <1>4
  <2>4. \A k, l \in DOMAIN freeList : freeList[k] = freeList[l] => k = l
    BY DEF IInv, FreeListExact
  <2> QED
    BY <1>4, <1>5, <2>1, <2>2, <2>3, <2>4
<1>7. \A f \in Slots : st[f] = "FREE" <=> \E i \in DOMAIN freeList' : freeList'[i] = f
  <2> SUFFICES ASSUME NEW f \in Slots
               PROVE  st[f] = "FREE" <=> \E i \in DOMAIN freeList' : freeList'[i] = f
    OBVIOUS
  <2>1. CASE f = e
    <3>1. 1 \in DOMAIN freeList' /\ freeList'[1] = e
      BY <1>3, <1>4
    <3>2. st[e] = "FREE"
      BY DEF IInv, TypeOK
    <3> QED
      BY <2>1, <3>1, <3>2
  <2>2. CASE f # e
    <3>1. st[f] = status[f]
      BY <2>2 DEF IInv, TypeOK
    <3>2. status[f] = "FREE" <=> \E i \in DOMAIN freeList : freeList[i] = f
      BY DEF IInv, FreeListExact
    <3>3. ASSUME NEW i \in DOMAIN freeList, freeList[i] = f
          PROVE  \E k \in DOMAIN freeList' : freeList'[k] = f
      <4>1. i + 1 \in DOMAIN freeList' /\ freeList'[i + 1] = freeList[i]
        BY <1>3, <1>4
      <4> QED
        BY <3>3, <4>1
    <3>4. ASSUME NEW k \in DOMAIN freeList', freeList'[k] = f
          PROVE  \E i \in DOMAIN freeList : freeList[i] = f
      <4>1. k # 1
        BY <1>3, <1>4, <2>2, <3>4
      <4>2. k - 1 \in DOMAIN freeList /\ freeList[k - 1] = f
        BY <1>3, <1>4, <3>4, <4>1
      <4> QED
        BY <4>2
    <3> QED
      BY <3>1, <3>2, <3>3, <3>4
  <2> QED
    BY <2>1, <2>2
<1>8. \A f \in Slots : pgdir'[f] <=> st[f] # "FREE"
  BY <1>1 DEF IInv, TypeOK, PgdirMatches
<1>9. \A f \in Slots : /\ st[f] # "FREE" /\ recving'[f] => st[f] = "NOT_RUNNABLE"
                       /\ st[f] # "FREE" /\ fresh'[f] => st[f] = "NOT_RUNNABLE" /\ ~recving'[f]
  BY <1>1 DEF IInv, TypeOK, RecvBlocks, NotRunBeforeStarted, FreshDoNotReceive
<1> QED
  BY <1>1, <1>3, <1>6, <1>7, <1>8, <1>9 DEF TableOK, IInv, TypeOK

\* env_alloc() takes the head, which was free and is listed nowhere else.
LEMMA AllocSlotTable ==
    ASSUME IInv, freeList # << >>, NEW p \in Ids, AllocSlot(Head(freeList), p)
    PROVE  /\ Head(freeList) \in Slots
           /\ status[Head(freeList)] = "FREE"
           /\ TableOK([status EXCEPT ![Head(freeList)] = "NOT_RUNNABLE"])
<1> DEFINE e == Head(freeList)
           st == [status EXCEPT ![e] = "NOT_RUNNABLE"]
<1>1. /\ gen' = [gen EXCEPT ![e] = IF @ >= MaxGen THEN 1 ELSE @ + 1]
      /\ parent' = [parent EXCEPT ![e] = p]
      /\ recving' = [recving EXCEPT ![e] = FALSE]
      /\ pgdir' = [pgdir EXCEPT ![e] = TRUE]
      /\ fresh' = [fresh EXCEPT ![e] = TRUE]
      /\ freeList' = Tail(freeList)
  BY DEF AllocSlot
<1>2. freeList \in Seq(Slots)
  BY DEF IInv, TypeOK
<1>3. /\ Len(freeList) \in Nat \ {0} /\ DOMAIN freeList = 1 .. Len(freeList)
      /\ e \in Slots /\ e = freeList[1] /\ 1 \in DOMAIN freeList
  BY <1>2, EmptySeq, LenProperties, HeadTailProperties
<1>4. status[e] = "FREE"
  BY <1>3 DEF IInv, FreeListExact
<1>5. /\ freeList' \in Seq(Slots)
      /\ DOMAIN freeList' = 1 .. Len(freeList) - 1
      /\ \A i \in DOMAIN freeList' : freeList'[i] = freeList[i + 1]
  <2>1. /\ Tail(freeList) \in Seq(Slots)
        /\ Len(Tail(freeList)) = Len(freeList) - 1
        /\ \A i \in 1 .. Len(Tail(freeList)) : Tail(freeList)[i] = freeList[i + 1]
    BY <1>2, HeadTailProperties
  <2> QED
    BY <1>1, <2>1, LenProperties
<1>6. \A i, j \in DOMAIN freeList' : freeList'[i] = freeList'[j] => i = j
  <2> SUFFICES ASSUME NEW i \in DOMAIN freeList', NEW j \in DOMAIN freeList',
                      freeList'[i] = freeList'[j]
               PROVE  i = j
    OBVIOUS
  <2>1. i + 1 \in DOMAIN freeList /\ j + 1 \in DOMAIN freeList
    BY <1>3, <1>5
  <2>2. i + 1 = j + 1
    BY <1>5, <2>1 DEF IInv, FreeListExact
  <2> QED
    BY <1>3, <1>5, <2>2
<1>7. \A f \in Slots : st[f] = "FREE" <=> \E i \in DOMAIN freeList' : freeList'[i] = f
  <2> SUFFICES ASSUME NEW f \in Slots
               PROVE  st[f] = "FREE" <=> \E i \in DOMAIN freeList' : freeList'[i] = f
    OBVIOUS
  <2>1. status[f] = "FREE" <=> \E i \in DOMAIN freeList : freeList[i] = f
    BY DEF IInv, FreeListExact
  <2>2. ASSUME NEW i \in DOMAIN freeList', freeList'[i] = f
        PROVE  st[f] = "FREE"
    <3>1. i + 1 \in DOMAIN freeList /\ freeList[i + 1] = f /\ i + 1 # 1
      BY <1>3, <1>5, <2>2
    <3>2. f # e
      BY <1>3, <3>1 DEF IInv, FreeListExact
    <3> QED
      BY <2>1, <3>1, <3>2 DEF IInv, TypeOK
  <2>3. ASSUME st[f] = "FREE"
        PROVE  \E i \in DOMAIN freeList' : freeList'[i] = f
    <3>1. f # e /\ status[f] = "FREE"
      BY <1>3, <2>3 DEF IInv, TypeOK
    <3>2. PICK k \in DOMAIN freeList : freeList[k] = f
      BY <2>1, <3>1
    <3>3. k # 1
      BY <1>3, <3>1, <3>2
    <3>4. k - 1 \in DOMAIN freeList' /\ (k - 1) + 1 = k
      BY <1>3, <1>5, <3>3
    <3>5. freeList'[k - 1] = f
      BY <1>5, <3>2, <3>4
    <3> QED
      BY <3>4, <3>5
  <2> QED
    BY <2>2, <2>3
<1>8. \A f \in Slots : pgdir'[f] <=> st[f] # "FREE"
  BY <1>1, <1>3 DEF IInv, TypeOK, PgdirMatches
<1>9. \A f \in Slots : /\ st[f] # "FREE" /\ recving'[f] => st[f] = "NOT_RUNNABLE"
                       /\ st[f] # "FREE" /\ fresh'[f] => st[f] = "NOT_RUNNABLE" /\ ~recving'[f]
  BY <1>1, <1>3 DEF IInv, TypeOK, RecvBlocks, NotRunBeforeStarted, FreshDoNotReceive
<1>10. /\ gen' \in [Slots -> 0 .. MaxGen]
       /\ parent' \in [Slots -> Ids \cup {None}]
       /\ recving' \in [Slots -> BOOLEAN]
       /\ pgdir' \in [Slots -> BOOLEAN]
       /\ fresh' \in [Slots -> BOOLEAN]
  BY <1>1, <1>3, SizeAssumption DEF IInv, TypeOK
<1> QED
  BY <1>3, <1>4, <1>5, <1>6, <1>7, <1>8, <1>9, <1>10 DEF TableOK

------------------------------------------------------------------------------
(* One lemma for each kernel entry. *)

LEMMA FirstYieldInv == ASSUME IInv, NEW c \in CPUs, FirstYield(c) PROVE IInv'
<1>1. /\ LockComesBack /\ mode[c] \in {"boot", "halted"} /\ UNCHANGED slotVars
      /\ SchedYield(c, status, cur[c])
  BY DEF FirstYield
<1>2. SchedPre(c, status, cur[c]) /\ TableOK(status)
  BY <1>1, PreIdle, TableUnchanged DEF slotVars
<1> QED
  BY <1>1, <1>2, SchedYieldPost, Assemble DEF SchedPre

LEMMA WakeUpInv == ASSUME IInv, NEW c \in CPUs, WakeUp(c) PROVE IInv'
<1>1. /\ LockComesBack /\ mode[c] \in {"boot", "halted"} /\ UNCHANGED slotVars
      /\ SchedYield(c, status, cur[c])
  BY DEF WakeUp
<1>2. SchedPre(c, status, cur[c]) /\ TableOK(status)
  BY <1>1, PreIdle, TableUnchanged DEF slotVars
<1> QED
  BY <1>1, <1>2, SchedYieldPost, Assemble DEF SchedPre

\* The environment that is freed is the processor's own: no other runs it.
LEMMA PreFreed ==
    ASSUME IInv, NEW c \in CPUs, mode[c] = "user", UNCHANGED gen
    PROVE  SchedPre(c, [status EXCEPT ![cur[c]] = "FREE"], None)
<1>1. /\ cur[c] \in Slots
      /\ \A d \in CPUs \ {c} : ~OnCpu(d, cur[c])
  BY EntryFacts
<1>2. \A e \in Slots : OnCpu(c, e) <=> e = cur[c]
  BY <1>1 DEF OnCpu
<1>3. \A d \in CPUs \ {c} : ~OnCpu(d, None)
  BY NoneAssumption DEF IInv, CurMatchesMode, OnCpu
<1> QED
  BY <1>1, <1>2, <1>3, OthersKeepCtx, NoneAssumption
     DEF SchedPre, IInv, TypeOK, StatusTellsWhoRuns, Statuses

LEMMA CollectInv == ASSUME IInv, NEW c \in CPUs, Collect(c) PROVE IInv'
<1> DEFINE st == [status EXCEPT ![cur[c]] = "FREE"]
<1>1. /\ LockComesBack /\ mode[c] = "user" /\ status[cur[c]] = "DYING"
      /\ cur[c] \in Slots
  BY EntryFacts DEF Collect
<1>2. FreeSlot(cur[c]) /\ SchedYield(c, st, None)
  BY <1>1 DEF Collect, IInv, PgdirMatches
<1>3. TableOK(st)
  BY <1>1, <1>2, FreeSlotTable
<1>4. SchedPre(c, st, None)
  BY <1>1, <1>2, PreFreed DEF FreeSlot
<1> QED
  BY <1>1, <1>2, <1>3, <1>4, SchedYieldPost, Assemble DEF SchedPre

\* What every trap past the zombie check has in hand.
LEMMA TrappedFacts ==
    ASSUME IInv, NEW c \in CPUs, Trapped(c)
    PROVE  /\ LockComesBack /\ mode[c] = "user" /\ status[cur[c]] # "DYING"
           /\ cur[c] \in Slots /\ status[cur[c]] = "RUNNING"
           /\ \A d \in CPUs \ {c} : ~OnCpu(d, cur[c])
           /\ \A e \in Slots : OnCpu(c, e) <=> e = cur[c]
BY EntryFacts DEF Trapped, OnCpu

LEMMA YieldInv == ASSUME IInv, NEW c \in CPUs, Yield(c) PROVE IInv'
<1>1. Trapped(c) /\ UNCHANGED slotVars /\ SchedYield(c, status, cur[c])
  BY DEF Yield
<1>2. SchedPre(c, status, cur[c]) /\ TableOK(status)
  BY <1>1, TrappedFacts, PreTrapped, TableUnchanged DEF slotVars
<1> QED
  BY <1>1, <1>2, TrappedFacts, SchedYieldPost, Assemble DEF SchedPre

LEMMA TrapAndReturnInv == ASSUME IInv, NEW c \in CPUs, TrapAndReturn(c) PROVE IInv'
<1>1. Trapped(c) /\ UNCHANGED slotVars /\ TrapReturn(c, status, cur[c])
  BY DEF TrapAndReturn
<1>2. SchedPre(c, status, cur[c]) /\ TableOK(status)
  BY <1>1, TrappedFacts, PreTrapped, TableUnchanged DEF slotVars
<1> QED
  BY <1>1, <1>2, TrappedFacts, TrapReturnPost, Assemble DEF SchedPre

LEMMA PageFaultUpcallInv ==
    ASSUME IInv, NEW c \in CPUs, PageFaultUpcall(c) PROVE IInv'
<1>1. Trapped(c) /\ UNCHANGED slotVars /\ EnvRun(c, cur[c], status, cur[c])
  BY DEF PageFaultUpcall
<1>2. SchedPre(c, status, cur[c]) /\ TableOK(status)
  BY <1>1, TrappedFacts, PreTrapped, TableUnchanged DEF slotVars
<1>3. LockComesBack /\ cur[c] \in Slots /\ status[cur[c]] = "RUNNING"
  BY <1>1, TrappedFacts
<1>4. SchedPost(status)
  BY <1>1, <1>2, <1>3, EnvRunPost
<1> QED
  BY <1>2, <1>4, Assemble DEF SchedPre

(* env_destroy() of any environment that is not already dying: marked when     *)
(* another processor runs it, freed otherwise.                                 *)
LEMMA EnvDestroyInv ==
    ASSUME IInv, NEW c \in CPUs, NEW e \in Slots, Trapped(c),
           status[e] \notin {"FREE", "DYING"}, EnvDestroy(c, e)
    PROVE  IInv'
<1> DEFINE marked == [status EXCEPT ![e] = "DYING"]
           freed == [status EXCEPT ![e] = "FREE"]
<1>1. /\ LockComesBack /\ cur[c] \in Slots /\ status[cur[c]] = "RUNNING"
      /\ mode[c] = "user"
      /\ \A d \in CPUs \ {c} : ~OnCpu(d, cur[c])
      /\ \A f \in Slots : OnCpu(c, f) <=> f = cur[c]
  BY TrappedFacts
<1>2. CASE status[e] = "RUNNING" /\ cur[c] # e
  <2>1. TrapReturn(c, marked, cur[c]) /\ UNCHANGED slotVars
    BY <1>2 DEF EnvDestroy
  <2>2. TableOK(marked)
    <3>1. TableOK(status)
      BY <2>1, TableUnchanged
    <3>2. ~recving[e] /\ ~fresh[e]
      BY <1>2 DEF IInv, RecvBlocks, NotRunBeforeStarted
    <3> QED
      BY <1>2, <2>1, <3>1, <3>2 DEF TableOK, slotVars, IInv, TypeOK
  <2>3. SchedPre(c, marked, cur[c])
    <3>1. marked \in [Slots -> Statuses]
      BY DEF IInv, TypeOK, Statuses
    <3>2. ASSUME NEW f \in Slots
          PROVE  marked[f] \in {"RUNNING", "DYING"} <=>
                    \/ \E d \in CPUs \ {c} : OnCpu(d, f)
                    \/ f = cur[c] /\ marked[f] = "RUNNING"
      <4>1. status[f] \in {"RUNNING", "DYING"} <=> \E d \in CPUs : OnCpu(d, f)
        BY DEF IInv, StatusTellsWhoRuns
      <4>2. marked[f] \in {"RUNNING", "DYING"} <=> status[f] \in {"RUNNING", "DYING"}
        BY <1>2 DEF IInv, TypeOK
      <4>3. marked[cur[c]] = "RUNNING"
        BY <1>1, <1>2 DEF IInv, TypeOK
      <4> QED
        BY <1>1, <4>1, <4>2, <4>3
    <3>3. \A d \in CPUs \ {c}, f \in Slots : OnCpu(d, f) => ctx[d] = <<gen'[f], f>>
      BY <2>1, OthersKeepCtx DEF slotVars
    <3> QED
      BY <1>1, <3>1, <3>2, <3>3 DEF SchedPre
  <2> QED
    BY ZenonT(30), <1>1, <2>1, <2>2, <2>3, TrapReturnPost, Assemble DEF SchedPre
<1>3. CASE ~(status[e] = "RUNNING" /\ cur[c] # e)
  <2>1. /\ FreeSlot(e)
        /\ IF cur[c] = e THEN SchedYield(c, freed, None)
                         ELSE TrapReturn(c, freed, cur[c])
    BY <1>3 DEF EnvDestroy, IInv, PgdirMatches
  <2>2. TableOK(freed)
    BY <2>1, FreeSlotTable
  <2>3. CASE cur[c] = e
    <3>1. SchedPre(c, freed, None)
      BY <1>1, <2>1, <2>3, PreFreed DEF FreeSlot
    <3> QED
      BY ZenonT(30), <1>1, <2>1, <2>2, <2>3, <3>1, SchedYieldPost, Assemble DEF SchedPre
  <2>4. CASE cur[c] # e
    <3>1. \A d \in CPUs : ~OnCpu(d, e)
      BY <1>3, <2>4 DEF IInv, StatusTellsWhoRuns
    <3>2. SchedPre(c, freed, cur[c])
      BY <1>1, <2>1, <2>4, <3>1, OthersKeepCtx
         DEF SchedPre, FreeSlot, IInv, TypeOK, StatusTellsWhoRuns, Statuses
    <3> QED
      BY ZenonT(30), <1>1, <2>1, <2>2, <2>4, <3>2, TrapReturnPost, Assemble DEF SchedPre
  <2> QED
    BY <2>3, <2>4
<1> QED
  BY <1>2, <1>3

LEMMA FaultInv == ASSUME IInv, NEW c \in CPUs, Fault(c) PROVE IInv'
BY TrappedFacts, EnvDestroyInv DEF Fault

LEMMA KillInv ==
    ASSUME IInv, NEW c \in CPUs, NEW e \in Slots, Kill(c, e) PROVE IInv'
<1>1. Trapped(c) /\ EnvDestroy(c, e) /\ status[e] # "DYING" /\ Permitted(c, e)
  BY DEF Kill, Destroy
<1>2. status[e] # "FREE"
  BY <1>1, TrappedFacts DEF Permitted
<1> QED
  BY <1>1, <1>2, EnvDestroyInv

LEMMA ExoforkInv == ASSUME IInv, NEW c \in CPUs, Exofork(c) PROVE IInv'
<1> DEFINE e == Head(freeList)
           st == [status EXCEPT ![e] = "NOT_RUNNABLE"]
<1>1. /\ Trapped(c) /\ freeList # << >>
      /\ AllocSlot(e, Id(cur[c])) /\ TrapReturn(c, st, cur[c])
  BY DEF Exofork
<1>2. /\ LockComesBack /\ cur[c] \in Slots /\ status[cur[c]] = "RUNNING"
      /\ \A d \in CPUs \ {c} : ~OnCpu(d, cur[c])
      /\ \A f \in Slots : OnCpu(c, f) <=> f = cur[c]
  BY <1>1, TrappedFacts
<1>3. Id(cur[c]) \in Ids
  BY <1>2 DEF Id, Ids, IInv, TypeOK
<1>4. e \in Slots /\ status[e] = "FREE" /\ TableOK(st)
  BY <1>1, <1>3, AllocSlotTable
<1>5. \A d \in CPUs : ~OnCpu(d, e)
  BY <1>4 DEF IInv, StatusTellsWhoRuns
<1>6. \A f \in Slots : f # e => gen'[f] = gen[f]
  BY <1>1 DEF AllocSlot, IInv, TypeOK
<1>7. SchedPre(c, st, cur[c])
  <2>1. st \in [Slots -> Statuses]
    BY <1>4 DEF IInv, TypeOK, Statuses
  <2>2. \A f \in Slots : st[f] \in {"RUNNING", "DYING"} <=>
                             \/ \E d \in CPUs \ {c} : OnCpu(d, f)
                             \/ f = cur[c] /\ st[f] = "RUNNING"
    BY <1>2, <1>4, <1>5 DEF IInv, TypeOK, StatusTellsWhoRuns
  <2>3. \A d \in CPUs \ {c}, f \in Slots : OnCpu(d, f) => ctx[d] = <<gen'[f], f>>
    BY <1>5, <1>6, OthersKeepCtx
  <2> QED
    BY <1>2, <2>1, <2>2, <2>3 DEF SchedPre
<1>8. SchedPost(st)
  BY <1>1, <1>2, <1>4, <1>7, TrapReturnPost
<1> QED
  BY <1>4, <1>7, <1>8, Assemble DEF SchedPre

LEMMA StartInv ==
    ASSUME IInv, NEW c \in CPUs, NEW e \in Slots, Start(c, e) PROVE IInv'
<1> DEFINE st == [status EXCEPT ![e] = "RUNNABLE"]
<1>1. /\ Trapped(c) /\ e # cur[c] /\ fresh[e] /\ Permitted(c, e)
      /\ TrapReturn(c, st, cur[c])
      /\ fresh' = [fresh EXCEPT ![e] = @ /\ "RUNNABLE" = "NOT_RUNNABLE"]
      /\ UNCHANGED <<gen, parent, recving, pgdir, freeList>>
  BY DEF Start, SetStatus
<1>2. /\ LockComesBack /\ mode[c] = "user" /\ status[cur[c]] # "DYING"
  BY <1>1, TrappedFacts
<1>3. status[e] = "NOT_RUNNABLE" /\ ~recving[e]
  BY <1>1 DEF Permitted, IInv, NotRunBeforeStarted, FreshDoNotReceive
<1>4. fresh' = [fresh EXCEPT ![e] = FALSE]
  BY <1>1
<1>5. TableOK(st)
  BY <1>1, <1>3, <1>4
     DEF TableOK, IInv, TypeOK, PgdirMatches, FreeListExact, RecvBlocks,
         NotRunBeforeStarted, FreshDoNotReceive
<1>6. SchedPre(c, st, cur[c])
  <2>1. SchedPre(c, status, cur[c])
    BY <1>1, <1>2, PreTrapped
  <2> QED
    BY <1>1, <1>3, <2>1 DEF SchedPre, Statuses, IInv, TypeOK
<1>7. cur[c] \in Slots \cup {None} /\ mode[c] = "user"
  BY <1>2 DEF IInv, TypeOK
<1>8. SchedPost(st)
  BY <1>1, <1>2, <1>5, <1>6, <1>7, TrapReturnPost
<1>9. st \in [Slots -> Statuses]
  BY <1>6 DEF SchedPre
<1> HIDE DEF st
<1> QED
  BY <1>5, <1>8, <1>9, Assemble

LEMMA IpcRecvInv == ASSUME IInv, NEW c \in CPUs, IpcRecv(c) PROVE IInv'
<1> DEFINE e == cur[c]
           st == [status EXCEPT ![e] = "NOT_RUNNABLE"]
<1>1. /\ Trapped(c) /\ SchedYield(c, st, e)
      /\ recving' = [recving EXCEPT ![e] = TRUE]
      /\ UNCHANGED <<gen, parent, pgdir, freeList, fresh>>
  BY DEF IpcRecv
<1>2. /\ LockComesBack /\ mode[c] = "user" /\ e \in Slots /\ status[e] = "RUNNING"
      /\ \A d \in CPUs \ {c} : ~OnCpu(d, e)
  BY <1>1, TrappedFacts
<1>3. TableOK(st)
  BY <1>1, <1>2
     DEF TableOK, IInv, TypeOK, PgdirMatches, FreeListExact, RecvBlocks,
         NotRunBeforeStarted, FreshDoNotReceive
<1>4. SchedPre(c, st, e)
  <2>1. SchedPre(c, status, e)
    BY <1>1, <1>2, PreTrapped
  <2> QED
    BY <1>2, <2>1 DEF SchedPre, Statuses, IInv, TypeOK
<1> QED
  BY <1>1, <1>2, <1>3, <1>4, SchedYieldPost, Assemble DEF SchedPre

LEMMA IpcTrySendInv ==
    ASSUME IInv, NEW c \in CPUs, NEW e \in Slots, IpcTrySend(c, e) PROVE IInv'
<1> DEFINE st == [status EXCEPT ![e] = "RUNNABLE"]
<1>1. /\ Trapped(c) /\ recving[e] /\ (e = cur[c] \/ status[e] # "FREE")
      /\ TrapReturn(c, st, cur[c])
      /\ recving' = [recving EXCEPT ![e] = FALSE]
      /\ UNCHANGED <<gen, parent, pgdir, freeList, fresh>>
  BY DEF IpcTrySend
<1>2. /\ LockComesBack /\ mode[c] = "user" /\ status[cur[c]] = "RUNNING"
      /\ cur[c] \in Slots
  BY <1>1, TrappedFacts
<1>3. status[e] = "NOT_RUNNABLE" /\ e # cur[c] /\ ~fresh[e]
  BY <1>1, <1>2 DEF IInv, RecvBlocks, FreshDoNotReceive
<1>4. TableOK(st)
  BY <1>1, <1>3
     DEF TableOK, IInv, TypeOK, PgdirMatches, FreeListExact, RecvBlocks,
         NotRunBeforeStarted, FreshDoNotReceive
<1>5. SchedPre(c, st, cur[c])
  <2>1. SchedPre(c, status, cur[c])
    BY <1>1, <1>2, PreTrapped
  <2> QED
    BY <1>3, <2>1 DEF SchedPre, Statuses, IInv, TypeOK
<1> QED
  BY ZenonT(30), <1>1, <1>2, <1>4, <1>5, TrapReturnPost, Assemble DEF SchedPre

------------------------------------------------------------------------------
(* Boot: NInitial runnable environments, the other slots listed in order.      *)
LEMMA InitInv == Init => IInv
<1> SUFFICES ASSUME Init PROVE IInv
  OBVIOUS
<1> USE SizeAssumption, NoneAssumption DEF Init
<1>1. /\ freeList \in Seq(Slots)
      /\ DOMAIN freeList = 1 .. NENV - NInitial
      /\ \A i \in DOMAIN freeList : freeList[i] = NInitial + i - 1
  <2>1. \A i \in 1 .. NENV - NInitial : NInitial + i - 1 \in Slots
    BY DEF Slots
  <2>2. NENV - NInitial \in Nat
    OBVIOUS
  <2>3. freeList \in [1 .. NENV - NInitial -> Slots]
    BY <2>1
  <2>4. freeList \in Seq(Slots)
    BY <2>2, <2>3, SeqDef
  <2> QED
    BY <2>4
<1>2. TypeOK
  BY <1>1 DEF TypeOK, Statuses, Modes, Ids, Slots
<1>3. FreeListExact
  <2>1. \A i, j \in DOMAIN freeList : freeList[i] = freeList[j] => i = j
    BY <1>1
  <2>2. \A e \in Slots : status[e] = "FREE" <=> e >= NInitial
    BY DEF Slots
  <2>3. ASSUME NEW e \in Slots, e >= NInitial
        PROVE  \E i \in DOMAIN freeList : freeList[i] = e
    <3>1. e - NInitial + 1 \in DOMAIN freeList /\ freeList[e - NInitial + 1] = e
      BY <1>1, <2>3 DEF Slots
    <3> QED
      BY <3>1
  <2>4. \A i \in DOMAIN freeList : freeList[i] >= NInitial
    BY <1>1
  <2>5. ASSUME NEW e \in Slots
        PROVE  status[e] = "FREE" <=> \E i \in DOMAIN freeList : freeList[i] = e
    <3>1. e \in Int
      BY DEF Slots
    <3>2. CASE e >= NInitial
      BY <3>2, <2>2, <2>3
    <3>3. CASE ~(e >= NInitial)
      BY <3>3, <2>2, <2>4
    <3> QED
      BY <3>2, <3>3
  <2> HIDE DEF Init
  <2> QED
    BY <2>1, <2>5 DEF FreeListExact
<1>4. /\ CurMatchesMode /\ PgdirMatches /\ OneCpuPerEnv /\ StatusTellsWhoRuns
      /\ RunsWhatItLoaded /\ RecvBlocks /\ NotRunBeforeStarted /\ FreshDoNotReceive
      /\ NoPanic /\ MonitorOnlyWhenIdle
  BY DEF CurMatchesMode, PgdirMatches, OneCpuPerEnv, StatusTellsWhoRuns,
         RunsWhatItLoaded, RecvBlocks, NotRunBeforeStarted, FreshDoNotReceive,
         NoPanic, MonitorOnlyWhenIdle, OnCpu
<1> QED
  BY <1>2, <1>3, <1>4 DEF IInv

LEMMA NextInv == IInv /\ [LibNext]_vars => IInv'
<1> SUFFICES ASSUME IInv, [LibNext]_vars PROVE IInv'
  OBVIOUS
<1>1. ASSUME NEW c \in CPUs, KernelStep(c) PROVE IInv'
  BY <1>1, FirstYieldInv, WakeUpInv, CollectInv DEF KernelStep
<1>2. ASSUME NEW c \in CPUs, StableStep(c) PROVE IInv'
  BY <1>1, <1>2, YieldInv, TrapAndReturnInv, PageFaultUpcallInv, ExoforkInv,
     IpcRecvInv, StartInv, IpcTrySendInv DEF StableStep
<1>3. CASE UNCHANGED vars
  BY <1>3 DEF vars, envVars, cpuVars, IInv, TypeOK, CurMatchesMode, PgdirMatches,
              OneCpuPerEnv, StatusTellsWhoRuns, RunsWhatItLoaded, FreeListExact,
              RecvBlocks, NotRunBeforeStarted, FreshDoNotReceive, NoPanic,
              MonitorOnlyWhenIdle, OnCpu, Id
<1> QED
  BY <1>2, <1>3, FaultInv, KillInv DEF LibNext

(* The inductive invariant holds in every state LibSpec reaches.               *)
THEOREM Invariance == LibSpec => []IInv
BY InitInv, NextInv, PTL DEF LibSpec

(* Type correctness of the environment table and the processors.              *)
THEOREM TypeCorrect == LibSpec => []TypeOK
BY Invariance, PTL DEF IInv

(* sched_yield() gives an environment to one processor at a time, for any      *)
(* number of processors and environments.                                      *)
THEOREM OneCpu == LibSpec => []OneCpuPerEnv
BY Invariance, PTL DEF IInv

(* env_status is RUNNING or DYING exactly for what the processors run.          *)
THEOREM StatusesAgree == LibSpec => []StatusTellsWhoRuns
BY Invariance, PTL DEF IInv

(* No environment is freed, nor its slot reused, under the processor that runs *)
(* it, although any parent may destroy it at any moment.                        *)
THEOREM NotFreedWhileRunning == LibSpec => []RunsWhatItLoaded
BY Invariance, PTL DEF IInv

(* env_free_list always holds the free slots, each once.                       *)
THEOREM FreeListCorrect == LibSpec => []FreeListExact
BY Invariance, PTL DEF IInv

(* A receiver stays blocked until a message arrives, and a child under          *)
(* construction until its parent starts it.                                     *)
THEOREM BlockedUntilTold == LibSpec => [](RecvBlocks /\ NotRunBeforeStarted)
<1>1. IInv => RecvBlocks /\ NotRunBeforeStarted
  BY DEF IInv
<1> QED
  BY <1>1, Invariance, PTL

(* The kernel never frees an environment twice nor runs a freed one, and gives  *)
(* up in the monitor only when no processor is in user mode.                    *)
THEOREM KernelStaysUp == LibSpec => [](NoPanic /\ MonitorOnlyWhenIdle)
<1>1. IInv => NoPanic /\ MonitorOnlyWhenIdle
  BY DEF IInv
<1> QED
  BY <1>1, Invariance, PTL
=============================================================================
